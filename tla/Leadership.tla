------------------------------- MODULE Leadership -------------------------------
(***************************************************************************)
(* What the replication manager promises about who leads, without its      *)
(* messages, timers and replica lists.  leader[s] is the server that s     *)
(* takes for the primary.  A server ends its allegiance only by claiming   *)
(* the role itself or by following a higher server that has really claimed *)
(* it; nothing promises that two servers never lead at the same time.      *)
(***************************************************************************)
EXTENDS Integers

CONSTANTS
  Server, PRIMARY_PORT,  \* the ports, and the one of the first primary
  NoLeader               \* no server; stands for one that does not run

VARIABLES leader, claimed

lvars == <<leader, claimed>>

Running(s) == leader[s] # NoLeader

Init ==
  /\ leader = [s \in Server |-> NoLeader]
  /\ claimed = {}

\* A started server takes the server on PRIMARY_PORT for the primary, and is
\* the primary if it is that server.
Boot(s) ==
  /\ ~Running(s)
  /\ leader' = [leader EXCEPT ![s] = PRIMARY_PORT]
  /\ claimed' = IF s = PRIMARY_PORT THEN claimed \cup {s} ELSE claimed

Claim(s) ==
  /\ Running(s)
  /\ leader' = [leader EXCEPT ![s] = s]
  /\ claimed' = claimed \cup {s}

Follow(s, t) ==
  /\ Running(s)
  /\ t \in claimed /\ t > s
  /\ leader' = [leader EXCEPT ![s] = t]
  /\ UNCHANGED claimed

Stop(s) ==
  /\ Running(s)
  /\ leader' = [leader EXCEPT ![s] = NoLeader]
  /\ UNCHANGED claimed

Next == \E s \in Server : Boot(s) \/ Claim(s) \/ Stop(s) \/ \E t \in Server : Follow(s, t)

Spec == Init /\ [][Next]_lvars
=================================================================================

--------------------------- MODULE MCRequestService ---------------------------
(***************************************************************************)
(* Instances of RequestService for TLC, of two servers.                    *)
(***************************************************************************)
EXTENDS RequestService

\* What may be passed to update_state while numbers are added and repeated.
SmallSums == 0..4

SmallSeqns == 1..4

\* The second server has joined and both know each other's address; every
\* client is connected.  ServiceInit reaches this state by StartStep, the two
\* copies of the JOIN_REQUEST, the lists sent for them, and Connect.
Connected ==
  /\ up = Server
  /\ rm = [s \in Server |-> [Boot(s) EXCEPT !.replicas =
             [r \in Server |-> FreshEntry(TRUE, r = PRIMARY_PORT)]]]
  /\ queue = [s \in Server |-> <<>>]
  /\ receiver = [s \in Server |-> "ready"]
  /\ checker = [s \in Server |-> CheckerStart(s)]
  /\ joins = [s \in Server |-> 0]
  /\ starts = [s \in Server |-> 1]
  /\ updates = {}
  /\ claimed = {PRIMARY_PORT}
  /\ requests = [s \in Server |-> <<>>]
  /\ service = [s \in Server |-> Idle]
  /\ client = [c \in Client |-> [NewClient EXCEPT !.at = "ready", !.server = PRIMARY_PORT]]
  /\ replies = [c \in Client |-> <<>>]
  /\ log = <<>>

ConnectedSpec == Connected /\ [][ServiceNext]_allvars
===============================================================================

----------------------------- MODULE MCDiscord -----------------------------
(***************************************************************************)
(* Discord with two messages and two users.  Instead of symmetry, which    *)
(* liveness does not allow, the message that arrives first is m1 and its   *)
(* writer u1, and not in the second thread: no definition tells messages,  *)
(* users, or the two threads that the program did not open apart.          *)
(***************************************************************************)
EXTENDS Discord

CONSTANTS m1, m2, u1, u2

NamedNext ==
  \/ \E at \in Places \ {"other"}, says \in Sayings : Receive(m1, u1, at, says)
  \/ \E u \in Users, at \in Places, says \in Sayings :
       msg[m1].pc # "none" /\ Receive(m2, u, at, says)
  \/ \E m \in Messages : Handle(m) \/ JobEnds(m) \/ Announce(m)

NamedSpec == Init /\ [][NamedNext]_vars /\ Fairness
=============================================================================

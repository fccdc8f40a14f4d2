--------------------------- MODULE MCConversation ---------------------------
(***************************************************************************)
(* Conversation, and the Secretary in it, on a small instance: a route of  *)
(* two models for the Secretary, the second of which also answers harder   *)
(* questions, and both for the agents.  The sessions are new, so none has  *)
(* a voice yet.                                                            *)
(***************************************************************************)
EXTENDS Conversation, TLC

CONSTANTS m1, m2

Fast == <<m1, m2>>
Slow == <<m2>>
Agents == <<m1, m2>>

NewSessions == Init /\ \A s \in Sessions : voice[s] = None

NewSpec == NewSessions /\ [][Step]_vars

Symmetry == Permutations(Requests) \cup Permutations(Sessions)
=============================================================================

---------------------------- MODULE DiscordProofs ----------------------------
(***************************************************************************)
(* Proofs about Discord for any number of messages and users: a confirmed  *)
(* scope is swept once, and a job is announced only in a place from which  *)
(* its user asked for work in the same session.                            *)
(***************************************************************************)
EXTENDS Discord, FiniteSetTheorems, SequenceTheorems, WellFoundedInduction, TLAPS

(* The core has answered the message: its place and session are settled.   *)
Returned == {"send", "sending", "fail", "stuck", "done"}

(* A scope that waits for its confirmation has not been swept.             *)
Unswept ==
  \A u \in Users :
    /\ scopes[u].swept <= scopes[u].composed
    /\ pending[u].stage = "confirmation" => scopes[u].swept < scopes[u].composed

(* A message is of an admitted user and, once the core is asked or when    *)
(* its place is mapped, in a session of that user.                         *)
Fits(t) ==
  /\ t.user \in Users
  /\ t.session # NoSession => t.session.user = t.user
  /\ t.mapped \/ t.pc = "core" => t.session \in Session

(* A job belongs to a message that asked for work, which the core is       *)
(* answering or has answered, in a session.                                *)
Queue ==
  /\ \A m \in Messages : msg[m].pc \notin {"none", "ignored"} => Fits(msg[m])
  /\ \A m \in ToSet(jobs) : /\ msg[m].session \in Session /\ msg[m].says = "work"
                            /\ msg[m].pc \in Returned \cup {"core"}
  /\ \A m \in Messages : work[m].state # "none" => m \in ToSet(jobs)

(* The place a job will be announced in is that of an answered message of  *)
(* its session that asked for work.                                        *)
OwnPlace(m) ==
  \E n \in Messages :
    /\ msg[n].pc \in Returned /\ msg[n].says = "work"
    /\ msg[n].session = msg[m].session /\ msg[n].at = work[m].place

Placed ==
  \A m \in Messages :
    /\ work[m].place # "none" => m \in ToSet(jobs) /\ OwnPlace(m)
    /\ work[m].noticed \/ work[m].state \in {"notify", "posting"} => work[m].place # "none"

(* The inductive invariant.                                                *)
Inv ==
  /\ TypeOK
  /\ Unswept
  /\ Queue
  /\ Placed
-----------------------------------------------------------------------------
(* A nonempty finite set of naturals has a greatest element: strict       *)
(* inclusion of finite sets is well-founded.                               *)
LEMMA GreatestNat ==
  ASSUME NEW S \in SUBSET Nat, S # {}, IsFiniteSet(S)
  PROVE  Max(S) \in S /\ \A y \in S : Max(S) >= y
<1> DEFINE Top(T) == \E x \in T : \A y \in T : x >= y
           Bad == {T \in FiniteSubsetsOf(Nat) : T # {} /\ ~Top(T)}
<1>1. Bad = {}
  <2> SUFFICES ASSUME Bad # {} PROVE FALSE
    OBVIOUS
  <2>1. PICK T \in Bad : \A U \in Bad : <<U, T>> \notin StrictSubsetOrdering(Nat)
    <3>1. Bad \subseteq FiniteSubsetsOf(Nat)
      OBVIOUS
    <3> HIDE DEF Bad
    <3> QED
      BY <3>1, WFMin, FS_StrictSubsetOrderingWellFounded
  <2>2. T \subseteq Nat /\ IsFiniteSet(T) /\ T # {} /\ ~Top(T)
    BY DEF FiniteSubsetsOf
  <2>3. PICK x \in T : TRUE
    BY <2>2
  <2> DEFINE U == T \ {x}
  <2>4. U \subseteq Nat /\ IsFiniteSet(U) /\ U \subseteq T /\ U # T
    BY <2>2, <2>3, FS_RemoveElement
  <2>5. U # {}
    BY <2>2, <2>3
  <2>6. U \notin Bad
    <3>1. <<U, T>> \in StrictSubsetOrdering(Nat)
      BY <2>2, <2>4, Zenon DEF StrictSubsetOrdering
    <3> QED
      BY <2>1, <3>1
  <2>7. PICK m \in U : \A y \in U : m >= y
    BY <2>4, <2>5, <2>6 DEF FiniteSubsetsOf
  <2>8. Top(T)
    <3>1. m \in T /\ x \in T /\ m \in Nat /\ x \in Nat
      BY <2>2, <2>3, <2>4, <2>7
    <3>2. CASE m >= x
      BY <2>7, <3>1, <3>2
    <3>3. CASE x > m
      <4>1. \A y \in T : x >= y
        BY <2>2, <2>7, <3>1, <3>3
      <4> QED
        BY <3>1, <4>1
    <3> QED
      BY <3>1, <3>2, <3>3
  <2> QED
    BY <2>2, <2>8
<1>2. \E x \in S : \A y \in S : x >= y
  BY <1>1 DEF FiniteSubsetsOf
<1> QED
  BY <1>2 DEF Max

(* The newest job of a session that has one is a job of that session.      *)
LEMMA NewestIsOfSession ==
  ASSUME jobs \in Seq(Messages), NEW s, NEW m \in ToSet(jobs), msg[m].session = s
  PROVE  Newest(s) \in ToSet(jobs) /\ msg[Newest(s)].session = s
<1> DEFINE S == {i \in DOMAIN jobs : msg[jobs[i]].session = s}
<1>1. Len(jobs) \in Nat /\ DOMAIN jobs = 1 .. Len(jobs)
  BY LenProperties
<1>2. S \subseteq Nat /\ S \subseteq 1 .. Len(jobs)
  BY <1>1
<1>3. S # {}
  BY DEF ToSet
<1>4. IsFiniteSet(S)
  <2>1. 1 \in Int /\ Len(jobs) \in Int
    BY <1>1
  <2>2. IsFiniteSet(1 .. Len(jobs))
    BY <2>1, FS_Interval
  <2> HIDE DEF S
  <2> QED
    BY <1>2, <2>2, FS_Subset
<1>5. Max(S) \in S
  <2> HIDE DEF S
  <2> QED
    BY <1>2, <1>3, <1>4, GreatestNat
<1> QED
  BY <1>5 DEF Newest, ToSet

(* Appending adds one element.                                             *)
LEMMA AppendedElements ==
  ASSUME NEW S, NEW q \in Seq(S), NEW e \in S
  PROVE  Append(q, e) \in Seq(S) /\ ToSet(Append(q, e)) = ToSet(q) \cup {e}
<1> DEFINE r == Append(q, e)
<1>1. r \in Seq(S) /\ Len(q) \in Nat /\ DOMAIN q = 1 .. Len(q)
      /\ DOMAIN r = 1 .. Len(q) + 1 /\ r[Len(q) + 1] = e
      /\ \A i \in 1 .. Len(q) : r[i] = q[i]
  BY AppendProperties, LenProperties
<1> HIDE DEF r
<1>2. DOMAIN r = DOMAIN q \cup {Len(q) + 1}
  BY <1>1
<1>3. {r[i] : i \in DOMAIN r} = {q[i] : i \in DOMAIN q} \cup {e}
  BY <1>1, <1>2
<1> QED
  BY <1>1, <1>3 DEF ToSet, r

(* A message that moves on stays a message, and nothing else of it changes. *)
LEMMA Moves ==
  ASSUME NEW t \in Message, NEW p \in PCs
  PROVE  LET u == [t EXCEPT !.pc = p] IN
           /\ u \in Message /\ u.pc = p /\ u.user = t.user /\ u.session = t.session
           /\ u.at = t.at /\ u.says = t.says /\ u.mapped = t.mapped
           /\ p # "core" /\ Fits(t) => Fits(u)
BY DEF Message, Fits

(* A message that is given to the core has a session of its writer.        *)
LEMMA AskCoreFits ==
  ASSUME NEW m \in Messages, NEW t \in Message, Fits(t), NEW at \in Places
  PROVE  AskCore(m, t, at) \in Message /\ AskCore(m, t, at).pc = "core" /\ Fits(AskCore(m, t, at))
<1> DEFINE s == SessionOf(m, t, at)
<1>1. s \in Session /\ s.user = t.user
  <2>1. CASE t.mapped
    <3>1. s = t.session /\ t.session \in Session
      BY <2>1 DEF SessionOf, Fits
    <3>2. t.session # NoSession => t.session.user = t.user
      BY DEF Fits
    <3>3. t.session = NoSession => t.session.user = "none"
      BY DEF NoSession
    <3>4. t.session.user \in Users
      BY <3>1 DEF Session
    <3> QED
      BY <3>1, <3>2, <3>3, <3>4, DiscordAssumption
  <2>2. CASE ~t.mapped
    BY <2>2 DEF SessionOf, Session, Fits
  <2> QED
    BY <2>1, <2>2 DEF Message
<1>2. AskCore(m, t, at) = [t EXCEPT !.pc = "core", !.at = at, !.session = s]
  BY DEF AskCore
<1> HIDE DEF s
<1>3. "core" \in PCs
  BY DEF PCs
<1> DEFINE a == [t EXCEPT !.pc = "core", !.at = at, !.session = s]
<1>4. a \in Message /\ a.pc = "core" /\ a.user = t.user /\ a.session = s
  BY <1>1, <1>3 DEF Message
<1> HIDE DEF a
<1>5. Fits(a)
  BY <1>1, <1>4 DEF Fits
<1> QED
  BY <1>2, <1>4, <1>5 DEF a

(* So has one that goes on, unless a thread is opened for it first.        *)
LEMMA OnwardFits ==
  ASSUME NEW m \in Messages, NEW t \in Message, Fits(t)
  PROVE  Onward(m, t) \in Message /\ Onward(m, t).pc \in {"thread", "core"} /\ Fits(Onward(m, t))
<1>1. CASE t.at = "channel" /\ ~t.mapped
  <2>1. Onward(m, t) = [t EXCEPT !.pc = "thread"] /\ "thread" \in PCs /\ "thread" # "core"
    BY <1>1 DEF Onward, PCs
  <2> QED
    BY <2>1, Moves
<1>2. CASE ~(t.at = "channel" /\ ~t.mapped)
  <2>1. Onward(m, t) = AskCore(m, t, t.at) /\ t.at \in Places
    BY <1>2 DEF Onward, Message
  <2> QED
    BY <2>1, AskCoreFits
<1> QED
  BY <1>1, <1>2

(* What an answer within the clean-up dialogue makes of a message, and of  *)
(* the dialogue: its place, session and writer stay, and a sweep begins    *)
(* only where a scope waited, which it uses up.                            *)
LEMMA CleanFlowSound ==
  ASSUME TypeOK, Unswept, NEW m \in Messages, NEW new \in Message, new.user \in Users,
         CleanFlow(m, new)
  PROVE  /\ \E x \in Message :
              /\ msg' = [msg EXCEPT ![m] = x]
              /\ x.pc \in {"send", "list"} /\ x.user = new.user
              /\ x.session = new.session /\ x.at = new.at /\ x.mapped = new.mapped
         /\ pending' \in [Users -> [stage : Stages, scope : Scopes]]
         /\ scopes' \in [Users -> [composed : Nat, swept : Nat, shown : Scopes]]
         /\ Unswept'
<1> DEFINE u == new.user
           scope == ScopeAfter(u, new.says)
           now == pending[u].stage
           x == [new EXCEPT !.pc = "send", !.says = "chat"]
           y == [new EXCEPT !.pc = "list", !.says = "chat", !.scope = scope]
<1>1. u \in Users /\ pending[u] \in [stage : Stages, scope : Scopes]
      /\ scopes[u] \in [composed : Nat, swept : Nat, shown : Scopes]
  BY DEF TypeOK
<1>2. scope \in Scopes /\ now \in Stages
  BY <1>1 DEF ScopeAfter, Scopes
<1>3. x \in Message /\ x.pc = "send" /\ x.user = new.user /\ x.session = new.session
      /\ x.at = new.at /\ x.mapped = new.mapped
  BY DEF Message, PCs, Sayings
<1>4. y \in Message /\ y.pc = "list" /\ y.user = new.user /\ y.session = new.session
      /\ y.at = new.at /\ y.mapped = new.mapped
  BY <1>2 DEF Message, PCs, Sayings
<1>5. pending \in [Users -> [stage : Stages, scope : Scopes]]
      /\ scopes \in [Users -> [composed : Nat, swept : Nat, shown : Scopes]]
      /\ msg \in [Messages -> Message]
  BY DEF TypeOK
<1>6. scopes[u].swept <= scopes[u].composed
      /\ (now = "confirmation" => scopes[u].swept < scopes[u].composed)
  BY <1>1 DEF Unswept
<1> DEFINE Told == msg' = [msg EXCEPT ![m] = x]
<1> HIDE DEF x, y, scope
<1>7. CASE now = "none"
  <2>1. pending' = [pending EXCEPT ![u] = [stage |-> "questions", scope |-> "none"]]
        /\ scopes' = scopes /\ Told
    BY <1>7 DEF CleanFlow, x
  <2>2. pending' \in [Users -> [stage : Stages, scope : Scopes]]
    BY <1>5, <2>1 DEF Stages, Scopes
  <2>3. Unswept'
    BY <1>5, <2>1 DEF Unswept
  <2> QED
    BY <1>3, <1>5, <2>1, <2>2, <2>3
<1>8. CASE now = "questions" /\ scope = "none"
  <2>1. pending' = pending /\ scopes' = scopes /\ Told
    BY <1>8 DEF CleanFlow, x, scope
  <2>2. Unswept'
    BY <2>1 DEF Unswept
  <2> QED
    BY <1>3, <1>5, <2>1, <2>2
<1>9. CASE now = "questions" /\ scope # "none"
  <2>1. pending' = [pending EXCEPT ![u] = [stage |-> "confirmation", scope |-> scope]]
        /\ scopes' = [scopes EXCEPT ![u] =
             [composed |-> @.composed + 1, swept |-> @.swept, shown |-> scope]] /\ Told
    BY <1>9 DEF CleanFlow, x, scope
  <2>2. pending' \in [Users -> [stage : Stages, scope : Scopes]]
    BY <1>2, <1>5, <2>1 DEF Stages
  <2> DEFINE z == [composed |-> scopes[u].composed + 1, swept |-> scopes[u].swept, shown |-> scope]
  <2>4. z \in [composed : Nat, swept : Nat, shown : Scopes]
        /\ z.composed = scopes[u].composed + 1 /\ z.swept = scopes[u].swept
    BY <1>1, <1>2
  <2>5. scopes' = [scopes EXCEPT ![u] = z]
    BY <2>1
  <2> HIDE DEF z
  <2>6. Unswept'
    <3> SUFFICES ASSUME NEW v \in Users
                 PROVE  /\ scopes'[v].swept <= scopes'[v].composed
                        /\ pending'[v].stage = "confirmation"
                             => scopes'[v].swept < scopes'[v].composed
      BY DEF Unswept
    <3>1. CASE v = u
      <4>1. scopes'[v] = z
        BY <1>5, <2>5, <3>1
      <4> QED
        BY <1>1, <1>6, <2>4, <4>1
    <3>2. CASE v # u
      BY <1>5, <2>1, <2>5, <3>2 DEF Unswept
    <3> QED
      BY <3>1, <3>2
  <2> QED
    BY <1>3, <1>5, <2>1, <2>2, <2>4, <2>5, <2>6
<1>10. CASE now = "confirmation" /\ new.says = "cancel"
  <2>1. pending' = [pending EXCEPT ![u] = NoClean] /\ scopes' = scopes /\ Told
    BY <1>10 DEF CleanFlow, x
  <2>2. pending' \in [Users -> [stage : Stages, scope : Scopes]]
    BY <1>5, <2>1 DEF Stages, Scopes, NoClean
  <2>3. Unswept'
    BY <1>5, <2>1 DEF Unswept, NoClean
  <2> QED
    BY <1>3, <1>5, <2>1, <2>2, <2>3
<1>11. CASE now = "confirmation" /\ new.says \in {"confirm", "confirmAll"}
  <2>1. pending' = [pending EXCEPT ![u] = NoClean]
        /\ scopes' = [scopes EXCEPT ![u].swept = @ + 1] /\ msg' = [msg EXCEPT ![m] = y]
    BY <1>11 DEF CleanFlow, y, scope
  <2>2. pending' \in [Users -> [stage : Stages, scope : Scopes]]
    BY <1>5, <2>1 DEF Stages, Scopes, NoClean
  <2> DEFINE z == [scopes[u] EXCEPT !.swept = @ + 1]
  <2>3. z \in [composed : Nat, swept : Nat, shown : Scopes]
        /\ z.composed = scopes[u].composed /\ z.swept = scopes[u].swept + 1
    BY <1>1
  <2>4. scopes' = [scopes EXCEPT ![u] = z]
    BY <2>1
  <2> HIDE DEF z
  <2>5. Unswept'
    <3> SUFFICES ASSUME NEW v \in Users
                 PROVE  /\ scopes'[v].swept <= scopes'[v].composed
                        /\ pending'[v].stage = "confirmation"
                             => scopes'[v].swept < scopes'[v].composed
      BY DEF Unswept
    <3>1. CASE v = u
      <4>1. scopes'[v] = z /\ pending'[v].stage = "none"
        BY <1>5, <2>1, <2>4, <3>1 DEF NoClean
      <4> QED
        BY <1>1, <1>6, <1>11, <2>3, <4>1
    <3>2. CASE v # u
      BY <1>5, <2>1, <2>4, <3>2 DEF Unswept
    <3> QED
      BY <3>1, <3>2
  <2> QED
    BY <1>4, <1>5, <2>1, <2>2, <2>3, <2>4, <2>5
<1>12. CASE now = "confirmation" /\ new.says \notin {"cancel", "confirm", "confirmAll"}
  <2>1. pending' = [pending EXCEPT ![u].scope = scope] /\ scopes' = scopes /\ Told
    BY <1>12 DEF CleanFlow, x, scope
  <2>2. pending' \in [Users -> [stage : Stages, scope : Scopes]]
    BY <1>2, <1>5, <2>1
  <2>3. \A v \in Users : pending'[v].stage = pending[v].stage
    BY <1>5, <2>1
  <2>4. Unswept'
    BY <2>1, <2>3 DEF Unswept
  <2> QED
    BY <1>3, <1>5, <2>1, <2>2, <2>4
<1>13. now \in {"none", "questions", "confirmation"}
  BY <1>2 DEF Stages
<1> QED
  BY <1>7, <1>8, <1>9, <1>10, <1>11, <1>12, <1>13

(* A step of one message that the core has not yet been asked about, or    *)
(* has answered, leaves the jobs and their places what they are.           *)
LEMMA MessageStep ==
  ASSUME TypeOK, Queue, Placed, UNCHANGED <<jobs, work>>,
         NEW m \in Messages, NEW x \in Message, msg' = [msg EXCEPT ![m] = x],
         x.pc # "none", x.pc = "ignored" \/ Fits(x),
         \/ msg[m].pc \notin Returned \cup {"core"}
         \/ /\ x.session = msg[m].session /\ x.at = msg[m].at /\ x.says = msg[m].says
            /\ x.pc \in Returned
  PROVE  msg' \in [Messages -> Message] /\ Queue' /\ Placed'
<1>1. msg \in [Messages -> Message] /\ jobs' = jobs /\ work' = work
  BY DEF TypeOK
<1>2. msg' \in [Messages -> Message] /\ msg'[m] = x
      /\ \A n \in Messages \ {m} : msg'[n] = msg[n]
  BY <1>1
<1>3. ToSet(jobs) \subseteq Messages /\ ToSet(jobs') = ToSet(jobs)
  BY <1>1, ElementOfSeq DEF TypeOK, ToSet
<1>4. \A n \in ToSet(jobs) : msg'[n].session = msg[n].session
                             /\ msg'[n].says = msg[n].says
                             /\ msg'[n].pc \in Returned \cup {"core"}
  BY <1>2, <1>3 DEF Queue
<1>5. \A n \in Messages : msg[n].pc \in Returned =>
        /\ msg'[n].session = msg[n].session /\ msg'[n].at = msg[n].at
        /\ msg'[n].says = msg[n].says /\ msg'[n].pc \in Returned
  BY <1>2
<1>6. Queue'
  BY <1>1, <1>2, <1>3, <1>4 DEF Queue
<1>7. ASSUME NEW n \in Messages, n \in ToSet(jobs), OwnPlace(n) PROVE OwnPlace(n)'
  BY <1>1, <1>4, <1>5, <1>7 DEF OwnPlace
<1>8. Placed'
  BY <1>1, <1>3, <1>7 DEF Placed
<1> QED
  BY <1>2, <1>6, <1>8

(* A step of a job or notice that leaves its place alone.                  *)
LEMMA WorkStep ==
  ASSUME TypeOK, Queue, Placed, UNCHANGED <<msg, jobs>>, NEW m \in Messages,
         NEW w, work' = [work EXCEPT ![m] = w],
         w \in [state : {"running", "notify", "posting", "ended"},
                place : Places \cup {"none"}, noticed : BOOLEAN],
         w.place = work[m].place, work[m].state # "none",
         w.noticed \/ w.state \in {"notify", "posting"} => w.place # "none"
  PROVE  /\ work' \in [Messages -> [state : {"none", "running", "notify", "posting", "ended"},
                                    place : Places \cup {"none"}, noticed : BOOLEAN]]
         /\ (\A n \in ToSet(jobs) : work[n].state # "none")'
         /\ Queue' /\ Placed'
<1>1. work \in [Messages -> [state : {"none", "running", "notify", "posting", "ended"},
                             place : Places \cup {"none"}, noticed : BOOLEAN]]
      /\ msg' = msg /\ jobs' = jobs
  BY DEF TypeOK
<1>2. work'[m] = w /\ w.state # "none" /\ \A n \in Messages \ {m} : work'[n] = work[n]
  BY <1>1
<1>3. ToSet(jobs) \subseteq Messages /\ ToSet(jobs') = ToSet(jobs)
  BY <1>1, ElementOfSeq DEF TypeOK, ToSet
<1>4. \A n \in Messages : work'[n].place = work[n].place
  BY <1>2
<1>5. \A n \in Messages : OwnPlace(n) => OwnPlace(n)'
  BY <1>1, <1>4 DEF OwnPlace
<1>6. Queue'
  BY <1>1, <1>2, <1>3 DEF Queue
<1>7. Placed'
  BY <1>1, <1>2, <1>3, <1>4, <1>5 DEF Placed
<1>8. \A n \in ToSet(jobs') : work'[n].state # "none"
  BY <1>2, <1>3 DEF TypeOK
<1>9. work' \in [Messages -> [state : {"none", "running", "notify", "posting", "ended"},
                             place : Places \cup {"none"}, noticed : BOOLEAN]]
  BY <1>1
<1> QED
  BY <1>6, <1>7, <1>8, <1>9

(* The dialogue and the scopes stay, and so does what is known of them.    *)
LEMMA UnsweptFrame ==
  ASSUME Unswept, UNCHANGED <<pending, scopes>> PROVE Unswept'
BY DEF Unswept
-----------------------------------------------------------------------------
(* A message arrives: its place, writer and words are new, its pc was none. *)
LEMMA ReceiveStep ==
  ASSUME DiscordAssumption, Inv, NEW m \in Messages, NEW u \in Users, NEW at \in Places,
         NEW says \in Sayings, Receive(m, u, at, says)
  PROVE  Inv'
<1> DEFINE new == [msg[m] EXCEPT !.user = u, !.at = at, !.says = says,
                     !.mapped = map[at] # NoSession, !.session = map[at]]
           plain == IF says \in {"work", "clean"} THEN new ELSE [new EXCEPT !.says = "chat"]
<1>1. msg[m] \in Message /\ map[at] \in Session \cup {NoSession} /\ msg[m].pc = "none"
  BY DEF Inv, TypeOK, Receive
<1>2. new \in Message /\ new.user = u /\ new.session = map[at]
      /\ new.mapped = (map[at] # NoSession) /\ new.pc = "none"
  BY <1>1 DEF Message
<1> HIDE DEF new
<1>3. plain \in Message /\ plain.user = u /\ plain.session = map[at]
      /\ plain.mapped = new.mapped /\ plain.pc = "none"
  BY <1>2 DEF Message, Sayings
<1>4. UNCHANGED <<lock, map, jobs, work, gone>>
  BY DEF Receive
<1>5. map[at].user \in {"none", u} => Fits(new) /\ Fits(plain)
  <2>1. map[at] = NoSession => map[at].user = "none"
    BY DEF NoSession
  <2>2. map[at] # NoSession => map[at] \in Session /\ map[at].user \in Users
    BY <1>1 DEF Session
  <2> HIDE DEF plain
  <2> QED
    BY <1>2, <1>3, <2>1, <2>2, DiscordAssumption DEF Fits
<1> HIDE DEF plain
<1>6. \/ /\ map[at].user \notin {"none", u}
         /\ msg' = [msg EXCEPT ![m] = [plain EXCEPT !.pc = "ignored"]]
         /\ UNCHANGED <<pending, scopes>>
      \/ map[at].user \in {"none", u} /\ CleanFlow(m, new)
      \/ /\ map[at].user \in {"none", u} /\ UNCHANGED <<pending, scopes>>
         /\ \/ \E pc \in {"send", "plan"} : msg' = [msg EXCEPT ![m] = [plain EXCEPT !.pc = pc]]
            \/ msg' = [msg EXCEPT ![m] = Onward(m, plain)]
  BY DEF Receive, new, plain
<1>7. /\ \E x \in Message : /\ msg' = [msg EXCEPT ![m] = x] /\ x.pc # "none"
                            /\ x.pc = "ignored" \/ Fits(x)
      /\ pending' \in [Users -> [stage : Stages, scope : Scopes]]
      /\ scopes' \in [Users -> [composed : Nat, swept : Nat, shown : Scopes]]
      /\ Unswept'
  <2>1. CASE map[at].user \in {"none", u} /\ CleanFlow(m, new)
    <3>1. PICK x \in Message : msg' = [msg EXCEPT ![m] = x] /\ x.pc \in {"send", "list"}
                               /\ x.user = new.user /\ x.session = new.session
                               /\ x.mapped = new.mapped
      BY <1>2, <2>1, CleanFlowSound DEF Inv
    <3>2. Fits(x)
      BY <1>5, <2>1, <3>1 DEF Fits
    <3> QED
      BY <1>2, <2>1, <3>1, <3>2, CleanFlowSound DEF Inv
  <2>2. ASSUME UNCHANGED <<pending, scopes>>
        PROVE  /\ pending' \in [Users -> [stage : Stages, scope : Scopes]]
               /\ scopes' \in [Users -> [composed : Nat, swept : Nat, shown : Scopes]]
               /\ Unswept'
    BY <2>2, UnsweptFrame DEF Inv, TypeOK
  <2>3. ASSUME map[at].user \in {"none", u}, NEW pc \in {"send", "plan"},
               msg' = [msg EXCEPT ![m] = [plain EXCEPT !.pc = pc]]
        PROVE  \E x \in Message : msg' = [msg EXCEPT ![m] = x] /\ x.pc # "none" /\ Fits(x)
    <3>1. pc \in PCs /\ pc # "core"
      BY DEF PCs
    <3>2. Fits(plain)
      BY <1>5, <2>3
    <3>3. [plain EXCEPT !.pc = pc] \in Message /\ [plain EXCEPT !.pc = pc].pc = pc
          /\ Fits([plain EXCEPT !.pc = pc])
      BY <1>3, <3>1, <3>2, Moves
    <3> QED
      BY <2>3, <3>3
  <2>4. ASSUME map[at].user \in {"none", u}, msg' = [msg EXCEPT ![m] = Onward(m, plain)]
        PROVE  \E x \in Message : msg' = [msg EXCEPT ![m] = x] /\ x.pc # "none" /\ Fits(x)
    BY <1>3, <1>5, <2>4, OnwardFits
  <2>5. CASE /\ map[at].user \notin {"none", u} /\ UNCHANGED <<pending, scopes>>
             /\ msg' = [msg EXCEPT ![m] = [plain EXCEPT !.pc = "ignored"]]
    <3>1. "ignored" \in PCs
      BY DEF PCs
    <3>2. /\ [plain EXCEPT !.pc = "ignored"] \in Message
          /\ [plain EXCEPT !.pc = "ignored"].pc = "ignored"
      BY <1>3, <3>1, Moves
    <3> QED
      BY <2>2, <2>5, <3>2
  <2> QED
    BY <1>6, <2>1, <2>2, <2>3, <2>4, <2>5
<1>8. msg' \in [Messages -> Message] /\ Queue' /\ Placed'
  BY <1>1, <1>4, <1>7, MessageStep DEF Inv, Returned
<1>9. TypeOK'
  BY <1>4, <1>7, <1>8 DEF Inv, TypeOK
<1> QED
  BY <1>7, <1>8, <1>9 DEF Inv

(* A message that goes on to its next await, with nothing else changed     *)
(* that the properties speak of.                                           *)
LEMMA Advance ==
  ASSUME Inv, NEW m \in Messages, NEW p \in PCs \ {"none", "core"}, To(m, p),
         msg[m].pc \notin {"none", "ignored"},
         msg[m].pc \notin Returned \cup {"core"} \/ p \in Returned,
         UNCHANGED <<pending, map, jobs, work, scopes>>,
         lock' \in [m : Messages \cup {"none"}, job : BOOLEAN], gone' \subseteq Places
  PROVE  Inv'
<1>1. msg[m] \in Message /\ Fits(msg[m])
  BY DEF Inv, TypeOK, Queue
<1> DEFINE x == [msg[m] EXCEPT !.pc = p]
<1>2. x \in Message /\ x.pc = p /\ Fits(x) /\ x.session = msg[m].session
      /\ x.at = msg[m].at /\ x.says = msg[m].says
  BY <1>1, Moves
<1>3. msg' = [msg EXCEPT ![m] = x]
  BY DEF To, Inv, TypeOK
<1> HIDE DEF x
<1>4. msg' \in [Messages -> Message] /\ Queue' /\ Placed'
  BY <1>1, <1>2, <1>3, MessageStep DEF Inv
<1>5. TypeOK'
  BY <1>4 DEF Inv, TypeOK
<1>6. Unswept'
  BY UnsweptFrame DEF Inv
<1> QED
  BY <1>4, <1>5, <1>6 DEF Inv

(* A clean-up request answers whatever dialogue its writer has by then.    *)
LEMMA CleanStep ==
  ASSUME Inv, NEW m \in Messages, Clean(m)
  PROVE  Inv'
<1>1. msg[m] \in Message /\ Fits(msg[m]) /\ msg[m].user \in Users /\ msg[m].pc = "plan"
  BY DEF Inv, TypeOK, Queue, Clean, Fits
<1>2. UNCHANGED <<lock, map, jobs, work, gone>> /\ CleanFlow(m, msg[m])
  BY DEF Clean
<1>3. PICK x \in Message : msg' = [msg EXCEPT ![m] = x] /\ x.pc \in {"send", "list"}
                           /\ x.user = msg[m].user /\ x.session = msg[m].session
                           /\ x.mapped = msg[m].mapped
  BY <1>1, <1>2, CleanFlowSound DEF Inv
<1>7. Fits(x)
  BY <1>1, <1>3 DEF Fits
<1>4. pending' \in [Users -> [stage : Stages, scope : Scopes]]
      /\ scopes' \in [Users -> [composed : Nat, swept : Nat, shown : Scopes]] /\ Unswept'
  BY <1>1, <1>2, CleanFlowSound DEF Inv
<1>5. msg' \in [Messages -> Message] /\ Queue' /\ Placed'
  BY <1>1, <1>2, <1>3, <1>7, MessageStep DEF Inv, Returned
<1>6. TypeOK'
  BY <1>2, <1>4, <1>5 DEF Inv, TypeOK
<1> QED
  BY <1>4, <1>5, <1>6 DEF Inv

(* A message asks the core, or waits for a thread first.                   *)
LEMMA AskingStep ==
  ASSUME Inv, NEW m \in Messages, NewThread(m) \/ Unplanned(m)
  PROVE  Inv'
<1>1. msg[m] \in Message /\ Fits(msg[m]) /\ msg[m].pc \in {"plan", "thread"}
      /\ UNCHANGED <<lock, pending, map, jobs, work, gone, scopes>>
  BY DEF Inv, TypeOK, Queue, NewThread, Unplanned
<1>2. PICK x \in Message : msg' = [msg EXCEPT ![m] = x] /\ Fits(x) /\ x.pc \in {"thread", "core"}
  <2>1. CASE NewThread(m)
    <3>1. PICK at \in {m, "channel"} : msg' = [msg EXCEPT ![m] = AskCore(m, msg[m], at)]
      BY <2>1 DEF NewThread
    <3>2. at \in Places
      BY DEF Places
    <3> QED
      BY <1>1, <3>1, <3>2, AskCoreFits
  <2>2. CASE Unplanned(m)
    <3>1. msg' = [msg EXCEPT ![m] = Onward(m, msg[m])]
      BY <2>2 DEF Unplanned
    <3> QED
      BY <1>1, <3>1, OnwardFits
  <2> QED
    BY <2>1, <2>2
<1>3. msg' \in [Messages -> Message] /\ Queue' /\ Placed'
  BY <1>1, <1>2, MessageStep DEF Inv, Returned
<1>4. TypeOK'
  BY <1>1, <1>3 DEF Inv, TypeOK
<1>5. Unswept'
  BY <1>1, UnsweptFrame DEF Inv
<1> QED
  BY <1>3, <1>4, <1>5 DEF Inv

(* A new job is of a message that had none, so that it has no place yet.   *)
LEMMA CreateJobStep ==
  ASSUME DiscordAssumption, Inv, NEW m \in Messages, CreateJob(m)
  PROVE  Inv'
<1>1. msg[m] \in Message /\ msg[m].session \in Session /\ msg[m].says = "work"
      /\ msg[m].pc = "core" /\ work[m].state = "none"
  BY DEF Inv, TypeOK, Queue, CreateJob, Fits
<1>2. UNCHANGED <<msg, lock, pending, map, gone, scopes>> /\ jobs' = Append(jobs, m)
  BY DEF CreateJob
<1>3. PICK st \in {"running", "ended"} : work' = [work EXCEPT ![m].state = st]
  BY DEF CreateJob
<1>4. jobs \in Seq(Messages)
  BY DEF Inv, TypeOK
<1>5. jobs' \in Seq(Messages) /\ ToSet(jobs') = ToSet(jobs) \cup {m}
  BY <1>2, <1>4, AppendedElements
<1>6. ToSet(jobs) \subseteq Messages /\ m \notin ToSet(jobs)
  BY <1>1, <1>4, ElementOfSeq DEF Inv, TypeOK, ToSet
<1>7. /\ work' \in [Messages -> [state : {"none", "running", "notify", "posting", "ended"},
                                 place : Places \cup {"none"}, noticed : BOOLEAN]]
      /\ work'[m].state = st /\ work'[m].noticed = work[m].noticed
      /\ \A n \in Messages : work'[n].place = work[n].place
      /\ \A n \in Messages \ {m} : work'[n] = work[n]
  <2>1. work \in [Messages -> [state : {"none", "running", "notify", "posting", "ended"},
                               place : Places \cup {"none"}, noticed : BOOLEAN]]
    BY DEF Inv, TypeOK
  <2> QED
    BY <1>3, <2>1
<1>8. Queue'
  BY <1>1, <1>2, <1>5, <1>6, <1>7 DEF Inv, Queue
<1>9. \A n \in Messages : OwnPlace(n) => OwnPlace(n)'
  BY <1>2, <1>7 DEF OwnPlace
<1>10. Placed'
  BY <1>1, <1>5, <1>6, <1>7, <1>9 DEF Inv, Placed
<1>11. \A n \in ToSet(jobs') : work'[n].state # "none"
  BY <1>5, <1>6, <1>7 DEF Inv, TypeOK
<1>12. TypeOK'
  BY <1>2, <1>5, <1>7, <1>11 DEF Inv, TypeOK
<1>13. Unswept'
  BY <1>2, UnsweptFrame DEF Inv
<1> QED
  BY <1>8, <1>10, <1>12, <1>13 DEF Inv

(* The core has answered: the newest job of the session is announced where *)
(* this message is, which is a place of the session.                       *)
LEMMA CoreReturnsStep ==
  ASSUME DiscordAssumption, Inv, NEW m \in Messages, CoreReturns(m)
  PROVE  Inv'
<1> DEFINE s == msg[m].session
           x == [msg[m] EXCEPT !.pc = "send", !.reply = TRUE]
           Work == [state : {"none", "running", "notify", "posting", "ended"},
                    place : Places \cup {"none"}, noticed : BOOLEAN]
<1>1. msg[m] \in Message /\ Fits(msg[m]) /\ msg[m].pc = "core" /\ s \in Session
      /\ (msg[m].says = "work" => m \in ToSet(jobs))
  BY DEF Inv, TypeOK, Queue, CoreReturns, Fits
<1>2. UNCHANGED <<lock, pending, jobs, gone, scopes>>
  BY DEF CoreReturns
<1>3. x \in Message /\ x.pc = "send" /\ x.session = s /\ x.at = msg[m].at
      /\ x.says = msg[m].says /\ x.user = msg[m].user /\ x.mapped = msg[m].mapped
      /\ msg[m].at \in Places /\ msg[m].session = s
  BY <1>1 DEF Message, PCs
<1>4. msg' = [msg EXCEPT ![m] = x]
  BY DEF CoreReturns, Inv, TypeOK
<1>5. msg \in [Messages -> Message] /\ jobs \in Seq(Messages) /\ work \in [Messages -> Work]
      /\ map \in [Places -> Session \cup {NoSession}]
  BY DEF Inv, TypeOK
<1>6. Fits(x)
  BY <1>1, <1>3 DEF Fits
<1>7. work' = IF msg[m].says = "work"
                THEN [work EXCEPT ![Newest(s)].place = msg[m].at] ELSE work
  BY DEF CoreReturns
<1>8. map' \in [Places -> Session \cup {NoSession}]
  <2>1. map' = map \/ map' = [map EXCEPT ![msg[m].at] = s]
    BY DEF CoreReturns
  <2> QED
    BY <1>1, <1>3, <1>5, <2>1
<1> HIDE DEF x, s
<1>9. msg' \in [Messages -> Message] /\ msg'[m] = x
      /\ \A n \in Messages \ {m} : msg'[n] = msg[n]
  BY <1>3, <1>4, <1>5
<1>10. ToSet(jobs) \subseteq Messages /\ ToSet(jobs') = ToSet(jobs)
  BY <1>2, <1>5, ElementOfSeq DEF ToSet
<1>11. \A n \in ToSet(jobs) : msg'[n].session = msg[n].session /\ msg'[n].says = msg[n].says
                              /\ msg'[n].pc \in Returned \cup {"core"}
  BY <1>3, <1>9, <1>10 DEF Inv, Queue, Returned
<1>12. work' \in [Messages -> Work]
       /\ (\A n \in Messages : work'[n].state = work[n].state /\ work'[n].noticed = work[n].noticed)
       /\ \A n \in Messages :
            \/ work'[n].place = work[n].place
            \/ /\ work'[n].place = msg[m].at /\ n \in ToSet(jobs) /\ msg[n].session = s
               /\ msg[m].says = "work"
  <2>1. CASE msg[m].says # "work"
    BY <1>5, <1>7, <2>1
  <2>2. CASE msg[m].says = "work"
    <3>1. PICK k : k = Newest(s)
      OBVIOUS
    <3>2. k \in ToSet(jobs) /\ msg[k].session = s /\ k \in Messages
      BY <1>1, <1>3, <1>5, <1>10, <2>2, <3>1, NewestIsOfSession
    <3>3. work' = [work EXCEPT ![k].place = msg[m].at]
      BY <1>7, <2>2, <3>1
    <3>4. work' \in [Messages -> Work] /\ work'[k].place = msg[m].at
          /\ (\A n \in Messages : work'[n].state = work[n].state
                                  /\ work'[n].noticed = work[n].noticed)
          /\ \A n \in Messages \ {k} : work'[n].place = work[n].place
      BY <1>3, <1>5, <3>2, <3>3
    <3> QED
      BY <2>2, <3>2, <3>4
  <2> QED
    BY <2>1, <2>2
<1> HIDE DEF Work
<1>13. Queue'
  BY <1>1, <1>3, <1>6, <1>9, <1>10, <1>11, <1>12 DEF Inv, Queue
<1>14. ASSUME NEW n \in Messages, work'[n].place # "none"
       PROVE  n \in ToSet(jobs') /\ OwnPlace(n)'
  <2>1. CASE work'[n].place = msg[m].at /\ n \in ToSet(jobs) /\ msg[n].session = s
             /\ msg[m].says = "work"
    <3>1. msg'[m].pc \in Returned /\ msg'[m].session = s /\ msg'[m].at = msg[m].at
          /\ msg'[m].says = "work"
      BY <1>3, <1>9, <2>1 DEF Returned
    <3>2. msg'[n].session = s
      BY <1>11, <2>1
    <3> QED
      BY <1>10, <2>1, <3>1, <3>2 DEF OwnPlace
  <2>2. CASE work'[n].place = work[n].place
    <3>1. n \in ToSet(jobs) /\ OwnPlace(n)
      BY <1>14, <2>2 DEF Inv, Placed
    <3>2. PICK k \in Messages : msg[k].pc \in Returned /\ msg[k].session = msg[n].session
                                /\ msg[k].at = work[n].place /\ msg[k].says = "work"
      BY <3>1 DEF OwnPlace
    <3>3. k # m
      BY <1>1, <3>2 DEF Returned
    <3>4. msg'[k] = msg[k] /\ msg'[n].session = msg[n].session
      BY <1>9, <1>11, <3>1, <3>3
    <3> QED
      BY <1>10, <2>2, <3>1, <3>2, <3>4 DEF OwnPlace
  <2> QED
    BY <1>12, <2>1, <2>2
<1>15. ASSUME NEW n \in Messages, work'[n].noticed \/ work'[n].state \in {"notify", "posting"}
       PROVE  work'[n].place # "none"
  <2>1. work[n].place # "none"
    BY <1>12, <1>15 DEF Inv, Placed
  <2>2. msg[m].at # "none"
    BY <1>3 DEF Places, DiscordAssumption
  <2> QED
    BY <1>12, <2>1, <2>2
<1>16. Placed'
  BY <1>14, <1>15 DEF Placed
<1>17. \A n \in ToSet(jobs') : work'[n].state # "none"
  BY <1>10, <1>12 DEF Inv, TypeOK
<1>18. TypeOK'
  BY <1>2, <1>5, <1>8, <1>9, <1>12, <1>17 DEF Inv, TypeOK, Work
<1>19. Unswept'
  BY <1>2, UnsweptFrame DEF Inv
<1> QED
  BY <1>13, <1>16, <1>18, <1>19 DEF Inv

(* The steps of a message that only move it on.                            *)
LEMMA MovingSteps ==
  ASSUME Inv, NEW m \in Messages,
         \/ List(m) \/ Sweep(m) \/ CoreRaises(m)
         \/ Acquire(m) \/ Sent(m) \/ AnswerFailure(m)
  PROVE  Inv'
<1>1. gone \subseteq Places /\ lock \in [m : Messages \cup {"none"}, job : BOOLEAN]
      /\ Free \in [m : Messages \cup {"none"}, job : BOOLEAN]
      /\ [m |-> m, job |-> FALSE] \in [m : Messages \cup {"none"}, job : BOOLEAN]
  BY DEF Inv, TypeOK, Free
<1>3. CASE List(m)
  <2>1. PICK p \in {"sweep", "send"} : To(m, p)
    BY <1>3 DEF List, Direct
  <2>2. p \in PCs \ {"none", "core"}
    BY DEF PCs
  <2>3. msg[m].pc = "list" /\ UNCHANGED <<lock, pending, map, jobs, work, gone, scopes>>
    BY <1>3 DEF List
  <2> QED
    BY <1>1, <2>1, <2>2, <2>3, Advance DEF Returned
<1>4. CASE Sweep(m)
  <2>1. To(m, "send") /\ "send" \in PCs \ {"none", "core"}
    BY <1>4 DEF Sweep, Direct, PCs
  <2>2. msg[m].pc = "sweep" /\ UNCHANGED <<lock, pending, map, jobs, work, scopes>>
    BY <1>4 DEF Sweep
  <2>3. gone' \subseteq Places
    BY <1>1, <1>4 DEF Sweep, Opened, Places
  <2> QED
    BY <1>1, <2>1, <2>2, <2>3, Advance DEF Returned
<1>5. CASE CoreRaises(m)
  <2>1. To(m, "fail") /\ "fail" \in PCs \ {"none", "core"} /\ "fail" \in Returned
    BY <1>5 DEF CoreRaises, PCs, Returned
  <2>2. msg[m].pc = "core" /\ UNCHANGED <<lock, pending, map, jobs, work, gone, scopes>>
    BY <1>5 DEF CoreRaises
  <2> QED
    BY <1>1, <2>1, <2>2, Advance
<1>6. CASE Acquire(m)
  <2>1. To(m, "sending") /\ "sending" \in PCs \ {"none", "core"} /\ "sending" \in Returned
    BY <1>6 DEF Acquire, PCs, Returned
  <2>2. msg[m].pc = "send" /\ UNCHANGED <<pending, map, jobs, work, gone, scopes>>
        /\ lock' = [m |-> m, job |-> FALSE]
    BY <1>6 DEF Acquire
  <2> QED
    BY <1>1, <2>1, <2>2, Advance
<1>7. CASE Sent(m)
  <2>1. PICK p \in {"done", "fail"} : To(m, p)
    BY <1>7 DEF Sent
  <2>2. p \in PCs \ {"none", "core"} /\ p \in Returned
    BY DEF PCs, Returned
  <2>3. msg[m].pc = "sending" /\ UNCHANGED <<pending, map, jobs, work, gone, scopes>>
        /\ lock' = Free
    BY <1>7 DEF Sent
  <2> QED
    BY <1>1, <2>1, <2>2, <2>3, Advance
<1>8. CASE AnswerFailure(m)
  <2>1. To(m, "stuck") /\ "stuck" \in PCs \ {"none", "core"} /\ "stuck" \in Returned
    BY <1>8 DEF AnswerFailure, PCs, Returned
  <2>2. msg[m].pc = "fail" /\ UNCHANGED <<pending, map, jobs, work, gone, scopes>>
        /\ lock' = [m |-> m, job |-> FALSE]
    BY <1>8 DEF AnswerFailure
  <2> QED
    BY <1>1, <2>1, <2>2, Advance
<1> QED
  BY <1>3, <1>4, <1>5, <1>6, <1>7, <1>8

(* A job that ends is announced only if it has a place.                    *)
LEMMA WorkSteps ==
  ASSUME Inv, NEW m \in Messages, JobEnds(m) \/ Notify(m) \/ Notified(m)
  PROVE  Inv'
<1> DEFINE W == [state : {"running", "notify", "posting", "ended"},
                 place : Places \cup {"none"}, noticed : BOOLEAN]
<1>1. work \in [Messages -> [state : {"none", "running", "notify", "posting", "ended"},
                             place : Places \cup {"none"}, noticed : BOOLEAN]]
      /\ (work[m].noticed \/ work[m].state \in {"notify", "posting"} => work[m].place # "none")
  BY DEF Inv, TypeOK, Placed
<1>2. work[m].state # "none" /\ UNCHANGED <<msg, pending, map, jobs, gone, scopes>>
      /\ lock' \in [m : Messages \cup {"none"}, job : BOOLEAN]
  <2>1. work[m].state \in {"running", "notify", "posting"}
        /\ UNCHANGED <<msg, pending, map, jobs, gone, scopes>>
    BY DEF JobEnds, Notify, Notified
  <2>2. lock' = lock \/ lock' = [m |-> m, job |-> TRUE] \/ lock' = Free
    BY DEF JobEnds, Notify, Notified
  <2>3. lock \in [m : Messages \cup {"none"}, job : BOOLEAN]
        /\ [m |-> m, job |-> TRUE] \in [m : Messages \cup {"none"}, job : BOOLEAN]
        /\ Free \in [m : Messages \cup {"none"}, job : BOOLEAN]
    BY DEF Free, Inv, TypeOK
  <2>4. lock' \in [m : Messages \cup {"none"}, job : BOOLEAN]
    BY <2>2, <2>3
  <2> QED
    BY <2>1, <2>4
<1>3. PICK w : /\ work' = [work EXCEPT ![m] = w] /\ w \in W /\ w.place = work[m].place
               /\ (w.noticed \/ w.state \in {"notify", "posting"} => w.place # "none")
  <2>1. CASE JobEnds(m)
    <3> DEFINE w == [work[m] EXCEPT !.state =
                       IF work[m].place \in {"none"} \cup gone THEN "ended" ELSE "notify"]
    <3>1. work' = [work EXCEPT ![m] = w]
      BY <1>1, <2>1 DEF JobEnds
    <3>2. w \in W /\ w.place = work[m].place /\ w.noticed = work[m].noticed
          /\ (w.state \in {"notify", "posting"} => w.place # "none")
      BY <1>1
    <3> QED
      BY <1>1, <3>1, <3>2
  <2>2. CASE Notify(m)
    <3> DEFINE w == [work[m] EXCEPT !.state = "posting"]
    <3>1. work' = [work EXCEPT ![m] = w] /\ work[m].state = "notify"
      BY <1>1, <2>2 DEF Notify
    <3>2. w \in W /\ w.place = work[m].place
      BY <1>1
    <3> QED
      BY <1>1, <3>1, <3>2
  <2>3. CASE Notified(m)
    <3>1. PICK ok \in BOOLEAN : work' = [work EXCEPT ![m].state = "ended", ![m].noticed = ok]
      BY <2>3 DEF Notified
    <3> DEFINE w == [work[m] EXCEPT !.state = "ended", !.noticed = ok]
    <3>2. work' = [work EXCEPT ![m] = w] /\ work[m].state = "posting"
      BY <1>1, <2>3, <3>1 DEF Notified
    <3>3. w \in W /\ w.place = work[m].place
      BY <1>1
    <3> QED
      BY <1>1, <3>2, <3>3
  <2> QED
    BY <2>1, <2>2, <2>3
<1>4. /\ work' \in [Messages -> [state : {"none", "running", "notify", "posting", "ended"},
                                 place : Places \cup {"none"}, noticed : BOOLEAN]]
      /\ (\A n \in ToSet(jobs) : work[n].state # "none")'
      /\ Queue' /\ Placed'
  BY <1>2, <1>3, WorkStep DEF Inv
<1>5. TypeOK'
  BY <1>2, <1>4 DEF Inv, TypeOK
<1>6. Unswept'
  BY <1>2, UnsweptFrame DEF Inv
<1> QED
  BY <1>4, <1>5, <1>6 DEF Inv
-----------------------------------------------------------------------------
(* At the start nothing has been swept, created or placed.                 *)
LEMMA InitHolds ==
  ASSUME DiscordAssumption, Init PROVE Inv
<1>1. msg \in [Messages -> Message] /\ \A m \in Messages : msg[m].pc = "none"
  BY DEF Init, Message, Places, Sayings, PCs, Scopes
<1>2. pending \in [Users -> [stage : Stages, scope : Scopes]]
  BY DEF Init, NoClean, Stages, Scopes
<1>3. scopes \in [Users -> [composed : Nat, swept : Nat, shown : Scopes]]
      /\ \A u \in Users : scopes[u].swept = 0 /\ scopes[u].composed = 1
  BY DEF Init, Scopes
<1>4. map \in [Places -> Session \cup {NoSession}]
  BY DEF Init
<1>5. jobs \in Seq(Messages) /\ ToSet(jobs) = {}
  BY DEF Init, ToSet
<1>6. work \in [Messages -> [state : {"none", "running", "notify", "posting", "ended"},
                             place : Places \cup {"none"}, noticed : BOOLEAN]]
      /\ \A m \in Messages : work[m] = [state |-> "none", place |-> "none", noticed |-> FALSE]
  BY DEF Init
<1>7. lock \in [m : Messages \cup {"none"}, job : BOOLEAN] /\ gone \subseteq Places
  BY DEF Init, Free
<1>8. TypeOK
  BY <1>1, <1>2, <1>3, <1>4, <1>5, <1>6, <1>7 DEF TypeOK
<1>9. Unswept
  BY <1>3 DEF Unswept
<1>10. Queue /\ Placed
  BY <1>1, <1>5, <1>6 DEF Queue, Placed
<1> QED
  BY <1>8, <1>9, <1>10 DEF Inv

(* Nothing happens.                                                        *)
LEMMA StutterHolds ==
  ASSUME Inv, UNCHANGED vars PROVE Inv'
<1>1. TypeOK' /\ Unswept' /\ Queue'
  BY DEF Inv, TypeOK, Unswept, Queue, vars
<1>2. \A m \in Messages : OwnPlace(m) => OwnPlace(m)'
  BY DEF OwnPlace, vars
<1>3. Placed'
  BY <1>2 DEF Inv, Placed, vars
<1> QED
  BY <1>1, <1>3 DEF Inv

(* Every step keeps the invariant.                                         *)
LEMMA StepHolds ==
  ASSUME DiscordAssumption, Inv, [Next]_vars PROVE Inv'
<1>1. CASE \E m \in Messages, u \in Users, at \in Places, says \in Sayings :
             Receive(m, u, at, says)
  BY <1>1, ReceiveStep
<1>2. ASSUME NEW m \in Messages, Handle(m) PROVE Inv'
  BY <1>2, CleanStep, AskingStep, CreateJobStep, CoreReturnsStep, MovingSteps DEF Handle
<1>3. ASSUME NEW m \in Messages, JobEnds(m) \/ Announce(m) PROVE Inv'
  BY <1>3, WorkSteps DEF Announce
<1>4. CASE UNCHANGED vars
  BY <1>4, StutterHolds
<1> QED
  BY <1>1, <1>2, <1>3, <1>4 DEF Next

(* The invariant holds throughout: for every number of messages and users, *)
(* in every order of their steps.                                          *)
THEOREM InvHolds == Spec => []Inv
<1>1. Init => Inv
  BY DiscordAssumption, InitHolds
<1>2. Inv /\ [Next]_vars => Inv'
  BY DiscordAssumption, StepHolds
<1> QED
  BY <1>1, <1>2, PTL DEF Spec

(* No two confirmations of a user sweep the same scope: however the        *)
(* messages interleave with the await of the planner, the record is taken  *)
(* out before the sweep begins.                                            *)
THEOREM ScopesAreSweptOnce == Spec => []OneSweepPerScope
<1>1. Inv => OneSweepPerScope
  BY DEF Inv, Unswept, OneSweepPerScope
<1> QED
  BY <1>1, InvHolds, PTL

(* A finished job is announced only in a place from which its own user     *)
(* asked for work in the same session, whichever message of the session    *)
(* was answered last and however many places share it.                     *)
THEOREM NoticesStayInSession == Spec => []NoticeInOwnSession
<1>1. Inv => NoticeInOwnSession
  <2> SUFFICES ASSUME Inv, NEW m \in Messages, work[m].noticed
               PROVE  \E n \in Messages :
                        /\ msg[n].user = msg[m].user /\ msg[n].session = msg[m].session
                        /\ msg[n].says = "work" /\ msg[n].at = work[m].place
    BY DEF NoticeInOwnSession
  <2>1. m \in ToSet(jobs) /\ OwnPlace(m)
    BY DEF Inv, Placed
  <2>2. PICK n \in Messages : /\ msg[n].pc \in Returned /\ msg[n].says = "work"
                              /\ msg[n].session = msg[m].session /\ msg[n].at = work[m].place
    BY <2>1 DEF OwnPlace
  <2>3. msg[m].session \in Session /\ Fits(msg[m]) /\ Fits(msg[n])
    BY <2>1, <2>2 DEF Inv, Queue, Returned
  <2>4. msg[m].session # NoSession
    BY <2>3, DiscordAssumption DEF Session, NoSession
  <2> QED
    BY <2>2, <2>3, <2>4 DEF Fits
<1> QED
  BY <1>1, InvHolds, PTL
=============================================================================

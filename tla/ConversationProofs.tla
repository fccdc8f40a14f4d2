------------------------- MODULE ConversationProofs -------------------------
(***************************************************************************)
(* Proofs about Conversation, and Secretary, for every set of requests,    *)
(* sessions and models, and attempts of any length: at most one attempt of *)
(* a request has an effect; a request that is over has one answer, and a   *)
(* refused one none; a request that finds the voice of its session keeps   *)
(* it.                                                                     *)
(***************************************************************************)
EXTENDS Conversation, FiniteSetTheorems, SequenceTheorems, TLAPS

-----------------------------------------------------------------------------
(* The fields of a conversation, for EXCEPT.                               *)
Shape(t) ==
  t = [pc |-> t.pc, ses |-> t.ses, named |-> t.named, intent |-> t.intent, role |-> t.role,
       att |-> t.att, spare |-> t.spare, trace |-> t.trace, hit |-> t.hit]

(* Effects.  A call that had an effect shows in the trace.                 *)
Calls == [op : {"read", "edit", "vm"}, ok : BOOLEAN]
Marked(trace) == \E i \in DOMAIN trace : trace[i].op = "vm" \/ (trace[i].op = "edit" /\ trace[i].ok)

(* Only the attempt of an agent adds effects, and the second attempt only  *)
(* begins when the first had none.                                         *)
Effects(t) ==
  /\ Shape(t)
  /\ t.trace \in Seq(Calls)
  /\ t.pc \in {"idle", "classify", "probed", "lead"} => t.hit = {} /\ t.trace = <<>>
  /\ t.pc = "agent" =>
       /\ t.att \in {1, 2}
       /\ t.hit \subseteq {t.att}
       /\ t.hit # {} => Marked(t.trace)
  /\ t.hit = {} \/ t.hit = {1} \/ t.hit = {2}

EffectsInv ==
  /\ talk = [r \in Requests |-> talk[r]]
  /\ \A r \in Requests : Effects(talk[r])

(* It holds of a conversation that has not begun, and of one that is over. *)
LEMMA NoTalkEffects == Effects(NoTalk)
<1>1. <<>> \in Seq(Calls)
  OBVIOUS
<1> QED
  BY <1>1 DEF Effects, Shape, NoTalk

(* One that is over keeps its effects.                                     *)
LEMMA EndedEffects ==
  ASSUME NEW t, Effects(t), NEW pc, pc \in {"core", "done", "refused"}
  PROVE  /\ Effects(Ended(t, pc)) /\ Ended(t, pc).pc = pc
<1> DEFINE u == Ended(t, pc)
           h == t.hit
<1>1. u = [pc |-> pc, ses |-> None, named |-> None, intent |-> "chat", role |-> "none",
           att |-> 0, spare |-> None, trace |-> <<>>, hit |-> h]
  <2>1. u = [NoTalk EXCEPT !.pc = pc, !.hit = h]
    BY DEF Ended
  <2> HIDE DEF h, u
  <2> QED
    BY <2>1 DEF NoTalk
<1>2. <<>> \in Seq(Calls)
  OBVIOUS
<1>3. h = {} \/ h = {1} \/ h = {2}
  BY DEF Effects
<1> HIDE DEF u, h
<1>4. Effects(u) /\ u.pc = pc
  BY <1>1, <1>2, <1>3 DEF Effects, Shape
<1> QED
  BY <1>4 DEF u

(* Dispatching refuses the request or begins a first attempt, or a project.*)
LEMMA DispatchMoves ==
  ASSUME NEW r, NEW t, Effects(t), t.hit = {}, t.trace = <<>>,
         NEW role \in {"lead", "coding", "infra"}, Dispatch(r, t, role)
  PROVE  /\ log' = log
         /\ \E u : /\ Set(r, u) /\ Effects(u)
                   /\ \/ u.pc = "refused"
                      \/ u.pc = "lead" /\ u.ses = link
                      \/ u.pc = "agent" /\ u.att = 1 /\ u.ses = link
<1>1. \/ Refuses(r, t)
      \/ \E spare : /\ Set(r, [[t EXCEPT !.ses = link, !.role = role, !.att = 1] EXCEPT
                                 !.pc = IF role = "lead" THEN "lead" ELSE "agent",
                                 !.spare = spare])
                    /\ UNCHANGED log
  BY DEF Dispatch
<1>2. CASE Refuses(r, t)
  BY <1>2, EndedEffects DEF Refuses
<1>3. ASSUME NEW spare,
             Set(r, [[t EXCEPT !.ses = link, !.role = role, !.att = 1] EXCEPT
                                 !.pc = IF role = "lead" THEN "lead" ELSE "agent",
                                 !.spare = spare]),
             UNCHANGED log
      PROVE  \E u : /\ Set(r, u) /\ Effects(u)
                    /\ \/ u.pc = "lead" /\ u.ses = link
                       \/ u.pc = "agent" /\ u.att = 1 /\ u.ses = link
  <2> DEFINE u == [[t EXCEPT !.ses = link, !.role = role, !.att = 1] EXCEPT
                                 !.pc = IF role = "lead" THEN "lead" ELSE "agent",
                                 !.spare = spare]
  <2> DEFINE pc0 == t.pc
             ses0 == t.ses
             named0 == t.named
             intent0 == t.intent
             role0 == t.role
             att0 == t.att
             spare0 == t.spare
  <2>1. t = [pc |-> pc0, ses |-> ses0, named |-> named0, intent |-> intent0,
             role |-> role0, att |-> att0, spare |-> spare0, trace |-> <<>>, hit |-> {}]
    BY DEF Effects, Shape
  <2> DEFINE v == [t EXCEPT !.ses = link, !.role = role, !.att = 1]
             p == IF role = "lead" THEN "lead" ELSE "agent"
  <2>2. v = [pc |-> pc0, ses |-> link, named |-> named0, intent |-> intent0,
             role |-> role, att |-> 1, spare |-> spare0, trace |-> <<>>, hit |-> {}]
    <3>1. v = [t EXCEPT !.ses = link, !.role = role, !.att = 1]
      OBVIOUS
    <3> HIDE DEF v, pc0, ses0, named0, intent0, role0, att0, spare0
    <3> QED
      BY ONLY <2>1, <3>1
  <2>3. u = [v EXCEPT !.pc = p, !.spare = spare]
    OBVIOUS
  <2>4. u = [pc |-> IF role = "lead" THEN "lead" ELSE "agent", ses |-> link,
             named |-> named0, intent |-> intent0, role |-> role, att |-> 1,
             spare |-> spare, trace |-> <<>>, hit |-> {}]
    <3>1. p = IF role = "lead" THEN "lead" ELSE "agent"
      OBVIOUS
    <3> HIDE DEF u, v, p, pc0, ses0, named0, intent0, role0, att0, spare0
    <3> QED
      BY <2>2, <2>3, <3>1
  <2>5. <<>> \in Seq(Calls)
    OBVIOUS
  <2>6. Set(r, u)
    BY <1>3
  <2> HIDE DEF u, pc0, ses0, named0, intent0, role0, att0, spare0
  <2>7. Effects(u)
    BY <2>4, <2>5 DEF Effects, Shape
  <2>8. \/ u.pc = "lead" /\ u.ses = link
        \/ u.pc = "agent" /\ u.att = 1 /\ u.ses = link
    BY <2>4
  <2> QED
    BY <2>6, <2>7, <2>8
<1> QED
  BY <1>1, <1>2, <1>3 DEF Refuses

(* A tool call adds its effect, and shows in the trace.                    *)
Called(t, op, o) ==
  [t EXCEPT !.trace = Append(@, [op |-> op, ok |-> o.ok]),
            !.hit = IF o.effect THEN @ \cup {t.att} ELSE @]

(* So the marks follow the effects.                                        *)
LEMMA CallEffects ==
  ASSUME NEW t, Effects(t), t.pc = "agent", NEW op \in {"read", "edit", "vm"},
         NEW o \in Outcomes(op), NEW u,
         u = Called(t, op, o)
  PROVE  Effects(u) /\ u.pc = t.pc /\ u.ses = t.ses /\ u.att = t.att
<1> DEFINE c == [op |-> op, ok |-> o.ok]
           tr == Append(t.trace, c)
           h == IF o.effect THEN t.hit \cup {t.att} ELSE t.hit
<1>0. o.ok \in BOOLEAN /\ (o.effect => op = "vm" \/ (op = "edit" /\ o.ok))
  <2>1. CASE op = "read"
    BY <2>1 DEF Outcomes
  <2>2. CASE op = "edit"
    BY <2>2 DEF Outcomes
  <2>3. CASE op = "vm"
    <3>1. o \in InfraOutcomes
      BY <2>3 DEF Outcomes
    <3>2. o.ok \in BOOLEAN
      <4>1. CASE Preauthorized
        BY <3>1, <4>1 DEF InfraOutcomes
      <4>2. CASE ~Preauthorized
        <5>1. o = [ok |-> FALSE, effect |-> FALSE]
          BY <3>1, <4>2 DEF InfraOutcomes
        <5> QED
          BY <5>1
      <4> QED
        BY <4>1, <4>2
    <3> QED
      BY <2>3, <3>2
  <2> QED
    BY <2>1, <2>2, <2>3
<1>1. c \in Calls /\ c.op = op /\ c.ok = o.ok
  BY <1>0 DEF Calls
<1>2. o.effect => op = "vm" \/ (op = "edit" /\ o.ok)
  BY <1>0
<1>3. /\ t = [pc |-> t.pc, ses |-> t.ses, named |-> t.named, intent |-> t.intent,
              role |-> t.role, att |-> t.att, spare |-> t.spare, trace |-> t.trace,
              hit |-> t.hit]
      /\ t.trace \in Seq(Calls) /\ t.att \in {1, 2} /\ t.hit \subseteq {t.att}
      /\ t.hit # {} => Marked(t.trace)
  BY DEF Effects, Shape
<1>4. u = [pc |-> t.pc, ses |-> t.ses, named |-> t.named, intent |-> t.intent,
           role |-> t.role, att |-> t.att, spare |-> t.spare, trace |-> tr, hit |-> h]
  BY <1>3 DEF Called
<1> HIDE DEF c
<1>5. /\ tr \in Seq(Calls) /\ Len(tr) = Len(t.trace) + 1 /\ tr[Len(t.trace) + 1] = c
      /\ \A i \in 1 .. Len(t.trace) : tr[i] = t.trace[i]
      /\ DOMAIN tr = 1 .. Len(tr) /\ DOMAIN t.trace = 1 .. Len(t.trace) /\ Len(t.trace) \in Nat
  BY <1>1, <1>3, AppendProperties, LenProperties
<1> HIDE DEF tr
<1>6. h # {} => Marked(tr)
  <2>1. CASE o.effect
    <3>1. Len(t.trace) + 1 \in DOMAIN tr
      BY <1>5
    <3> QED
      BY <1>1, <1>2, <1>5, <2>1, <3>1 DEF Marked
  <2>2. CASE ~o.effect
    <3>1. ASSUME NEW i \in DOMAIN t.trace PROVE i \in DOMAIN tr /\ tr[i] = t.trace[i]
      BY <1>5
    <3> QED
      BY <1>3, <2>2, <3>1 DEF Marked
  <2> QED
    BY <2>1, <2>2
<1>7. h \subseteq {t.att} /\ (h = {} \/ h = {1} \/ h = {2})
  BY <1>3
<1> HIDE DEF h
<1>8. Shape(u)
  BY <1>4 DEF Shape
<1>9. /\ u.pc = "agent" /\ u.ses = t.ses /\ u.att = t.att
      /\ u.trace = tr /\ u.hit = h
  <2>1. t.pc = "agent"
    OBVIOUS
  <2> QED
    BY ONLY <1>4, <2>1
<1> QED
  BY <1>3, <1>5, <1>6, <1>7, <1>8, <1>9 DEF Effects

(* A second attempt follows one without an effect.                         *)
LEMMA RetryEffects ==
  ASSUME NEW t, Effects(t), t.pc = "agent", t.att = 1,
         SideEffectState(t.trace) \in {"NO_TOOLS", "READ_ONLY"}, NEW u,
         u = [t EXCEPT !.att = 2, !.trace = <<>>]
  PROVE  Effects(u) /\ u.pc = "agent" /\ u.ses = t.ses /\ u.att = 2
<1>1. ~Marked(t.trace)
  <2>1. ASSUME NEW i \in DOMAIN t.trace,
               t.trace[i].op = "vm" \/ (t.trace[i].op = "edit" /\ t.trace[i].ok)
        PROVE  FALSE
    <3>1. t.trace # <<>> /\ t.trace[i] \in ToSet(t.trace)
      BY <2>1 DEF ToSet
    <3> QED
      BY <2>1, <3>1 DEF SideEffectState, Mutations
  <2> QED
    BY <2>1 DEF Marked
<1>2. /\ t = [pc |-> t.pc, ses |-> t.ses, named |-> t.named, intent |-> t.intent,
              role |-> t.role, att |-> t.att, spare |-> t.spare, trace |-> t.trace,
              hit |-> t.hit]
      /\ t.hit = {}
  BY <1>1 DEF Effects, Shape
<1>3. u = [pc |-> "agent", ses |-> t.ses, named |-> t.named, intent |-> t.intent,
           role |-> t.role, att |-> 2, spare |-> t.spare, trace |-> <<>>, hit |-> {}]
  BY <1>2
<1>4. <<>> \in Seq(Calls)
  OBVIOUS
<1>5. Shape(u)
  BY <1>3 DEF Shape
<1>6. u.pc = "agent" /\ u.ses = t.ses /\ u.att = 2 /\ u.trace = <<>> /\ u.hit = {}
  BY ONLY <1>3
<1> QED
  BY <1>4, <1>5, <1>6 DEF Effects

-----------------------------------------------------------------------------
(* Answers.  In the messages l of the sessions r has said nothing; r has   *)
(* said one thing, the message i of s.                                     *)
Mute(l, r) == \A s \in Sessions : \A i \in DOMAIN l[s] : l[s][i].by # r
Sole(l, r, s, i) ==
  /\ s \in Sessions /\ i \in DOMAIN l[s] /\ l[s][i].by = r
  /\ \A z \in Sessions : \A j \in DOMAIN l[z] : l[z][j].by = r => z = s /\ j = i

Texts == {"chat", "fact", "clarify", "listed", "agent", "project"}
Message == [by : Requests, what : Texts, att : {1, 2}]
Logs == [Sessions -> Seq(Message)]

(* l2 is l with what a step of r does to the messages of s: a new message, *)
(* and the old one j that it supersedes.                                   *)
Says(l, l2, r, s, x) ==
  /\ x \in Message /\ x.by = r
  /\ l2 = [l EXCEPT ![s] = Append(l[s], x)]
Supersedes(l, l2, r, s, j, x) ==
  /\ x \in Message /\ x.by = r /\ j \in DOMAIN l[s] /\ l[s][j].by = r
  /\ l2 = [l EXCEPT ![s] = Append(RemoveAt(l[s], j), x)]

(* What the others said stays: nothing, or one message.                    *)
Keeps(l, l2, r) ==
  \A k \in Requests \ {r} :
    /\ Mute(l, k) => Mute(l2, k)
    /\ \A z \in Sessions : \A i \in DOMAIN l[z] :
         Sole(l, k, z, i) =>
           \E j \in DOMAIN l2[z] : Sole(l2, k, z, j) /\ l2[z][j].att = l[z][i].att

(* And r's one message is now x.                                           *)
Answered(l2, r, s, x) == \E j \in DOMAIN l2[s] : Sole(l2, r, s, j) /\ l2[s][j] = x

(* A new message of r.                                                     *)
LEMMA SaysSound ==
  ASSUME NEW l \in Logs, NEW l2, NEW r \in Requests, NEW s \in Sessions, NEW x,
         Says(l, l2, r, s, x)
  PROVE  /\ l2 \in Logs
         /\ Keeps(l, l2, r)
         /\ Mute(l, r) => Answered(l2, r, s, x)
<1> DEFINE m == Len(l[s])
<1>1. l[s] \in Seq(Message) /\ m \in Nat /\ DOMAIN l[s] = 1 .. m
  BY LenProperties DEF Logs
<1>2. /\ l2[s] \in Seq(Message) /\ DOMAIN l2[s] = 1 .. m + 1 /\ l2[s][m + 1] = x
      /\ \A i \in 1 .. m : l2[s][i] = l[s][i]
      /\ \A z \in Sessions : z # s => l2[z] = l[z]
      /\ l2 \in Logs
  <2>1. /\ Append(l[s], x) \in Seq(Message) /\ Len(Append(l[s], x)) = m + 1
        /\ Append(l[s], x)[m + 1] = x /\ \A i \in 1 .. m : Append(l[s], x)[i] = l[s][i]
    BY <1>1, AppendProperties DEF Says
  <2> DEFINE a == Append(l[s], x)
  <2> HIDE DEF a, m
  <2>2. DOMAIN a = 1 .. m + 1
    BY <2>1, LenProperties DEF a
  <2>3. l2 = [l EXCEPT ![s] = a] /\ l \in [Sessions -> Seq(Message)]
    BY DEF Says, Logs, a
  <2>4. l2 \in Logs /\ l2[s] = a /\ \A z \in Sessions : z # s => l2[z] = l[z]
    BY <2>1, <2>3 DEF Logs, a
  <2> QED
    BY <2>1, <2>2, <2>4 DEF a
<1> HIDE DEF m
<1>3. /\ m + 1 \in 1 .. m + 1 /\ 1 .. m \subseteq 1 .. m + 1
      /\ \A i \in 1 .. m + 1 : i \in 1 .. m \/ i = m + 1
  BY <1>1
<1>4. x.by = r
  BY DEF Says
<1>5. ASSUME NEW k \in Requests \ {r}, Mute(l, k) PROVE Mute(l2, k)
  BY <1>1, <1>2, <1>3, <1>4, <1>5 DEF Mute
<1>6. ASSUME NEW k \in Requests \ {r}, NEW z \in Sessions, NEW i \in DOMAIN l[z], Sole(l, k, z, i)
      PROVE  \E j \in DOMAIN l2[z] : Sole(l2, k, z, j) /\ l2[z][j].att = l[z][i].att
  <2>1. i \in DOMAIN l2[z] /\ l2[z][i] = l[z][i]
    BY <1>1, <1>2, <1>3
  <2>2. Sole(l2, k, z, i)
    BY <1>1, <1>2, <1>3, <1>4, <1>6, <2>1 DEF Sole
  <2> QED
    BY <2>1, <2>2
<1>7. ASSUME Mute(l, r) PROVE \E j \in DOMAIN l2[s] : Sole(l2, r, s, j) /\ l2[s][j] = x
  <2>1. Sole(l2, r, s, m + 1)
    BY <1>1, <1>2, <1>3, <1>4, <1>7 DEF Mute, Sole
  <2> QED
    BY <1>2, <1>3, <2>1
<1> QED
  BY <1>2, <1>5, <1>6, <1>7 DEF Keeps, Answered

(* Removing one message shifts the later ones.                             *)
LEMMA RemoveSound ==
  ASSUME NEW q \in Seq(Message), NEW j \in DOMAIN q
  PROVE  LET u == RemoveAt(q, j) IN
         /\ u \in Seq(Message) /\ Len(u) = Len(q) - 1
         /\ \A i \in 1 .. Len(q) - 1 : u[i] = IF i < j THEN q[i] ELSE q[i + 1]
<1> DEFINE n == Len(q)  a == SubSeq(q, 1, j - 1)  b == SubSeq(q, j + 1, n)
<1>1. n \in Nat /\ DOMAIN q = 1 .. n /\ j \in 1 .. n
  BY LenProperties
<1>2. /\ a \in Seq(Message) /\ Len(a) = j - 1 /\ \A i \in 1 .. j - 1 : a[i] = q[i]
  BY <1>1, SubSeqProperties
<1>3. /\ b \in Seq(Message) /\ Len(b) = n - j /\ \A i \in 1 .. n - j : b[i] = q[j + i]
  BY <1>1, SubSeqProperties
<1>4. /\ a \o b \in Seq(Message) /\ Len(a \o b) = Len(a) + Len(b)
      /\ \A i \in 1 .. Len(a) + Len(b) :
           (a \o b)[i] = IF i <= Len(a) THEN a[i] ELSE b[i - Len(a)]
  BY <1>2, <1>3, ConcatProperties
<1>5. RemoveAt(q, j) = a \o b
  BY DEF RemoveAt
<1> HIDE DEF n, a, b
<1>6. ASSUME NEW i \in 1 .. n - 1 PROVE (a \o b)[i] = IF i < j THEN q[i] ELSE q[i + 1]
  <2>1. i \in 1 .. Len(a) + Len(b)
    BY <1>1, <1>2, <1>3
  <2>2. CASE i < j
    BY <1>1, <1>2, <1>4, <2>1, <2>2
  <2>3. CASE i >= j
    <3>1. i - (j - 1) \in 1 .. n - j /\ ~(i <= j - 1) /\ j + (i - (j - 1)) = i + 1
      BY <1>1, <2>3
    <3> QED
      BY <1>2, <1>3, <1>4, <2>1, <2>3, <3>1
  <2>4. i < j \/ i >= j
    BY <1>1
  <2> QED
    BY <2>2, <2>3, <2>4, Zenon
<1>7. a \o b \in Seq(Message) /\ Len(a \o b) = n - 1
  BY <1>1, <1>2, <1>3, <1>4
<1> QED
  BY <1>5, <1>6, <1>7, Zenon DEF n

(* A new message of r in place of its old one.                             *)
LEMMA SupersedesSound ==
  ASSUME NEW l \in Logs, NEW l2, NEW r \in Requests, NEW s \in Sessions, NEW j, NEW x,
         Supersedes(l, l2, r, s, j, x)
  PROVE  /\ l2 \in Logs
         /\ Keeps(l, l2, r)
         /\ Sole(l, r, s, j) => Answered(l2, r, s, x)
<1> DEFINE m == Len(l[s])  u == RemoveAt(l[s], j)  a == Append(u, x)
<1>1. l[s] \in Seq(Message) /\ m \in Nat /\ DOMAIN l[s] = 1 .. m /\ j \in 1 .. m /\ l[s][j].by = r
  BY LenProperties DEF Logs, Supersedes
<1>2. x \in Message /\ x.by = r /\ l2 = [l EXCEPT ![s] = a]
  BY DEF Supersedes
<1>3. /\ u \in Seq(Message) /\ Len(u) = m - 1
      /\ \A i \in 1 .. m - 1 : u[i] = IF i < j THEN l[s][i] ELSE l[s][i + 1]
  BY <1>1, RemoveSound
<1> HIDE DEF m, u
<1>4. /\ a \in Seq(Message) /\ DOMAIN a = 1 .. m /\ a[m] = x
      /\ \A i \in 1 .. m - 1 : a[i] = u[i]
  <2>1. /\ a \in Seq(Message) /\ Len(a) = Len(u) + 1 /\ a[Len(u) + 1] = x
        /\ \A i \in 1 .. Len(u) : a[i] = u[i]
    BY <1>2, <1>3, AppendProperties
  <2> HIDE DEF a
  <2>2. DOMAIN a = 1 .. Len(a)
    BY <2>1, LenProperties
  <2> QED
    BY <1>1, <1>3, <2>1, <2>2
<1> HIDE DEF a
<1>5. l2 \in Logs /\ l2[s] = a /\ \A z \in Sessions : z # s => l2[z] = l[z]
  BY <1>2, <1>4 DEF Logs
<1>6. ASSUME NEW i \in 1 .. m, i # m
      PROVE  a[i] = l[s][IF i < j THEN i ELSE i + 1] /\ (IF i < j THEN i ELSE i + 1) \in 1 .. m
  BY <1>1, <1>3, <1>4, <1>6
<1>7. ASSUME NEW k \in Requests \ {r}, Mute(l, k) PROVE Mute(l2, k)
  <2>1. ASSUME NEW i \in 1 .. m PROVE a[i].by # k
    <3>1. CASE i = m
      BY <1>2, <1>4, <3>1
    <3>2. CASE i # m
      BY <1>1, <1>6, <1>7, <3>2 DEF Mute
    <3> QED
      BY <3>1, <3>2
  <2> QED
    BY <1>4, <1>5, <1>7, <2>1 DEF Mute
<1>8. ASSUME NEW k \in Requests \ {r}, NEW z \in Sessions, NEW i \in DOMAIN l[z], Sole(l, k, z, i)
      PROVE  \E h \in DOMAIN l2[z] : Sole(l2, k, z, h) /\ l2[z][h].att = l[z][i].att
  <2>1. CASE z # s
    <3>1. ASSUME NEW h \in 1 .. m PROVE a[h].by # k
      <4>1. CASE h = m
        BY <1>2, <1>4, <4>1
      <4>2. CASE h # m
        BY <1>1, <1>6, <1>8, <2>1, <4>2 DEF Sole
      <4> QED
        BY <4>1, <4>2
    <3>2. Sole(l2, k, z, i)
      BY <1>4, <1>5, <1>8, <2>1, <3>1 DEF Sole
    <3> QED
      BY <1>5, <2>1, <3>2
  <2>2. CASE z = s
    <3> DEFINE h == IF i < j THEN i ELSE i - 1
    <3>1. i \in 1 .. m /\ i # j /\ l[s][i].by = k /\ k # r
      BY <1>1, <1>8, <2>2 DEF Sole
    <3>2. h \in 1 .. m /\ h # m /\ (IF h < j THEN h ELSE h + 1) = i
      BY <1>1, <3>1
    <3> HIDE DEF h
    <3>3. a[h] = l[s][i]
      BY <1>6, <3>2
    <3>4. ASSUME NEW g \in 1 .. m, a[g].by = k PROVE g = h
      <4>1. g # m
        BY <1>2, <1>4, <3>1, <3>4
      <4>2. (IF g < j THEN g ELSE g + 1) = i
        BY <1>1, <1>6, <1>8, <2>2, <3>4, <4>1 DEF Sole
      <4> QED
        BY <1>1, <3>1, <3>2, <4>2 DEF h
    <3>5. Sole(l2, k, s, h)
      BY <1>4, <1>5, <1>8, <2>2, <3>1, <3>2, <3>3, <3>4 DEF Sole
    <3> QED
      BY <1>4, <1>5, <2>2, <3>2, <3>3, <3>5
  <2> QED
    BY <2>1, <2>2
<1>9. ASSUME Sole(l, r, s, j) PROVE \E h \in DOMAIN l2[s] : Sole(l2, r, s, h) /\ l2[s][h] = x
  <2>1. ASSUME NEW g \in 1 .. m, g # m PROVE a[g].by # r
    <3> DEFINE f == IF g < j THEN g ELSE g + 1
    <3>1. f \in 1 .. m /\ f # j /\ a[g] = l[s][f]
      BY <1>1, <1>6, <2>1
    <3> HIDE DEF f
    <3> QED
      BY <1>1, <1>9, <3>1 DEF Sole
  <2>2. m \in 1 .. m
    BY <1>1
  <2>3. Sole(l2, r, s, m)
    BY <1>2, <1>4, <1>5, <1>9, <2>1, <2>2 DEF Sole
  <2> QED
    BY <1>4, <1>5, <2>2, <2>3
<1> QED
  BY <1>5, <1>7, <1>8, <1>9 DEF Keeps, Answered

-----------------------------------------------------------------------------
(* The fields of a handle_message call, for EXCEPT; only one that probes   *)
(* has providers left to probe.                                            *)
IsCall(q) ==
  /\ q = [pc |-> q.pc, ses |-> q.ses, aff |-> q.aff, call |-> q.call, probe |-> q.probe,
          left |-> q.left, gone |-> q.gone]
  /\ q.probe # {} => q.pc = "probe"

(* A step of the Secretary for r, asked in the session s: no word, or the  *)
(* answer and the end.                                                     *)
Moves(r, s) ==
  \E q : /\ IsCall(q) /\ req' = [req EXCEPT ![r] = q]
         /\ \/ log' = log /\ q.pc \in {"probe", "try", "said", "failed"} /\ q.ses = s
            \/ q.pc = "done" /\ Says(log, log', r, s, [by |-> r, what |-> "chat", att |-> 1])

(* What the steps write are messages.                                      *)
LEMMA MessageTyped ==
  ASSUME NEW r \in Requests, NEW what \in Texts, NEW att \in {1, 2}
  PROVE  LET x == [by |-> r, what |-> what, att |-> att] IN
         x \in Message /\ x.by = r /\ x.att = att
BY DEF Message

(* A call is its fields, and conversely: EXCEPT changes only those it names. *)
LEMMA Fields ==
  ASSUME NEW q, IsCall(q)
  PROVE  \E p, s, a, c, b, l, g :
           q = [pc |-> p, ses |-> s, aff |-> a, call |-> c, probe |-> b, left |-> l, gone |-> g]
BY DEF IsCall

(* Conversely.                                                             *)
LEMMA CallOfFields ==
  ASSUME NEW q, NEW p, NEW s, NEW a, NEW c, NEW b, NEW l, NEW g, b # {} => p = "probe",
         q = [pc |-> p, ses |-> s, aff |-> a, call |-> c, probe |-> b, left |-> l, gone |-> g]
  PROVE  IsCall(q) /\ q.pc = p /\ q.ses = s /\ q.probe = b
BY DEF IsCall

(* The calls that begin and end.                                           *)
LEMMA UnbornCall ==
  ASSUME NEW p, NEW s, NEW a
  PROVE  /\ IsCall(Unborn) /\ Unborn.pc = "idle" /\ Unborn.probe = {}
         /\ IsCall([Unborn EXCEPT !.pc = p]) /\ [Unborn EXCEPT !.pc = p].pc = p
         /\ IsCall([Unborn EXCEPT !.ses = s, !.aff = a])
         /\ [Unborn EXCEPT !.ses = s, !.aff = a].ses = s
         /\ [Unborn EXCEPT !.ses = s, !.aff = a].probe = {}
<1> DEFINE u == [Unborn EXCEPT !.pc = p]
           v == [Unborn EXCEPT !.ses = s, !.aff = a]
<1>1. Unborn = [pc |-> "idle", ses |-> None, aff |-> None, call |-> 1, probe |-> {},
                left |-> <<>>, gone |-> FALSE]
  BY DEF Unborn
<1>2. u = [pc |-> p, ses |-> None, aff |-> None, call |-> 1, probe |-> {},
           left |-> <<>>, gone |-> FALSE]
  <2>1. u = [Unborn EXCEPT !.pc = p]
    OBVIOUS
  <2> HIDE DEF u, v
  <2> QED
    BY <1>1, <2>1
<1>3. v = [pc |-> "idle", ses |-> s, aff |-> a, call |-> 1, probe |-> {},
           left |-> <<>>, gone |-> FALSE]
  <2>1. v = [Unborn EXCEPT !.ses = s, !.aff = a]
    OBVIOUS
  <2> HIDE DEF u, v
  <2> QED
    BY <1>1, <2>1
<1> HIDE DEF u, v
<1>4. IsCall(Unborn) /\ Unborn.pc = "idle" /\ Unborn.probe = {}
  BY <1>1, CallOfFields
<1>5. IsCall(u) /\ u.pc = p
  BY <1>2, CallOfFields
<1>6. IsCall(v) /\ v.ses = s /\ v.probe = {}
  BY <1>3, CallOfFields
<1> QED
  BY <1>4, <1>5, <1>6 DEF u, v

(* Answer writes the message and ends the call.                            *)
LEMMA AnswerMoves ==
  ASSUME NEW r \in Requests, NEW q, Answer(r, q) PROVE Moves(r, q.ses)
<1>1. "chat" \in Texts /\ 1 \in {1, 2}
  BY DEF Texts
<1>2. /\ [by |-> r, what |-> "chat", att |-> 1] \in Message
      /\ [by |-> r, what |-> "chat", att |-> 1].by = r
  BY <1>1, MessageTyped
<1>3. Says(log, log', r, q.ses, [by |-> r, what |-> "chat", att |-> 1])
  BY <1>2 DEF Answer, Say, Says
<1>4. PICK u : u = [Unborn EXCEPT !.pc = "done"]
  OBVIOUS
<1>5. req' = [req EXCEPT ![r] = u] /\ IsCall(u) /\ u.pc = "done"
  BY <1>4, UnbornCall DEF Answer
<1> QED
  BY <1>3, <1>5 DEF Moves

(* TryFrom answers or tries the next model.                                *)
LEMMA TryMoves ==
  ASSUME NEW r \in Requests, NEW q, IsCall(q), q.probe = {}, NEW models, TryFrom(r, q, models)
  PROVE  Moves(r, q.ses)
<1>1. CASE models = <<>>
  BY <1>1, AnswerMoves DEF TryFrom
<1>2. CASE models # <<>>
  <2> DEFINE u == [q EXCEPT !.pc = "try", !.left = models]
  <2>1. req' = [req EXCEPT ![r] = u] /\ log' = log
    BY <1>2 DEF TryFrom
  <2>2. IsCall(u) /\ u.pc = "try" /\ u.ses = q.ses
    <3>1. PICK p, s, a, c, b, l, g :
            q = [pc |-> p, ses |-> s, aff |-> a, call |-> c, probe |-> b, left |-> l, gone |-> g]
      BY Fields
    <3>2. u = [pc |-> "try", ses |-> s, aff |-> a, call |-> c, probe |-> {}, left |-> models,
               gone |-> g]
      <4>1. u = [q EXCEPT !.pc = "try", !.left = models]
        OBVIOUS
      <4> HIDE DEF u
      <4> QED
        BY <3>1, <4>1
    <3> HIDE DEF u
    <3> QED
      BY <3>1, <3>2, CallOfFields
  <2> HIDE DEF u
  <2> QED
    BY <2>1, <2>2 DEF Moves
<1> QED
  BY <1>1, <1>2

(* A call that probes.                                                     *)
LEMMA ProbingCall ==
  ASSUME NEW q, IsCall(q), NEW c, NEW P
  PROVE  LET u == [q EXCEPT !.pc = "probe", !.call = c, !.probe = P]
             v == [q EXCEPT !.pc = "probe", !.probe = P]
         IN  /\ IsCall(u) /\ u.pc = "probe" /\ u.ses = q.ses
             /\ IsCall(v) /\ v.pc = "probe" /\ v.ses = q.ses
<1> DEFINE u == [q EXCEPT !.pc = "probe", !.call = c, !.probe = P]
           v == [q EXCEPT !.pc = "probe", !.probe = P]
<1>1. PICK p, s, a, d, b, l, g :
        q = [pc |-> p, ses |-> s, aff |-> a, call |-> d, probe |-> b, left |-> l, gone |-> g]
  BY Fields
<1>2. u = [pc |-> "probe", ses |-> s, aff |-> a, call |-> c, probe |-> P, left |-> l, gone |-> g]
  <2>1. u = [q EXCEPT !.pc = "probe", !.call = c, !.probe = P]
    OBVIOUS
  <2> HIDE DEF u, v
  <2> QED
    BY <1>1, <2>1
<1>3. v = [pc |-> "probe", ses |-> s, aff |-> a, call |-> d, probe |-> P, left |-> l, gone |-> g]
  <2>1. v = [q EXCEPT !.pc = "probe", !.probe = P]
    OBVIOUS
  <2> HIDE DEF u, v
  <2> QED
    BY <1>1, <2>1
<1> HIDE DEF u, v
<1>4. IsCall(u) /\ u.pc = "probe" /\ u.ses = q.ses
  BY <1>1, <1>2, CallOfFields
<1>5. IsCall(v) /\ v.pc = "probe" /\ v.ses = q.ses
  BY <1>1, <1>3, CallOfFields
<1> QED
  BY <1>4, <1>5 DEF u, v

(* When the candidates are resolved, it tries them or probes once more.    *)
LEMMA ResolvedMoves ==
  ASSUME NEW r \in Requests, NEW q, IsCall(q), NEW st, Resolved(r, q, st)
  PROVE  Moves(r, q.ses)
<1> DEFINE found == Candidates(SecretaryRoute, st)
           own == IF q.aff \in ToSet(found) THEN <<q.aff>> ELSE <<>>
           now == [q EXCEPT !.gone = @ \/ own = <<>>, !.probe = {}]
           u == [now EXCEPT !.pc = "probe", !.call = 2, !.probe = Stale(st)]
<1>1. \/ TryFrom(r, now, found)
      \/ TryFrom(r, now, own)
      \/ req' = [req EXCEPT ![r] = u] /\ UNCHANGED log
  BY DEF Resolved
<1>2. IsCall(now) /\ now.probe = {} /\ now.ses = q.ses
  <2> DEFINE g == q.gone \/ own = <<>>
  <2>1. now = [q EXCEPT !.gone = g, !.probe = {}]
    OBVIOUS
  <2> HIDE DEF now, g
  <2> QED
    BY <2>1 DEF IsCall
<1> HIDE DEF now, own, found
<1>3. CASE TryFrom(r, now, found)
  BY <1>2, <1>3, TryMoves
<1>4. CASE TryFrom(r, now, own)
  BY <1>2, <1>4, TryMoves
<1>5. CASE req' = [req EXCEPT ![r] = u] /\ UNCHANGED log
  <2>1. IsCall(u) /\ u.pc = "probe" /\ u.ses = q.ses
    <3>1. PICK n, P : n = now /\ P = Stale(st)
      OBVIOUS
    <3>2. u = [n EXCEPT !.pc = "probe", !.call = 2, !.probe = P]
      BY <3>1
    <3>3. IsCall(n) /\ n.ses = q.ses
      BY <1>2, <3>1
    <3>4. PICK p, s, a, c, b, l, g :
            n = [pc |-> p, ses |-> s, aff |-> a, call |-> c, probe |-> b, left |-> l, gone |-> g]
      BY <3>3, Fields
    <3> HIDE DEF u
    <3>5. u = [pc |-> "probe", ses |-> s, aff |-> a, call |-> 2, probe |-> P, left |-> l,
               gone |-> g]
      BY <3>2, <3>4
    <3> QED
      BY <3>3, <3>4, <3>5, CallOfFields
  <2> HIDE DEF u
  <2> QED
    BY <1>5, <2>1 DEF Moves
<1> QED
  BY <1>1, <1>3, <1>4, <1>5

(* handle_message up to its first await.                                   *)
LEMMA HandleMoves ==
  ASSUME NEW r \in Requests, NEW s, NEW kind \in Kinds, HandleMessage(r, s, kind)
  PROVE  Moves(r, s) /\ req[r].pc = "idle"
<1> DEFINE q == [Unborn EXCEPT !.ses = s, !.aff = voice[s]]
           u == [q EXCEPT !.pc = "probe", !.probe = Stale(status)]
<1>1. IsCall(q) /\ q.ses = s /\ q.probe = {}
  BY UnbornCall
<1>2. /\ req[r].pc = "idle"
      /\ \/ Answer(r, q)
         \/ TryFrom(r, q, Candidates(MediumRoute, status))
         \/ Resolved(r, q, status)
         \/ req' = [req EXCEPT ![r] = u] /\ UNCHANGED log
  BY DEF HandleMessage, Kinds
<1> HIDE DEF q
<1>3. CASE req' = [req EXCEPT ![r] = u] /\ UNCHANGED log
  <2>1. IsCall(u) /\ u.pc = "probe" /\ u.ses = s
    BY <1>1, ProbingCall
  <2> HIDE DEF u
  <2> QED
    BY <1>2, <1>3, <2>1 DEF Moves
<1>4. CASE Answer(r, q)
  BY <1>1, <1>2, <1>4, AnswerMoves
<1>5. CASE TryFrom(r, q, Candidates(MediumRoute, status))
  BY <1>1, <1>2, <1>5, TryMoves
<1>6. CASE Resolved(r, q, status)
  BY <1>1, <1>2, <1>6, ResolvedMoves
<1> QED
  BY <1>2, <1>3, <1>4, <1>5, <1>6

(* The Secretary's other steps, for a call in progress.                    *)
LEMMA CallMoves ==
  ASSUME NEW r \in Requests, IsCall(req[r]),
         req[r].pc \in {"probe", "try", "said", "failed", "idle", "done"},
         (\E m \in Models : Probe(r, m)) \/ Infer(r) \/ Announced(r)
  PROVE  Moves(r, req[r].ses) /\ req[r].pc \in {"probe", "try", "said", "failed"}
<1> DEFINE q == req[r]
<1>1. ASSUME NEW m \in Models, Probe(r, m) PROVE Moves(r, q.ses) /\ q.pc = "probe"
  <2> DEFINE u == [q EXCEPT !.probe = @ \ {m}]
  <2>1. m \in q.probe /\ q.pc = "probe"
    BY <1>1 DEF Probe, IsCall
  <2>2. \/ \E st : Resolved(r, u, st)
        \/ req' = [req EXCEPT ![r] = u] /\ UNCHANGED log
    BY <1>1 DEF Probe
  <2>3. IsCall(u) /\ u.pc = "probe" /\ u.ses = q.ses
    BY <2>1 DEF IsCall
  <2> HIDE DEF u
  <2>4. CASE \E st : Resolved(r, u, st)
    BY <2>1, <2>3, <2>4, ResolvedMoves
  <2>5. CASE req' = [req EXCEPT ![r] = u] /\ UNCHANGED log
    BY <2>1, <2>3, <2>5 DEF Moves
  <2> QED
    BY <2>2, <2>4, <2>5
<1>2. CASE Infer(r)
  <2>1. PICK p \in {"said", "failed"} : req' = [req EXCEPT ![r].pc = p]
    BY <1>2 DEF Infer
  <2>2. q.pc = "try" /\ log' = log
    BY <1>2 DEF Infer
  <2> DEFINE u == [q EXCEPT !.pc = p]
  <2>3. req' = [req EXCEPT ![r] = u]
    BY <2>1
  <2>4. IsCall(u) /\ u.pc = p /\ u.ses = q.ses
    BY <2>2 DEF IsCall
  <2> HIDE DEF u
  <2> QED
    BY <2>2, <2>3, <2>4 DEF Moves
<1>3. CASE Announced(r)
  <2> DEFINE rest == [q EXCEPT !.left = Tail(@)]
  <2>1. /\ q.pc \in {"said", "failed"}
        /\ Answer(r, q) \/ TryFrom(r, rest, rest.left) \/ Answer(r, rest)
    BY <1>3 DEF Announced
  <2>2. IsCall(rest) /\ rest.probe = {} /\ rest.ses = q.ses
    <3>1. PICK p, s, a, c, b, l, g :
            q = [pc |-> p, ses |-> s, aff |-> a, call |-> c, probe |-> b, left |-> l, gone |-> g]
      BY Fields
    <3>2. rest = [pc |-> p, ses |-> s, aff |-> a, call |-> c, probe |-> b, left |-> Tail(l),
                  gone |-> g]
      <4>1. rest = [q EXCEPT !.left = Tail(@)]
        OBVIOUS
      <4> HIDE DEF rest, q
      <4> QED
        BY <3>1, <4>1
    <3>3. b = {}
      BY <2>1, <3>1 DEF IsCall
    <3> HIDE DEF rest, q
    <3> QED
      BY <3>1, <3>2, <3>3, CallOfFields
  <2> HIDE DEF rest, q
  <2>3. CASE Answer(r, q) \/ Answer(r, rest)
    BY <2>1, <2>2, <2>3, AnswerMoves DEF q
  <2>4. CASE TryFrom(r, rest, rest.left)
    BY <2>1, <2>2, <2>4, TryMoves DEF q
  <2> QED
    BY <2>1, <2>3, <2>4
<1> QED
  BY <1>1, <1>2, <1>3

-----------------------------------------------------------------------------
(* A request without an answer yet.                                        *)
Pending(t, q) ==
  \/ t.pc \in {"idle", "classify", "probed", "lead", "refused"}
  \/ t.pc = "agent" /\ t.att = 1
  \/ t.pc = "core" /\ q.pc # "done"

(* What the messages l hold of the request r, by its conversation and its  *)
(* call of the Secretary: nothing, the answer of a first attempt that the  *)
(* second will supersede, or the answer.                                   *)
Speech(t, q, l, r) ==
  /\ t.pc \in {"idle", "classify", "probed", "core", "agent", "lead", "done", "refused"}
  /\ t.pc \in {"classify", "probed", "agent", "lead"} => t.ses \in Sessions
  /\ IsCall(q) /\ q.pc \in {"idle", "probe", "try", "said", "failed", "done"}
  /\ q.pc # "idle" => t.pc = "core"
  /\ q.pc \in {"probe", "try", "said", "failed"} => q.ses \in Sessions
  /\ Pending(t, q) => Mute(l, r)
  /\ t.pc = "agent" /\ t.att = 2 =>
       \E i \in DOMAIN l[t.ses] : Sole(l, r, t.ses, i) /\ l[t.ses][i].att = 1
  /\ t.pc = "done" \/ (t.pc = "core" /\ q.pc = "done") =>
       \E s \in Sessions : \E i \in DOMAIN l[s] : Sole(l, r, s, i)

(* The inductive invariant.                                                *)
Inv ==
  /\ EffectsInv
  /\ log \in Logs /\ link \in Sessions
  /\ req = [r \in Requests |-> req[r]]
  /\ \A r \in Requests : Speech(talk[r], req[r], log, r)

(* It holds initially.                                                     *)
LEMMA InitInv == RouteAssumption /\ Init => Inv
<1> SUFFICES ASSUME RouteAssumption, Init PROVE Inv
  OBVIOUS
<1>1. /\ log = [s \in Sessions |-> <<>>] /\ req = [r \in Requests |-> Unborn]
      /\ link \in Sessions /\ talk = [r \in Requests |-> NoTalk]
  BY DEF Init, SecretaryInit
<1>2. EffectsInv
  BY <1>1, NoTalkEffects DEF EffectsInv
<1>3. <<>> \in Seq(Message) /\ DOMAIN <<>> = {}
  OBVIOUS
<1>4. log \in Logs
  BY <1>1, <1>3 DEF Logs
<1>5. \A r \in Requests : Mute(log, r)
  BY <1>1, <1>3 DEF Mute
<1>6. NoTalk.pc = "idle" /\ IsCall(Unborn) /\ Unborn.pc = "idle"
  BY UnbornCall DEF NoTalk
<1>7. \A r \in Requests : Speech(talk[r], req[r], log, r)
  BY <1>1, <1>5, <1>6 DEF Speech
<1> QED
  BY <1>1, <1>2, <1>4, <1>7 DEF Inv

(* Other requests keep what they said, through a step of r.                *)
Writes(r) ==
  \/ log' = log
  \/ \E s \in Sessions : \E x \in Message : Says(log, log', r, s, x)
  \/ \E s \in Sessions : \E x \in Message : \E j \in DOMAIN log[s] :
       Supersedes(log, log', r, s, j, x)

(* So what they have said stays as their conversation says.                *)
LEMMA OthersKept ==
  ASSUME log \in Logs, NEW r \in Requests, Writes(r), NEW k \in Requests, k # r,
         NEW t, NEW q, Speech(t, q, log, k)
  PROVE  Speech(t, q, log', k)
<1>1. Keeps(log, log', r)
  <2>1. CASE log' = log
    BY <2>1 DEF Keeps
  <2>2. CASE \E s \in Sessions : \E x \in Message : Says(log, log', r, s, x)
    BY <2>2, SaysSound
  <2>3. CASE \E s \in Sessions : \E x \in Message : \E j \in DOMAIN log[s] :
               Supersedes(log, log', r, s, j, x)
    BY <2>3, SupersedesSound
  <2> QED
    BY <2>1, <2>2, <2>3 DEF Writes
<1>2. /\ Mute(log, k) => Mute(log', k)
      /\ \A z \in Sessions : \A i \in DOMAIN log[z] :
           Sole(log, k, z, i) =>
             \E j \in DOMAIN log'[z] : Sole(log', k, z, j) /\ log'[z][j].att = log[z][i].att
  BY <1>1 DEF Keeps
<1>3. t.pc = "agent" /\ t.att = 2 =>
        \E i \in DOMAIN log'[t.ses] : Sole(log', k, t.ses, i) /\ log'[t.ses][i].att = 1
  <2> SUFFICES ASSUME t.pc = "agent", t.att = 2
               PROVE  \E i \in DOMAIN log'[t.ses] :
                        Sole(log', k, t.ses, i) /\ log'[t.ses][i].att = 1
    OBVIOUS
  <2>1. t.ses \in Sessions
    BY DEF Speech
  <2>2. PICK i \in DOMAIN log[t.ses] : Sole(log, k, t.ses, i) /\ log[t.ses][i].att = 1
    BY DEF Speech
  <2>3. PICK j \in DOMAIN log'[t.ses] :
          Sole(log', k, t.ses, j) /\ log'[t.ses][j].att = log[t.ses][i].att
    BY <1>2, <2>1, <2>2
  <2> QED
    BY <2>2, <2>3
<1>4. t.pc = "done" \/ (t.pc = "core" /\ q.pc = "done") =>
        \E s \in Sessions : \E i \in DOMAIN log'[s] : Sole(log', k, s, i)
  <2> SUFFICES ASSUME t.pc = "done" \/ (t.pc = "core" /\ q.pc = "done")
               PROVE  \E s \in Sessions : \E i \in DOMAIN log'[s] : Sole(log', k, s, i)
    OBVIOUS
  <2>1. PICK s \in Sessions : \E i \in DOMAIN log[s] : Sole(log, k, s, i)
    BY DEF Speech
  <2>2. PICK i \in DOMAIN log[s] : Sole(log, k, s, i)
    BY <2>1
  <2>3. PICK j \in DOMAIN log'[s] : Sole(log', k, s, j)
    BY <1>2, <2>2
  <2> QED
    BY <2>3
<1> QED
  BY <1>2, <1>3, <1>4 DEF Speech

(* The messages stay messages.                                             *)
LEMMA WritesTyped ==
  ASSUME log \in Logs, NEW r \in Requests, Writes(r) PROVE log' \in Logs
BY SaysSound, SupersedesSound DEF Writes

(* So a step of r keeps the invariant if r's own part holds after it.      *)
LEMMA Frame ==
  ASSUME Inv, NEW r \in Requests, NEW u, NEW q, Effects(u), Writes(r),
         talk' = [talk EXCEPT ![r] = u], req' = [req EXCEPT ![r] = q],
         link' \in Sessions, Speech(u, q, log', r)
  PROVE  Inv'
<1>1. talk'[r] = u /\ req'[r] = q
  BY DEF Inv, EffectsInv
<1>2. \A k \in Requests : k # r => talk'[k] = talk[k] /\ req'[k] = req[k]
  BY DEF Inv, EffectsInv
<1>3. EffectsInv'
  BY <1>1, <1>2 DEF Inv, EffectsInv
<1>4. req' = [k \in Requests |-> req'[k]]
  BY DEF Inv
<1>5. ASSUME NEW k \in Requests PROVE Speech(talk'[k], req'[k], log', k)
  <2>1. CASE k = r
    BY <1>1, <2>1
  <2>2. CASE k # r
    <3>1. Speech(talk[k], req[k], log, k) /\ log \in Logs
      BY DEF Inv
    <3>2. Speech(talk[k], req[k], log', k)
      BY <2>2, <3>1, OthersKept
    <3> QED
      BY <1>2, <2>2, <3>2
  <2> QED
    BY <2>1, <2>2
<1>6. log' \in Logs
  BY WritesTyped DEF Inv
<1> QED
  BY <1>3, <1>4, <1>5, <1>6 DEF Inv

-----------------------------------------------------------------------------
(* The parts of Speech that differ after a step of r: it has not answered, *)
(* or it just did.                                                         *)
LEMMA StillMute ==
  ASSUME NEW t, NEW q, NEW l, NEW r, Mute(l, r), IsCall(q), q.pc = "idle",
         t.pc \in {"classify", "probed", "lead", "refused"} \/ (t.pc = "agent" /\ t.att = 1),
         t.pc # "refused" => t.ses \in Sessions
  PROVE  Speech(t, q, l, r)
BY DEF Speech, Pending

(* It has answered: the request is over, or its second attempt begins.     *)
LEMMA HasSpoken ==
  ASSUME NEW t, NEW q, NEW l, NEW r, NEW s \in Sessions, NEW i \in DOMAIN l[s],
         Sole(l, r, s, i), IsCall(q), q.pc = "idle",
         t.pc = "done" \/ (t.pc = "agent" /\ t.att = 2 /\ t.ses = s /\ l[s][i].att = 1)
  PROVE  Speech(t, q, l, r)
BY DEF Speech, Pending

(* A dispatched request has not answered yet.                              *)
LEMMA DispatchInv ==
  ASSUME Inv, NEW r \in Requests, NEW t, Effects(t), t.hit = {}, t.trace = <<>>,
         NEW role \in {"lead", "coding", "infra"}, Dispatch(r, t, role),
         req' = req, req[r].pc = "idle", Mute(log, r), link' = link
  PROVE  Inv'
<1>1. log' = log
  BY DispatchMoves
<1>2. PICK u : /\ Set(r, u) /\ Effects(u)
               /\ \/ u.pc = "refused"
                  \/ u.pc = "lead" /\ u.ses = link
                  \/ u.pc = "agent" /\ u.att = 1 /\ u.ses = link
  BY DispatchMoves
<1>3. talk' = [talk EXCEPT ![r] = u] /\ req' = [req EXCEPT ![r] = req[r]] /\ Writes(r)
  BY <1>1, <1>2 DEF Set, Inv, Writes
<1>4. link \in Sessions /\ IsCall(req[r])
  BY DEF Inv, Speech
<1>5. Speech(u, req[r], log', r)
  BY <1>1, <1>2, <1>4, StillMute
<1> QED
  BY <1>2, <1>3, <1>4, <1>5, Frame

(* A message of r.                                                         *)
LEMMA EndsWrites ==
  ASSUME Inv, NEW r \in Requests, NEW s \in Sessions, NEW what \in Texts, NEW att \in {1, 2},
         Mute(log, r), log' = [log EXCEPT ![s] = Append(@, [by |-> r, what |-> what, att |-> att])]
  PROVE  /\ Writes(r)
         /\ \E i \in DOMAIN log'[s] : Sole(log', r, s, i) /\ log'[s][i].att = att
<1> DEFINE x == [by |-> r, what |-> what, att |-> att]
<1>1. x \in Message /\ x.by = r /\ x.att = att
  BY MessageTyped
<1>2. Says(log, log', r, s, x)
  BY <1>1 DEF Says
<1>3. log \in Logs
  BY DEF Inv
<1> HIDE DEF x
<1>4. Answered(log', r, s, x)
  BY <1>2, <1>3, SaysSound
<1> QED
  BY <1>1, <1>2, <1>4 DEF Writes, Answered

(* A request that ends, answered or refused.                               *)
LEMMA EndsInv ==
  ASSUME Inv, NEW r \in Requests, NEW t, Effects(t), t.ses \in Sessions, NEW what \in Texts,
         Ends(r, t, what) \/ Refuses(r, t),
         req' = req, req[r].pc = "idle", Mute(log, r), link' = link
  PROVE  Inv'
<1>1. link \in Sessions /\ IsCall(req[r]) /\ req' = [req EXCEPT ![r] = req[r]]
  BY DEF Inv, Speech
<1>2. CASE Ends(r, t, what)
  <2> DEFINE u == Ended(t, "done")
  <2>1. Effects(u) /\ u.pc = "done"
    BY EndedEffects
  <2>2. /\ talk' = [talk EXCEPT ![r] = u]
        /\ log' = [log EXCEPT ![t.ses] = Append(@, [by |-> r, what |-> what, att |-> 1])]
    BY <1>2 DEF Ends, Set, Say
  <2> HIDE DEF u
  <2>3. 1 \in {1, 2}
    OBVIOUS
  <2>4. /\ Writes(r)
        /\ \E i \in DOMAIN log'[t.ses] : Sole(log', r, t.ses, i) /\ log'[t.ses][i].att = 1
    BY <2>2, <2>3, EndsWrites
  <2>5. Speech(u, req[r], log', r)
    BY <1>1, <2>1, <2>4, HasSpoken
  <2> QED
    BY <1>1, <2>1, <2>2, <2>4, <2>5, Frame
<1>3. CASE Refuses(r, t)
  <2> DEFINE u == Ended(t, "refused")
  <2>1. Effects(u) /\ u.pc = "refused"
    BY EndedEffects
  <2>2. talk' = [talk EXCEPT ![r] = u] /\ log' = log
    BY <1>3 DEF Refuses, Set
  <2> HIDE DEF u
  <2>3. Speech(u, req[r], log', r) /\ Writes(r)
    BY <1>1, <2>1, <2>2, StillMute DEF Writes
  <2> QED
    BY <1>1, <2>1, <2>2, <2>3, Frame
<1> QED
  BY <1>2, <1>3

(* Handle, classification, a call of the Secretary, a tool call, the end   *)
(* of an attempt, of a project: what r does to its own part.               *)
LEMMA HandleInv ==
  ASSUME Inv, NEW r \in Requests, NEW intent \in Intents, NEW named \in Sessions \cup {None},
         Handle(r, intent, named)
  PROVE  Inv'
<1> DEFINE t == [NoTalk EXCEPT !.ses = link, !.named = named, !.intent = intent]
<1>1. /\ talk[r].pc = "idle" /\ req' = req /\ link' = link
      /\ \/ Refuses(r, t)
         \/ Ends(r, t, "fact")
         \/ \E role \in {"lead", "coding", "infra"} : Dispatch(r, t, role)
         \/ Set(r, [t EXCEPT !.pc = "classify"]) /\ UNCHANGED log
  <2>1. intent \in Asked => Roles[intent] \in {"lead", "coding", "infra"}
    BY DEF Asked, Roles
  <2> QED
    BY <2>1 DEF Handle
<1>2. /\ Effects(t) /\ t.hit = {} /\ t.trace = <<>> /\ t.ses = link
      /\ Effects([t EXCEPT !.pc = "classify"])
      /\ [t EXCEPT !.pc = "classify"].pc = "classify" /\ [t EXCEPT !.pc = "classify"].ses = link
  <2> DEFINE v == [t EXCEPT !.pc = "classify"]
  <2>1. t = [pc |-> "idle", ses |-> link, named |-> named, intent |-> intent, role |-> "none",
             att |-> 0, spare |-> None, trace |-> <<>>, hit |-> {}]
    <3>1. t = [NoTalk EXCEPT !.ses = link, !.named = named, !.intent = intent]
      OBVIOUS
    <3> HIDE DEF t, v
    <3> QED
      BY <3>1 DEF NoTalk
  <2>2. v = [pc |-> "classify", ses |-> link, named |-> named, intent |-> intent,
             role |-> "none", att |-> 0, spare |-> None, trace |-> <<>>, hit |-> {}]
    <3>1. v = [t EXCEPT !.pc = "classify"]
      OBVIOUS
    <3> HIDE DEF t, v
    <3> QED
      BY <2>1, <3>1
  <2>3. <<>> \in Seq(Calls)
    OBVIOUS
  <2> HIDE DEF t, v
  <2>4. Effects(t) /\ t.hit = {} /\ t.trace = <<>> /\ t.ses = link
    BY <2>1, <2>3 DEF Effects, Shape
  <2>5. Effects(v) /\ v.pc = "classify" /\ v.ses = link
    BY <2>2, <2>3 DEF Effects, Shape
  <2> QED
    BY <2>4, <2>5 DEF v
<1>3. link \in Sessions /\ IsCall(req[r]) /\ req[r].pc = "idle" /\ Mute(log, r)
  BY <1>1 DEF Inv, Speech, Pending
<1>4. "fact" \in Texts
  BY DEF Texts
<1> DEFINE v == [t EXCEPT !.pc = "classify"]
<1>5. CASE Set(r, v) /\ UNCHANGED log
  <2>1. Effects(v) /\ v.pc = "classify" /\ v.ses \in Sessions
    BY <1>2, <1>3
  <2> HIDE DEF v
  <2>2. /\ talk' = [talk EXCEPT ![r] = v] /\ log' = log /\ Writes(r)
        /\ req' = [req EXCEPT ![r] = req[r]] /\ link' \in Sessions
    BY <1>1, <1>3, <1>5 DEF Set, Inv, Writes
  <2>3. Speech(v, req[r], log', r)
    BY <1>3, <2>1, <2>2, StillMute
  <2> QED
    BY <2>1, <2>2, <2>3, Frame
<1> HIDE DEF t
<1>6. CASE Refuses(r, t) \/ Ends(r, t, "fact")
  BY <1>1, <1>2, <1>3, <1>4, <1>6, EndsInv
<1>7. ASSUME NEW role \in {"lead", "coding", "infra"}, Dispatch(r, t, role) PROVE Inv'
  BY <1>1, <1>2, <1>3, <1>7, DispatchInv
<1> QED
  BY <1>1, <1>5, <1>6, <1>7

(* The classifier has probed: nothing else of the conversation changes.    *)
LEMMA ProbedEffects ==
  ASSUME NEW t, Effects(t), t.pc = "classify", NEW u, u = [t EXCEPT !.pc = "probed"]
  PROVE  Effects(u) /\ u.pc = "probed" /\ u.ses = t.ses
<1>1. PICK p, s, n, i, o, a, b, tr, h :
        t = [pc |-> p, ses |-> s, named |-> n, intent |-> i, role |-> o, att |-> a, spare |-> b,
             trace |-> tr, hit |-> h]
  BY DEF Effects, Shape
<1>2. u = [pc |-> "probed", ses |-> s, named |-> n, intent |-> i, role |-> o, att |-> a,
           spare |-> b, trace |-> tr, hit |-> h]
  BY <1>1
<1>3. Shape(u)
  BY ONLY <1>2 DEF Shape
<1>4. u.pc = "probed" /\ u.ses = t.ses /\ u.trace = t.trace /\ u.hit = t.hit
  BY ONLY <1>1, <1>2
<1> QED
  BY <1>3, <1>4 DEF Effects

(* The classifier probes.                                                  *)
LEMMA ProbesInv ==
  ASSUME Inv, NEW r \in Requests, ClassifierProbes(r) PROVE Inv'
<1>1. PICK u : u = [talk[r] EXCEPT !.pc = "probed"]
  OBVIOUS
<1>2. /\ talk[r].pc = "classify" /\ talk' = [talk EXCEPT ![r] = u]
      /\ log' = log /\ req' = [req EXCEPT ![r] = req[r]] /\ link' = link
  BY <1>1 DEF ClassifierProbes, Set, Inv
<1>3. Effects(talk[r]) /\ Speech(talk[r], req[r], log, r) /\ link \in Sessions
  BY DEF Inv, EffectsInv
<1>4. Effects(u) /\ u.pc = "probed" /\ u.ses = talk[r].ses
  BY <1>1, <1>2, <1>3, ProbedEffects
<1>5. Speech(u, req[r], log', r)
  BY <1>2, <1>3, <1>4, StillMute DEF Speech, Pending
<1>6. Writes(r)
  BY <1>2 DEF Writes
<1> QED
  BY <1>2, <1>3, <1>4, <1>5, <1>6, Frame

(* A call of the Secretary speaks for its request.                         *)
LEMMA MovesInv ==
  ASSUME Inv, NEW r \in Requests, NEW s \in Sessions, Moves(r, s), NEW t,
         talk' = [talk EXCEPT ![r] = t], Effects(t), t.pc = "core", Mute(log, r), link' = link
  PROVE  Inv'
<1>1. PICK q : /\ IsCall(q) /\ req' = [req EXCEPT ![r] = q]
               /\ \/ log' = log /\ q.pc \in {"probe", "try", "said", "failed"} /\ q.ses = s
                  \/ q.pc = "done" /\ Says(log, log', r, s, [by |-> r, what |-> "chat", att |-> 1])
  BY DEF Moves
<1>2. link' \in Sessions /\ log \in Logs
  BY DEF Inv
<1>3. CASE log' = log /\ q.pc \in {"probe", "try", "said", "failed"} /\ q.ses = s
  <2>1. Speech(t, q, log', r) /\ Writes(r)
    BY <1>1, <1>3 DEF Speech, Writes
  <2> QED
    BY <1>1, <1>2, <2>1, Frame
<1>4. CASE q.pc = "done" /\ Says(log, log', r, s, [by |-> r, what |-> "chat", att |-> 1])
  <2> DEFINE x == [by |-> r, what |-> "chat", att |-> 1]
  <2>1. Says(log, log', r, s, x)
    BY <1>4
  <2> HIDE DEF x
  <2>2. Answered(log', r, s, x) /\ Writes(r)
    BY <1>2, <2>1, SaysSound DEF Writes, Says
  <2>3. \E i \in DOMAIN log'[s] : Sole(log', r, s, i)
    BY <2>2 DEF Answered
  <2>4. Speech(t, q, log', r)
    BY <1>1, <1>4, <2>3 DEF Speech, Pending
  <2> QED
    BY <1>1, <1>2, <2>2, <2>4, Frame
<1> QED
  BY <1>1, <1>3, <1>4

(* The decision: an answer, a dispatch, or the Secretary.                  *)
LEMMA ClassifiedInv ==
  ASSUME Inv, NEW r \in Requests, Classified(r) PROVE Inv'
<1> DEFINE t == talk[r]
<1>1. /\ t.pc = "probed" /\ link' = link
      /\ \/ req' = req /\ (Ends(r, t, "clarify") \/ Refuses(r, t))
         \/ req' = req /\ \E role \in {"lead", "coding", "infra"} : Dispatch(r, t, role)
         \/ /\ \E kind \in Kinds : HandleMessage(r, t.ses, kind)
            /\ Set(r, Ended(t, "core"))
  BY DEF Classified
<1>2. /\ Effects(t) /\ t.hit = {} /\ t.trace = <<>> /\ t.ses \in Sessions
      /\ Mute(log, r) /\ req[r].pc = "idle"
  BY <1>1 DEF Inv, EffectsInv, Effects, Speech, Pending
<1>3. "clarify" \in Texts
  BY DEF Texts
<1> HIDE DEF t
<1>4. CASE req' = req /\ (Ends(r, t, "clarify") \/ Refuses(r, t))
  BY <1>1, <1>2, <1>3, <1>4, EndsInv
<1>5. ASSUME req' = req, NEW role \in {"lead", "coding", "infra"}, Dispatch(r, t, role) PROVE Inv'
  BY <1>1, <1>2, <1>5, DispatchInv
<1>6. ASSUME NEW kind \in Kinds, HandleMessage(r, t.ses, kind), Set(r, Ended(t, "core")) PROVE Inv'
  <2>1. Moves(r, t.ses)
    BY <1>6, HandleMoves
  <2>2. PICK u : u = Ended(t, "core")
    OBVIOUS
  <2>3. Effects(u) /\ u.pc = "core"
    BY <1>2, <2>2, EndedEffects
  <2>4. talk' = [talk EXCEPT ![r] = u]
    BY <1>6, <2>2 DEF Set
  <2> QED
    BY <1>1, <1>2, <2>1, <2>3, <2>4, MovesInv
<1> QED
  BY <1>1, <1>4, <1>5, <1>6

(* A step of the Secretary.                                                *)
LEMMA CoreInv ==
  ASSUME Inv, CoreStep, UNCHANGED <<link, talk>> PROVE Inv'
<1>1. CASE \E m \in Models : CoolDown(m) \/ DiscoverModels(m)
  <2>1. log' = log /\ req' = req /\ talk' = talk /\ link' = link
    BY <1>1 DEF CoolDown, DiscoverModels
  <2> QED
    BY <2>1 DEF Inv, EffectsInv
<1>2. ASSUME NEW r \in Requests, (\E m \in Models : Probe(r, m)) \/ Infer(r) \/ Announced(r)
      PROVE  Inv'
  <2>1. Speech(talk[r], req[r], log, r) /\ Effects(talk[r])
    BY DEF Inv, EffectsInv
  <2>2. IsCall(req[r]) /\ req[r].pc \in {"probe", "try", "said", "failed", "idle", "done"}
    BY <2>1 DEF Speech
  <2>3. Moves(r, req[r].ses) /\ req[r].pc \in {"probe", "try", "said", "failed"}
    BY <1>2, <2>2, CallMoves
  <2>4. talk[r].pc = "core" /\ req[r].ses \in Sessions /\ Mute(log, r)
    BY <2>1, <2>3 DEF Speech, Pending
  <2>5. talk' = [talk EXCEPT ![r] = talk[r]]
    BY DEF Inv, EffectsInv
  <2> QED
    BY <2>1, <2>3, <2>4, <2>5, MovesInv
<1> QED
  BY <1>1, <1>2 DEF CoreStep

(* A tool call of an attempt.                                              *)
LEMMA CallInv ==
  ASSUME Inv, NEW r \in Requests, NEW op \in {"read", "edit", "vm"}, ToolCall(r, op) PROVE Inv'
<1> DEFINE t == talk[r]
<1>1. t.pc = "agent" /\ log' = log /\ req' = req /\ link' = link
  BY DEF ToolCall
<1>2. PICK o \in Outcomes(op) :
        Set(r, Called(t, op, o))
  BY DEF ToolCall, Called
<1>3. PICK u : u = Called(t, op, o)
  OBVIOUS
<1>4. Effects(t) /\ Speech(t, req[r], log, r) /\ link' \in Sessions
  BY <1>1 DEF Inv, EffectsInv
<1>5. /\ talk' = [talk EXCEPT ![r] = u] /\ req' = [req EXCEPT ![r] = req[r]] /\ Writes(r)
  BY <1>1, <1>2, <1>3 DEF Set, Writes, Inv
<1> HIDE DEF t
<1>6. Effects(u) /\ u.pc = t.pc /\ u.ses = t.ses /\ u.att = t.att
  BY <1>1, <1>3, <1>4, CallEffects
<1>7. Speech(u, req[r], log', r)
  BY <1>1, <1>4, <1>6 DEF Speech, Pending
<1> QED
  BY <1>4, <1>5, <1>6, <1>7, Frame

(* The end of an attempt: a first answer, or the one that supersedes it.   *)
LEMMA AttemptInv ==
  ASSUME Inv, NEW r \in Requests, NEW done \in BOOLEAN, NEW protocol \in BOOLEAN,
         AttemptEnds(r, done, protocol)
  PROVE  Inv'
<1> DEFINE t == talk[r]
           listed == done /\ t.role = "infra" /\ \E c \in ToSet(t.trace) : c.op = "read" /\ c.ok
           again == ~done /\ protocol /\ t.att = 1 /\ t.spare # None
                      /\ SideEffectState(t.trace) \in {"NO_TOOLS", "READ_ONLY"}
           what == IF listed THEN "listed" ELSE "agent"
           x == [by |-> r, what |-> what, att |-> t.att]
<1>1. /\ t.pc = "agent" /\ req' = req /\ link' = link
      /\ \E kept \in IF t.att = 1 THEN {log[t.ses]}
                     ELSE {RemoveAt(log[t.ses], i) : i \in First(t.ses, r)} :
           log' = [log EXCEPT ![t.ses] = Append(kept, x)]
      /\ Set(r, IF again THEN [t EXCEPT !.att = 2, !.trace = <<>>] ELSE Ended(t, "done"))
  BY DEF AttemptEnds
<1>2. Effects(t) /\ Speech(t, req[r], log, r) /\ link' \in Sessions /\ log \in Logs
  BY <1>1 DEF Inv, EffectsInv
<1>3. /\ t.att \in {1, 2} /\ t.ses \in Sessions /\ what \in Texts
      /\ IsCall(req[r]) /\ req[r].pc = "idle"
  BY <1>1, <1>2 DEF Effects, Speech, Texts
<1>4. x \in Message /\ x.by = r /\ x.att = t.att
  <2> HIDE DEF what
  <2> QED
    BY <1>3 DEF Message
<1>5. req' = [req EXCEPT ![r] = req[r]]
  BY <1>1 DEF Inv
<1>6. \E u : /\ talk' = [talk EXCEPT ![r] = u] /\ Effects(u)
             /\ u.pc = "done" \/ (t.att = 1 /\ u.pc = "agent" /\ u.att = 2 /\ u.ses = t.ses)
  <2>1. CASE again
    <3>1. PICK u : u = [t EXCEPT !.att = 2, !.trace = <<>>]
      OBVIOUS
    <3>2. talk' = [talk EXCEPT ![r] = u]
      BY <1>1, <2>1, <3>1 DEF Set
    <3>3. Effects(u) /\ u.pc = "agent" /\ u.ses = t.ses /\ u.att = 2
      BY <1>1, <1>2, <2>1, <3>1, RetryEffects
    <3> QED
      BY <2>1, <3>2, <3>3
  <2>2. CASE ~again
    <3>1. PICK u : u = Ended(t, "done")
      OBVIOUS
    <3>2. talk' = [talk EXCEPT ![r] = u]
      BY <1>1, <2>2, <3>1 DEF Set
    <3>3. Effects(u) /\ u.pc = "done"
      BY <1>2, <3>1, EndedEffects
    <3> QED
      BY <3>2, <3>3
  <2> QED
    BY <2>1, <2>2
<1> HIDE DEF x, again, t
<1>7. Writes(r) /\ Answered(log', r, t.ses, x)
  <2>1. CASE t.att = 1
    <3>1. log' = [log EXCEPT ![t.ses] = Append(log[t.ses], x)]
      BY <1>1, <2>1
    <3>2. Says(log, log', r, t.ses, x) /\ Mute(log, r)
      BY <1>1, <1>2, <1>4, <2>1, <3>1 DEF Says, Speech, Pending
    <3> QED
      BY <1>2, <1>3, <1>4, <3>2, SaysSound DEF Writes
  <2>2. CASE t.att = 2
    <3>1. PICK j \in First(t.ses, r) :
            log' = [log EXCEPT ![t.ses] = Append(RemoveAt(log[t.ses], j), x)]
      <4>1. t.att # 1
        BY <2>2
      <4>2. \E kept \in {RemoveAt(log[t.ses], i) : i \in First(t.ses, r)} :
              log' = [log EXCEPT ![t.ses] = Append(kept, x)]
        BY <1>1, <4>1, Zenon
      <4> QED
        BY <4>2, Zenon
    <3>2. j \in DOMAIN log[t.ses] /\ log[t.ses][j].by = r
      BY DEF First
    <3>3. Supersedes(log, log', r, t.ses, j, x)
      BY <1>4, <3>1, <3>2 DEF Supersedes
    <3>4. Sole(log, r, t.ses, j)
      <4>1. PICK i \in DOMAIN log[t.ses] : Sole(log, r, t.ses, i)
        BY <1>1, <1>2, <2>2 DEF Speech
      <4>2. i = j
        BY <1>3, <3>2, <4>1 DEF Sole
      <4> QED
        BY <4>1, <4>2
    <3>5. Answered(log', r, t.ses, x)
      BY <1>2, <1>3, <3>3, <3>4, SupersedesSound
    <3> QED
      BY <1>3, <1>4, <3>2, <3>3, <3>5 DEF Writes
  <2> QED
    BY <1>3, <2>1, <2>2
<1>8. PICK i \in DOMAIN log'[t.ses] : Sole(log', r, t.ses, i) /\ log'[t.ses][i].att = t.att
  BY <1>4, <1>7 DEF Answered
<1>9. PICK u : /\ talk' = [talk EXCEPT ![r] = u] /\ Effects(u)
               /\ u.pc = "done" \/ (t.att = 1 /\ u.pc = "agent" /\ u.att = 2 /\ u.ses = t.ses)
  BY <1>6
<1>10. Speech(u, req[r], log', r)
  BY <1>3, <1>8, <1>9, HasSpoken
<1> QED
  BY <1>2, <1>5, <1>7, <1>9, <1>10, Frame

(* A project returns.                                                      *)
LEMMA ProjectInv ==
  ASSUME Inv, NEW r \in Requests, ProjectReturns(r) PROVE Inv'
<1>1. /\ talk[r].pc = "lead" /\ req' = req /\ link' = link
      /\ Ends(r, talk[r], "project") \/ Refuses(r, talk[r])
  BY DEF ProjectReturns
<1>2. /\ Effects(talk[r]) /\ talk[r].ses \in Sessions /\ Mute(log, r) /\ req[r].pc = "idle"
  BY <1>1 DEF Inv, EffectsInv, Speech, Pending
<1>3. "project" \in Texts
  BY DEF Texts
<1> QED
  BY <1>1, <1>2, <1>3, EndsInv

(* Every step keeps the invariant.                                         *)
LEMMA StepInv == Inv /\ [Step]_vars => Inv'
<1> SUFFICES ASSUME Inv, [Step]_vars PROVE Inv'
  OBVIOUS
<1>1. CASE CoreStep /\ UNCHANGED <<link, talk>>
  BY <1>1, CoreInv
<1>2. CASE HealthStep /\ UNCHANGED <<link, talk>>
  BY <1>2 DEF HealthStep, core, Inv, EffectsInv
<1>3. ASSUME NEW r \in Requests, NEW i \in Intents, NEW n \in Sessions \cup {None}, Handle(r, i, n)
      PROVE  Inv'
  BY <1>3, HandleInv
<1>4. ASSUME NEW r \in Requests, ClassifierProbes(r) PROVE Inv'
  BY <1>4, ProbesInv
<1>5. ASSUME NEW r \in Requests, Classified(r) PROVE Inv'
  BY <1>5, ClassifiedInv
<1>6. ASSUME NEW r \in Requests, NEW op \in {"read", "edit", "vm"}, ToolCall(r, op) PROVE Inv'
  BY <1>6, CallInv
<1>7. ASSUME NEW r \in Requests, NEW done \in BOOLEAN, NEW protocol \in BOOLEAN,
             AttemptEnds(r, done, protocol)
      PROVE  Inv'
  BY <1>7, AttemptInv
<1>8. ASSUME NEW r \in Requests, ProjectReturns(r) PROVE Inv'
  BY <1>8, ProjectInv
<1>9. ASSUME NEW s \in Sessions, LinkIdentity(s) PROVE Inv'
  BY <1>9 DEF LinkIdentity, Inv, EffectsInv
<1>10. CASE UNCHANGED vars
  BY <1>10 DEF vars, Inv, EffectsInv
<1> QED
  BY <1>1, <1>2, <1>3, <1>4, <1>5, <1>6, <1>7, <1>8, <1>9, <1>10 DEF Step

(* The inductive invariant holds.                                          *)
THEOREM InvHolds == Spec => []Inv
<1>1. Init => Inv
  BY InitInv, RouteAssumption
<1> QED
  BY <1>1, StepInv, PTL DEF Spec

(* A second attempt only follows a first one whose trace shows that it had *)
(* no effect, whatever its tools reported: at most one attempt of a        *)
(* request changed a file or a virtual machine.                            *)
THEOREM NoRequestHasTwoEffects == Spec => []NoSecondEffect
<1>1. Inv => NoSecondEffect
  <2> SUFFICES ASSUME Inv, NEW r \in Requests PROVE Cardinality(talk[r].hit) <= 1
    BY DEF NoSecondEffect
  <2>1. talk[r].hit = {} \/ talk[r].hit = {1} \/ talk[r].hit = {2}
    BY DEF Inv, EffectsInv, Effects
  <2>2. Cardinality({}) = 0 /\ Cardinality({1}) = 1 /\ Cardinality({2}) = 1
    BY FS_EmptySet, FS_Singleton
  <2> QED
    BY <2>1, <2>2
<1> QED
  BY <1>1, InvHolds, PTL

(* When handle has returned, the request has exactly one answer, in one    *)
(* session, though an attempt was made twice, other requests wrote to the  *)
(* same session and the identity was linked anew; a refused one has none.  *)
THEOREM EveryRequestHasOneAnswer == Spec => []OneAnswer
<1>1. Inv => OneAnswer
  <2> SUFFICES ASSUME Inv, NEW r \in Requests
               PROVE  /\ Over(r) => Cardinality(Said(r)) = 1
                      /\ talk[r].pc = "refused" => Said(r) = {}
    BY DEF OneAnswer
  <2>1. Speech(talk[r], req[r], log, r)
    BY DEF Inv
  <2>2. ASSUME Over(r) PROVE Cardinality(Said(r)) = 1
    <3>1. PICK s \in Sessions : \E i \in DOMAIN log[s] : Sole(log, r, s, i)
      BY <2>1, <2>2 DEF Speech, Over
    <3>2. PICK i \in DOMAIN log[s] : Sole(log, r, s, i)
      BY <3>1
    <3>3. Said(r) = {<<s, i>>}
      BY <3>2 DEF Said, Sole
    <3> QED
      BY <3>3, FS_Singleton
  <2>3. ASSUME talk[r].pc = "refused" PROVE Said(r) = {}
    BY <2>1, <2>3 DEF Speech, Pending, Mute, Said
  <2> QED
    BY <2>2, <2>3
<1> QED
  BY <1>1, InvHolds, PTL

-----------------------------------------------------------------------------
(* The voice.  A call that has read a voice and tries models tries that    *)
(* voice alone, or has looked for it and did not find it; a second call of *)
(* _secretary_candidates is only made then.                                *)
Loyal(q) ==
  /\ q = [pc |-> q.pc, ses |-> q.ses, aff |-> q.aff, call |-> q.call, probe |-> q.probe,
          left |-> q.left, gone |-> q.gone]
  /\ q.gone \in BOOLEAN
  /\ q.call = 2 => q.gone
  /\ q.pc \in {"try", "said", "failed"} => q.aff = None \/ q.gone \/ q.left = <<q.aff>>

Voices ==
  /\ req = [r \in Requests |-> req[r]] /\ voice = [s \in Sessions |-> voice[s]]
  /\ \A r \in Requests : Loyal(req[r])

(* A step of the call of r.                                                *)
Stays(r) == \E u : Loyal(u) /\ req' = [req EXCEPT ![r] = u]

(* A loyal call is its fields, and conversely.                             *)
LEMMA LoyalFields ==
  ASSUME NEW q, Loyal(q)
  PROVE  \E p, s, a, c, b, l : \E g \in BOOLEAN :
           /\ q = [pc |-> p, ses |-> s, aff |-> a, call |-> c, probe |-> b, left |-> l,
                   gone |-> g]
           /\ c = 2 => g
           /\ p \in {"try", "said", "failed"} => a = None \/ g \/ l = <<a>>
BY DEF Loyal

(* Conversely.                                                             *)
LEMMA LoyalOfFields ==
  ASSUME NEW q, NEW p, NEW s, NEW a, NEW c, NEW b, NEW l, NEW g \in BOOLEAN,
         q = [pc |-> p, ses |-> s, aff |-> a, call |-> c, probe |-> b, left |-> l, gone |-> g],
         c = 2 => g,
         p \in {"try", "said", "failed"} => a = None \/ g \/ l = <<a>>
  PROVE  Loyal(q)
BY DEF Loyal

(* So is one that is not asked, or is answered.                            *)
LEMMA UnbornLoyal ==
  ASSUME NEW p \in {"idle", "done", "probe"}, NEW s, NEW a, NEW P
  PROVE  /\ Loyal(Unborn)
         /\ Loyal([Unborn EXCEPT !.pc = p])
         /\ Loyal([Unborn EXCEPT !.ses = s, !.aff = a])
         /\ [Unborn EXCEPT !.ses = s, !.aff = a].aff = a
         /\ Loyal([[Unborn EXCEPT !.ses = s, !.aff = a] EXCEPT !.pc = "probe", !.probe = P])
<1> DEFINE u == [Unborn EXCEPT !.pc = p]
           v == [Unborn EXCEPT !.ses = s, !.aff = a]
           w == [v EXCEPT !.pc = "probe", !.probe = P]
<1>1. Unborn = [pc |-> "idle", ses |-> None, aff |-> None, call |-> 1, probe |-> {},
                left |-> <<>>, gone |-> FALSE]
  BY DEF Unborn
<1>2. u = [pc |-> p, ses |-> None, aff |-> None, call |-> 1, probe |-> {},
           left |-> <<>>, gone |-> FALSE]
  <2>1. u = [Unborn EXCEPT !.pc = p]
    OBVIOUS
  <2> HIDE DEF u, v, w
  <2> QED
    BY <1>1, <2>1
<1>3. v = [pc |-> "idle", ses |-> s, aff |-> a, call |-> 1, probe |-> {},
           left |-> <<>>, gone |-> FALSE]
  <2>1. v = [Unborn EXCEPT !.ses = s, !.aff = a]
    OBVIOUS
  <2> HIDE DEF u, v, w
  <2> QED
    BY <1>1, <2>1
<1>4. w = [pc |-> "probe", ses |-> s, aff |-> a, call |-> 1, probe |-> P,
           left |-> <<>>, gone |-> FALSE]
  <2>1. w = [v EXCEPT !.pc = "probe", !.probe = P]
    OBVIOUS
  <2> HIDE DEF u, v, w
  <2> QED
    BY <1>3, <2>1
<1> HIDE DEF u, v, w
<1>5. Loyal(Unborn)
  BY <1>1 DEF Loyal
<1>6. Loyal(u)
  BY <1>2 DEF Loyal
<1>7. Loyal(v) /\ v.aff = a
  BY <1>3 DEF Loyal
<1>8. Loyal(w)
  BY <1>4 DEF Loyal
<1> QED
  BY <1>5, <1>6, <1>7, <1>8 DEF u, v, w

(* Answering ends the call; trying models keeps it loyal when it tries all *)
(* of them for lack of its own voice, or its own voice alone.              *)
LEMMA AnswerStays == ASSUME NEW r, NEW q, Answer(r, q) PROVE Stays(r)
<1>1. PICK u : u = [Unborn EXCEPT !.pc = "done"]
  OBVIOUS
<1>2. req' = [req EXCEPT ![r] = u] /\ Loyal(u)
  BY <1>1, UnbornLoyal DEF Answer
<1> QED
  BY <1>2 DEF Stays

(* Trying, likewise.                                                       *)
LEMMA TryStays ==
  ASSUME NEW r, NEW q, Loyal(q), NEW models, TryFrom(r, q, models),
         models = <<>> \/ q.aff = None \/ q.gone \/ models = <<q.aff>>
  PROVE  Stays(r)
<1>1. CASE models = <<>>
  BY <1>1, AnswerStays DEF TryFrom
<1>2. CASE models # <<>>
  <2> DEFINE u == [q EXCEPT !.pc = "try", !.left = models]
  <2>1. req' = [req EXCEPT ![r] = u]
    BY <1>2 DEF TryFrom
  <2>2. PICK p, s, a, c, b, l : \E g \in BOOLEAN :
          /\ q = [pc |-> p, ses |-> s, aff |-> a, call |-> c, probe |-> b, left |-> l,
                  gone |-> g]
          /\ c = 2 => g
    BY LoyalFields
  <2>3. PICK g \in BOOLEAN :
          /\ q = [pc |-> p, ses |-> s, aff |-> a, call |-> c, probe |-> b, left |-> l,
                  gone |-> g]
          /\ c = 2 => g
    BY <2>2
  <2>4. u = [pc |-> "try", ses |-> s, aff |-> a, call |-> c, probe |-> b, left |-> models,
             gone |-> g]
    <3>1. u = [q EXCEPT !.pc = "try", !.left = models]
      OBVIOUS
    <3> HIDE DEF u
    <3> QED
      BY <2>3, <3>1
  <2> HIDE DEF u
  <2>5. a = None \/ g \/ models = <<a>>
    BY <1>2, <2>3
  <2>6. Loyal(u)
    BY <2>3, <2>4, <2>5, LoyalOfFields
  <2> QED
    BY <2>1, <2>6 DEF Stays
<1> QED
  BY <1>1, <1>2

(* The candidates are resolved.                                            *)
LEMMA ResolvedStays ==
  ASSUME NEW r, NEW q, Loyal(q), NEW st, Resolved(r, q, st)
  PROVE  Stays(r)
<1> DEFINE found == Candidates(SecretaryRoute, st)
           own == IF q.aff \in ToSet(found) THEN <<q.aff>> ELSE <<>>
           lost == q.gone \/ own = <<>>
           now == [q EXCEPT !.gone = @ \/ own = <<>>, !.probe = {}]
           u == [now EXCEPT !.pc = "probe", !.call = 2, !.probe = Stale(st)]
<1>1. \/ TryFrom(r, now, found) /\ (q.aff = None \/ q.call = 2 \/ own = <<>>)
      \/ TryFrom(r, now, own)
      \/ req' = [req EXCEPT ![r] = u] /\ own = <<>>
  BY DEF Resolved
<1>2. own = <<>> \/ own = <<q.aff>>
  OBVIOUS
<1>3. now = [q EXCEPT !.gone = lost, !.probe = {}] /\ lost \in BOOLEAN
  OBVIOUS
<1>4. lost <=> q.gone \/ own = <<>>
  OBVIOUS
<1> HIDE DEF found, own, lost, now
<1>5. PICK p, s, a, c, b, l : \E g \in BOOLEAN :
        /\ q = [pc |-> p, ses |-> s, aff |-> a, call |-> c, probe |-> b, left |-> l, gone |-> g]
        /\ c = 2 => g
        /\ p \in {"try", "said", "failed"} => a = None \/ g \/ l = <<a>>
  BY LoyalFields
<1>6. PICK g \in BOOLEAN :
        /\ q = [pc |-> p, ses |-> s, aff |-> a, call |-> c, probe |-> b, left |-> l, gone |-> g]
        /\ c = 2 => g
        /\ p \in {"try", "said", "failed"} => a = None \/ g \/ l = <<a>>
  BY <1>5
<1>7. now = [pc |-> p, ses |-> s, aff |-> a, call |-> c, probe |-> {}, left |-> l,
             gone |-> lost]
  BY <1>3, <1>6
<1>8. (g => lost) /\ (own = <<>> => lost) /\ (q.call = 2 => lost) /\ q.aff = a
  BY <1>4, <1>6
<1>9. Loyal(now) /\ now.aff = a /\ now.gone = lost
  <2>1. now.aff = a /\ now.gone = lost
    BY <1>7
  <2>2. c = 2 => lost
    BY <1>6, <1>8
  <2>3. p \in {"try", "said", "failed"} => a = None \/ lost \/ l = <<a>>
    BY <1>6, <1>8
  <2>4. PICK h : h = lost
    OBVIOUS
  <2>5. /\ h \in BOOLEAN
        /\ c = 2 => h
        /\ p \in {"try", "said", "failed"} => a = None \/ h \/ l = <<a>>
    BY <1>3, <2>2, <2>3, <2>4
  <2>6. now = [pc |-> p, ses |-> s, aff |-> a, call |-> c, probe |-> {}, left |-> l, gone |-> h]
    BY <1>7, <2>4
  <2>7. Loyal(now)
    BY <2>5, <2>6 DEF Loyal
  <2> QED
    BY <2>1, <2>7
<1>10. CASE TryFrom(r, now, found) /\ (q.aff = None \/ q.call = 2 \/ own = <<>>)
  BY <1>8, <1>9, <1>10, TryStays
<1>11. CASE TryFrom(r, now, own)
  BY <1>2, <1>8, <1>9, <1>11, TryStays
<1>12. CASE req' = [req EXCEPT ![r] = u] /\ own = <<>>
  <2>1. PICK P : P = Stale(st)
    OBVIOUS
  <2>2. u = [now EXCEPT !.pc = "probe", !.call = 2, !.probe = P]
    BY <2>1
  <2> HIDE DEF u
  <2>3. u = [pc |-> "probe", ses |-> s, aff |-> a, call |-> 2, probe |-> P, left |-> l,
             gone |-> lost]
    BY <1>7, <2>2
  <2>4. Loyal(u)
    BY <1>3, <1>8, <1>12, <2>3, LoyalOfFields
  <2> QED
    BY <1>12, <2>4 DEF Stays
<1> QED
  BY <1>1, <1>10, <1>11, <1>12

(* handle_message begins; it leaves every voice.                           *)
LEMMA HandleStays ==
  ASSUME NEW r, NEW s, NEW kind \in Kinds, HandleMessage(r, s, kind)
  PROVE  Stays(r) /\ voice' = voice
<1> DEFINE q == [Unborn EXCEPT !.ses = s, !.aff = voice[s]]
           u == [q EXCEPT !.pc = "probe", !.probe = Stale(status)]
<1>1. Loyal(q) /\ q.aff = voice[s] /\ Loyal(u)
  BY UnbornLoyal
<1>2. /\ voice' = voice
      /\ \/ Answer(r, q)
         \/ TryFrom(r, q, Candidates(MediumRoute, status)) /\ q.aff = None
         \/ Resolved(r, q, status)
         \/ req' = [req EXCEPT ![r] = u]
  BY DEF HandleMessage, Kinds
<1> HIDE DEF q, u
<1>3. CASE Answer(r, q)
  BY <1>2, <1>3, AnswerStays
<1>4. CASE TryFrom(r, q, Candidates(MediumRoute, status)) /\ q.aff = None
  BY <1>1, <1>2, <1>4, TryStays
<1>5. CASE Resolved(r, q, status)
  BY <1>1, <1>2, <1>5, ResolvedStays
<1>6. CASE req' = [req EXCEPT ![r] = u]
  BY <1>1, <1>2, <1>6 DEF Stays
<1> QED
  BY <1>2, <1>3, <1>4, <1>5, <1>6

(* What the property says of one step.                                     *)
Kept ==
  \A s \in Sessions :
    voice[s] # None /\ voice'[s] # voice[s] =>
      \E r \in Requests : /\ req[r].pc = "try" /\ req[r].ses = s
                          /\ req[r].aff # voice[s] \/ req[r].gone

(* Whatever else moves, a step of one call keeps Voices.                   *)
LEMMA StaysVoices ==
  ASSUME Voices, NEW r \in Requests, Stays(r), voice' = [s \in Sessions |-> voice'[s]]
  PROVE  Voices'
<1>1. PICK u : Loyal(u) /\ req' = [req EXCEPT ![r] = u]
  BY DEF Stays
<1>2. /\ req' = [k \in Requests |-> req'[k]]
      /\ \A k \in Requests : req'[k] = IF k = r THEN u ELSE req[k]
  BY <1>1 DEF Voices
<1>3. ASSUME NEW k \in Requests PROVE Loyal(req'[k])
  BY <1>1, <1>2, <1>3 DEF Voices
<1>4. \A k \in Requests : Loyal(req[k])'
  BY <1>3 DEF Loyal
<1> QED
  BY <1>2, <1>4 DEF Voices

(* A probe, and what follows when the candidates are resolved.             *)
LEMMA ProbeStays ==
  ASSUME Voices, NEW r \in Requests, NEW m, Probe(r, m) PROVE Stays(r)
<1> DEFINE u == [req[r] EXCEPT !.probe = @ \ {m}]
<1>1. (\E st : Resolved(r, u, st)) \/ req' = [req EXCEPT ![r] = u]
  BY DEF Probe
<1>2. PICK q : q = req[r]
  OBVIOUS
<1>3. Loyal(q)
  BY <1>2 DEF Voices
<1>4. PICK p, s, a, c, b, l : \E g \in BOOLEAN :
        /\ q = [pc |-> p, ses |-> s, aff |-> a, call |-> c, probe |-> b, left |-> l, gone |-> g]
        /\ c = 2 => g
        /\ p \in {"try", "said", "failed"} => a = None \/ g \/ l = <<a>>
  BY <1>3, LoyalFields
<1>5. u = [q EXCEPT !.probe = @ \ {m}]
  BY <1>2
<1> HIDE DEF u
<1>6. PICK P : P = b \ {m}
  OBVIOUS
<1>7. u = [pc |-> p, ses |-> s, aff |-> a, call |-> c, probe |-> P, left |-> l, gone |-> q.gone]
  BY <1>4, <1>5, <1>6
<1>8. Loyal(u)
  BY <1>4, <1>7, LoyalOfFields
<1> QED
  BY <1>1, <1>8, ResolvedStays DEF Stays

(* The inference of a call whose own voice is tried alone returns that     *)
(* voice.                                                                  *)
LEMMA InferKept ==
  ASSUME Voices, NEW r \in Requests, Infer(r)
  PROVE  Stays(r) /\ voice' = [s \in Sessions |-> voice'[s]] /\ Kept
<1>1. PICK q : q = req[r]
  OBVIOUS
<1>2. Loyal(q) /\ q.pc = "try"
  BY <1>1 DEF Voices, Infer
<1>3. PICK p \in {"said", "failed"} : req' = [req EXCEPT ![r].pc = p]
  BY DEF Infer
<1> DEFINE u == [q EXCEPT !.pc = p]
<1>4. req' = [req EXCEPT ![r] = u]
  BY <1>1, <1>3
<1>5. Loyal(u)
  BY <1>2 DEF Loyal
<1>6. Stays(r)
  BY <1>4, <1>5 DEF Stays
<1>7. CASE voice' = voice
  BY <1>6, <1>7 DEF Voices, Kept
<1>8. CASE voice' = [voice EXCEPT ![q.ses] = IF q.aff = Head(q.left) THEN @ ELSE Head(q.left)]
  <2>1. voice' = [s \in Sessions |-> voice'[s]]
    BY <1>8 DEF Voices
  <2>2. ASSUME NEW s \in Sessions, voice[s] # None, voice'[s] # voice[s]
        PROVE  q.ses = s /\ (q.aff # voice[s] \/ q.gone)
    <3>1. q.ses = s /\ q.aff # Head(q.left)
      BY <1>8, <2>2 DEF Voices
    <3>2. SUFFICES ASSUME q.aff = voice[s], ~q.gone PROVE FALSE
      BY <3>1
    <3>3. q.left = <<q.aff>>
      BY <1>2, <2>2, <3>2 DEF Loyal
    <3>4. Head(<<q.aff>>) = q.aff
      OBVIOUS
    <3> QED
      BY <3>1, <3>3, <3>4
  <2>3. Kept
    BY <1>1, <1>2, <2>2 DEF Kept
  <2> QED
    BY <1>6, <2>1, <2>3
<1> QED
  BY <1>1, <1>7, <1>8 DEF Infer

(* The next model, or the end.                                             *)
LEMMA AnnouncedStays ==
  ASSUME Voices, NEW r \in Requests, Announced(r)
  PROVE  Stays(r) /\ voice' = voice
<1>1. PICK q : q = req[r]
  OBVIOUS
<1> DEFINE rest == [q EXCEPT !.left = Tail(@)]
<1>2. /\ voice' = voice /\ q.pc \in {"said", "failed"}
      /\ Answer(r, q) \/ Answer(r, rest) \/ TryFrom(r, rest, rest.left)
  BY <1>1 DEF Announced
<1>3. PICK p, s, a, c, b, l : \E g \in BOOLEAN :
        /\ q = [pc |-> p, ses |-> s, aff |-> a, call |-> c, probe |-> b, left |-> l, gone |-> g]
        /\ c = 2 => g
        /\ p \in {"try", "said", "failed"} => a = None \/ g \/ l = <<a>>
  BY <1>1, LoyalFields DEF Voices
<1>4. PICK g \in BOOLEAN :
        /\ q = [pc |-> p, ses |-> s, aff |-> a, call |-> c, probe |-> b, left |-> l, gone |-> g]
        /\ c = 2 => g
        /\ p \in {"try", "said", "failed"} => a = None \/ g \/ l = <<a>>
  BY <1>3
<1>5. PICK e : e = Tail(l)
  OBVIOUS
<1>6. rest = [pc |-> p, ses |-> s, aff |-> a, call |-> c, probe |-> b, left |-> e, gone |-> g]
  <2>1. rest = [q EXCEPT !.left = Tail(@)]
    OBVIOUS
  <2> HIDE DEF rest
  <2> QED
    BY <1>4, <1>5, <2>1
<1>7. a = None \/ g \/ e = <<>>
  <2>1. Tail(<<a>>) = <<>>
    OBVIOUS
  <2> QED
    BY <1>2, <1>4, <1>5, <2>1
<1> HIDE DEF rest
<1>8. Answer(r, q) \/ Answer(r, rest) => Stays(r)
  BY AnswerStays
<1>9. ASSUME TryFrom(r, rest, rest.left) PROVE Stays(r)
  <2> DEFINE u == [rest EXCEPT !.pc = "try", !.left = e]
  <2>1. CASE e = <<>>
    BY <1>6, <1>9, <2>1, AnswerStays DEF TryFrom
  <2>2. CASE e # <<>>
    <3>1. req' = [req EXCEPT ![r] = u]
      BY <1>6, <1>9, <2>2 DEF TryFrom
    <3>2. u = [pc |-> "try", ses |-> s, aff |-> a, call |-> c, probe |-> b, left |-> e,
               gone |-> g]
      <4>1. u = [rest EXCEPT !.pc = "try", !.left = e]
        OBVIOUS
      <4> HIDE DEF u
      <4> QED
        BY <1>6, <4>1
    <3> HIDE DEF u
    <3>3. Loyal(u)
      BY <1>4, <1>7, <2>2, <3>2, LoyalOfFields
    <3> QED
      BY <3>1, <3>3 DEF Stays
  <2> QED
    BY <2>1, <2>2
<1> QED
  BY <1>2, <1>8, <1>9

(* It holds initially, and every step of the Secretary keeps it.           *)
LEMMA VoicesInit == SecretaryInit => Voices
<1> SUFFICES ASSUME SecretaryInit PROVE Voices
  OBVIOUS
<1>1. req = [r \in Requests |-> Unborn] /\ voice \in [Sessions -> Models \cup {None}]
  BY DEF SecretaryInit
<1>2. Loyal(Unborn)
  BY UnbornLoyal
<1> QED
  BY <1>1, <1>2 DEF Voices

(* A step that leaves the calls and the voices.                            *)
LEMMA VoicesFrame == Voices /\ UNCHANGED <<voice, req>> => Voices' /\ Kept
BY DEF Voices, Loyal, Kept

(* A step of a call, or of the status of a model.                          *)
LEMMA CoreKept == Voices /\ CoreStep => Voices' /\ Kept
<1> SUFFICES ASSUME Voices, CoreStep PROVE Voices' /\ Kept
  OBVIOUS
<1>1. ASSUME NEW r \in Requests, NEW m, Probe(r, m) PROVE Voices' /\ Kept
  <2>1. voice' = voice
    BY <1>1 DEF Probe
  <2> QED
    BY <1>1, <2>1, ProbeStays, StaysVoices DEF Voices, Kept
<1>2. ASSUME NEW r \in Requests, Infer(r) PROVE Voices' /\ Kept
  BY <1>2, InferKept, StaysVoices
<1>3. ASSUME NEW r \in Requests, Announced(r) PROVE Voices' /\ Kept
  BY <1>3, AnnouncedStays, StaysVoices DEF Voices, Kept
<1>4. ASSUME NEW m \in Models, CoolDown(m) \/ DiscoverModels(m) PROVE Voices' /\ Kept
  BY <1>4, VoicesFrame DEF CoolDown, DiscoverModels
<1> QED
  BY <1>1, <1>2, <1>3, <1>4 DEF CoreStep

(* The voice of a session changes only by a request that found another one *)
(* when it began, or that looked for it and did not find it: the filter of *)
(* handle_message holds through probes, failures and other requests.       *)
THEOREM SecretaryVoiceKept == SecretarySpec => VoiceKept
<1>1. SecretaryInit => Voices
  BY VoicesInit
<1>2. Voices /\ [SecretaryNext]_<<core, probes>> => Voices' /\ Kept
  <2> SUFFICES ASSUME Voices, [SecretaryNext]_<<core, probes>> PROVE Voices' /\ Kept
    OBVIOUS
  <2>1. ASSUME NEW r \in Requests, NEW s, NEW kind \in Kinds, HandleMessage(r, s, kind)
        PROVE  Voices' /\ Kept
    BY <2>1, HandleStays, StaysVoices DEF Voices, Kept
  <2>2. CASE CoreStep
    BY <2>2, CoreKept
  <2>3. CASE HealthStep \/ UNCHANGED <<core, probes>>
    BY <2>3, VoicesFrame DEF HealthStep, core
  <2> QED
    BY <2>1, <2>2, <2>3 DEF SecretaryNext
<1>3. SecretarySpec => [][Kept]_voice
  BY <1>1, <1>2, PTL DEF SecretarySpec
<1> QED
  BY <1>3 DEF Kept, VoiceKept

(* And with the rest of a conversation around it.                          *)
THEOREM ConversationVoiceKept == Spec => VoiceKept
<1>1. Init => Voices
  BY VoicesInit DEF Init
<1>2. Voices /\ [Step]_vars => Voices' /\ Kept
  <2> SUFFICES ASSUME Voices, [Step]_vars PROVE Voices' /\ Kept
    OBVIOUS
  <2>1. CASE CoreStep
    BY <2>1, CoreKept
  <2>2. CASE HealthStep \/ UNCHANGED vars
    BY <2>2, VoicesFrame DEF HealthStep, core, vars
  <2>3. ASSUME NEW r \in Requests, Classified(r) PROVE Voices' /\ Kept
    <3>1. ASSUME NEW s, NEW kind \in Kinds, HandleMessage(r, s, kind) PROVE Voices' /\ Kept
      BY <3>1, HandleStays, StaysVoices DEF Voices, Kept
    <3> QED
      BY <2>3, <3>1, VoicesFrame DEF Classified
  <2>4. ASSUME NEW r \in Requests,
               \/ \E i, n : Handle(r, i, n)
               \/ ClassifierProbes(r)
               \/ \E op : ToolCall(r, op)
               \/ \E done, protocol : AttemptEnds(r, done, protocol)
               \/ ProjectReturns(r)
        PROVE  Voices' /\ Kept
    BY <2>4, VoicesFrame DEF Handle, ClassifierProbes, ToolCall, AttemptEnds, ProjectReturns
  <2>5. ASSUME NEW s, LinkIdentity(s) PROVE Voices' /\ Kept
    BY <2>5, VoicesFrame DEF LinkIdentity
  <2> QED
    BY <2>1, <2>2, <2>3, <2>4, <2>5 DEF Step
<1>3. Spec => [][Kept]_voice
  BY <1>1, <1>2, PTL DEF Spec, vars
<1> QED
  BY <1>3 DEF Kept, VoiceKept
=============================================================================

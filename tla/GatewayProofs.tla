---------------------------- MODULE GatewayProofs ----------------------------
(***************************************************************************)
(* Proofs about Gateway for any number of rows and whatever on_ready reads *)
(* at once: no alert arrives twice unless one of its sends raised, was cut *)
(* off or was queued when on_ready read its row; an on_ready leaves no gap  *)
(* in what it sends; one stop, one disconnect alert.                       *)
(***************************************************************************)
EXTENDS Gateway, FiniteSetTheorems, SequenceTheorems, WellFoundedInduction, TLAPS

Gw == [status : Statuses, intentional : BOOLEAN,
       task : {"none", "start", "backoff", "dead"},
       client : {"none", "open", "cached", "closed"}, heard : BOOLEAN]
Listeners == {"stop", "other"} \cup Readies

(* Of a row that is not unsure it is known how often it is in the channel: *)
(* a pending one never, and it is under way with one sender only.          *)
Known ==
  \A i \in DOMAIN rows \ unsure :
    /\ rows[i].note # "failed" /\ rows[i].sent <= 1
    /\ rows[i].note \in {"suppressed", "pending"} => rows[i].sent = 0
    /\ i \in Sending => rows[i].note = "pending"
    /\ \A r \in Readies : i \in retry[r].left =>
         rows[i].note = "pending" /\ i \notin Sending /\ i \notin Queued(r)

OneSender == \A x, y \in sends : x.row = y.row => x = y

(* on_ready goes through the rows it has read in their order: an older row *)
(* that it has not to send is not pending.                                 *)
Ordered ==
  \A r \in Readies : \A i \in DOMAIN rows, j \in retry[r].left :
    i < j /\ i \notin retry[r].left => rows[i].note # "pending"

(* The rows, those who send them, and what on_ready has still to send.     *)
Alerts ==
  /\ rows \in Seq(Row)
  /\ sends \subseteq [row : DOMAIN rows, by : Listeners]
  /\ \A r \in Readies : retry[r].left \subseteq DOMAIN rows
  /\ unsure \subseteq DOMAIN rows
  /\ OneSender /\ Known /\ Ordered

(* A stop has told the callbacks before it closes the client; start finds  *)
(* no task.                                                                *)
Stopping ==
  /\ call.pc = "await" => gw.intentional
  /\ call.pc = "start" => gw.task = "none"

(* The rest of the types.                                                  *)
Calls == [pc : {"idle", "alert", "start", "await", "raised", "down"},
          then : {"none", "start", "exit"}]
RetryRecord == [pc : {"no", "announce", "send"}, left : SUBSET Nat]
Control ==
  /\ cfg \in Configs /\ gw \in Gw /\ call \in Calls
  /\ retry \in [Readies -> RetryRecord]
  /\ \A r \in Readies : retry[r].pc = "send" <=> retry[r].left # {}

(* The inductive invariant.                                                *)
Inv ==
  /\ TypeOK
  /\ Alerts
  /\ Stopping

(* What a step does to the rows: none disappears, a row that is no longer  *)
(* pending never is again, and rows that appear have state s; and whether  *)
(* it leaves alone what on_ready has to send.                              *)
StaysSent ==
  \A i \in DOMAIN rows :
    i \in DOMAIN rows' /\ (rows[i].note # "pending" => rows'[i].note # "pending")
SameLeft == \A r \in Readies : retry'[r].left = retry[r].left
Appear(s) == \A i \in DOMAIN rows' \ DOMAIN rows : rows'[i].state = s
Silent ==
  call.pc \in {"await", "start"} =>
    \A i \in DOMAIN rows' \ DOMAIN rows : rows'[i].state # "disconnected"
-----------------------------------------------------------------------------
(* Indices of rows.                                                        *)
LEMMA RowsTyped ==
  ASSUME rows \in Seq(Row)
  PROVE  Len(rows) \in Nat /\ DOMAIN rows = 1 .. Len(rows) /\ \A i \in DOMAIN rows : rows[i] \in Row
<1>1. Len(rows) \in Nat /\ DOMAIN rows = 1 .. Len(rows)
  BY LenProperties
<1>2. \A i \in 1 .. Len(rows) : rows[i] \in Row
  BY ElementOfSeq
<1> QED
  BY <1>1, <1>2

(* A change of one row.                                                    *)
LEMMA RowChanged ==
  ASSUME rows \in Seq(Row), NEW i \in DOMAIN rows, NEW r \in Row,
         rows' = [rows EXCEPT ![i] = r]
  PROVE  /\ rows' \in Seq(Row) /\ DOMAIN rows' = DOMAIN rows /\ rows'[i] = r
         /\ \A j \in DOMAIN rows : j # i => rows'[j] = rows[j]
<1>1. i \in 1 .. Len(rows)
  BY RowsTyped
<1>2. rows' \in Seq(Row)
  BY <1>1, ExceptSeq
<1> QED
  BY <1>2

(* A message that arrives.                                                 *)
LEMMA ArrivedTyped ==
  ASSUME NEW r \in Row
  PROVE  /\ Arrived(r) \in Row /\ Arrived(r).note = r.note /\ Arrived(r).state = r.state
         /\ (r.sent = 0 => Arrived(r).sent = 1)
<1>1. r.sent \in 0 .. 2
  BY DEF Row
<1>2. (IF r.sent < 2 THEN r.sent + 1 ELSE 2) \in 0 .. 2
  BY <1>1
<1> QED
  BY <1>1, <1>2 DEF Arrived, Row

(* A row that is marked.                                                  *)
LEMMA MarkedTyped ==
  ASSUME NEW r \in Row, NEW n \in {"suppressed", "pending", "delivered", "failed"}
  PROVE  LET q == [r EXCEPT !.note = n] IN q \in Row /\ q.note = n /\ q.sent = r.sent
BY DEF Row

(* A transition adds at most one row, which is in no one's way.            *)
LEMMA NewRow ==
  ASSUME Alerts, NEW c \in Components, NEW s \in Statuses \cup {"degraded"},
         NEW by \in Listeners, Transition(c, s, by),
         SameLeft, unsure' = unsure
  PROVE  Alerts' /\ StaysSent /\ Appear(s)
<1>0. \A r \in Readies : Queued(r)' = Queued(r)
  BY DEF SameLeft, Queued
<1> DEFINE row == [comp |-> c, state |-> s, sent |-> 0,
                   note |-> IF LastState(c) = "none" THEN "suppressed" ELSE "pending"]
           n == Len(rows) + 1
           x == [row |-> n, by |-> by]
<1>1. rows \in Seq(Row) /\ Len(rows) \in Nat /\ DOMAIN rows = 1 .. Len(rows)
  BY RowsTyped DEF Alerts
<1>2. CASE UNCHANGED <<rows, sends>>
  <2>1. Sending' = Sending
    BY <1>2 DEF Sending
  <2>2. Alerts'
    BY <1>0, <1>2, <2>1 DEF Alerts, OneSender, Known, Ordered, SameLeft
  <2> QED
    BY <1>2, <2>2 DEF StaysSent, Appear
<1>3. CASE rows' = Append(rows, row) /\ sends' \in {sends, sends \cup {x}}
           /\ (sends' # sends => LastState(c) # "none")
  <2>1. row \in Row /\ row.sent = 0 /\ row.note \in {"suppressed", "pending"}
        /\ (LastState(c) # "none" => row.note = "pending") /\ row.state = s
    BY DEF Row
  <2> HIDE DEF row
  <2>2. /\ rows' \in Seq(Row) /\ DOMAIN rows' = DOMAIN rows \cup {n} /\ n \notin DOMAIN rows
        /\ rows'[n] = row /\ \A i \in DOMAIN rows : rows'[i] = rows[i]
    <3>1. rows' \in Seq(Row) /\ DOMAIN rows' = 1 .. n /\ rows'[n] = row
          /\ \A i \in 1 .. Len(rows) : rows'[i] = rows[i]
      BY <1>1, <1>3, <2>1, AppendProperties, LenProperties
    <3> QED
      BY <1>1, <3>1
  <2>3. sends' \subseteq [row : DOMAIN rows', by : Listeners]
    BY <1>3, <2>2 DEF Alerts
  <2>4. OneSender'
    BY <1>3, <2>2 DEF Alerts, OneSender
  <2>5. Sending' \subseteq Sending \cup {n} /\ Sending \subseteq DOMAIN rows
        /\ (n \in Sending' => LastState(c) # "none")
    BY <1>3, <2>2 DEF Alerts, Sending
  <2>6. Known'
    <3> SUFFICES ASSUME NEW i \in DOMAIN rows' \ unsure'
                 PROVE  /\ rows'[i].note # "failed" /\ rows'[i].sent <= 1
                        /\ rows'[i].note \in {"suppressed", "pending"} => rows'[i].sent = 0
                        /\ i \in Sending' => rows'[i].note = "pending"
                        /\ \A r \in Readies : i \in retry'[r].left =>
                             rows'[i].note = "pending" /\ i \notin Sending'
                             /\ i \notin Queued(r)'
      BY DEF Known
    <3>1. CASE i = n
      BY <2>1, <2>2, <2>5, <3>1 DEF Alerts, SameLeft
    <3>2. CASE i # n
      BY <1>0, <2>2, <2>5, <3>2 DEF Alerts, Known, SameLeft
    <3> QED
      BY <3>1, <3>2
  <2>7. Ordered'
    <3> SUFFICES ASSUME NEW r \in Readies, NEW i \in DOMAIN rows', NEW j \in retry'[r].left,
                        i < j, i \notin retry'[r].left
                 PROVE  rows'[i].note # "pending"
      BY DEF Ordered
    <3>1. j \in DOMAIN rows /\ i \in Nat
      BY <1>1, <2>2 DEF Alerts, SameLeft
    <3>2. i \in DOMAIN rows
      BY <1>1, <2>2, <3>1
    <3> QED
      BY <2>2, <3>1, <3>2 DEF Alerts, Ordered, SameLeft
  <2>8. Alerts'
    BY <2>2, <2>3, <2>4, <2>6, <2>7 DEF Alerts, SameLeft
  <2> QED
    BY <2>1, <2>2, <2>8 DEF StaysSent, Appear
<1> QED
  BY <1>2, <1>3 DEF Transition

(* A nonempty set of naturals has a least element: strict inclusion of     *)
(* finite sets is well-founded.                                            *)
LEMMA LeastNat ==
  ASSUME NEW S \in SUBSET Nat, S # {}
  PROVE  Min(S) \in S /\ \A y \in S : Min(S) <= y
<1> DEFINE T == {0 .. k : k \in S}
<1>1. T \subseteq FiniteSubsetsOf(Nat) /\ T # {}
  <2>1. ASSUME NEW k \in S PROVE 0 .. k \in FiniteSubsetsOf(Nat)
    <3>1. 0 .. k \subseteq Nat
      OBVIOUS
    <3>2. 0 \in Int /\ k \in Int
      OBVIOUS
    <3>3. IsFiniteSet(0 .. k)
      BY <3>2, FS_Interval
    <3> QED
      BY <3>1, <3>3 DEF FiniteSubsetsOf
  <2> QED
    BY <2>1
<1>2. PICK I \in T : \A J \in T : <<J, I>> \notin StrictSubsetOrdering(Nat)
  <2> HIDE DEF T
  <2> QED
    BY <1>1, WFMin, FS_StrictSubsetOrderingWellFounded
<1>3. PICK k \in S : I = 0 .. k
  BY <1>2
<1>4. ASSUME NEW y \in S, y < k PROVE FALSE
  <2>1. 0 .. y \in T /\ 0 .. y \subseteq 0 .. k /\ k \notin 0 .. y /\ k \in 0 .. k
    BY <1>4
  <2>2. 0 .. y \subseteq Nat /\ 0 .. k \subseteq Nat
    OBVIOUS
  <2>3. <<0 .. y, 0 .. k>> \in StrictSubsetOrdering(Nat)
    BY <2>1, <2>2, Zenon DEF StrictSubsetOrdering
  <2> QED
    BY <1>2, <1>3, <2>1, <2>3
<1>5. \A y \in S : k <= y
  BY <1>4
<1> QED
  BY <1>5 DEF Min

(* The row that on_ready sends is the oldest it has left.                  *)
LEMMA OldestIsLeft ==
  ASSUME Alerts, NEW r \in Readies, retry[r].left # {}
  PROVE  Oldest(r) \in retry[r].left /\ \A i \in retry[r].left : Oldest(r) <= i
<1>1. retry[r].left \in SUBSET Nat
  BY RowsTyped DEF Alerts
<1> QED
  BY <1>1, LeastNat DEF Oldest

(* A row that is marked as one of its sends ends: it is no longer pending, *)
(* and what is known of the others stays.                                  *)
LEMMA RowMarked ==
  ASSUME Alerts, NEW i \in DOMAIN rows, NEW r \in Row, rows' = [rows EXCEPT ![i] = r],
         rows[i].note # "pending" => r.note # "pending",
         sends' \subseteq sends,
         \A q \in Readies : /\ retry'[q].left \in {retry[q].left, retry[q].left \ {i}, {}}
                           /\ \/ retry'[q].left = retry[q].left
                              \/ r.note # "pending" \/ retry'[q].left = {},
         \/ unsure' = unsure \cup {i}
         \/ unsure' = unsure /\ (i \in unsure \/ (r.note = "delivered" /\ r.sent <= 1)),
         i \notin unsure' => i \notin Sending' /\ \A q \in Readies : i \notin retry'[q].left
  PROVE  Alerts' /\ StaysSent /\ DOMAIN rows' = DOMAIN rows
<1>1. /\ rows' \in Seq(Row) /\ DOMAIN rows' = DOMAIN rows /\ rows'[i] = r
      /\ \A j \in DOMAIN rows : j # i => rows'[j] = rows[j]
  BY RowChanged DEF Alerts
<1>2. unsure \subseteq unsure' /\ unsure' \subseteq unsure \cup {i}
  OBVIOUS
<1>3. Sending' \subseteq Sending
  BY DEF Sending
<1> DEFINE L(q) == retry[q].left
           M(q) == retry'[q].left
<1>9. \A q \in Readies : M(q) \subseteq L(q)
  OBVIOUS
<1>10. \A q \in Readies : Queued(q)' \subseteq Queued(q)
  BY <1>9 DEF Queued
<1>4. Known'
  <2> SUFFICES ASSUME NEW k \in DOMAIN rows' \ unsure'
               PROVE  /\ rows'[k].note # "failed" /\ rows'[k].sent <= 1
                      /\ rows'[k].note \in {"suppressed", "pending"} => rows'[k].sent = 0
                      /\ k \in Sending' => rows'[k].note = "pending"
                      /\ \A q \in Readies : k \in retry'[q].left =>
                           rows'[k].note = "pending" /\ k \notin Sending'
                           /\ k \notin Queued(q)'
    BY DEF Known
  <2>1. CASE k = i
    BY <1>1, <1>2, <2>1
  <2>2. CASE k # i
    BY <1>1, <1>2, <1>3, <1>9, <1>10, <2>2 DEF Alerts, Known
  <2> QED
    BY <2>1, <2>2
<1>5. Ordered'
  <2> SUFFICES ASSUME NEW q \in Readies, NEW k \in DOMAIN rows', NEW j \in retry'[q].left,
                      k < j, k \notin retry'[q].left
               PROVE  rows'[k].note # "pending"
    BY DEF Ordered
  <2>1. CASE k = i
    BY <1>1, <2>1 DEF Alerts, Ordered
  <2>2. CASE k # i
    BY <1>1, <2>2 DEF Alerts, Ordered
  <2> QED
    BY <2>1, <2>2
<1>6. OneSender'
  BY DEF Alerts, OneSender
<1>7. Alerts'
  <2>1. \A q \in Readies : retry'[q].left \subseteq DOMAIN rows'
    BY <1>1, <1>9 DEF Alerts
  <2> QED
    BY <1>1, <1>2, <1>4, <1>5, <1>6, <2>1 DEF Alerts
<1>8. StaysSent
  BY <1>1 DEF StaysSent
<1> QED
  BY <1>1, <1>7, <1>8
-----------------------------------------------------------------------------
(* A send of the listener returned, or raised.                             *)
LEMMA SendReturnsAlerts ==
  ASSUME Alerts, NEW x \in sends, SendReturns(x)
  PROVE  Alerts' /\ StaysSent /\ DOMAIN rows' = DOMAIN rows
<1>1. x.row \in DOMAIN rows /\ rows[x.row] \in Row /\ x.row \in Sending
  BY RowsTyped DEF Alerts, Sending
<1>2. sends' = sends \ {x} /\ retry' = retry
  BY DEF SendReturns
<1>3. x.row \notin Sending'
  BY <1>2 DEF Alerts, OneSender, Sending
<1> DEFINE r == rows[x.row]
<1>4. CASE rows' = [rows EXCEPT ![x.row] = [Arrived(@) EXCEPT !.note = "delivered"]]
           /\ unsure' = unsure
  <2> DEFINE q == [Arrived(r) EXCEPT !.note = "delivered"]
  <2>1. q \in Row /\ q.note = "delivered" /\ q.sent = Arrived(r).sent
    BY <1>1, ArrivedTyped, MarkedTyped
  <2>2. x.row \notin unsure => q.sent <= 1 /\ \A p \in Readies : x.row \notin retry[p].left
    <3>1. x.row \notin unsure => r.sent = 0 /\ \A p \in Readies : x.row \notin retry[p].left
      BY <1>1 DEF Alerts, Known
    <3> QED
      BY <1>1, <2>1, <3>1, ArrivedTyped
  <2>3. rows' = [rows EXCEPT ![x.row] = q]
    BY <1>4
  <2> HIDE DEF q, r
  <2> QED
    BY <1>1, <1>2, <1>3, <1>4, <2>1, <2>2, <2>3, RowMarked
<1>5. ASSUME NEW got \in BOOLEAN, unsure' = unsure \cup {x.row},
             rows' = [rows EXCEPT ![x.row] =
               [IF got THEN Arrived(@) ELSE @ EXCEPT !.note = "failed"]]
      PROVE  Alerts' /\ StaysSent /\ DOMAIN rows' = DOMAIN rows
  <2> DEFINE t == IF got THEN Arrived(r) ELSE r
             q == [t EXCEPT !.note = "failed"]
  <2>1. t \in Row
    BY <1>1, ArrivedTyped
  <2>2. rows' = [rows EXCEPT ![x.row] = q]
    BY <1>5
  <2> HIDE DEF t
  <2>3. q \in Row /\ q.note = "failed"
    BY <2>1, MarkedTyped
  <2> HIDE DEF q, r
  <2> QED
    BY <1>1, <1>2, <1>5, <2>2, <2>3, RowMarked
<1> QED
  BY <1>4, <1>5 DEF SendReturns

(* So did one of on_ready's loop, which sends the oldest row left.         *)
LEMMA RetryStepAlerts ==
  ASSUME TypeOK, Alerts, NEW p \in Readies, RetryStep(p)
  PROVE  Alerts' /\ StaysSent /\ DOMAIN rows' = DOMAIN rows
<1>1. retry[p].left # {} /\ sends' = sends
  BY DEF TypeOK, RetryStep, Retrying
<1>2. PICK i : i = Oldest(p)
  OBVIOUS
<1>3. i \in retry[p].left /\ i \in DOMAIN rows /\ rows[i] \in Row
  BY <1>1, <1>2, OldestIsLeft, RowsTyped DEF Alerts
<1>4. i \notin unsure => i \notin Sending /\ rows[i].sent = 0 /\ i \notin Queued(p)
  BY <1>3 DEF Alerts, Known
<1>5. Sending' = Sending
  BY <1>1 DEF Sending
<1>6. CASE rows' = [rows EXCEPT ![i] = [Arrived(@) EXCEPT !.note = "delivered"]]
           /\ unsure' = unsure /\ retry' = [retry EXCEPT ![p] = Sent(p)]
  <2> DEFINE q == [Arrived(rows[i]) EXCEPT !.note = "delivered"]
  <2>1. q \in Row /\ q.note = "delivered" /\ q.sent = Arrived(rows[i]).sent
    BY <1>3, ArrivedTyped, MarkedTyped
  <2>2. i \notin unsure => q.sent <= 1
    BY <1>3, <1>4, <2>1, ArrivedTyped
  <2>3. rows' = [rows EXCEPT ![i] = q]
    BY <1>6
  <2>4. Sent(p).left = retry[p].left \ {i}
    BY <1>2 DEF Sent, NoRetry, TypeOK
  <2>5. \A t \in Readies : retry'[t].left =
          IF t = p THEN retry[t].left \ {i} ELSE retry[t].left
    BY <1>6, <2>4 DEF TypeOK
  <2>6. i \notin unsure => \A t \in Readies : i \notin retry'[t].left
    BY <1>4, <2>5 DEF Queued
  <2> HIDE DEF q
  <2> QED
    <3>1. \A t \in Readies :
            /\ retry'[t].left \in {retry[t].left, retry[t].left \ {i}, {}}
            /\ retry'[t].left = retry[t].left \/ q.note # "pending" \/ retry'[t].left = {}
      BY <2>1, <2>5
    <3>2. sends' \subseteq sends /\ (rows[i].note # "pending" => q.note # "pending")
      BY <1>1, <2>1
    <3>3. i \notin unsure' => i \notin Sending' /\ \A t \in Readies : i \notin retry'[t].left
      BY <1>4, <1>5, <1>6, <2>6
    <3>4. i \in unsure \/ (q.note = "delivered" /\ q.sent <= 1)
      BY <2>1, <2>2
    <3> QED
      BY <1>3, <1>6, <2>1, <2>3, <3>1, <3>2, <3>3, <3>4, RowMarked
<1>7. ASSUME NEW got \in BOOLEAN, unsure' = unsure \cup {i},
             retry' = [retry EXCEPT ![p] = NoRetry],
             rows' = [rows EXCEPT ![i] = IF got THEN Arrived(@) ELSE @]
      PROVE  Alerts' /\ StaysSent /\ DOMAIN rows' = DOMAIN rows
  <2> DEFINE q == IF got THEN Arrived(rows[i]) ELSE rows[i]
  <2>1. q \in Row /\ q.note = rows[i].note
    BY <1>3, ArrivedTyped
  <2>2. rows' = [rows EXCEPT ![i] = q]
    BY <1>7
  <2>3. \A t \in Readies : retry'[t].left = IF t = p THEN {} ELSE retry[t].left
    BY <1>7 DEF NoRetry, TypeOK
  <2> HIDE DEF q
  <2> QED
    <3>1. \A t \in Readies :
            /\ retry'[t].left \in {retry[t].left, retry[t].left \ {i}, {}}
            /\ retry'[t].left = retry[t].left \/ q.note # "pending" \/ retry'[t].left = {}
      BY <2>3
    <3>2. sends' \subseteq sends /\ (rows[i].note # "pending" => q.note # "pending")
      BY <1>1, <2>1
    <3>3. i \notin unsure' => i \notin Sending' /\ \A t \in Readies : i \notin retry'[t].left
      BY <1>7
    <3>4. unsure' = unsure \cup {i}
      BY <1>7
    <3> QED
      BY <1>3, <2>1, <2>2, <3>1, <3>2, <3>3, <3>4, RowMarked
<1> QED
  BY <1>2, <1>6, <1>7 DEF RetryStep

(* What on_ready reads are the oldest unsent rows: an older row that it    *)
(* does not read was not pending.                                          *)
LEMMA UnsentIsOldest ==
  ASSUME Alerts, NEW i \in DOMAIN rows, NEW j \in Unsent, i < j, i \notin Unsent
  PROVE  ~Open(i)
<1> DEFINE open == {k \in DOMAIN rows : Open(k)}
           Upto(n) == {k \in open : k <= n}
<1>1. Len(rows) \in Nat /\ DOMAIN rows = 1 .. Len(rows)
  BY RowsTyped DEF Alerts
<1>2. \A n : IsFiniteSet(Upto(n))
  <2>1. 1 \in Int /\ Len(rows) \in Int
    BY <1>1
  <2>2. IsFiniteSet(1 .. Len(rows))
    BY <2>1, FS_Interval
  <2>3. \A n : Upto(n) \subseteq 1 .. Len(rows)
    BY <1>1
  <2> HIDE DEF Upto, open
  <2> QED
    BY <2>2, <2>3, FS_Subset
<1>3. j \in open /\ Cardinality(Upto(j)) <= RetryLimit
  BY DEF Unsent
<1>4. Upto(i) \subseteq Upto(j)
  BY <1>1, <1>3
<1>5. Cardinality(Upto(i)) <= Cardinality(Upto(j)) /\ Cardinality(Upto(i)) \in Nat
      /\ Cardinality(Upto(j)) \in Nat
  <2>1. IsFiniteSet(Upto(i)) /\ IsFiniteSet(Upto(j))
    BY <1>2
  <2> HIDE DEF Upto, open
  <2> QED
    BY <1>4, <2>1, FS_Subset, FS_CardinalityType
<1>6. Cardinality(Upto(i)) <= RetryLimit
  BY <1>3, <1>5, GatewayAssumption
<1> QED
  BY <1>6 DEF Unsent

(* on_ready takes over the unsent rows; those that someone else has still  *)
(* to send are unsure from here on.                                        *)
LEMMA RetryBeginAlerts ==
  ASSUME TypeOK, Alerts, NEW p \in Readies, RetryBegin(p)
  PROVE  Alerts' /\ StaysSent /\ DOMAIN rows' = DOMAIN rows
<1>1. rows' = rows /\ sends' = sends /\ Sending' = Sending
  BY DEF RetryBegin, Sending
<1>2. PICK U : /\ retry'[p].left = U /\ \A t \in Readies \ {p} : retry'[t].left = retry[t].left
               /\ \/ U = {} /\ unsure' = unsure
                  \/ U = Unsent /\ unsure' = unsure \cup (Unsent \cap (Sending \cup Queued(p)))
  <2>1. CASE retry' = [retry EXCEPT ![p] = NoRetry] /\ unsure' = unsure
    BY <2>1 DEF TypeOK, NoRetry
  <2>2. CASE /\ retry' = [retry EXCEPT ![p] = [pc |-> "send", left |-> Unsent]]
             /\ unsure' = unsure \cup (Unsent \cap (Sending \cup Queued(p)))
    BY <2>2 DEF TypeOK
  <2> QED
    BY <2>1, <2>2 DEF RetryBegin
<1>3. U \subseteq Unsent /\ Unsent \subseteq DOMAIN rows /\ \A i \in Unsent : Open(i)
  BY <1>2 DEF Unsent
<1>4. /\ unsure \subseteq unsure' /\ unsure' \subseteq DOMAIN rows
      /\ \A i \in U \ unsure' : i \notin Sending /\ i \notin Queued(p)
  BY <1>2, <1>3 DEF Alerts
<1>5. Known'
  <2> SUFFICES ASSUME NEW k \in DOMAIN rows \ unsure'
               PROVE  /\ rows[k].note # "failed" /\ rows[k].sent <= 1
                      /\ rows[k].note \in {"suppressed", "pending"} => rows[k].sent = 0
                      /\ k \in Sending => rows[k].note = "pending"
                      /\ \A t \in Readies : k \in retry'[t].left =>
                           rows[k].note = "pending" /\ k \notin Sending /\ k \notin Queued(t)'
    BY <1>1 DEF Known
  <2>1. k \notin unsure
    BY <1>4
  <2>2. ASSUME NEW t \in Readies, k \in retry'[t].left
        PROVE  rows[k].note = "pending" /\ k \notin Sending /\ k \notin Queued(t)'
    <3>1. CASE t = p
      <4>1. k \in U /\ Open(k) /\ Queued(t)' = Queued(p)
        BY <1>2, <1>3, <2>2, <3>1 DEF Queued
      <4> QED
        BY <1>4, <2>1, <4>1 DEF Alerts, Known, Open
    <3>2. CASE t # p
      <4>1. k \in retry[t].left /\ k \in Queued(p)
        BY <1>2, <2>2, <3>2 DEF Queued
      <4>2. k \notin U /\ k \notin Queued(t) /\ rows[k].note = "pending" /\ k \notin Sending
        BY <1>4, <2>1, <4>1 DEF Alerts, Known
      <4> QED
        BY <1>2, <4>2 DEF Queued
    <3> QED
      BY <3>1, <3>2
  <2> QED
    BY <2>1, <2>2 DEF Alerts, Known
<1>6. Ordered'
  <2> SUFFICES ASSUME NEW t \in Readies, NEW i \in DOMAIN rows, NEW j \in retry'[t].left,
                      i < j, i \notin retry'[t].left
               PROVE  rows[i].note # "pending"
    BY <1>1 DEF Ordered
  <2>1. CASE t = p
    <3>1. j \in Unsent /\ i \notin Unsent
      BY <1>2, <2>1
    <3> QED
      BY <3>1, UnsentIsOldest DEF Open
  <2>2. CASE t # p
    BY <1>2, <2>2 DEF Alerts, Ordered
  <2> QED
    BY <2>1, <2>2
<1>7. OneSender' /\ StaysSent
  BY <1>1 DEF Alerts, OneSender, StaysSent
<1>8. \A t \in Readies : retry'[t].left \subseteq DOMAIN rows
  BY <1>2, <1>3 DEF Alerts
<1> QED
  BY <1>1, <1>4, <1>5, <1>6, <1>7, <1>8 DEF Alerts

(* A crash: what was under way may be in the channel.                      *)
LEMMA RestartAlerts ==
  ASSUME TypeOK, Alerts, Restart
  PROVE  Alerts' /\ StaysSent /\ DOMAIN rows' = DOMAIN rows
<1>1. sends' = {} /\ (\A r \in Readies : retry'[r].left = {}) /\ unsure' = unsure \cup InFlight
  BY DEF Restart, NoRetry
<1>2. PICK got \in SUBSET InFlight :
        rows' = [i \in DOMAIN rows |-> IF i \in got THEN Arrived(rows[i]) ELSE rows[i]]
  BY DEF Restart
<1>3. Len(rows) \in Nat /\ DOMAIN rows = 1 .. Len(rows)
      /\ \A i \in DOMAIN rows : rows[i] \in Row
  BY RowsTyped DEF Alerts
<1>4. \A i \in DOMAIN rows : Arrived(rows[i]) \in Row /\ Arrived(rows[i]).note = rows[i].note
  BY <1>3, ArrivedTyped
<1>5. rows' \in [1 .. Len(rows) -> Row] /\ DOMAIN rows' = DOMAIN rows
  BY <1>2, <1>3, <1>4
<1>6. rows' \in Seq(Row)
  BY <1>3, <1>5, SeqDef
<1>7. InFlight \subseteq DOMAIN rows
  <2>1. Sending \subseteq DOMAIN rows
    BY DEF Alerts, Sending
  <2>2. \A r \in Readies : Retrying(r) => Oldest(r) \in DOMAIN rows
    <3>1. \A r \in Readies : Retrying(r) => retry[r].left # {}
      BY DEF Retrying, TypeOK
    <3> QED
      BY <3>1, OldestIsLeft DEF Alerts
  <2> QED
    BY <2>1, <2>2 DEF InFlight
<1>8. Known'
  <2>1. \A i \in DOMAIN rows' \ unsure' : i \in DOMAIN rows \ unsure /\ rows'[i] = rows[i]
    BY <1>1, <1>2, <1>5
  <2>2. Sending' = {}
    BY <1>1 DEF Sending
  <2> QED
    BY <1>1, <2>1, <2>2 DEF Alerts, Known
<1>9. Ordered' /\ OneSender'
  BY <1>1 DEF Ordered, OneSender
<1>10. Alerts'
  BY <1>1, <1>5, <1>6, <1>7, <1>8, <1>9 DEF Alerts
<1>11. StaysSent
  BY <1>2, <1>4, <1>5 DEF StaysSent
<1> QED
  BY <1>5, <1>10, <1>11

(* Together they are the type invariant, before and after a step.          *)
LEMMA TypesMeet ==
  ASSUME Alerts, Control PROVE TypeOK
<1>1. retry \in [Readies -> [pc : {"no", "announce", "send"}, left : SUBSET DOMAIN rows]]
  BY DEF Alerts, Control, RetryRecord
<1> QED
  BY <1>1 DEF Alerts, Control, TypeOK, Gw, Calls, Listeners

(* After a step the parts make the invariant.                              *)
LEMMA TypesMeetNext ==
  ASSUME Alerts', Control', Stopping' PROVE Inv'
<1>1. (retry \in [Readies -> [pc : {"no", "announce", "send"}, left : SUBSET DOMAIN rows]])'
  BY DEF Alerts, Control, RetryRecord
<1>2. TypeOK'
  BY <1>1 DEF Alerts, Control, TypeOK, Gw, Calls, Listeners
<1> QED
  BY <1>2 DEF Inv

(* The type invariant holds the types of the connection.                   *)
LEMMA Controlled ==
  ASSUME Inv PROVE Control
<1>1. DOMAIN rows \subseteq Nat
  BY RowsTyped DEF Inv, Alerts
<1> QED
  BY <1>1 DEF Inv, TypeOK, Control, Gw, Calls, RetryRecord

(* A status that is set: the row it may add has that state, and an         *)
(* intentional stop adds none for a disconnect.                            *)
LEMMA StatusSet ==
  ASSUME Alerts, NEW s \in Statuses, NEW new \in Gw, NEW by \in Listeners,
         SetStatus(s, new, by), SameLeft, unsure' = unsure
  PROVE  /\ gw' \in Gw /\ gw'.intentional = new.intentional /\ gw'.task = new.task
         /\ Alerts' /\ StaysSent /\ Appear(s)
         /\ new.intentional /\ s = "disconnected" => Appear("connected")
<1>1. gw' \in Gw /\ gw'.intentional = new.intentional /\ gw'.task = new.task
  BY DEF SetStatus, Gw
<1>2. CASE UNCHANGED <<rows, sends>>
  <2>2. Alerts' /\ StaysSent
    <3>1. Sending' = Sending
      BY <1>2 DEF Sending
    <3> QED
      BY <1>2, <3>1 DEF Alerts, OneSender, Known, Ordered, StaysSent, SameLeft, Queued
  <2>3. \A t : Appear(t)
    BY <1>2 DEF Appear
  <2> QED
    BY <1>1, <2>2, <2>3
<1>3. CASE Transition("gateway", s, by) /\ ~(new.intentional /\ s \in {"disconnected", "disabled"})
  <2>1. "gateway" \in Components /\ s \in Statuses \cup {"degraded"}
    BY DEF Components
  <2>2. Alerts' /\ StaysSent /\ Appear(s)
    BY <1>3, <2>1, NewRow
  <2> QED
    BY <1>1, <1>3, <2>2
<1> QED
  BY <1>2, <1>3 DEF SetStatus
-----------------------------------------------------------------------------
(* Steps that set a status outside start and stop.                         *)
LEMMA CallbackSteps ==
  ASSUME Inv, \/ \E r \in Readies : Ready(r)
              \/ Resumed \/ Disconnected \/ MessageFails \/ ClosedCallback
  PROVE  Inv' /\ StaysSent /\ Silent
<1>1. Control /\ gw \in Gw /\ cfg' = cfg /\ call' = call /\ unsure' = unsure
  BY Controlled DEF Control, Ready, Resumed, Disconnected, MessageFails, ClosedCallback
<1>2. PICK new \in Gw, s \in {"connected", "disconnected"}, by \in Listeners :
        /\ SetStatus(s, new, by) /\ new.intentional = gw.intentional /\ new.task = gw.task
        /\ s = "disconnected" => gw.task = "start"
  <2>1. ASSUME NEW r \in Readies, Ready(r)
        PROVE  \E new \in Gw, s \in {"connected", "disconnected"}, by \in Listeners :
                 /\ SetStatus(s, new, by) /\ new.intentional = gw.intentional
                 /\ new.task = gw.task /\ (s = "disconnected" => gw.task = "start")
    <3> DEFINE new == [gw EXCEPT !.client = "cached", !.heard = TRUE]
    <3>1. new \in Gw /\ new.intentional = gw.intentional /\ new.task = gw.task
      BY <1>1 DEF Gw
    <3>2. SetStatus("connected", new, r) /\ r \in Listeners
      BY <2>1 DEF Ready, Listeners
    <3> HIDE DEF new
    <3> QED
      BY <3>1, <3>2
  <2>2. CASE Resumed \/ MessageFails
    BY <1>1, <2>2 DEF Resumed, MessageFails, Listeners
  <2>3. CASE Disconnected \/ ClosedCallback
    BY <1>1, <2>3 DEF Disconnected, ClosedCallback, Listeners
  <2> QED
    BY <2>1, <2>2, <2>3
<1>3. SameLeft /\ retry' \in [Readies -> RetryRecord]
      /\ \A r \in Readies : retry'[r].pc = "send" <=> retry'[r].left # {}
  <2>1. ASSUME NEW r \in Readies, Ready(r)
        PROVE  SameLeft /\ retry' \in [Readies -> RetryRecord]
               /\ \A q \in Readies : retry'[q].pc = "send" <=> retry'[q].left # {}
    <3>1. retry[r].left = {} /\ retry' = [retry EXCEPT ![r] = [pc |-> "announce", left |-> {}]]
      BY <2>1 DEF Ready, NoRetry
    <3>2. [pc |-> "announce", left |-> {}] \in RetryRecord
      BY DEF RetryRecord
    <3> QED
      BY <1>1, <3>1, <3>2 DEF Control, SameLeft
  <2>2. CASE retry' = retry
    BY <1>1, <2>2 DEF Control, SameLeft
  <2> QED
    BY <2>1, <2>2 DEF Resumed, Disconnected, MessageFails, ClosedCallback
<1>4. s \in Statuses
  BY DEF Statuses
<1>5. /\ gw' \in Gw /\ gw'.intentional = gw.intentional /\ gw'.task = gw.task
      /\ Alerts' /\ StaysSent /\ Appear(s)
      /\ gw.intentional /\ s = "disconnected" => Appear("connected")
  BY <1>1, <1>2, <1>3, <1>4, StatusSet DEF Inv, SameLeft
<1>6. Control'
  BY <1>1, <1>3, <1>5 DEF Control
<1>7. Stopping'
  BY <1>1, <1>5 DEF Inv, Stopping
<1>8. Silent
  <2> SUFFICES ASSUME call.pc \in {"await", "start"}, NEW i \in DOMAIN rows' \ DOMAIN rows
               PROVE  rows'[i].state # "disconnected"
    BY DEF Silent
  <2>1. s = "connected" \/ gw.intentional
    BY <1>2 DEF Inv, Stopping
  <2>2. rows'[i].state = "connected"
    BY <1>2, <1>5, <2>1 DEF Appear
  <2> QED
    BY <2>2
<1> QED
  BY <1>5, <1>6, <1>7, <1>8, TypesMeetNext

(* Another component's event.                                              *)
LEMMA OtherEventStep ==
  ASSUME Inv, NEW s \in {"degraded", "connected"}, OtherEvent(s)
  PROVE  Inv' /\ StaysSent /\ Silent
<1>1. Control /\ UNCHANGED <<cfg, gw, call, retry, unsure>>
  BY Controlled DEF Inv, OtherEvent
<1>2. Transition("provider", s, "other") /\ "provider" \in Components /\ "other" \in Listeners
      /\ s \in Statuses \cup {"degraded"} /\ s # "disconnected"
  BY DEF OtherEvent, Components, Listeners, Statuses
<1>3. Alerts' /\ StaysSent /\ Appear(s)
  BY <1>1, <1>2, NewRow DEF Inv, SameLeft
<1>4. Control' /\ Stopping'
  BY <1>1 DEF Inv, Control, Stopping
<1>5. Silent
  BY <1>2, <1>3 DEF Silent, Appear
<1> QED
  BY <1>3, <1>4, <1>5, TypesMeetNext

(* Steps of the sends.                                                     *)
LEMMA SendSteps ==
  ASSUME Inv, \/ \E r \in Readies : RetryBegin(r) \/ RetryStep(r)
              \/ Restart \/ \E x \in sends : SendReturns(x)
  PROVE  Inv' /\ StaysSent /\ Silent
<1>1. Alerts' /\ StaysSent /\ DOMAIN rows' = DOMAIN rows
  BY RetryBeginAlerts, RetryStepAlerts, RestartAlerts, SendReturnsAlerts DEF Inv
<1>2. Silent
  BY <1>1 DEF Silent
<1>3. Control
  BY Controlled
<1>4. ASSUME NEW p \in Readies, RetryBegin(p) PROVE Inv'
  <2>1. gw' = [gw EXCEPT !.status = "connected"] /\ cfg' = cfg /\ call' = call
        /\ \/ retry' = [retry EXCEPT ![p] = NoRetry]
           \/ retry' = [retry EXCEPT ![p] = [pc |-> "send", left |-> Unsent]] /\ Unsent # {}
    <3>1. gw' = [gw EXCEPT !.status = "connected"] /\ cfg' = cfg /\ call' = call
      BY <1>4 DEF RetryBegin
    <3>2. \/ retry' = [retry EXCEPT ![p] = NoRetry]
          \/ retry' = [retry EXCEPT ![p] = [pc |-> "send", left |-> Unsent]] /\ Unsent # {}
      BY <1>4, Zenon DEF RetryBegin
    <3> QED
      BY <3>1, <3>2
  <2>2. gw' \in Gw /\ gw'.intentional = gw.intentional /\ gw'.task = gw.task
    BY <1>3, <2>1 DEF Control, Gw, Statuses
  <2>3. retry' \in [Readies -> RetryRecord]
        /\ \A r \in Readies : retry'[r].pc = "send" <=> retry'[r].left # {}
    <3>1. NoRetry \in RetryRecord /\ [pc |-> "send", left |-> Unsent] \in RetryRecord
      BY RowsTyped DEF NoRetry, RetryRecord, Unsent, Inv, Alerts
    <3>2. PICK t \in RetryRecord : /\ retry' = [retry EXCEPT ![p] = t]
                                   /\ t.pc = "send" <=> t.left # {}
      BY <2>1, <3>1 DEF NoRetry
    <3> QED
      BY <1>3, <3>2 DEF Control
  <2>4. Control' /\ Stopping'
    BY <1>3, <2>1, <2>2, <2>3 DEF Control, Inv, Stopping
  <2> QED
    BY <1>1, <2>4, TypesMeetNext
<1>5. ASSUME NEW p \in Readies, RetryStep(p) PROVE Inv'
  <2>1. gw' = gw /\ cfg' = cfg /\ call' = call /\ retry[p].pc = "send"
        /\ (retry' = [retry EXCEPT ![p] = NoRetry] \/ retry' = [retry EXCEPT ![p] = Sent(p)])
    BY <1>5 DEF RetryStep, Retrying
  <2>2. PICK t \in RetryRecord : /\ retry' = [retry EXCEPT ![p] = t]
                                 /\ t.pc = "send" <=> t.left # {}
    <3>1. NoRetry \in RetryRecord /\ NoRetry.pc # "send" /\ NoRetry.left = {}
      BY DEF NoRetry, RetryRecord
    <3>2. retry[p] \in RetryRecord /\ retry[p].left # {}
      BY <1>3, <2>1 DEF Control
    <3>3. CASE retry[p].left = {Oldest(p)}
      BY <2>1, <3>1, <3>3 DEF Sent
    <3>4. CASE retry[p].left # {Oldest(p)}
      <4>1. Sent(p) = [retry[p] EXCEPT !.left = @ \ {Oldest(p)}]
        BY <3>4 DEF Sent
      <4>2. Sent(p) \in RetryRecord /\ Sent(p).pc = "send"
            /\ Sent(p).left = retry[p].left \ {Oldest(p)}
        BY <2>1, <3>2, <4>1 DEF RetryRecord
      <4>3. Sent(p).left # {}
        BY <3>2, <3>4, <4>2
      <4> QED
        BY <2>1, <3>1, <4>2, <4>3
    <3> QED
      BY <3>3, <3>4
  <2>3. Control' /\ Stopping'
    BY <1>3, <2>1, <2>2 DEF Control, Inv, Stopping
  <2> QED
    BY <1>1, <2>3, TypesMeetNext
<1>6. CASE Restart
  <2>1. gw' = Fresh /\ cfg' = cfg /\ call' = [pc |-> "start", then |-> "start"]
        /\ retry' = [r \in Readies |-> NoRetry]
    BY <1>6 DEF Restart
  <2>2. gw' \in Gw /\ gw'.task = "none" /\ call' \in Calls
    BY <2>1 DEF Fresh, Gw, Statuses, Calls
  <2>3. Control' /\ Stopping'
    <3>1. NoRetry \in RetryRecord /\ NoRetry.pc # "send" /\ NoRetry.left = {}
      BY DEF NoRetry, RetryRecord
    <3> QED
      BY <1>3, <2>1, <2>2, <3>1 DEF Control, Stopping
  <2> QED
    BY <1>1, <1>2, <2>3, TypesMeetNext
<1>7. CASE \E x \in sends : SendReturns(x)
  <2>1. UNCHANGED <<cfg, gw, call, retry>>
    BY <1>7 DEF SendReturns
  <2>2. Control' /\ Stopping'
    BY <1>3, <2>1 DEF Control, Inv, Stopping
  <2> QED
    BY <1>1, <1>2, <2>2, TypesMeetNext
<1> QED
  BY <1>1, <1>2, <1>4, <1>5, <1>6, <1>7

(* Steps that leave the rows and their senders alone.                      *)
LEMMA SilentSteps ==
  ASSUME Inv, ConnectFails \/ BackoffEnds \/ StopClose \/ UNCHANGED vars
  PROVE  Inv' /\ StaysSent /\ Silent
<1>1. UNCHANGED <<cfg, rows, sends, retry, unsure>> /\ Control
  BY Controlled DEF Inv, ConnectFails, BackoffEnds, StopClose, vars
<1>2. Sending' = Sending
  BY <1>1 DEF Sending
<1>3. Alerts' /\ StaysSent /\ Silent
  BY <1>1, <1>2 DEF Inv, Alerts, OneSender, Known, Ordered, StaysSent, Silent, Queued
<1>4. gw' \in Gw /\ call' \in Calls /\ Stopping'
  <2>1. CASE ConnectFails
    BY <1>1, <2>1 DEF ConnectFails, Control, Gw, Statuses, Inv, Stopping
  <2>2. CASE BackoffEnds
    BY <1>1, <2>2 DEF BackoffEnds, Control, Gw, Stopping
  <2>3. CASE StopClose
    BY <1>1, <2>3 DEF StopClose, Control, Gw, Calls, Stopping
  <2>4. CASE UNCHANGED vars
    BY <1>1, <2>4 DEF vars, Control, Inv, Stopping
  <2> QED
    BY <2>1, <2>2, <2>3, <2>4
<1>5. Control'
  BY <1>1, <1>4 DEF Control
<1> QED
  BY <1>3, <1>4, <1>5, TypesMeetNext

(* stop begins: it announces that the gateway is disconnected.             *)
LEMMA StopBeginStep ==
  ASSUME Inv, NEW then \in {"start", "exit"}, StopBegin(then), cfg' \in Configs,
         call.pc \in {"idle", "raised"}
  PROVE  Inv' /\ StaysSent /\ Silent
<1>1. Control /\ retry' = retry /\ unsure' = unsure /\ call' = [pc |-> "alert", then |-> then]
  BY Controlled DEF Inv, StopBegin
<1> DEFINE new == [gw EXCEPT !.intentional = @ /\ gw.status # "connected"]
           s == IF gw.status = "connected" THEN "disconnected" ELSE gw.status
<1>2. new \in Gw
  <2>1. (gw.intentional /\ gw.status # "connected") \in BOOLEAN
    OBVIOUS
  <2> QED
    BY <1>1, <2>1 DEF Control, Gw
<1>3. s \in Statuses
  BY <1>1 DEF Control, Gw, Statuses
<1>4. SetStatus(s, new, "stop") /\ "stop" \in Listeners
  BY DEF StopBegin, Listeners
<1> HIDE DEF new, s
<1>5. gw' \in Gw /\ Alerts' /\ StaysSent
  BY <1>1, <1>2, <1>3, <1>4, StatusSet DEF Inv, SameLeft
<1>6. Control' /\ Stopping' /\ Silent
  BY <1>1, <1>5 DEF Control, Calls, Stopping, Silent
<1> QED
  BY <1>5, <1>6, TypesMeetNext

(* stop ends: the client is closed, its task is gone, and no status that   *)
(* it sets is a disconnect.                                                *)
LEMMA StopTaskStep ==
  ASSUME Inv, StopTask
  PROVE  Inv' /\ StaysSent /\ Silent
<1>1. Control /\ cfg' = cfg /\ retry' = retry /\ unsure' = unsure /\ call.pc = "await"
  BY Controlled DEF Inv, StopTask
<1>2. CASE /\ call' = [call EXCEPT !.pc = IF call.then = "exit" THEN "down" ELSE "raised"]
           /\ UNCHANGED <<rows, gw, sends>>
  <2>1. Sending' = Sending
    BY <1>2 DEF Sending
  <2>2. Alerts' /\ StaysSent /\ Silent
    BY <1>1, <1>2, <2>1 DEF Inv, Alerts, OneSender, Known, Ordered, StaysSent, Silent, Queued
  <2>3. Control' /\ Stopping'
    BY <1>1, <1>2 DEF Control, Calls, Stopping
  <2> QED
    BY <2>2, <2>3, TypesMeetNext
<1> DEFINE new == [gw EXCEPT !.task = "none", !.client = "none"]
           s == IF gw.status = "error" THEN "error" ELSE "disabled"
<1>3. CASE /\ call' = [call EXCEPT !.pc = IF call.then = "exit" THEN "down" ELSE "start"]
           /\ SetStatus(s, new, "stop")
  <2>1. new \in Gw /\ new.task = "none"
    BY <1>1 DEF Control, Gw
  <2>2. s \in Statuses /\ s # "disconnected" /\ "stop" \in Listeners
    BY DEF Statuses, Listeners
  <2>3. call' \in Calls /\ call'.pc \in {"down", "start"}
    BY <1>1, <1>3 DEF Control, Calls
  <2>4. SetStatus(s, new, "stop")
    BY <1>3
  <2> HIDE DEF new, s
  <2>5. gw' \in Gw /\ gw'.task = "none" /\ Alerts' /\ StaysSent /\ Appear(s)
    BY <1>1, <2>1, <2>2, <2>4, StatusSet DEF Inv, SameLeft
  <2>6. Control' /\ Stopping'
    BY <1>1, <2>3, <2>5 DEF Control, Stopping
  <2>7. Silent
    BY <2>2, <2>5 DEF Silent, Appear
  <2> QED
    BY <2>5, <2>6, <2>7, TypesMeetNext
<1> QED
  BY <1>2, <1>3 DEF StopTask

(* start ends: a gateway that is not switched on says why.                 *)
LEMMA StartEndStep ==
  ASSUME Inv, StartEnd
  PROVE  Inv' /\ StaysSent /\ Silent
<1>1. Control /\ cfg' = cfg /\ retry' = retry /\ unsure' = unsure /\ call' = Idle
  BY Controlled DEF Inv, StartEnd
<1>2. call' \in Calls /\ call'.pc = "idle"
  BY <1>1 DEF Idle, Calls
<1> DEFINE new == [gw EXCEPT !.intentional = FALSE]
<1>3. new \in Gw
  BY <1>1 DEF Control, Gw
<1>4. CASE cfg \in {"off", "noToken"}
  <2>1. PICK s \in {"disabled", "error"} : SetStatus(s, new, "stop")
    BY <1>4 DEF StartEnd
  <2>2. s \in Statuses /\ s # "disconnected" /\ "stop" \in Listeners
    BY DEF Statuses, Listeners
  <2> HIDE DEF new
  <2>3. gw' \in Gw /\ Alerts' /\ StaysSent /\ Appear(s)
    BY <1>1, <1>3, <2>1, <2>2, StatusSet DEF Inv, SameLeft
  <2>4. Control' /\ Stopping'
    BY <1>1, <1>2, <2>3 DEF Control, Stopping
  <2>5. Silent
    BY <2>2, <2>3 DEF Silent, Appear
  <2> QED
    BY <2>3, <2>4, <2>5, TypesMeetNext
<1>5. CASE cfg = "on"
  <2>1. gw' = [new EXCEPT !.task = "start", !.client = "open"] /\ UNCHANGED <<rows, sends>>
    BY <1>5 DEF StartEnd
  <2> HIDE DEF new
  <2>2. gw' \in Gw
    BY <1>3, <2>1 DEF Gw
  <2>3. Sending' = Sending
    BY <2>1 DEF Sending
  <2>4. Alerts' /\ StaysSent /\ Silent
    BY <1>1, <2>1, <2>3 DEF Inv, Alerts, OneSender, Known, Ordered, StaysSent, Silent, Queued
  <2>5. Control' /\ Stopping'
    BY <1>1, <1>2, <2>2 DEF Control, Stopping
  <2> QED
    BY <2>4, <2>5, TypesMeetNext
<1> QED
  BY <1>1, <1>4, <1>5 DEF Control, Configs
-----------------------------------------------------------------------------
(* Before the first event there is nothing to know.                        *)
LEMMA InitHolds == ASSUME Init PROVE Inv
<1>1. rows = <<>> /\ sends = {} /\ unsure = {} /\ retry \in [Readies -> RetryRecord]
      /\ \A r \in Readies : retry[r].left = {} /\ retry[r].pc = "no"
  BY DEF Init, NoRetry, RetryRecord
<1>2. Alerts
  BY <1>1 DEF Alerts, OneSender, Known, Ordered
<1>3. gw \in Gw /\ gw.task = "none"
  BY DEF Init, Fresh, Gw, Statuses
<1>4. call \in Calls /\ call.pc = "start"
  BY DEF Init, Calls
<1>5. Control
  BY <1>1, <1>3, <1>4 DEF Init, Control
<1>6. Stopping
  BY <1>3, <1>4 DEF Stopping
<1> QED
  BY <1>2, <1>5, <1>6, TypesMeet DEF Inv

(* Every step keeps the invariant, makes no row pending again, and adds no *)
(* disconnect while a stop is closing the client.                          *)
LEMMA StepHolds ==
  ASSUME Inv, [Next]_vars
  PROVE  Inv' /\ StaysSent /\ Silent
<1>1. CASE \E s \in {"degraded", "connected"} : OtherEvent(s)
  BY <1>1, OtherEventStep
<1>2. CASE \/ \E r \in Readies : RetryBegin(r) \/ RetryStep(r)
           \/ Restart \/ \E x \in sends : SendReturns(x)
  BY <1>2, SendSteps
<1>3. CASE \/ \E r \in Readies : Ready(r)
           \/ Resumed \/ Disconnected \/ MessageFails \/ ClosedCallback
  BY <1>3, CallbackSteps
<1>4. CASE ConnectFails \/ BackoffEnds \/ StopClose \/ UNCHANGED vars
  BY <1>4, SilentSteps
<1>5. CASE StopTask \/ StartEnd
  BY <1>5, StopTaskStep, StartEndStep
<1>6. ASSUME NEW c \in Configs, SaveConfig(c) PROVE Inv' /\ StaysSent /\ Silent
  BY <1>6, StopBeginStep DEF SaveConfig
<1>7. CASE Exit
  <2>1. cfg' \in Configs
    BY <1>7 DEF Exit, Inv, TypeOK
  <2> QED
    BY <1>7, <2>1, StopBeginStep DEF Exit
<1> QED
  BY <1>1, <1>2, <1>3, <1>4, <1>5, <1>6, <1>7 DEF Next

(* The invariant holds throughout, for every number of events, reconnects, *)
(* reloads and crashes.                                                    *)
THEOREM InvHolds == Spec => []Inv
<1>1. Init => Inv
  BY InitHolds
<1>2. Inv /\ [Next]_vars => Inv'
  BY StepHolds
<1> QED
  BY <1>1, <1>2, PTL DEF Spec

(* The object, its rows, senders and calls have their types throughout.    *)
THEOREM TypeCorrect == Spec => []TypeOK
<1>1. Inv => TypeOK
  BY DEF Inv
<1> QED
  BY <1>1, InvHolds, PTL

(* No alert is in the channel twice, unless one of its sends raised or was *)
(* cut off by a crash, or an on_ready read its row while the listener or   *)
(* another on_ready had still to send it.                                  *)
THEOREM AlertsArriveOnce == Spec => []AlertsOnce
<1>1. Inv => AlertsOnce
  <2> SUFFICES ASSUME Inv, NEW i \in DOMAIN rows, rows[i].sent > 1, i \notin unsure
               PROVE  FALSE
    BY DEF AlertsOnce
  <2>1. rows[i].sent <= 1 /\ rows[i].sent \in Nat
    BY RowsTyped DEF Inv, Alerts, Known, Row
  <2> QED
    BY <2>1
<1> QED
  BY <1>1, InvHolds, PTL

(* One stop raises one disconnect alert: when the client is closed its     *)
(* callbacks know that the stop is intentional.                            *)
THEOREM StopAlertsOnce == Spec => OneDisconnectAlert
<1>1. Inv /\ [Next]_vars =>
        [call.pc \in {"await", "start"} =>
           \A i \in DOMAIN rows' \ DOMAIN rows : rows'[i].state # "disconnected"]_vars
  BY StepHolds DEF Silent
<1> QED
  BY <1>1, InvHolds, PTL DEF Spec, OneDisconnectAlert

(* When an on_ready has sent the last of the rows it read, no row up to    *)
(* that one is pending, whatever other handlers and the listener did.      *)
THEOREM ReadyLeavesNoGap == Spec => ReadyFlushes
<1>1. Inv /\ [Next]_vars =>
        [\A r \in Readies :
           (Retrying(r) /\ retry'[r] = NoRetry /\ gw' = gw /\ call' = call)
             => \/ rows'[Oldest(r)].note # "delivered"
                \/ \A i \in 1 .. Oldest(r) : rows'[i].note # "pending"]_vars
  <2> SUFFICES ASSUME Inv, [Next]_vars, NEW r \in Readies, Retrying(r),
                      rows'[Oldest(r)].note = "delivered", NEW i \in 1 .. Oldest(r)
               PROVE  rows'[i].note # "pending"
    OBVIOUS
  <2>1. retry[r].left # {}
    BY DEF Inv, TypeOK, Retrying
  <2>2. Oldest(r) \in retry[r].left /\ Oldest(r) \in DOMAIN rows
        /\ \A j \in retry[r].left : Oldest(r) <= j
    BY <2>1, OldestIsLeft DEF Inv, Alerts
  <2>3. CASE i # Oldest(r)
    <3>1. i \in DOMAIN rows /\ i < Oldest(r)
      BY <2>2, <2>3, RowsTyped DEF Inv, Alerts
    <3>2. i \notin retry[r].left
      BY <2>2, <3>1, RowsTyped DEF Inv, Alerts
    <3>3. rows[i].note # "pending"
      BY <2>2, <3>1, <3>2 DEF Inv, Alerts, Ordered
    <3> QED
      BY <3>1, <3>3, StepHolds DEF StaysSent
  <2> QED
    BY <2>3
<1> QED
  BY <1>1, InvHolds, PTL DEF Spec, ReadyFlushes
=============================================================================

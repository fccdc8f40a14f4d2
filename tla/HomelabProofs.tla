---------------------------- MODULE HomelabProofs ----------------------------
(***************************************************************************)
(* Proofs about Homelab for every set of documents, of whatever length,    *)
(* and every set of headings: no answer mixes two documents, and a lookup  *)
(* after a completed import says what the document says, wherever earlier  *)
(* imports died.                                                           *)
(***************************************************************************)
EXTENDS Homelab, FiniteSetTheorems, SequenceTheorems, WellFoundedInduction, TLAPS

FactsOf(d) == {FactOf(d, i) : i \in {j \in DOMAIN d : IsFact(d[j])}}
Aliasing(d, n) == {e \in Entities(d) : n \in Generated(d, e)}

(* What the import has written so far of what the document gives a name:   *)
(* explicit aliases before the current line, and generated ones of the     *)
(* entities up to the current one, but for those it still lacks.           *)
ExplicitSoFar(n) == {i \in Explicit(imp.doc, n) : i < imp.line}
AliasingSoFar(n) ==
  {e \in Aliasing(imp.doc, n) : e <= imp.ent /\ (e = imp.ent => n \notin imp.names)}

(* The last of them decides the alias.                                     *)
AliasSoFar ==
  \A n \in Names :
    /\ \A i \in ExplicitSoFar(n) :
         (\A j \in ExplicitSoFar(n) : j <= i) => alias[n] = Canonical(imp.doc, imp.doc[i].head)
    /\ ExplicitSoFar(n) = {} =>
         \A e \in AliasingSoFar(n) :
           (\A g \in AliasingSoFar(n) : g <= e) => alias[n] = e

(* Which fields of the import mean something at each statement.            *)
Stages ==
  /\ imp.at = "none" <=> imp = NoImport
  /\ imp.at # "none" => imp.doc \in Docs
  /\ imp.at \in {"facts", "aliases"} => imp.ent = 0 /\ imp.names = {} /\ imp.line = 1

(* Entities come before records, an entity before its aliases and facts,   *)
(* the provenance before the fact.                                         *)
Loops ==
  imp.at \in {"write", "fact"} =>
    /\ imp.line \in 1 .. Len(imp.doc) + 1
    /\ imp.names \subseteq Generated(imp.doc, imp.ent)
    /\ imp.names # {} => imp.ent \in Entities(imp.doc)
    /\ Entities(imp.doc) \ Left \subseteq ents
    /\ imp.at = "fact" \/ imp.line > 1 => imp.names = {} /\ Left = {}
    /\ imp.at = "fact" =>
         /\ imp.line \in DOMAIN imp.doc /\ IsFact(Rec)
         /\ <<imp.doc, imp.line>> \in prov

(* The facts: all are what their document says, of one document until the  *)
(* first statement, then of the new one, with all those of the lines       *)
(* before the current one.                                                 *)
FactsSoFar ==
  /\ \A f \in facts : f \in FactsOf(f.doc)
  /\ imp.at \in {"none", "facts"} => NeverMixed
  /\ imp.at \notin {"none", "facts"} => facts \subseteq FactsOf(imp.doc)
  /\ imp.at \in {"write", "fact"} =>
       \A i \in DOMAIN imp.doc :
         i < imp.line /\ IsFact(imp.doc[i]) => FactOf(imp.doc, i) \in facts
  /\ imp.at \in {"entities", "end"} => facts = FactsOf(imp.doc)

(* What a completed import of d leaves.                                    *)
Imported(d) ==
  /\ facts = FactsOf(d)
  /\ \A n \in Names : Said(d, Owner(d, n)) # {} => alias[n] = Owner(d, n)

(* The aliases, until the import is over.                                  *)
Aliases ==
  /\ imp.at \in {"write", "fact"} => AliasSoFar
  /\ imp.at = "entities" =>
       \A n \in Names : Owner(imp.doc, n) # 0 => alias[n] = Owner(imp.doc, n)
  /\ imp.at = "end" => Imported(imp.doc)
  /\ imp.at = "none" /\ last # None => last \in Docs /\ Imported(last)

(* The inductive invariant.                                                *)
Inv ==
  /\ TypeOK
  /\ Stages
  /\ Loops
  /\ FactsSoFar
  /\ Aliases
-----------------------------------------------------------------------------
(* Nonempty sets of naturals have a least element, finite ones a greatest: *)
(* strict inclusion of finite sets is well-founded.                        *)
LEMMA LeastNat ==
  ASSUME NEW S \in SUBSET Nat, S # {}
  PROVE  Min(S) \in S /\ \A y \in S : Min(S) <= y
<1> DEFINE T == {0 .. k : k \in S}
<1>1. T \subseteq FiniteSubsetsOf(Nat) /\ T # {}
  <2>1. ASSUME NEW k \in S PROVE 0 .. k \in FiniteSubsetsOf(Nat)
    <3>1. 0 .. k \subseteq Nat
      OBVIOUS
    <3>2. 0 \in Int /\ k \in Int
      OBVIOUS
    <3>3. IsFiniteSet(0 .. k)
      BY <3>2, FS_Interval
    <3> QED
      BY <3>1, <3>3 DEF FiniteSubsetsOf
  <2> QED
    BY <2>1
<1>2. PICK I \in T : \A J \in T : <<J, I>> \notin StrictSubsetOrdering(Nat)
  <2> HIDE DEF T
  <2> QED
    BY <1>1, WFMin, FS_StrictSubsetOrderingWellFounded
<1>3. PICK k \in S : I = 0 .. k
  BY <1>2
<1>4. ASSUME NEW y \in S, y < k PROVE FALSE
  <2>1. 0 .. y \in T /\ 0 .. y \subseteq 0 .. k /\ k \notin 0 .. y /\ k \in 0 .. k
    BY <1>4
  <2>2. 0 .. y \subseteq Nat /\ 0 .. k \subseteq Nat
    OBVIOUS
  <2>3. <<0 .. y, 0 .. k>> \in StrictSubsetOrdering(Nat)
    BY <2>1, <2>2, Zenon DEF StrictSubsetOrdering
  <2> QED
    BY <1>2, <1>3, <2>1, <2>3
<1>5. \A y \in S : k <= y
  BY <1>4
<1> QED
  BY <1>5 DEF Min

(* A finite one a greatest.                                                *)
LEMMA GreatestNat ==
  ASSUME NEW S \in SUBSET Nat, S # {}, IsFiniteSet(S)
  PROVE  Max(S) \in S /\ \A y \in S : Max(S) >= y
<1> DEFINE Top(T) == \E x \in T : \A y \in T : x >= y
           Bad == {T \in FiniteSubsetsOf(Nat) : T # {} /\ ~Top(T)}
<1>1. Bad = {}
  <2> SUFFICES ASSUME Bad # {} PROVE FALSE
    OBVIOUS
  <2>1. PICK T \in Bad : \A U \in Bad : <<U, T>> \notin StrictSubsetOrdering(Nat)
    <3>1. Bad \subseteq FiniteSubsetsOf(Nat)
      OBVIOUS
    <3> HIDE DEF Bad
    <3> QED
      BY <3>1, WFMin, FS_StrictSubsetOrderingWellFounded
  <2>2. T \subseteq Nat /\ IsFiniteSet(T) /\ T # {} /\ ~Top(T)
    BY DEF FiniteSubsetsOf
  <2>3. PICK x \in T : TRUE
    BY <2>2
  <2> DEFINE U == T \ {x}
  <2>4. U \subseteq Nat /\ IsFiniteSet(U) /\ U \subseteq T /\ U # T
    BY <2>2, <2>3, FS_RemoveElement
  <2>5. U # {}
    BY <2>2, <2>3
  <2>6. U \notin Bad
    <3>1. <<U, T>> \in StrictSubsetOrdering(Nat)
      BY <2>2, <2>4, Zenon DEF StrictSubsetOrdering
    <3> QED
      BY <2>1, <3>1
  <2>7. PICK m \in U : \A y \in U : m >= y
    BY <2>4, <2>5, <2>6 DEF FiniteSubsetsOf
  <2>8. Top(T)
    <3>1. m \in T /\ x \in T /\ m \in Nat /\ x \in Nat
      BY <2>2, <2>3, <2>4, <2>7
    <3>2. CASE m >= x
      BY <2>7, <3>1, <3>2
    <3>3. CASE x > m
      <4>1. \A y \in T : x >= y
        BY <2>2, <2>7, <3>1, <3>3
      <4> QED
        BY <3>1, <4>1
    <3> QED
      BY <3>1, <3>2, <3>3
  <2> QED
    BY <2>2, <2>8
<1>2. \E x \in S : \A y \in S : x >= y
  BY <1>1 DEF FiniteSubsetsOf
<1> QED
  BY <1>2 DEF Max

(* A document is a sequence of records; a section's group contains it.     *)
LEMMA DocTyped ==
  ASSUME HomelabAssumption, NEW d \in Docs
  PROVE  /\ Len(d) \in Nat /\ DOMAIN d = 1 .. Len(d)
         /\ \A i \in DOMAIN d :
              /\ d[i].head \in Headings /\ d[i].label \in Labels \cup {None}
              /\ d[i].names \subseteq Names
         /\ Used(d) \subseteq Headings
<1> DEFINE R == [head : Headings, label : Labels \cup {None}, names : SUBSET Names]
<1>1. d \in Seq(R)
  BY DEF HomelabAssumption
<1>2. Len(d) \in Nat /\ DOMAIN d = 1 .. Len(d)
  <2> HIDE DEF R
  <2> QED
    BY <1>1, LenProperties
<1>3. ASSUME NEW i \in DOMAIN d PROVE d[i] \in R
  <2> HIDE DEF R
  <2> QED
    BY <1>1, <1>2, ElementOfSeq
<1> QED
  BY <1>2, <1>3 DEF Used

(* The group's first section is a heading.                                 *)
LEMMA CanonicalTyped ==
  ASSUME HomelabAssumption, NEW d \in Docs, NEW h \in Used(d)
  PROVE  Canonical(d, h) \in Headings
<1>1. Section(d, h) \subseteq Headings /\ h \in Section(d, h)
  BY DocTyped DEF Section
<1>2. Section(d, h) \in SUBSET Nat
  BY <1>1 DEF HomelabAssumption
<1> QED
  BY <1>1, <1>2, LeastNat DEF Canonical

(* So are the entities, finitely many.                                     *)
LEMMA EntitiesTyped ==
  ASSUME HomelabAssumption, NEW d \in Docs
  PROVE  /\ Entities(d) \subseteq Headings /\ IsFiniteSet(Entities(d))
         /\ \A i \in DOMAIN d : Canonical(d, d[i].head) \in Entities(d)
<1>1. Entities(d) \in SUBSET Headings
  BY CanonicalTyped DEF Entities
<1>2. \A i \in DOMAIN d : d[i].head \in Used(d)
  BY DEF Used
<1> QED
  BY <1>1, <1>2, FS_Subset DEF Entities, HomelabAssumption

(* Generated aliases are names.                                            *)
LEMMA GeneratedTyped ==
  ASSUME HomelabAssumption, NEW d \in Docs, NEW e
  PROVE  Generated(d, e) \subseteq Names
<1>1. ASSUME NEW h \in Used(d), NEW n \in Identities(d, h) PROVE n \in Names
  <2>1. PICK i \in DOMAIN d : n \in d[i].names
    BY DEF Identities
  <2> QED
    BY <2>1, DocTyped
<1>2. \A h \in Used(d) : Title[h] \subseteq Names
  BY DocTyped DEF HomelabAssumption
<1> QED
  BY <1>1, <1>2 DEF Generated

(* The fact of a record.                                                   *)
LEMMA FactTyped ==
  ASSUME HomelabAssumption, NEW d \in Docs, NEW i \in DOMAIN d, IsFact(d[i])
  PROVE  /\ FactOf(d, i).ent \in Entities(d) /\ FactOf(d, i).label \in Labels
         /\ FactOf(d, i).doc = d /\ FactOf(d, i).line = i
         /\ FactOf(d, i).ent = Canonical(d, d[i].head)
BY DocTyped, EntitiesTyped DEF FactOf, IsFact

(* The owner of a name, by cases: its last explicit alias, else the last   *)
(* entity it is generated for.                                             *)
LEMMA OwnerCases ==
  ASSUME HomelabAssumption, NEW d \in Docs, NEW n \in Names
  PROVE  /\ Explicit(d, n) # {} =>
              \E i \in Explicit(d, n) :
                (\A j \in Explicit(d, n) : j <= i) /\ Owner(d, n) = Canonical(d, d[i].head)
         /\ Explicit(d, n) = {} /\ Owner(d, n) # 0 =>
              /\ Owner(d, n) \in Aliasing(d, n)
              /\ \A e \in Aliasing(d, n) : e <= Owner(d, n)
<1>1. ASSUME Explicit(d, n) # {}
      PROVE  \E i \in Explicit(d, n) :
               (\A j \in Explicit(d, n) : j <= i) /\ Owner(d, n) = Canonical(d, d[i].head)
  <2>1. Explicit(d, n) \in SUBSET (1 .. Len(d)) /\ Len(d) \in Nat
    BY DocTyped DEF Explicit
  <2>2. IsFiniteSet(Explicit(d, n)) /\ Explicit(d, n) \in SUBSET Nat
    <3>1. 1 \in Int /\ Len(d) \in Int
      BY <2>1
    <3>2. IsFiniteSet(1 .. Len(d))
      BY <3>1, FS_Interval
    <3>3. IsFiniteSet(Explicit(d, n))
      BY <2>1, <3>2, FS_Subset
    <3>4. 1 .. Len(d) \subseteq Nat
      BY <2>1
    <3> QED
      BY <2>1, <3>3, <3>4
  <2>3. /\ Max(Explicit(d, n)) \in Explicit(d, n)
        /\ \A j \in Explicit(d, n) : Max(Explicit(d, n)) >= j
    BY <1>1, <2>2, GreatestNat
  <2>4. Owner(d, n) = Canonical(d, d[Max(Explicit(d, n))].head)
    BY <1>1 DEF Owner
  <2>5. \A j \in Explicit(d, n) : j <= Max(Explicit(d, n))
    BY <2>2, <2>3
  <2> QED
    BY <2>3, <2>4, <2>5
<1>2. ASSUME Explicit(d, n) = {}, Owner(d, n) # 0
      PROVE  /\ Owner(d, n) \in Aliasing(d, n)
             /\ \A e \in Aliasing(d, n) : e <= Owner(d, n)
  <2> DEFINE A == Aliasing(d, n) \cup {0}
  <2>1. Aliasing(d, n) \in SUBSET Entities(d)
    BY DEF Aliasing
  <2>2. IsFiniteSet(A) /\ A \in SUBSET Nat /\ A # {}
    <3>1. IsFiniteSet(Aliasing(d, n))
      BY <2>1, EntitiesTyped, FS_Subset
    <3>2. IsFiniteSet(A)
      BY <3>1, FS_AddElement
    <3>3. Aliasing(d, n) \subseteq Nat
      BY <2>1, EntitiesTyped DEF HomelabAssumption
    <3> QED
      BY <3>2, <3>3
  <2>3. Owner(d, n) = Max(A)
    BY <1>2 DEF Owner, Aliasing
  <2>4. Max(A) \in A /\ \A y \in A : Max(A) >= y
    <3> HIDE DEF A
    <3> QED
      BY <2>2, GreatestNat
  <2>5. \A y \in A : y <= Max(A)
    BY <2>2, <2>4
  <2> QED
    BY <1>2, <2>3, <2>4, <2>5
<1> QED
  BY <1>1, <1>2


-----------------------------------------------------------------------------
(* The invariant holds initially.                                          *)
LEMMA InitInv == HomelabAssumption /\ Init => Inv
<1> SUFFICES ASSUME HomelabAssumption, Init PROVE Inv
  OBVIOUS
<1>1. TypeOK
  BY DEF Init, TypeOK, NoImport
<1>2. Stages /\ Loops
  BY DEF Init, Stages, Loops, NoImport
<1>3. FactsSoFar
  BY DEF Init, FactsSoFar, NeverMixed, NoImport
<1>4. Aliases
  BY DEF Init, Aliases, NoImport
<1> QED
  BY <1>1, <1>2, <1>3, <1>4 DEF Inv

(* The entity written last is a number, 0 before the first.                *)
LEMMA EntNat == ASSUME HomelabAssumption, Inv PROVE imp.ent \in Nat
<1>1. imp.ent \in Headings \cup {0}
  BY DEF Inv, TypeOK
<1>2. \A h \in Headings \cup {0} : h \in Nat
  BY DEF HomelabAssumption
<1> QED
  BY <1>1, <1>2

(* An import begins: nothing but its own record changes.                   *)
LEMMA BeginInv ==
  ASSUME HomelabAssumption, Inv, NEW d \in Docs, Begin(d) PROVE Inv'
<1>1. /\ imp' = [NoImport EXCEPT !.doc = d, !.old = {f.ent : f \in facts}, !.at = "facts"]
      /\ imp = NoImport /\ imp.at = "none"
      /\ UNCHANGED <<ents, alias, prov, facts, last>>
  BY DEF Begin, NoImport
<1>2. /\ imp'.doc = d /\ imp'.at = "facts" /\ imp'.ent = 0 /\ imp'.names = {} /\ imp'.line = 1
      /\ imp'.old = {f.ent : f \in facts}
  BY <1>1 DEF NoImport
<1>3. TypeOK'
  <2>1. imp'.old \in SUBSET Headings
    <3>1. \A f \in facts : f.ent \in Headings
      BY DEF Inv, TypeOK
    <3>2. {f.ent : f \in facts} \subseteq Headings
      BY <3>1
    <3> QED
      BY <1>2, <3>2
  <2>2. imp' = [doc |-> d, old |-> imp'.old, at |-> "facts", ent |-> 0, names |-> {}, line |-> 1]
    BY <1>1 DEF NoImport
  <2>3. imp' \in [doc : Docs \cup {None}, old : SUBSET Headings, ent : Headings \cup {0},
              at : {"none", "facts", "aliases", "write", "fact", "entities", "end"},
              names : SUBSET Names, line : Nat \ {0}]
    <3> DEFINE o == imp'.old
    <3>1. o \in SUBSET Headings /\ imp' = [doc |-> d, old |-> o, at |-> "facts", ent |-> 0,
                                          names |-> {}, line |-> 1]
      BY <2>1, <2>2
    <3> HIDE DEF o
    <3> QED
      BY <3>1
  <2> QED
    BY <1>1, <2>3 DEF Inv, TypeOK
<1>4. Stages'
  BY <1>1, <1>2 DEF Stages, NoImport
<1>5. Loops'
  BY <1>2 DEF Loops
<1>6. FactsSoFar'
  BY <1>1, <1>2 DEF Inv, FactsSoFar, NeverMixed
<1>7. Aliases'
  BY <1>2 DEF Aliases
<1> QED
  BY <1>3, <1>4, <1>5, <1>6, <1>7 DEF Inv

(* The facts of other documents go.                                        *)
LEMMA DropFactsInv ==
  ASSUME HomelabAssumption, Inv, DropFacts PROVE Inv'
<1>1. /\ imp' = [imp EXCEPT !.at = "aliases"] /\ imp.at = "facts"
      /\ facts' = {f \in facts : f.doc = imp.doc}
      /\ UNCHANGED <<ents, alias, prov, last>>
  BY DEF DropFacts, Stmt
<1>2. /\ imp'.at = "aliases" /\ imp'.doc = imp.doc /\ imp'.ent = imp.ent
      /\ imp'.names = imp.names /\ imp'.line = imp.line
  BY <1>1 DEF Inv, TypeOK
<1>3. TypeOK'
  BY <1>1 DEF Inv, TypeOK
<1>4. Stages'
  BY <1>1, <1>2 DEF Inv, Stages, NoImport
<1>5. Loops'
  BY <1>2 DEF Loops
<1>6. FactsSoFar'
  BY <1>1, <1>2 DEF Inv, FactsSoFar, NeverMixed
<1>7. Aliases'
  BY <1>2 DEF Aliases
<1> QED
  BY <1>3, <1>4, <1>5, <1>6, <1>7 DEF Inv

(* The aliases of entities that had facts go; none of the new ones is written. *)
LEMMA DropAliasesInv ==
  ASSUME HomelabAssumption, Inv, DropAliases PROVE Inv'
<1>1. /\ imp' = [imp EXCEPT !.at = "write"] /\ imp.at = "aliases"
      /\ alias' = [n \in Names |-> IF alias[n] \in imp.old THEN 0 ELSE alias[n]]
      /\ UNCHANGED <<ents, prov, facts, last>>
  BY DEF DropAliases, Stmt
<1>2. /\ imp'.at = "write" /\ imp'.doc = imp.doc /\ imp'.ent = imp.ent
      /\ imp'.names = imp.names /\ imp'.line = imp.line
  BY <1>1 DEF Inv, TypeOK
<1>3. imp.doc \in Docs /\ imp.ent = 0 /\ imp.names = {} /\ imp.line = 1
  BY <1>1 DEF Inv, Stages
<1>4. Entities(imp.doc) \subseteq Nat \ {0}
  BY <1>3, EntitiesTyped DEF HomelabAssumption
<1>5. DOMAIN imp.doc = 1 .. Len(imp.doc) /\ Len(imp.doc) \in Nat
  BY <1>3, DocTyped
<1>6. TypeOK'
  BY <1>1 DEF Inv, TypeOK
<1>7. Stages'
  BY <1>1, <1>2, <1>3 DEF Inv, Stages, NoImport
<1>8. Loops'
  BY <1>2, <1>3, <1>4, <1>5 DEF Loops, Left
<1>9. FactsSoFar'
  BY <1>1, <1>2, <1>3, <1>5 DEF Inv, FactsSoFar
<1>10. Aliases'
  <2>1. ASSUME NEW n \in Names PROVE ExplicitSoFar(n)' = {} /\ AliasingSoFar(n)' = {}
    BY <1>2, <1>3, <1>4, <1>5 DEF ExplicitSoFar, Explicit, AliasingSoFar, Aliasing
  <2> QED
    BY <1>2, <2>1 DEF Aliases, AliasSoFar
<1> QED
  BY <1>6, <1>7, <1>8, <1>9, <1>10 DEF Inv

(* The next entity is written; its aliases are what is left to write.      *)
LEMMA PutEntityInv ==
  ASSUME HomelabAssumption, Inv, PutEntity PROVE Inv'
<1> DEFINE e == Min(Left)
<1>1. /\ imp' = [imp EXCEPT !.ent = e, !.names = Generated(imp.doc, e)]
      /\ imp.at = "write" /\ imp.names = {} /\ Left # {}
      /\ ents' = ents \cup {e}
      /\ UNCHANGED <<alias, prov, facts, last>>
  BY DEF PutEntity
<1>2. /\ imp'.at = "write" /\ imp'.doc = imp.doc /\ imp'.ent = e
      /\ imp'.names = Generated(imp.doc, e) /\ imp'.line = imp.line /\ imp'.old = imp.old
  BY <1>1 DEF Inv, TypeOK
<1>3. imp.doc \in Docs /\ imp.line = 1
  BY <1>1 DEF Inv, Stages, Loops, TypeOK
<1>4. /\ Entities(imp.doc) \subseteq Headings /\ Headings \subseteq Nat \ {0}
      /\ imp.ent \in Nat
  <2>1. Entities(imp.doc) \subseteq Headings /\ Headings \subseteq Nat \ {0}
    BY <1>3, EntitiesTyped DEF HomelabAssumption
  <2> QED
    BY <2>1, EntNat
<1>5. e \in Left /\ \A g \in Left : e <= g
  BY <1>1, <1>4, LeastNat DEF Left
<1>6. /\ e \in Entities(imp.doc) /\ e > imp.ent /\ e \in Headings
      /\ \A g \in Entities(imp.doc) : g > imp.ent => e <= g
  BY <1>4, <1>5 DEF Left
<1>7. Generated(imp.doc, e) \subseteq Names
  BY <1>3, GeneratedTyped
<1> HIDE DEF e
<1>8. TypeOK'
  <2>1. imp' \in [doc : Docs \cup {None}, old : SUBSET Headings, ent : Headings \cup {0},
              at : {"none", "facts", "aliases", "write", "fact", "entities", "end"},
              names : SUBSET Names, line : Nat \ {0}]
    BY <1>1, <1>6, <1>7 DEF Inv, TypeOK
  <2> QED
    BY <1>1, <1>6, <2>1 DEF Inv, TypeOK
<1>9. Stages'
  BY <1>1, <1>2, <1>3 DEF Stages, NoImport
<1>10. Loops'
  <2>1. Entities(imp.doc) \ Left' \subseteq ents'
    BY <1>1, <1>2, <1>4, <1>6 DEF Inv, Loops, Left
  <2> QED
    BY <1>1, <1>2, <1>3, <1>6, <2>1 DEF Inv, Loops
<1>11. FactsSoFar'
  BY <1>1, <1>2, <1>3 DEF Inv, FactsSoFar
<1>12. Aliases'
  <2>1. ASSUME NEW n \in Names
        PROVE  ExplicitSoFar(n)' = ExplicitSoFar(n) /\ AliasingSoFar(n)' = AliasingSoFar(n)
    <3>1. ExplicitSoFar(n)' = ExplicitSoFar(n)
      BY <1>2 DEF ExplicitSoFar
    <3>2. ASSUME NEW g \in Aliasing(imp.doc, n)
          PROVE  (g <= e /\ (g = e => n \notin Generated(imp.doc, e)))
                   <=> (g <= imp.ent /\ (g = imp.ent => n \notin imp.names))
      <4>1. g \in Entities(imp.doc) /\ n \in Generated(imp.doc, g)
        BY DEF Aliasing
      <4> QED
        BY <1>1, <1>4, <1>6, <4>1
    <3> QED
      BY <1>2, <3>1, <3>2 DEF AliasingSoFar
  <2> QED
    BY <1>1, <1>2, <2>1 DEF Inv, Aliases, AliasSoFar
<1> QED
  BY <1>8, <1>9, <1>10, <1>11, <1>12 DEF Inv

(* A generated alias moves to the entity written last, the greatest so far. *)
LEMMA PutAliasInv ==
  ASSUME HomelabAssumption, Inv, PutAlias PROVE Inv'
<1>1. PICK n \in imp.names :
        /\ imp' = [imp EXCEPT !.names = @ \ {n}]
        /\ alias' = [alias EXCEPT ![n] = imp.ent]
  BY DEF PutAlias
<1>2. imp.at = "write" /\ UNCHANGED <<ents, prov, facts, last>>
  BY DEF PutAlias
<1>3. /\ imp'.at = "write" /\ imp'.doc = imp.doc /\ imp'.ent = imp.ent
      /\ imp'.names = imp.names \ {n} /\ imp'.line = imp.line /\ imp'.old = imp.old
  BY <1>1, <1>2 DEF Inv, TypeOK
<1>4. imp.doc \in Docs /\ imp.line = 1 /\ imp.ent \in Entities(imp.doc)
  BY <1>1, <1>2 DEF Inv, Stages, Loops, TypeOK
<1>5. Entities(imp.doc) \subseteq Headings /\ Headings \subseteq Nat \ {0}
  BY <1>4, EntitiesTyped DEF HomelabAssumption
<1>6. imp.ent \in Nat /\ imp.ent \in ents /\ n \in Generated(imp.doc, imp.ent) /\ n \in Names
  <2>1. imp.ent \in Nat
    BY <1>4, <1>5
  <2>2. imp.ent \notin Left
    BY <2>1 DEF Left
  <2> QED
    BY <1>1, <1>2, <1>4, <2>1, <2>2 DEF Inv, Loops, TypeOK
<1>7. alias \in [Names -> ents \cup {0}]
  BY DEF Inv, TypeOK
<1>8. TypeOK'
  <2>1. imp' \in [doc : Docs \cup {None}, old : SUBSET Headings, ent : Headings \cup {0},
              at : {"none", "facts", "aliases", "write", "fact", "entities", "end"},
              names : SUBSET Names, line : Nat \ {0}]
    BY <1>1 DEF Inv, TypeOK
  <2>2. alias' \in [Names -> ents \cup {0}]
    BY <1>1, <1>6, <1>7
  <2> QED
    BY <1>2, <2>1, <2>2 DEF Inv, TypeOK
<1>9. Stages'
  BY <1>2, <1>3, <1>4 DEF Stages, NoImport
<1>10. Loops'
  BY <1>2, <1>3, <1>4 DEF Inv, Loops, Left
<1>11. FactsSoFar'
  BY <1>2, <1>3, <1>4 DEF Inv, FactsSoFar
<1>12. Aliases'
  <2>1. DOMAIN imp.doc = 1 .. Len(imp.doc) /\ Len(imp.doc) \in Nat
    BY <1>4, DocTyped
  <2>2. ASSUME NEW m \in Names PROVE ExplicitSoFar(m)' = {}
    BY <1>3, <1>4, <2>1 DEF ExplicitSoFar, Explicit
  <2>3. ASSUME NEW m \in Names, m # n PROVE AliasingSoFar(m)' = AliasingSoFar(m)
    BY <1>3, <2>3 DEF AliasingSoFar
  <2>4. ASSUME NEW m \in Names, m # n PROVE ExplicitSoFar(m) = {} /\ alias'[m] = alias[m]
    BY <1>1, <1>4, <1>7, <2>1, <2>4 DEF ExplicitSoFar, Explicit
  <2>5. imp.ent \in AliasingSoFar(n)' /\ \A g \in AliasingSoFar(n)' : g <= imp.ent /\ g \in Nat
    <3>1. AliasingSoFar(n)' =
            {g \in Aliasing(imp.doc, n) : g <= imp.ent /\ (g = imp.ent => n \notin imp.names \ {n})}
      BY <1>3 DEF AliasingSoFar
    <3>2. imp.ent \in Aliasing(imp.doc, n) /\ Aliasing(imp.doc, n) \subseteq Nat
      BY <1>4, <1>5, <1>6 DEF Aliasing
    <3> QED
      BY <1>6, <3>1, <3>2
  <2>6. alias'[n] = imp.ent
    BY <1>1, <1>6, <1>7
  <2>7. ASSUME NEW m \in Names, NEW g \in AliasingSoFar(m)',
               \A k \in AliasingSoFar(m)' : k <= g
        PROVE  alias'[m] = g
    <3>1. CASE m = n
      <4>1. g \in Nat /\ g <= imp.ent /\ imp.ent <= g
        BY <2>5, <2>7, <3>1
      <4> QED
        BY <1>6, <2>6, <3>1, <4>1
    <3>2. CASE m # n
      BY <1>2, <2>3, <2>4, <2>7, <3>2 DEF Inv, Aliases, AliasSoFar
    <3> QED
      BY <3>1, <3>2
  <2> QED
    BY <1>3, <2>2, <2>7 DEF Aliases, AliasSoFar
<1> QED
  BY <1>8, <1>9, <1>10, <1>11, <1>12 DEF Inv

(* With no entity or alias left to write: what the records step over.      *)
LEMMA RecordSound ==
  ASSUME HomelabAssumption, Inv, Recording
  PROVE  /\ imp.at = "write" /\ imp.names = {} /\ Left = {} /\ imp.doc \in Docs
         /\ Entities(imp.doc) \subseteq ents
         /\ imp.line \in 1 .. Len(imp.doc) + 1
         /\ DOMAIN imp.doc = 1 .. Len(imp.doc) /\ Len(imp.doc) \in Nat
         /\ \A n \in Names : AliasingSoFar(n) = Aliasing(imp.doc, n)
<1>1. imp.at = "write" /\ imp.names = {} /\ Left = {}
  BY DEF Recording
<1>2. imp.doc \in Docs /\ imp.line \in 1 .. Len(imp.doc) + 1
  BY <1>1 DEF Inv, Stages, Loops
<1>3. DOMAIN imp.doc = 1 .. Len(imp.doc) /\ Len(imp.doc) \in Nat
  BY <1>2, DocTyped
<1>4. Entities(imp.doc) \subseteq ents
  BY <1>1 DEF Inv, Loops
<1>5. Entities(imp.doc) \subseteq Nat /\ imp.ent \in Nat
  <2>1. Entities(imp.doc) \subseteq Headings /\ Headings \subseteq Nat \ {0}
    BY <1>2, EntitiesTyped DEF HomelabAssumption
  <2> QED
    BY <2>1, EntNat
<1>6. ASSUME NEW n \in Names PROVE AliasingSoFar(n) = Aliasing(imp.doc, n)
  <2>1. ASSUME NEW e \in Aliasing(imp.doc, n) PROVE e <= imp.ent
    <3>1. e \in Entities(imp.doc)
      BY DEF Aliasing
    <3> QED
      BY <1>1, <1>5, <3>1 DEF Left
  <2> QED
    BY <1>1, <2>1 DEF AliasingSoFar
<1> QED
  BY <1>1, <1>2, <1>3, <1>4, <1>6

(* An alias record moves its name to the section's entity: the last record so far. *)
LEMMA PutExplicitInv ==
  ASSUME HomelabAssumption, Inv, PutExplicit PROVE Inv'
<1> DEFINE e == Canonical(imp.doc, Rec.head)
<1>1. /\ imp' = [imp EXCEPT !.line = @ + 1]
      /\ alias' = [n \in Names |-> IF n \in Rec.names THEN e ELSE alias[n]]
      /\ Recording /\ imp.line \in DOMAIN imp.doc /\ ~IsFact(Rec)
      /\ UNCHANGED <<ents, prov, facts, last>>
  BY DEF PutExplicit
<1>2. /\ imp.at = "write" /\ imp.names = {} /\ Left = {} /\ imp.doc \in Docs
      /\ Entities(imp.doc) \subseteq ents
      /\ imp.line \in 1 .. Len(imp.doc) + 1
      /\ DOMAIN imp.doc = 1 .. Len(imp.doc) /\ Len(imp.doc) \in Nat
      /\ \A n \in Names : AliasingSoFar(n) = Aliasing(imp.doc, n)
  BY <1>1, RecordSound
<1>3. /\ imp'.at = "write" /\ imp'.doc = imp.doc /\ imp'.ent = imp.ent
      /\ imp'.names = imp.names /\ imp'.line = imp.line + 1 /\ imp'.old = imp.old
  BY <1>1, <1>2 DEF Inv, TypeOK
<1>4. e \in ents
  BY <1>1, <1>2, EntitiesTyped DEF Rec
<1>5. alias \in [Names -> ents \cup {0}]
  BY DEF Inv, TypeOK
<1>6. imp.line \in 1 .. Len(imp.doc) /\ imp.line + 1 \in 1 .. Len(imp.doc) + 1
  BY <1>1, <1>2
<1> HIDE DEF e
<1>7. TypeOK'
  <2>1. imp' \in [doc : Docs \cup {None}, old : SUBSET Headings, ent : Headings \cup {0},
              at : {"none", "facts", "aliases", "write", "fact", "entities", "end"},
              names : SUBSET Names, line : Nat \ {0}]
    <3>1. imp.line + 1 \in Nat \ {0}
      BY <1>6, <1>2
    <3> QED
      BY <1>1, <3>1 DEF Inv, TypeOK
  <2>2. alias' \in [Names -> ents \cup {0}]
    BY <1>1, <1>4, <1>5
  <2> QED
    BY <1>1, <2>1, <2>2 DEF Inv, TypeOK
<1>8. Stages'
  BY <1>2, <1>3 DEF Stages, NoImport
<1>9. Loops'
  <2>1. Left' = {}
    BY <1>2, <1>3 DEF Left
  <2> QED
    BY <1>1, <1>2, <1>3, <1>6, <2>1 DEF Loops
<1>10. FactsSoFar'
  <2>1. ASSUME NEW i \in DOMAIN imp.doc, i < imp.line + 1, IsFact(imp.doc[i])
        PROVE  FactOf(imp.doc, i) \in facts
    <3>1. i < imp.line
      BY <1>1, <1>2, <1>6, <2>1 DEF Rec
    <3> QED
      BY <1>2, <2>1, <3>1 DEF Inv, FactsSoFar
  <2> QED
    BY <1>1, <1>2, <1>3, <2>1 DEF Inv, FactsSoFar
<1>11. Aliases'
  <2>1. ASSUME NEW n \in Names PROVE AliasingSoFar(n)' = AliasingSoFar(n)
    BY <1>3 DEF AliasingSoFar
  <2>2. ASSUME NEW n \in Names, n \notin Rec.names
        PROVE  ExplicitSoFar(n)' = ExplicitSoFar(n) /\ alias'[n] = alias[n]
    <3>1. ASSUME NEW i \in Explicit(imp.doc, n) PROVE i < imp.line + 1 <=> i < imp.line
      BY <1>1, <1>2, <1>6, <2>2 DEF Explicit, Rec
    <3> QED
      BY <1>1, <1>3, <1>5, <2>2, <3>1 DEF ExplicitSoFar
  <2>3. ASSUME NEW n \in Names, n \in Rec.names
        PROVE  /\ imp.line \in ExplicitSoFar(n)'
               /\ \A i \in ExplicitSoFar(n)' : i <= imp.line /\ i \in Nat
               /\ alias'[n] = e
    <3>1. ExplicitSoFar(n)' = {i \in Explicit(imp.doc, n) : i < imp.line + 1}
      BY <1>3 DEF ExplicitSoFar
    <3>2. imp.line \in Explicit(imp.doc, n) /\ Explicit(imp.doc, n) \subseteq 1 .. Len(imp.doc)
      BY <1>1, <1>2, <2>3 DEF Explicit, Rec
    <3> QED
      BY <1>1, <1>2, <1>5, <1>6, <2>3, <3>1, <3>2
  <2>4. ASSUME NEW n \in Names, NEW i \in ExplicitSoFar(n)',
               \A j \in ExplicitSoFar(n)' : j <= i
        PROVE  alias'[n] = Canonical(imp.doc, imp.doc[i].head)
    <3>1. CASE n \in Rec.names
      <4>1. i = imp.line
        BY <1>6, <2>3, <2>4, <3>1
      <4> QED
        BY <2>3, <3>1, <4>1 DEF e, Rec
    <3>2. CASE n \notin Rec.names
      BY <1>2, <2>2, <2>4, <3>2 DEF Inv, Aliases, AliasSoFar
    <3> QED
      BY <3>1, <3>2
  <2>5. ASSUME NEW n \in Names, ExplicitSoFar(n)' = {}, NEW g \in AliasingSoFar(n)',
               \A k \in AliasingSoFar(n)' : k <= g
        PROVE  alias'[n] = g
    <3>1. n \notin Rec.names
      BY <2>3, <2>5
    <3> QED
      BY <1>2, <2>1, <2>2, <2>5, <3>1 DEF Inv, Aliases, AliasSoFar
  <2> QED
    BY <1>3, <2>4, <2>5 DEF Aliases, AliasSoFar
<1> QED
  BY <1>7, <1>8, <1>9, <1>10, <1>11 DEF Inv

(* A fact record's provenance is written first.                            *)
LEMMA PutProvenanceInv ==
  ASSUME HomelabAssumption, Inv, PutProvenance PROVE Inv'
<1>1. /\ imp' = [imp EXCEPT !.at = "fact"] /\ prov' = prov \cup {<<imp.doc, imp.line>>}
      /\ Recording /\ imp.line \in DOMAIN imp.doc /\ IsFact(Rec)
      /\ UNCHANGED <<ents, alias, facts, last>>
  BY DEF PutProvenance
<1>2. /\ imp.at = "write" /\ imp.names = {} /\ Left = {} /\ imp.doc \in Docs
      /\ Entities(imp.doc) \subseteq ents /\ imp.line \in 1 .. Len(imp.doc) + 1
  BY <1>1, RecordSound
<1>3. /\ imp'.at = "fact" /\ imp'.doc = imp.doc /\ imp'.ent = imp.ent
      /\ imp'.names = imp.names /\ imp'.line = imp.line /\ imp'.old = imp.old
  BY <1>1, <1>2 DEF Inv, TypeOK
<1>4. TypeOK'
  BY <1>1 DEF Inv, TypeOK
<1>5. Stages'
  BY <1>2, <1>3 DEF Stages, NoImport
<1>6. Loops'
  <2>1. Left' = {} /\ Rec' = Rec
    BY <1>2, <1>3 DEF Left, Rec
  <2> QED
    BY <1>1, <1>2, <1>3, <2>1 DEF Loops, IsFact
<1>7. FactsSoFar'
  BY <1>1, <1>2, <1>3 DEF Inv, FactsSoFar
<1>8. Aliases'
  BY <1>1, <1>2, <1>3
    DEF Inv, Aliases, AliasSoFar, ExplicitSoFar, AliasingSoFar
<1> QED
  BY <1>4, <1>5, <1>6, <1>7, <1>8 DEF Inv

(* Then the fact: one more line of the document is in the database.        *)
LEMMA PutFactInv ==
  ASSUME HomelabAssumption, Inv, PutFact PROVE Inv'
<1>1. /\ imp' = [imp EXCEPT !.at = "write", !.line = @ + 1] /\ imp.at = "fact"
      /\ facts' = facts \cup {FactOf(imp.doc, imp.line)}
      /\ UNCHANGED <<ents, alias, prov, last>>
  BY DEF PutFact
<1>2. /\ imp'.at = "write" /\ imp'.doc = imp.doc /\ imp'.ent = imp.ent
      /\ imp'.names = imp.names /\ imp'.line = imp.line + 1 /\ imp'.old = imp.old
  BY <1>1 DEF Inv, TypeOK
<1>3. /\ imp.doc \in Docs /\ imp.names = {} /\ Left = {} /\ Entities(imp.doc) \subseteq ents
      /\ imp.line \in DOMAIN imp.doc /\ IsFact(Rec) /\ <<imp.doc, imp.line>> \in prov
  BY <1>1 DEF Inv, Stages, Loops
<1>4. DOMAIN imp.doc = 1 .. Len(imp.doc) /\ Len(imp.doc) \in Nat
  BY <1>3, DocTyped
<1>5. /\ FactOf(imp.doc, imp.line).ent \in ents /\ FactOf(imp.doc, imp.line).label \in Labels
      /\ FactOf(imp.doc, imp.line).doc = imp.doc /\ FactOf(imp.doc, imp.line).line = imp.line
      /\ FactOf(imp.doc, imp.line) \in FactsOf(imp.doc)
  <2>1. IsFact(imp.doc[imp.line])
    BY <1>3 DEF Rec
  <2>2. FactOf(imp.doc, imp.line) \in FactsOf(imp.doc)
    BY <1>3, <2>1 DEF FactsOf
  <2>3. /\ FactOf(imp.doc, imp.line).ent \in Entities(imp.doc)
        /\ FactOf(imp.doc, imp.line).label \in Labels
        /\ FactOf(imp.doc, imp.line).doc = imp.doc /\ FactOf(imp.doc, imp.line).line = imp.line
    <3> DEFINE d == imp.doc  i == imp.line
    <3>1. d \in Docs /\ i \in DOMAIN d /\ IsFact(d[i])
      BY <1>3, <2>1
    <3> HIDE DEF d, i
    <3>2. /\ FactOf(d, i).ent \in Entities(d) /\ FactOf(d, i).label \in Labels
          /\ FactOf(d, i).doc = d /\ FactOf(d, i).line = i
      BY <3>1, FactTyped
    <3> QED
      BY <3>2 DEF d, i
  <2> QED
    BY <1>3, <2>2, <2>3, Zenon
<1>6. TypeOK'
  <2>1. imp' \in [doc : Docs \cup {None}, old : SUBSET Headings, ent : Headings \cup {0},
              at : {"none", "facts", "aliases", "write", "fact", "entities", "end"},
              names : SUBSET Names, line : Nat \ {0}]
    <3>1. imp.line + 1 \in Nat \ {0}
      BY <1>3, <1>4
    <3> QED
      BY <1>1, <3>1 DEF Inv, TypeOK
  <2>2. \A f \in facts' : f.ent \in ents /\ f.label \in Labels /\ <<f.doc, f.line>> \in prov
    BY <1>1, <1>3, <1>5 DEF Inv, TypeOK
  <2> QED
    BY <1>1, <2>1, <2>2 DEF Inv, TypeOK
<1>7. Stages'
  BY <1>1, <1>2, <1>3 DEF Stages, NoImport
<1>8. Loops'
  <2>1. Left' = {}
    BY <1>2, <1>3 DEF Left
  <2>2. imp.line + 1 \in 1 .. Len(imp.doc) + 1
    BY <1>3, <1>4
  <2> QED
    BY <1>1, <1>2, <1>3, <2>1, <2>2 DEF Loops
<1>9. FactsSoFar'
  <2>1. ASSUME NEW i \in DOMAIN imp.doc, i < imp.line + 1, IsFact(imp.doc[i])
        PROVE  FactOf(imp.doc, i) \in facts'
    <3>1. i < imp.line \/ i = imp.line
      BY <1>3, <1>4, <2>1
    <3> QED
      BY <1>1, <1>3, <2>1, <3>1 DEF Inv, FactsSoFar
  <2>2. \A f \in facts' : f \in FactsOf(f.doc)
    BY <1>1, <1>5 DEF Inv, FactsSoFar
  <2>3. facts' \subseteq FactsOf(imp.doc)
    BY <1>1, <1>5 DEF Inv, FactsSoFar
  <2> QED
    BY <1>1, <1>2, <2>1, <2>2, <2>3 DEF FactsSoFar
<1>10. Aliases'
  <2>1. ASSUME NEW n \in Names
        PROVE  ExplicitSoFar(n)' = ExplicitSoFar(n) /\ AliasingSoFar(n)' = AliasingSoFar(n)
    <3>1. ASSUME NEW i \in Explicit(imp.doc, n) PROVE i < imp.line + 1 <=> i < imp.line
      <4>1. i # imp.line /\ i \in 1 .. Len(imp.doc)
        BY <1>3, <1>4 DEF Explicit, Rec
      <4> QED
        BY <1>3, <1>4, <4>1
    <3> QED
      BY <1>2, <3>1 DEF ExplicitSoFar, AliasingSoFar
  <2> QED
    BY <1>1, <1>2, <2>1 DEF Inv, Aliases, AliasSoFar
<1> QED
  BY <1>6, <1>7, <1>8, <1>9, <1>10 DEF Inv

(* All lines are written: every name has its owner.                        *)
LEMMA DropOrphansInv ==
  ASSUME HomelabAssumption, Inv, DropOrphans PROVE Inv'
<1>1. /\ imp' = [imp EXCEPT !.at = "entities"] /\ prov' = {<<f.doc, f.line>> : f \in facts}
      /\ Recording /\ imp.line \notin DOMAIN imp.doc
      /\ UNCHANGED <<ents, alias, facts, last>>
  BY DEF DropOrphans
<1>2. /\ imp.at = "write" /\ imp.names = {} /\ Left = {} /\ imp.doc \in Docs
      /\ imp.line \in 1 .. Len(imp.doc) + 1
      /\ DOMAIN imp.doc = 1 .. Len(imp.doc) /\ Len(imp.doc) \in Nat
      /\ \A n \in Names : AliasingSoFar(n) = Aliasing(imp.doc, n)
  BY <1>1, RecordSound
<1>3. /\ imp'.at = "entities" /\ imp'.doc = imp.doc /\ imp'.ent = imp.ent
      /\ imp'.names = imp.names /\ imp'.line = imp.line /\ imp'.old = imp.old
  BY <1>1, <1>2 DEF Inv, TypeOK
<1>4. \A i \in DOMAIN imp.doc : i < imp.line
  BY <1>1, <1>2
<1>5. TypeOK'
  BY <1>1 DEF Inv, TypeOK
<1>6. Stages'
  BY <1>2, <1>3 DEF Stages, NoImport
<1>7. Loops'
  BY <1>3 DEF Loops
<1>8. FactsSoFar'
  <2>1. facts \subseteq FactsOf(imp.doc) /\ FactsOf(imp.doc) \subseteq facts
    BY <1>2, <1>4 DEF Inv, FactsSoFar, FactsOf
  <2> QED
    BY <1>1, <1>3, <2>1 DEF Inv, FactsSoFar
<1>9. Aliases'
  <2>1. ASSUME NEW n \in Names, Owner(imp.doc, n) # 0 PROVE alias[n] = Owner(imp.doc, n)
    <3>1. ExplicitSoFar(n) = Explicit(imp.doc, n)
      BY <1>4 DEF ExplicitSoFar, Explicit
    <3>2. /\ \A i \in Explicit(imp.doc, n) :
               (\A j \in Explicit(imp.doc, n) : j <= i)
                 => alias[n] = Canonical(imp.doc, imp.doc[i].head)
          /\ Explicit(imp.doc, n) = {} =>
               \A e \in Aliasing(imp.doc, n) :
                 (\A g \in Aliasing(imp.doc, n) : g <= e) => alias[n] = e
      BY <1>2, <3>1 DEF Inv, Aliases, AliasSoFar
    <3>3. CASE Explicit(imp.doc, n) # {}
      <4>1. PICK i \in Explicit(imp.doc, n) :
              /\ \A j \in Explicit(imp.doc, n) : j <= i
              /\ Owner(imp.doc, n) = Canonical(imp.doc, imp.doc[i].head)
        BY <1>2, <3>3, OwnerCases
      <4> QED
        BY <3>2, <4>1
    <3>4. CASE Explicit(imp.doc, n) = {}
      <4>1. /\ Owner(imp.doc, n) \in Aliasing(imp.doc, n)
            /\ \A e \in Aliasing(imp.doc, n) : e <= Owner(imp.doc, n)
        BY <1>2, <2>1, <3>4, OwnerCases
      <4> QED
        BY <3>2, <3>4, <4>1
    <3> QED
      BY <3>3, <3>4
  <2> QED
    BY <1>1, <1>3, <2>1 DEF Aliases
<1> QED
  BY <1>5, <1>6, <1>7, <1>8, <1>9 DEF Inv

(* Only entities without facts go, so owners with facts keep their names.  *)
LEMMA DropEntitiesInv ==
  ASSUME HomelabAssumption, Inv, DropEntities PROVE Inv'
<1> DEFINE gone == imp.old \ {f.ent : f \in facts}
<1>1. /\ imp' = [imp EXCEPT !.at = "end"] /\ imp.at = "entities"
      /\ ents' = ents \ gone
      /\ alias' = [n \in Names |-> IF alias[n] \in gone THEN 0 ELSE alias[n]]
      /\ facts' = {f \in facts : f.ent \notin gone}
      /\ UNCHANGED <<prov, last>>
  BY DEF DropEntities, Stmt
<1>2. /\ imp'.at = "end" /\ imp'.doc = imp.doc
  BY <1>1 DEF Inv, TypeOK
<1>3. imp.doc \in Docs /\ facts = FactsOf(imp.doc)
  BY <1>1 DEF Inv, Stages, FactsSoFar
<1>4. (\A f \in facts : f.ent \notin gone) /\ facts' = facts
  BY <1>1
<1> HIDE DEF gone
<1>5. TypeOK'
  BY <1>1, <1>4 DEF Inv, TypeOK
<1>6. Stages'
  BY <1>1, <1>2, <1>3 DEF Stages, NoImport
<1>7. Loops'
  BY <1>2 DEF Loops
<1>8. FactsSoFar'
  BY <1>1, <1>2, <1>3, <1>4 DEF Inv, FactsSoFar
<1>9. Aliases'
  <2>1. ASSUME NEW n \in Names, Said(imp.doc, Owner(imp.doc, n)) # {}
        PROVE  alias'[n] = Owner(imp.doc, n)
    <3>1. PICK i \in DOMAIN imp.doc :
            IsFact(imp.doc[i]) /\ Canonical(imp.doc, imp.doc[i].head) = Owner(imp.doc, n)
      BY <2>1 DEF Said
    <3>2. FactOf(imp.doc, i) \in facts /\ FactOf(imp.doc, i).ent = Owner(imp.doc, n)
      BY <1>3, <3>1, FactTyped DEF FactsOf
    <3>3. Owner(imp.doc, n) # 0
      BY <1>3, <3>1, EntitiesTyped DEF HomelabAssumption
    <3> QED
      BY <1>1, <1>4, <3>2, <3>3 DEF Inv, Aliases
  <2> QED
    BY <1>1, <1>2, <1>3, <1>4, <2>1 DEF Aliases, Imported
<1> QED
  BY <1>5, <1>6, <1>7, <1>8, <1>9 DEF Inv

(* The import ends, or the process dies: nothing is undone.                *)
LEMMA EndInv ==
  ASSUME HomelabAssumption, Inv, End \/ Crash PROVE Inv'
<1>1. /\ imp' = NoImport /\ UNCHANGED <<ents, alias, prov, facts>>
      /\ \/ imp.at = "end" /\ last' = imp.doc
         \/ last' = None
      /\ imp.at # "none"
  BY DEF End, Crash, Inv, Stages
<1>2. imp'.at = "none" /\ imp.doc \in Docs
  BY <1>1 DEF NoImport, Inv, Stages
<1>3. TypeOK'
  <2>1. imp' \in [doc : Docs \cup {None}, old : SUBSET Headings, ent : Headings \cup {0},
              at : {"none", "facts", "aliases", "write", "fact", "entities", "end"},
              names : SUBSET Names, line : Nat \ {0}]
    BY <1>1 DEF NoImport
  <2> QED
    BY <1>1, <1>2, <2>1 DEF Inv, TypeOK
<1>4. Stages' /\ Loops'
  BY <1>1, <1>2 DEF Stages, Loops
<1>5. FactsSoFar'
  <2>1. NeverMixed
    <3>1. CASE imp.at = "facts"
      BY <3>1 DEF Inv, FactsSoFar
    <3>2. CASE imp.at # "facts"
      <4>1. facts \subseteq FactsOf(imp.doc)
        BY <1>1, <3>2 DEF Inv, FactsSoFar
      <4>2. \A f \in FactsOf(imp.doc) : f.doc = imp.doc
        BY DEF FactsOf, FactOf
      <4> QED
        BY <4>1, <4>2 DEF NeverMixed
    <3> QED
      BY <3>1, <3>2
  <2> QED
    BY <1>1, <1>2, <2>1 DEF Inv, FactsSoFar, NeverMixed
<1>6. Aliases'
  BY <1>1, <1>2 DEF Inv, Aliases, Imported
<1> QED
  BY <1>3, <1>4, <1>5, <1>6 DEF Inv

(* Every step keeps the invariant.                                         *)
LEMMA StepInv == HomelabAssumption /\ Inv /\ [Next]_vars => Inv'
<1> SUFFICES ASSUME HomelabAssumption, Inv, [Next]_vars PROVE Inv'
  OBVIOUS
<1>1. ASSUME NEW d \in Docs, Begin(d) PROVE Inv'
  BY <1>1, BeginInv
<1>2. CASE DropFacts
  BY <1>2, DropFactsInv
<1>3. CASE DropAliases
  BY <1>3, DropAliasesInv
<1>4. CASE PutEntity
  BY <1>4, PutEntityInv
<1>5. CASE PutAlias
  BY <1>5, PutAliasInv
<1>6. CASE PutExplicit
  BY <1>6, PutExplicitInv
<1>7. CASE PutProvenance
  BY <1>7, PutProvenanceInv
<1>8. CASE PutFact
  BY <1>8, PutFactInv
<1>9. CASE DropOrphans
  BY <1>9, DropOrphansInv
<1>10. CASE DropEntities
  BY <1>10, DropEntitiesInv
<1>11. CASE End \/ Crash
  BY <1>11, EndInv
<1>12. CASE UNCHANGED vars
  <2>1. UNCHANGED <<ents, alias, prov, facts, imp, last>>
    BY <1>12 DEF vars
  <2>2. TypeOK'
    BY <2>1 DEF Inv, TypeOK
  <2>3. Stages' /\ Loops'
    BY <2>1, Zenon DEF Inv, Stages, Loops, Left, Rec
  <2>4. FactsSoFar'
    BY <2>1 DEF Inv, FactsSoFar, NeverMixed
  <2>5. Aliases'
    BY <2>1 DEF Inv, Aliases, Imported, AliasSoFar, ExplicitSoFar, AliasingSoFar
  <2> QED
    BY <2>2, <2>3, <2>4, <2>5 DEF Inv
<1> QED
  BY <1>1, <1>2, <1>3, <1>4, <1>5, <1>6, <1>7, <1>8, <1>9, <1>10, <1>11, <1>12 DEF Next

(* The inductive invariant holds.                                          *)
THEOREM InvHolds == Spec => []Inv
<1>1. Init => Inv
  BY InitInv, HomelabAssumption
<1>2. Inv /\ [Next]_vars => Inv'
  BY StepInv, HomelabAssumption
<1> QED
  BY <1>1, <1>2, PTL DEF Spec

(* No statement of the import is refused by a foreign key: an alias and a  *)
(* fact have their entity, a fact its provenance.                          *)
THEOREM TypeCorrect == Spec => []TypeOK
<1>1. Inv => TypeOK
  BY DEF Inv
<1> QED
  BY <1>1, InvHolds, PTL

(* import_text never lets facts of two documents stand side by side, not   *)
(* during an import nor after one that died.                               *)
THEOREM AnswersNeverMixed == Spec => []NeverMixed
<1>1. Inv => NeverMixed
  <2> SUFFICES ASSUME Inv PROVE NeverMixed
    OBVIOUS
  <2>1. CASE imp.at \in {"none", "facts"}
    BY <2>1 DEF Inv, FactsSoFar
  <2>2. CASE imp.at \notin {"none", "facts"}
    <3>1. facts \subseteq FactsOf(imp.doc)
      BY <2>2 DEF Inv, FactsSoFar
    <3>2. \A f \in FactsOf(imp.doc) : f.doc = imp.doc
      BY DEF FactsOf, FactOf
    <3> QED
      BY <3>1, <3>2 DEF NeverMixed
  <2> QED
    BY <2>1, <2>2
<1> QED
  BY <1>1, InvHolds, PTL

(* After a completed import every lookup by an alias of the document       *)
(* answers with what the document says of the alias's owner, whatever was  *)
(* imported before and wherever earlier imports died.                      *)
THEOREM LookupsAreCurrent == Spec => []LookupCurrent
<1>1. HomelabAssumption /\ Inv => LookupCurrent
  <2> SUFFICES ASSUME HomelabAssumption, Inv, last # None, imp = NoImport,
                      NEW n \in Names, Said(last, Owner(last, n)) # {}, NEW w \in Labels \cup {None}
               PROVE  Lookup(n, w) = Answer(Said(last, Owner(last, n)), w)
    BY DEF LookupCurrent
  <2>1. last \in Docs /\ facts = FactsOf(last) /\ alias[n] = Owner(last, n)
    BY DEF Inv, Aliases, Imported, NoImport
  <2>2. PICK i \in DOMAIN last :
          IsFact(last[i]) /\ Canonical(last, last[i].head) = Owner(last, n)
    BY DEF Said
  <2>3. alias[n] # 0
    BY <2>1, <2>2, EntitiesTyped DEF HomelabAssumption
  <2>4. {f \in facts : f.ent = alias[n]} = Said(last, Owner(last, n))
    BY <2>1 DEF FactsOf, Said, FactOf
  <2> QED
    BY <2>3, <2>4 DEF Lookup
<1> QED
  BY <1>1, InvHolds, HomelabAssumption, PTL
=============================================================================

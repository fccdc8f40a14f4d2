------------------------------ MODULE Homelab ------------------------------
(***************************************************************************)
(* The homelab facts (homelab.py): the import of a document, a sequence of *)
(* statements each committed on its own (transaction() opens none), and    *)
(* the lookup of an alias, which another process may do at any moment.     *)
(*                                                                         *)
(* A document is the sequence of records the parser keeps: a heading and   *)
(* either a fact, with the hostnames and addresses its value holds, or one *)
(* alias (a line of several is as many records).  Abstracted: the parsing  *)
(* of lines, the excluded secrets, and values (the record's number stands  *)
(* for them).  The digest of the document, part of a fact's id, is the     *)
(* document itself.  One import runs at a time.                            *)
(***************************************************************************)
EXTENDS Naturals, Sequences, FiniteSets, FiniteSetsExt

CONSTANTS
  Headings,    \* 1 .. n, in the order of their names
  Names,       \* aliases: segments of headings, hostnames, addresses
  Title,       \* per heading: its meaningful segments
  Labels,      \* names of properties, up to case
  Norm,        \* per label: its normal form
  Semantic,    \* per normal form: the one it stands for, or None
  Docs,        \* documents
  Limit,       \* of the facts an answer shows: LIMIT 50
  None

ASSUME HomelabAssumption ==
  /\ Headings \subseteq Nat \ {0} /\ IsFiniteSet(Headings)
  /\ Title \in [Headings -> SUBSET Names]
  /\ DOMAIN Norm = Labels
  /\ \A d \in Docs : d \in Seq([head : Headings, label : Labels \cup {None},
                                names : SUBSET Names])
  /\ \A d \in Docs : \A i \in DOMAIN d : d[i].label = None => Cardinality(d[i].names) = 1
  /\ Limit \in Nat

VARIABLES
  ents,     \* homelab_entities, by canonical heading
  alias,    \* homelab_aliases: entity of each name, 0 for none
  prov,     \* homelab_provenance: document and line
  facts,    \* homelab_facts
  imp,      \* the import in progress
  last      \* history: the document imported last, to the end

vars == <<ents, alias, prov, facts, imp, last>>

(* old: the entities that had facts; at: the statement that is next (write *)
(* stands for the three loops), ent and names: the entity written last and *)
(* the aliases it still lacks; line: the record to write.                  *)
NoImport == [doc |-> None, old |-> {}, at |-> "none", ent |-> 0, names |-> {}, line |-> 1]

TypeOK ==
  /\ ents \subseteq Headings
  /\ alias \in [Names -> ents \cup {0}]
  /\ \A f \in facts :
       f.ent \in ents /\ f.label \in Labels /\ <<f.doc, f.line>> \in prov
  /\ imp \in [doc : Docs \cup {None}, old : SUBSET Headings, ent : Headings \cup {0},
              at : {"none", "facts", "aliases", "write", "fact", "entities", "end"},
              names : SUBSET Names, line : Nat \ {0}]
  /\ last \in Docs \cup {None}

Init ==
  /\ ents = {} /\ alias = [n \in Names |-> 0]
  /\ prov = {} /\ facts = {}
  /\ imp = NoImport /\ last = None

-----------------------------------------------------------------------------
(* What a document says.  A record without a label is an alias.            *)
IsFact(r) == r.label # None
Identities(d, h) == UNION {d[i].names : i \in {j \in DOMAIN d : d[j].head = h /\ IsFact(d[j])}}
Used(d) == {d[i].head : i \in DOMAIN d}

(* _coalesced_entities: sections that share an identity are one entity,    *)
(* named by the first of them.  A section's group is what every set that   *)
(* holds it and is closed under sharing holds.                             *)
Shares(d, g, k) == Identities(d, g) \cap Identities(d, k) # {}
Closed(d, S) == \A g \in S, k \in Used(d) : Shares(d, g, k) => k \in S
Section(d, h) == {g \in Used(d) : \A S \in SUBSET Used(d) : h \in S /\ Closed(d, S) => g \in S}
Canonical(d, h) == Min(Section(d, h))
Entities(d) == {Canonical(d, h) : h \in Used(d)}
Generated(d, e) ==
  UNION {Title[h] \cup Identities(d, h) : h \in {g \in Used(d) : Canonical(d, g) = e}}
FactOf(d, i) == [ent |-> Canonical(d, d[i].head), label |-> d[i].label, doc |-> d, line |-> i]

-----------------------------------------------------------------------------
(* The statements of import_text, in their order.  It begins by reading    *)
(* which entities have facts.                                              *)
Begin(d) ==
  /\ imp = NoImport
  /\ imp' = [NoImport EXCEPT !.doc = d, !.old = {f.ent : f \in facts}, !.at = "facts"]
  /\ UNCHANGED <<ents, alias, prov, facts, last>>

Stmt(at, next) == imp.at = at /\ imp' = [imp EXCEPT !.at = next]

(* Mutant: entities the new document has too keep their facts.             *)
DropFactsOfOthers ==
  /\ Stmt("facts", "aliases")
  /\ facts' = {f \in facts : f.doc = imp.doc \/ f.ent \in Entities(imp.doc)}
  /\ UNCHANGED <<ents, alias, prov, last>>

DropFacts ==    \* the ids of the wanted facts hold the document's digest
  /\ Stmt("facts", "aliases")
  /\ facts' = {f \in facts : f.doc = imp.doc}
  /\ UNCHANGED <<ents, alias, prov, last>>

DropAliases ==
  /\ Stmt("aliases", "write")
  /\ alias' = [n \in Names |-> IF alias[n] \in imp.old THEN 0 ELSE alias[n]]
  /\ UNCHANGED <<ents, prov, facts, last>>

(* Every entity, in order, and after it the aliases generated for it.      *)
Left == {e \in Entities(imp.doc) : e > imp.ent}

PutEntity ==
  /\ imp.at = "write" /\ imp.names = {} /\ Left # {}
  /\ imp' = [imp EXCEPT !.ent = Min(Left), !.names = Generated(imp.doc, Min(Left))]
  /\ ents' = ents \cup {Min(Left)}
  /\ UNCHANGED <<alias, prov, facts, last>>

(* Mutant: a generated alias that exists stays with its entity.            *)
PutAliasIgnored ==
  /\ imp.at = "write"
  /\ \E n \in imp.names :
       /\ imp' = [imp EXCEPT !.names = @ \ {n}]
       /\ alias' = [alias EXCEPT ![n] = IF @ = 0 THEN imp.ent ELSE @]
  /\ UNCHANGED <<ents, prov, facts, last>>

PutAlias ==     \* ON CONFLICT(alias) DO UPDATE: the alias moves
  /\ imp.at = "write"
  /\ \E n \in imp.names :
       /\ imp' = [imp EXCEPT !.names = @ \ {n}]
       /\ alias' = [alias EXCEPT ![n] = imp.ent]
  /\ UNCHANGED <<ents, prov, facts, last>>

(* Then the records: an alias moves to the section's entity, a fact is     *)
(* written after its provenance.                                           *)
Recording == imp.at = "write" /\ imp.names = {} /\ Left = {}
Rec == imp.doc[imp.line]

PutExplicit ==
  /\ Recording /\ imp.line \in DOMAIN imp.doc /\ ~IsFact(Rec)
  /\ imp' = [imp EXCEPT !.line = @ + 1]
  /\ alias' = [n \in Names |-> IF n \in Rec.names THEN Canonical(imp.doc, Rec.head) ELSE alias[n]]
  /\ UNCHANGED <<ents, prov, facts, last>>

PutProvenance ==
  /\ Recording /\ imp.line \in DOMAIN imp.doc /\ IsFact(Rec)
  /\ imp' = [imp EXCEPT !.at = "fact"]
  /\ prov' = prov \cup {<<imp.doc, imp.line>>}
  /\ UNCHANGED <<ents, alias, facts, last>>

PutFact ==
  /\ imp.at = "fact"
  /\ imp' = [imp EXCEPT !.at = "write", !.line = @ + 1]
  /\ facts' = facts \cup {FactOf(imp.doc, imp.line)}
  /\ UNCHANGED <<ents, alias, prov, last>>

DropOrphans ==
  /\ Recording /\ imp.line \notin DOMAIN imp.doc
  /\ imp' = [imp EXCEPT !.at = "entities"]
  /\ prov' = {<<f.doc, f.line>> : f \in facts}
  /\ UNCHANGED <<ents, alias, facts, last>>

(* The old entities left without facts, and by cascade what refers to them. *)
DropEntities ==
  /\ Stmt("entities", "end")
  /\ LET gone == imp.old \ {f.ent : f \in facts}
     IN  /\ ents' = ents \ gone
         /\ alias' = [n \in Names |-> IF alias[n] \in gone THEN 0 ELSE alias[n]]
         /\ facts' = {f \in facts : f.ent \notin gone}
  /\ UNCHANGED <<prov, last>>

End ==
  /\ imp.at = "end"
  /\ imp' = NoImport /\ last' = imp.doc
  /\ UNCHANGED <<ents, alias, prov, facts>>

Crash ==
  /\ imp # NoImport
  /\ imp' = NoImport /\ last' = None
  /\ UNCHANGED <<ents, alias, prov, facts>>

Next ==
  \/ \E d \in Docs : Begin(d)
  \/ DropFacts \/ DropAliases \/ PutEntity \/ PutAlias \/ PutExplicit \/ PutProvenance
  \/ PutFact \/ DropOrphans \/ DropEntities \/ End \/ Crash

Spec == Init /\ [][Next]_vars

-----------------------------------------------------------------------------
(* resolve_property: the label as written, else the only one of the same   *)
(* normal form, else the only one the bounded vocabulary points to.        *)
Matching(labels, form) == {l \in labels : Norm[l] = form}
Resolved(labels, wanted) ==
  IF wanted \in labels THEN {wanted}
  ELSE IF Matching(labels, Norm[wanted]) # {} THEN Matching(labels, Norm[wanted])
  ELSE IF Semantic[Norm[wanted]] = None THEN {}
  ELSE Matching(labels, Semantic[Norm[wanted]])

(* HomelabFacts.lookup: the entity of the alias, and of its facts those of *)
(* the property the question names, or all, at most Limit of them.  Which  *)
(* is left open: an answer is a set of answers.                            *)
Found(fs) == {[status |-> "found", facts |-> S] :
                S \in {T \in SUBSET fs : Cardinality(T) = Min({Limit, Cardinality(fs)})}}
Failed(status) == {[status |-> status, facts |-> {}]}

Answer(mine, wanted) ==
  LET ls == Resolved({f.label : f \in mine}, wanted)
  IN  IF wanted = None THEN Found(mine)
      ELSE IF Cardinality(ls) > 1 THEN Failed("ambiguous_property")
      ELSE IF ls = {} THEN Failed("property_not_found")
      ELSE Found({f \in mine : f.label \in ls})

Lookup(n, wanted) ==
  IF alias[n] = 0 THEN Failed("not_found")
  ELSE Answer({f \in facts : f.ent = alias[n]}, wanted)

(* At no moment, not during an import nor after one that died, do facts of *)
(* two documents stand side by side: an answer never mixes a stale value   *)
(* with a current one.                                                     *)
NeverMixed == \A f, g \in facts : f.doc = g.doc

(* The owner a document gives an alias: an explicit alias wins over        *)
(* generated ones, among equals the last wins.                             *)
Explicit(d, n) == {i \in DOMAIN d : ~IsFact(d[i]) /\ n \in d[i].names}
Owner(d, n) ==
  IF Explicit(d, n) # {} THEN Canonical(d, d[Max(Explicit(d, n))].head)
  ELSE Max({e \in Entities(d) : n \in Generated(d, e)} \cup {0})

(* After a completed import, whatever was imported before it and wherever  *)
(* earlier imports died, a question by an alias of the document is         *)
(* answered as if the document were all there is.  Of aliases that only    *)
(* earlier documents gave it says nothing.                                 *)
Said(d, e) == {FactOf(d, i) : i \in {j \in DOMAIN d : IsFact(d[j]) /\ Canonical(d, d[j].head) = e}}
LookupCurrent ==
  last # None /\ imp = NoImport =>
    \A n \in Names : LET said == Said(last, Owner(last, n)) IN
      said # {} => \A w \in Labels \cup {None} : Lookup(n, w) = Answer(said, w)
=============================================================================

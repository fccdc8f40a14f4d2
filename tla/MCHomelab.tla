----------------------------- MODULE MCHomelab -----------------------------
(***************************************************************************)
(* Two headings that share a segment, and four documents: two sections,    *)
(* the first with a hostname and an address in one value; the sections     *)
(* coalesced by an address; the alias moved and the second section left    *)
(* without facts; an empty document.                                       *)
(***************************************************************************)
EXTENDS Homelab

Fact(h, l, ns) == [head |-> h, label |-> l, names |-> ns]
Alias(h, n) == [head |-> h, label |-> None, names |-> {n}]

Titles == <<{"nas", "lab"}, {"proxy", "lab"}>>
AllNames == {"nas", "proxy", "lab", "box", "box.lan", "10.0.0.1"}
AllLabels == {"OS", "OS.", "underlying os"}
Norms == [l \in AllLabels |-> IF l = "underlying os" THEN l ELSE "os"]
Meanings == [f \in {"os", "underlying os"} |-> IF f = "os" THEN "underlying os" ELSE None]

Two == <<Fact(1, "OS", {"box.lan", "10.0.0.1"}), Fact(2, "OS", {}), Alias(2, "box")>>
One == <<Fact(1, "OS", {"10.0.0.1"}), Fact(2, "OS.", {"box.lan", "10.0.0.1"}), Alias(2, "nas")>>
Moved == <<Alias(1, "box"), Fact(1, "underlying os", {}), Alias(2, "10.0.0.1")>>
AllDocs == {Two, One, Moved, <<>>}
=============================================================================

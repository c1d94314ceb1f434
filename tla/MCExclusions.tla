---------------------------- MODULE MCExclusions ----------------------------
(* Exclusions for TLC: two addresses, each of them and both together as    *)
(* ranges, and visits and edits that are alike until they begin.           *)
EXTENDS Exclusions, TLC

CONSTANTS one, other

MCAddress == {one, other}
MCPrefixes == {{one}, {other}, {one, other}}

VisitsAndEditsAlike == Permutations(Visit) \cup Permutations(Edit)
=============================================================================

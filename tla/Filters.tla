------------------------------ MODULE Filters -------------------------------
(* Array.prototype.filter and sort as the dashboard's lists use them.        *)
EXTENDS Naturals, Sequences, FiniteSets

(* The members of s that are wanted, in their order.                        *)
Filtered(s, wanted) ==
  LET upTo[n \in 0..Len(s)] ==
        IF n = 0 THEN <<>> ELSE IF s[n] \in wanted THEN Append(upTo[n - 1], s[n]) ELSE upTo[n - 1]
  IN  upTo[Len(s)]

(* The members of a finite set, each behind those that are below it.         *)
SortedBy(S, below) ==
  [k \in 1..Cardinality(S) |-> CHOOSE x \in S : Cardinality({y \in S : <<y, x>> \in below}) = k - 1]
=============================================================================

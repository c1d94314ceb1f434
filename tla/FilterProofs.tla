---------------------------- MODULE FilterProofs -----------------------------
(* What filtering and sorting do to a list, for any list: the lemmas that    *)
(* the proofs about the dashboard and about its forms share.                *)
EXTENDS Filters, SequencesExt, FiniteSetTheorems, SequenceTheorems, WellFoundedInduction, TLAPS

(* Induction over the natural numbers, of sets.                             *)
LEMMA SetInduction ==
  ASSUME NEW S \in SUBSET Nat, 0 \in S, \A n \in S : n + 1 \in S
  PROVE  S = Nat
<1> SUFFICES ASSUME Nat \ S # {} PROVE FALSE
  OBVIOUS
<1>1. PICK x \in Nat \ S : \A y \in Nat \ S : ~ (<<y, x>> \in OpToRel(<, Nat))
  BY NatLessThanWellFounded, WFMin, Zenon
<1>2. \A y \in Nat : y < x => <<y, x>> \in OpToRel(<, Nat)
  BY DEF OpToRel
<1>3. x \in Nat /\ x # 0
  OBVIOUS
<1>4. x - 1 \in Nat /\ x - 1 < x /\ (x - 1) + 1 = x
  BY <1>3
<1>5. x - 1 \in S
  BY <1>1, <1>2, <1>4
<1> QED BY <1>4, <1>5

(* What a filter has kept of the first n members.                            *)
KeepsUpTo(f, n, s, wanted) ==
  f = [i \in 0..n |-> IF i = 0 THEN <<>> ELSE IF s[i] \in wanted THEN Append(f[i - 1], s[i]) ELSE f[i - 1]]

LEMMA FilterIsDefined ==
  ASSUME NEW s, NEW wanted, NEW n \in Nat
  PROVE  \E f : KeepsUpTo(f, n, s, wanted)
<1> DEFINE N == {k \in Nat : \E f : KeepsUpTo(f, k, s, wanted)}
<1>1. 0 \in N
  <2> DEFINE f == [i \in 0..0 |-> <<>>]
  <2>1. KeepsUpTo(f, 0, s, wanted)
    BY DEF KeepsUpTo
  <2> QED BY <2>1
<1>2. ASSUME NEW k \in N PROVE k + 1 \in N
  <2>1. PICK f : KeepsUpTo(f, k, s, wanted)
    OBVIOUS
  <2> DEFINE g == [i \in 0..(k + 1) |-> IF i <= k THEN f[i]
                                       ELSE IF s[k + 1] \in wanted THEN Append(f[k], s[k + 1]) ELSE f[k]]
  <2>2. \A i \in 0..k : f[i] = IF i = 0 THEN <<>> ELSE IF s[i] \in wanted THEN Append(f[i - 1], s[i]) ELSE f[i - 1]
    BY <2>1 DEF KeepsUpTo
  <2>3. \A i \in 0..(k + 1) :
          g[i] = IF i = 0 THEN <<>> ELSE IF s[i] \in wanted THEN Append(g[i - 1], s[i]) ELSE g[i - 1]
    <3> TAKE i \in 0..(k + 1)
    <3>1. CASE i = 0
      BY <2>2, <3>1
    <3>2. CASE i # 0 /\ i <= k
      <4>1. i - 1 \in 0..k /\ i \in 0..k
        BY <3>2
      <4> QED BY <2>2, <3>2, <4>1
    <3>3. CASE i = k + 1
      <4>1. k \in 0..(k + 1) /\ i - 1 = k /\ ~(i <= k) /\ i # 0
        BY <3>3
      <4> QED BY <3>3, <4>1
    <3> QED BY <3>1, <3>2, <3>3
  <2>4. KeepsUpTo(g, k + 1, s, wanted)
    <3> HIDE DEF g
    <3>1. g = [i \in 0..(k + 1) |-> g[i]]
      BY DEF g
    <3> QED BY <2>3, <3>1 DEF KeepsUpTo
  <2> QED BY <2>4
<1>3. N = Nat
  <2> HIDE DEF N
  <2>1. N \in SUBSET Nat
    BY DEF N
  <2> QED BY <1>1, <1>2, <2>1, SetInduction
<1> QED BY <1>3

Kept(g, n, X, s, wanted) ==
  /\ g \in Seq(X) /\ Len(g) <= n
  /\ \A x : x \in ToSet(g) <=> x \in wanted /\ \E i \in 1..n : x = s[i]
  /\ (\A i \in 1..n : s[i] \in wanted) => g = [i \in 1..n |-> s[i]]

LEMMA FilterUpTo ==
  ASSUME NEW X, NEW s \in Seq(X), NEW wanted, NEW f, KeepsUpTo(f, Len(s), s, wanted),
         NEW n \in 0..Len(s)
  PROVE  Kept(f[n], n, X, s, wanted)
<1> DEFINE Good(k) ==
      /\ f[k] \in Seq(X) /\ Len(f[k]) <= k
      /\ \A x : x \in ToSet(f[k]) <=> x \in wanted /\ \E i \in 1..k : x = s[i]
      /\ (\A i \in 1..k : s[i] \in wanted) => f[k] = [i \in 1..k |-> s[i]]
<1> DEFINE N == {k \in Nat : k <= Len(s) => Good(k)}
<1>0. /\ \A i \in 0..Len(s) :
           f[i] = IF i = 0 THEN <<>> ELSE IF s[i] \in wanted THEN Append(f[i - 1], s[i]) ELSE f[i - 1]
      /\ Len(s) \in Nat /\ \A i \in 1..Len(s) : s[i] \in X
  <2>1. \A i \in 0..Len(s) :
          f[i] = IF i = 0 THEN <<>> ELSE IF s[i] \in wanted THEN Append(f[i - 1], s[i]) ELSE f[i - 1]
    <3> HIDE DEF Good, N
    <3> QED BY DEF KeepsUpTo
  <2> QED BY <2>1
<1>1. 0 \in N
  <2>1. f[0] = <<>>
    BY <1>0
  <2>2. Good(0)
    BY <2>1 DEF ToSet
  <2> QED BY <2>2
<1>2. ASSUME NEW k \in N PROVE k + 1 \in N
  <2> SUFFICES ASSUME k + 1 <= Len(s) PROVE Good(k + 1)
    OBVIOUS
  <2>0. k \in Nat /\ k + 1 \in 1..Len(s) /\ k <= Len(s)
    BY <1>0
  <2>1. Good(k)
    BY <2>0
  <2>2. f[k + 1] = IF s[k + 1] \in wanted THEN Append(f[k], s[k + 1]) ELSE f[k]
    BY <1>0, <2>0
  <2>3. \A x : (\E i \in 1..(k + 1) : x = s[i]) <=> (\E i \in 1..k : x = s[i]) \/ x = s[k + 1]
    BY <2>0
  <2> HIDE DEF Good
  <2>4. CASE s[k + 1] \notin wanted
    <3>1. ~ \A i \in 1..(k + 1) : s[i] \in wanted
      BY <2>0, <2>4
    <3>2. f[k + 1] = f[k]
      BY <2>2, <2>4
    <3>3. f[k + 1] \in Seq(X) /\ Len(f[k + 1]) <= k + 1
      BY <2>0, <2>1, <3>2 DEF Good
    <3>4. \A x : x \in ToSet(f[k + 1]) <=> x \in wanted /\ \E i \in 1..(k + 1) : x = s[i]
      BY <2>1, <2>3, <2>4, <3>2 DEF Good
    <3> QED BY <3>1, <3>3, <3>4 DEF Good
  <2>5. CASE s[k + 1] \in wanted
    <3>1. f[k + 1] = Append(f[k], s[k + 1]) /\ f[k] \in Seq(X) /\ Len(f[k]) \in Nat
      BY <2>1, <2>2, <2>5 DEF Good
    <3>2. /\ f[k + 1] \in Seq(X) /\ Len(f[k + 1]) = Len(f[k]) + 1
          /\ \A i \in 1..Len(f[k]) : f[k + 1][i] = f[k][i]
          /\ f[k + 1][Len(f[k]) + 1] = s[k + 1]
      BY <1>0, <2>0, <3>1, AppendProperties
    <3>3. Len(f[k + 1]) <= k + 1
      BY <2>0, <2>1, <3>1, <3>2 DEF Good
    <3>4. \A x : x \in ToSet(f[k + 1]) <=> x \in ToSet(f[k]) \/ x = s[k + 1]
      <4>1. DOMAIN f[k + 1] = 1..(Len(f[k]) + 1) /\ DOMAIN f[k] = 1..Len(f[k])
        BY <3>1, <3>2
      <4> QED BY <3>1, <3>2, <4>1 DEF ToSet
    <3>5. \A x : x \in ToSet(f[k + 1]) <=> x \in wanted /\ \E i \in 1..(k + 1) : x = s[i]
      BY <2>1, <2>3, <2>5, <3>4 DEF Good
    <3>6. ASSUME \A i \in 1..(k + 1) : s[i] \in wanted
          PROVE  f[k + 1] = [i \in 1..(k + 1) |-> s[i]]
      <4>1. f[k] = [i \in 1..k |-> s[i]]
        BY <2>0, <2>1, <3>6 DEF Good
      <4>2. Len(f[k]) = k
        BY <2>0, <3>1, <4>1
      <4>3. \A i \in 1..(k + 1) : f[k + 1][i] = s[i]
        BY <2>0, <3>2, <4>1, <4>2
      <4>4. f[k + 1] = [i \in 1..(k + 1) |-> f[k + 1][i]]
        BY <3>2, <4>2
      <4> QED BY <4>3, <4>4
    <3> QED BY <3>2, <3>3, <3>5, <3>6 DEF Good
  <2> QED BY <2>4, <2>5
<1>3. N = Nat
  <2> HIDE DEF N
  <2>1. N \in SUBSET Nat
    BY DEF N
  <2> QED BY <1>1, <1>2, <2>1, SetInduction
<1>4. n \in N /\ n <= Len(s)
  <2> HIDE DEF N
  <2> QED BY <1>0, <1>3
<1> QED BY <1>4 DEF Kept

(* A filter keeps exactly the wanted members, and a list of wanted members    *)
(* as it is.                                                                *)
LEMMA FilterKeeps ==
  ASSUME NEW X, NEW s \in Seq(X), NEW wanted
  PROVE  /\ Filtered(s, wanted) \in Seq(X)
         /\ Len(Filtered(s, wanted)) <= Len(s)
         /\ ToSet(Filtered(s, wanted)) = ToSet(s) \cap wanted
         /\ ToSet(s) \subseteq wanted => Filtered(s, wanted) = s
<1> DEFINE f == CHOOSE f : KeepsUpTo(f, Len(s), s, wanted)
<1>1. KeepsUpTo(f, Len(s), s, wanted)
  BY FilterIsDefined
<1>2. Filtered(s, wanted) = f[Len(s)]
  BY DEF Filtered, KeepsUpTo
<1> HIDE DEF f
<1>3. Len(s) \in 0..Len(s)
  OBVIOUS
<1>4. Kept(f[Len(s)], Len(s), X, s, wanted)
  BY <1>1, <1>3, FilterUpTo
<1>5. /\ f[Len(s)] \in Seq(X) /\ Len(f[Len(s)]) <= Len(s)
      /\ \A x : x \in ToSet(f[Len(s)]) <=> x \in wanted /\ \E i \in 1..Len(s) : x = s[i]
      /\ (\A i \in 1..Len(s) : s[i] \in wanted) => f[Len(s)] = [i \in 1..Len(s) |-> s[i]]
  BY <1>4 DEF Kept
<1>6. s = [i \in 1..Len(s) |-> s[i]] /\ \A x : x \in ToSet(s) <=> \E i \in 1..Len(s) : x = s[i]
  BY DEF ToSet
<1> QED BY <1>2, <1>5, <1>6

(* What the members up to n filter to does not depend on those behind them.   *)
LEMMA FilterGoesOn ==
  ASSUME NEW s, NEW t, NEW wanted, NEW m \in Nat, NEW n \in 0..m,
         \A i \in 1..n : s[i] = t[i],
         NEW f, KeepsUpTo(f, m, s, wanted), NEW g, KeepsUpTo(g, n, t, wanted)
  PROVE  f[n] = g[n]
<1> DEFINE N == {k \in Nat : k <= n => f[k] = g[k]}
<1>1. /\ \A i \in 0..m : f[i] = IF i = 0 THEN <<>> ELSE IF s[i] \in wanted THEN Append(f[i - 1], s[i]) ELSE f[i - 1]
      /\ \A i \in 0..n : g[i] = IF i = 0 THEN <<>> ELSE IF t[i] \in wanted THEN Append(g[i - 1], t[i]) ELSE g[i - 1]
  <2> HIDE DEF N
  <2>1. \A i \in 0..m : f[i] = IF i = 0 THEN <<>> ELSE IF s[i] \in wanted THEN Append(f[i - 1], s[i]) ELSE f[i - 1]
    BY DEF KeepsUpTo
  <2>2. \A i \in 0..n : g[i] = IF i = 0 THEN <<>> ELSE IF t[i] \in wanted THEN Append(g[i - 1], t[i]) ELSE g[i - 1]
    BY DEF KeepsUpTo
  <2> QED BY <2>1, <2>2
<1>2. 0 \in N
  BY <1>1
<1>3. ASSUME NEW k \in N PROVE k + 1 \in N
  <2> SUFFICES ASSUME k + 1 <= n PROVE f[k + 1] = g[k + 1]
    OBVIOUS
  <2>1. k \in Nat /\ k + 1 \in 0..m /\ k + 1 \in 0..n /\ k + 1 \in 1..n /\ k + 1 # 0 /\ (k + 1) - 1 = k
    OBVIOUS
  <2>2. f[k] = g[k] /\ s[k + 1] = t[k + 1]
    BY <2>1
  <2>3. f[k + 1] = IF s[k + 1] \in wanted THEN Append(f[k], s[k + 1]) ELSE f[k]
    BY <1>1, <2>1
  <2>4. g[k + 1] = IF t[k + 1] \in wanted THEN Append(g[k], t[k + 1]) ELSE g[k]
    BY <1>1, <2>1
  <2> QED BY <2>2, <2>3, <2>4
<1>4. N = Nat
  <2> HIDE DEF N
  <2>1. N \in SUBSET Nat
    BY DEF N
  <2> QED BY <1>2, <1>3, <2>1, SetInduction
<1> QED BY <1>4

(* A member that is appended is kept if it is wanted.                        *)
LEMMA FilterAppend ==
  ASSUME NEW X, NEW s \in Seq(X), NEW e \in X, NEW wanted
  PROVE  Filtered(Append(s, e), wanted) =
           IF e \in wanted THEN Append(Filtered(s, wanted), e) ELSE Filtered(s, wanted)
<1> DEFINE t == Append(s, e)
           f == CHOOSE f : KeepsUpTo(f, Len(t), t, wanted)
           g == CHOOSE g : KeepsUpTo(g, Len(s), s, wanted)
<1>1. /\ t \in Seq(X) /\ Len(t) = Len(s) + 1 /\ t[Len(t)] = e /\ Len(s) \in Nat
      /\ \A i \in 1..Len(s) : t[i] = s[i]
  BY AppendProperties
<1>2. KeepsUpTo(f, Len(t), t, wanted) /\ KeepsUpTo(g, Len(s), s, wanted)
  <2>1. Len(t) \in Nat
    BY <1>1
  <2>2. (\E h : KeepsUpTo(h, Len(t), t, wanted)) /\ (\E h : KeepsUpTo(h, Len(s), s, wanted))
    BY <1>1, <2>1, FilterIsDefined
  <2> QED BY <2>2
<1>3. Filtered(t, wanted) = f[Len(t)] /\ Filtered(s, wanted) = g[Len(s)]
  BY DEF Filtered, KeepsUpTo
<1> HIDE DEF f, g, t
<1>4. f[Len(s)] = g[Len(s)]
  BY <1>1, <1>2, FilterGoesOn
<1>5. \A i \in 0..Len(t) : f[i] = IF i = 0 THEN <<>> ELSE IF t[i] \in wanted THEN Append(f[i - 1], t[i]) ELSE f[i - 1]
  BY <1>2 DEF KeepsUpTo
<1>6. Len(t) \in 0..Len(t) /\ Len(t) # 0 /\ Len(t) - 1 = Len(s)
  BY <1>1
<1>7. f[Len(t)] = IF e \in wanted THEN Append(f[Len(s)], e) ELSE f[Len(s)]
  BY <1>1, <1>5, <1>6
<1> QED BY <1>3, <1>4, <1>7 DEF t

(* Induction over lists, of sets of lists.                                  *)
LEMMA ListInduction ==
  ASSUME NEW X, NEW G, <<>> \in G, \A s \in Seq(X), e \in X : s \in G => Append(s, e) \in G
  PROVE  \A s \in Seq(X) : s \in G
<1> DEFINE N == {n \in Nat : \A s \in Seq(X) : Len(s) = n => s \in G}
<1>1. 0 \in N
  <2>1. \A s \in Seq(X) : Len(s) = 0 => s = <<>>
    BY EmptySeq
  <2> QED BY <2>1
<1>2. ASSUME NEW n \in N PROVE n + 1 \in N
  <2> SUFFICES ASSUME NEW s \in Seq(X), Len(s) = n + 1 PROVE s \in G
    OBVIOUS
  <2>1. s # <<>>
    BY EmptySeq
  <2>2. PICK t \in Seq(X), e \in X : s = Append(t, e)
    BY <2>1, SequenceEmptyOrAppend
  <2>3. Len(t) = n
    BY <2>2, AppendProperties, LenProperties
  <2> QED BY <2>2, <2>3
<1>3. N = Nat
  <2> HIDE DEF N
  <2>1. N \in SUBSET Nat
    BY DEF N
  <2> QED BY <1>1, <1>2, <2>1, SetInduction
<1> SUFFICES ASSUME NEW s \in Seq(X) PROVE s \in G
  OBVIOUS
<1>4. Len(s) \in N
  <2> HIDE DEF N
  <2> QED BY <1>3, LenProperties
<1> QED BY <1>4

LEMMA FilterEmpty == ASSUME NEW wanted PROVE Filtered(<<>>, wanted) = <<>>
<1>1. <<>> \in Seq({}) /\ Len(<<>>) = 0
  BY EmptySeq
<1>2. ToSet(<<>>) = {}
  BY <1>1 DEF ToSet
<1> QED BY <1>1, <1>2, FilterKeeps

LEMMA MembersAppend ==
  ASSUME NEW X, NEW s \in Seq(X), NEW e \in X
  PROVE  ToSet(Append(s, e)) = ToSet(s) \cup {e} /\ ToSet(<<>>) = {}
<1>1. /\ Append(s, e) \in Seq(X) /\ Len(Append(s, e)) = Len(s) + 1 /\ Len(s) \in Nat
      /\ \A i \in 1..Len(s) : Append(s, e)[i] = s[i]
      /\ Append(s, e)[Len(s) + 1] = e
  BY AppendProperties
<1>2. DOMAIN Append(s, e) = 1..(Len(s) + 1) /\ DOMAIN s = 1..Len(s)
  BY <1>1
<1>3. \A x : x \in ToSet(Append(s, e)) <=> \E i \in 1..(Len(s) + 1) : x = Append(s, e)[i]
  BY <1>2 DEF ToSet
<1>4. \A x : x \in ToSet(s) <=> \E i \in 1..Len(s) : x = s[i]
  BY <1>2 DEF ToSet
<1>5. \A x : x \in ToSet(Append(s, e)) <=> x \in ToSet(s) \/ x = e
  BY <1>1, <1>3, <1>4
<1>6. ToSet(<<>>) = {}
  BY DEF ToSet
<1> QED BY <1>5, <1>6

(* Two sets that agree on the members of a list filter it alike.             *)
LEMMA FilterSame ==
  ASSUME NEW X, NEW s \in Seq(X), NEW V, NEW W, ToSet(s) \cap V = ToSet(s) \cap W
  PROVE  Filtered(s, V) = Filtered(s, W)
<1> DEFINE G == {t \in Seq(X) : ToSet(t) \cap V = ToSet(t) \cap W => Filtered(t, V) = Filtered(t, W)}
<1>1. <<>> \in G
  BY FilterEmpty, EmptySeq
<1>2. ASSUME NEW t \in Seq(X), NEW e \in X, t \in G PROVE Append(t, e) \in G
  <2>1. ToSet(Append(t, e)) = ToSet(t) \cup {e}
    BY MembersAppend
  <2>2. Append(t, e) \in Seq(X)
    BY AppendProperties
  <2> SUFFICES ASSUME ToSet(Append(t, e)) \cap V = ToSet(Append(t, e)) \cap W
               PROVE  Filtered(Append(t, e), V) = Filtered(Append(t, e), W)
    BY <2>2
  <2>3. ToSet(t) \cap V = ToSet(t) \cap W /\ (e \in V <=> e \in W)
    BY <2>1
  <2>4. Filtered(t, V) = Filtered(t, W)
    BY <1>2, <2>3
  <2>5. /\ Filtered(Append(t, e), V) = IF e \in V THEN Append(Filtered(t, V), e) ELSE Filtered(t, V)
        /\ Filtered(Append(t, e), W) = IF e \in W THEN Append(Filtered(t, W), e) ELSE Filtered(t, W)
    BY FilterAppend
  <2> QED BY <2>3, <2>4, <2>5
<1>3. s \in G
  <2> HIDE DEF G
  <2> QED BY <1>1, <1>2, ListInduction
<1> QED BY <1>3

(* A list filtered twice has what both want.                                *)
LEMMA FilterTwice ==
  ASSUME NEW X, NEW s \in Seq(X), NEW V, NEW W
  PROVE  Filtered(Filtered(s, V), W) = Filtered(s, V \cap W)
<1> DEFINE G == {t \in Seq(X) : Filtered(Filtered(t, V), W) = Filtered(t, V \cap W)}
<1>1. <<>> \in G
  BY FilterEmpty, EmptySeq
<1>2. ASSUME NEW t \in Seq(X), NEW e \in X, t \in G PROVE Append(t, e) \in G
  <2>1. Append(t, e) \in Seq(X) /\ Filtered(t, V) \in Seq(X)
    BY AppendProperties, FilterKeeps
  <2>2. /\ Filtered(Append(t, e), V) = IF e \in V THEN Append(Filtered(t, V), e) ELSE Filtered(t, V)
        /\ Filtered(Append(t, e), V \cap W) =
              IF e \in V \cap W THEN Append(Filtered(t, V \cap W), e) ELSE Filtered(t, V \cap W)
        /\ Filtered(Append(Filtered(t, V), e), W) =
              IF e \in W THEN Append(Filtered(Filtered(t, V), W), e) ELSE Filtered(Filtered(t, V), W)
    BY <2>1, FilterAppend
  <2>3. Filtered(Filtered(t, V), W) = Filtered(t, V \cap W)
    BY <1>2
  <2>4. CASE e \in V
    <3>1. Filtered(Append(t, e), V) = Append(Filtered(t, V), e)
      BY <2>2, <2>4
    <3>2. e \in V \cap W <=> e \in W
      BY <2>4
    <3>3. Filtered(Filtered(Append(t, e), V), W) = Filtered(Append(t, e), V \cap W)
      BY <2>2, <2>3, <3>1, <3>2
    <3> QED BY <2>1, <3>3
  <2>5. CASE e \notin V
    <3>1. Filtered(Append(t, e), V) = Filtered(t, V) /\ e \notin V \cap W
      BY <2>2, <2>5
    <3>3. Filtered(Filtered(Append(t, e), V), W) = Filtered(Append(t, e), V \cap W)
      BY <2>2, <2>3, <3>1
    <3> QED BY <2>1, <3>3
  <2> QED BY <2>4, <2>5
<1>3. s \in G
  <2> HIDE DEF G
  <2> QED BY <1>1, <1>2, ListInduction
<1> QED BY <1>3

(* Behind a list, members that are not wanted leave no trace.                *)
LEMMA FilterTail ==
  ASSUME NEW X, NEW s \in Seq(X), NEW t \in Seq(X), NEW W, ToSet(t) \cap W = {}
  PROVE  Filtered(s \o t, W) = Filtered(s, W)
<1> DEFINE G == {u \in Seq(X) : ToSet(u) \cap W = {} => Filtered(s \o u, W) = Filtered(s, W)}
<1>1. <<>> \in G
  BY ConcatEmptySeq, EmptySeq
<1>2. ASSUME NEW u \in Seq(X), NEW e \in X, u \in G PROVE Append(u, e) \in G
  <2>1. ToSet(Append(u, e)) = ToSet(u) \cup {e} /\ Append(u, e) \in Seq(X)
    BY MembersAppend, AppendProperties
  <2> SUFFICES ASSUME ToSet(Append(u, e)) \cap W = {} PROVE Filtered(s \o Append(u, e), W) = Filtered(s, W)
    BY <2>1
  <2>2. ToSet(u) \cap W = {} /\ e \notin W
    BY <2>1
  <2>3. <<e>> \in Seq(X) /\ s \o u \in Seq(X)
    BY ConcatProperties
  <2>4. s \o Append(u, e) = Append(s \o u, e)
    <3>1. Append(u, e) = u \o <<e>> /\ Append(s \o u, e) = (s \o u) \o <<e>>
      BY <2>3, AppendIsConcat
    <3>2. (s \o u) \o <<e>> = s \o (u \o <<e>>)
      BY <2>3, ConcatAssociative
    <3> QED BY <3>1, <3>2
  <2>5. Filtered(Append(s \o u, e), W) = Filtered(s \o u, W)
    BY <2>2, <2>3, FilterAppend
  <2>6. Filtered(s \o u, W) = Filtered(s, W)
    BY <1>2, <2>2
  <2> QED BY <2>4, <2>5, <2>6
<1>3. t \in G
  <2> HIDE DEF G
  <2> QED BY <1>1, <1>2, ListInduction
<1> QED BY <1>3

-----------------------------------------------------------------------------
(* Lists that were sorted.                                                  *)

(* A sorted list has the members of the set it came from, each once, if any  *)
(* two of them are in order.                                                *)
LEMMA SortedKeeps ==
  ASSUME NEW S, IsFiniteSet(S), NEW below,
         \A x \in S : <<x, x>> \notin below,
         \A x, y, z \in S : <<x, y>> \in below /\ <<y, z>> \in below => <<x, z>> \in below,
         \A x, y \in S : x # y => <<x, y>> \in below \/ <<y, x>> \in below
  PROVE  /\ SortedBy(S, below) \in Seq(S)
         /\ Len(SortedBy(S, below)) = Cardinality(S)
         /\ ToSet(SortedBy(S, below)) = S
<1> DEFINE n == Cardinality(S)
           before(x) == {y \in S : <<y, x>> \in below}
           rank == [x \in S |-> Cardinality(before(x))]
           place == [k \in 1..n |-> CHOOSE x \in S : Cardinality(before(x)) = k - 1]
<1>1. n \in Nat
  BY FS_CardinalityType
<1>2. \A x \in S : IsFiniteSet(before(x)) /\ Cardinality(before(x)) \in Nat /\ before(x) \in SUBSET S
  <2> TAKE x \in S
  <2>1. before(x) \in SUBSET S
    OBVIOUS
  <2> QED BY <2>1, FS_Subset, FS_CardinalityType
<1>3. ASSUME NEW x \in S, NEW y \in S, <<x, y>> \in below
      PROVE  Cardinality(before(x)) < Cardinality(before(y))
  <2>1. before(x) \in SUBSET before(y) /\ x \in before(y) /\ x \notin before(x)
    BY <1>3
  <2>2. before(x) # before(y)
    BY <2>1
  <2> HIDE DEF before
  <2>3. Cardinality(before(x)) <= Cardinality(before(y)) /\ Cardinality(before(x)) # Cardinality(before(y))
    BY <1>2, <2>1, <2>2, FS_Subset
  <2> QED BY <1>2, <2>3
<1>4. ASSUME NEW x \in S PROVE Cardinality(before(x)) \in 0..(n - 1)
  <2>1. before(x) # S
    OBVIOUS
  <2> HIDE DEF before
  <2>2. Cardinality(before(x)) <= n /\ Cardinality(before(x)) # n
    BY <1>2, <2>1, FS_Subset
  <2> QED BY <1>1, <1>2, <2>2
<1> HIDE DEF before
<1>5. rank \in [S -> 0..(n - 1)]
  BY <1>4
<1>6. ASSUME NEW x \in S, NEW y \in S, rank[x] = rank[y] PROVE x = y
  <2>1. Cardinality(before(x)) = Cardinality(before(y))
    BY <1>6
  <2>2. ~(Cardinality(before(x)) < Cardinality(before(y))) /\ ~(Cardinality(before(y)) < Cardinality(before(x)))
    BY <1>2, <2>1
  <2>3. <<x, y>> \notin below /\ <<y, x>> \notin below
    BY <1>3, <2>2
  <2> QED BY <2>3
<1>7. rank \in Injection(S, 0..(n - 1))
  <2> HIDE DEF rank, n
  <2> QED BY <1>5, <1>6 DEF Injection, IsInjective
<1>8. IsFiniteSet(0..(n - 1)) /\ Cardinality(0..(n - 1)) = n
  <2>1. 0 \in Int /\ n - 1 \in Int /\ (IF 0 > n - 1 THEN 0 ELSE (n - 1) - 0 + 1) = n
    BY <1>1
  <2> HIDE DEF n
  <2> QED BY <2>1, FS_Interval
<1>9. rank \in Surjection(S, 0..(n - 1))
  <2> HIDE DEF rank, n
  <2>1. Cardinality(S) = Cardinality(0..(n - 1))
    BY <1>8 DEF n
  <2> QED BY <1>7, <1>8, <2>1, FS_Injection
<1>10. ASSUME NEW k \in 1..n PROVE place[k] \in S /\ Cardinality(before(place[k])) = k - 1
  <2>1. k - 1 \in 0..(n - 1)
    BY <1>1
  <2>2. \E x \in S : rank[x] = k - 1
    <3> HIDE DEF rank, n
    <3> QED BY <1>9, <2>1 DEF Surjection
  <2>3. \E x \in S : Cardinality(before(x)) = k - 1
    BY <2>2
  <2>4. place[k] = CHOOSE x \in S : Cardinality(before(x)) = k - 1
    OBVIOUS
  <2> QED BY <2>3, <2>4
<1>11. ASSUME NEW x \in S PROVE \E k \in 1..n : place[k] = x
  <2>1. Cardinality(before(x)) + 1 \in 1..n
    BY <1>1, <1>4
  <2> DEFINE k == Cardinality(before(x)) + 1
  <2>2. place[k] \in S /\ Cardinality(before(place[k])) = k - 1
    BY <1>10, <2>1
  <2>3. rank[place[k]] = rank[x]
    BY <1>2, <2>2
  <2> HIDE DEF rank, place
  <2>4. place[k] = x
    BY <1>6, <2>2, <2>3
  <2> QED BY <2>1, <2>4
<1>12. SortedBy(S, below) = place
  BY DEF SortedBy, before
<1> HIDE DEF place, rank
<1>13. place = [k \in 1..n |-> place[k]]
  BY DEF place
<1> HIDE DEF n
<1>14. place \in Seq(S) /\ Len(place) = n /\ DOMAIN place = 1..n
  BY <1>1, <1>10, <1>13
<1>15. ToSet(place) = S
  BY <1>10, <1>11, <1>14 DEF ToSet
<1> QED BY <1>12, <1>14, <1>15 DEF n

(* A finite set of natural numbers that is not empty has a largest one, and   *)
(* any set of them a smallest.                                               *)
LEMMA LargestExists ==
  ASSUME NEW S \in SUBSET Nat, IsFiniteSet(S), S # {}
  PROVE  \E n \in S : \A k \in S : k <= n
<1> DEFINE Good(T) == \E n \in T : \A k \in T : k <= n
           N == {c \in Nat : \A T \in SUBSET S : T # {} /\ Cardinality(T) = c => Good(T)}
<1>0. \A T \in SUBSET S : IsFiniteSet(T) /\ Cardinality(T) \in Nat /\ (Cardinality(T) = 0 <=> T = {})
  BY FS_Subset, FS_CardinalityType, FS_EmptySet
<1>1. 0 \in N
  BY <1>0
<1>2. ASSUME NEW c \in N PROVE c + 1 \in N
  <2> SUFFICES ASSUME NEW T \in SUBSET S, T # {}, Cardinality(T) = c + 1 PROVE Good(T)
    OBVIOUS
  <2>1. PICK x \in T : TRUE
    OBVIOUS
  <2>2. Cardinality(T \ {x}) = c /\ T \ {x} \in SUBSET S
    <3>1. Cardinality(T \ {x}) = Cardinality(T) - 1
      BY <1>0, <2>1, FS_RemoveElement
    <3> QED BY <3>1
  <2>3. CASE T \ {x} = {}
    <3>1. \A k \in T : k = x
      BY <2>3
    <3> QED BY <2>1, <3>1
  <2>4. CASE T \ {x} # {}
    <3>1. PICK n \in T \ {x} : \A k \in T \ {x} : k <= n
      BY <2>2, <2>4
    <3>2. CASE x <= n
      BY <3>1, <3>2
    <3>3. CASE ~(x <= n)
      <4>1. \A k \in T : k <= x
        BY <3>1, <3>3
      <4> QED BY <2>1, <4>1
    <3> QED BY <3>2, <3>3
  <2> QED BY <2>3, <2>4
<1>3. N = Nat
  <2> HIDE DEF N
  <2>1. N \in SUBSET Nat
    BY DEF N
  <2> QED BY <1>1, <1>2, <2>1, SetInduction
<1>4. S \in SUBSET S /\ Cardinality(S) \in N
  BY <1>0, <1>3
<1> QED BY <1>4

LEMMA SmallestExists ==
  ASSUME NEW S \in SUBSET Nat, S # {}
  PROVE  \E n \in S : \A k \in S : n <= k
<1>1. PICK n \in S : \A k \in S : ~ (<<k, n>> \in OpToRel(<, Nat))
  BY NatLessThanWellFounded, WFMin, Zenon
<1>2. ASSUME NEW k \in S PROVE n <= k
  <2>1. k < n => <<k, n>> \in OpToRel(<, Nat)
    BY DEF OpToRel
  <2>2. ~ (k < n)
    BY <1>1, <2>1, Zenon
  <2> QED BY <2>2
<1> QED BY <1>2
(* A sum over part of a finite set: one step of the fold.                    *)
SumsOver(g, f, T) ==
  g = [s \in T |-> IF s = {} THEN 0 ELSE f[CHOOSE x \in s : TRUE] + g[s \ {CHOOSE x \in s : TRUE}]]

LEMMA SumIsDefined ==
  ASSUME NEW f, NEW S, IsFiniteSet(S), NEW n \in Nat
  PROVE  \E g : SumsOver(g, f, {s \in SUBSET S : Cardinality(s) <= n})
<1> DEFINE T(k) == {s \in SUBSET S : Cardinality(s) <= k}
           N == {k \in Nat : \E g : SumsOver(g, f, T(k))}
<1>0. \A s \in SUBSET S : IsFiniteSet(s) /\ Cardinality(s) \in Nat /\ (Cardinality(s) = 0 <=> s = {})
  BY FS_Subset, FS_CardinalityType, FS_EmptySet
<1>a. ASSUME NEW s \in SUBSET S, s # {}
      PROVE  LET x == CHOOSE y \in s : TRUE
             IN s \ {x} \in SUBSET S /\ Cardinality(s \ {x}) = Cardinality(s) - 1
  BY <1>0, <1>a, FS_RemoveElement
<1>1. 0 \in N
  <2> DEFINE g == [s \in T(0) |-> 0]
  <2>1. \A s \in T(0) : s = {}
    BY <1>0
  <2>2. SumsOver(g, f, T(0))
    BY <2>1 DEF SumsOver
  <2> QED BY <2>2
<1>2. ASSUME NEW k \in N PROVE k + 1 \in N
  <2>1. PICK g : SumsOver(g, f, T(k))
    OBVIOUS
  <2> DEFINE step(h, s) == IF s = {} THEN 0 ELSE f[CHOOSE x \in s : TRUE] + h[s \ {CHOOSE x \in s : TRUE}]
             h == [s \in T(k + 1) |-> IF s \in T(k) THEN g[s] ELSE step(g, s)]
  <2>2. \A s \in T(k) : g[s] = step(g, s)
    BY <2>1 DEF SumsOver
  <2>3. \A s \in T(k + 1) : s # {} => s \ {CHOOSE x \in s : TRUE} \in T(k)
    BY <1>0, <1>a
  <2>4. T(k) \subseteq T(k + 1)
    BY <1>0
  <2>5. \A s \in T(k) : h[s] = g[s]
    BY <2>4
  <2>6. \A s \in T(k + 1) : h[s] = step(g, s)
    BY <2>2
  <2>7. \A s \in T(k + 1) : step(h, s) = step(g, s)
    <3> HIDE DEF h, T
    <3> QED BY <2>3, <2>5
  <2>8. h = [s \in T(k + 1) |-> step(h, s)]
    <3>1. h = [s \in T(k + 1) |-> h[s]]
      OBVIOUS
    <3> HIDE DEF h, T, step
    <3> QED BY <2>6, <2>7, <3>1
  <2>9. SumsOver(h, f, T(k + 1))
    <3> HIDE DEF h, T
    <3> QED BY <2>8 DEF SumsOver
  <2>10. k + 1 \in Nat
    OBVIOUS
  <2> HIDE DEF h, T
  <2> QED BY <2>9, <2>10
<1>3. N = Nat
  <2> HIDE DEF N
  <2>1. N \in SUBSET Nat
    BY DEF N
  <2> QED BY <1>1, <1>2, <2>1, SetInduction
<1> QED BY <1>3

(* The sum of natural numbers is one.                                        *)
LEMMA SumIsNatural ==
  ASSUME NEW f, NEW S, IsFiniteSet(S), \A x \in S : f[x] \in Nat
  PROVE  FoldFunctionOnSet(+, 0, f, S) \in Nat
<1> DEFINE g == CHOOSE h : SumsOver(h, f, SUBSET S)
<1>0. \A s \in SUBSET S : IsFiniteSet(s) /\ Cardinality(s) \in Nat /\ Cardinality(s) <= Cardinality(S)
  BY FS_Subset, FS_CardinalityType
<1>1. FoldFunctionOnSet(+, 0, f, S) = g[S]
  BY DEF FoldFunctionOnSet, MapThenFoldSet, SumsOver
<1>2. SumsOver(g, f, SUBSET S)
  <2>1. {s \in SUBSET S : Cardinality(s) <= Cardinality(S)} = SUBSET S
    BY <1>0
  <2>2. Cardinality(S) \in Nat
    BY <1>0
  <2>3. \E h : SumsOver(h, f, {s \in SUBSET S : Cardinality(s) <= Cardinality(S)})
    <3> HIDE DEF g
    <3>1. \A n \in Nat : \E h : SumsOver(h, f, {s \in SUBSET S : Cardinality(s) <= n})
      BY SumIsDefined
    <3> QED BY <2>2, <3>1, Zenon
  <2> QED BY <2>1, <2>3
<1> HIDE DEF g
<1>3. \A s \in SUBSET S : g[s] = IF s = {} THEN 0 ELSE f[CHOOSE x \in s : TRUE] + g[s \ {CHOOSE x \in s : TRUE}]
  BY <1>2 DEF SumsOver
<1> DEFINE N == {k \in Nat : \A s \in SUBSET S : Cardinality(s) = k => g[s] \in Nat}
<1>4. 0 \in N
  <2>1. \A s \in SUBSET S : Cardinality(s) = 0 => s = {}
    BY <1>0, FS_EmptySet
  <2>2. {} \in SUBSET S /\ g[{}] = 0
    BY <1>3
  <2> QED BY <2>1, <2>2
<1>5. ASSUME NEW k \in N PROVE k + 1 \in N
  <2> SUFFICES ASSUME NEW s \in SUBSET S, Cardinality(s) = k + 1 PROVE g[s] \in Nat
    OBVIOUS
  <2> DEFINE x == CHOOSE y \in s : TRUE
  <2>1. s # {} /\ x \in s
    <3>1. s # {}
      <4>1. Cardinality({}) = 0 /\ k + 1 # 0
        BY FS_EmptySet
      <4> QED BY <4>1
    <3> QED BY <3>1
  <2>2. s \ {x} \in SUBSET S /\ Cardinality(s \ {x}) = Cardinality(s) - 1
    BY <1>0, <2>1, FS_RemoveElement
  <2>3. g[s \ {x}] \in Nat
    BY <2>2
  <2>4. g[s] = f[x] + g[s \ {x}]
    BY <1>3, <2>1
  <2>5. f[x] \in Nat
    BY <2>1
  <2> HIDE DEF x
  <2> QED BY <2>3, <2>4, <2>5
<1>6. N = Nat
  <2> HIDE DEF N
  <2>1. N \in SUBSET Nat
    BY DEF N
  <2> QED BY <1>4, <1>5, <2>1, SetInduction
<1>7. S \in SUBSET S /\ Cardinality(S) \in N
  BY <1>0, <1>6
<1> QED BY <1>1, <1>7

-----------------------------------------------------------------------------
(* A list without one member, and with one more.                            *)

LEMMA Removed ==
  ASSUME NEW S, NEW s \in Seq(S), NEW i \in DOMAIN s
  PROVE  /\ RemoveAt(s, i) \in Seq(S) /\ Len(RemoveAt(s, i)) = Len(s) - 1
         /\ \A k \in DOMAIN RemoveAt(s, i) :
              /\ (IF k < i THEN k ELSE k + 1) \in DOMAIN s \ {i}
              /\ RemoveAt(s, i)[k] = s[IF k < i THEN k ELSE k + 1]
         /\ \A j \in DOMAIN s \ {i} : \E k \in DOMAIN RemoveAt(s, i) : j = IF k < i THEN k ELSE k + 1
<1> DEFINE a == SubSeq(s, 1, i - 1)
           b == SubSeq(s, i + 1, Len(s))
<1>1. Len(s) \in Nat /\ DOMAIN s = 1..Len(s) /\ i \in 1..Len(s) /\ i - 1 \in Int /\ i + 1 \in Int /\ Len(s) \in Int
      /\ \A k \in 1..Len(s) : s[k] \in S
  BY LenProperties
<1>2. /\ a \in Seq(S) /\ Len(a) = i - 1
      /\ \A k \in 1..(i - 1) : a[k] = s[k]
  <2>1. \A k \in 1..(i - 1) : s[k] \in S
    BY <1>1
  <2>2. /\ a \in Seq(S) /\ Len(a) = (IF 1 <= i - 1 THEN i - 1 - 1 + 1 ELSE 0)
        /\ \A k \in 1..(i - 1 - 1 + 1) : a[k] = s[1 + k - 1]
    BY <1>1, <2>1, SubSeqProperties
  <2> HIDE DEF a
  <2> QED BY <1>1, <2>2
<1>3. /\ b \in Seq(S) /\ Len(b) = Len(s) - i
      /\ \A k \in 1..(Len(s) - i) : b[k] = s[i + k]
  <2>1. \A k \in (i + 1)..Len(s) : s[k] \in S
    BY <1>1
  <2>2. /\ b \in Seq(S) /\ Len(b) = (IF i + 1 <= Len(s) THEN Len(s) - (i + 1) + 1 ELSE 0)
        /\ \A k \in 1..(Len(s) - (i + 1) + 1) : b[k] = s[i + 1 + k - 1]
    BY <1>1, <2>1, SubSeqProperties
  <2> HIDE DEF b
  <2>3. Len(b) = Len(s) - i
    <3>1. CASE i + 1 <= Len(s)
      <4>1. Len(b) = Len(s) - (i + 1) + 1
        BY <2>2, <3>1
      <4> QED BY <1>1, <4>1
    <3>2. CASE ~(i + 1 <= Len(s))
      <4>1. Len(b) = 0 /\ i = Len(s)
        BY <1>1, <2>2, <3>2
      <4> QED BY <1>1, <4>1
    <3> QED BY <3>1, <3>2
  <2>4. ASSUME NEW k \in 1..(Len(s) - i) PROVE b[k] = s[i + k]
    <3>1. k \in 1..(Len(s) - (i + 1) + 1) /\ i + 1 + k - 1 = i + k
      BY <1>1
    <3> QED BY <2>2, <3>1
  <2> QED BY <2>2, <2>3, <2>4
<1>4. RemoveAt(s, i) = a \o b
  BY DEF RemoveAt
<1> HIDE DEF a, b
<1>5. /\ RemoveAt(s, i) \in Seq(S) /\ Len(RemoveAt(s, i)) = Len(s) - 1
      /\ DOMAIN RemoveAt(s, i) = 1..(Len(s) - 1)
      /\ \A k \in 1..(Len(s) - 1) : RemoveAt(s, i)[k] = IF k <= i - 1 THEN a[k] ELSE b[k - (i - 1)]
  <2>1. /\ a \o b \in Seq(S) /\ Len(a \o b) = Len(a) + Len(b)
        /\ \A k \in 1..(Len(a) + Len(b)) : (a \o b)[k] = IF k <= Len(a) THEN a[k] ELSE b[k - Len(a)]
    BY <1>2, <1>3, ConcatProperties
  <2>2. Len(a) + Len(b) = Len(s) - 1
    BY <1>1, <1>2, <1>3
  <2>3. DOMAIN RemoveAt(s, i) = 1..(Len(s) - 1)
    BY <1>4, <2>1, <2>2, LenProperties
  <2>4. ASSUME NEW k \in 1..(Len(s) - 1) PROVE RemoveAt(s, i)[k] = IF k <= i - 1 THEN a[k] ELSE b[k - (i - 1)]
    BY <1>2, <1>4, <2>1, <2>2
  <2> QED BY <1>4, <2>1, <2>2, <2>3, <2>4
<1>6. ASSUME NEW k \in 1..(Len(s) - 1)
      PROVE  /\ (IF k < i THEN k ELSE k + 1) \in DOMAIN s \ {i}
             /\ RemoveAt(s, i)[k] = s[IF k < i THEN k ELSE k + 1]
  <2>1. CASE k < i
    <3>1. k \in 1..(i - 1) /\ k <= i - 1
      BY <1>1, <2>1
    <3> QED BY <1>1, <1>2, <1>5, <2>1, <3>1
  <2>2. CASE ~(k < i)
    <3>1. k - (i - 1) \in 1..(Len(s) - i) /\ ~(k <= i - 1) /\ i + (k - (i - 1)) = k + 1
      BY <1>1, <2>2
    <3> QED BY <1>1, <1>3, <1>5, <2>2, <3>1
  <2> QED BY <2>1, <2>2
<1>7. ASSUME NEW j \in DOMAIN s \ {i} PROVE \E k \in 1..(Len(s) - 1) : j = IF k < i THEN k ELSE k + 1
  <2>1. CASE j < i
    <3>1. j \in 1..(Len(s) - 1)
      BY <1>1, <2>1
    <3> QED BY <2>1, <3>1
  <2>2. CASE ~(j < i)
    <3>1. j - 1 \in 1..(Len(s) - 1) /\ ~(j - 1 < i) /\ j = (j - 1) + 1
      BY <1>1, <2>2
    <3> QED BY <3>1
  <2> QED BY <2>1, <2>2
<1> QED BY <1>5, <1>6, <1>7

LEMMA Appended ==
  ASSUME NEW S, NEW s \in Seq(S), NEW e \in S
  PROVE  /\ Append(s, e) \in Seq(S) /\ Len(Append(s, e)) = Len(s) + 1 /\ Len(s) \in Nat
         /\ DOMAIN Append(s, e) = DOMAIN s \cup {Len(s) + 1} /\ Len(s) + 1 \notin DOMAIN s
         /\ Append(s, e)[Len(s) + 1] = e /\ \A i \in DOMAIN s : Append(s, e)[i] = s[i]
<1>1. Len(s) \in Nat /\ DOMAIN s = 1..Len(s)
  BY LenProperties
<1>2. /\ Append(s, e) \in Seq(S) /\ Len(Append(s, e)) = Len(s) + 1 /\ Append(s, e)[Len(s) + 1] = e
      /\ \A i \in 1..Len(s) : Append(s, e)[i] = s[i]
  BY AppendProperties
<1>3. DOMAIN Append(s, e) = 1..(Len(s) + 1)
  BY <1>2, LenProperties
<1>4. 1..(Len(s) + 1) = 1..Len(s) \cup {Len(s) + 1} /\ Len(s) + 1 \notin 1..Len(s)
  BY <1>1
<1> QED BY <1>1, <1>2, <1>3, <1>4
=============================================================================

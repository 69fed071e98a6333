--------------------------- MODULE FlattenSeqLemmas ---------------------------
(***************************************************************************)
(* What FlattenSeq of the community module SequencesExt computes: for a    *)
(* sequence of sequences over T it is a sequence over T whose elements are *)
(* exactly those of its parts.  The converter's write_to_file is three     *)
(* nested FlattenSeqs, so these facts are what its type and its output     *)
(* rest on.                                                                *)
(*                                                                         *)
(* FlattenSeq is a LET-defined recursive function over 1..Len(seqs).  Its  *)
(* defining equation only holds once some function satisfies it, and the   *)
(* facts about its values need induction over the index.  The induction    *)
(* theorems of NaturalsInduction take the predicate as an operator         *)
(* parameter, which the provers cannot instantiate; instead both proofs    *)
(* take a least counterexample, from WFMin applied to the well-founded     *)
(* order < on Nat, a theorem about sets and relations only.                *)
(***************************************************************************)
EXTENDS SequencesExt, WellFoundedInduction, TLAPS

\* A nonempty set of naturals has a least element.
LEMMA LeastNat ==
    ASSUME NEW S \in SUBSET Nat, S # {}
    PROVE  \E m \in S : \A k \in S : m <= k
<1>1. \E x \in S : \A y \in S : ~(<<y, x>> \in OpToRel(<, Nat))
  BY NatLessThanWellFounded, WFMin
<1>2. PICK x \in S : \A y \in S : ~(<<y, x>> \in OpToRel(<, Nat))
  BY <1>1, Zenon
<1>3. ASSUME NEW y \in S PROVE x <= y
  <2>1. ~(y < x)
    BY <1>2, Zenon DEF OpToRel
  <2>. QED  BY <2>1
<1>. QED  BY <1>3

\* g is the table of prefixes FlattenSeq builds on 1..m.
IsFlat(ss, g, m) ==
    g = [i \in 1..m |-> IF i = 1 THEN ss[i] ELSE g[i-1] \o ss[i]]

\* For every length there is such a table.
LEMMA FlatExists ==
    ASSUME NEW ss, NEW n \in Nat \ {0}
    PROVE  \E g : IsFlat(ss, g, n)
<1>. DEFINE Bad == {m \in 1..n : ~\E g : IsFlat(ss, g, m)}
<1>. SUFFICES Bad = {}
  OBVIOUS
<1>. SUFFICES ASSUME Bad # {} PROVE FALSE
  OBVIOUS
<1>0. Bad \in SUBSET Nat
  OBVIOUS
<1>1. PICK m \in Bad : \A k \in Bad : m <= k
  BY <1>0, LeastNat
<1>2. CASE m = 1
  <2>. DEFINE g == [i \in 1..1 |-> ss[1]]
  <2>1. IsFlat(ss, g, 1)
    BY DEF IsFlat
  <2>. QED  BY <1>1, <1>2, <2>1
<1>3. CASE m > 1
  <2>1. m - 1 \notin Bad /\ m - 1 \in 1..n
    BY <1>1, <1>3
  <2>2. PICK h : IsFlat(ss, h, m - 1)
    BY <2>1
  <2>. DEFINE g == [i \in 1..m |-> IF i < m THEN h[i] ELSE h[m-1] \o ss[m]]
  <2>3. IsFlat(ss, g, m)
    <3>1. m \in Nat /\ m - 1 \in Nat
      BY <1>1, <1>3
    <3>2. \A i \in 1..m : g[i] = IF i = 1 THEN ss[i] ELSE g[i-1] \o ss[i]
      <4>. SUFFICES ASSUME NEW i \in 1..m
                    PROVE  g[i] = IF i = 1 THEN ss[i] ELSE g[i-1] \o ss[i]
        OBVIOUS
      <4>1. \A j \in 1..m-1 : h[j] = IF j = 1 THEN ss[j] ELSE h[j-1] \o ss[j]
        BY <2>2 DEF IsFlat
      <4>2. CASE i < m
        BY <4>1, <4>2, <3>1, <1>3
      <4>3. CASE i = m
        BY <4>3, <3>1, <1>3
      <4>. QED  BY <4>2, <4>3, <3>1
    <3>. QED  BY <3>2 DEF IsFlat
  <2>. QED  BY <1>1, <2>3
<1>. QED  BY <1>1, <1>2, <1>3

\* The elements of the concatenation of two sequences.
LEMMA RangeConcat ==
    ASSUME NEW T, NEW a \in Seq(T), NEW b \in Seq(T)
    PROVE  /\ a \o b \in Seq(T)
           /\ Range(a \o b) = Range(a) \cup Range(b)
<1>1. a \o b \in Seq(T)
  OBVIOUS
<1>2. Range(a \o b) \subseteq Range(a) \cup Range(b)
  BY DEF Range
<1>3. Range(a) \subseteq Range(a \o b)
  BY DEF Range
<1>4. Range(b) \subseteq Range(a \o b)
  <2>. SUFFICES ASSUME NEW j \in 1..Len(b) PROVE b[j] \in Range(a \o b)
    BY DEF Range
  <2>1. (a \o b)[Len(a) + j] = b[j] /\ Len(a) + j \in DOMAIN (a \o b)
    OBVIOUS
  <2>. QED  BY <2>1 DEF Range
<1>. QED  BY <1>1, <1>2, <1>3, <1>4

\* Every prefix in the table is a sequence over T holding the elements of
\* the parts it covers.
LEMMA FlatPrefixes ==
    ASSUME NEW T, NEW ss \in Seq(Seq(T)), NEW g, IsFlat(ss, g, Len(ss))
    PROVE  \A i \in 1..Len(ss) : /\ g[i] \in Seq(T)
                           /\ Range(g[i]) = UNION {Range(ss[k]) : k \in 1..i}
<1>. DEFINE n == Len(ss)
            P(i) == /\ g[i] \in Seq(T)
                    /\ Range(g[i]) = UNION {Range(ss[k]) : k \in 1..i}
            Bad == {i \in 1..n : ~P(i)}
<1>. SUFFICES ASSUME Bad # {} PROVE FALSE
  OBVIOUS
<1>0. Bad \in SUBSET Nat /\ n \in Nat
  OBVIOUS
<1>1. PICK m \in Bad : \A k \in Bad : m <= k
  BY <1>0, LeastNat
<1>4. m \in 1..n /\ ~P(m)
  BY <1>1
<1>2. CASE m = 1
  <2>1. g[1] = ss[1] /\ ss[1] \in Seq(T)
    BY <1>0, <1>2, <1>4 DEF IsFlat
  <2>2. UNION {Range(ss[k]) : k \in 1..1} = Range(ss[1])
    OBVIOUS
  <2>3. P(1)
    BY <2>1, <2>2
  <2>. QED  BY <1>4, <1>2, <2>3
<1>3. CASE m > 1
  <2>1. m - 1 \in 1..n /\ m - 1 \notin Bad
    <3>1. m - 1 \in 1..n /\ ~(m <= m - 1)
      BY <1>0, <1>3, <1>4
    <3>. QED  BY <3>1, <1>1
  <2>2. P(m - 1)
    BY <2>1
  <2>3. g[m] = g[m-1] \o ss[m]
    <3>1. g[m] = IF m = 1 THEN ss[m] ELSE g[m-1] \o ss[m]
      BY <1>4 DEF IsFlat
    <3>2. m # 1
      BY <1>3
    <3>. QED  BY <3>1, <3>2, Zenon
  <2>4. ss[m] \in Seq(T)
    BY <1>0, <1>4
  <2>5. g[m] \in Seq(T) /\ Range(g[m]) = Range(g[m-1]) \cup Range(ss[m])
    BY <2>2, <2>3, <2>4, RangeConcat
  <2>6. UNION {Range(ss[k]) : k \in 1..m}
          = (UNION {Range(ss[k]) : k \in 1..m-1}) \cup Range(ss[m])
    <3>1. 1..m = (1..m-1) \cup {m}
      BY <1>0, <1>3, <1>4
    <3>. QED  BY <3>1
  <2>7. P(m)
    BY <2>2, <2>5, <2>6
  <2>. QED  BY <1>4, <2>7
<1>. QED  BY <1>1, <1>2, <1>3

\* FlattenSeq of a sequence of sequences over T is a sequence over T, and
\* its elements are those of its parts.
LEMMA FlattenSeqType ==
    ASSUME NEW T, NEW ss \in Seq(Seq(T))
    PROVE  /\ FlattenSeq(ss) \in Seq(T)
           /\ Range(FlattenSeq(ss)) = UNION {Range(s) : s \in Range(ss)}
<1>. HIDE DEF Range
<1>0. UNION {Range(ss[k]) : k \in DOMAIN ss} = UNION {Range(s) : s \in Range(ss)}
  <2>1. Range(ss) = {ss[k] : k \in DOMAIN ss}
    BY DEF Range
  <2>2. {Range(s) : s \in Range(ss)} = {Range(ss[k]) : k \in DOMAIN ss}
    BY <2>1, Zenon
  <2>. QED  BY <2>2
<1>1. CASE Len(ss) = 0
  <2>1. ss = <<>> /\ DOMAIN ss = {}
    BY <1>1
  <2>. QED  BY <1>0, <1>1, <2>1 DEF FlattenSeq, Range
<1>2. CASE Len(ss) > 0
  <2>1. \E g : IsFlat(ss, g, Len(ss))
    <3>1. Len(ss) \in Nat \ {0}
      BY <1>2
    <3>. QED  BY <3>1, FlatExists
  <2>. DEFINE fl == CHOOSE f : IsFlat(ss, f, Len(ss))
  <2>2. IsFlat(ss, fl, Len(ss))
    BY <2>1
  <2>21. FlattenSeq(ss) = fl[Len(ss)]
    BY <1>2 DEF FlattenSeq, IsFlat
  <2>. HIDE DEF fl
  <2>3. Len(ss) \in 1..Len(ss)
    BY <1>2
  <2>4. /\ fl[Len(ss)] \in Seq(T)
        /\ Range(fl[Len(ss)]) = UNION {Range(ss[k]) : k \in 1..Len(ss)}
    <3>1. \A i \in 1..Len(ss) :
            /\ fl[i] \in Seq(T)
            /\ Range(fl[i]) = UNION {Range(ss[k]) : k \in 1..i}
      BY <2>2, FlatPrefixes
    <3>. QED  BY <3>1, <2>3
  <2>5. DOMAIN ss = 1..Len(ss)
    OBVIOUS
  <2>. QED  BY <1>0, <2>21, <2>4, <2>5
<1>. QED  BY <1>1, <1>2

=============================================================================

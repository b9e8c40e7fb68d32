---------------------------- MODULE ToolTextProofs ---------------------------
(***************************************************************************)
(* That what a built-in tool wrote is cut as a whole, proved for every set *)
(* of secrets, every cap and closing line, texts of any length and every   *)
(* way to divide their bytes into pieces.                                  *)
(*                                                                         *)
(* Reading bytes, cutting values and keeping a start and an end each go on *)
(* with what follows as they would have gone on with the whole: SettledOn, *)
(* CutOn and PushOn.  So what a piece leaves is a function of all that     *)
(* arrived, which is the invariant, and Clean and SentOf, which know of no *)
(* pieces, say of all that arrived what is sent at the end.                *)
(***************************************************************************)
EXTENDS ToolText, SequenceTheorems, WellFoundedInduction, TLAPS

-----------------------------------------------------------------------------
(* Numbers.                                                                *)

\* Numbers have a least one among them.
LEMMA LeastNumber ==
  ASSUME NEW T \in SUBSET Nat, T # {}
  PROVE  \E n \in T : \A m \in T : n <= m
<1>1. IsWellFoundedOn(OpToRel(<,Nat), Nat)
  BY NatLessThanWellFounded
<1>2. PICK n \in T : \A y \in T : ~(<<y, n>> \in OpToRel(<,Nat))
  BY <1>1, WFMin
<1>3. \A y \in T : ~(y < n)
  BY <1>2 DEF OpToRel
<1> QED
  BY <1>3

\* The least of some numbers is one of them.
LEMMA MinIs ==
  ASSUME NEW T \in SUBSET Nat, T # {}
  PROVE  Min(T) \in T /\ \A m \in T : Min(T) <= m
BY LeastNumber DEF Min

\* So have the numbers up to one a greatest.
LEMMA MaxIs ==
  ASSUME NEW n \in Nat, NEW T \in SUBSET (0..n), T # {}
  PROVE  Max(T) \in T /\ \A m \in T : m <= Max(T)
<1> DEFINE below == {n - m : m \in T}
<1>1. below \in SUBSET Nat /\ below # {}
  <2>1. \A m \in 0..n : n - m \in Nat
    OBVIOUS
  <2>2. \A m \in T : n - m \in Nat
    BY <2>1
  <2> QED
    BY <2>2
<1>2. PICK d \in below : \A e \in below : d <= e
  <2> HIDE DEF below
  <2> QED BY <1>1, LeastNumber
<1>3. PICK m \in T : d = n - m
  OBVIOUS
<1>4. \A k \in T : m >= k
  <2> TAKE k \in T
  <2>1. n - k \in below
    OBVIOUS
  <2>2. d <= n - k
    BY <1>2, <2>1
  <2> QED
    BY <1>3, <2>2
<1>5. Max(T) \in T /\ \A k \in T : Max(T) >= k
  BY <1>4 DEF Max
<1>6. \A k \in T : k \in Int
  OBVIOUS
<1> QED
  BY <1>5, <1>6

\* What holds of zero and of each number after one that it holds of, holds of
\* all of them: induction over a set of numbers.
LEMMA Inductive ==
  ASSUME NEW n \in Nat, NEW T, 0 \in T, \A i \in 1..n : i - 1 \in T => i \in T
  PROVE  0..n \subseteq T
<1> DEFINE out == {i \in 0..n : i \notin T}
<1> SUFFICES ASSUME out # {} PROVE FALSE
  OBVIOUS
<1>0. out \in SUBSET Nat
  OBVIOUS
<1>1. PICK i \in out : \A m \in out : i <= m
  <2> HIDE DEF out
  <2> QED
    BY <1>0, LeastNumber
<1>2. i \in 1..n /\ i - 1 \in 0..n
  BY <1>1
<1>3. i - 1 \notin out
  BY <1>1, <1>2
<1> QED
  BY <1>1, <1>2, <1>3

-----------------------------------------------------------------------------
(* Parts of sequences.                                                     *)

\* What a part of a sequence holds.
LEMMA PartIs ==
  ASSUME NEW S, NEW s \in Seq(S), NEW m \in 1..Len(s) + 1, NEW n \in m - 1..Len(s)
  PROVE  /\ SubSeq(s, m, n) \in Seq(S)
         /\ Len(SubSeq(s, m, n)) = n - m + 1
         /\ \A i \in 1..n - m + 1 : SubSeq(s, m, n)[i] = s[m + i - 1]
<1>1. Len(s) \in Nat /\ m \in Int /\ n \in Int
  OBVIOUS
<1>2. \A i \in m..n : s[i] \in S
  BY <1>1
<1>3. /\ SubSeq(s, m, n) \in Seq(S)
      /\ Len(SubSeq(s, m, n)) = IF m <= n THEN n - m + 1 ELSE 0
      /\ \A i \in 1..n - m + 1 : SubSeq(s, m, n)[i] = s[m + i - 1]
  BY ONLY <1>1, <1>2, SubSeqProperties
<1>4. (IF m <= n THEN n - m + 1 ELSE 0) = n - m + 1
  BY <1>1
<1> QED
  BY <1>3, <1>4

\* A sequence is its first n and the others.
LEMMA SplitAt ==
  ASSUME NEW S, NEW s \in Seq(S), NEW n \in 0..Len(s)
  PROVE  LET begin == SubSeq(s, 1, n)
             rest == SubSeq(s, n + 1, Len(s))
         IN  /\ begin \in Seq(S) /\ rest \in Seq(S)
             /\ Len(begin) = n /\ Len(rest) = Len(s) - n
             /\ \A i \in 1..n : begin[i] = s[i]
             /\ \A i \in 1..Len(s) - n : rest[i] = s[n + i]
             /\ s = begin \o rest
<1> DEFINE begin == SubSeq(s, 1, n)
           rest == SubSeq(s, n + 1, Len(s))
<1>1. Len(s) \in Nat /\ n \in Nat /\ n <= Len(s)
  OBVIOUS
<1>2. begin \in Seq(S) /\ Len(begin) = n - 1 + 1 /\ \A i \in 1..n - 1 + 1 : begin[i] = s[1 + i - 1]
  <2>1. 1 \in 1..Len(s) + 1 /\ n \in 1 - 1..Len(s)
    BY <1>1
  <2> QED
    BY ONLY <2>1, s \in Seq(S), PartIs
<1>3. /\ rest \in Seq(S) /\ Len(rest) = Len(s) - (n + 1) + 1
      /\ \A i \in 1..Len(s) - (n + 1) + 1 : rest[i] = s[n + 1 + i - 1]
  <2>1. n + 1 \in 1..Len(s) + 1 /\ Len(s) \in n + 1 - 1..Len(s)
    BY <1>1
  <2> QED
    BY ONLY <2>1, s \in Seq(S), PartIs
<1> HIDE DEF begin, rest
<1>4. Len(begin) = n /\ \A i \in 1..n : begin[i] = s[i]
  BY <1>1, <1>2
<1>5. Len(rest) = Len(s) - n /\ \A i \in 1..Len(s) - n : rest[i] = s[n + i]
  BY <1>1, <1>3
<1>6. /\ begin \o rest \in Seq(S) /\ Len(begin \o rest) = Len(begin) + Len(rest)
      /\ \A i \in 1..Len(begin) + Len(rest) :
           (begin \o rest)[i] = IF i <= Len(begin) THEN begin[i] ELSE rest[i - Len(begin)]
  BY <1>2, <1>3, ConcatProperties
<1> DEFINE both == begin \o rest
<1> HIDE DEF both
<1>7. both \in Seq(S) /\ Len(both) = Len(s)
  BY <1>1, <1>4, <1>5, <1>6 DEF both
<1>8. \A i \in 1..Len(both) : both[i] = s[i]
  <2> SUFFICES ASSUME NEW i \in 1..Len(s) PROVE both[i] = s[i]
    BY <1>7
  <2>1. CASE i <= n
    BY <1>1, <1>4, <1>5, <1>6, <2>1 DEF both
  <2>2. CASE i > n
    <3>1. i - n \in 1..Len(s) - n /\ n + (i - n) = i
      BY <1>1, <2>2
    <3>2. both[i] = rest[i - n]
      BY <1>1, <1>4, <1>5, <1>6, <2>2 DEF both
    <3> QED
      BY <1>5, <3>1, <3>2
  <2> QED
    BY <1>1, <2>1, <2>2
<1>9. both = s
  BY <1>7, <1>8, SeqEqual
<1> QED
  BY <1>2, <1>3, <1>4, <1>5, <1>9 DEF begin, rest, both

\* The first of one and then another are of the one, or the one and some.
LEMMA FirstOfBoth ==
  ASSUME NEW S, NEW a \in Seq(S), NEW b \in Seq(S), NEW n \in 0..Len(a) + Len(b)
  PROVE  /\ n <= Len(a) => SubSeq(a \o b, 1, n) = SubSeq(a, 1, n)
         /\ n >= Len(a) => SubSeq(a \o b, 1, n) = a \o SubSeq(b, 1, n - Len(a))
<1> DEFINE both == a \o b
<1>1. Len(a) \in Nat /\ Len(b) \in Nat /\ n \in Nat
  OBVIOUS
<1>2. /\ both \in Seq(S) /\ Len(both) = Len(a) + Len(b)
      /\ \A i \in 1..Len(a) + Len(b) : both[i] = IF i <= Len(a) THEN a[i] ELSE b[i - Len(a)]
  BY ConcatProperties
<1> HIDE DEF both
<1>3. /\ SubSeq(both, 1, n) \in Seq(S) /\ Len(SubSeq(both, 1, n)) = n
      /\ \A i \in 1..n : SubSeq(both, 1, n)[i] = both[i]
  <2>1. n \in 0..Len(both)
    BY <1>1, <1>2
  <2> QED
    BY <1>2, <2>1, SplitAt
<1>4. ASSUME n <= Len(a) PROVE SubSeq(both, 1, n) = SubSeq(a, 1, n)
  <2>1. n \in 0..Len(a)
    BY <1>1, <1>4
  <2>2. /\ SubSeq(a, 1, n) \in Seq(S) /\ Len(SubSeq(a, 1, n)) = n
        /\ \A i \in 1..n : SubSeq(a, 1, n)[i] = a[i]
    BY <2>1, SplitAt
  <2>3. \A i \in 1..n : both[i] = a[i]
    BY <1>1, <1>2, <1>4
  <2> QED
    BY <1>3, <2>2, <2>3, SeqEqual
<1>5. ASSUME n >= Len(a) PROVE SubSeq(both, 1, n) = a \o SubSeq(b, 1, n - Len(a))
  <2> DEFINE k == n - Len(a)
             some == SubSeq(b, 1, k)
  <2>1. k \in 0..Len(b) /\ n = Len(a) + k
    BY <1>1, <1>5
  <2> HIDE DEF k
  <2>2. some \in Seq(S) /\ Len(some) = k /\ \A i \in 1..k : some[i] = b[i]
    BY <2>1, SplitAt
  <2> HIDE DEF some
  <2>3. /\ a \o some \in Seq(S) /\ Len(a \o some) = n
        /\ \A i \in 1..n : (a \o some)[i] = IF i <= Len(a) THEN a[i] ELSE some[i - Len(a)]
    BY <2>1, <2>2, ConcatProperties
  <2>4. \A i \in 1..n : (a \o some)[i] = both[i]
    <3> SUFFICES ASSUME NEW i \in 1..n PROVE (a \o some)[i] = both[i]
      OBVIOUS
    <3>1. i \in 1..Len(a) + Len(b)
      BY <1>1, <2>1
    <3>2. CASE i <= Len(a)
      BY <1>2, <2>3, <3>1, <3>2
    <3>3. CASE i > Len(a)
      <4>1. i - Len(a) \in 1..k
        BY <1>1, <2>1, <3>3
      <4>2. (a \o some)[i] = some[i - Len(a)] /\ both[i] = b[i - Len(a)]
        BY <1>1, <1>2, <2>3, <3>1, <3>3
      <4> QED
        BY <2>2, <4>1, <4>2
    <3>4. i <= Len(a) \/ i > Len(a)
      BY <1>1
    <3> QED
      BY <3>2, <3>3, <3>4
  <2>5. SubSeq(both, 1, n) = a \o some
    BY <1>3, <2>3, <2>4, SeqEqual
  <2> QED
    BY <2>5 DEF some, k
<1> QED
  BY <1>4, <1>5 DEF both

\* The last of one and then another are of the other, or some and the other.
LEMMA LastOfBoth ==
  ASSUME NEW S, NEW a \in Seq(S), NEW b \in Seq(S), NEW n \in 0..Len(a) + Len(b)
  PROVE  LET both == a \o b
             last == SubSeq(both, n + 1, Len(both))
         IN  /\ n <= Len(a) => last = SubSeq(a, n + 1, Len(a)) \o b
             /\ n >= Len(a) => last = SubSeq(b, n - Len(a) + 1, Len(b))
<1> DEFINE both == a \o b
           last == SubSeq(both, n + 1, Len(both))
<1>1. Len(a) \in Nat /\ Len(b) \in Nat /\ n \in Nat
  OBVIOUS
<1>2. /\ both \in Seq(S) /\ Len(both) = Len(a) + Len(b)
      /\ \A i \in 1..Len(a) + Len(b) : both[i] = IF i <= Len(a) THEN a[i] ELSE b[i - Len(a)]
  BY ConcatProperties
<1> HIDE DEF both
<1> DEFINE m == Len(a) + Len(b) - n
<1>3. /\ last \in Seq(S) /\ Len(last) = m
      /\ \A i \in 1..m : last[i] = both[n + i]
  <2>1. n \in 0..Len(both)
    BY <1>1, <1>2
  <2> QED
    BY <1>2, <2>1, SplitAt
<1>0. m \in Nat /\ n + m = Len(a) + Len(b)
  BY <1>1
<1> HIDE DEF last, m
<1>4. ASSUME n <= Len(a) PROVE last = SubSeq(a, n + 1, Len(a)) \o b
  <2> DEFINE some == SubSeq(a, n + 1, Len(a))
             k == Len(a) - n
  <2>1. n \in 0..Len(a) /\ k \in Nat /\ m = k + Len(b)
    BY <1>0, <1>1, <1>4
  <2>2. some \in Seq(S) /\ Len(some) = k /\ \A i \in 1..k : some[i] = a[n + i]
    BY <2>1, SplitAt
  <2>9. k + n = Len(a)
    BY <1>1
  <2> HIDE DEF some, k
  <2>3. /\ some \o b \in Seq(S) /\ Len(some \o b) = m
        /\ \A i \in 1..m : (some \o b)[i] = IF i <= k THEN some[i] ELSE b[i - k]
    BY <2>1, <2>2, ConcatProperties
  <2> DEFINE joined == some \o b
  <2> HIDE DEF joined
  <2>8. joined \in Seq(S) /\ \A i \in 1..m : joined[i] = IF i <= k THEN some[i] ELSE b[i - k]
    BY <2>3 DEF joined
  <2>4. \A i \in 1..m : (some \o b)[i] = last[i]
    <3> SUFFICES ASSUME NEW i \in 1..m PROVE joined[i] = last[i]
      BY DEF joined
    <3>1. n + i \in 1..Len(a) + Len(b) /\ last[i] = both[n + i]
      BY <1>0, <1>1, <1>3
    <3>2. CASE i <= k
      <4>1. i \in 1..k /\ n + i <= Len(a)
        BY <1>1, <2>1, <2>9, <3>2
      <4>2. joined[i] = some[i]
        BY <2>8, <4>1
      <4>3. both[n + i] = a[n + i]
        BY <1>2, <3>1, <4>1
      <4> QED
        BY <2>2, <3>1, <4>1, <4>2, <4>3
    <3>3. CASE i > k
      <4>1. ~(n + i <= Len(a)) /\ n + i - Len(a) = i - k
        BY <1>0, <1>1, <2>1, <2>9, <3>3
      <4>2. ~(i <= k)
        BY <2>1, <3>3
      <4>3. joined[i] = b[i - k]
        BY <2>8, <4>2
      <4>4. both[n + i] = b[n + i - Len(a)]
        BY <1>2, <3>1, <4>1
      <4> QED
        BY <3>1, <4>1, <4>3, <4>4
    <3>4. i <= k \/ i > k
      BY <1>0, <2>1
    <3> QED
      BY <3>2, <3>3, <3>4
  <2>5. last = some \o b
    BY <1>3, <2>3, <2>4, SeqEqual
  <2> QED
    BY <2>5 DEF some
<1>5. ASSUME n >= Len(a) PROVE last = SubSeq(b, n - Len(a) + 1, Len(b))
  <2> DEFINE k == n - Len(a)
             some == SubSeq(b, k + 1, Len(b))
  <2>1. k \in 0..Len(b) /\ n = Len(a) + k /\ m = Len(b) - k
    BY <1>0, <1>1, <1>5
  <2> HIDE DEF k
  <2>2. some \in Seq(S) /\ Len(some) = m /\ \A i \in 1..m : some[i] = b[k + i]
    BY <2>1, SplitAt
  <2> HIDE DEF some
  <2>3. \A i \in 1..m : last[i] = some[i]
    <3> SUFFICES ASSUME NEW i \in 1..m PROVE last[i] = some[i]
      OBVIOUS
    <3>1. n + i \in 1..Len(a) + Len(b) /\ ~(n + i <= Len(a)) /\ n + i - Len(a) = k + i
      BY <1>0, <1>1, <2>1
    <3>2. both[n + i] = b[n + i - Len(a)]
      BY <1>2, <3>1
    <3>3. last[i] = both[n + i] /\ some[i] = b[k + i]
      BY <1>3, <2>2
    <3> QED
      BY <3>1, <3>2, <3>3
  <2>4. last = some
    BY <1>3, <2>2, <2>3, SeqEqual
  <2> QED
    BY <2>4 DEF some, k
<1> QED
  BY <1>4, <1>5 DEF both, last

-----------------------------------------------------------------------------
(* Sequences put together.                                                 *)

\* What the first so many of some sequences come to, one after the other.
Joins(f, seqs, S) ==
  /\ f \in [0..Len(seqs) -> Seq(S)] /\ f[0] = <<>>
  /\ \A i \in 1..Len(seqs) : f[i] = f[i - 1] \o seqs[i]

\* There is such a function, by induction over how many.
LEMMA JoinsDefined ==
  ASSUME NEW S, NEW seqs \in Seq(Seq(S))
  PROVE  \E f : Joins(f, seqs, S)
<1> DEFINE n == Len(seqs)
           Fits(f, k) == /\ f \in [0..k -> Seq(S)] /\ f[0] = <<>>
                         /\ \A i \in 1..k : f[i] = f[i - 1] \o seqs[i]
           T == {k \in 0..n : \E f : Fits(f, k)}
<1>0. n \in Nat /\ \A i \in 1..n : seqs[i] \in Seq(S)
  OBVIOUS
<1> HIDE DEF n
<1>1. 0 \in T
  <2>1. Fits([i \in 0..0 |-> <<>>], 0)
    OBVIOUS
  <2>2. 0 \in 0..n
    BY <1>0
  <2> HIDE DEF Fits
  <2> QED
    BY <2>1, <2>2
<1>2. ASSUME NEW k \in 1..n, k - 1 \in T PROVE k \in T
  <2>1. PICK f : Fits(f, k - 1)
    BY <1>2
  <2> DEFINE g == [i \in 0..k |-> IF i = k THEN f[k - 1] \o seqs[k] ELSE f[i]]
  <2>2. f[k - 1] \in Seq(S) /\ seqs[k] \in Seq(S) /\ k \in Nat
    BY <1>0, <2>1
  <2>a. f[k - 1] \o seqs[k] \in Seq(S)
    BY <2>2, ConcatProperties
  <2>3. g \in [0..k -> Seq(S)] /\ g[0] = <<>>
    <3>1. \A i \in 0..k : i # k => i \in 0..k - 1
      BY <2>2
    <3>2. \A i \in 0..k : g[i] \in Seq(S)
      BY <2>1, <2>a, <3>1
    <3> QED
      BY <2>1, <2>2, <3>2
  <2>4. ASSUME NEW i \in 1..k PROVE g[i] = g[i - 1] \o seqs[i]
    <3>1. g[i - 1] = f[i - 1] /\ i - 1 \in 0..k /\ i \in 0..k
      BY <2>2
    <3>2. CASE i = k
      BY <3>1, <3>2
    <3>3. CASE i # k
      <4>1. i \in 1..k - 1
        BY <2>2, <3>3
      <4>2. f[i] = f[i - 1] \o seqs[i] /\ g[i] = f[i]
        BY <2>1, <3>1, <3>3, <4>1
      <4> QED
        BY <3>1, <4>2
    <3> QED
      BY <3>2, <3>3
  <2>5. Fits(g, k)
    <3> HIDE DEF g
    <3> QED
      BY <2>3, <2>4
  <2>6. k \in 0..n
    BY <1>0
  <2> HIDE DEF Fits, g
  <2> QED
    BY <2>5, <2>6
<1>3. n \in T
  <2> HIDE DEF T
  <2>1. 0..n \subseteq T
    BY <1>0, <1>1, <1>2, Inductive
  <2> QED
    BY <1>0, <2>1
<1>4. PICK f : Fits(f, n)
  BY <1>3
<1> QED
  BY <1>4 DEF Joins, n

\* It gives what they all come to.
LEMMA JoinedIs ==
  ASSUME NEW S, NEW seqs \in Seq(Seq(S)), NEW f, Joins(f, seqs, S)
  PROVE  FlattenSeq(seqs) = f[Len(seqs)]
<1> DEFINE n == Len(seqs)
           Flattens(g) == g = [i \in 1..n |-> IF i = 1 THEN seqs[i] ELSE g[i - 1] \o seqs[i]]
<1>0. n \in Nat
  OBVIOUS
<1>f. /\ f \in [0..n -> Seq(S)] /\ f[0] = <<>>
      /\ \A i \in 1..n : f[i] = f[i - 1] \o seqs[i]
  BY DEF Joins
<1>1. CASE n = 0
  <2>1. seqs = <<>>
    BY <1>1
  <2>2. FlattenSeq(seqs) = <<>>
    BY <1>1, <2>1 DEF FlattenSeq
  <2> QED
    BY <1>1, <1>f, <2>2
<1>2. CASE n # 0
  <2>0. n \in Nat \ {0} /\ \A i \in 1..n : seqs[i] \in Seq(S)
    BY <1>2
  <2>1. FlattenSeq(seqs) = (CHOOSE g : Flattens(g))[n]
    BY <1>2 DEF FlattenSeq
  <2> HIDE DEF n
  <2>2. Flattens([i \in 1..n |-> f[i]])
    <3> DEFINE g == [i \in 1..n |-> f[i]]
    <3>1. \A i \in 1..n : g[i] = IF i = 1 THEN seqs[i] ELSE g[i - 1] \o seqs[i]
      <4> SUFFICES ASSUME NEW i \in 1..n
                   PROVE  g[i] = IF i = 1 THEN seqs[i] ELSE g[i - 1] \o seqs[i]
        OBVIOUS
      <4>1. f[i] = f[i - 1] \o seqs[i] /\ g[i] = f[i]
        BY <1>f
      <4>2. CASE i = 1
        <5>1. f[i - 1] = <<>>
          BY <1>f, <4>2
        <5>2. <<>> \o seqs[i] = seqs[i]
          BY <2>0, ConcatEmptySeq
        <5> QED
          BY <4>1, <4>2, <5>1, <5>2
      <4>3. CASE i # 1
        <5>1. i - 1 \in 1..n
          BY <2>0, <4>3
        <5> QED
          BY <4>1, <4>3, <5>1
      <4> QED
        BY <4>2, <4>3
    <3>2. g = [i \in 1..n |-> g[i]]
      OBVIOUS
    <3> HIDE DEF g
    <3> QED
      BY <3>1, <3>2 DEF g
  <2>3. Flattens(CHOOSE g : Flattens(g))
    <3> HIDE DEF Flattens
    <3> QED BY <2>2
  <2> DEFINE c == CHOOSE g : Flattens(g)
             T == {i \in 0..n : i = 0 \/ c[i] = f[i]}
  <2> HIDE DEF c
  <2>4. \A i \in 1..n : c[i] = IF i = 1 THEN seqs[i] ELSE c[i - 1] \o seqs[i]
    BY <2>3 DEF c
  <2> HIDE DEF Flattens
  <2>5. 0 \in T
    BY <2>0
  <2>6. \A i \in 1..n : i - 1 \in T => i \in T
    <3> SUFFICES ASSUME NEW i \in 1..n, i - 1 \in T PROVE i \in T
      OBVIOUS
    <3>1. i \in 0..n /\ f[i] = f[i - 1] \o seqs[i] /\ i - 1 \in 0..n
      <4>1. i \in 0..n /\ i - 1 \in 0..n
        BY <2>0
      <4>2. f[i] = f[i - 1] \o seqs[i]
        BY <1>f
      <4> QED
        BY <4>1, <4>2
    <3>2. CASE i = 1
      <4>1. f[i - 1] = <<>>
        BY <1>f, <3>2
      <4>2. <<>> \o seqs[i] = seqs[i]
        BY <2>0, ConcatEmptySeq
      <4> QED
        BY <2>4, <3>1, <3>2, <4>1, <4>2
    <3>3. CASE i # 1
      <4>1. c[i - 1] = f[i - 1]
        BY <2>0, <3>3
      <4> QED
        BY <2>4, <3>1, <3>3, <4>1
    <3> QED
      BY <3>2, <3>3
  <2>7. n \in T
    <3> HIDE DEF T
    <3>1. 0..n \subseteq T
      BY <1>0, <2>5, <2>6, Inductive
    <3> QED
      BY <2>0, <3>1
  <2>8. c[n] = f[n]
    BY <2>0, <2>7
  <2> QED
    BY <2>1, <2>8 DEF c, n
<1> QED
  BY <1>1, <1>2

\* What sequences of some things come to is a sequence of them.
LEMMA FlattenedType ==
  ASSUME NEW S, NEW seqs \in Seq(Seq(S))
  PROVE  FlattenSeq(seqs) \in Seq(S)
<1>1. PICK f : Joins(f, seqs, S)
  BY JoinsDefined
<1>2. FlattenSeq(seqs) = f[Len(seqs)] /\ Len(seqs) \in 0..Len(seqs)
  BY <1>1, JoinedIs
<1> QED
  BY <1>1, <1>2 DEF Joins

\* No sequences come to an empty one.
LEMMA FlattenedNone == FlattenSeq(<<>>) = <<>>
  BY DEF FlattenSeq

\* What two lots come to is what the one does, then what the other does.
LEMMA FlattenedBoth ==
  ASSUME NEW S, NEW a \in Seq(Seq(S)), NEW b \in Seq(Seq(S))
  PROVE  FlattenSeq(a \o b) = FlattenSeq(a) \o FlattenSeq(b)
<1> DEFINE m == Len(a)
           n == Len(b)
           both == a \o b
<1>0. m \in Nat /\ n \in Nat
  OBVIOUS
<1>1. /\ both \in Seq(Seq(S)) /\ Len(both) = m + n
      /\ \A i \in 1..m + n : both[i] = IF i <= m THEN a[i] ELSE b[i - m]
  BY ConcatProperties
<1>2. PICK f : Joins(f, a, S)
  BY JoinsDefined
<1>3. PICK g : Joins(g, b, S)
  BY JoinsDefined
<1>b. \A i \in 1..n : b[i] \in Seq(S)
  OBVIOUS
<1>4. /\ f \in [0..m -> Seq(S)] /\ f[0] = <<>>
      /\ \A i \in 1..m : f[i] = f[i - 1] \o a[i]
  BY <1>2 DEF Joins
<1>5. /\ g \in [0..n -> Seq(S)] /\ g[0] = <<>>
      /\ \A i \in 1..n : g[i] = g[i - 1] \o b[i]
  BY <1>3 DEF Joins
<1>6. FlattenSeq(a) = f[m] /\ FlattenSeq(b) = g[n]
  BY <1>2, <1>3, JoinedIs
<1> HIDE DEF m, n, both
<1> DEFINE h == [i \in 0..m + n |-> IF i <= m THEN f[i] ELSE f[m] \o g[i - m]]
<1>7. f[m] \in Seq(S)
  BY <1>0, <1>4
<1>8. h \in [0..m + n -> Seq(S)]
  <2> SUFFICES ASSUME NEW i \in 0..m + n PROVE h[i] \in Seq(S)
    BY DEF h
  <2>1. CASE i <= m
    BY <1>0, <1>4, <2>1
  <2>2. CASE i > m
    <3>1. i - m \in 0..n /\ ~(i <= m)
      BY <1>0, <2>2
    <3>2. g[i - m] \in Seq(S)
      BY <1>5, <3>1
    <3>3. f[m] \o g[i - m] \in Seq(S)
      BY <1>7, <3>2, ConcatProperties
    <3> QED
      BY <3>1, <3>3
  <2>3. i <= m \/ i > m
    BY <1>0
  <2> QED
    BY <2>1, <2>2, <2>3
<1>9. ASSUME NEW i \in 1..m + n PROVE h[i] = h[i - 1] \o both[i]
  <2>0. i \in Int /\ i \in 0..m + n /\ i - 1 \in 0..m + n
    BY <1>0
  <2>1. CASE i <= m
    <3>1. i \in 1..m /\ i - 1 <= m
      BY <1>0, <2>0, <2>1
    <3>2. h[i] = f[i] /\ h[i - 1] = f[i - 1] /\ both[i] = a[i]
      BY <1>1, <2>0, <2>1, <3>1
    <3> QED
      BY <1>4, <3>1, <3>2
  <2>2. CASE i = m + 1
    <3>1. i - m = 1 /\ ~(i <= m) /\ i - 1 <= m /\ i - 1 = m /\ 1 \in 1..n
      BY <1>0, <2>2
    <3>2. h[i] = f[m] \o g[1] /\ h[i - 1] = f[m] /\ both[i] = b[1]
      BY <1>1, <2>0, <3>1
    <3>3. g[1] = g[0] \o b[1]
      <4>1. \A k \in 1..n : g[k] = g[k - 1] \o b[k]
        BY <1>5
      <4>2. g[1] = g[1 - 1] \o b[1]
        BY <3>1, <4>1
      <4>3. 1 - 1 = 0
        OBVIOUS
      <4> QED
        BY <4>2, <4>3
    <3>4. <<>> \o b[1] = b[1]
      BY <1>b, <3>1, ConcatEmptySeq
    <3> QED
      BY <1>5, <3>2, <3>3, <3>4
  <2>3. CASE i > m + 1
    <3> DEFINE j == i - m
    <3>1. j \in 1..n /\ ~(i <= m) /\ ~(i - 1 <= m) /\ i - 1 - m = j - 1 /\ j - 1 \in 0..n
      BY <1>0, <2>0, <2>3
    <3> HIDE DEF j
    <3>2. h[i] = f[m] \o g[j] /\ h[i - 1] = f[m] \o g[j - 1] /\ both[i] = b[j]
      BY <1>1, <2>0, <3>1 DEF j
    <3>3. g[j] = g[j - 1] \o b[j]
      BY <1>5, <3>1
    <3>4. g[j - 1] \in Seq(S) /\ b[j] \in Seq(S)
      BY <1>5, <1>b, <3>1
    <3>5. (f[m] \o g[j - 1]) \o b[j] = f[m] \o (g[j - 1] \o b[j])
      <4> DEFINE x == f[m]
                 y == g[j - 1]
                 z == b[j]
      <4>1. x \in Seq(S) /\ y \in Seq(S) /\ z \in Seq(S)
        BY <1>7, <3>4
      <4> HIDE DEF x, y, z
      <4>2. (x \o y) \o z = x \o (y \o z)
        BY <4>1, ConcatAssociative
      <4> QED
        BY <4>2 DEF x, y, z
    <3> QED
      BY <3>2, <3>3, <3>5
  <2>4. i <= m \/ i = m + 1 \/ i > m + 1
    BY <1>0, <2>0
  <2> HIDE DEF h
  <2> QED
    BY <2>1, <2>2, <2>3, <2>4
<1>10. h[0] = <<>>
  BY <1>0, <1>4
<1>11. h[m + n] = f[m] \o g[n]
  <2>1. CASE n = 0
    <3>1. m + n \in 0..m + n /\ m + n <= m /\ m + n = m
      BY <1>0, <2>1
    <3>2. f[m] \o <<>> = f[m]
      BY <1>7, ConcatEmptySeq
    <3> QED
      BY <1>5, <2>1, <3>1, <3>2
  <2>2. CASE n # 0
    <3> DEFINE k == m + n
    <3>1. k \in 0..m + n /\ ~(k <= m) /\ k - m = n
      BY <1>0, <2>2
    <3> HIDE DEF k
    <3>2. h[k] = f[m] \o g[k - m]
      BY <3>1
    <3> QED
      BY <3>1, <3>2 DEF k
  <2> QED
    BY <2>1, <2>2
<1> HIDE DEF h
<1>12. Joins(h, both, S)
  BY <1>1, <1>8, <1>9, <1>10 DEF Joins
<1>13. FlattenSeq(both) = h[m + n]
  BY <1>1, <1>12, JoinedIs
<1> QED
  BY <1>6, <1>11, <1>13 DEF both

\* One sequence comes to itself.
LEMMA FlattenedOne ==
  ASSUME NEW S, NEW s \in Seq(S)
  PROVE  FlattenSeq(<<s>>) = s
<1> DEFINE f == [i \in 0..1 |-> IF i = 0 THEN <<>> ELSE s]
           one == <<s>>
<1>1. one \in Seq(Seq(S)) /\ Len(one) = 1 /\ one[1] = s
  OBVIOUS
<1>2. <<>> \o s = s /\ <<>> \in Seq(S)
  BY ConcatEmptySeq
<1>3. f \in [0..1 -> Seq(S)] /\ f[0] = <<>> /\ f[1] = s
  BY <1>2
<1> HIDE DEF f, one
<1>4. Joins(f, one, S)
  BY <1>1, <1>2, <1>3 DEF Joins
<1> QED
  BY <1>1, <1>3, <1>4, JoinedIs DEF one

-----------------------------------------------------------------------------
(* Bytes read as characters.                                               *)

\* What may arrive.
Bytes == Characters \union {Lead, Continuation}

\* Everything a text may hold.
Letters ==
  Characters \union {Long, NoCharacter}
    \union (UNION {Range(text) : text \in {Marker} \union Values \union Lines})

\* Whether the byte here belongs to a character begun before it, which the
\* two bytes before it tell.
Belongs(bytes, at) ==
  /\ at > 1 /\ bytes[at] = Continuation
  /\ \/ bytes[at - 1] = Lead
     \/ at > 2 /\ bytes[at - 1] = Continuation /\ bytes[at - 2] = Lead

\* The byte that begins a long character isn't the one that goes on with it.
LEMMA LeadContinues == Lead # Continuation
  BY DEF Lead, Continuation

\* A character goes on as far as a lead is continued, by two bytes at most.
LEMMA WidthIs ==
  ASSUME NEW bytes \in Seq(Bytes), NEW at \in 1..Len(bytes)
  PROVE  LET two == bytes[at] = Lead /\ at + 1 <= Len(bytes) /\ bytes[at + 1] = Continuation
             three == two /\ at + 2 <= Len(bytes) /\ bytes[at + 2] = Continuation
         IN  Width(bytes, at) = IF three THEN 3 ELSE IF two THEN 2 ELSE 1
BY DEF Width

\* A character ends with the bytes at the latest.
LEMMA WidthFits ==
  ASSUME NEW bytes \in Seq(Bytes), NEW at \in 1..Len(bytes)
  PROVE  Width(bytes, at) \in 1..3 /\ at + Width(bytes, at) <= Len(bytes) + 1
<1>1. Len(bytes) \in Nat /\ at \in Nat
  OBVIOUS
<1> QED
  BY <1>1, WidthIs

\* Where a character begins there's none before it that goes on, nor is the
\* byte after it one of its own.
LEMMA NextBegins ==
  ASSUME NEW bytes \in Seq(Bytes), NEW at \in 1..Len(bytes)
  PROVE  /\ \A i \in at + 1..at + Width(bytes, at) - 1 : Belongs(bytes, i)
         /\ ~Belongs(bytes, at) /\ at + Width(bytes, at) <= Len(bytes)
              => ~Belongs(bytes, at + Width(bytes, at))
<1>0. Len(bytes) \in Nat /\ at \in Nat /\ at >= 1
  OBVIOUS
<1> DEFINE w == Width(bytes, at)
<1>1. w \in 1..3 /\ at + w <= Len(bytes) + 1
  BY WidthFits
<1>2. w = IF bytes[at] = Lead /\ at + 1 <= Len(bytes) /\ bytes[at + 1] = Continuation
          THEN IF at + 2 <= Len(bytes) /\ bytes[at + 2] = Continuation THEN 3 ELSE 2 ELSE 1
  BY <1>0, WidthIs
<1> HIDE DEF w
<1>3. at + 1 - 1 = at /\ at + 2 - 1 = at + 1 /\ at + 2 - 2 = at /\ at + 3 - 1 = at + 2 /\ at + 3 - 2 = at + 1
      /\ at + 1 - 2 = at - 1
  BY <1>0
<1>4. CASE w = 1
  <2>1. at + 1..at + w - 1 = {}
    BY <1>0, <1>4
  <2>2. ASSUME ~Belongs(bytes, at), at + 1 <= Len(bytes), Belongs(bytes, at + 1) PROVE FALSE
    <3>1. bytes[at + 1] = Continuation
          /\ (bytes[at] = Lead \/ (at + 1 > 2 /\ bytes[at] = Continuation /\ bytes[at - 1] = Lead))
      BY <1>3, <2>2 DEF Belongs
    <3>2. ~(bytes[at] = Lead)
      BY <1>2, <1>4, <2>2, <3>1
    <3> QED
      BY <1>0, <2>2, <3>1, <3>2 DEF Belongs
  <2> QED
    BY <1>4, <2>1, <2>2 DEF w
<1>5. CASE w = 2
  <2>1. bytes[at] = Lead /\ bytes[at + 1] = Continuation /\ at + 1 <= Len(bytes)
        /\ (at + 2 <= Len(bytes) => bytes[at + 2] # Continuation)
    BY <1>2, <1>5
  <2>2. \A i \in at + 1..at + w - 1 : i = at + 1
    BY <1>0, <1>5
  <2>3. Belongs(bytes, at + 1)
    BY <1>0, <1>3, <2>1 DEF Belongs
  <2>4. at + 2 <= Len(bytes) => ~Belongs(bytes, at + 2)
    BY <2>1 DEF Belongs
  <2> QED
    BY <1>5, <2>2, <2>3, <2>4 DEF w
<1>6. CASE w = 3
  <2>1. bytes[at] = Lead /\ bytes[at + 1] = Continuation /\ bytes[at + 2] = Continuation
    BY <1>2, <1>6
  <2>2. \A i \in at + 1..at + w - 1 : i = at + 1 \/ i = at + 2
    BY <1>0, <1>6
  <2>3. Belongs(bytes, at + 1) /\ Belongs(bytes, at + 2)
    BY <1>0, <1>3, <2>1 DEF Belongs
  <2>4. ~Belongs(bytes, at + 3)
    BY <1>3, <2>1, LeadContinues DEF Belongs
  <2> QED
    BY <1>6, <2>2, <2>3, <2>4 DEF w
<1> QED
  BY <1>1, <1>4, <1>5, <1>6

\* Three bytes in a row never belong to one begun before them.
LEMMA BelongTwo ==
  ASSUME NEW bytes \in Seq(Bytes), NEW at \in Nat, Belongs(bytes, at), Belongs(bytes, at + 1)
  PROVE  ~Belongs(bytes, at + 2)
<1>1. at + 2 - 1 = at + 1 /\ at + 2 - 2 = at /\ at + 1 - 1 = at
  OBVIOUS
<1> QED
  BY <1>1, LeadContinues DEF Belongs

\* Characters begin at the bytes that belong to none begun before.
LEMMA BeginningsAre ==
  ASSUME NEW bytes \in Seq(Bytes)
  PROVE  Beginnings(bytes) = {at \in 1..Len(bytes) : ~Belongs(bytes, at)}
<1> DEFINE n == Len(bytes)
           wide(at) == Width(bytes, at)
           goes(f, at) == IF at > n THEN {} ELSE {at} \union f[at + wide(at)]
           f == [at \in 1..n + 1 |->
                  {i \in at..n : i = at \/ ~Belongs(bytes, i) \/ (i = at + 1 /\ Belongs(bytes, at))}]
           b == CHOOSE b : b = [at \in 1..n + 1 |-> goes(b, at)]
<1>0. n \in Nat
  OBVIOUS
<1>1. ASSUME NEW at \in 1..n PROVE wide(at) \in Nat /\ wide(at) >= 1 /\ at + wide(at) \in 1..n + 1
  BY <1>0, WidthFits
<1>2. ASSUME NEW at \in 1..n + 1 PROVE f[at] = goes(f, at)
  <2>0. at \in Nat
    BY <1>0
  <2>1. CASE at > n
    BY <1>0, <2>0, <2>1
  <2>2. CASE ~(at > n)
    <3> DEFINE next == at + wide(at)
    <3>1. at \in 1..n /\ next \in 1..n + 1 /\ next > at /\ next \in Nat
      BY <1>0, <1>1, <2>0, <2>2
    <3>2. /\ \A i \in at + 1..next - 1 : Belongs(bytes, i)
          /\ ~Belongs(bytes, at) /\ next <= n => ~Belongs(bytes, next)
      <4>1. at \in 1..Len(bytes)
        BY <3>1
      <4>2. /\ \A i \in at + 1..at + Width(bytes, at) - 1 : Belongs(bytes, i)
            /\ ~Belongs(bytes, at) /\ at + Width(bytes, at) <= Len(bytes)
                 => ~Belongs(bytes, at + Width(bytes, at))
        BY ONLY bytes \in Seq(Bytes), <4>1, NextBegins
      <4>3. wide(at) \in Nat /\ at + wide(at) - 1 = (at + wide(at)) - 1
        BY <1>1, <2>0, <3>1
      <4> HIDE DEF wide
      <4> QED
        BY <4>2, <4>3 DEF wide
    <3>3. Belongs(bytes, at) => next = at + 1
      <4>1. Belongs(bytes, at) => bytes[at] # Lead
        BY LeadContinues DEF Belongs
      <4> QED
        BY <3>1, <4>1, WidthIs
    <3> HIDE DEF next, n, wide
    <3>4. ASSUME NEW i \in f[at] PROVE i \in {at} \union f[next]
      <4>1. i \in at..n /\ (i = at \/ ~Belongs(bytes, i) \/ (i = at + 1 /\ Belongs(bytes, at)))
        BY <3>4
      <4>2. CASE i = at
        BY <4>2
      <4>3. CASE i # at /\ ~Belongs(bytes, i)
        <5>1. i \in Nat /\ i > at /\ ~(i \in at + 1..next - 1)
          BY <2>0, <1>0, <3>2, <4>1, <4>3
        <5>2. i \in next..n
          BY <1>0, <2>0, <3>1, <4>1, <5>1
        <5> QED
          BY <3>1, <4>3, <5>2
      <4>4. CASE i = at + 1 /\ Belongs(bytes, at)
        <5>1. i = next /\ i \in next..n
          BY <1>0, <3>1, <3>3, <4>1, <4>4
        <5> QED
          BY <3>1, <5>1
      <4> QED
        BY <4>1, <4>2, <4>3, <4>4
    <3>5. ASSUME NEW i \in f[next] PROVE i \in f[at]
      <4>1. i \in next..n /\ (i = next \/ ~Belongs(bytes, i) \/ (i = next + 1 /\ Belongs(bytes, next)))
        BY <3>1, <3>5
      <4>2. i \in at..n
        BY <1>0, <2>0, <3>1, <4>1
      <4>3. CASE ~Belongs(bytes, i)
        BY <4>2, <4>3
      <4>4. CASE i = next
        <5>1. next <= n
          BY <1>0, <3>1, <4>1, <4>4
        <5> QED
          BY <3>2, <3>3, <4>2, <4>4, <5>1
      <4>5. CASE i = next + 1 /\ Belongs(bytes, next)
        <5>1. next <= n
          BY <1>0, <3>1, <4>1, <4>5
        <5>2. Belongs(bytes, at) /\ next = at + 1
          BY <3>2, <3>3, <4>5, <5>1
        <5>3. i = at + 2
          BY <2>0, <4>5, <5>2
        <5>4. ~Belongs(bytes, i)
          BY <2>0, <4>5, <5>2, <5>3, BelongTwo
        <5> QED
          BY <4>2, <5>4
      <4> QED
        BY <4>1, <4>3, <4>4, <4>5
    <3>6. at \in f[at]
      BY <1>0, <2>0, <3>1
    <3>7. f[at] = {at} \union f[next]
      <4> HIDE DEF f
      <4> QED
        BY <3>4, <3>5, <3>6
    <3> QED
      BY <2>2, <3>7 DEF next
  <2> QED
    BY <2>1, <2>2
<1>3. f = [at \in 1..n + 1 |-> goes(f, at)]
  <2> DEFINE h == [at \in 1..n + 1 |-> goes(f, at)]
  <2>1. \A at \in 1..n + 1 : f[at] = h[at]
    <3> HIDE DEF f, goes, n
    <3> QED
      BY <1>2
  <2>2. DOMAIN f = 1..n + 1 /\ f = [at \in DOMAIN f |-> f[at]]
    <3> HIDE DEF n
    <3> QED OBVIOUS
  <2> HIDE DEF f, goes, n
  <2> QED
    BY <2>1, <2>2
<1>4. b = [at \in 1..n + 1 |-> goes(b, at)]
  <2> HIDE DEF f, goes, n
  <2> QED
    BY <1>3
<1> DEFINE T == {k \in 0..n : \A at \in n + 1 - k..n + 1 : b[at] = f[at]}
<1>5. 0 \in T
  <2> HIDE DEF b, f
  <2>1. n + 1 \in 1..n + 1 /\ n + 1 > n /\ 0 \in 0..n
    BY <1>0
  <2>2. \A at \in n + 1 - 0..n + 1 : at = n + 1
    BY <1>0
  <2>3. b[n + 1] = {}
    BY <1>4, <2>1
  <2>4. f[n + 1] = {}
    BY <1>2, <2>1
  <2> QED
    BY <2>1, <2>2, <2>3, <2>4
<1>6. ASSUME NEW k \in 1..n, k - 1 \in T PROVE k \in T
  <2> DEFINE x == n + 1 - k
  <2>1. x \in 1..n /\ ~(x > n) /\ k \in Nat /\ k \in 0..n /\ x \in 1..n + 1
    BY <1>0
  <2>2. x + wide(x) \in x + 1..n + 1
    BY <1>0, <1>1, <2>1
  <2>3. \A at \in x + 1..n + 1 : b[at] = f[at]
    <3>1. n + 1 - (k - 1) = x + 1
      BY <1>0, <2>1
    <3> HIDE DEF b, f, x
    <3> QED
      BY <1>6, <3>1
  <2> HIDE DEF b, f, n, wide
  <2>4. b[x] = {x} \union b[x + wide(x)] /\ f[x] = {x} \union f[x + wide(x)]
    BY <1>2, <1>4, <2>1
  <2>5. b[x] = f[x]
    BY <2>2, <2>3, <2>4
  <2>6. \A at \in x..n + 1 : at = x \/ at \in x + 1..n + 1
    BY <1>0, <2>1
  <2> QED
    BY <2>1, <2>3, <2>5, <2>6
<1>7. 0..n \subseteq T
  <2> HIDE DEF T, n
  <2> QED
    BY <1>0, <1>5, <1>6, Inductive
<1>8. b[1] = f[1]
  <2>1. n \in T
    <3> HIDE DEF T, n
    <3> QED
      BY <1>0, <1>7
  <2>2. 1 \in n + 1 - n..n + 1
    BY <1>0
  <2> HIDE DEF b, f
  <2> QED
    BY <2>1, <2>2
<1>9. f[1] = {at \in 1..n : ~Belongs(bytes, at)}
  <2>1. ~Belongs(bytes, 1) /\ 1 \in 1..n + 1
    BY <1>0 DEF Belongs
  <2> HIDE DEF n
  <2> QED
    BY <2>1
<1>10. CASE bytes = <<>>
  <2>1. 1..n = {}
    BY <1>10
  <2> QED
    BY <1>10, <2>1 DEF Beginnings
<1>11. CASE bytes # <<>>
  <2>1. Beginnings(bytes) = b[1]
    BY <1>11 DEF Beginnings
  <2> HIDE DEF b, f
  <2> QED
    BY <1>8, <1>9, <2>1
<1> QED
  BY <1>10, <1>11

-----------------------------------------------------------------------------
(* Bytes that are read apart.                                              *)

\* What each byte is read as, where it begins a character.
Read(bytes) ==
  [at \in DOMAIN bytes |->
    IF at \in Beginnings(bytes) THEN <<CharacterAt(bytes, at)>> ELSE <<>>]

\* Whether what comes before ends where what comes after it begins.
Apart(before, after) ==
  before # <<>> /\ after # <<>> /\ after[1] = Continuation =>
    LET n == Len(before)
    IN  ~(before[n] = Lead \/ (n > 1 /\ before[n] = Continuation /\ before[n - 1] = Lead))

\* Each byte that begins a character is read as that character, and no
\* other as anything.
LEMMA ReadType ==
  ASSUME NEW bytes \in Seq(Bytes)
  PROVE  /\ Read(bytes) \in Seq(Seq(Letters)) /\ Len(Read(bytes)) = Len(bytes)
         /\ \A at \in 1..Len(bytes) : /\ CharacterAt(bytes, at) \in Letters
                                      /\ Read(bytes)[at] = IF Belongs(bytes, at) THEN <<>>
                                                           ELSE <<CharacterAt(bytes, at)>>
<1>0. DOMAIN bytes = 1..Len(bytes) /\ Len(bytes) \in Nat
  OBVIOUS
<1>1. Characters \subseteq Letters /\ Long \in Letters /\ NoCharacter \in Letters
  BY DEF Letters
<1>2. \A at \in 1..Len(bytes) : CharacterAt(bytes, at) \in Letters
  BY <1>1 DEF CharacterAt
<1>3. \A at \in 1..Len(bytes) : at \in Beginnings(bytes) <=> ~Belongs(bytes, at)
  BY BeginningsAre
<1>4. Read(bytes) = [at \in 1..Len(bytes) |-> IF Belongs(bytes, at) THEN <<>>
                                             ELSE <<CharacterAt(bytes, at)>>]
  BY <1>0, <1>3 DEF Read
<1>5. \A at \in 1..Len(bytes) : (IF Belongs(bytes, at) THEN <<>> ELSE <<CharacterAt(bytes, at)>>) \in Seq(Letters)
  BY <1>2
<1>6. Read(bytes) \in Seq(Seq(Letters))
  BY <1>0, <1>4, <1>5, IsASeq
<1>7. Len(Read(bytes)) = Len(bytes)
  BY <1>0, <1>4
<1> QED
  BY <1>2, <1>4, <1>6, <1>7

\* Bytes are read as letters.
LEMMA LossyType ==
  ASSUME NEW bytes \in Seq(Bytes)
  PROVE  Lossy(bytes) = FlattenSeq(Read(bytes)) /\ Lossy(bytes) \in Seq(Letters)
<1>1. Lossy(bytes) = FlattenSeq(Read(bytes))
  BY DEF Lossy, Read
<1> QED
  BY <1>1, ReadType, FlattenedType

\* What one sequence and then another are made of.
LEMMA BothAre ==
  ASSUME NEW S, NEW a \in Seq(S), NEW b \in Seq(S)
  PROVE  /\ a \o b \in Seq(S) /\ Len(a \o b) = Len(a) + Len(b)
         /\ \A i \in 1..Len(a) : (a \o b)[i] = a[i]
         /\ \A i \in 1..Len(b) : (a \o b)[Len(a) + i] = b[i]
<1> DEFINE m == Len(a)
           n == Len(b)
           both == a \o b
<1>0. m \in Nat /\ n \in Nat
  OBVIOUS
<1>1. /\ both \in Seq(S) /\ Len(both) = m + n
      /\ \A i \in 1..m + n : both[i] = IF i <= m THEN a[i] ELSE b[i - m]
  BY ConcatProperties
<1> HIDE DEF m, n, both
<1>2. ASSUME NEW i \in 1..m PROVE both[i] = a[i]
  <2>1. i \in 1..m + n /\ i <= m
    BY <1>0
  <2> QED
    BY <1>1, <2>1
<1>3. ASSUME NEW i \in 1..n PROVE both[m + i] = b[i]
  <2>1. m + i \in 1..m + n /\ ~(m + i <= m) /\ m + i - m = i
    BY <1>0
  <2>2. both[m + i] = b[m + i - m]
    BY <1>0, <1>1, <2>1
  <2> QED
    BY <2>1, <2>2
<1> QED
  BY <1>1, <1>2, <1>3 DEF m, n, both

\* The bytes that belong to a character, and how wide each is, are the same
\* in two lots of bytes apart as in the one and the other.
LEMMA BelongsApart ==
  ASSUME NEW s \in Seq(Bytes), NEW b \in Seq(Bytes), Apart(s, b)
  PROVE  /\ \A at \in 1..Len(s) : Belongs(s \o b, at) <=> Belongs(s, at)
         /\ \A at \in 1..Len(b) : Belongs(s \o b, Len(s) + at) <=> Belongs(b, at)
<1> DEFINE m == Len(s)
           n == Len(b)
           both == s \o b
<1>0. m \in Nat /\ n \in Nat
  OBVIOUS
<1>1. /\ \A i \in 1..m : both[i] = s[i]
      /\ \A i \in 1..n : both[m + i] = b[i]
  BY BothAre
<1>2. m > 0 /\ n > 0 /\ b[1] = Continuation
        => ~(s[m] = Lead \/ (m > 1 /\ s[m] = Continuation /\ s[m - 1] = Lead))
  BY DEF Apart
<1> HIDE DEF m, n, both
<1>3. ASSUME NEW at \in 1..m PROVE Belongs(both, at) <=> Belongs(s, at)
  <2>1. at > 1 => at - 1 \in 1..m
    BY <1>0
  <2>2. at > 2 => at - 2 \in 1..m
    BY <1>0
  <2> QED
    BY <1>1, <2>1, <2>2 DEF Belongs
<1>4. ASSUME NEW at \in 1..n PROVE Belongs(both, m + at) <=> Belongs(b, at)
  <2>a. at \in Nat
    BY <1>0
  <2>b. both[m + at] = b[at]
    BY <1>1
  <2>0. at \in Nat /\ both[m + at] = b[at]
    BY <2>a, <2>b
  <2>1. CASE at = 1
    <3>1. ~Belongs(b, at)
      BY <2>1 DEF Belongs
    <3>2. ASSUME Belongs(both, m + at) PROVE FALSE
      <4>1. m + 1 > 1 /\ b[1] = Continuation /\ (both[m + 1 - 1] = Lead
              \/ (m + 1 > 2 /\ both[m + 1 - 1] = Continuation /\ both[m + 1 - 2] = Lead))
        BY <1>0, <2>0, <2>1, <3>2 DEF Belongs
      <4>2. m > 0 /\ n > 0 /\ m \in 1..m /\ m + 1 - 1 = m /\ m + 1 - 2 = m - 1
            /\ (m + 1 > 2 => m > 1 /\ m - 1 \in 1..m)
        BY <1>0, <2>1, <4>1
      <4> QED
        BY <1>1, <1>2, <4>1, <4>2
    <3> QED
      BY <3>1, <3>2
  <2>2. CASE at = 2
    <3>1. m + at > 1 /\ m + at - 1 = m + 1 /\ m + at - 2 = m /\ 1 \in 1..n /\ at - 1 = 1 /\ at > 1 /\ ~(at > 2)
          /\ (m + at > 2 => m \in 1..m /\ m > 0 /\ n > 0)
      BY <1>0, <2>2
    <3>2. both[m + 1] = b[1]
      BY <1>1, <3>1
    <3>3. m + at > 2 => both[m] = s[m] /\ ~(b[1] = Continuation /\ s[m] = Lead)
      BY <1>1, <1>2, <3>1
    <3>4. Belongs(both, m + at) <=> b[at] = Continuation /\ b[1] = Lead
      BY <1>0, <2>0, <3>1, <3>2, <3>3 DEF Belongs
    <3>5. Belongs(b, at) <=> b[at] = Continuation /\ b[1] = Lead
      BY <3>1 DEF Belongs
    <3> QED
      BY <3>4, <3>5
  <2>3. CASE at > 2
    <3>1. /\ m + at - 1 = m + (at - 1) /\ m + at - 2 = m + (at - 2)
          /\ at - 1 \in 1..n /\ at - 2 \in 1..n /\ at > 1 /\ m + at > 1 /\ m + at > 2
      BY <1>0, <2>0, <2>3
    <3>2. both[m + at - 1] = b[at - 1] /\ both[m + at - 2] = b[at - 2]
      BY <1>1, <3>1
    <3> QED
      BY <1>0, <2>0, <2>3, <3>1, <3>2 DEF Belongs
  <2>4. at = 1 \/ at = 2 \/ at > 2
    BY <1>0
  <2> QED
    BY <2>1, <2>2, <2>3, <2>4
<1> QED
  BY <1>3, <1>4 DEF m, n, both

\* A character is as wide in bytes that others follow apart as it is alone.
LEMMA WidthApart ==
  ASSUME NEW s \in Seq(Bytes), NEW b \in Seq(Bytes), Apart(s, b)
  PROVE  /\ \A at \in 1..Len(s) : Width(s \o b, at) = Width(s, at)
         /\ \A at \in 1..Len(b) : Width(s \o b, Len(s) + at) = Width(b, at)
<1> DEFINE m == Len(s)
           n == Len(b)
           both == s \o b
           two(t, at) == t[at] = Lead /\ at + 1 <= Len(t) /\ t[at + 1] = Continuation
           three(t, at) == two(t, at) /\ at + 2 <= Len(t) /\ t[at + 2] = Continuation
<1>0. m \in Nat /\ n \in Nat
  OBVIOUS
<1>1. /\ both \in Seq(Bytes) /\ Len(both) = m + n
      /\ \A i \in 1..m : both[i] = s[i]
      /\ \A i \in 1..n : both[m + i] = b[i]
  BY BothAre
<1>2. m > 0 /\ n > 0 /\ b[1] = Continuation
        => ~(s[m] = Lead \/ (m > 1 /\ s[m] = Continuation /\ s[m - 1] = Lead))
  BY DEF Apart
<1>w. ASSUME NEW t \in Seq(Bytes), NEW at \in 1..Len(t)
      PROVE  Width(t, at) = IF three(t, at) THEN 3 ELSE IF two(t, at) THEN 2 ELSE 1
  BY WidthIs
<1> HIDE DEF both
<1>3. ASSUME NEW at \in 1..m PROVE Width(both, at) = Width(s, at)
  <2>0. at \in Nat /\ at \in 1..Len(both) /\ both[at] = s[at] /\ at >= 1 /\ at <= m
    BY <1>0, <1>1
  <2>1. CASE at + 2 <= m
    <3>1. at + 1 \in 1..m /\ at + 2 \in 1..m /\ at + 1 <= m /\ at + 1 <= m + n /\ at + 2 <= m + n
      BY <1>0, <2>0, <2>1
    <3>2. both[at + 1] = s[at + 1] /\ both[at + 2] = s[at + 2]
      BY <1>1, <3>1
    <3>3. two(both, at) <=> two(s, at)
      BY <1>1, <2>0, <3>1, <3>2
    <3>4. three(both, at) <=> three(s, at)
      BY <1>1, <2>0, <3>1, <3>2
    <3> HIDE DEF two, three, m
    <3> QED
      BY <1>1, <1>w, <2>0, <3>3, <3>4 DEF m
  <2>2. CASE at + 1 = m
    <3>1. at + 1 \in 1..m /\ at + 1 <= m + n /\ ~(at + 2 <= m) /\ m - 1 = at /\ m > 1 /\ m > 0 /\ at + 2 = m + 1
          /\ (at + 2 <= m + n => n > 0 /\ 1 \in 1..n)
      BY <1>0, <2>0, <2>2
    <3>2. both[at + 1] = s[at + 1] /\ (at + 2 <= m + n => both[at + 2] = b[1])
      BY <1>1, <3>1
    <3>3. two(both, at) <=> two(s, at)
      BY <1>1, <2>0, <2>2, <3>1, <3>2
    <3>4. ~three(s, at)
      BY <3>1
    <3>5. ~three(both, at)
      BY <1>1, <1>2, <2>0, <2>2, <3>1, <3>2
    <3> HIDE DEF two, three, m
    <3> QED
      BY <1>1, <1>w, <2>0, <3>3, <3>4, <3>5 DEF m
  <2>3. CASE at = m
    <3>1. ~(at + 1 <= m) /\ m > 0 /\ (at + 1 <= m + n => n > 0 /\ 1 \in 1..n)
      BY <1>0, <2>0, <2>3
    <3>2. at + 1 <= m + n => both[at + 1] = b[1]
      BY <1>1, <2>3, <3>1
    <3>3. ~two(s, at)
      BY <3>1
    <3>4. ~two(both, at)
      BY <1>1, <1>2, <2>0, <2>3, <3>1, <3>2
    <3>5. ~three(s, at) /\ ~three(both, at)
      BY <3>3, <3>4
    <3> HIDE DEF two, three, m
    <3> QED
      BY <1>1, <1>w, <2>0, <3>3, <3>4, <3>5 DEF m
  <2>4. at + 2 <= m \/ at + 1 = m \/ at = m
    BY <1>0, <2>0
  <2> QED
    BY <2>1, <2>2, <2>3, <2>4
<1>4. ASSUME NEW at \in 1..n PROVE Width(both, m + at) = Width(b, at)
  <2>0. at \in Nat /\ m + at \in 1..Len(both) /\ both[m + at] = b[at] /\ at >= 1 /\ at <= n
    BY <1>0, <1>1
  <2>1. at + 1 <= n => at + 1 \in 1..n /\ both[m + at + 1] = b[at + 1]
    <3>1. at + 1 <= n => at + 1 \in 1..n /\ m + at + 1 = m + (at + 1)
      BY <1>0, <2>0
    <3> QED
      BY <1>1, <3>1
  <2>2. at + 2 <= n => at + 2 \in 1..n /\ both[m + at + 2] = b[at + 2]
    <3>1. at + 2 <= n => at + 2 \in 1..n /\ m + at + 2 = m + (at + 2)
      BY <1>0, <2>0
    <3> QED
      BY <1>1, <3>1
  <2>3. (m + at + 1 <= m + n <=> at + 1 <= n) /\ (m + at + 2 <= m + n <=> at + 2 <= n)
    BY <1>0, <2>0
  <2>4. two(both, m + at) <=> two(b, at)
    BY <1>1, <2>0, <2>1, <2>3
  <2>5. three(both, m + at) <=> three(b, at)
    BY <1>1, <2>0, <2>1, <2>2, <2>3, <2>4
  <2> HIDE DEF two, three, m, n
  <2> QED
    BY <1>1, <1>w, <2>0, <2>4, <2>5 DEF n
<1> QED
  BY <1>3, <1>4 DEF both

\* Bytes that end where others begin are read as each lot is on its own.
LEMMA LossyApart ==
  ASSUME NEW s \in Seq(Bytes), NEW b \in Seq(Bytes), Apart(s, b)
  PROVE  Lossy(s \o b) = Lossy(s) \o Lossy(b)
<1> DEFINE m == Len(s)
           n == Len(b)
           both == s \o b
           x == Read(both)
           y == Read(s)
           z == Read(b)
<1>0. m \in Nat /\ n \in Nat
  OBVIOUS
<1>1. /\ both \in Seq(Bytes) /\ Len(both) = m + n
      /\ \A i \in 1..m : both[i] = s[i]
      /\ \A i \in 1..n : both[m + i] = b[i]
  BY BothAre
<1>2. /\ \A at \in 1..m : CharacterAt(both, at) = CharacterAt(s, at) /\ (Belongs(both, at) <=> Belongs(s, at))
      /\ \A at \in 1..n : CharacterAt(both, m + at) = CharacterAt(b, at) /\ (Belongs(both, m + at) <=> Belongs(b, at))
  BY <1>1, BelongsApart, WidthApart DEF CharacterAt
<1> HIDE DEF both
<1>3. /\ x \in Seq(Seq(Letters)) /\ Len(x) = m + n
      /\ \A i \in 1..m + n : x[i] = IF Belongs(both, i) THEN <<>> ELSE <<CharacterAt(both, i)>>
  BY <1>1, ReadType
<1>4. /\ y \in Seq(Seq(Letters)) /\ Len(y) = m
      /\ \A i \in 1..m : y[i] = IF Belongs(s, i) THEN <<>> ELSE <<CharacterAt(s, i)>>
  BY ReadType
<1>5. /\ z \in Seq(Seq(Letters)) /\ Len(z) = n
      /\ \A i \in 1..n : z[i] = IF Belongs(b, i) THEN <<>> ELSE <<CharacterAt(b, i)>>
  BY ReadType
<1> HIDE DEF x, y, z, m, n
<1> DEFINE w == y \o z
<1>6. /\ w \in Seq(Seq(Letters)) /\ Len(w) = m + n
      /\ \A i \in 1..m : w[i] = y[i]
      /\ \A i \in 1..n : w[m + i] = z[i]
  <2>1. y \in Seq(Seq(Letters)) /\ Len(y) = m /\ z \in Seq(Seq(Letters)) /\ Len(z) = n
    BY <1>4, <1>5
  <2>2. /\ y \o z \in Seq(Seq(Letters)) /\ Len(y \o z) = Len(y) + Len(z)
        /\ \A i \in 1..Len(y) : (y \o z)[i] = y[i]
        /\ \A i \in 1..Len(z) : (y \o z)[Len(y) + i] = z[i]
    <3> DEFINE S == Seq(Letters)
    <3>1. y \in Seq(S) /\ z \in Seq(S)
      BY <2>1
    <3> HIDE DEF S
    <3>2. /\ y \o z \in Seq(S) /\ Len(y \o z) = Len(y) + Len(z)
          /\ \A i \in 1..Len(y) : (y \o z)[i] = y[i]
          /\ \A i \in 1..Len(z) : (y \o z)[Len(y) + i] = z[i]
      BY <3>1, BothAre
    <3> QED
      BY <3>2 DEF S
  <2> QED
    BY <2>1, <2>2 DEF w
<1> HIDE DEF w
<1>7. \A i \in 1..m : x[i] = w[i]
  <2> SUFFICES ASSUME NEW i \in 1..m PROVE x[i] = w[i]
    OBVIOUS
  <2>1. i \in 1..m + n
    BY <1>0
  <2> QED
    BY <1>2, <1>3, <1>4, <1>6, <2>1
<1>8. \A i \in 1..n : x[m + i] = w[m + i]
  <2> SUFFICES ASSUME NEW i \in 1..n PROVE x[m + i] = w[m + i]
    OBVIOUS
  <2>1. m + i \in 1..m + n
    BY <1>0
  <2> QED
    BY <1>2, <1>3, <1>5, <1>6, <2>1
<1>9. \A i \in 1..m + n : x[i] = w[i]
  <2> SUFFICES ASSUME NEW i \in 1..m + n PROVE x[i] = w[i]
    OBVIOUS
  <2>1. i \in 1..m \/ (i - m \in 1..n /\ m + (i - m) = i)
    BY <1>0
  <2> QED
    BY <1>7, <1>8, <2>1
<1>10. x = w
  BY <1>3, <1>6, <1>9, SeqEqual
<1>11. FlattenSeq(w) = FlattenSeq(y) \o FlattenSeq(z)
  BY <1>4, <1>5, FlattenedBoth DEF w
<1>12. Lossy(both) = FlattenSeq(x) /\ Lossy(s) = FlattenSeq(y) /\ Lossy(b) = FlattenSeq(z)
  BY <1>1, LossyType DEF x, y, z
<1> QED
  BY <1>10, <1>11, <1>12 DEF both

\* A sequence of one.
LEMMA OneIs ==
  ASSUME NEW S, NEW s \in Seq(S), NEW x, Len(s) = 1, s[1] = x
  PROVE  s = <<x>>
<1> DEFINE t == <<x>>
<1>1. x \in S
  OBVIOUS
<1>2. t \in Seq(S) /\ Len(t) = 1 /\ t[1] = x
  BY <1>1
<1> HIDE DEF t
<1>3. \A i \in 1..Len(s) : s[i] = t[i]
  BY <1>2
<1>4. s = t
  BY <1>2, <1>3, SeqEqual
<1> QED
  BY <1>4 DEF t

\* A sequence of two.
LEMMA TwoAre ==
  ASSUME NEW S, NEW s \in Seq(S), NEW x, NEW y, Len(s) = 2, s[1] = x, s[2] = y
  PROVE  s = <<x, y>>
<1> DEFINE t == <<x, y>>
<1>1. x \in S /\ y \in S
  OBVIOUS
<1>2. t \in Seq(S) /\ Len(t) = 2 /\ t[1] = x /\ t[2] = y
  BY <1>1
<1> HIDE DEF t
<1>3. \A i \in 1..Len(s) : s[i] = t[i]
  BY <1>2
<1>4. s = t
  BY <1>2, <1>3, SeqEqual
<1> QED
  BY <1>4 DEF t

\* The character begun and not ended is a lead at the very end, or one and
\* one that continues it.
LEMMA BegunIs ==
  ASSUME NEW bytes \in Seq(Bytes)
  PROVE  LET n == Len(bytes)
         IN  Begun(bytes) = IF n > 0 /\ bytes[n] = Lead THEN <<Lead>>
                            ELSE IF n > 1 /\ bytes[n] = Continuation /\ bytes[n - 1] = Lead
                            THEN <<Lead, Continuation>>
                            ELSE <<>>
<1> DEFINE n == Len(bytes)
           from == {at \in Beginnings(bytes) : bytes[at] = Lead /\ Width(bytes, at) < 3
                                               /\ at + Width(bytes, at) > Len(bytes)}
<1>0. n \in Nat
  OBVIOUS
<1>1. Begun(bytes) = IF from = {} THEN <<>> ELSE SubSeq(bytes, Min(from), n)
  BY DEF Begun
<1>2. ASSUME NEW at
      PROVE  at \in from <=> at \in 1..n /\ bytes[at] = Lead /\ at + Width(bytes, at) = n + 1
                             /\ Width(bytes, at) < 3
  <2>1. at \in Beginnings(bytes) => at \in 1..n
    BY BeginningsAre
  <2>2. at \in 1..n /\ bytes[at] = Lead => at \in Beginnings(bytes)
    BY BeginningsAre, LeadContinues DEF Belongs
  <2>3. at \in 1..n => Width(bytes, at) \in 1..3 /\ at + Width(bytes, at) <= n + 1
    BY WidthFits
  <2>4. at \in 1..n => (at + Width(bytes, at) > n <=> at + Width(bytes, at) = n + 1)
    BY <1>0, <2>3
  <2> QED
    BY <2>1, <2>2, <2>4
<1>3. ASSUME NEW at \in from
      PROVE  /\ at \in 1..n /\ bytes[at] = Lead
             /\ at = n \/ (at = n - 1 /\ n > 1 /\ bytes[n] = Continuation)
  <2>1. at \in 1..n /\ bytes[at] = Lead /\ at + Width(bytes, at) = n + 1 /\ Width(bytes, at) \in 1..3
        /\ Width(bytes, at) < 3
    BY <1>2, WidthFits
  <2> HIDE DEF from
  <2>2. CASE Width(bytes, at) = 1
    BY <1>0, <2>1, <2>2
  <2>3. CASE Width(bytes, at) = 2
    <3>1. at = n - 1 /\ n > 1 /\ at + 1 = n
      BY <1>0, <2>1, <2>3
    <3>2. bytes[at + 1] = Continuation
      BY <2>1, <2>3, WidthIs
    <3> QED
      BY <2>1, <3>1, <3>2
  <2>4. Width(bytes, at) = 1 \/ Width(bytes, at) = 2
    BY <2>1
  <2> QED
    BY <2>2, <2>3, <2>4
<1> HIDE DEF from
<1>4. CASE n > 0 /\ bytes[n] = Lead
  <2>1. n \in 1..n /\ Width(bytes, n) = 1
    BY <1>0, <1>4, WidthIs
  <2>2. n \in from
    BY <1>0, <1>2, <1>4, <2>1
  <2>3. from = {n}
    <3>1. \A at \in from : at = n
      BY <1>3, <1>4, LeadContinues
    <3> QED
      BY <2>2, <3>1
  <2>4. from \in SUBSET Nat /\ from # {}
    BY <1>0, <2>3
  <2>5. Min(from) = n
    BY <2>3, <2>4, MinIs
  <2>6. SubSeq(bytes, n, n) = <<Lead>>
    <3> DEFINE part == SubSeq(bytes, n, n)
    <3>1. n \in 1..n + 1 /\ n \in n - 1..n
      BY <1>0, <1>4
    <3>2. part \in Seq(Bytes) /\ Len(part) = n - n + 1 /\ \A i \in 1..n - n + 1 : part[i] = bytes[n + i - 1]
      BY ONLY <3>1, bytes \in Seq(Bytes), PartIs
    <3> HIDE DEF part
    <3>3. n - n + 1 = 1 /\ n + 1 - 1 = n /\ 1 \in 1..1
      BY <1>0
    <3>4. Len(part) = 1 /\ part[1] = Lead
      BY <1>4, <3>2, <3>3
    <3> QED
      BY <3>2, <3>4, OneIs DEF part
  <2> QED
    BY <1>1, <1>4, <2>4, <2>5, <2>6
<1>5. CASE ~(n > 0 /\ bytes[n] = Lead) /\ n > 1 /\ bytes[n] = Continuation /\ bytes[n - 1] = Lead
  <2>1. n - 1 \in 1..n /\ n - 1 + 1 = n /\ ~(n - 1 + 2 <= n) /\ n \in 1..n /\ n - 1 # n
    BY <1>0, <1>5
  <2>2. Width(bytes, n - 1) = 2
    <3> DEFINE k == n - 1
    <3>1. k \in 1..Len(bytes) /\ bytes[k] = Lead /\ k + 1 <= Len(bytes) /\ bytes[k + 1] = Continuation
          /\ ~(k + 2 <= Len(bytes))
      <4>1. k \in 1..Len(bytes) /\ k + 1 = n /\ ~(k + 2 <= Len(bytes))
        BY <1>0, <1>5
      <4>2. k + 1 <= Len(bytes)
        BY <1>0, <4>1
      <4> HIDE DEF n
      <4> QED
        BY <1>5, <4>1, <4>2
    <3> HIDE DEF k
    <3>2. Width(bytes, k) = 2
      BY <3>1, WidthIs
    <3> QED
      BY <3>2 DEF k
  <2>3. n - 1 \in from
    <3>1. n - 1 + 2 = n + 1
      BY <1>0
    <3> HIDE DEF n
    <3> QED
      BY <1>2, <1>5, <2>1, <2>2, <3>1
  <2>4. from = {n - 1}
    <3>1. \A at \in from : at = n - 1
      BY <1>3, <1>5, LeadContinues
    <3> QED
      BY <2>3, <3>1
  <2>5. from \in SUBSET Nat /\ from # {}
    <3>1. n - 1 \in Nat
      BY <1>0, <1>5
    <3> QED
      BY <2>4, <3>1
  <2>6. Min(from) = n - 1
    BY <2>4, <2>5, MinIs
  <2>7. SubSeq(bytes, n - 1, n) = <<Lead, Continuation>>
    <3> DEFINE k == n - 1
               part == SubSeq(bytes, k, n)
    <3>1. k \in 1..n + 1 /\ n \in k - 1..n
      BY <1>0, <1>5
    <3>2. part \in Seq(Bytes) /\ Len(part) = n - k + 1 /\ \A i \in 1..n - k + 1 : part[i] = bytes[k + i - 1]
      <4> HIDE DEF k
      <4> QED
        BY ONLY <3>1, bytes \in Seq(Bytes), PartIs
    <3> HIDE DEF part
    <3>3. n - k + 1 = 2 /\ k + 1 - 1 = n - 1 /\ k + 2 - 1 = n /\ 1 \in 1..2 /\ 2 \in 1..2
      BY <1>0
    <3> HIDE DEF k
    <3>4. Len(part) = 2 /\ part[1] = Lead /\ part[2] = Continuation
      BY <1>5, <3>2, <3>3
    <3>5. part = <<Lead, Continuation>>
      <4>1. part \in Seq(Bytes)
        BY <3>2
      <4> QED
        BY ONLY <4>1, <3>4, TwoAre
    <3> QED
      BY <3>5 DEF part, k
  <2> QED
    BY <1>1, <1>5, <2>5, <2>6, <2>7
<1>6. CASE ~(n > 0 /\ bytes[n] = Lead) /\ ~(n > 1 /\ bytes[n] = Continuation /\ bytes[n - 1] = Lead)
  <2>1. from = {}
    <3> SUFFICES ASSUME NEW at \in from PROVE FALSE
      OBVIOUS
    <3>1. at \in 1..n /\ bytes[at] = Lead /\ (at = n \/ (at = n - 1 /\ n > 1 /\ bytes[n] = Continuation))
      BY <1>3
    <3>2. n > 0
      BY <1>0, <3>1
    <3> QED
      BY <1>6, <3>1, <3>2
  <2> QED
    BY <1>1, <1>6, <2>1
<1> QED
  BY <1>4, <1>5, <1>6

-----------------------------------------------------------------------------
(* Bytes of a character begun and not ended.                               *)

\* The bytes before the character begun and not ended.
Settled(bytes) == SubSeq(bytes, 1, Len(bytes) - Len(Begun(bytes)))

\* Bytes are those settled and those of a character begun, which is fewer
\* than three.
LEMMA SettledIs ==
  ASSUME NEW bytes \in Seq(Bytes)
  PROVE  /\ Begun(bytes) \in Seq(Bytes) /\ Len(Begun(bytes)) < 3 /\ Len(Begun(bytes)) <= Len(bytes)
         /\ Begun(bytes) # <<>> => Begun(bytes)[1] = Lead
         /\ Settled(bytes) \in Seq(Bytes) /\ Len(Settled(bytes)) = Len(bytes) - Len(Begun(bytes))
         /\ \A i \in 1..Len(Settled(bytes)) : Settled(bytes)[i] = bytes[i]
         /\ bytes = Settled(bytes) \o Begun(bytes)
<1> DEFINE n == Len(bytes)
           open == Begun(bytes)
           s == Settled(bytes)
           k == n - Len(open)
<1>0. n \in Nat /\ Lead \in Bytes /\ Continuation \in Bytes
  BY DEF Bytes
<1>1. open = IF n > 0 /\ bytes[n] = Lead THEN <<Lead>>
             ELSE IF n > 1 /\ bytes[n] = Continuation /\ bytes[n - 1] = Lead THEN <<Lead, Continuation>>
             ELSE <<>>
  BY BegunIs
<1>2. open \in Seq(Bytes) /\ Len(open) < 3 /\ Len(open) <= n /\ (open # <<>> => open[1] = Lead)
  <2> HIDE DEF open, n
  <2>1. <<Lead>> \in Seq(Bytes) /\ <<Lead, Continuation>> \in Seq(Bytes) /\ <<>> \in Seq(Bytes)
    BY <1>0
  <2> QED
    BY <1>0, <1>1, <2>1
<1>3. k \in 0..n /\ s = SubSeq(bytes, 1, k) /\ Len(open) \in Nat /\ n - k = Len(open)
  BY <1>0, <1>2 DEF Settled
<1> HIDE DEF open, s, k
<1> DEFINE rest == SubSeq(bytes, k + 1, n)
<1>4. /\ s \in Seq(Bytes) /\ Len(s) = k /\ \A i \in 1..k : s[i] = bytes[i]
      /\ rest \in Seq(Bytes) /\ Len(rest) = n - k /\ \A i \in 1..n - k : rest[i] = bytes[k + i]
      /\ bytes = s \o rest
  BY <1>3, SplitAt
<1> HIDE DEF rest, n
<1>5. \A i \in 1..Len(open) : rest[i] = open[i]
  <2>1. CASE n > 0 /\ bytes[n] = Lead
    <3>1. open = <<Lead>> /\ Len(open) = 1
      BY <1>1, <2>1
    <3>2. 1 \in 1..n - k /\ k + 1 = n
      BY <1>0, <1>3, <3>1
    <3> QED
      BY <1>4, <2>1, <3>1, <3>2
  <2>2. CASE ~(n > 0 /\ bytes[n] = Lead) /\ n > 1 /\ bytes[n] = Continuation /\ bytes[n - 1] = Lead
    <3>1. open = <<Lead, Continuation>> /\ Len(open) = 2
      BY <1>1, <2>2
    <3>2. 1 \in 1..n - k /\ 2 \in 1..n - k /\ k + 1 = n - 1 /\ k + 2 = n
      BY <1>0, <1>3, <3>1
    <3>3. rest[1] = Lead /\ rest[2] = Continuation
      BY <1>4, <2>2, <3>2
    <3>4. \A i \in 1..2 : i = 1 \/ i = 2
      OBVIOUS
    <3> QED
      BY <3>1, <3>3, <3>4
  <2>3. CASE ~(n > 0 /\ bytes[n] = Lead) /\ ~(n > 1 /\ bytes[n] = Continuation /\ bytes[n - 1] = Lead)
    <3>1. Len(open) = 0
      BY <1>1, <2>3
    <3> QED
      BY <3>1
  <2> QED
    BY <2>1, <2>2, <2>3
<1>6. rest = open
  BY <1>2, <1>3, <1>4, <1>5, SeqEqual
<1> QED
  BY <1>2, <1>3, <1>4, <1>6 DEF open, s, k, n

\* Nothing that follows belongs to what ends with no character begun.
LEMMA ApartIs ==
  ASSUME NEW s \in Seq(Bytes), NEW b \in Seq(Bytes),
         Begun(s) = <<>> \/ (b # <<>> => b[1] # Continuation)
  PROVE  Apart(s, b)
<1> DEFINE n == Len(s)
<1>0. n \in Nat /\ (s # <<>> => n > 0)
  OBVIOUS
<1>1. ASSUME Begun(s) = <<>>, s # <<>>
      PROVE  ~(s[n] = Lead \/ (n > 1 /\ s[n] = Continuation /\ s[n - 1] = Lead))
  <2>1. <<Lead>> # <<>> /\ <<Lead, Continuation>> # <<>>
    OBVIOUS
  <2> QED
    BY <1>0, <1>1, <2>1, BegunIs
<1> QED
  BY <1>1 DEF Apart

\* What's settled has no character begun, unless one is that nothing can end.
LEMMA SettledApart ==
  ASSUME NEW bytes \in Seq(Bytes), NEW more \in Seq(Bytes)
  PROVE  Apart(Settled(bytes), Begun(bytes) \o more)
<1> DEFINE s == Settled(bytes)
           open == Begun(bytes)
           b == open \o more
<1>1. /\ open \in Seq(Bytes) /\ s \in Seq(Bytes) /\ bytes = s \o open
      /\ open # <<>> => open[1] = Lead
  BY SettledIs
<1> HIDE DEF s
<1>2. b \in Seq(Bytes) /\ \A i \in 1..Len(open) : b[i] = open[i]
  BY <1>1, BothAre
<1>3. CASE open = <<>>
  <2>1. s = bytes
    BY <1>1, <1>3, ConcatEmptySeq
  <2> HIDE DEF b
  <2> QED
    BY <1>1, <1>2, <1>3, <2>1, ApartIs DEF s, b
<1>4. CASE open # <<>>
  <2>1. 1 \in 1..Len(open)
    BY <1>1, <1>4
  <2>2. b[1] # Continuation
    BY <1>1, <1>2, <1>4, <2>1, LeadContinues
  <2> HIDE DEF b, open
  <2> QED
    BY <1>1, <1>2, <2>2, ApartIs DEF s, b, open
<1> QED
  BY <1>3, <1>4

\* The bytes after those settled begin the character that all of them do.
LEMMA BegunApart ==
  ASSUME NEW s \in Seq(Bytes), NEW b \in Seq(Bytes), Apart(s, b), b = <<>> => Begun(s) = <<>>
  PROVE  Begun(s \o b) = Begun(b)
<1> DEFINE m == Len(s)
           n == Len(b)
           both == s \o b
           opens(t) == IF Len(t) > 0 /\ t[Len(t)] = Lead THEN <<Lead>>
                       ELSE IF Len(t) > 1 /\ t[Len(t)] = Continuation /\ t[Len(t) - 1] = Lead
                       THEN <<Lead, Continuation>> ELSE <<>>
<1>0. m \in Nat /\ n \in Nat
  OBVIOUS
<1>1. /\ both \in Seq(Bytes) /\ Len(both) = m + n
      /\ \A i \in 1..m : both[i] = s[i]
      /\ \A i \in 1..n : both[m + i] = b[i]
  BY BothAre
<1>2. Begun(both) = opens(both) /\ Begun(b) = opens(b)
  BY <1>1, BegunIs
<1>3. CASE b = <<>>
  <2>1. both = s
    BY <1>3, ConcatEmptySeq
  <2>2. Begun(b) = <<>>
    BY <1>3, <1>2
  <2> QED
    BY <1>3, <2>1, <2>2
<1>4. CASE b # <<>>
  <2>1. n > 0 /\ n \in 1..n /\ m + n > 0
    BY <1>0, <1>4
  <2>2. both[m + n] = b[n]
    BY <1>1, <2>1
  <2>3. CASE n > 1
    <3>1. n - 1 \in 1..n /\ m + n > 1 /\ m + n - 1 = m + (n - 1)
      BY <1>0, <2>3
    <3>2. both[m + n - 1] = b[n - 1]
      BY <1>1, <3>1
    <3> HIDE DEF both
    <3> QED
      BY <1>1, <1>2, <2>1, <2>2, <2>3, <3>1, <3>2 DEF both
  <2>4. CASE n = 1
    <3>1. m + n - 1 = m /\ (m + n > 1 => m > 0 /\ m \in 1..m /\ s # <<>>)
      BY <1>0, <2>4
    <3>2. m + n > 1 => both[m] = s[m]
      BY <1>1, <3>1
    <3>3. m + n > 1 => ~(b[1] = Continuation /\ s[m] = Lead)
      BY <1>4, <3>1 DEF Apart
    <3>4. opens(b) = IF b[1] = Lead THEN <<Lead>> ELSE <<>>
      BY <2>4
    <3>5. opens(both) = IF b[1] = Lead THEN <<Lead>> ELSE <<>>
      <4> HIDE DEF both
      <4> QED
        BY <1>1, <2>1, <2>2, <2>4, <3>1, <3>2, <3>3
    <3> HIDE DEF opens, both
    <3> QED
      BY <1>2, <3>4, <3>5 DEF both
  <2>5. n > 1 \/ n = 1
    <3> HIDE DEF n, both, opens
    <3> QED
      BY <1>0, <2>1
  <2> QED
    BY <2>3, <2>4, <2>5
<1> QED
  BY <1>3, <1>4

\* Bytes are the same whichever are put together first.
LEMMA BytesJoined ==
  ASSUME NEW a \in Seq(Bytes), NEW b \in Seq(Bytes), NEW c \in Seq(Bytes)
  PROVE  (a \o b) \o c = a \o (b \o c)
BY ConcatAssociative

\* When more bytes follow, the text grows by what's read of the character
\* begun and the bytes, as far as they're settled.
LEMMA SettledOn ==
  ASSUME NEW bytes \in Seq(Bytes), NEW piece \in Seq(Bytes)
  PROVE  LET more == Begun(bytes) \o piece
         IN  /\ Begun(bytes \o piece) = Begun(more)
             /\ Lossy(Settled(bytes \o piece)) = Lossy(Settled(bytes)) \o Lossy(Settled(more))
<1> DEFINE s == Settled(bytes)
           open == Begun(bytes)
           more == open \o piece
           all == bytes \o piece
           some == Settled(more)
<1>1. open \in Seq(Bytes) /\ s \in Seq(Bytes) /\ bytes = s \o open
  BY SettledIs
<1>2. more \in Seq(Bytes) /\ (more = <<>> => open = <<>>)
  BY <1>1, ConcatProperties, ConcatEqualIffEmpty
<1>3. all = s \o more
  <2> HIDE DEF s, open
  <2>1. (s \o open) \o piece = s \o (open \o piece)
    BY <1>1, ConcatAssociative
  <2> QED
    BY <1>1, <2>1
<1>4. all \in Seq(Bytes)
  BY ConcatProperties
<1>5. Apart(s, more)
  BY SettledApart
<1>6. more = <<>> => Begun(s) = <<>>
  <2> SUFFICES ASSUME more = <<>> PROVE Begun(s) = <<>>
    OBVIOUS
  <2>1. open = <<>>
    BY <1>2
  <2> HIDE DEF s, open
  <2>2. s = bytes
    BY <1>1, <2>1, ConcatEmptySeq
  <2> QED
    BY <2>1, <2>2 DEF open
<1> HIDE DEF s, more, all
<1>7. Begun(all) = Begun(more)
  BY <1>1, <1>2, <1>3, <1>5, <1>6, BegunApart
<1>8. some \in Seq(Bytes) /\ more = some \o Begun(more) /\ Begun(more) \in Seq(Bytes)
      /\ Len(some) = Len(more) - Len(Begun(more)) /\ \A i \in 1..Len(some) : some[i] = more[i]
  BY <1>2, SettledIs
<1>9. Settled(all) \in Seq(Bytes) /\ all = Settled(all) \o Begun(all)
  BY <1>4, SettledIs
<1> HIDE DEF some
<1>10. Settled(all) = s \o some
  <2>1. all = (s \o some) \o Begun(more)
    <3> DEFINE x == s
               y == some
               z == Begun(more)
    <3>1. x \in Seq(Bytes) /\ y \in Seq(Bytes) /\ z \in Seq(Bytes)
      BY <1>1, <1>8
    <3> HIDE DEF x, y, z
    <3>2. (x \o y) \o z = x \o (y \o z)
      BY <3>1, BytesJoined
    <3> QED
      BY <1>3, <1>8, <3>2 DEF x, y, z
  <2>2. s \o some \in Seq(Bytes)
    BY <1>1, <1>8, ConcatProperties
  <2> DEFINE x == s \o some
             y == Settled(all)
             z == Begun(more)
  <2>3. x \in Seq(Bytes) /\ y \in Seq(Bytes) /\ z \in Seq(Bytes) /\ x \o z = y \o z
    BY <1>7, <1>8, <1>9, <2>1, <2>2
  <2> HIDE DEF x, y, z
  <2>4. x = y
    BY <2>3, ConcatSimplifications
  <2> QED
    BY <2>4 DEF x, y
<1>11. Apart(s, some)
  <2>1. some # <<>> => more # <<>> /\ some[1] = more[1]
    <3> SUFFICES ASSUME some # <<>> PROVE more # <<>> /\ some[1] = more[1]
      OBVIOUS
    <3>1. 1 \in 1..Len(some) /\ Len(some) > 0 /\ Len(some) <= Len(more)
      BY <1>2, <1>8
    <3> QED
      BY <1>2, <1>8, <3>1
  <2> QED
    BY <1>5, <2>1 DEF Apart
<1>12. Lossy(s \o some) = Lossy(s) \o Lossy(some)
  BY <1>1, <1>8, <1>11, LossyApart
<1> QED
  BY <1>7, <1>10, <1>12 DEF s, open, more, all, some

\* A character begun and not ended is read as none.
LEMMA BegunRead ==
  ASSUME NEW bytes \in Seq(Bytes)
  PROVE  Lossy(bytes) = Lossy(Settled(bytes))
                          \o (IF Begun(bytes) = <<>> THEN <<>> ELSE <<NoCharacter>>)
<1> DEFINE s == Settled(bytes)
           open == Begun(bytes)
<1>1. open \in Seq(Bytes) /\ s \in Seq(Bytes) /\ bytes = s \o open
  BY SettledIs
<1>2. Apart(s, open)
  <2> HIDE DEF s, open
  <2>1. <<>> \in Seq(Bytes) /\ open \o <<>> = open
    BY <1>1, ConcatEmptySeq
  <2> QED
    BY <2>1, SettledApart DEF s, open
<1>3. Lossy(bytes) = Lossy(s) \o Lossy(open)
  <2> HIDE DEF s, open
  <2> QED
    BY <1>1, <1>2, LossyApart
<1>4. Lead \in Bytes /\ Continuation \in Bytes /\ Lead \notin Characters /\ NoCharacter \in Letters
  BY TextAssumption DEF Bytes, Letters
<1>5. Lossy(<<>>) = <<>>
  <2>1. Read(<<>>) = <<>>
    BY DEF Read
  <2> QED
    BY <2>1, FlattenedNone DEF Lossy, Read
<1>6. Lossy(<<Lead>>) = <<NoCharacter>>
  <2> DEFINE t == <<Lead>>
             r == Read(t)
  <2>1. t \in Seq(Bytes) /\ Len(t) = 1 /\ t[1] = Lead
    BY <1>4
  <2> HIDE DEF t
  <2>2. ~Belongs(t, 1)
    BY DEF Belongs
  <2>3. Width(t, 1) = 1
    BY <2>1, WidthIs
  <2>4. CharacterAt(t, 1) = NoCharacter
    BY <1>4, <2>1, <2>3 DEF CharacterAt
  <2>5. r \in Seq(Seq(Letters)) /\ Len(r) = 1 /\ r[1] = <<NoCharacter>>
    <3>1. r \in Seq(Seq(Letters)) /\ Len(r) = Len(t)
          /\ \A at \in 1..Len(t) : r[at] = IF Belongs(t, at) THEN <<>> ELSE <<CharacterAt(t, at)>>
      BY <2>1, ReadType
    <3>2. Len(t) = 1
      BY <2>1
    <3>3. r[1] = IF Belongs(t, 1) THEN <<>> ELSE <<CharacterAt(t, 1)>>
      <4> HIDE DEF r
      <4> QED
        BY <3>1, <3>2
    <3> HIDE DEF r
    <3> QED
      BY <2>2, <2>4, <3>1, <3>2, <3>3
  <2>6. <<NoCharacter>> \in Seq(Letters)
    BY <1>4
  <2> HIDE DEF r
  <2> DEFINE S == Seq(Letters)
             c == <<NoCharacter>>
  <2>7. r \in Seq(S) /\ c \in S /\ r[1] = c
    BY <2>5, <2>6
  <2> HIDE DEF S, c
  <2>8. r = <<c>>
    BY <2>5, <2>7, OneIs
  <2>9. FlattenSeq(r) = c
    BY <2>6, <2>8, FlattenedOne DEF c
  <2> QED
    BY <2>1, <2>9, LossyType DEF r, t, c
<1>7. Lossy(<<Lead, Continuation>>) = <<NoCharacter>>
  <2> DEFINE t == <<Lead, Continuation>>
             r == Read(t)
  <2>1. t \in Seq(Bytes) /\ Len(t) = 2 /\ t[1] = Lead /\ t[2] = Continuation
    BY <1>4
  <2> HIDE DEF t
  <2>2. ~Belongs(t, 1) /\ Belongs(t, 2)
    BY <2>1 DEF Belongs
  <2>3. Width(t, 1) = 2
    BY <2>1, WidthIs
  <2>4. CharacterAt(t, 1) = NoCharacter
    BY <1>4, <2>1, <2>3 DEF CharacterAt
  <2>5. r \in Seq(Seq(Letters)) /\ Len(r) = 2 /\ r[1] = <<NoCharacter>> /\ r[2] = <<>>
    <3>1. r \in Seq(Seq(Letters)) /\ Len(r) = Len(t)
          /\ \A at \in 1..Len(t) : r[at] = IF Belongs(t, at) THEN <<>> ELSE <<CharacterAt(t, at)>>
      BY <2>1, ReadType
    <3>2. Len(t) = 2
      BY <2>1
    <3>3. /\ r[1] = IF Belongs(t, 1) THEN <<>> ELSE <<CharacterAt(t, 1)>>
          /\ r[2] = IF Belongs(t, 2) THEN <<>> ELSE <<CharacterAt(t, 2)>>
      <4> HIDE DEF r
      <4>1. 1 \in 1..Len(t) /\ 2 \in 1..Len(t)
        BY <3>2
      <4> QED
        BY <3>1, <4>1
    <3> HIDE DEF r
    <3>4. r[1] = <<NoCharacter>> /\ r[2] = <<>>
      BY <2>2, <2>4, <3>3
    <3> QED
      BY <3>1, <3>2, <3>4
  <2>6. <<NoCharacter>> \in Seq(Letters) /\ <<>> \in Seq(Letters)
    BY <1>4
  <2> HIDE DEF r
  <2> DEFINE S == Seq(Letters)
             c == <<NoCharacter>>
             e == <<>>
  <2>7. r \in Seq(S) /\ c \in S /\ e \in S /\ r[1] = c /\ r[2] = e
    BY <2>5, <2>6
  <2>a. c \o e = c
    BY <2>6, ConcatEmptySeq
  <2> HIDE DEF S, c, e
  <2>8. r = <<c, e>> /\ <<c>> \in Seq(S) /\ <<e>> \in Seq(S)
    BY <2>5, <2>7, TwoAre
  <2>9. <<c, e>> = <<c>> \o <<e>>
    <3> DEFINE both == <<c>> \o <<e>>
    <3>1. Len(<<c>>) = 1 /\ Len(<<e>>) = 1 /\ <<c>>[1] = c /\ <<e>>[1] = e
      OBVIOUS
    <3>2. both \in Seq(S) /\ Len(both) = 1 + 1 /\ both[1] = c /\ both[1 + 1] = e
      BY <2>8, <3>1, BothAre
    <3> HIDE DEF both
    <3>3. Len(both) = 2 /\ both[2] = e
      BY <3>2
    <3>4. both = <<c, e>>
      BY <3>2, <3>3, TwoAre
    <3> QED
      BY <3>4 DEF both
  <2>10. FlattenSeq(<<c>> \o <<e>>) = FlattenSeq(<<c>>) \o FlattenSeq(<<e>>)
    BY <2>8, FlattenedBoth DEF S
  <2>11. FlattenSeq(<<c>>) = c /\ FlattenSeq(<<e>>) = e
    BY <2>6, FlattenedOne DEF c, e
  <2>12. FlattenSeq(r) = c
    BY <2>a, <2>8, <2>9, <2>10, <2>11
  <2> QED
    BY <2>1, <2>12, LossyType DEF r, t, c
<1>8. open = <<>> \/ open = <<Lead>> \/ open = <<Lead, Continuation>>
  BY BegunIs
<1> HIDE DEF s, open
<1>9. Lossy(open) = IF open = <<>> THEN <<>> ELSE <<NoCharacter>>
  <2>1. <<Lead>> # <<>> /\ <<Lead, Continuation>> # <<>>
    OBVIOUS
  <2> QED
    BY <1>5, <1>6, <1>7, <1>8, <2>1
<1> QED
  BY <1>3, <1>9 DEF s, open

-----------------------------------------------------------------------------
(* The cut: where values stand, and where one may begin.                   *)

\* What the bytes are read as, and what's cut out of it and put in its place.
Texts == Seq(Letters)

\* Each value is a text of something.
LEMMA ValuesAre ==
  /\ Marker \in Texts /\ Values \subseteq Texts /\ Lines \subseteq Texts
  /\ \A v \in Values : Len(v) \in Nat /\ Len(v) > 0
<1>1. \A t \in {Marker} \union Values \union Lines : t \in Texts
  <2> SUFFICES ASSUME NEW t \in {Marker} \union Values \union Lines PROVE t \in Texts
    OBVIOUS
  <2>1. t \in Seq(Range(t))
    BY TextAssumption
  <2>2. Range(t) \subseteq Letters
    BY DEF Letters
  <2> QED
    BY <2>1, <2>2, SeqMonotonic DEF Texts
<1>2. \A v \in Values : v \in Texts
  BY <1>1
<1>3. \A v \in Values : Len(v) \in Nat /\ Len(v) > 0
  <2> SUFFICES ASSUME NEW v \in Values PROVE Len(v) \in Nat /\ Len(v) > 0
    OBVIOUS
  <2>1. v \in Seq(Letters) /\ v # <<>>
    BY <1>2, SecretsAssumption DEF Texts
  <2> QED
    BY <2>1
<1> QED
  BY <1>1, <1>2, <1>3

\* A value starts at a place whose characters from there on are the value's.
LEMMA StartsIs ==
  ASSUME NEW text \in Texts, NEW at \in 1..Len(text) + 1, NEW v \in Values
  PROVE  StartsAt(text, at, v) <=> /\ at + Len(v) <= Len(text) + 1
                                   /\ \A i \in 1..Len(v) : text[at + i - 1] = v[i]
<1> DEFINE n == Len(v)
           part == SubSeq(text, at, at + n - 1)
<1>0. v \in Seq(Letters) /\ text \in Seq(Letters) /\ n \in Nat /\ n > 0 /\ Len(text) \in Nat /\ at \in Nat
  BY ValuesAre DEF Texts
<1>1. ASSUME at + n <= Len(text) + 1
      PROVE  part = v <=> \A i \in 1..n : text[at + i - 1] = v[i]
  <2> DEFINE k == at + n - 1
  <2>1. at \in 1..Len(text) + 1 /\ k \in at - 1..Len(text) /\ k - at + 1 = n
    BY <1>0, <1>1
  <2> HIDE DEF k, n
  <2>2. /\ SubSeq(text, at, k) \in Seq(Letters) /\ Len(SubSeq(text, at, k)) = n
        /\ \A i \in 1..n : SubSeq(text, at, k)[i] = text[at + i - 1]
    <3>1. /\ SubSeq(text, at, k) \in Seq(Letters) /\ Len(SubSeq(text, at, k)) = k - at + 1
          /\ \A i \in 1..k - at + 1 : SubSeq(text, at, k)[i] = text[at + i - 1]
      BY <1>0, <2>1, PartIs
    <3> QED
      BY <2>1, <3>1
  <2>3. ASSUME \A i \in 1..n : text[at + i - 1] = v[i] PROVE SubSeq(text, at, k) = v
    <3>1. Len(v) = n
      BY DEF n
    <3>2. \A i \in 1..n : SubSeq(text, at, k)[i] = v[i]
      BY <2>2, <2>3
    <3> QED
      BY <1>0, <2>2, <3>1, <3>2, SeqEqual
  <2> QED
    BY <2>2, <2>3 DEF k
<1> QED
  BY <1>1 DEF StartsAt

\* A value may begin at a place from where on all of the text is its start.
LEMMA MayBeginIs ==
  ASSUME NEW text \in Texts, NEW at \in 1..Len(text) + 1
  PROVE  MayBegin(text, at) <=>
           \E v \in Values : /\ Len(text) - at + 1 < Len(v)
                             /\ \A i \in 1..Len(text) - at + 1 : text[at + i - 1] = v[i]
<1> DEFINE n == Len(text) - at + 1
           rest == SubSeq(text, at, Len(text))
<1>0. text \in Seq(Letters) /\ Len(text) \in Nat /\ at \in Nat /\ n \in Nat /\ Len(text) \in at - 1..Len(text)
  BY DEF Texts
<1>1. rest \in Seq(Letters) /\ Len(rest) = n /\ \A i \in 1..n : rest[i] = text[at + i - 1]
  BY <1>0, PartIs
<1> HIDE DEF n, rest
<1>2. ASSUME NEW v \in Values
      PROVE  IsStrictPrefix(rest, v) <=> n < Len(v) /\ \A i \in 1..n : rest[i] = v[i]
  <2>0. v \in Seq(Letters) /\ Len(v) \in Nat
    BY ValuesAre DEF Texts
  <2>1. SubSeq(rest, 1, n) = rest
    BY <1>0, <1>1, SubSeqFull
  <2>2. ASSUME n <= Len(v)
        PROVE  SubSeq(v, 1, n) = rest <=> \A i \in 1..n : rest[i] = v[i]
    <3>1. n \in 0..Len(v)
      BY <1>0, <2>0, <2>2
    <3>2. /\ SubSeq(v, 1, n) \in Seq(Letters) /\ Len(SubSeq(v, 1, n)) = n
          /\ \A i \in 1..n : SubSeq(v, 1, n)[i] = v[i]
      BY <2>0, <3>1, SplitAt
    <3>3. ASSUME \A i \in 1..n : rest[i] = v[i] PROVE SubSeq(v, 1, n) = rest
      <4>1. \A i \in 1..n : SubSeq(v, 1, n)[i] = rest[i]
        BY <3>2, <3>3
      <4> QED
        BY <1>1, <3>2, <4>1, SeqEqual
    <3> QED
      BY <3>2, <3>3
  <2>3. ASSUME IsStrictPrefix(rest, v) PROVE n < Len(v) /\ \A i \in 1..n : rest[i] = v[i]
    <3>1. n <= Len(v) /\ SubSeq(v, 1, n) = rest /\ rest # v
      BY <1>1, <2>1, <2>3 DEF IsStrictPrefix, IsPrefix
    <3>2. n # Len(v)
      <4>1. SubSeq(v, 1, Len(v)) = v
        BY <2>0, SubSeqFull
      <4> QED
        BY <3>1, <4>1
    <3> QED
      BY <1>0, <2>0, <2>2, <3>1, <3>2
  <2>4. ASSUME n < Len(v), \A i \in 1..n : rest[i] = v[i] PROVE IsStrictPrefix(rest, v)
    <3>1. n <= Len(v) /\ rest # v
      BY <1>0, <1>1, <2>0, <2>4
    <3>2. SubSeq(v, 1, n) = rest
      BY <2>2, <2>4, <3>1
    <3> QED
      BY <1>1, <2>1, <3>1, <3>2 DEF IsStrictPrefix, IsPrefix
  <2> QED
    BY <2>3, <2>4
<1>3. MayBegin(text, at) <=> \E v \in Values : n < Len(v) /\ \A i \in 1..n : text[at + i - 1] = v[i]
  <2>1. MayBegin(text, at) <=> \E v \in Values : IsStrictPrefix(rest, v)
    BY DEF MayBegin, rest
  <2> QED
    BY <1>1, <1>2, <2>1
<1> QED
  BY <1>3 DEF n

\* The text from a place on: what starts in it and may begin in it does so
\* wherever the text before it ends.
Ends(text, d, rest) ==
  /\ Len(text) = d + Len(rest)
  /\ \A i \in 1..Len(rest) : text[d + i] = rest[i]

\* A value stands in what follows where it stands in the whole.
LEMMA StartsInRest ==
  ASSUME NEW text \in Texts, NEW rest \in Texts, NEW d \in Nat, Ends(text, d, rest),
         NEW at \in 1..Len(rest) + 1
  PROVE  /\ BegunAt(text, d + at) = BegunAt(rest, at)
         /\ MayBegin(text, d + at) <=> MayBegin(rest, at)
<1>0. Len(text) \in Nat /\ Len(rest) \in Nat /\ at \in Nat /\ at >= 1 /\ Len(text) = d + Len(rest)
      /\ d + at \in 1..Len(text) + 1
  BY DEF Texts, Ends
<1>1. \A k \in 1..Len(rest) : text[d + k] = rest[k]
  BY DEF Ends
<1>2. ASSUME NEW v \in Values PROVE StartsAt(text, d + at, v) <=> StartsAt(rest, at, v)
  <2>0. Len(v) \in Nat
    BY ValuesAre
  <2>1. (d + at) + Len(v) <= Len(text) + 1 <=> at + Len(v) <= Len(rest) + 1
    BY <1>0, <2>0
  <2>2. ASSUME at + Len(v) <= Len(rest) + 1, NEW i \in 1..Len(v)
        PROVE  text[(d + at) + i - 1] = rest[at + i - 1]
    <3>1. at + i - 1 \in 1..Len(rest) /\ (d + at) + i - 1 = d + (at + i - 1)
      BY <1>0, <2>0, <2>2
    <3> QED
      BY <1>1, <3>1
  <2> QED
    BY <1>0, <2>1, <2>2, StartsIs
<1>3. BegunAt(text, d + at) = BegunAt(rest, at)
  BY <1>2 DEF BegunAt
<1>4. Len(text) - (d + at) + 1 = Len(rest) - at + 1
  BY <1>0
<1>5. ASSUME NEW i \in 1..Len(rest) - at + 1
      PROVE  text[(d + at) + i - 1] = rest[at + i - 1]
  <2>1. at + i - 1 \in 1..Len(rest) /\ (d + at) + i - 1 = d + (at + i - 1)
    BY <1>0
  <2> QED
    BY <1>1, <2>1
<1> DEFINE n == Len(rest) - at + 1
<1>6. MayBegin(rest, at) <=> \E v \in Values : n < Len(v) /\ \A i \in 1..n : rest[at + i - 1] = v[i]
  BY MayBeginIs
<1>7. MayBegin(text, d + at) <=>
        \E v \in Values : n < Len(v) /\ \A i \in 1..n : text[(d + at) + i - 1] = v[i]
  <2> DEFINE m == Len(text) - (d + at) + 1
  <2>1. MayBegin(text, d + at) <=>
          \E v \in Values : m < Len(v) /\ \A i \in 1..m : text[(d + at) + i - 1] = v[i]
    BY <1>0, MayBeginIs
  <2>2. m = n
    BY <1>4
  <2> HIDE DEF m, n
  <2> QED
    BY <2>1, <2>2
<1> HIDE DEF n
<1>8. MayBegin(text, d + at) <=> MayBegin(rest, at)
  BY <1>5, <1>6, <1>7 DEF n
<1> QED
  BY <1>3, <1>8

\* What starts at a place no value may begin at doesn't depend on what follows.
LEMMA StartsAlready ==
  ASSUME NEW text \in Texts, NEW more \in Texts, NEW at \in 1..Len(text), ~MayBegin(text, at)
  PROVE  /\ BegunAt(text \o more, at) = BegunAt(text, at)
         /\ ~MayBegin(text \o more, at)
<1> DEFINE all == text \o more
<1>0. /\ text \in Seq(Letters) /\ more \in Seq(Letters)
      /\ Len(text) \in Nat /\ Len(more) \in Nat /\ at \in Nat /\ at >= 1
  BY DEF Texts
<1>1. /\ all \in Texts /\ Len(all) = Len(text) + Len(more)
      /\ \A i \in 1..Len(text) : all[i] = text[i]
  BY <1>0, BothAre DEF Texts
<1> HIDE DEF all
<1>2. at \in 1..Len(text) + 1 /\ at \in 1..Len(all) + 1
  BY <1>0, <1>1
<1>3. ASSUME NEW i \in Nat, i >= 1, at + i <= Len(text) + 1 PROVE all[at + i - 1] = text[at + i - 1]
  <2>1. at + i - 1 \in 1..Len(text)
    BY <1>0, <1>3
  <2> QED
    BY <1>1, <2>1
<1>4. ASSUME NEW v \in Values,
             \A i \in 1..Len(v) : at + i <= Len(text) + 1 => all[at + i - 1] = v[i]
      PROVE  at + Len(v) <= Len(text) + 1
  <2>0. Len(v) \in Nat
    BY ValuesAre
  <2>1. SUFFICES ASSUME Len(text) - at + 1 < Len(v) PROVE FALSE
    BY <1>0, <2>0
  <2>2. ASSUME NEW i \in 1..Len(text) - at + 1 PROVE text[at + i - 1] = v[i]
    <3>1. i \in Nat /\ i >= 1 /\ at + i <= Len(text) + 1 /\ i \in 1..Len(v)
      BY <1>0, <2>0, <2>1
    <3> QED
      BY <1>3, <1>4, <3>1
  <2> QED
    BY <1>2, <2>1, <2>2, MayBeginIs
<1>5. ASSUME NEW v \in Values PROVE StartsAt(all, at, v) <=> StartsAt(text, at, v)
  <2>0. Len(v) \in Nat
    BY ValuesAre
  <2>1. ASSUME StartsAt(all, at, v) PROVE StartsAt(text, at, v)
    <3>1. \A i \in 1..Len(v) : all[at + i - 1] = v[i]
      BY <1>1, <1>2, <2>1, StartsIs
    <3>2. at + Len(v) <= Len(text) + 1
      BY <1>4, <3>1
    <3>3. ASSUME NEW i \in 1..Len(v) PROVE text[at + i - 1] = v[i]
      <4>1. i \in Nat /\ i >= 1 /\ at + i <= Len(text) + 1
        BY <1>0, <2>0, <3>2
      <4> QED
        BY <1>3, <3>1, <4>1
    <3> QED
      BY <1>2, <3>2, <3>3, StartsIs
  <2>2. ASSUME StartsAt(text, at, v) PROVE StartsAt(all, at, v)
    <3>1. at + Len(v) <= Len(text) + 1 /\ \A i \in 1..Len(v) : text[at + i - 1] = v[i]
      BY <1>2, <2>2, StartsIs
    <3>2. at + Len(v) <= Len(all) + 1
      BY <1>0, <1>1, <2>0, <3>1
    <3>3. ASSUME NEW i \in 1..Len(v) PROVE all[at + i - 1] = v[i]
      <4>1. i \in Nat /\ i >= 1 /\ at + i <= Len(text) + 1
        BY <1>0, <2>0, <3>1
      <4> QED
        BY <1>3, <3>1, <4>1
    <3> QED
      BY <1>1, <1>2, <3>2, <3>3, StartsIs
  <2> QED
    BY <2>1, <2>2
<1>6. BegunAt(all, at) = BegunAt(text, at)
  BY <1>5 DEF BegunAt
<1>7. ~MayBegin(all, at)
  <2> SUFFICES ASSUME MayBegin(all, at) PROVE FALSE
    OBVIOUS
  <2>1. PICK v \in Values : /\ Len(all) - at + 1 < Len(v)
                            /\ \A i \in 1..Len(all) - at + 1 : all[at + i - 1] = v[i]
    BY <1>1, <1>2, MayBeginIs
  <2>2. Len(v) \in Nat
    BY ValuesAre
  <2>3. ASSUME NEW i \in 1..Len(v), at + i <= Len(text) + 1 PROVE all[at + i - 1] = v[i]
    <3>1. i \in 1..Len(all) - at + 1
      BY <1>0, <1>1, <2>2, <2>3
    <3> QED
      BY <2>1, <3>1
  <2>4. at + Len(v) <= Len(text) + 1
    BY <1>4, <2>3
  <2> QED
    BY <1>0, <1>1, <2>1, <2>2, <2>4
<1> QED
  BY <1>6, <1>7 DEF all

-----------------------------------------------------------------------------
(* Where the cuts end, and which place waits.                              *)

\* A value that's begun is of some length, and ends with the text.
LEMMA BegunAtIs ==
  ASSUME NEW text \in Texts, NEW at \in 1..Len(text) + 1
  PROVE  \A n \in BegunAt(text, at) : n \in Nat /\ n > 0 /\ at + n <= Len(text) + 1
<1>1. ASSUME NEW v \in Values, StartsAt(text, at, v) PROVE Len(v) \in Nat /\ Len(v) > 0 /\ at + Len(v) <= Len(text) + 1
  BY <1>1, ValuesAre, StartsIs
<1> QED
  BY <1>1 DEF BegunAt

\* Where the cuts end is a place the text has, and the last of theirs.
LEMMA CutToIs ==
  ASSUME NEW text \in Texts, NEW covered \in Nat, NEW at \in 1..Len(text) + 1
  PROVE  /\ CutTo(text, covered, at) \in Nat
         /\ \A k \in Nat : k < CutTo(text, covered, at) <=>
              k <= covered \/ \E q \in 1..at - 1 : \E n \in BegunAt(text, q) : k < q + n
<1> DEFINE ends(q) == {q + n : n \in BegunAt(text, q)}
           all == UNION {ends(q) : q \in 1..at - 1}
           T == {covered + 1} \union all
           b == Len(text) + 1 + covered
<1>0. Len(text) \in Nat /\ at \in Nat /\ b \in Nat /\ \A q \in 1..at - 1 : q \in 1..Len(text) + 1
  BY DEF Texts
<1>1. CutTo(text, covered, at) = Max(T)
  BY DEF CutTo
<1>2. \A q \in 1..at - 1 : \A n \in BegunAt(text, q) : n \in Nat /\ q + n \in 0..b
  <2> SUFFICES ASSUME NEW q \in 1..at - 1, NEW n \in BegunAt(text, q) PROVE n \in Nat /\ q + n \in 0..b
    OBVIOUS
  <2>1. n \in Nat /\ q + n <= Len(text) + 1
    BY <1>0, BegunAtIs
  <2> QED
    BY <1>0, <2>1
<1>3. \A e : e \in all <=> \E q \in 1..at - 1 : \E n \in BegunAt(text, q) : e = q + n
  OBVIOUS
<1> HIDE DEF all, b
<1>4. T \in SUBSET (0..b) /\ T # {}
  <2>1. covered + 1 \in 0..b
    BY <1>0 DEF b
  <2>2. \A e \in all : e \in 0..b
    BY <1>2, <1>3
  <2> QED
    BY <2>1, <2>2
<1>5. \A e : e \in T <=> e = covered + 1 \/ e \in all
  OBVIOUS
<1> HIDE DEF T
<1>6. Max(T) \in T /\ \A e \in T : e <= Max(T)
  BY <1>0, <1>4, MaxIs
<1> DEFINE m == Max(T)
<1>7. m \in Nat
  <2>1. \A e \in 0..b : e \in Nat
    BY <1>0
  <2>2. \A e \in T : e \in Nat
    BY <1>4, <2>1
  <2> QED
    BY <1>6, <2>2
<1> HIDE DEF m
<1>8. ASSUME NEW k \in Nat
      PROVE  k < m <=> k <= covered \/ \E q \in 1..at - 1 : \E n \in BegunAt(text, q) : k < q + n
  <2>1. ASSUME k < m PROVE k <= covered \/ \E q \in 1..at - 1 : \E n \in BegunAt(text, q) : k < q + n
    <3>1. m = covered + 1 \/ \E q \in 1..at - 1 : \E n \in BegunAt(text, q) : m = q + n
      BY <1>3, <1>5, <1>6 DEF m
    <3>2. m = covered + 1 => k <= covered
      BY <1>7, <2>1
    <3> QED
      BY <2>1, <3>1, <3>2
  <2>2. ASSUME k <= covered PROVE k < m
    <3>1. covered + 1 <= m
      BY <1>5, <1>6 DEF m
    <3> QED
      BY <1>7, <2>2, <3>1
  <2>3. ASSUME NEW q \in 1..at - 1, NEW n \in BegunAt(text, q), k < q + n PROVE k < m
    <3>1. q + n <= m /\ q + n \in Nat
      <4>1. q + n \in T
        BY <1>3, <1>5
      <4> QED
        BY <1>0, <1>2, <1>6, <4>1 DEF m
    <3> QED
      BY <1>7, <2>3, <3>1
  <2> QED
    BY <2>1, <2>2, <2>3
<1> QED
  BY <1>1, <1>7, <1>8 DEF m

\* The place that waits is the first a value may begin at.
LEMMA HeldFromIs ==
  ASSUME NEW text \in Texts, NEW ended \in BOOLEAN
  PROVE  LET from == HeldFrom(text, ended)
         IN  /\ from \in 1..Len(text) + 1
             /\ \A at \in 1..from - 1 : ended \/ ~MayBegin(text, at)
             /\ from <= Len(text) => ~ended /\ MayBegin(text, from)
<1> DEFINE T == {Len(text) + 1} \union {at \in DOMAIN text : ~ended /\ MayBegin(text, at)}
           from == Min(T)
<1>0. Len(text) \in Nat /\ DOMAIN text = 1..Len(text)
  BY DEF Texts
<1>1. HeldFrom(text, ended) = from
  BY DEF HeldFrom
<1>2. T \in SUBSET Nat /\ T # {} /\ \A at \in T : at \in 1..Len(text) + 1
  BY <1>0
<1>3. \A at : at \in T <=> at = Len(text) + 1 \/ (at \in 1..Len(text) /\ ~ended /\ MayBegin(text, at))
  BY <1>0
<1> HIDE DEF T
<1>4. from \in T /\ \A at \in T : from <= at
  BY <1>2, MinIs
<1> HIDE DEF from
<1>5. ASSUME NEW at \in 1..from - 1 PROVE ended \/ ~MayBegin(text, at)
  <2>1. at \in 1..Len(text) /\ ~(from <= at)
    BY <1>0, <1>2, <1>4
  <2> QED
    BY <1>3, <1>4, <2>1
<1>6. ASSUME from <= Len(text) PROVE ~ended /\ MayBegin(text, from)
  <2>1. from # Len(text) + 1
    BY <1>0, <1>2, <1>4, <1>6
  <2> QED
    BY <1>3, <1>4, <2>1
<1> QED
  BY <1>1, <1>2, <1>4, <1>5, <1>6

\* It's the only such place.
LEMMA HeldFromOnly ==
  ASSUME NEW text \in Texts, NEW ended \in BOOLEAN, NEW k \in 1..Len(text) + 1,
         \A at \in 1..k - 1 : ended \/ ~MayBegin(text, at),
         k <= Len(text) => ~ended /\ MayBegin(text, k)
  PROVE  HeldFrom(text, ended) = k
<1> DEFINE from == HeldFrom(text, ended)
<1>0. Len(text) \in Nat
  BY DEF Texts
<1>1. /\ from \in 1..Len(text) + 1
      /\ \A at \in 1..from - 1 : ended \/ ~MayBegin(text, at)
      /\ from <= Len(text) => ~ended /\ MayBegin(text, from)
  BY HeldFromIs
<1> HIDE DEF from
<1>2. ~(from < k)
  <2> SUFFICES ASSUME from < k PROVE FALSE
    OBVIOUS
  <2>1. from \in 1..k - 1 /\ from <= Len(text)
    BY <1>0, <1>1
  <2> QED
    BY <1>1, <2>1
<1>3. ~(k < from)
  <2> SUFFICES ASSUME k < from PROVE FALSE
    OBVIOUS
  <2>1. k \in 1..from - 1 /\ k <= Len(text)
    BY <1>0, <1>1
  <2> QED
    BY <1>1, <2>1
<1> QED
  BY <1>0, <1>1, <1>2, <1>3 DEF from

\* What's still covered is as far as a value begun before it goes on.
LEMMA StillCoveredIs ==
  ASSUME NEW text \in Texts, NEW covered \in Nat, NEW ended \in BOOLEAN
  PROVE  LET from == HeldFrom(text, ended)
         IN  /\ StillCovered(text, covered, ended) \in Nat
             /\ \A k \in Nat : k < StillCovered(text, covered, ended) <=>
                  from + k <= covered \/ \E q \in 1..from - 1 : \E n \in BegunAt(text, q) : from + k < q + n
<1> DEFINE from == HeldFrom(text, ended)
           to == CutTo(text, covered, from)
           still == Max({0, to - from})
<1>0. Len(text) \in Nat /\ from \in 1..Len(text) + 1 /\ from \in Nat
  BY HeldFromIs DEF Texts
<1>1. StillCovered(text, covered, ended) = still
  BY DEF StillCovered
<1>2. /\ to \in Nat
      /\ \A k \in Nat : k < to <=>
           k <= covered \/ \E q \in 1..from - 1 : \E n \in BegunAt(text, q) : k < q + n
  BY <1>0, CutToIs
<1> HIDE DEF from, to
<1>3. still = IF to > from THEN to - from ELSE 0
  BY <1>0, <1>2 DEF Max
<1> HIDE DEF still
<1>4. still \in Nat /\ \A k \in Nat : from + k \in Nat /\ (k < still <=> from + k < to)
  BY <1>0, <1>2, <1>3
<1> QED
  BY <1>1, <1>2, <1>4 DEF from

\* Two numbers that the same ones are less than are the same.
LEMMA SameNumber ==
  ASSUME NEW m \in Nat, NEW n \in Nat, \A k \in Nat : k < m <=> k < n
  PROVE  m = n
<1>1. m < n => m < m
  OBVIOUS
<1>2. n < m => n < n
  OBVIOUS
<1> QED
  BY <1>1, <1>2

-----------------------------------------------------------------------------
(* What's handed on, and what's held.                                      *)

\* What's handed on of one place.
Hand(text, covered, at) ==
  IF at < CutTo(text, covered, at) THEN <<>>
  ELSE IF BegunAt(text, at) = {} THEN <<text[at]>>
  ELSE Marker

\* What's handed on of each place before the one that waits.
Hands(text, covered, ended) ==
  [at \in 1..HeldFrom(text, ended) - 1 |-> Hand(text, covered, at)]

\* What's handed on of each place is a text.
LEMMA HandsType ==
  ASSUME NEW text \in Texts, NEW covered \in Nat, NEW ended \in BOOLEAN
  PROVE  /\ Hands(text, covered, ended) \in Seq(Texts)
         /\ Len(Hands(text, covered, ended)) = HeldFrom(text, ended) - 1
         /\ \A at \in 1..HeldFrom(text, ended) - 1 :
              Hands(text, covered, ended)[at] = Hand(text, covered, at)
         /\ HandedOn(text, covered, ended) = FlattenSeq(Hands(text, covered, ended))
         /\ HandedOn(text, covered, ended) \in Texts
<1> DEFINE n == HeldFrom(text, ended) - 1
           hands == Hands(text, covered, ended)
<1>0. n \in Nat /\ n <= Len(text) /\ Len(text) \in Nat
  BY HeldFromIs DEF Texts
<1>1. \A at \in 1..n : Hand(text, covered, at) \in Texts
  <2> SUFFICES ASSUME NEW at \in 1..n PROVE Hand(text, covered, at) \in Texts
    OBVIOUS
  <2> HIDE DEF n
  <2>1. text[at] \in Letters
    <3>1. at \in 1..Len(text)
      BY <1>0
    <3> QED
      BY <3>1 DEF Texts
  <2>2. <<text[at]>> \in Texts /\ <<>> \in Texts
    BY <2>1 DEF Texts
  <2> QED
    BY <2>2, ValuesAre DEF Hand
<1>2. HandedOn(text, covered, ended) = FlattenSeq(hands)
  BY DEF HandedOn, Hands, Hand
<1>3. hands = [at \in 1..n |-> Hand(text, covered, at)]
  BY DEF Hands
<1> HIDE DEF n
<1>4. hands \in Seq(Texts)
  <2> DEFINE e(at) == Hand(text, covered, at)
             S == Texts
  <2>1. \A at \in 1..n : e(at) \in S
    BY <1>1
  <2> HIDE DEF e, S
  <2>2. [at \in 1..n |-> e(at)] \in Seq(S)
    BY <1>0, <2>1, IsASeq
  <2> QED
    BY <1>3, <2>2 DEF e, S
<1> HIDE DEF hands
<1>5. Len(hands) = n /\ \A at \in 1..n : hands[at] = Hand(text, covered, at)
  BY <1>0, <1>3
<1>6. FlattenSeq(hands) \in Texts
  BY <1>4, FlattenedType DEF Texts
<1> QED
  BY <1>2, <1>4, <1>5, <1>6 DEF n, hands

\* Texts are the same whichever are put together first.
LEMMA TextsJoined ==
  ASSUME NEW a \in Seq(Letters), NEW b \in Seq(Letters), NEW c \in Seq(Letters)
  PROVE  (a \o b) \o c = a \o (b \o c)
BY ConcatAssociative

\* What's held of a text: from where a value may begin in it.
HeldOf(text) == SubSeq(text, HeldFrom(text, FALSE), Len(text))

CoveredOf(text) == StillCovered(text, 0, FALSE)

\* A text that goes on is what was handed on of it, then what was held of
\* it and what follows.
LEMMA HeldOfIs ==
  ASSUME NEW text \in Texts, NEW more \in Texts
  PROVE  LET d == HeldFrom(text, FALSE) - 1
             all == text \o more
             rest == HeldOf(text) \o more
         IN  /\ d \in 0..Len(text) /\ all \in Texts /\ rest \in Texts /\ HeldOf(text) \in Texts
             /\ Len(HeldOf(text)) = Len(text) - d
             /\ Ends(all, d, rest)
             /\ \A i \in 1..d : all[i] = text[i]
             /\ all = SubSeq(text, 1, d) \o rest
<1> DEFINE d == HeldFrom(text, FALSE) - 1
           h == HeldOf(text)
           all == text \o more
           rest == h \o more
           begin == SubSeq(text, 1, d)
<1>0. text \in Seq(Letters) /\ more \in Seq(Letters) /\ Len(text) \in Nat /\ Len(more) \in Nat
  BY DEF Texts
<1>1. d \in 0..Len(text) /\ HeldFrom(text, FALSE) = d + 1
  <2> DEFINE from == HeldFrom(text, FALSE)
  <2>1. from \in 1..Len(text) + 1
    BY HeldFromIs
  <2>2. d = from - 1
    OBVIOUS
  <2> HIDE DEF from, d
  <2>3. d \in 0..Len(text) /\ from = d + 1
    BY <1>0, <2>1, <2>2
  <2> QED
    BY <2>3 DEF from
<1>2. h = SubSeq(text, d + 1, Len(text))
  BY <1>1 DEF HeldOf
<1> HIDE DEF d, h
<1>3. /\ begin \in Seq(Letters) /\ h \in Seq(Letters) /\ Len(begin) = d /\ Len(h) = Len(text) - d
      /\ \A i \in 1..Len(text) - d : h[i] = text[d + i]
      /\ text = begin \o h
  <2>1. /\ begin \in Seq(Letters) /\ SubSeq(text, d + 1, Len(text)) \in Seq(Letters)
        /\ Len(begin) = d /\ Len(SubSeq(text, d + 1, Len(text))) = Len(text) - d
        /\ \A i \in 1..Len(text) - d : SubSeq(text, d + 1, Len(text))[i] = text[d + i]
        /\ text = begin \o SubSeq(text, d + 1, Len(text))
    BY <1>0, <1>1, SplitAt
  <2> HIDE DEF begin
  <2> QED
    BY <1>2, <2>1
<1> HIDE DEF begin
<1>4. /\ all \in Seq(Letters) /\ Len(all) = Len(text) + Len(more)
      /\ \A i \in 1..Len(text) : all[i] = text[i]
      /\ \A i \in 1..Len(more) : all[Len(text) + i] = more[i]
  BY <1>0, BothAre
<1>5. /\ rest \in Seq(Letters) /\ Len(rest) = Len(h) + Len(more)
      /\ \A i \in 1..Len(h) : rest[i] = h[i]
      /\ \A i \in 1..Len(more) : rest[Len(h) + i] = more[i]
  <2>1. h \in Seq(Letters)
    BY <1>3
  <2> QED
    BY <1>0, <2>1, BothAre
<1>6. all = begin \o rest
  <2>1. (begin \o h) \o more = begin \o (h \o more)
    <3> DEFINE x == begin
    <3> HIDE DEF x
    <3> QED
      BY <1>0, <1>3, TextsJoined
  <2> QED
    BY <1>3, <2>1
<1> HIDE DEF all, rest
<1>7. Ends(all, d, rest)
  <2>1. Len(all) = d + Len(rest)
    BY <1>0, <1>1, <1>3, <1>4, <1>5
  <2>2. ASSUME NEW i \in 1..Len(rest) PROVE all[d + i] = rest[i]
    <3>1. CASE i <= Len(h)
      <4>1. i \in 1..Len(h) /\ d + i \in 1..Len(text) /\ i \in 1..Len(text) - d
        BY <1>0, <1>1, <1>3, <3>1
      <4> QED
        BY <1>3, <1>4, <1>5, <4>1
    <3>2. CASE i > Len(h)
      <4> DEFINE j == i - Len(h)
      <4>1. j \in 1..Len(more) /\ Len(h) + j = i /\ Len(text) + j = d + i
        BY <1>0, <1>1, <1>3, <1>5, <3>2
      <4> HIDE DEF j
      <4>2. all[Len(text) + j] = more[j] /\ rest[Len(h) + j] = more[j]
        BY <1>4, <1>5, <4>1
      <4> QED
        BY <4>1, <4>2
    <3>3. i <= Len(h) \/ i > Len(h)
      BY <1>0, <1>1, <1>3
    <3> QED
      BY <3>1, <3>2, <3>3
  <2> QED
    BY <2>1, <2>2 DEF Ends
<1>8. \A i \in 1..d : all[i] = text[i]
  <2>1. \A i \in 1..d : i \in 1..Len(text)
    BY <1>0, <1>1
  <2> QED
    BY <1>4, <2>1
<1> QED
  BY <1>1, <1>3, <1>4, <1>5, <1>6, <1>7, <1>8 DEF d, h, all, rest, begin, Texts

\* A text that goes on is cut where it was and where what was held of it is,
\* as what follows it goes on.
LEMMA CutOn ==
  ASSUME NEW text \in Texts, NEW more \in Texts, NEW ended \in BOOLEAN
  PROVE  LET all == text \o more
             rest == HeldOf(text) \o more
             d == HeldFrom(text, FALSE) - 1
             c == CoveredOf(text)
         IN  /\ HeldFrom(all, ended) = d + HeldFrom(rest, ended)
             /\ HandedOn(all, 0, ended) = HandedOn(text, 0, FALSE) \o HandedOn(rest, c, ended)
             /\ StillCovered(all, 0, ended) = StillCovered(rest, c, ended)
<1> DEFINE all == text \o more
           rest == HeldOf(text) \o more
           d == HeldFrom(text, FALSE) - 1
           c == CoveredOf(text)
           f == HeldFrom(rest, ended)
<1>0. /\ d \in 0..Len(text) /\ all \in Texts /\ rest \in Texts
      /\ Ends(all, d, rest) /\ \A i \in 1..d : all[i] = text[i]
  BY HeldOfIs
<1>1. /\ Len(text) \in Nat /\ Len(all) \in Nat /\ Len(rest) \in Nat /\ d \in Nat
      /\ Len(all) = d + Len(rest) /\ d <= Len(text)
      /\ \A i \in 1..Len(rest) : all[d + i] = rest[i]
  <2> HIDE DEF all, rest, d
  <2> QED
    BY <1>0 DEF Texts, Ends
<1>2. HeldFrom(text, FALSE) = d + 1 /\ \A at \in 1..d : ~MayBegin(text, at)
  <2> DEFINE from == HeldFrom(text, FALSE)
  <2>1. from \in 1..Len(text) + 1 /\ \A at \in 1..from - 1 : ~MayBegin(text, at)
    BY HeldFromIs
  <2>2. d = from - 1
    OBVIOUS
  <2> HIDE DEF from, d
  <2>3. from = d + 1 /\ from - 1 = d
    BY <1>1, <2>1, <2>2
  <2> QED
    BY <2>1, <2>3 DEF from
<1>3. c \in Nat /\ \A k \in Nat : k < c <=>
        (d + 1) + k <= 0 \/ \E q \in 1..d : \E n \in BegunAt(text, q) : (d + 1) + k < q + n
  <2> DEFINE from == HeldFrom(text, FALSE)
  <2>1. StillCovered(text, 0, FALSE) \in Nat /\ \A k \in Nat : k < StillCovered(text, 0, FALSE) <=>
          from + k <= 0 \/ \E q \in 1..from - 1 : \E n \in BegunAt(text, q) : from + k < q + n
    BY StillCoveredIs
  <2>2. from = d + 1 /\ from - 1 = d
    BY <1>1, <1>2
  <2> HIDE DEF from, d
  <2> QED
    BY <2>1, <2>2 DEF CoveredOf
<1> HIDE DEF all, rest, d, c
<1>4. \A at \in 1..d : BegunAt(all, at) = BegunAt(text, at) /\ ~MayBegin(all, at)
  <2> SUFFICES ASSUME NEW at \in 1..d PROVE BegunAt(all, at) = BegunAt(text, at) /\ ~MayBegin(all, at)
    OBVIOUS
  <2>1. at \in 1..Len(text) /\ ~MayBegin(text, at)
    BY <1>1, <1>2
  <2> QED
    BY <2>1, StartsAlready DEF all
<1>5. \A at \in 1..Len(rest) + 1 : /\ BegunAt(all, d + at) = BegunAt(rest, at)
                                   /\ MayBegin(all, d + at) <=> MayBegin(rest, at)
  BY <1>0, <1>1, StartsInRest
<1>6. /\ f \in 1..Len(rest) + 1
      /\ \A at \in 1..f - 1 : ended \/ ~MayBegin(rest, at)
      /\ f <= Len(rest) => ~ended /\ MayBegin(rest, f)
  BY <1>0, HeldFromIs
<1> HIDE DEF f
<1>7. HeldFrom(all, ended) = d + f
  <2>1. d + f \in 1..Len(all) + 1
    BY <1>1, <1>6
  <2>2. ASSUME NEW at \in 1..(d + f) - 1 PROVE ended \/ ~MayBegin(all, at)
    <3>1. CASE at <= d
      <4>1. at \in 1..d
        BY <1>1, <3>1
      <4> QED
        BY <1>4, <4>1
    <3>2. CASE at > d
      <4> DEFINE i == at - d
      <4>1. i \in 1..f - 1 /\ i \in 1..Len(rest) + 1 /\ d + i = at
        BY <1>1, <1>6, <3>2
      <4> HIDE DEF i
      <4> QED
        BY <1>5, <1>6, <4>1
    <3>3. at <= d \/ at > d
      BY <1>1
    <3> QED
      BY <3>1, <3>2, <3>3
  <2>3. d + f <= Len(all) => ~ended /\ MayBegin(all, d + f)
    <3>1. d + f <= Len(all) => f <= Len(rest)
      BY <1>1, <1>6
    <3> QED
      BY <1>5, <1>6, <3>1
  <2> QED
    BY <1>0, <2>1, <2>2, <2>3, HeldFromOnly
\* What's cut at a place of the rest is what's cut there of all of it.
<1>8. ASSUME NEW at \in 1..Len(rest) + 1, NEW k \in Nat, k >= at
      PROVE  (\E q \in 1..(d + at) - 1 : \E n \in BegunAt(all, q) : d + k < q + n)
             <=> k <= c \/ \E q \in 1..at - 1 : \E n \in BegunAt(rest, q) : k < q + n
  <2>0. at \in Nat /\ at >= 1
    BY <1>1
  <2>1. k - 1 \in Nat /\ (k <= c <=> k - 1 < c) /\ (d + 1) + (k - 1) = d + k /\ ~(d + k <= 0)
    BY <1>1, <1>3, <1>8, <2>0
  <2>2. k <= c <=> \E q \in 1..d : \E n \in BegunAt(text, q) : d + k < q + n
    <3>1. k - 1 < c <=> (d + 1) + (k - 1) <= 0
             \/ \E q \in 1..d : \E n \in BegunAt(text, q) : (d + 1) + (k - 1) < q + n
      BY <1>3, <2>1
    <3> QED
      BY <2>1, <3>1
  <2>3. ASSUME NEW q \in 1..(d + at) - 1, NEW n \in BegunAt(all, q), d + k < q + n
        PROVE  k <= c \/ \E p \in 1..at - 1 : \E l \in BegunAt(rest, p) : k < p + l
    <3>1. CASE q <= d
      <4>1. q \in 1..d
        BY <1>1, <3>1
      <4> QED
        BY <1>4, <2>2, <2>3, <4>1
    <3>2. CASE q > d
      <4> DEFINE p == q - d
      <4>1. p \in 1..at - 1 /\ p \in 1..Len(rest) + 1 /\ d + p = q
        BY <1>1, <2>0, <3>2
      <4>2. n \in BegunAt(rest, p) /\ n \in Nat
        <5> HIDE DEF p
        <5>1. n \in BegunAt(rest, p)
          BY <1>5, <4>1
        <5> QED
          BY <1>0, <4>1, <5>1, BegunAtIs
      <4>3. k < p + n
        BY <1>1, <2>0, <2>3, <4>2
      <4> HIDE DEF p
      <4> QED
        BY <4>1, <4>2, <4>3
    <3>3. q <= d \/ q > d
      BY <1>1, <2>0
    <3> QED
      BY <3>1, <3>2, <3>3
  <2>4. ASSUME k <= c PROVE \E q \in 1..(d + at) - 1 : \E n \in BegunAt(all, q) : d + k < q + n
    <3>1. PICK q \in 1..d : \E n \in BegunAt(text, q) : d + k < q + n
      BY <2>2, <2>4
    <3>2. q \in 1..(d + at) - 1
      BY <1>1, <2>0
    <3> QED
      BY <1>4, <3>1, <3>2
  <2>5. ASSUME NEW q \in 1..at - 1, NEW n \in BegunAt(rest, q), k < q + n
        PROVE  \E p \in 1..(d + at) - 1 : \E l \in BegunAt(all, p) : d + k < p + l
    <3> DEFINE p == d + q
    <3>1. p \in 1..(d + at) - 1 /\ q \in 1..Len(rest) + 1
      BY <1>1, <2>0
    <3>2. n \in BegunAt(all, p) /\ n \in Nat
      <4>1. n \in Nat
        BY <1>0, <3>1, BegunAtIs
      <4> QED
        BY <1>5, <3>1, <4>1
    <3>3. d + k < p + n
      BY <1>1, <2>0, <2>5, <3>2
    <3> HIDE DEF p
    <3> QED
      BY <3>1, <3>2, <3>3
  <2> QED
    BY <2>3, <2>4, <2>5
<1>9. ASSUME NEW at \in 1..Len(rest) PROVE Hand(all, 0, d + at) = Hand(rest, c, at)
  <2>0. /\ at \in 1..Len(rest) + 1 /\ d + at \in 1..Len(all) + 1 /\ d + at \in Nat /\ at \in Nat /\ at >= at
        /\ ~(d + at <= 0)
    BY <1>1
  <2>1. d + at < CutTo(all, 0, d + at) <=>
          (d + at <= 0 \/ \E q \in 1..(d + at) - 1 : \E n \in BegunAt(all, q) : d + at < q + n)
    BY <1>0, <2>0, CutToIs
  <2>2. at < CutTo(rest, c, at) <=>
          (at <= c \/ \E q \in 1..at - 1 : \E n \in BegunAt(rest, q) : at < q + n)
    BY <1>0, <1>3, <2>0, CutToIs
  <2>3. d + at < CutTo(all, 0, d + at) <=> at < CutTo(rest, c, at)
    BY <1>8, <2>0, <2>1, <2>2
  <2>4. BegunAt(all, d + at) = BegunAt(rest, at) /\ all[d + at] = rest[at]
    BY <1>1, <1>5, <2>0
  <2> QED
    BY <2>3, <2>4 DEF Hand
<1>10. ASSUME NEW at \in 1..d PROVE Hand(all, 0, at) = Hand(text, 0, at)
  <2>0. at \in 1..Len(all) + 1 /\ at \in 1..Len(text) + 1 /\ at \in Nat /\ 0 \in Nat
        /\ \A q \in 1..at - 1 : q \in 1..d
    BY <1>1
  <2>1. at < CutTo(all, 0, at) <=>
          (at <= 0 \/ \E q \in 1..at - 1 : \E n \in BegunAt(all, q) : at < q + n)
    BY <1>0, <2>0, CutToIs
  <2>2. at < CutTo(text, 0, at) <=>
          (at <= 0 \/ \E q \in 1..at - 1 : \E n \in BegunAt(text, q) : at < q + n)
    BY <2>0, CutToIs
  <2>3. \A q \in 1..at - 1 : BegunAt(all, q) = BegunAt(text, q)
    BY <1>4, <2>0
  <2>4. at < CutTo(all, 0, at) <=> at < CutTo(text, 0, at)
    BY <2>1, <2>2, <2>3
  <2>5. BegunAt(all, at) = BegunAt(text, at) /\ all[at] = text[at]
    BY <1>0, <1>4
  <2> QED
    BY <2>4, <2>5 DEF Hand
<1>11. HandedOn(all, 0, ended) = HandedOn(text, 0, FALSE) \o HandedOn(rest, c, ended)
  <2> DEFINE x == Hands(all, 0, ended)
             y == Hands(text, 0, FALSE)
             z == Hands(rest, c, ended)
             S == Texts
             w == y \o z
  <2>1. /\ x \in Seq(S) /\ Len(x) = (d + f) - 1 /\ \A at \in 1..(d + f) - 1 : x[at] = Hand(all, 0, at)
        /\ HandedOn(all, 0, ended) = FlattenSeq(x)
    BY <1>0, <1>7, HandsType
  <2>2. /\ y \in Seq(S) /\ Len(y) = d /\ \A at \in 1..d : y[at] = Hand(text, 0, at)
        /\ HandedOn(text, 0, FALSE) = FlattenSeq(y)
    <3> DEFINE from == HeldFrom(text, FALSE)
    <3>1. /\ y \in Seq(S) /\ Len(y) = from - 1 /\ \A at \in 1..from - 1 : y[at] = Hand(text, 0, at)
          /\ HandedOn(text, 0, FALSE) = FlattenSeq(y)
      BY HandsType
    <3>2. from - 1 = d
      <4>1. from = d + 1
        BY <1>2
      <4> HIDE DEF from
      <4> QED
        BY <1>1, <4>1
    <3> HIDE DEF from, y, S
    <3> QED
      BY <3>1, <3>2
  <2>3. /\ z \in Seq(S) /\ Len(z) = f - 1 /\ \A at \in 1..f - 1 : z[at] = Hand(rest, c, at)
        /\ HandedOn(rest, c, ended) = FlattenSeq(z)
    BY <1>0, <1>3, HandsType DEF f
  <2> HIDE DEF x, y, z, S
  <2>4. /\ w \in Seq(S) /\ Len(w) = d + (f - 1)
        /\ \A i \in 1..d : w[i] = y[i]
        /\ \A i \in 1..f - 1 : w[d + i] = z[i]
    <3>1. /\ w \in Seq(S) /\ Len(w) = Len(y) + Len(z)
          /\ \A i \in 1..Len(y) : w[i] = y[i]
          /\ \A i \in 1..Len(z) : w[Len(y) + i] = z[i]
      <4>1. y \in Seq(S) /\ z \in Seq(S)
        BY <2>2, <2>3
      <4> QED
        BY <4>1, BothAre
    <3> HIDE DEF w
    <3> QED
      BY <2>2, <2>3, <3>1
  <2> HIDE DEF w
  <2>5. \A at \in 1..(d + f) - 1 : x[at] = w[at]
    <3> SUFFICES ASSUME NEW at \in 1..(d + f) - 1 PROVE x[at] = w[at]
      OBVIOUS
    <3>1. CASE at <= d
      <4>1. at \in 1..d
        BY <1>1, <3>1
      <4> QED
        BY <1>10, <2>1, <2>2, <2>4, <4>1
    <3>2. CASE at > d
      <4> DEFINE i == at - d
      <4>1. i \in 1..f - 1 /\ i \in 1..Len(rest) /\ d + i = at
        BY <1>1, <1>6, <3>2
      <4> HIDE DEF i
      <4>2. Hand(all, 0, d + i) = Hand(rest, c, i)
        BY <1>9, <4>1
      <4>3. w[d + i] = Hand(rest, c, i)
        BY <2>3, <2>4, <4>1
      <4> QED
        BY <2>1, <4>1, <4>2, <4>3
    <3>3. at <= d \/ at > d
      BY <1>1, <1>6
    <3> QED
      BY <3>1, <3>2, <3>3
  <2>6. x = w
    <3>1. Len(x) = Len(w) /\ Len(x) = (d + f) - 1
      BY <1>1, <1>6, <2>1, <2>4
    <3> QED
      BY <2>1, <2>4, <2>5, <3>1, SeqEqual
  <2>7. FlattenSeq(w) = FlattenSeq(y) \o FlattenSeq(z)
    <3>1. y \in Seq(Seq(Letters)) /\ z \in Seq(Seq(Letters))
      BY <2>2, <2>3 DEF S, Texts
    <3> QED
      BY <3>1, FlattenedBoth DEF w
  <2> QED
    BY <2>1, <2>2, <2>3, <2>6, <2>7
<1>12. StillCovered(all, 0, ended) = StillCovered(rest, c, ended)
  <2>1. StillCovered(all, 0, ended) \in Nat /\ \A k \in Nat : k < StillCovered(all, 0, ended) <=>
          (d + f) + k <= 0 \/ \E q \in 1..(d + f) - 1 : \E n \in BegunAt(all, q) : (d + f) + k < q + n
    BY <1>0, <1>7, StillCoveredIs
  <2>2. StillCovered(rest, c, ended) \in Nat /\ \A k \in Nat : k < StillCovered(rest, c, ended) <=>
          f + k <= c \/ \E q \in 1..f - 1 : \E n \in BegunAt(rest, q) : f + k < q + n
    BY <1>0, <1>3, StillCoveredIs DEF f
  <2>3. ASSUME NEW k \in Nat
        PROVE  k < StillCovered(all, 0, ended) <=> k < StillCovered(rest, c, ended)
    <3>1. f + k \in Nat /\ f + k >= f /\ (d + f) + k = d + (f + k) /\ ~((d + f) + k <= 0)
      BY <1>1, <1>6
    <3>2. (\E q \in 1..(d + f) - 1 : \E n \in BegunAt(all, q) : d + (f + k) < q + n)
          <=> f + k <= c \/ \E q \in 1..f - 1 : \E n \in BegunAt(rest, q) : f + k < q + n
      BY <1>6, <1>8, <3>1
    <3> QED
      BY <2>1, <2>2, <3>1, <3>2
  <2> QED
    BY <2>1, <2>2, <2>3, SameNumber
<1> QED
  BY <1>7, <1>11, <1>12 DEF all, rest, d, c, f

-----------------------------------------------------------------------------
(* The cut of a text that has ended.                                       *)

\* Nothing is held of a text that has ended.
LEMMA HeldToTheEnd ==
  ASSUME NEW text \in Texts
  PROVE  HeldFrom(text, TRUE) = Len(text) + 1
<1> DEFINE from == HeldFrom(text, TRUE)
<1>1. from \in 1..Len(text) + 1 /\ (from <= Len(text) => FALSE)
  BY HeldFromIs
<1> HIDE DEF from
<1>2. Len(text) \in Nat
  BY DEF Texts
<1>3. from = Len(text) + 1
  BY <1>1, <1>2
<1> QED
  BY <1>3 DEF from

\* What's handed on of a text that has ended is what a text is without any
\* copy of any value.
LEMMA RedactedIs ==
  ASSUME NEW text \in Texts
  PROVE  Redacted(text) = Clean(text) /\ Redacted(text) \in Texts
<1> DEFINE n == Len(text)
           copyAt(p) == \E v \in Values : StartsAt(text, p, v)
           inCopy(p, starts) == \E q \in starts, v \in Values : StartsAt(text, q, v) /\ p < q + Len(v)
           whole == [p \in DOMAIN text |->
                      IF ~inCopy(p, 1..p) THEN <<text[p]>>
                      ELSE IF copyAt(p) /\ ~inCopy(p, 1..p - 1) THEN Marker
                      ELSE <<>>]
           hands == Hands(text, 0, TRUE)
<1>0. n \in Nat /\ DOMAIN text = 1..n
  BY DEF Texts
<1>1. Clean(text) = FlattenSeq(whole)
  BY DEF Clean
<1>2. hands = [p \in 1..n |-> Hand(text, 0, p)]
  <2> DEFINE from == HeldFrom(text, TRUE)
  <2>1. from = n + 1
    BY HeldToTheEnd
  <2>2. hands = [p \in 1..from - 1 |-> Hand(text, 0, p)]
    BY DEF Hands
  <2> HIDE DEF from, hands, n
  <2>3. from - 1 = n
    BY <1>0, <2>1
  <2> QED
    BY <2>2, <2>3
<1>3. HandedOn(text, 0, TRUE) = FlattenSeq(hands) /\ HandedOn(text, 0, TRUE) \in Texts
  BY HandsType
<1> HIDE DEF hands
<1>4. ASSUME NEW p \in 1..n PROVE whole[p] = Hand(text, 0, p)
  <2>0. p \in Nat /\ p \in 1..n + 1 /\ p \in DOMAIN text /\ 0 \in Nat
    BY <1>0
  <2>1. ASSUME NEW q \in 1..p
        PROVE  (\E n1 \in BegunAt(text, q) : p < q + n1) <=> \E v \in Values : StartsAt(text, q, v) /\ p < q + Len(v)
    BY DEF BegunAt
  <2>2. p < CutTo(text, 0, p) <=> \E q \in 1..p - 1 : \E n1 \in BegunAt(text, q) : p < q + n1
    <3>1. p < CutTo(text, 0, p) <=> p <= 0 \/ \E q \in 1..p - 1 : \E n1 \in BegunAt(text, q) : p < q + n1
      BY <2>0, CutToIs
    <3> QED
      BY <2>0, <3>1
  <2>3. inCopy(p, 1..p - 1) <=> p < CutTo(text, 0, p)
    <3>1. \A q \in 1..p - 1 : q \in 1..p
      BY <2>0
    <3> QED
      BY <2>1, <2>2, <3>1
  <2>4. copyAt(p) <=> BegunAt(text, p) # {}
    BY DEF BegunAt
  <2>5. inCopy(p, 1..p) <=> inCopy(p, 1..p - 1) \/ copyAt(p)
    <3>1. \A q : q \in 1..p <=> q \in 1..p - 1 \/ q = p
      BY <2>0
    <3>2. ASSUME NEW v \in Values PROVE p < p + Len(v)
      BY <2>0, ValuesAre
    <3> QED
      BY <3>1, <3>2
  <2>6. whole[p] = IF ~inCopy(p, 1..p) THEN <<text[p]>>
                   ELSE IF copyAt(p) /\ ~inCopy(p, 1..p - 1) THEN Marker
                   ELSE <<>>
    BY <2>0
  <2> HIDE DEF whole, inCopy, copyAt
  <2> QED
    BY <2>3, <2>4, <2>5, <2>6 DEF Hand
<1>5. whole = hands
  <2>1. DOMAIN whole = 1..n /\ whole = [p \in DOMAIN whole |-> whole[p]]
    BY <1>0
  <2> HIDE DEF whole, n
  <2> QED
    BY <1>2, <1>4, <2>1
<1> QED
  BY <1>1, <1>3, <1>5 DEF Redacted

\* What's held of a text, when there's any, is the start of a value.
LEMMA HeldIsLittle ==
  ASSUME NEW text \in Texts, HeldOf(text) # <<>>
  PROVE  \E v \in Values : Len(HeldOf(text)) < Len(v)
<1> DEFINE from == HeldFrom(text, FALSE)
           h == HeldOf(text)
<1>0. Len(text) \in Nat
  BY DEF Texts
<1>1. from \in 1..Len(text) + 1 /\ (from <= Len(text) => MayBegin(text, from))
  BY HeldFromIs
<1>2. h = SubSeq(text, from, Len(text))
  BY DEF HeldOf
<1> HIDE DEF from
<1>3. Len(h) = Len(text) - from + 1
  <2>1. from \in 1..Len(text) + 1 /\ Len(text) \in from - 1..Len(text) /\ text \in Seq(Letters)
    BY <1>0, <1>1 DEF Texts
  <2> QED
    BY <1>2, <2>1, PartIs
<1>4. from <= Len(text)
  <2> SUFFICES ASSUME from > Len(text) PROVE FALSE
    BY <1>0, <1>1
  <2>1. SubSeq(text, from, Len(text)) = <<>>
    BY <1>0, <1>1, SubSeqEmpty
  <2> QED
    BY <1>2, <2>1
<1>5. PICK v \in Values : Len(text) - from + 1 < Len(v)
  BY <1>1, <1>4, MayBeginIs
<1> QED
  BY <1>3, <1>5

-----------------------------------------------------------------------------
(* How large a text is.                                                    *)

\* How large a character is.
Bulk(x) == IF x \in Wide THEN 3 ELSE 1

\* How large the first so many characters of a text are.
Sizes(f, text) ==
  /\ f \in [0..Len(text) -> Nat] /\ f[0] = 0
  /\ \A i \in 1..Len(text) : f[i] = f[i - 1] + Bulk(text[i])

\* There is such a function, by induction over how many.
LEMMA SizesDefined ==
  ASSUME NEW text \in Texts
  PROVE  \E f : Sizes(f, text)
<1> DEFINE n == Len(text)
           Fits(f, k) == /\ f \in [0..k -> Nat] /\ f[0] = 0
                         /\ \A i \in 1..k : f[i] = f[i - 1] + Bulk(text[i])
           T == {k \in 0..n : \E f : Fits(f, k)}
<1>0. n \in Nat
  BY DEF Texts
<1>1. \A i : Bulk(text[i]) \in Nat
  BY DEF Bulk
<1> HIDE DEF n
<1>2. 0 \in T
  <2>1. Fits([i \in 0..0 |-> 0], 0)
    OBVIOUS
  <2>2. 0 \in 0..n
    BY <1>0
  <2> HIDE DEF Fits
  <2> QED
    BY <2>1, <2>2
<1>3. ASSUME NEW k \in 1..n, k - 1 \in T PROVE k \in T
  <2>1. PICK f : Fits(f, k - 1)
    BY <1>3
  <2> DEFINE g == [i \in 0..k |-> IF i = k THEN f[k - 1] + Bulk(text[k]) ELSE f[i]]
  <2>2. f[k - 1] \in Nat /\ k \in Nat /\ k \in 0..n
    BY <1>0, <2>1
  <2>3. \A i \in 0..k : g[i] \in Nat
    <3>1. \A i \in 0..k : i # k => i \in 0..k - 1
      BY <2>2
    <3>2. f[k - 1] + Bulk(text[k]) \in Nat
      BY <1>1, <2>2
    <3> QED
      BY <2>1, <3>1, <3>2
  <2>4. ASSUME NEW i \in 1..k PROVE g[i] = g[i - 1] + Bulk(text[i])
    <3>1. g[i - 1] = f[i - 1] /\ i - 1 \in 0..k /\ i \in 0..k
      BY <2>2
    <3>2. CASE i = k
      BY <3>1, <3>2
    <3>3. CASE i # k
      <4>1. i \in 1..k - 1
        BY <2>2, <3>3
      <4>2. f[i] = f[i - 1] + Bulk(text[i]) /\ g[i] = f[i]
        BY <2>1, <3>1, <3>3, <4>1
      <4> QED
        BY <3>1, <4>2
    <3> QED
      BY <3>2, <3>3
  <2>5. g \in [0..k -> Nat] /\ g[0] = 0
    <3>1. 0 \in 0..k /\ 0 # k
      BY <2>2
    <3> QED
      BY <2>1, <2>3, <3>1
  <2>6. Fits(g, k)
    <3> HIDE DEF g
    <3> QED
      BY <2>4, <2>5
  <2> HIDE DEF Fits, g
  <2> QED
    BY <2>2, <2>6
<1>4. n \in T
  <2> HIDE DEF T
  <2>1. 0..n \subseteq T
    BY <1>0, <1>2, <1>3, Inductive
  <2> QED
    BY <1>0, <2>1
<1>5. PICK f : Fits(f, n)
  BY <1>4
<1> QED
  BY <1>5 DEF Sizes, n

\* It gives how large the text is.
LEMMA SizeIs ==
  ASSUME NEW text \in Texts, NEW f, Sizes(f, text)
  PROVE  Size(text) = f[Len(text)]
<1> DEFINE n == Len(text)
           goes(g, i) == g[i - 1] + (IF text[i] \in Wide THEN 3 ELSE 1)
           upTo == CHOOSE upTo : upTo = [i \in 0..n |-> IF i = 0 THEN 0 ELSE goes(upTo, i)]
           T == {i \in 0..n : upTo[i] = f[i]}
<1>0. n \in Nat
  BY DEF Texts
<1>1. Size(text) = upTo[n]
  BY DEF Size
<1>2. /\ f \in [0..n -> Nat] /\ f[0] = 0
      /\ \A i \in 1..n : f[i] = goes(f, i)
  BY DEF Sizes, Bulk
<1> HIDE DEF goes, n
<1>3. f = [i \in 0..n |-> IF i = 0 THEN 0 ELSE goes(f, i)]
  <2>1. \A i \in 0..n : i = 0 \/ i \in 1..n
    BY <1>0
  <2> QED
    BY <1>2, <2>1
<1>4. upTo = [i \in 0..n |-> IF i = 0 THEN 0 ELSE goes(upTo, i)]
  BY <1>3
<1> HIDE DEF upTo
<1>5. 0 \in T
  BY <1>0, <1>2, <1>4
<1>6. ASSUME NEW i \in 1..n, i - 1 \in T PROVE i \in T
  <2>1. i \in 0..n /\ i # 0
    BY <1>0
  <2>2. upTo[i] = goes(upTo, i) /\ f[i] = goes(f, i)
    BY <1>2, <1>4, <2>1
  <2>3. upTo[i - 1] = f[i - 1]
    BY <1>6
  <2>4. upTo[i] = f[i]
    BY <2>2, <2>3 DEF goes
  <2> QED
    BY <2>1, <2>4
<1>7. 0..n \subseteq T
  <2> HIDE DEF T
  <2> QED
    BY <1>0, <1>5, <1>6, Inductive
<1>8. upTo[n] = f[n]
  <2>1. n \in 0..n
    BY <1>0
  <2> QED
    BY <1>7, <2>1
<1> QED
  BY <1>1, <1>8 DEF n

\* It rises with every character.
LEMMA SizesRise ==
  ASSUME NEW text \in Texts, NEW f, Sizes(f, text)
  PROVE  \A m, n \in 0..Len(text) : m < n => f[m] < f[n]
<1>0. Len(text) \in Nat
  BY DEF Texts
<1>1. f \in [0..Len(text) -> Nat] /\ \A i \in 1..Len(text) : f[i - 1] < f[i]
  <2>1. f \in [0..Len(text) -> Nat] /\ \A i \in 1..Len(text) : f[i] = f[i - 1] + Bulk(text[i])
    BY DEF Sizes
  <2>2. ASSUME NEW i \in 1..Len(text) PROVE f[i - 1] < f[i]
    <3>1. Bulk(text[i]) \in Nat /\ Bulk(text[i]) > 0
      BY DEF Bulk
    <3>2. i - 1 \in 0..Len(text)
      BY <1>0
    <3>3. f[i - 1] \in Nat /\ f[i] = f[i - 1] + Bulk(text[i])
      BY <2>1, <3>2
    <3> QED
      BY <3>1, <3>3
  <2> QED
    BY <2>1, <2>2
<1> SUFFICES ASSUME NEW m \in 0..Len(text) PROVE \A n \in 0..Len(text) : m < n => f[m] < f[n]
  OBVIOUS
<1> DEFINE T == {n \in 0..Len(text) : m < n => f[m] < f[n]}
<1>2. 0 \in T
  BY <1>0
<1>3. ASSUME NEW n \in 1..Len(text), n - 1 \in T PROVE n \in T
  <2>1. n - 1 \in 0..Len(text) /\ n \in 0..Len(text) /\ (m < n => m < n - 1 \/ m = n - 1)
    BY <1>0
  <2>2. f[m] \in Nat /\ f[n - 1] \in Nat /\ f[n] \in Nat /\ f[n - 1] < f[n]
    BY <1>1, <2>1
  <2>3. m < n - 1 => f[m] < f[n - 1]
    BY <1>3
  <2>4. m < n => f[m] < f[n]
    BY <2>1, <2>2, <2>3
  <2> QED
    BY <2>1, <2>4
<1>4. 0..Len(text) \subseteq T
  <2> HIDE DEF T
  <2> QED
    BY <1>0, <1>2, <1>3, Inductive
<1> QED
  BY <1>4

\* How large a start of a text is.
Upto(text, n) == Size(SubSeq(text, 1, n))

\* It gives how large each start of the text is.
LEMMA UptoSizes ==
  ASSUME NEW text \in Texts, NEW f, Sizes(f, text), NEW n \in 0..Len(text)
  PROVE  Upto(text, n) = f[n]
<1> DEFINE part == SubSeq(text, 1, n)
           g == [i \in 0..n |-> f[i]]
<1>0. Len(text) \in Nat /\ n \in Nat /\ text \in Seq(Letters)
  BY DEF Texts
<1>1. part \in Seq(Letters) /\ Len(part) = n /\ \A i \in 1..n : part[i] = text[i]
  BY <1>0, SplitAt
<1>2. /\ f \in [0..Len(text) -> Nat] /\ f[0] = 0
      /\ \A i \in 1..Len(text) : f[i] = f[i - 1] + Bulk(text[i])
  BY DEF Sizes
<1>3. \A i \in 0..n : i \in 0..Len(text)
  BY <1>0
<1>4. \A i \in 1..n : i \in 1..Len(text) /\ i \in 0..n /\ i - 1 \in 0..n
  BY <1>0
<1> HIDE DEF part
<1>5. g \in [0..n -> Nat] /\ g[0] = 0
  BY <1>0, <1>2, <1>3
<1>6. \A i \in 1..n : g[i] = g[i - 1] + Bulk(part[i])
  BY <1>1, <1>2, <1>4
<1>7. g[n] = f[n]
  BY <1>0
<1> HIDE DEF g
<1>8. Sizes(g, part)
  BY <1>1, <1>5, <1>6 DEF Sizes
<1>9. Size(part) = g[n]
  BY <1>1, <1>8, SizeIs DEF Texts
<1> QED
  BY <1>7, <1>9 DEF Upto, part

\* The first characters are larger the more they are.
LEMMA UptoIs ==
  ASSUME NEW text \in Texts
  PROVE  /\ Size(text) \in Nat /\ Upto(text, 0) = 0 /\ Upto(text, Len(text)) = Size(text)
         /\ \A n \in 0..Len(text) : Upto(text, n) \in Nat /\ Upto(text, n) <= Size(text)
         /\ \A m, n \in 0..Len(text) : m < n => Upto(text, m) < Upto(text, n)
<1>0. Len(text) \in Nat /\ Len(text) \in 0..Len(text) /\ 0 \in 0..Len(text)
  BY DEF Texts
<1>1. PICK f : Sizes(f, text)
  BY SizesDefined
<1>2. Size(text) = f[Len(text)] /\ \A n \in 0..Len(text) : Upto(text, n) = f[n]
  BY <1>1, SizeIs, UptoSizes
<1>3. f \in [0..Len(text) -> Nat] /\ f[0] = 0
  BY <1>1 DEF Sizes
<1>4. \A m, n \in 0..Len(text) : m < n => f[m] < f[n]
  BY <1>1, SizesRise
<1>5. \A n \in 0..Len(text) : f[n] \in Nat /\ f[n] <= f[Len(text)]
  <2> SUFFICES ASSUME NEW n \in 0..Len(text) PROVE f[n] \in Nat /\ f[n] <= f[Len(text)]
    OBVIOUS
  <2>1. f[n] \in Nat /\ f[Len(text)] \in Nat
    BY <1>0, <1>3
  <2>2. n = Len(text) \/ n < Len(text)
    BY <1>0
  <2> QED
    BY <1>0, <1>4, <2>1, <2>2
<1> QED
  BY <1>0, <1>2, <1>3, <1>4, <1>5

\* One text and another are as large as both.
LEMMA SizeBoth ==
  ASSUME NEW a \in Texts, NEW b \in Texts
  PROVE  /\ a \o b \in Texts /\ Size(a \o b) = Size(a) + Size(b)
         /\ \A n \in 0..Len(a) + Len(b) :
              Upto(a \o b, n) = IF n <= Len(a) THEN Upto(a, n) ELSE Size(a) + Upto(b, n - Len(a))
<1> DEFINE m == Len(a)
           n == Len(b)
           both == a \o b
<1>0. m \in Nat /\ n \in Nat /\ a \in Seq(Letters) /\ b \in Seq(Letters)
  BY DEF Texts
<1>1. PICK f : Sizes(f, a)
  BY SizesDefined
<1>2. PICK g : Sizes(g, b)
  BY SizesDefined
<1>3. /\ f \in [0..m -> Nat] /\ f[0] = 0
      /\ \A i \in 1..m : f[i] = f[i - 1] + Bulk(a[i])
  BY <1>1 DEF Sizes
<1>4. /\ g \in [0..n -> Nat] /\ g[0] = 0
      /\ \A i \in 1..n : g[i] = g[i - 1] + Bulk(b[i])
  BY <1>2 DEF Sizes
<1>5. Size(a) = f[m] /\ Size(b) = g[n] /\ f[m] \in Nat
  BY <1>0, <1>1, <1>2, <1>3, SizeIs
<1>6. (\A i \in 0..m : Upto(a, i) = f[i]) /\ (\A i \in 0..n : Upto(b, i) = g[i])
  BY <1>1, <1>2, UptoSizes
<1>7. /\ both \in Seq(Letters) /\ Len(both) = m + n
      /\ \A i \in 1..m : both[i] = a[i]
      /\ \A i \in 1..n : both[m + i] = b[i]
  BY <1>0, BothAre
<1> HIDE DEF m, n, both
<1> DEFINE h == [i \in 0..m + n |-> IF i <= m THEN f[i] ELSE f[m] + g[i - m]]
<1>8. ASSUME NEW i \in 0..m + n PROVE h[i] \in Nat
  <2>1. CASE i <= m
    BY <1>0, <1>3, <2>1
  <2>2. CASE i > m
    <3>1. i - m \in 0..n /\ ~(i <= m)
      BY <1>0, <2>2
    <3> QED
      BY <1>4, <1>5, <3>1
  <2> QED
    BY <1>0, <2>1, <2>2
<1>9. ASSUME NEW i \in 1..m + n PROVE h[i] = h[i - 1] + Bulk(both[i])
  <2>0. i \in Int /\ i \in 0..m + n /\ i - 1 \in 0..m + n
    BY <1>0
  <2>1. CASE i <= m
    <3>1. i \in 1..m /\ i - 1 <= m
      BY <1>0, <2>0, <2>1
    <3>2. h[i] = f[i] /\ h[i - 1] = f[i - 1] /\ both[i] = a[i]
      BY <1>7, <2>0, <2>1, <3>1
    <3> QED
      BY <1>3, <3>1, <3>2
  <2>2. CASE i > m
    <3> DEFINE j == i - m
    <3>1. j \in 1..n /\ m + j = i /\ ~(i <= m) /\ (i - 1 <= m <=> j = 1) /\ (j = 1 => i - 1 = m)
          /\ i - 1 - m = j - 1 /\ j - 1 \in 0..n
      BY <1>0, <2>0, <2>2
    <3> HIDE DEF j
    <3>2. h[i] = f[m] + g[j] /\ both[i] = b[j]
      <4>1. i - m = j
        BY DEF j
      <4>2. both[m + j] = b[j]
        BY <1>7, <3>1
      <4> QED
        BY <2>0, <3>1, <4>1, <4>2
    <3>3. h[i - 1] = f[m] + g[j - 1]
      <4>1. CASE j = 1
        <5>1. h[i - 1] = f[m] /\ g[j - 1] = 0
          BY <1>4, <2>0, <3>1, <4>1
        <5> QED
          BY <1>5, <5>1
      <4>2. CASE j # 1
        BY <2>0, <3>1, <4>2
      <4> QED
        BY <4>1, <4>2
    <3>4. g[j] = g[j - 1] + Bulk(b[j]) /\ g[j - 1] \in Nat /\ Bulk(b[j]) \in Nat
      BY <1>4, <3>1 DEF Bulk
    <3> HIDE DEF h
    <3> QED
      BY <1>5, <3>2, <3>3, <3>4
  <2> QED
    BY <1>0, <2>0, <2>1, <2>2
<1>10. h \in [0..m + n -> Nat] /\ h[0] = 0
  <2>1. 0 \in 0..m + n /\ 0 <= m
    BY <1>0
  <2> QED
    BY <1>3, <1>8, <2>1
<1>11. \A i \in 0..m + n : h[i] = IF i <= m THEN f[i] ELSE f[m] + g[i - m]
  OBVIOUS
<1> HIDE DEF h
<1>12. Sizes(h, both)
  BY <1>7, <1>9, <1>10 DEF Sizes
<1>13. both \in Texts
  BY <1>7 DEF Texts
<1>14. Size(both) = h[m + n] /\ \A i \in 0..m + n : Upto(both, i) = h[i]
  BY <1>7, <1>12, <1>13, SizeIs, UptoSizes
<1>15. h[m + n] = f[m] + g[n]
  <2>1. CASE n = 0
    <3>1. m + n \in 0..m + n /\ m + n <= m /\ m + n = m
      BY <1>0, <2>1
    <3> QED
      BY <1>4, <1>5, <1>11, <2>1, <3>1
  <2>2. CASE n # 0
    <3> DEFINE k == m + n
    <3>1. k \in 0..m + n /\ ~(k <= m) /\ k - m = n
      BY <1>0, <2>2
    <3> HIDE DEF k
    <3>2. h[k] = f[m] + g[k - m]
      BY <1>11, <3>1
    <3> QED
      BY <3>1, <3>2 DEF k
  <2> QED
    BY <2>1, <2>2
<1>16. ASSUME NEW i \in 0..m + n
       PROVE  Upto(both, i) = IF i <= m THEN Upto(a, i) ELSE Size(a) + Upto(b, i - m)
  <2>1. i <= m => i \in 0..m
    BY <1>0
  <2>2. ~(i <= m) => i - m \in 0..n
    BY <1>0
  <2> QED
    BY <1>5, <1>6, <1>11, <1>14, <2>1, <2>2
<1> QED
  BY <1>5, <1>13, <1>14, <1>15, <1>16 DEF m, n, both

-----------------------------------------------------------------------------
(* The start and the end of a text.                                        *)

\* What's beyond a number.
LEMMA BeyondIs ==
  ASSUME NEW m \in Nat, NEW n \in Nat
  PROVE  Beyond(m, n) \in Nat /\ Beyond(m, n) = IF m > n THEN m - n ELSE 0
BY DEF Beyond

\* A text is its start and what follows, and its size theirs.
LEMMA RestSize ==
  ASSUME NEW text \in Texts, NEW n \in 0..Len(text)
  PROVE  /\ SubSeq(text, 1, n) \in Texts /\ SubSeq(text, n + 1, Len(text)) \in Texts
         /\ Len(SubSeq(text, 1, n)) = n /\ Len(SubSeq(text, n + 1, Len(text))) = Len(text) - n
         /\ text = SubSeq(text, 1, n) \o SubSeq(text, n + 1, Len(text))
         /\ Size(SubSeq(text, n + 1, Len(text))) = Size(text) - Upto(text, n)
<1> DEFINE begin == SubSeq(text, 1, n)
           rest == SubSeq(text, n + 1, Len(text))
<1>1. /\ begin \in Texts /\ rest \in Texts
      /\ Len(begin) = n /\ Len(rest) = Len(text) - n /\ text = begin \o rest
  BY SplitAt DEF Texts
<1>2. Upto(text, n) = Size(begin)
  BY DEF Upto
<1> HIDE DEF begin, rest
<1>3. Size(begin) \in Nat /\ Size(rest) \in Nat /\ Size(text) = Size(begin) + Size(rest)
  BY <1>1, SizeBoth, UptoIs
<1>4. Size(rest) = Size(text) - Upto(text, n)
  BY <1>2, <1>3
<1> QED
  BY <1>1, <1>4 DEF begin, rest

\* The start is as many characters as are no larger.
LEMMA FirstIs ==
  ASSUME NEW text \in Texts, NEW m \in Nat, NEW k \in 0..Len(text),
         Upto(text, k) <= m, k < Len(text) => Upto(text, k + 1) > m
  PROVE  FirstBytes(text, m) = SubSeq(text, 1, k)
<1> DEFINE T == {n \in 0..Len(text) : Size(SubSeq(text, 1, n)) <= m}
<1>0. Len(text) \in Nat /\ k \in Nat
  BY DEF Texts
<1>1. \A n : n \in T <=> n \in 0..Len(text) /\ Upto(text, n) <= m
  BY DEF Upto
<1>2. k \in T /\ T \in SUBSET (0..Len(text))
  BY <1>1
<1>3. ASSUME NEW n \in T PROVE n <= k
  <2> SUFFICES ASSUME n > k PROVE FALSE
    BY <1>0
  <2>1. n \in 0..Len(text) /\ Upto(text, n) <= m
    BY <1>1
  <2>2. k < Len(text) /\ k + 1 \in 0..Len(text) /\ (k + 1 < n \/ k + 1 = n)
    BY <1>0, <2>1
  <2>3. Upto(text, k + 1) <= Upto(text, n) /\ Upto(text, n) \in Nat /\ Upto(text, k + 1) \in Nat
    BY <2>1, <2>2, UptoIs
  <2> QED
    BY <2>1, <2>2, <2>3
<1>4. FirstBytes(text, m) = SubSeq(text, 1, Max(T))
  BY DEF FirstBytes
<1> HIDE DEF T
<1>5. Max(T) \in T /\ \A n \in T : n <= Max(T)
  BY <1>0, <1>2, MaxIs
<1>6. Max(T) = k
  <2>1. Max(T) <= k /\ k <= Max(T)
    BY <1>2, <1>3, <1>5
  <2>2. \A n \in 0..Len(text) : n \in Int
    BY <1>0
  <2>3. Max(T) \in 0..Len(text)
    BY <1>2, <1>5
  <2>4. Max(T) \in Int
    BY <2>2, <2>3
  <2> QED
    BY <1>0, <2>1, <2>4
<1> QED
  BY <1>4, <1>6

\* There is such a start.
LEMMA FirstExists ==
  ASSUME NEW text \in Texts, NEW m \in Nat
  PROVE  \E k \in 0..Len(text) : /\ FirstBytes(text, m) = SubSeq(text, 1, k)
                                 /\ Upto(text, k) <= m /\ (k < Len(text) => Upto(text, k + 1) > m)
<1> DEFINE T == {n \in 0..Len(text) : Upto(text, n) <= m}
<1>0. Len(text) \in Nat /\ 0 \in 0..Len(text)
  BY DEF Texts
<1>1. 0 \in T
  BY <1>0, UptoIs
<1>2. T \in SUBSET (0..Len(text)) /\ T # {} /\ \A n : n \in T <=> n \in 0..Len(text) /\ Upto(text, n) <= m
  BY <1>1
<1> HIDE DEF T
<1>3. PICK k \in T : \A n \in T : n <= k
  BY <1>0, <1>2, MaxIs
<1>4. k \in 0..Len(text) /\ Upto(text, k) <= m
  BY <1>2
<1>5. k < Len(text) => Upto(text, k + 1) > m
  <2> SUFFICES ASSUME k < Len(text) PROVE Upto(text, k + 1) > m
    OBVIOUS
  <2>1. k + 1 \in 0..Len(text) /\ ~(k + 1 <= k)
    BY <1>0, <1>4
  <2>2. k + 1 \notin T
    BY <1>3, <2>1
  <2>3. ~(Upto(text, k + 1) <= m) /\ Upto(text, k + 1) \in Nat
    BY <1>2, <2>1, <2>2, UptoIs
  <2> QED
    BY <2>3
<1> QED
  BY <1>4, <1>5, FirstIs

\* What's left without the first bytes begins where they end, or the
\* character they end in does.
LEMMA WithoutIs ==
  ASSUME NEW text \in Texts, NEW m \in Nat, NEW k \in 0..Len(text),
         Upto(text, k) >= m \/ k = Len(text),
         k > 0 => Upto(text, k - 1) < m
  PROVE  WithoutFirst(text, m) = SubSeq(text, k + 1, Len(text))
<1> DEFINE T == {Len(text)} \union {n \in 0..Len(text) : Size(SubSeq(text, 1, n)) >= m}
<1>0. Len(text) \in Nat /\ k \in Nat
  BY DEF Texts
<1>1. \A n : n \in T <=> n = Len(text) \/ (n \in 0..Len(text) /\ Upto(text, n) >= m)
  BY DEF Upto
<1>2. k \in T /\ T \in SUBSET Nat /\ \A n \in T : n \in 0..Len(text)
  BY <1>0, <1>1
<1>3. ASSUME NEW n \in T PROVE k <= n
  <2> SUFFICES ASSUME n < k PROVE FALSE
    BY <1>0, <1>2
  <2>1. n \in 0..Len(text) /\ n < Len(text) /\ Upto(text, n) >= m
    BY <1>0, <1>1, <1>2
  <2>2. k > 0 /\ k - 1 \in 0..Len(text) /\ (n < k - 1 \/ n = k - 1)
    BY <1>0, <2>1
  <2>3. Upto(text, n) <= Upto(text, k - 1) /\ Upto(text, n) \in Nat /\ Upto(text, k - 1) \in Nat
    BY <2>1, <2>2, UptoIs
  <2> QED
    BY <2>1, <2>2, <2>3
<1>4. WithoutFirst(text, m) = SubSeq(text, 1 + Min(T), Len(text))
  BY DEF WithoutFirst
<1> HIDE DEF T
<1>5. Min(T) \in T /\ \A n \in T : Min(T) <= n
  BY <1>2, MinIs
<1>6. Min(T) = k
  <2>1. Min(T) <= k /\ k <= Min(T)
    BY <1>2, <1>3, <1>5
  <2>2. \A n \in Nat : n \in Int
    OBVIOUS
  <2>3. Min(T) \in Nat
    BY <1>2, <1>5
  <2>4. Min(T) \in Int
    BY <2>2, <2>3
  <2> QED
    BY <1>0, <2>1, <2>4
<1>7. 1 + k = k + 1
  BY <1>0
<1> QED
  BY <1>4, <1>6, <1>7

\* There is such a rest.
LEMMA WithoutExists ==
  ASSUME NEW text \in Texts, NEW m \in Nat
  PROVE  \E k \in 0..Len(text) : /\ WithoutFirst(text, m) = SubSeq(text, k + 1, Len(text))
                                 /\ Upto(text, k) >= m \/ k = Len(text)
                                 /\ k > 0 => Upto(text, k - 1) < m
<1> DEFINE T == {n \in 0..Len(text) : Upto(text, n) >= m \/ n = Len(text)}
<1>0. Len(text) \in Nat /\ Len(text) \in 0..Len(text)
  BY DEF Texts
<1>1. Len(text) \in T
  BY <1>0
<1>2. T \in SUBSET Nat /\ T # {}
      /\ \A n : n \in T <=> n \in 0..Len(text) /\ (Upto(text, n) >= m \/ n = Len(text))
  BY <1>0, <1>1
<1> HIDE DEF T
<1>3. PICK k \in T : \A n \in T : k <= n
  BY <1>2, LeastNumber
<1>4. k \in 0..Len(text) /\ (Upto(text, k) >= m \/ k = Len(text))
  BY <1>2
<1>5. k > 0 => Upto(text, k - 1) < m
  <2> SUFFICES ASSUME k > 0 PROVE Upto(text, k - 1) < m
    OBVIOUS
  <2>1. k - 1 \in 0..Len(text) /\ ~(k <= k - 1)
    BY <1>0, <1>4
  <2>2. k - 1 \notin T
    BY <1>3, <2>1
  <2>3. ~(Upto(text, k - 1) >= m) /\ Upto(text, k - 1) \in Nat
    BY <1>2, <2>1, <2>2, UptoIs
  <2> QED
    BY <2>3
<1> QED
  BY <1>4, <1>5, WithoutIs

\* The end of a text is the text without as many bytes as are too many.
LEMMA LastIs ==
  ASSUME NEW text \in Texts, NEW m \in Nat
  PROVE  LastBytes(text, m) = WithoutFirst(text, Beyond(Size(text), m))
<1> DEFINE T == {n \in 1..Len(text) + 1 : Size(SubSeq(text, n, Len(text))) <= m}
           over == Beyond(Size(text), m)
<1>0. Len(text) \in Nat /\ Size(text) \in Nat /\ Upto(text, Len(text)) = Size(text)
  BY UptoIs DEF Texts
<1>1. over \in Nat /\ over = IF Size(text) > m THEN Size(text) - m ELSE 0
  BY <1>0, BeyondIs
<1>2. PICK k \in 0..Len(text) : /\ WithoutFirst(text, over) = SubSeq(text, k + 1, Len(text))
                                /\ Upto(text, k) >= over \/ k = Len(text)
                                /\ k > 0 => Upto(text, k - 1) < over
  BY <1>1, WithoutExists
<1> HIDE DEF over
<1>3. ASSUME NEW n \in 0..Len(text)
      PROVE  n + 1 \in T <=> Upto(text, n) >= over
  <2>1. n + 1 \in 1..Len(text) + 1
    BY <1>0
  <2>2. Size(SubSeq(text, n + 1, Len(text))) = Size(text) - Upto(text, n)
    BY RestSize
  <2>3. Upto(text, n) \in Nat
    BY UptoIs
  <2> DEFINE s == Size(SubSeq(text, n + 1, Len(text)))
  <2>4. n + 1 \in T <=> s <= m
    BY <2>1
  <2> HIDE DEF s, T
  <2>5. s <= m <=> Upto(text, n) >= over
    <3>1. s = Size(text) - Upto(text, n)
      BY <2>2 DEF s
    <3> QED
      BY <1>0, <1>1, <2>3, <3>1
  <2> QED
    BY <2>4, <2>5
<1>4. T \in SUBSET Nat /\ \A n \in T : n \in 1..Len(text) + 1
  BY <1>0
<1>5. LastBytes(text, m) = SubSeq(text, Min(T), Len(text))
  BY DEF LastBytes
<1> HIDE DEF T
<1>6. k + 1 \in T
  <2>1. Upto(text, k) >= over
    <3>1. k = Len(text) => Upto(text, k) >= over
      BY <1>0, <1>1
    <3> QED
      BY <1>2, <3>1
  <2> QED
    BY <1>3, <2>1
<1>7. ASSUME NEW n \in T PROVE k + 1 <= n
  <2> SUFFICES ASSUME n < k + 1 PROVE FALSE
    BY <1>0, <1>4
  <2>1. n - 1 \in 0..Len(text) /\ (n - 1) + 1 = n /\ k > 0 /\ k - 1 \in 0..Len(text)
        /\ (n - 1 < k - 1 \/ n - 1 = k - 1)
    BY <1>0, <1>4
  <2>2. Upto(text, n - 1) >= over
    BY <1>3, <2>1
  <2>3. Upto(text, n - 1) <= Upto(text, k - 1) /\ Upto(text, n - 1) \in Nat /\ Upto(text, k - 1) \in Nat
    BY <2>1, UptoIs
  <2> QED
    BY <1>1, <1>2, <2>1, <2>2, <2>3
<1>8. Min(T) \in T /\ \A n \in T : Min(T) <= n
  BY <1>4, <1>6, MinIs
<1>9. Min(T) = k + 1
  <2>1. Min(T) <= k + 1 /\ k + 1 <= Min(T)
    BY <1>6, <1>7, <1>8
  <2>2. \A n \in Nat : n \in Int
    OBVIOUS
  <2>3. Min(T) \in Nat
    BY <1>4, <1>8
  <2>4. Min(T) \in Int
    BY <2>2, <2>3
  <2> QED
    BY <2>1, <2>4
<1> QED
  BY <1>2, <1>5, <1>9 DEF over

-----------------------------------------------------------------------------
(* The end of two texts.                                                   *)

\* The empty text, before a text, after it and as a part of it.
LEMMA NoText ==
  ASSUME NEW text \in Texts
  PROVE  /\ <<>> \in Texts /\ Len(<<>>) = 0 /\ Size(<<>>) = 0
         /\ <<>> \o text = text /\ text \o <<>> = text
         /\ SubSeq(text, Len(text) + 1, Len(text)) = <<>>
         /\ SubSeq(text, 1, 0) = <<>> /\ SubSeq(text, 1, Len(text)) = text
<1>1. <<>> \in Texts /\ Len(<<>>) = 0 /\ <<>> \o text = text /\ text \o <<>> = text
  BY DEF Texts
<1>2. SubSeq(text, Len(text) + 1, Len(text)) = <<>> /\ SubSeq(text, 1, 0) = <<>>
      /\ SubSeq(text, 1, Len(text)) = text
  BY DEF Texts
<1>3. Size(<<>>) = 0
  BY <1>1, UptoIs
<1> QED
  BY <1>1, <1>2, <1>3

\* What's dropped of two texts is dropped of the first, then of the second.
LEMMA WithoutBoth ==
  ASSUME NEW a \in Texts, NEW b \in Texts, NEW over \in Nat
  PROVE  WithoutFirst(a \o b, over) = WithoutFirst(a, over) \o WithoutFirst(b, Beyond(over, Size(a)))
<1> DEFINE m == Len(a)
           n == Len(b)
           both == a \o b
           rest == Beyond(over, Size(a))
<1>0. m \in Nat /\ n \in Nat /\ both \in Texts /\ Len(both) = m + n
  BY DEF Texts
<1>1. Size(a) \in Nat /\ Upto(a, m) = Size(a) /\ Upto(b, 0) = 0
  BY UptoIs
<1>2. rest \in Nat /\ rest = IF over > Size(a) THEN over - Size(a) ELSE 0
  BY <1>1, BeyondIs
<1>3. \A i \in 0..m + n : Upto(both, i) = IF i <= m THEN Upto(a, i) ELSE Size(a) + Upto(b, i - m)
  BY SizeBoth
<1>4. \A i \in 0..m + n :
        /\ i <= m => SubSeq(both, i + 1, Len(both)) = SubSeq(a, i + 1, m) \o b
        /\ i >= m => SubSeq(both, i + 1, Len(both)) = SubSeq(b, i - m + 1, n)
  BY LastOfBoth DEF Texts
<1>5. PICK k \in 0..m : /\ WithoutFirst(a, over) = SubSeq(a, k + 1, m)
                        /\ Upto(a, k) >= over \/ k = m
                        /\ k > 0 => Upto(a, k - 1) < over
  BY WithoutExists
<1>6. PICK j \in 0..n : /\ WithoutFirst(b, rest) = SubSeq(b, j + 1, n)
                        /\ Upto(b, j) >= rest \/ j = n
                        /\ j > 0 => Upto(b, j - 1) < rest
  BY <1>2, WithoutExists
<1>7. Upto(a, k) \in Nat /\ Upto(a, k) <= Size(a) /\ Upto(b, j) \in Nat
      /\ (k > 0 => Upto(a, k - 1) \in Nat) /\ (j > 0 => Upto(b, j - 1) \in Nat)
  <2>1. (k > 0 => k - 1 \in 0..m) /\ (j > 0 => j - 1 \in 0..n)
    BY <1>0
  <2> QED
    BY <2>1, UptoIs
<1> HIDE DEF both, rest, m, n
<1>8. CASE Upto(a, k) >= over
  <2>1. rest = 0
    BY <1>1, <1>2, <1>7, <1>8
  <2>2. j = 0
    BY <1>6, <1>7, <2>1
  <2>3. WithoutFirst(b, rest) = b
    BY <1>6, <2>2, NoText DEF n
  <2>4. k \in 0..m + n /\ k <= m /\ Upto(both, k) >= over /\ (k > 0 => Upto(both, k - 1) < over)
    <3>1. k \in 0..m + n /\ k <= m /\ (k > 0 => k - 1 \in 0..m + n /\ k - 1 <= m)
      BY <1>0
    <3> QED
      BY <1>3, <1>5, <1>8, <3>1
  <2>5. WithoutFirst(both, over) = SubSeq(both, k + 1, Len(both))
    BY <1>0, <2>4, WithoutIs
  <2>6. SubSeq(both, k + 1, Len(both)) = SubSeq(a, k + 1, m) \o b
    BY <1>4, <2>4
  <2>7. WithoutFirst(both, over) = WithoutFirst(a, over) \o WithoutFirst(b, rest)
    BY <1>5, <2>3, <2>5, <2>6
  <2> QED
    BY <2>7 DEF both, rest
<1>9. CASE Upto(a, k) < over
  <2>1. k = m /\ over > Size(a) /\ rest = over - Size(a)
    BY <1>1, <1>2, <1>5, <1>7, <1>9
  <2>2. WithoutFirst(a, over) = <<>>
    BY <1>5, <2>1, NoText DEF m
  <2>3. m + j \in 0..m + n /\ m + j >= m /\ (m + j) - m = j
    BY <1>0
  <2>4. Upto(both, m + j) >= over \/ m + j = Len(both)
    <3>1. Upto(both, m + j) = Size(a) + Upto(b, j)
      <4>1. CASE j = 0
        <5>1. m + j = m /\ m <= m
          BY <1>0, <4>1
        <5> QED
          BY <1>1, <1>3, <2>3, <4>1, <5>1
      <4>2. CASE j > 0
        <5>1. ~(m + j <= m)
          BY <1>0, <4>2
        <5> QED
          BY <1>3, <2>3, <5>1
      <4> QED
        BY <4>1, <4>2
    <3>2. Upto(b, j) >= rest => Size(a) + Upto(b, j) >= over
      BY <1>1, <1>7, <2>1
    <3> QED
      BY <1>0, <1>6, <3>1, <3>2
  <2>5. m + j > 0 => Upto(both, m + j - 1) < over
    <3> SUFFICES ASSUME m + j > 0 PROVE Upto(both, m + j - 1) < over
      OBVIOUS
    <3>1. CASE j = 0
      <4>1. m + j - 1 = m - 1 /\ k > 0 /\ m - 1 \in 0..m + n /\ m - 1 <= m
        BY <1>0, <2>1, <3>1
      <4> QED
        BY <1>3, <1>5, <2>1, <4>1
    <3>2. CASE j > 0
      <4>1. m + j - 1 \in 0..m + n /\ (m + j - 1) - m = j - 1 /\ m + j - 1 >= m
        BY <1>0, <3>2
      <4>2. Upto(both, m + j - 1) = Size(a) + Upto(b, j - 1)
        <5>1. CASE j = 1
          <6>1. m + j - 1 = m /\ m <= m /\ j - 1 = 0
            BY <1>0, <5>1
          <6> QED
            BY <1>1, <1>3, <4>1, <6>1
        <5>2. CASE j # 1
          <6>1. ~(m + j - 1 <= m)
            BY <1>0, <3>2, <5>2
          <6> QED
            BY <1>3, <4>1, <6>1
        <5> QED
          BY <5>1, <5>2
      <4>3. Upto(b, j - 1) < rest /\ Upto(b, j - 1) \in Nat
        BY <1>6, <1>7, <3>2
      <4>4. Size(a) + Upto(b, j - 1) < over
        BY <1>1, <2>1, <4>3
      <4> QED
        BY <4>2, <4>4
    <3> QED
      BY <3>1, <3>2
  <2>6. WithoutFirst(both, over) = SubSeq(both, (m + j) + 1, Len(both))
    <3> DEFINE i == m + j
    <3>1. i \in 0..Len(both)
      BY <1>0, <2>3
    <3>2. Upto(both, i) >= over \/ i = Len(both)
      BY <2>4
    <3>3. i > 0 => Upto(both, i - 1) < over
      <4>1. i - 1 = m + j - 1
        BY <1>0
      <4> QED
        BY <2>5, <4>1
    <3> HIDE DEF i
    <3>4. WithoutFirst(both, over) = SubSeq(both, i + 1, Len(both))
      BY <1>0, <3>1, <3>2, <3>3, WithoutIs
    <3> QED
      BY <3>4 DEF i
  <2>7. SubSeq(both, (m + j) + 1, Len(both)) = SubSeq(b, j + 1, n)
    BY <1>4, <2>3
  <2>8. WithoutFirst(b, rest) \in Texts
    BY <1>6, RestSize DEF n
  <2>9. WithoutFirst(both, over) = WithoutFirst(a, over) \o WithoutFirst(b, rest)
    BY <1>6, <2>2, <2>6, <2>7, <2>8, NoText
  <2> QED
    BY <2>9 DEF both, rest
<1> QED
  BY <1>7, <1>8, <1>9

\* What's held of two texts is the end of both.
LEMMA HoldIs ==
  ASSUME NEW a \in Texts, NEW b \in Texts, NEW max \in Nat
  PROVE  Hold(a, b, max) = LastBytes(a \o b, max)
<1>1. a \o b \in Texts /\ Size(a \o b) = Size(a) + Size(b) /\ Size(a \o b) \in Nat
  BY SizeBoth, UptoIs
<1>2. Beyond(Size(a \o b), max) \in Nat
  BY <1>1, BeyondIs
<1>3. LastBytes(a \o b, max) = WithoutFirst(a \o b, Beyond(Size(a \o b), max))
  BY <1>1, LastIs
<1>4. WithoutFirst(a \o b, Beyond(Size(a \o b), max))
        = WithoutFirst(a, Beyond(Size(a \o b), max))
            \o WithoutFirst(b, Beyond(Beyond(Size(a \o b), max), Size(a)))
  BY <1>2, WithoutBoth
<1> QED
  BY <1>1, <1>3, <1>4 DEF Hold

\* The end of a text is the end of what follows, when that's large enough.
LEMMA LastOfRest ==
  ASSUME NEW a \in Texts, NEW b \in Texts, NEW m \in Nat,
         Len(a) > 0 => Upto(a, Len(a) - 1) < Beyond(Size(a) + Size(b), m)
  PROVE  LastBytes(a \o b, m) = LastBytes(b, m)
<1> DEFINE over == Beyond(Size(a) + Size(b), m)
<1>1. a \o b \in Texts /\ Size(a \o b) = Size(a) + Size(b)
      /\ Size(a) \in Nat /\ Size(b) \in Nat /\ Len(a) \in Nat
  BY SizeBoth, UptoIs DEF Texts
<1>2. over \in Nat /\ over = IF Size(a) + Size(b) > m THEN Size(a) + Size(b) - m ELSE 0
  <2> QED
    BY <1>1 DEF Beyond
<1>3. Beyond(over, Size(a)) = Beyond(Size(b), m)
  <2> HIDE DEF over
  <2>1. Beyond(over, Size(a)) = IF over > Size(a) THEN over - Size(a) ELSE 0
    BY <1>1, <1>2, BeyondIs
  <2>2. Beyond(Size(b), m) = IF Size(b) > m THEN Size(b) - m ELSE 0
    BY <1>1, BeyondIs
  <2> QED
    BY <1>1, <1>2, <2>1, <2>2
<1>4. WithoutFirst(a, over) = <<>>
  <2>1. Len(a) \in 0..Len(a)
    BY <1>1
  <2>2. WithoutFirst(a, over) = SubSeq(a, Len(a) + 1, Len(a))
    BY <1>2, <2>1, WithoutIs
  <2> QED
    BY <2>2, NoText
<1>5. LastBytes(b, m) \in Texts /\ LastBytes(b, m) = WithoutFirst(b, Beyond(Size(b), m))
  <2>1. LastBytes(b, m) = WithoutFirst(b, Beyond(Size(b), m)) /\ Beyond(Size(b), m) \in Nat
    BY <1>1, LastIs, BeyondIs
  <2>2. PICK k \in 0..Len(b) : WithoutFirst(b, Beyond(Size(b), m)) = SubSeq(b, k + 1, Len(b))
    BY <2>1, WithoutExists
  <2>3. SubSeq(b, k + 1, Len(b)) \in Texts
    BY RestSize
  <2> QED
    BY <2>1, <2>2, <2>3
<1>6. LastBytes(a \o b, m) = WithoutFirst(a \o b, over)
  BY <1>1, LastIs
<1>7. WithoutFirst(a \o b, over) = WithoutFirst(a, over) \o WithoutFirst(b, Beyond(over, Size(a)))
  BY <1>2, WithoutBoth
<1>8. WithoutFirst(a \o b, over) = <<>> \o LastBytes(b, m)
  BY <1>3, <1>4, <1>5, <1>7
<1> QED
  BY <1>5, <1>6, <1>8, NoText

\* The end of a text is a part of it, and all of it when it's small enough.
LEMMA LastPart ==
  ASSUME NEW text \in Texts, NEW m \in Nat
  PROVE  \E a \in Texts : /\ LastBytes(text, m) \in Texts /\ text = a \o LastBytes(text, m)
                          /\ Size(LastBytes(text, m)) <= m
                          /\ Len(a) > 0 => Upto(a, Len(a) - 1) < Beyond(Size(text), m)
<1> DEFINE over == Beyond(Size(text), m)
<1>1. Size(text) \in Nat /\ over \in Nat /\ over = IF Size(text) > m THEN Size(text) - m ELSE 0
  BY UptoIs, BeyondIs
<1>2. PICK k \in 0..Len(text) : /\ WithoutFirst(text, over) = SubSeq(text, k + 1, Len(text))
                                /\ Upto(text, k) >= over \/ k = Len(text)
                                /\ k > 0 => Upto(text, k - 1) < over
  BY <1>1, WithoutExists
<1> DEFINE a == SubSeq(text, 1, k)
           last == SubSeq(text, k + 1, Len(text))
<1>3. /\ a \in Texts /\ last \in Texts /\ Len(a) = k /\ text = a \o last
      /\ Size(last) = Size(text) - Upto(text, k)
  BY RestSize
<1>4. LastBytes(text, m) = last
  BY <1>2, LastIs
<1>5. Upto(text, k) \in Nat /\ Upto(text, Len(text)) = Size(text) /\ Len(text) \in Nat
  BY UptoIs DEF Texts
<1> HIDE DEF a, last
<1>6. Size(last) <= m
  <2>1. k = Len(text) => Upto(text, k) >= over
    BY <1>1, <1>5
  <2>2. Upto(text, k) >= over
    BY <1>2, <2>1
  <2> HIDE DEF over
  <2> QED
    BY <1>1, <1>3, <1>5, <2>2
<1>7. Len(a) > 0 => Upto(a, Len(a) - 1) < over
  <2> SUFFICES ASSUME Len(a) > 0 PROVE Upto(a, Len(a) - 1) < over
    OBVIOUS
  <2>1. k > 0 /\ k - 1 \in 0..Len(a) /\ k - 1 \in 0..Len(a) + Len(last) /\ k - 1 <= Len(a)
    <3>1. Len(last) \in Nat
      BY <1>3 DEF Texts
    <3> QED
      BY <1>3, <3>1
  <2>2. Upto(text, k - 1) = Upto(a, k - 1)
    BY <1>3, <2>1, SizeBoth
  <2> QED
    BY <1>2, <1>3, <2>1, <2>2
<1> QED
  BY <1>3, <1>4, <1>6, <1>7

\* What follows the end of a text may be held with it.
LEMMA LastLast ==
  ASSUME NEW x \in Texts, NEW y \in Texts, NEW m \in Nat
  PROVE  LastBytes(LastBytes(x, m) \o y, m) = LastBytes(x \o y, m)
<1> DEFINE last == LastBytes(x, m)
<1>1. PICK a \in Texts : /\ last \in Texts /\ x = a \o last
                         /\ Len(a) > 0 => Upto(a, Len(a) - 1) < Beyond(Size(x), m)
  BY LastPart
<1> HIDE DEF last
<1>2. last \o y \in Texts /\ Size(x) = Size(a) + Size(last) /\ Size(last \o y) = Size(last) + Size(y)
  BY <1>1, SizeBoth
<1>3. Size(x) \in Nat /\ Size(a) \in Nat /\ Size(last) \in Nat /\ Size(y) \in Nat /\ Len(a) \in Nat
  <2>1. Len(a) \in Nat
    BY DEF Texts
  <2>2. Size(x) \in Nat /\ Size(a) \in Nat /\ Size(y) \in Nat
    BY UptoIs
  <2>3. Size(last) \in Nat
    BY <1>1, UptoIs
  <2> QED
    BY <2>1, <2>2, <2>3
<1>4. Len(a) > 0 => Upto(a, Len(a) - 1) < Beyond(Size(a) + Size(last \o y), m)
  <2> SUFFICES ASSUME Len(a) > 0 PROVE Upto(a, Len(a) - 1) < Beyond(Size(a) + Size(last \o y), m)
    OBVIOUS
  <2>1. Len(a) - 1 \in 0..Len(a)
    BY <1>3
  <2>2. Upto(a, Len(a) - 1) \in Nat
    BY <2>1, UptoIs
  <2>3. Beyond(Size(x), m) = IF Size(x) > m THEN Size(x) - m ELSE 0
    BY <1>3, BeyondIs
  <2>4. Beyond(Size(x) + Size(y), m) = IF Size(x) + Size(y) > m THEN Size(x) + Size(y) - m ELSE 0
    BY <1>3 DEF Beyond
  <2>5. Beyond(Size(x), m) <= Beyond(Size(x) + Size(y), m)
    BY <1>3, <2>3, <2>4
  <2>6. Size(a) + Size(last \o y) = Size(x) + Size(y)
    BY <1>2, <1>3
  <2>7. Beyond(Size(x), m) \in Int /\ Beyond(Size(x) + Size(y), m) \in Int
    BY <1>3, <2>3, <2>4
  <2> QED
    BY <1>1, <2>2, <2>5, <2>6, <2>7
<1>5. LastBytes(a \o (last \o y), m) = LastBytes(last \o y, m)
  BY <1>2, <1>4, LastOfRest
<1>6. a \o (last \o y) = x \o y
  BY <1>1, TextsJoined DEF Texts
<1> QED
  BY <1>5, <1>6 DEF last

-----------------------------------------------------------------------------
(* The start of two texts.                                                 *)

\* The start of two texts, and what follows it, is that of the first, then
\* that of the second.
LEMMA FirstBoth ==
  ASSUME NEW a \in Texts, NEW b \in Texts, NEW m \in Nat
  PROVE  LET rest == Beyond(m, Size(a))
             one == FirstBytes(a, m)
             other == FirstBytes(b, rest)
         IN  /\ one \in Texts /\ other \in Texts /\ After(a, one) \in Texts /\ After(b, other) \in Texts
             /\ FirstBytes(a \o b, m) = one \o other
             /\ After(a \o b, one \o other) = After(a, one) \o After(b, other)
<1> DEFINE rest == Beyond(m, Size(a))
           all == a \o b
           p == Len(a)
           q == Len(b)
<1>0. p \in Nat /\ q \in Nat /\ all \in Texts /\ Len(all) = p + q
  BY DEF Texts
<1>1. Size(a) \in Nat /\ Upto(a, p) = Size(a) /\ Upto(b, 0) = 0
  BY UptoIs
<1>2. rest \in Nat /\ rest = IF m > Size(a) THEN m - Size(a) ELSE 0
  BY <1>1, BeyondIs
<1>3. \A i \in 0..p + q : Upto(all, i) = IF i <= p THEN Upto(a, i) ELSE Size(a) + Upto(b, i - p)
  BY SizeBoth
<1>4. \A i \in 0..p + q :
        /\ i <= p => SubSeq(all, i + 1, Len(all)) = SubSeq(a, i + 1, p) \o b
        /\ i >= p => SubSeq(all, i + 1, Len(all)) = SubSeq(b, i - p + 1, q)
  BY LastOfBoth DEF Texts
<1>5. \A i \in 0..p + q :
        /\ i <= p => SubSeq(all, 1, i) = SubSeq(a, 1, i)
        /\ i >= p => SubSeq(all, 1, i) = a \o SubSeq(b, 1, i - p)
  BY FirstOfBoth DEF Texts
<1>6. PICK k \in 0..p : /\ FirstBytes(a, m) = SubSeq(a, 1, k)
                        /\ Upto(a, k) <= m /\ (k < p => Upto(a, k + 1) > m)
  BY FirstExists
<1>7. PICK j \in 0..q : /\ FirstBytes(b, rest) = SubSeq(b, 1, j)
                        /\ Upto(b, j) <= rest /\ (j < q => Upto(b, j + 1) > rest)
  BY <1>2, FirstExists
<1> DEFINE one == SubSeq(a, 1, k)
           other == SubSeq(b, 1, j)
           oneOn == SubSeq(a, k + 1, p)
           otherOn == SubSeq(b, j + 1, q)
<1>8. one \in Texts /\ oneOn \in Texts /\ Len(one) = k /\ other \in Texts /\ otherOn \in Texts /\ Len(other) = j
  BY RestSize
<1>9. After(a, one) = oneOn /\ After(b, other) = otherOn
  BY <1>8 DEF After
<1>10. Upto(a, k) \in Nat /\ Upto(b, j) \in Nat
  BY UptoIs
<1>11. Len(one \o other) = k + j
  BY <1>8 DEF Texts
<1> DEFINE Goal == FirstBytes(all, m) = one \o other /\ After(all, one \o other) = oneOn \o otherOn
<1>12. ASSUME k < p PROVE Goal
  <2>1. Upto(a, k + 1) > m /\ k + 1 \in 0..p
    BY <1>0, <1>6, <1>12
  <2>2. Upto(a, k + 1) <= Size(a) /\ Upto(a, k + 1) \in Nat
    BY <2>1, UptoIs
  <2>3. rest = 0
    BY <1>1, <1>2, <2>1, <2>2
  <2>4. j = 0
    <3> SUFFICES ASSUME j > 0 PROVE FALSE
      BY <1>0
    <3>1. 0 \in 0..q
      BY <1>0
    <3>2. Upto(b, 0) < Upto(b, j)
      BY <3>1, UptoIs
    <3> QED
      BY <1>1, <1>7, <1>10, <2>3, <3>2
  <2>5. other = <<>> /\ otherOn = b
    <3>1. other = SubSeq(b, 1, 0) /\ otherOn = SubSeq(b, 0 + 1, Len(b)) /\ 0 + 1 = 1
      BY <2>4
    <3> QED
      BY <3>1, NoText
  <2>6. one \o other = one
    BY <1>8, <2>5, NoText
  <2>7. k \in 0..Len(all) /\ k \in 0..p + q /\ k + 1 \in 0..p + q /\ k <= p /\ k + 1 <= p
    BY <1>0, <1>12
  <2>8. Upto(all, k) <= m /\ Upto(all, k + 1) > m
    BY <1>3, <1>6, <2>1, <2>7
  <2>9. FirstBytes(all, m) = SubSeq(all, 1, k)
    <3> HIDE DEF all
    <3> QED
      BY <1>0, <2>7, <2>8, FirstIs
  <2>10. FirstBytes(all, m) = one \o other
    BY <1>5, <2>6, <2>7, <2>9
  <2>11. After(all, one \o other) = SubSeq(all, k + 1, Len(all))
    BY <1>8, <2>6 DEF After
  <2>12. After(all, one \o other) = oneOn \o otherOn
    BY <1>4, <2>5, <2>7, <2>11
  <2> QED
    BY <2>10, <2>12
<1>13. ASSUME k = p PROVE Goal
  <2>1. one = a /\ oneOn = <<>>
    BY <1>13, NoText
  <2>2. m >= Size(a) /\ rest = m - Size(a)
    BY <1>1, <1>2, <1>6, <1>13
  <2> DEFINE i == p + j
  <2>3. i \in 0..p + q /\ i >= p /\ i - p = j /\ i = k + j
    BY <1>0, <1>13
  <2>4. Upto(all, i) = Size(a) + Upto(b, j)
    <3>1. i <= p => j = 0 /\ i = p
      BY <1>0
    <3>2. i <= p => Upto(all, i) = Upto(a, p) /\ Upto(b, j) = 0
      BY <1>1, <1>3, <2>3, <3>1
    <3>3. ~(i <= p) => Upto(all, i) = Size(a) + Upto(b, j)
      BY <1>3, <2>3
    <3> QED
      BY <1>1, <3>2, <3>3
  <2>5. Upto(all, i) <= m
    BY <1>1, <1>7, <1>10, <2>2, <2>4
  <2>6. i < p + q => Upto(all, i + 1) > m
    <3> SUFFICES ASSUME i < p + q PROVE Upto(all, i + 1) > m
      OBVIOUS
    <3>1. j < q /\ i + 1 \in 0..p + q /\ ~(i + 1 <= p) /\ (i + 1) - p = j + 1 /\ j + 1 \in 0..q
      BY <1>0
    <3>2. Upto(all, i + 1) = Size(a) + Upto(b, j + 1) /\ Upto(b, j + 1) \in Nat
      BY <1>3, <3>1, UptoIs
    <3>3. Upto(b, j + 1) > rest
      BY <1>7, <3>1
    <3> QED
      BY <1>1, <2>2, <3>2, <3>3
  <2> HIDE DEF i
  <2>7. FirstBytes(all, m) = SubSeq(all, 1, i)
    <3>1. i \in 0..Len(all) /\ (i < Len(all) => Upto(all, i + 1) > m)
      BY <1>0, <2>3, <2>6
    <3> HIDE DEF all
    <3> QED
      BY <1>0, <2>5, <3>1, FirstIs
  <2>8. FirstBytes(all, m) = one \o other
    BY <1>5, <2>1, <2>3, <2>7
  <2>9. After(all, one \o other) = SubSeq(all, i + 1, Len(all))
    BY <1>11, <2>3 DEF After
  <2>10. After(all, one \o other) = otherOn
    BY <1>4, <2>3, <2>9
  <2>11. After(all, one \o other) = oneOn \o otherOn
    BY <1>8, <2>1, <2>10, NoText
  <2> QED
    BY <2>8, <2>11
<1>14. Goal
  <2>1. k < p \/ k = p
    BY <1>0
  <2> HIDE DEF Goal
  <2> QED
    BY <1>12, <1>13, <2>1
<1> QED
  BY <1>6, <1>7, <1>8, <1>9, <1>14

\* The start of a text's start is that of the text.
LEMMA FirstFirst ==
  ASSUME NEW text \in Texts, NEW m \in Nat, NEW n \in Nat, m <= n
  PROVE  FirstBytes(FirstBytes(text, n), m) = FirstBytes(text, m)
<1>0. Len(text) \in Nat
  BY DEF Texts
<1>1. PICK k \in 0..Len(text) : /\ FirstBytes(text, n) = SubSeq(text, 1, k)
                                /\ Upto(text, k) <= n /\ (k < Len(text) => Upto(text, k + 1) > n)
  BY FirstExists
<1>2. PICK j \in 0..Len(text) : /\ FirstBytes(text, m) = SubSeq(text, 1, j)
                                /\ Upto(text, j) <= m /\ (j < Len(text) => Upto(text, j + 1) > m)
  BY FirstExists
<1> DEFINE a == SubSeq(text, 1, k)
           b == SubSeq(text, k + 1, Len(text))
<1>3. a \in Texts /\ b \in Texts /\ Len(a) = k /\ text = a \o b
  BY RestSize
<1>4. j <= k
  <2> SUFFICES ASSUME j > k PROVE FALSE
    BY <1>0
  <2>1. k < Len(text) /\ k + 1 \in 0..Len(text) /\ (k + 1 < j \/ k + 1 = j)
    BY <1>0
  <2>2. Upto(text, k + 1) <= Upto(text, j) /\ Upto(text, k + 1) \in Nat /\ Upto(text, j) \in Nat
    BY <2>1, UptoIs
  <2> QED
    BY <1>1, <1>2, <2>1, <2>2
<1> HIDE DEF a, b
<1>5. Len(b) \in Nat
  BY <1>3 DEF Texts
<1>6. \A i \in 0..Len(a) : Upto(text, i) = Upto(a, i)
  <2> TAKE i \in 0..Len(a)
  <2>1. i \in 0..Len(a) + Len(b) /\ i <= Len(a)
    BY <1>3, <1>5
  <2> QED
    BY <1>3, <2>1, SizeBoth
<1>7. j \in 0..Len(a) /\ Upto(a, j) <= m
  BY <1>0, <1>2, <1>3, <1>4, <1>6
<1>8. j < Len(a) => Upto(a, j + 1) > m
  <2> SUFFICES ASSUME j < Len(a) PROVE Upto(a, j + 1) > m
    OBVIOUS
  <2>1. j + 1 \in 0..Len(a) /\ j < Len(text)
    BY <1>0, <1>3, <1>7
  <2> QED
    BY <1>2, <1>6, <2>1
<1>9. FirstBytes(a, m) = SubSeq(a, 1, j)
  BY <1>3, <1>7, <1>8, FirstIs
<1>10. SubSeq(text, 1, j) = SubSeq(a, 1, j)
  <2>1. j \in 0..Len(a) + Len(b) /\ j <= Len(a)
    BY <1>5, <1>7
  <2> QED
    BY <1>3, <2>1, FirstOfBoth DEF Texts
<1> QED
  BY <1>1, <1>2, <1>9, <1>10 DEF a

-----------------------------------------------------------------------------
(* What's kept of a text.                                                  *)

\* What's kept of a text that's all there.
KeptOf(text, keep) ==
  LET head == FirstBytes(text, keep.head)
  IN  [head |-> head, tail |-> LastBytes(After(text, head), keep.tail),
       closing |-> <<>>, fed |-> Size(text)]

\* What may be kept.
Keeping == [head : Nat, tail : Nat]

\* Of no text nothing is kept.
LEMMA KeptNothing ==
  ASSUME NEW keep \in Keeping
  PROVE  KeptOf(<<>>, keep) = Nothing
<1>1. <<>> \in Texts /\ Len(<<>>) = 0 /\ Size(<<>>) = 0 /\ Upto(<<>>, 0) = 0
      /\ SubSeq(<<>>, 1, 0) = <<>>
  <2>1. <<>> \in Texts
    BY DEF Texts
  <2>2. Len(<<>>) = 0 /\ Size(<<>>) = 0 /\ SubSeq(<<>>, 1, 0) = <<>>
    BY <2>1, NoText
  <2>3. Upto(<<>>, 0) = 0
    BY <2>1, UptoIs
  <2> QED
    BY <2>1, <2>2, <2>3
<1>2. ASSUME NEW m \in Nat PROVE FirstBytes(<<>>, m) = <<>>
  <2>1. 0 \in 0..Len(<<>>) /\ ~(0 < Len(<<>>)) /\ 0 <= m
    BY <1>1
  <2>2. FirstBytes(<<>>, m) = SubSeq(<<>>, 1, 0)
    BY <1>1, <2>1, FirstIs
  <2> QED
    BY <1>1, <2>2
<1>3. After(<<>>, <<>>) = <<>>
  BY <1>1, NoText DEF After
<1>4. ASSUME NEW m \in Nat PROVE LastBytes(<<>>, m) = <<>>
  <2>1. PICK a \in Texts : LastBytes(<<>>, m) \in Texts /\ <<>> = a \o LastBytes(<<>>, m)
    BY <1>1, LastPart
  <2>2. Len(LastBytes(<<>>, m)) = 0
    <3>1. PICK last \in Texts : last = LastBytes(<<>>, m)
      BY <2>1
    <3>2. Len(a) \in Nat /\ Len(last) \in Nat /\ Len(a \o last) = Len(a) + Len(last)
      BY DEF Texts
    <3>3. Len(a \o last) = 0
      BY <1>1, <2>1, <3>1
    <3> QED
      BY <3>1, <3>2, <3>3
  <2> QED
    BY <2>1, <2>2 DEF Texts
<1>5. keep.head \in Nat /\ keep.tail \in Nat
  BY DEF Keeping
<1> QED
  BY <1>1, <1>2, <1>3, <1>4, <1>5 DEF KeptOf, Nothing

\* What's kept of a text: parts of it no larger than the most that's kept.
LEMMA KeptType ==
  ASSUME NEW text \in Texts, NEW keep \in Keeping
  PROVE  LET head == FirstBytes(text, keep.head)
             rest == After(text, head)
             last == LastBytes(rest, keep.tail)
         IN  /\ head \in Texts /\ rest \in Texts /\ last \in Texts
             /\ text = head \o rest /\ Size(text) = Size(head) + Size(rest)
             /\ Size(head) <= keep.head /\ Size(last) <= keep.tail
             /\ rest # <<>> => Size(text) > keep.head
<1>0. keep.head \in Nat /\ keep.tail \in Nat /\ Len(text) \in Nat /\ Size(text) \in Nat
  BY UptoIs DEF Keeping, Texts
<1>1. PICK k \in 0..Len(text) : /\ FirstBytes(text, keep.head) = SubSeq(text, 1, k)
                                /\ Upto(text, k) <= keep.head
                                /\ (k < Len(text) => Upto(text, k + 1) > keep.head)
  BY <1>0, FirstExists
<1> DEFINE head == SubSeq(text, 1, k)
           rest == SubSeq(text, k + 1, Len(text))
<1>2. /\ head \in Texts /\ rest \in Texts /\ Len(head) = k /\ text = head \o rest
      /\ Len(rest) = Len(text) - k
  BY RestSize
<1>3. Size(head) <= keep.head
  BY <1>1 DEF Upto
<1>4. After(text, head) = rest
  BY <1>2 DEF After
<1> HIDE DEF head, rest
<1>5. Size(text) = Size(head) + Size(rest)
  BY <1>2, SizeBoth
<1>6. LastBytes(rest, keep.tail) \in Texts /\ Size(LastBytes(rest, keep.tail)) <= keep.tail
  BY <1>0, <1>2, LastPart
<1>7. ASSUME rest # <<>> PROVE Size(text) > keep.head
  <2>1. Len(rest) # 0
    BY <1>2, <1>7 DEF Texts
  <2>2. k < Len(text) /\ k + 1 \in 0..Len(text)
    BY <1>0, <1>2, <2>1
  <2>3. Upto(text, k + 1) > keep.head /\ Upto(text, k + 1) <= Size(text) /\ Upto(text, k + 1) \in Nat
    BY <1>1, <2>2, UptoIs
  <2> QED
    BY <1>0, <2>3
<1> QED
  BY <1>1, <1>2, <1>3, <1>4, <1>5, <1>6, <1>7 DEF head

\* What's kept of a text and what follows it is what's kept of them both.
LEMMA PushOn ==
  ASSUME NEW text \in Texts, NEW more \in Texts, NEW keep \in Keeping
  PROVE  Push(KeptOf(text, keep), keep, more) = KeptOf(text \o more, keep)
<1> DEFINE head == FirstBytes(text, keep.head)
           rest == After(text, head)
           room == Beyond(keep.head, Size(text))
           start == FirstBytes(more, room)
           on == After(more, start)
           last == LastBytes(rest, keep.tail)
<1>0. keep.head \in Nat /\ keep.tail \in Nat
  BY DEF Keeping
<1>1. /\ head \in Texts /\ start \in Texts /\ rest \in Texts /\ on \in Texts
      /\ FirstBytes(text \o more, keep.head) = head \o start
      /\ After(text \o more, head \o start) = rest \o on
  BY <1>0, FirstBoth
<1>2. last \in Texts
  BY KeptType
<1>3. Size(text \o more) = Size(text) + Size(more)
  BY SizeBoth
<1>4. Hold(last, on, keep.tail) = LastBytes(rest \o on, keep.tail)
  <2> HIDE DEF head, rest, start, on
  <2>1. LastBytes(last \o on, keep.tail) = LastBytes(rest \o on, keep.tail)
    BY <1>0, <1>1, LastLast
  <2>2. Hold(last, on, keep.tail) = LastBytes(last \o on, keep.tail)
    <3> HIDE DEF last
    <3> QED
      BY <1>0, <1>1, <1>2, HoldIs
  <2> QED
    BY <2>1, <2>2
<1> DEFINE kept == [head |-> head, tail |-> last, closing |-> <<>>, fed |-> Size(text)]
<1>5. KeptOf(text, keep) = kept
  BY DEF KeptOf
<1>6. KeptOf(text \o more, keep)
        = [head |-> head \o start, tail |-> LastBytes(rest \o on, keep.tail),
           closing |-> <<>>, fed |-> Size(text) + Size(more)]
  BY <1>1, <1>3 DEF KeptOf
<1>7. Push(kept, keep, more)
        = [head |-> head \o start, tail |-> Hold(last, on, keep.tail),
           closing |-> <<>>, fed |-> Size(text) + Size(more)]
  <2>1. kept.fed = Size(text) /\ kept.head = head /\ kept.tail = last
    OBVIOUS
  <2>2. Push(kept, keep, more)
          = [kept EXCEPT !.head = head \o start, !.tail = Hold(last, on, keep.tail),
                         !.fed = Size(text) + Size(more)]
    BY <2>1 DEF Push
  <2> QED
    BY <2>2
<1> QED
  BY <1>4, <1>5, <1>6, <1>7

-----------------------------------------------------------------------------
(* What's sent of what was kept.                                           *)

\* What TextAssumption says of a cap.
IsCap(limit) ==
  /\ limit.max \in Nat /\ limit.preview \in Nat
  /\ limit.cut \in {"head", "head_tail", "preview"}
  /\ limit.cut = "preview" => limit.preview <= limit.max

\* What's kept is no less than what's sent.
LEMMA KeepsSends ==
  ASSUME NEW limit, IsCap(limit)
  PROVE  /\ Keeps(limit) \in Keeping /\ Sends(limit) \in Keeping
         /\ Keeps(limit).head = limit.max /\ Sends(limit).head <= limit.max
         /\ Sends(limit).tail = Keeps(limit).tail
<1>1. limit.max \in Nat /\ Half(limit) \in Nat /\ Half(limit) <= limit.max
  <2>1. \A n \in Nat : n \div 2 \in Nat /\ n \div 2 <= n
    OBVIOUS
  <2> QED
    BY <2>1 DEF Half, IsCap
<1>2. CASE limit.cut = "head"
  BY <1>1, <1>2 DEF IsCap, Keeps, Sends, Keeping
<1>3. CASE limit.cut = "head_tail"
  BY <1>1, <1>3 DEF IsCap, Keeps, Sends, Keeping
<1>4. CASE limit.cut = "preview"
  BY <1>1, <1>4 DEF IsCap, Keeps, Sends, Keeping
<1> QED
  BY <1>2, <1>3, <1>4 DEF IsCap

\* When the end doesn't reach back to the start, what's sent of the end is
\* what's sent of all that isn't sent of the start.
LEMMA GapEnd ==
  ASSUME NEW mid \in Texts, NEW rest \in Texts, NEW m \in Nat, Size(rest) > m
  PROVE  LastBytes(mid \o rest, m) = LastBytes(LastBytes(rest, m), m)
<1>1. LastBytes(mid \o rest, m) = LastBytes(rest, m)
  <2> SUFFICES ASSUME Len(mid) > 0
               PROVE  Upto(mid, Len(mid) - 1) < Beyond(Size(mid) + Size(rest), m)
    BY LastOfRest
  <2>1. Size(mid) \in Nat /\ Size(rest) \in Nat /\ Upto(mid, Len(mid)) = Size(mid)
    BY UptoIs
  <2>2. Len(mid) - 1 \in 0..Len(mid) /\ Len(mid) \in 0..Len(mid) /\ Len(mid) - 1 < Len(mid)
    BY DEF Texts
  <2>3. Upto(mid, Len(mid) - 1) < Size(mid) /\ Upto(mid, Len(mid) - 1) \in Nat
    BY <2>1, <2>2, UptoIs
  <2>4. Beyond(Size(mid) + Size(rest), m) = Size(mid) + Size(rest) - m
    BY <2>1 DEF Beyond
  <2> HIDE DEF Beyond
  <2> QED
    BY <2>1, <2>3, <2>4
<1>2. LastBytes(LastBytes(rest, m), m) = LastBytes(rest, m)
  <2>1. LastBytes(rest, m) \in Texts
    BY LastPart
  <2>2. LastBytes(LastBytes(rest, m) \o <<>>, m) = LastBytes(rest \o <<>>, m)
    BY NoText, LastLast
  <2> QED
    BY <2>1, <2>2, NoText
<1> QED
  BY <1>1, <1>2

\* What's sent of what was kept is what's sent of the whole text.
LEMMA SentIs ==
  ASSUME NEW text \in Texts, NEW words \in Texts, NEW limit, IsCap(limit)
  PROVE  Sent(CloseWith(KeptOf(text, Keeps(limit)), words), limit) = SentOf(text, words, limit)
<1> DEFINE keep == Keeps(limit)
           send == Sends(limit)
           head == FirstBytes(text, keep.head)
           rest == After(text, head)
           tail == LastBytes(rest, keep.tail)
           line == FirstBytes(words, ClosingMax)
           kept == CloseWith(KeptOf(text, keep), words)
           total == Size(text) + Size(line)
           gap == Size(head) + Size(tail) + Size(line) < total
           start == IF gap THEN head ELSE head \o tail
           pushed == Push(Nothing, send, start)
           end == IF gap THEN Hold(<<>>, tail, send.tail) ELSE pushed.tail
           begin == FirstBytes(text, send.head)
<1>1. /\ keep \in Keeping /\ send \in Keeping /\ limit.max \in Nat
      /\ keep.head = limit.max /\ send.head <= limit.max /\ send.tail = keep.tail
      /\ send.head \in Nat /\ send.tail \in Nat
  BY KeepsSends DEF IsCap, Keeping
<1>2. /\ kept.head = head /\ kept.tail = tail /\ kept.closing = line /\ kept.fed = Size(text)
  BY DEF CloseWith, KeptOf
<1>3. Sent(kept, limit) = IF ~gap /\ Size(text) <= limit.max
                        THEN Whole(start \o line)
                        ELSE Parts(pushed.head, end, line, total)
  BY <1>2 DEF Sent
<1>4. SentOf(text, words, limit)
        = IF Size(text) <= limit.max
          THEN Whole(text \o line)
          ELSE Parts(begin, LastBytes(After(text, begin), send.tail), line, total)
  BY DEF SentOf
<1>5. /\ head \in Texts /\ rest \in Texts /\ tail \in Texts
      /\ text = head \o rest /\ Size(text) = Size(head) + Size(rest)
      /\ rest # <<>> => Size(text) > limit.max
  BY <1>1, KeptType
<1>6. line \in Texts
  BY ClosingAssumption, FirstBoth
<1>7. ASSUME NEW all \in Texts
      PROVE  Push(Nothing, send, all) = KeptOf(all, send)
  <2> HIDE DEF send
  <2>1. KeptOf(<<>>, send) = Nothing
    BY <1>1, KeptNothing
  <2>2. Push(KeptOf(<<>>, send), send, all) = KeptOf(<<>> \o all, send)
    BY <1>1, PushOn, NoText
  <2>3. <<>> \o all = all
    BY NoText
  <2> QED
    BY <2>1, <2>2, <2>3
<1> HIDE DEF head, rest, tail, line, keep, send, begin, kept
<1>8. Size(text) \in Nat /\ Size(head) \in Nat /\ Size(rest) \in Nat /\ Size(tail) \in Nat /\ Size(line) \in Nat
  <2>1. \A t \in Texts : Size(t) \in Nat
    BY UptoIs
  <2> QED
    BY <1>5, <1>6, <2>1
<1>9. PICK lost \in Texts : /\ rest = lost \o tail
                            /\ Len(lost) > 0 => Upto(lost, Len(lost) - 1) < Beyond(Size(rest), keep.tail)
  BY <1>1, <1>5, LastPart DEF tail
<1>10. Size(rest) = Size(lost) + Size(tail) /\ Size(lost) \in Nat /\ Len(lost) \in Nat
  BY <1>5, <1>9, SizeBoth, UptoIs DEF Texts
<1>11. gap <=> Size(lost) > 0
  BY <1>5, <1>8, <1>10
<1>12. CASE ~gap
  <2>1. Len(lost) = 0
    <3> SUFFICES ASSUME Len(lost) > 0 PROVE FALSE
      BY <1>10
    <3>1. 0 \in 0..Len(lost) /\ Len(lost) \in 0..Len(lost)
      BY <1>10
    <3>2. Upto(lost, 0) < Upto(lost, Len(lost)) /\ Upto(lost, 0) = 0 /\ Upto(lost, Len(lost)) = Size(lost)
      BY <3>1, UptoIs
    <3> QED
      BY <1>10, <1>11, <1>12, <3>2
  <2>2. lost = <<>>
    BY <2>1 DEF Texts
  <2>3. rest = tail
    BY <1>5, <1>9, <2>2, NoText
  <2>4. start = text
    BY <1>5, <1>12, <2>3
  <2>5. pushed = KeptOf(text, send)
    BY <1>7, <2>4
  <2>6. pushed.head = begin /\ pushed.tail = LastBytes(After(text, begin), send.tail)
    BY <2>5 DEF KeptOf, begin
  <2>7. end = LastBytes(After(text, begin), send.tail)
    BY <1>12, <2>6
  <2>8. Sent(kept, limit) = IF Size(text) <= limit.max
                          THEN Whole(text \o line)
                          ELSE Parts(begin, LastBytes(After(text, begin), send.tail), line, total)
    BY <1>3, <1>12, <2>4, <2>6, <2>7
  <2> QED
    BY <1>4, <2>8 DEF kept, keep
<1>13. CASE gap
  <2>1. Size(rest) > keep.tail
    <3>1. Len(lost) > 0
      <4> SUFFICES ASSUME Len(lost) = 0 PROVE FALSE
        BY <1>10
      <4>1. lost = <<>>
        BY DEF Texts
      <4>2. Size(lost) = 0
        BY <4>1, NoText
      <4> QED
        BY <1>11, <1>13, <4>2
    <3>2. Len(lost) - 1 \in 0..Len(lost)
      BY <1>10, <3>1
    <3>3. Upto(lost, Len(lost) - 1) \in Nat
      BY <3>2, UptoIs
    <3>4. Beyond(Size(rest), keep.tail) > 0
      <4>1. Beyond(Size(rest), keep.tail) \in Nat
        BY <1>1, <1>8, BeyondIs
      <4> QED
        BY <1>9, <3>1, <3>3, <4>1
    <3>5. Beyond(Size(rest), keep.tail) = IF Size(rest) > keep.tail THEN Size(rest) - keep.tail ELSE 0
      BY <1>1, <1>8, BeyondIs
    <3> QED
      BY <3>4, <3>5
  <2>2. Size(text) > limit.max
    <3>1. rest # <<>>
      <4> SUFFICES ASSUME rest = <<>> PROVE FALSE
        OBVIOUS
      <4>1. Size(rest) = 0
        BY NoText
      <4> QED
        BY <1>1, <2>1, <4>1
    <3> QED
      BY <1>5, <3>1
  <2>3. FirstBytes(head, send.head) = begin
    BY <1>1, FirstFirst DEF head, begin
  <2>4. pushed = KeptOf(head, send)
    BY <1>5, <1>7, <1>13
  <2>5. pushed.head = begin
    BY <2>3, <2>4 DEF KeptOf
  <2>6. end = LastBytes(tail, send.tail)
    <3>1. Hold(<<>>, tail, send.tail) = LastBytes(<<>> \o tail, send.tail)
      BY <1>1, <1>5, HoldIs, NoText
    <3>2. <<>> \o tail = tail
      BY <1>5, NoText
    <3> QED
      BY <1>13, <3>1, <3>2
  <2>7. PICK mid \in Texts : After(text, begin) = mid \o rest
    <3>1. After(head \o rest, begin) = After(head, begin) \o rest /\ After(head, begin) \in Texts
      <4> DEFINE room == Beyond(send.head, Size(head))
                 other == FirstBytes(rest, room)
      <4>1. /\ After(head, begin) \in Texts /\ begin \in Texts /\ other \in Texts
            /\ FirstBytes(head \o rest, send.head) = begin \o other
            /\ After(head \o rest, begin \o other) = After(head, begin) \o After(rest, other)
        BY <1>1, <1>5, <2>3, FirstBoth
      <4>2. begin = begin \o other
        BY <1>5, <4>1 DEF begin
      <4>3. other = <<>>
        <5> HIDE DEF other
        <5>1. Len(begin) \in Nat /\ Len(other) \in Nat /\ Len(begin \o other) = Len(begin) + Len(other)
          BY <4>1 DEF Texts
        <5>2. Len(other) = 0
          BY <4>2, <5>1
        <5> QED
          BY <4>1, <5>2 DEF Texts
      <4>4. After(rest, <<>>) = rest
        BY <1>5, NoText DEF After
      <4>5. After(head \o rest, begin) = After(head, begin) \o After(rest, other)
        BY <4>1, <4>2
      <4> QED
        BY <4>1, <4>3, <4>4, <4>5
    <3> QED
      BY <1>5, <3>1
  <2>8. LastBytes(After(text, begin), send.tail) = LastBytes(tail, send.tail)
    BY <1>1, <1>5, <2>1, <2>7, GapEnd DEF tail
  <2>9. Sent(kept, limit) = Parts(begin, LastBytes(After(text, begin), send.tail), line, total)
    BY <1>3, <1>13, <2>5, <2>6, <2>8
  <2>10. SentOf(text, words, limit) = Parts(begin, LastBytes(After(text, begin), send.tail), line, total)
    BY <1>1, <1>4, <1>8, <2>2
  <2> QED
    BY <2>9, <2>10 DEF kept, keep
<1> QED
  BY <1>12, <1>13

-----------------------------------------------------------------------------
(* The output that a text makes.                                           *)

\* An empty text starts with nothing.
LEMMA NothingFirst ==
  ASSUME NEW m \in Nat
  PROVE  FirstBytes(<<>>, m) = <<>>
<1>1. <<>> \in Texts
  BY DEF Texts
<1>2. Len(<<>>) = 0 /\ SubSeq(<<>>, 1, 0) = <<>> /\ Upto(<<>>, 0) = 0
  BY <1>1, NoText, UptoIs
<1>3. 0 \in 0..Len(<<>>) /\ ~(0 < Len(<<>>)) /\ 0 <= m
  BY <1>2
<1>4. FirstBytes(<<>>, m) = SubSeq(<<>>, 1, 0)
  BY <1>1, <1>2, <1>3, FirstIs
<1> QED
  BY <1>2, <1>4

\* Of an empty text nothing is handed on and nothing is held.
LEMMA NothingHanded ==
  ASSUME NEW ended \in BOOLEAN
  PROVE  /\ HandedOn(<<>>, 0, ended) = <<>> /\ HeldFrom(<<>>, ended) = 1
         /\ StillCovered(<<>>, 0, ended) = 0
<1>1. <<>> \in Texts /\ Len(<<>>) = 0
  BY DEF Texts
<1>2. HeldFrom(<<>>, ended) = 1
  <2>1. HeldFrom(<<>>, ended) \in 1..Len(<<>>) + 1
    BY <1>1, HeldFromIs
  <2> QED
    BY <1>1, <2>1
<1>3. HandedOn(<<>>, 0, ended) = <<>>
  <2> DEFINE hands == Hands(<<>>, 0, ended)
  <2>1. /\ hands \in Seq(Texts) /\ Len(hands) = HeldFrom(<<>>, ended) - 1
        /\ HandedOn(<<>>, 0, ended) = FlattenSeq(hands)
    BY <1>1, HandsType
  <2> HIDE DEF hands
  <2>2. hands = <<>>
    BY <1>2, <2>1
  <2> QED
    BY <2>1, <2>2, FlattenedNone
<1>4. StillCovered(<<>>, 0, ended) = 0
  <2> DEFINE still == StillCovered(<<>>, 0, ended)
             from == HeldFrom(<<>>, ended)
  <2>1. /\ still \in Nat
        /\ \A k \in Nat : k < still <=>
             from + k <= 0 \/ \E q \in 1..from - 1 : \E n \in BegunAt(<<>>, q) : from + k < q + n
    BY <1>1, StillCoveredIs
  <2>2. from = 1
    BY <1>2
  <2> HIDE DEF still, from
  <2>3. ~(from + 0 <= 0) /\ \A q \in 1..from - 1 : FALSE
    BY <2>2
  <2>4. ~(0 < still)
    BY <2>1, <2>3
  <2>5. still = 0
    BY <2>1, <2>4
  <2> QED
    BY <2>5 DEF still
<1> QED
  BY <1>2, <1>3, <1>4

\* The output that a text makes.
OutputOf(text, keep) ==
  [held |-> HeldOf(text), covered |-> CoveredOf(text),
   kept |-> KeptOf(HandedOn(text, 0, FALSE), keep)]

\* No text makes no output.
LEMMA OutputOfNone ==
  ASSUME NEW keep \in Keeping
  PROVE  OutputOf(<<>>, keep) = NoOutput
<1>1. HandedOn(<<>>, 0, FALSE) = <<>> /\ HeldFrom(<<>>, FALSE) = 1 /\ CoveredOf(<<>>) = 0
  BY NothingHanded DEF CoveredOf
<1>2. HeldOf(<<>>) = <<>>
  <2>1. <<>> \in Texts
    BY DEF Texts
  <2>2. SubSeq(<<>>, 1, Len(<<>>)) = <<>>
    BY <2>1, NoText
  <2> QED
    BY <1>1, <2>2 DEF HeldOf
<1> QED
  BY <1>1, <1>2, KeptNothing DEF OutputOf, NoOutput

\* A text and what follows it make the output of both.
LEMMA PushedOn ==
  ASSUME NEW text \in Texts, NEW more \in Texts, IsCap(cap)
  PROVE  Pushed(OutputOf(text, Keeps(cap)), more) = OutputOf(text \o more, Keeps(cap))
<1> DEFINE d == HeldFrom(text, FALSE) - 1
           all == text \o more
           rest == HeldOf(text) \o more
           c == CoveredOf(text)
           keep == Keeps(cap)
           begin == SubSeq(text, 1, d)
           given == HandedOn(text, 0, FALSE)
           out == OutputOf(text, keep)
<1>1. keep \in Keeping
  BY KeepsSends
<1>2. /\ d \in 0..Len(text) /\ all \in Texts /\ rest \in Texts /\ all = begin \o rest
  BY HeldOfIs
<1>3. /\ HeldFrom(all, FALSE) = d + HeldFrom(rest, FALSE)
      /\ HandedOn(all, 0, FALSE) = given \o HandedOn(rest, c, FALSE)
      /\ StillCovered(all, 0, FALSE) = StillCovered(rest, c, FALSE)
  BY CutOn
<1>4. begin \in Texts /\ Len(begin) = d
  BY <1>2, RestSize
<1>5. out.held = HeldOf(text) /\ out.covered = c /\ out.kept = KeptOf(given, keep)
  BY DEF OutputOf
<1> HIDE DEF all, rest, d, begin, given, keep
<1>6. given \in Texts /\ c \in Nat
  <2>1. given \in Texts
    BY HandsType DEF given
  <2>2. c \in Nat
    BY StillCoveredIs DEF CoveredOf
  <2> QED
    BY <2>1, <2>2
<1>7. HandedOn(rest, c, FALSE) \in Texts
  <2> HIDE DEF c
  <2> QED
    BY <1>2, <1>6, HandsType
<1>8. Push(KeptOf(given, keep), keep, HandedOn(rest, c, FALSE)) = KeptOf(HandedOn(all, 0, FALSE), keep)
  <2> DEFINE next == HandedOn(rest, c, FALSE)
  <2>1. next \in Texts /\ HandedOn(all, 0, FALSE) = given \o next
    BY <1>3, <1>7
  <2> HIDE DEF next, c
  <2>2. Push(KeptOf(given, keep), keep, next) = KeptOf(given \o next, keep)
    BY <1>1, <1>6, <2>1, PushOn
  <2> QED
    BY <2>1, <2>2 DEF next
<1>9. SubSeq(rest, HeldFrom(rest, FALSE), Len(rest)) = HeldOf(all)
  <2> DEFINE f == HeldFrom(rest, FALSE)
  <2>1. f \in 1..Len(rest) + 1 /\ Len(rest) \in Nat /\ d \in Nat
    <3>1. f \in 1..Len(rest) + 1
      BY <1>2, HeldFromIs
    <3>2. Len(rest) \in Nat
      BY <1>2 DEF Texts
    <3>3. d \in Nat
      BY <1>2, <1>4 DEF Texts
    <3> QED
      BY <3>1, <3>2, <3>3
  <2> HIDE DEF f
  <2> DEFINE n == (d + f) - 1
  <2>2. n \in 0..Len(begin) + Len(rest) /\ n >= Len(begin) /\ n + 1 = d + f /\ n - Len(begin) + 1 = f
    BY <1>4, <2>1
  <2> HIDE DEF n
  <2>3. SubSeq(all, n + 1, Len(all)) = SubSeq(rest, n - Len(begin) + 1, Len(rest))
    BY <1>2, <1>4, <2>2, LastOfBoth DEF Texts
  <2>4. HeldOf(all) = SubSeq(all, d + f, Len(all))
    BY <1>3 DEF HeldOf, f
  <2>5. HeldOf(all) = SubSeq(rest, f, Len(rest))
    BY <2>2, <2>3, <2>4
  <2> QED
    BY <2>5 DEF f
<1>10. Pushed(out, more) = [kept |-> Push(out.kept, keep, HandedOn(rest, c, FALSE)),
                            held |-> SubSeq(rest, HeldFrom(rest, FALSE), Len(rest)),
                            covered |-> StillCovered(rest, c, FALSE)]
  BY <1>5 DEF Pushed, rest, keep
<1>11. Pushed(out, more) = [kept |-> KeptOf(HandedOn(all, 0, FALSE), keep),
                            held |-> HeldOf(all), covered |-> CoveredOf(all)]
  BY <1>3, <1>5, <1>8, <1>9, <1>10 DEF CoveredOf
<1>12. Pushed(out, more) = OutputOf(all, keep)
  BY <1>11 DEF OutputOf
<1> QED
  BY <1>12 DEF all, keep

\* A text that has ended is cut as a whole.
LEMMA EndedOn ==
  ASSUME NEW text \in Texts, IsCap(cap)
  PROVE  /\ Ended(OutputOf(text, Keeps(cap))).kept = KeptOf(Clean(text), Keeps(cap))
         /\ Clean(text) \in Texts
<1> DEFINE c == CoveredOf(text)
           keep == Keeps(cap)
           given == HandedOn(text, 0, FALSE)
           left == HandedOn(HeldOf(text), c, TRUE)
           out == OutputOf(text, keep)
<1>1. keep \in Keeping
  BY KeepsSends
<1>2. <<>> \in Texts /\ text \o <<>> = text
  BY NoText
<1>3. HeldOf(text) \in Texts /\ HeldOf(text) \o <<>> = HeldOf(text)
  <2>1. HeldOf(text) \in Texts
    BY <1>2, HeldOfIs
  <2> QED
    BY <2>1, NoText
<1>4. HandedOn(text, 0, TRUE) = given \o left
  <2>1. HandedOn(text \o <<>>, 0, TRUE) = given \o HandedOn(HeldOf(text) \o <<>>, c, TRUE)
    BY <1>2, CutOn
  <2> QED
    BY <1>2, <1>3, <2>1
<1>5. given \in Texts /\ left \in Texts
  <2>1. given \in Texts
    BY HandsType
  <2>2. c \in Nat
    BY StillCoveredIs DEF CoveredOf
  <2> HIDE DEF c
  <2>3. left \in Texts
    BY <1>3, <2>2, HandsType
  <2> QED
    BY <2>1, <2>3
<1>6. given \o left = Clean(text) /\ Clean(text) \in Texts
  BY <1>4, RedactedIs DEF Redacted
<1>7. out.held = HeldOf(text) /\ out.covered = c /\ out.kept = KeptOf(given, keep)
  BY DEF OutputOf
<1>8. Ended(out).kept = Push(out.kept, keep, left)
  BY <1>7 DEF Ended, NoOutput
<1>9. Push(KeptOf(given, keep), keep, left) = KeptOf(given \o left, keep)
  <2> HIDE DEF given, left, keep
  <2> QED
    BY <1>1, <1>5, PushOn
<1> QED
  BY <1>6, <1>7, <1>8, <1>9

-----------------------------------------------------------------------------
(* A tool's text, fed in pieces.                                           *)

\* What's been read of the bytes.
Text == Lossy(Settled(fed))

\* How a text ends when a line is said after it.
LineEnded(text) ==
  IF text = <<>> \/ Last(text) = Newline THEN text ELSE Append(text, Newline)

\* What's held and kept is what all that arrived, in one piece, would leave.
AsOnePiece ==
  /\ cap \in Caps /\ source \in Sources
  /\ fed \in Seq(Bytes)
  /\ begun = Begun(fed)
  /\ output = OutputOf(Text, Keeps(cap))
  /\ atALine <=> Text = <<>> \/ Last(Text) = Newline
  /\ sent = <<>> => closing = <<>>

\* The inductive invariant: SentAsWhole is about the end, and what's there at
\* the end is what each piece left.
CutInv == AsOnePiece /\ SentAsWhole

\* The run's cap is one, and says what to keep.
LEMMA CapIs ==
  ASSUME AsOnePiece
  PROVE  IsCap(cap) /\ Keeps(cap) \in Keeping
BY TextAssumption, KeepsSends DEF AsOnePiece, IsCap

\* What's read of bytes is a text.
LEMMA TextIs ==
  ASSUME NEW bytes \in Seq(Bytes)
  PROVE  Lossy(Settled(bytes)) \in Texts /\ Lossy(bytes) \in Texts
BY SettledIs, LossyType DEF Texts

\* Two texts end as the second does.
LEMMA LastOfJoin ==
  ASSUME NEW a \in Texts, NEW b \in Texts, b # <<>>
  PROVE  a \o b # <<>> /\ Last(a \o b) = Last(b)
<1>1. Len(b) \in Nat /\ Len(a) \in Nat /\ Len(b) > 0 /\ Len(a \o b) = Len(a) + Len(b)
  BY DEF Texts
<1>2. \A i \in 1..Len(b) : (a \o b)[Len(a) + i] = b[i]
  BY BothAre DEF Texts
<1>3. (a \o b)[Len(a) + Len(b)] = b[Len(b)]
  BY <1>1, <1>2
<1>4. a \o b # <<>>
  BY <1>1
<1> QED
  BY <1>1, <1>3, <1>4 DEF Last

\* Before anything arrived, nothing was read.
LEMMA CutInit ==
  ASSUME Init
  PROVE  CutInv
<1>1. cap \in Caps /\ source \in Sources /\ fed = <<>> /\ begun = <<>> /\ atALine = TRUE
      /\ output = NoOutput /\ closing = <<>> /\ sent = <<>>
  BY DEF Init
<1>2. fed \in Seq(Bytes) /\ Len(fed) = 0
  BY <1>1
<1>3. Begun(fed) = <<>>
  <2>1. /\ Begun(fed) \in Seq(Bytes) /\ Len(Begun(fed)) <= Len(fed)
    BY <1>2, SettledIs
  <2>2. Len(Begun(fed)) = 0
    BY <1>2, <2>1
  <2> QED
    BY <2>1, <2>2
<1>4. Settled(fed) = <<>>
  <2>1. Settled(fed) \in Seq(Bytes) /\ Len(Settled(fed)) = Len(fed) - Len(Begun(fed))
    BY <1>2, SettledIs
  <2>2. Len(Settled(fed)) = 0
    <3>1. Len(Begun(fed)) = 0
      BY <1>3
    <3> QED
      BY <1>2, <2>1, <3>1
  <2> QED
    BY <2>1, <2>2
<1>5. Text = <<>>
  <2>1. <<>> \in Seq(Bytes) /\ Len(<<>>) = 0
    OBVIOUS
  <2>2. Lossy(<<>>) = FlattenSeq(Read(<<>>)) /\ Read(<<>>) \in Seq(Seq(Letters)) /\ Len(Read(<<>>)) = 0
    BY <2>1, LossyType, ReadType
  <2>3. Read(<<>>) = <<>>
    BY <2>2
  <2> QED
    BY <1>4, <2>2, <2>3, FlattenedNone DEF Text
<1>6. Keeps(cap) \in Keeping
  BY <1>1, TextAssumption, KeepsSends DEF IsCap
<1>7. output = OutputOf(Text, Keeps(cap))
  BY <1>1, <1>5, <1>6, OutputOfNone
<1> QED
  BY <1>1, <1>2, <1>3, <1>5, <1>7 DEF CutInv, AsOnePiece, SentAsWhole

\* A piece leaves what all the bytes up to it would leave in one.
LEMMA CutFeed ==
  ASSUME CutInv, NEW piece \in source.pieces, Feed(piece)
  PROVE  CutInv'
<1> DEFINE more == begun \o piece
           text == Lossy(Settled(more))
           keep == Keeps(cap)
<1>0. AsOnePiece
  BY DEF CutInv
<1>1. /\ cap \in Caps /\ source \in Sources /\ fed \in Seq(Bytes) /\ begun = Begun(fed)
      /\ output = OutputOf(Text, keep) /\ (atALine <=> Text = <<>> \/ Last(Text) = Newline)
      /\ closing = <<>> /\ sent = <<>>
  BY <1>0 DEF AsOnePiece, Feed
<1>2. piece \in Seq(Bytes)
  BY <1>1, TextAssumption DEF Bytes
<1>3. begun \in Seq(Bytes) /\ more \in Seq(Bytes)
  <2>1. begun \in Seq(Bytes)
    BY <1>1, SettledIs
  <2> QED
    BY <1>2, <2>1
<1>4. fed' = fed \o piece /\ fed' \in Seq(Bytes)
  BY <1>1, <1>2 DEF Feed
<1>5. begun' = Begun(more)
  BY DEF Feed
<1>6. SubSeq(more, 1, Len(more) - Len(Begun(more))) = Settled(more)
  BY DEF Settled
<1>7. output' = Pushed(output, text) /\ atALine' = IF text = <<>> THEN atALine ELSE Last(text) = Newline
  BY <1>6 DEF Feed
<1>8. cap' = cap /\ source' = source /\ closing' = closing /\ sent' = sent
  BY DEF Feed
<1>9. text \in Texts /\ Text \in Texts
  BY <1>1, <1>3, TextIs DEF Text
<1>10. Begun(fed \o piece) = Begun(more) /\ Lossy(Settled(fed \o piece)) = Text \o text
  BY <1>1, <1>2, SettledOn DEF Text
<1>11. Text' = Text \o text
  BY <1>4, <1>10 DEF Text
<1> HIDE DEF text, more, keep
<1>12. output' = OutputOf(Text \o text, keep)
  BY <1>0, <1>1, <1>7, <1>9, CapIs, PushedOn DEF keep
<1>13. atALine' <=> Text' = <<>> \/ Last(Text') = Newline
  <2>1. CASE text = <<>>
    <3>1. Text' = Text
      BY <1>9, <1>11, <2>1, NoText
    <3> QED
      BY <1>1, <1>7, <2>1, <3>1
  <2>2. CASE text # <<>>
    <3>1. Text' # <<>> /\ Last(Text') = Last(text)
      BY <1>9, <1>11, <2>2, LastOfJoin
    <3> QED
      BY <1>7, <2>2, <3>1
  <2> QED
    BY <2>1, <2>2
<1>14. output' = OutputOf(Text', Keeps(cap'))
  BY <1>8, <1>11, <1>12 DEF keep
<1>15. AsOnePiece'
  BY <1>1, <1>4, <1>5, <1>8, <1>10, <1>13, <1>14 DEF AsOnePiece
<1> QED
  BY <1>1, <1>8, <1>15 DEF CutInv, SentAsWhole

\* A character that was begun and never ended is read as none.
LEMMA CharacterEndedIs ==
  ASSUME AsOnePiece
  PROVE  CharacterEnded = OutputOf(Lossy(fed), Keeps(cap)) /\ Lossy(fed) \in Texts
<1>1. fed \in Seq(Bytes) /\ begun = Begun(fed) /\ output = OutputOf(Text, Keeps(cap)) /\ IsCap(cap)
  BY CapIs DEF AsOnePiece
<1>2. Lossy(fed) = Text \o (IF begun = <<>> THEN <<>> ELSE <<NoCharacter>>)
  BY <1>1, BegunRead DEF Text
<1>3. Text \in Texts /\ Lossy(fed) \in Texts
  BY <1>1, TextIs DEF Text
<1>4. CASE begun = <<>>
  BY <1>1, <1>2, <1>3, <1>4, NoText DEF CharacterEnded
<1>5. CASE begun # <<>>
  <2>1. <<NoCharacter>> \in Texts
    BY DEF Texts, Letters
  <2>2. Pushed(output, <<NoCharacter>>) = OutputOf(Text \o <<NoCharacter>>, Keeps(cap))
    BY <1>1, <1>3, <2>1, PushedOn
  <2> QED
    BY <1>2, <1>3, <1>5, <2>2 DEF CharacterEnded
<1> QED
  BY <1>4, <1>5

\* At the end, what's sent is what the whole text would have sent.
LEMMA CutKept ==
  ASSUME CutInv, Kept
  PROVE  CutInv'
<1> DEFINE text == Lossy(fed)
<1>0. AsOnePiece
  BY DEF CutInv
<1>1. sent = <<>> /\ closing = <<>>
  BY <1>0 DEF Kept, AsOnePiece
<1>2. CharacterEnded = OutputOf(text, Keeps(cap)) /\ text \in Texts /\ IsCap(cap)
  BY <1>0, CharacterEndedIs, CapIs
<1> HIDE DEF text
<1>3. Ended(CharacterEnded).kept = KeptOf(Clean(text), Keeps(cap)) /\ Clean(text) \in Texts
  BY <1>2, EndedOn
<1>4. Clean(<<>>) = <<>> /\ <<>> \in Texts
  <2>1. <<>> \in Texts
    BY DEF Texts
  <2> QED
    BY <2>1, RedactedIs, NothingHanded DEF Redacted
<1>5. CloseWith(KeptOf(Clean(text), Keeps(cap)), <<>>) = KeptOf(Clean(text), Keeps(cap))
  BY NothingFirst, ClosingAssumption DEF CloseWith, KeptOf
<1>6. Sent(KeptOf(Clean(text), Keeps(cap)), cap) = SentOf(Clean(text), <<>>, cap)
  <2>1. Sent(CloseWith(KeptOf(Clean(text), Keeps(cap)), <<>>), cap) = SentOf(Clean(text), <<>>, cap)
    BY <1>2, <1>3, <1>4, SentIs
  <2> QED
    BY <1>5, <2>1
<1>7. sent' = <<SentOf(Clean(text), Clean(<<>>), cap)>>
  BY <1>3, <1>4, <1>6 DEF Kept
<1>8. /\ cap' = cap /\ source' = source /\ fed' = fed /\ begun' = begun /\ atALine' = atALine
      /\ output' = output /\ closing' = <<>>
  BY <1>1 DEF Kept
<1>9. AsOnePiece'
  BY <1>0, <1>8 DEF AsOnePiece, Text
<1>10. SentAsWhole'
  BY <1>7, <1>8 DEF SentAsWhole, text
<1> QED
  BY <1>9, <1>10 DEF CutInv

\* With a closing line too, after the line that the text ends with.
LEMMA CutClose ==
  ASSUME CutInv, NEW line \in Lines, Close(line)
  PROVE  CutInv'
<1> DEFINE text == Lossy(fed)
           ended == LineEnded(text)
           lineEnded == IF atALine /\ begun = <<>> THEN CharacterEnded
                        ELSE Pushed(CharacterEnded, <<Newline>>)
<1>0. AsOnePiece
  BY DEF CutInv
<1>1. /\ fed \in Seq(Bytes) /\ begun = Begun(fed) /\ (atALine <=> Text = <<>> \/ Last(Text) = Newline)
      /\ Text \in Texts
  BY <1>0, TextIs DEF AsOnePiece, Text
<1>2. CharacterEnded = OutputOf(text, Keeps(cap)) /\ text \in Texts /\ IsCap(cap)
  BY <1>0, CharacterEndedIs, CapIs
<1>3. atALine /\ begun = <<>> <=> text = <<>> \/ Last(text) = Newline
  <2>1. text = Text \o (IF begun = <<>> THEN <<>> ELSE <<NoCharacter>>)
    BY <1>1, BegunRead DEF Text
  <2>2. CASE begun = <<>>
    <3>1. text = Text
      BY <1>1, <2>1, <2>2, NoText
    <3> QED
      BY <1>1, <2>2, <3>1
  <2>3. CASE begun # <<>>
    <3>1. <<NoCharacter>> \in Texts /\ <<NoCharacter>> # <<>> /\ Last(<<NoCharacter>>) = NoCharacter
      BY DEF Texts, Letters, Last
    <3>2. text # <<>> /\ Last(text) = NoCharacter
      BY <1>1, <2>1, <2>3, <3>1, LastOfJoin
    <3>3. NoCharacter # Newline
      BY TextAssumption
    <3> QED
      BY <2>3, <3>2, <3>3
  <2> QED
    BY <2>2, <2>3
<1>4. <<Newline>> \in Texts
  BY TextAssumption DEF Texts, Letters
<1> HIDE DEF text
<1>5. Append(text, Newline) = text \o <<Newline>>
  BY <1>2, <1>4 DEF Texts
<1>6. ended \in Texts /\ lineEnded = OutputOf(ended, Keeps(cap))
  <2>1. CASE text = <<>> \/ Last(text) = Newline
    BY <1>2, <1>3, <2>1 DEF LineEnded
  <2>2. CASE ~(text = <<>> \/ Last(text) = Newline)
    <3>1. Pushed(OutputOf(text, Keeps(cap)), <<Newline>>) = OutputOf(text \o <<Newline>>, Keeps(cap))
      BY <1>2, <1>4, PushedOn
    <3>2. text \o <<Newline>> \in Texts
      BY <1>2, <1>4 DEF Texts
    <3> QED
      BY <1>2, <1>3, <1>5, <2>2, <3>1, <3>2 DEF LineEnded
  <2> QED
    BY <2>1, <2>2
<1>7. sent' = <<Sent(CloseWith(Ended(lineEnded).kept, Redacted(line)), cap)>> /\ closing' = line
  BY DEF Close
<1> HIDE DEF ended, lineEnded
<1>8. Ended(lineEnded).kept = KeptOf(Clean(ended), Keeps(cap)) /\ Clean(ended) \in Texts
  BY <1>2, <1>6, EndedOn
<1>9. Redacted(line) = Clean(line) /\ Clean(line) \in Texts
  <2>1. line \in Texts
    BY ValuesAre
  <2>2. Redacted(line) = Clean(line) /\ Redacted(line) \in Texts
    BY <2>1, RedactedIs
  <2> QED
    BY <2>2
<1>10. Sent(CloseWith(KeptOf(Clean(ended), Keeps(cap)), Clean(line)), cap) = SentOf(Clean(ended), Clean(line), cap)
  BY <1>2, <1>8, <1>9, SentIs
<1>11. sent' = <<SentOf(Clean(ended), Clean(line), cap)>>
  BY <1>7, <1>8, <1>9, <1>10
<1>12. /\ cap' = cap /\ source' = source /\ fed' = fed /\ begun' = begun /\ atALine' = atALine
       /\ output' = output
  BY DEF Close
<1>13. AsOnePiece'
  BY <1>0, <1>11, <1>12 DEF AsOnePiece, Text
<1>14. line # <<>>
  BY TextAssumption
<1>15. SentAsWhole'
  BY <1>7, <1>11, <1>12, <1>14 DEF SentAsWhole, text, ended, LineEnded
<1> QED
  BY <1>13, <1>15 DEF CutInv

\* What the invariant says is held is little.
LEMMA HeldLittle ==
  ASSUME CutInv
  PROVE  HoldsLittle
<1>1. /\ fed \in Seq(Bytes) /\ begun = Begun(fed) /\ output = OutputOf(Text, Keeps(cap))
      /\ Text \in Texts /\ Keeps(cap) \in Keeping
  BY CapIs, TextIs DEF CutInv, AsOnePiece, Text
<1>2. Len(begun) < 3
  BY <1>1, SettledIs
<1>3. output.held = HeldOf(Text) /\ output.kept = KeptOf(HandedOn(Text, 0, FALSE), Keeps(cap))
  BY <1>1 DEF OutputOf
<1>4. output.held # <<>> => \E value \in Values : Len(output.held) < Len(value)
  BY <1>1, <1>3, HeldIsLittle
<1>5. Size(output.kept.head) <= Keeps(cap).head /\ Size(output.kept.tail) <= Keeps(cap).tail
  <2> DEFINE all == HandedOn(Text, 0, FALSE)
             keep == Keeps(cap)
  <2>1. all \in Texts
    BY <1>1, HandsType
  <2> HIDE DEF all, keep
  <2>2. LET head == FirstBytes(all, keep.head)
        IN  Size(head) <= keep.head /\ Size(LastBytes(After(all, head), keep.tail)) <= keep.tail
    BY <1>1, <2>1, KeptType DEF keep
  <2>3. /\ KeptOf(all, keep).head = FirstBytes(all, keep.head)
        /\ KeptOf(all, keep).tail = LastBytes(After(all, FirstBytes(all, keep.head)), keep.tail)
    BY DEF KeptOf
  <2> QED
    BY <1>3, <2>2, <2>3 DEF all, keep
<1> QED
  BY <1>2, <1>4, <1>5 DEF HoldsLittle

\* However bytes arrive, what's read, held and kept of them is what they'd
\* leave in one piece, and what's sent is what the whole text would send.
THEOREM CutInvHolds == Spec => []CutInv
<1>1. Init => CutInv
  BY CutInit
<1>2. CutInv /\ [Next]_vars => CutInv'
  <2> SUFFICES ASSUME CutInv, [Next]_vars PROVE CutInv'
    OBVIOUS
  <2>1. ASSUME NEW piece \in source.pieces, Feed(piece) PROVE CutInv'
    BY <2>1, CutFeed
  <2>2. CASE Kept
    BY <2>2, CutKept
  <2>3. ASSUME NEW line \in Lines, Close(line) PROVE CutInv'
    BY <2>3, CutClose
  <2>4. CASE UNCHANGED vars
    BY <2>4 DEF CutInv, AsOnePiece, SentAsWhole, Text, vars
  <2> QED
    BY <2>1, <2>2, <2>3, <2>4 DEF Next, Done
<1> QED
  BY <1>1, <1>2, PTL DEF Spec

\* CutAsWhole: for every set of secrets, cap and closing line, and every
\* division of the bytes into pieces, the model is sent exactly what it would
\* be sent of all of them at once, and little is held until then (text.rs,
\* secret.rs, output.rs).
THEOREM TextAlwaysCutAsWhole == Spec => []CutAsWhole
<1>1. CutInv => CutAsWhole
  BY HeldLittle DEF CutInv, CutAsWhole
<1> QED
  BY <1>1, CutInvHolds, PTL
=============================================================================

--------------------------- MODULE HistoryProofs ---------------------------
(***************************************************************************)
(* The history of discs: the list in core agrees with the file, the window *)
(* with the list, and a deleted entry stays deleted, each under the        *)
(* settings its property names.                                            *)
(***************************************************************************)
EXTENDS History, SequenceTheorems, NaturalsInduction, WellFoundedInduction,
        TLAPS

-----------------------------------------------------------------------------
(* Numbers and sequences. *)

(* A set of numbers that is not empty has a least one. *)
LEMMA Least ==
  ASSUME NEW T \in SUBSET Nat, T # {}
  PROVE  \E n \in T : \A m \in T : n <= m
<1>1. IsWellFoundedOn(OpToRel(<, Nat), Nat)
  BY NatLessThanWellFounded
<1>2. PICK n \in T : \A m \in T : ~ (<<m, n>> \in OpToRel(<, Nat))
  BY <1>1, WFMin
<1>3. \A m \in T : ~ (m < n)
  BY <1>2 DEF OpToRel
<1> QED BY <1>3

(* Induction, for a set: the theorem of the library takes a predicate. *)
LEMMA InductionOnSet ==
  ASSUME NEW T \in SUBSET Nat, 0 \in T, \A n \in Nat : n \in T => n + 1 \in T
  PROVE  T = Nat
<1> SUFFICES ASSUME Nat \ T # {} PROVE FALSE
  OBVIOUS
<1>1. PICK n \in Nat \ T : \A m \in Nat \ T : n <= m
  BY Least
<1>2. n - 1 \in Nat /\ n - 1 \in T
  BY <1>1
<1> QED BY <1>1, <1>2

(* The function that computes Kept(s, d), up to the first n entries. *)
IsKept(f, s, d, n) ==
  f = [i \in 0..n |-> IF i = 0 THEN <<>>
        ELSE IF s[i] = d THEN f[i - 1] ELSE Append(f[i - 1], s[i])]

(* There is such a function, for every n. *)
LEMMA KeptExists ==
  ASSUME NEW s, NEW d, NEW n \in Nat
  PROVE  \E f : IsKept(f, s, d, n)
<1> DEFINE T == {m \in Nat : \E f : IsKept(f, s, d, m)}
<1>1. 0 \in T
  <2> DEFINE f == [i \in 0..0 |-> <<>>]
  <2>1. IsKept(f, s, d, 0)
    BY DEF IsKept
  <2> QED BY <2>1
<1>2. ASSUME NEW m \in Nat, m \in T PROVE m + 1 \in T
  <2>1. PICK f : IsKept(f, s, d, m)
    BY <1>2
  <2> DEFINE g == [i \in 0..(m + 1) |-> IF i <= m THEN f[i] ELSE
        IF s[m + 1] = d THEN f[m] ELSE Append(f[m], s[m + 1])]
  <2>2. ASSUME NEW i \in 0..(m + 1)
        PROVE  g[i] = IF i = 0 THEN <<>>
                      ELSE IF s[i] = d THEN g[i - 1] ELSE Append(g[i - 1], s[i])
    <3>1. CASE i = 0
      BY <2>1, <3>1 DEF IsKept
    <3>2. CASE i # 0 /\ i <= m
      <4>1. i - 1 \in 0..m /\ g[i] = f[i] /\ g[i - 1] = f[i - 1] /\ i \in 0..m
        BY <3>2
      <4> HIDE DEF g
      <4> QED BY <2>1, <3>2, <4>1 DEF IsKept
    <3>3. CASE i = m + 1
      <4>1. i = m + 1 /\ i - 1 = m /\ m \in 0..(m + 1) /\ i # 0 /\ ~(i <= m)
        BY <3>3
      <4>2. g[m] = f[m]
        BY <4>1
      <4>3. g[i] = IF s[m + 1] = d THEN f[m] ELSE Append(f[m], s[m + 1])
        BY <4>1
      <4> HIDE DEF g
      <4> QED BY <3>3, <4>1, <4>2, <4>3
    <3> QED BY <3>1, <3>2, <3>3
  <2>3. IsKept(g, s, d, m + 1)
    <3>1. g = [i \in 0..(m + 1) |-> g[i]]
      OBVIOUS
    <3> HIDE DEF g
    <3> QED BY <2>2, <3>1 DEF IsKept
  <2> HIDE DEF g
  <2> QED BY <2>3
<1> HIDE DEF T
<1>3. T = Nat
  <2>1. T \in SUBSET Nat
    BY DEF T
  <2> QED BY <1>1, <1>2, <2>1, InductionOnSet
<1> QED BY <1>3 DEF T

(* Kept is what that function says. *)
LEMMA KeptDef ==
  ASSUME NEW S, NEW s \in Seq(S), NEW d
  PROVE  \E f : IsKept(f, s, d, Len(s)) /\ Kept(s, d) = f[Len(s)]
<1> DEFINE F == CHOOSE f : IsKept(f, s, d, Len(s))
<1>1. IsKept(F, s, d, Len(s))
  <2>1. Len(s) \in Nat
    OBVIOUS
  <2> QED BY <2>1, KeptExists
<1>2. Kept(s, d) = F[Len(s)]
  BY DEF Kept, IsKept
<1> HIDE DEF F
<1> QED BY <1>1, <1>2

(* Kept drops d and nothing else; where d is not there, it drops nothing;  *)
(* and where d is there once, what comes after it moves up.                *)
KeptSoFar(f, s, d, n) ==
  /\ Len(f) \in 0..n
  /\ \A k \in 1..Len(f) : \E i \in 1..n : s[i] # d /\ f[k] = s[i]
  /\ (\A i \in 1..n : s[i] # d) =>
       Len(f) = n /\ \A k \in 1..n : f[k] = s[k]
  /\ \A k \in 1..n : (\A i \in 1..n : s[i] = d <=> i = k) =>
       /\ Len(f) = n - 1
       /\ \A i \in 1..(n - 1) : f[i] = s[IF i < k THEN i ELSE i + 1]

LEMMA KeptStep ==
  ASSUME NEW S, NEW s \in Seq(S), NEW d, NEW n \in Nat, n + 1 \in 1..Len(s),
         NEW g \in Seq(S), KeptSoFar(g, s, d, n)
  PROVE  LET h == IF s[n + 1] = d THEN g ELSE Append(g, s[n + 1])
         IN  h \in Seq(S) /\ KeptSoFar(h, s, d, n + 1)
<1>1. CASE s[n + 1] = d
  <2>1. Len(g) \in 0..(n + 1)
    BY DEF KeptSoFar
  <2>2. \A k \in 1..Len(g) : \E i \in 1..(n + 1) : s[i] # d /\ g[k] = s[i]
    BY DEF KeptSoFar
  <2>3. ~ (\A i \in 1..(n + 1) : s[i] # d)
    BY <1>1
  <2>4. ASSUME NEW k \in 1..(n + 1), \A i \in 1..(n + 1) : s[i] = d <=> i = k
        PROVE  /\ Len(g) = n + 1 - 1
               /\ \A i \in 1..(n + 1 - 1) : g[i] = s[IF i < k THEN i ELSE i + 1]
    <3>1. k = n + 1
      BY <1>1, <2>4
    <3>2. \A i \in 1..n : s[i] # d
      BY <2>4, <3>1
    <3> QED BY <3>1, <3>2 DEF KeptSoFar
  <2> QED BY <1>1, <2>1, <2>2, <2>3, <2>4 DEF KeptSoFar
<1>2. CASE s[n + 1] # d
  <2> DEFINE h == Append(g, s[n + 1])
  <2>0. /\ h \in Seq(S) /\ Len(h) = Len(g) + 1 /\ Len(g) \in Nat
        /\ \A i \in 1..Len(g) : h[i] = g[i]
        /\ h[Len(g) + 1] = s[n + 1]
    BY AppendProperties
  <2> HIDE DEF h
  <2>1. Len(h) \in 0..(n + 1)
    BY <2>0 DEF KeptSoFar
  <2>2. \A k \in 1..Len(h) : \E i \in 1..(n + 1) : s[i] # d /\ h[k] = s[i]
    <3> SUFFICES ASSUME NEW k \in 1..Len(h)
                 PROVE  \E i \in 1..(n + 1) : s[i] # d /\ h[k] = s[i]
      OBVIOUS
    <3>1. CASE k = Len(g) + 1
      BY <1>2, <2>0, <3>1
    <3>2. CASE k # Len(g) + 1
      <4>1. k \in 1..Len(g)
        BY <2>0, <3>2
      <4>2. PICK i \in 1..n : s[i] # d /\ g[k] = s[i]
        BY <4>1 DEF KeptSoFar
      <4> QED BY <2>0, <4>1, <4>2
    <3> QED BY <3>1, <3>2
  <2>3. ASSUME \A i \in 1..(n + 1) : s[i] # d
        PROVE  Len(h) = n + 1 /\ \A k \in 1..(n + 1) : h[k] = s[k]
    <3>1. Len(g) = n /\ \A k \in 1..n : g[k] = s[k]
      BY <2>3 DEF KeptSoFar
    <3> QED BY <2>0, <3>1
  <2>4. ASSUME NEW k \in 1..(n + 1), \A i \in 1..(n + 1) : s[i] = d <=> i = k
        PROVE  /\ Len(h) = n + 1 - 1
               /\ \A i \in 1..(n + 1 - 1) : h[i] = s[IF i < k THEN i ELSE i + 1]
    <3>1. k \in 1..n
      BY <1>2, <2>4
    <3>2. /\ Len(g) = n - 1
          /\ \A i \in 1..(n - 1) : g[i] = s[IF i < k THEN i ELSE i + 1]
      <4>1. \A i \in 1..n : s[i] = d <=> i = k
        BY <2>4
      <4> QED BY <3>1, <4>1 DEF KeptSoFar
    <3> QED BY <2>0, <3>1, <3>2
  <2>5. KeptSoFar(h, s, d, n + 1)
    BY <2>1, <2>2, <2>3, <2>4 DEF KeptSoFar
  <2> QED BY <1>2, <2>0, <2>5 DEF h
<1> QED BY <1>1, <1>2

LEMMA KeptFacts ==
  ASSUME NEW S, NEW s \in Seq(S), NEW d
  PROVE  Kept(s, d) \in Seq(S) /\ KeptSoFar(Kept(s, d), s, d, Len(s))
<1>0. Len(s) \in Nat
  OBVIOUS
<1>1. PICK f : IsKept(f, s, d, Len(s)) /\ Kept(s, d) = f[Len(s)]
  BY KeptDef
<1> DEFINE T == {n \in Nat : n <= Len(s) =>
                   f[n] \in Seq(S) /\ KeptSoFar(f[n], s, d, n)}
<1>2. 0 \in T
  <2>1. f[0] = <<>>
    BY <1>0, <1>1 DEF IsKept
  <2>2. <<>> \in Seq(S) /\ Len(<<>>) = 0
    OBVIOUS
  <2>3. KeptSoFar(f[0], s, d, 0)
    BY <2>1, <2>2 DEF KeptSoFar
  <2> QED BY <2>1, <2>2, <2>3
<1>3. ASSUME NEW n \in Nat, n \in T PROVE n + 1 \in T
  <2> SUFFICES ASSUME n + 1 <= Len(s)
               PROVE  f[n + 1] \in Seq(S) /\ KeptSoFar(f[n + 1], s, d, n + 1)
    BY <1>3
  <2>1. f[n] \in Seq(S) /\ KeptSoFar(f[n], s, d, n)
    BY <1>0, <1>3
  <2>2. f[n + 1] = IF s[n + 1] = d THEN f[n] ELSE Append(f[n], s[n + 1])
    <3>1. n + 1 \in 0..Len(s) /\ n + 1 # 0 /\ (n + 1) - 1 = n
      BY <1>0
    <3> QED BY <1>1, <3>1 DEF IsKept
  <2>3. n + 1 \in 1..Len(s)
    BY <1>0
  <2> QED BY <2>1, <2>2, <2>3, KeptStep
<1> HIDE DEF T
<1>4. T = Nat
  <2>1. T \in SUBSET Nat
    BY DEF T
  <2> QED BY <1>2, <1>3, <2>1, InductionOnSet
<1> QED BY <1>0, <1>1, <1>4 DEF T

LEMMA RemoveAtFacts ==
  ASSUME NEW S, NEW s \in Seq(S), NEW i \in 1..Len(s)
  PROVE  /\ RemoveAt(s, i) \in Seq(S)
         /\ Len(RemoveAt(s, i)) = Len(s) - 1
         /\ \A k \in 1..(Len(s) - 1) :
              RemoveAt(s, i)[k] = s[IF k < i THEN k ELSE k + 1]
<1> DEFINE a == SubSeq(s, 1, i - 1)
           b == SubSeq(s, i + 1, Len(s))
<1>1. /\ a \in Seq(S) /\ Len(a) = i - 1
      /\ \A k \in 1..(i - 1) : a[k] = s[k]
  <2>1. \A k \in 1..(i - 1) : s[k] \in S
    OBVIOUS
  <2> QED BY <2>1, SubSeqProperties
<1>2. /\ b \in Seq(S) /\ Len(b) = Len(s) - i
      /\ \A k \in 1..(Len(s) - i) : b[k] = s[i + k]
  <2>1. \A k \in (i + 1)..Len(s) : s[k] \in S
    OBVIOUS
  <2>2. /\ b \in Seq(S)
        /\ Len(b) = (IF i + 1 <= Len(s) THEN Len(s) - (i + 1) + 1 ELSE 0)
        /\ \A k \in 1..(Len(s) - (i + 1) + 1) : b[k] = s[i + 1 + k - 1]
    BY <2>1, SubSeqProperties
  <2> HIDE DEF b
  <2> QED BY <2>2
<1>3. /\ RemoveAt(s, i) = a \o b
  BY DEF RemoveAt
<1> HIDE DEF a, b
<1>4. /\ a \o b \in Seq(S)
      /\ Len(a \o b) = Len(a) + Len(b)
      /\ \A k \in 1..(Len(a) + Len(b)) :
           (a \o b)[k] = IF k <= Len(a) THEN a[k] ELSE b[k - Len(a)]
  BY <1>1, <1>2, ConcatProperties
<1> DEFINE c == a \o b
<1>5. c \in Seq(S) /\ Len(c) = Len(s) - 1
  BY <1>1, <1>2, <1>4
<1>6. ASSUME NEW k \in 1..(Len(s) - 1)
      PROVE  c[k] = s[IF k < i THEN k ELSE k + 1]
  <2>1. c[k] = IF k <= Len(a) THEN a[k] ELSE b[k - Len(a)]
    BY <1>1, <1>2, <1>4
  <2> HIDE DEF c
  <2>2. CASE k < i
    BY <1>1, <2>1, <2>2
  <2>3. CASE ~ (k < i)
    <3>1. k - Len(a) \in 1..(Len(s) - i) /\ i + (k - Len(a)) = k + 1
      BY <1>1, <2>3
    <3> QED BY <1>1, <1>2, <2>1, <2>3, <3>1
  <2> QED BY <2>2, <2>3
<1> QED BY <1>3, <1>5, <1>6

LEMMA SubSeqFrom ==
  ASSUME NEW S, NEW s \in Seq(S), NEW i \in Nat \ {0}
  PROVE  LET t == SubSeq(s, i, Len(s)) IN
         /\ t \in Seq(S)
         /\ Len(t) = (IF i <= Len(s) THEN Len(s) - i + 1 ELSE 0)
         /\ \A k \in 1..Len(t) : i + k - 1 \in 1..Len(s) /\ t[k] = s[i + k - 1]
<1> DEFINE t == SubSeq(s, i, Len(s))
<1>1. \A k \in i..Len(s) : s[k] \in S
  OBVIOUS
<1>2. /\ t \in Seq(S)
      /\ Len(t) = (IF i <= Len(s) THEN Len(s) - i + 1 ELSE 0)
      /\ \A k \in 1..(Len(s) - i + 1) : t[k] = s[i + k - 1]
  BY <1>1, SubSeqProperties
<1>3. Len(s) \in Nat
  OBVIOUS
<1> HIDE DEF t
<1>4. \A k \in 1..Len(t) : i + k - 1 \in 1..Len(s) /\ t[k] = s[i + k - 1]
  BY <1>2, <1>3
<1> QED BY <1>2, <1>4 DEF t

LEMMA SubSeqTo ==
  ASSUME NEW S, NEW s \in Seq(S), NEW n \in 0..Len(s)
  PROVE  LET t == SubSeq(s, 1, n) IN
         /\ t \in Seq(S) /\ Len(t) = n
         /\ \A k \in 1..n : t[k] = s[k]
<1>1. \A k \in 1..n : s[k] \in S
  OBVIOUS
<1> QED BY <1>1, SubSeqProperties

(* An entry in front of the first m of a list. *)
LEMMA InFront ==
  ASSUME NEW S, NEW e \in S, NEW s \in Seq(S), NEW m \in 0..Len(s)
  PROVE  LET l == <<e>> \o SubSeq(s, 1, m) IN
         /\ l \in Seq(S) /\ Len(l) = m + 1 /\ l[1] = e
         /\ \A k \in 2..(m + 1) : l[k] = s[k - 1]
<1> DEFINE a == <<e>>
           b == SubSeq(s, 1, m)
<1>1. a \in Seq(S) /\ Len(a) = 1 /\ a[1] = e
  OBVIOUS
<1>2. b \in Seq(S) /\ Len(b) = m /\ \A k \in 1..m : b[k] = s[k]
  BY SubSeqTo
<1> HIDE DEF a, b
<1>3. /\ a \o b \in Seq(S)
      /\ Len(a \o b) = Len(a) + Len(b)
      /\ \A k \in 1..(Len(a) + Len(b)) :
           (a \o b)[k] = IF k <= Len(a) THEN a[k] ELSE b[k - Len(a)]
  BY <1>1, <1>2, ConcatProperties
<1> DEFINE l == a \o b
<1>4. l \in Seq(S) /\ Len(l) = m + 1 /\ l[1] = e
  BY <1>1, <1>2, <1>3
<1>5. \A k \in 2..(m + 1) : l[k] = s[k - 1]
  <2> SUFFICES ASSUME NEW k \in 2..(m + 1) PROVE l[k] = s[k - 1]
    OBVIOUS
  <2>1. l[k] = IF k <= Len(a) THEN a[k] ELSE b[k - Len(a)]
    BY <1>1, <1>2, <1>3
  <2> HIDE DEF l
  <2> QED BY <1>1, <1>2, <2>1
<1> QED BY <1>4, <1>5 DEF a, b

LEMMA NoEntryIsNone ==
  NoEntry \notin Entry
BY DEF NoEntry, Entry

(* What the child of a job writes, and what a program reads. *)
LEMMA RewrittenFacts ==
  ASSUME NEW j \in Job, NEW s \in Seq(Entry)
  PROVE  /\ Rewritten(j, s) \in Seq(Entry)
         /\ \A e \in ToSet(Rewritten(j, s)) :
              \/ e = j.add /\ j.add # NoEntry
              \/ e \in ToSet(s) /\ e # j.del
<1> DEFINE from == IF j.skip > 1 THEN j.skip ELSE 1
           t    == SubSeq(s, from, Len(s))
           kept == Kept(t, j.del)
<1>1. from \in Nat \ {0} /\ j.add \in Entry \cup {NoEntry}
  BY DEF Job
<1> HIDE DEF from
<1>2. /\ t \in Seq(Entry)
      /\ \A k \in 1..Len(t) : from + k - 1 \in 1..Len(s)
                              /\ t[k] = s[from + k - 1]
  BY <1>1, SubSeqFrom
<1> HIDE DEF t
<1>3. /\ kept \in Seq(Entry)
      /\ \A k \in 1..Len(kept) : \E i \in 1..Len(t) :
           t[i] # j.del /\ kept[k] = t[i]
  <2>1. kept \in Seq(Entry) /\ KeptSoFar(kept, t, j.del, Len(t))
    BY <1>2, KeptFacts
  <2> QED BY <2>1 DEF KeptSoFar
<1> HIDE DEF kept
<1>4. \A k \in 1..Len(kept) : kept[k] \in ToSet(s) /\ kept[k] # j.del
  <2>1. \A i \in 1..Len(s) : s[i] \in ToSet(s)
    BY DEF ToSet
  <2> QED BY SMTT(40), <1>2, <1>3, <2>1
<1>5. Rewritten(j, s) = IF j.add = NoEntry THEN kept ELSE Append(kept, j.add)
  BY DEF Rewritten, kept, t, from
<1>6. CASE j.add = NoEntry
  BY <1>3, <1>4, <1>5, <1>6 DEF ToSet
<1>7. CASE j.add # NoEntry
  <2>1. j.add \in Entry
    BY <1>1, <1>7
  <2> DEFINE r == Append(kept, j.add)
  <2>2. /\ r \in Seq(Entry) /\ Len(r) = Len(kept) + 1
        /\ \A i \in 1..Len(kept) : r[i] = kept[i]
        /\ r[Len(kept) + 1] = j.add
    BY <1>3, <2>1, AppendProperties
  <2>3. Rewritten(j, s) = r
    BY <1>5, <1>7
  <2> HIDE DEF r
  <2>4. ASSUME NEW i \in 1..Len(r)
        PROVE  r[i] = j.add \/ (r[i] \in ToSet(s) /\ r[i] # j.del)
    <3>1. CASE i \in 1..Len(kept)
      BY <1>4, <2>2, <3>1
    <3>2. CASE i \notin 1..Len(kept)
      <4>1. i = Len(kept) + 1
        BY <1>3, <2>2, <3>2
      <4> QED BY <2>2, <4>1
    <3> QED BY <3>1, <3>2
  <2>5. DOMAIN r = 1..Len(r)
    BY <2>2
  <2> QED BY <1>7, <2>2, <2>3, <2>4, <2>5 DEF ToSet
<1> QED BY <1>6, <1>7

LEMMA NewestFacts ==
  ASSUME file \in Seq(Entry)
  PROVE  /\ Newest \in Seq(Entry)
         /\ Len(Newest) = (IF Len(file) > MaxHist THEN MaxHist ELSE Len(file))
         /\ \A i \in 1..Len(Newest) : Newest[i] = file[Len(file) + 1 - i]
         /\ ToSet(Newest) \subseteq ToSet(file)
<1> DEFINE n    == Len(file)
           from == IF n > MaxHist THEN n - MaxHist + 1 ELSE 1
           t    == SubSeq(file, from, n)
<1>0. n \in Nat /\ MaxHist \in Nat \ {0, 1}
  BY BoundsAssumption
<1>1. from \in Nat \ {0} /\ from <= n + 1
  BY <1>0
<1>2. /\ t \in Seq(Entry) /\ Len(t) = (IF from <= n THEN n - from + 1 ELSE 0)
      /\ \A k \in 1..Len(t) : from + k - 1 \in 1..n /\ t[k] = file[from + k - 1]
  BY <1>1, SubSeqFrom
<1>3. Newest = Reverse(t)
  BY DEF Newest
<1> HIDE DEF n, t
<1>4. Len(t) = IF n > MaxHist THEN MaxHist ELSE n
  BY <1>0, <1>2
<1>5. from + Len(t) = n + 1
  BY <1>0, <1>4
<1> HIDE DEF from
<1>6. Newest = [i \in 1..Len(t) |-> t[(Len(t) - i) + 1]]
  BY <1>3 DEF Reverse
<1>7. Len(t) \in Nat /\ \A i \in 1..Len(t) : (Len(t) - i) + 1 \in 1..Len(t)
  BY <1>2
<1>8. Newest \in Seq(Entry) /\ Len(Newest) = Len(t)
  <2> DEFINE r == [i \in 1..Len(t) |-> t[(Len(t) - i) + 1]]
  <2>1. \A i \in 1..Len(t) : t[(Len(t) - i) + 1] \in Entry
    <3>1. \A k \in 1..Len(t) : t[k] \in Entry
      BY <1>2
    <3> QED BY <1>7, <3>1
  <2>2. r \in Seq(Entry) /\ Len(r) = Len(t)
    BY <1>7, <2>1
  <2> QED BY <1>6, <2>2
<1>9. ASSUME NEW i \in 1..Len(t)
      PROVE  Newest[i] = file[n + 1 - i] /\ n + 1 - i \in 1..n
  <2>1. Newest[i] = t[(Len(t) - i) + 1]
    BY <1>6
  <2>2. from + ((Len(t) - i) + 1) - 1 = n + 1 - i
    BY <1>0, <1>1, <1>5, <1>7
  <2> QED BY <1>2, <1>7, <2>1, <2>2
<1>10. ToSet(Newest) \subseteq ToSet(file)
  BY <1>8, <1>9 DEF ToSet, n
<1> QED BY <1>4, <1>8, <1>9, <1>10 DEF n

-----------------------------------------------------------------------------
(* Types. *)

Names == [hist : File \cup {0}, bak : File \cup {0}]
Disks == [File -> Seq(Entry)]

LEMMA ZeroIsNoFile ==
  0 \notin File
BY BoundsAssumption DEF File

LEMMA JobTypes ==
  /\ \A e \in Entry : \A n \in Int :
       AppendJob(e) \in Job /\ Rewrite(e, n) \in Job /\ Drop(e, n) \in Job
  /\ Clear \in Job
BY NoEntryIsNone DEF AppendJob, Rewrite, Drop, Clear, NewJob, Job

LEMMA FileType ==
  ASSUME TypeOK
  PROVE  /\ file \in Seq(Entry) /\ Len(file) \in Nat
         /\ ToSet(file) \subseteq Entry
<1>1. file \in Seq(Entry)
  BY DEF TypeOK, file, there
<1> HIDE DEF file
<1> QED BY <1>1 DEF ToSet

LEMMA JobOf ==
  ASSUME TypeOK, NEW p \in Prog, NEW i \in 1..Len(calls[p])
  PROVE  calls[p][i] \in Call /\ calls[p][i].job \in Job
<1>1. calls[p] \in Seq(Call)
  BY DEF TypeOK
<1>2. calls[p][i] \in Call
  BY <1>1
<1> QED BY <1>2 DEF Call

(* Wait puts a call in front of the others. *)
LEMMA WaitFacts ==
  ASSUME TypeOK, NEW p \in Prog, NEW f \in {"add", "del", "delall"},
         NEW j \in Job, f = "add" => j.add # NoEntry, Wait(p, f, j)
  PROVE  /\ calls' \in [Prog -> Seq(Call)]
         /\ \A q \in Prog \ {p} : calls'[q] = calls[q]
         /\ Len(calls'[p]) = Len(calls[p]) + 1
         /\ calls'[p][1] = [fn |-> f, job |-> j]
         /\ \A k \in 2..(Len(calls[p]) + 1) : calls'[p][k] = calls[p][k - 1]
<1> DEFINE c == [fn |-> f, job |-> j]
           s == calls[p]
           t == <<c>> \o s
<1>1. calls \in [Prog -> Seq(Call)] /\ s \in Seq(Call) /\ c \in Call
  BY DEF TypeOK, Call
<1>2. /\ t \in Seq(Call) /\ Len(t) = Len(s) + 1 /\ t[1] = c
      /\ \A k \in 2..(Len(s) + 1) : t[k] = s[k - 1]
  <2> HIDE DEF c, s
  <2> QED BY <1>1
<1>3. calls' = [calls EXCEPT ![p] = t]
  BY DEF Wait
<1> HIDE DEF c, t
<1>4. /\ calls' \in [Prog -> Seq(Call)] /\ calls'[p] = t
      /\ \A q \in Prog \ {p} : calls'[q] = calls[q]
  BY <1>1, <1>2, <1>3
<1> QED BY <1>2, <1>4 DEF c

(* A child goes on with the job j: the files that are not gone are those   *)
(* of d, and it changes its call only.                                     *)
LEMMA StepFacts ==
  ASSUME TypeOK, NEW p \in Prog, NEW i \in 1..Len(calls[p]), NEW j \in Job,
         j.add = calls[p][i].job.add, NEW n \in Names, NEW d \in Disks,
         Step(p, i, j, n, d)
  PROVE  /\ calls' \in [Prog -> Seq(Call)]
         /\ \A q \in Prog \ {p} : calls'[q] = calls[q]
         /\ Len(calls'[p]) = Len(calls[p])
         /\ \A k \in 1..Len(calls[p]) \ {i} : calls'[p][k] = calls[p][k]
         /\ calls'[p][i] = [fn |-> calls[p][i].fn, job |-> j]
         /\ name' = n /\ disk' \in Disks
         /\ \A f \in File : disk'[f] \in {d[f], <<>>}
         /\ \A f \in File \cap {n.hist, n.bak, j.in, j.out} : disk'[f] = d[f]
         /\ UNCHANGED <<env, time, list, tail, fcnt, winVars>>
<1> DEFINE s == calls[p]
           c == [s[i] EXCEPT !.job = j]
           t == [s EXCEPT ![i] = c]
<1>1. calls \in [Prog -> Seq(Call)] /\ s \in Seq(Call) /\ i \in 1..Len(s)
  BY DEF TypeOK
<1>2. c \in Call /\ c = [fn |-> s[i].fn, job |-> j]
  <2>1. s[i] \in Call /\ j.add = s[i].job.add
    BY <1>1
  <2> HIDE DEF s
  <2> QED BY <2>1 DEF Call
<1>3. calls' = [calls EXCEPT ![p] = t]
  BY DEF Step
<1> HIDE DEF c
<1>4. /\ t \in Seq(Call) /\ Len(t) = Len(s) /\ t[i] = c
      /\ \A k \in 1..Len(s) \ {i} : t[k] = s[k]
  <2> HIDE DEF s
  <2> QED BY <1>1, <1>2
<1> HIDE DEF t
<1>5. /\ calls' \in [Prog -> Seq(Call)] /\ calls'[p] = t
      /\ \A q \in Prog \ {p} : calls'[q] = calls[q]
  BY <1>1, <1>3, <1>4
<1>6. /\ name' = n
      /\ disk' = [f \in File |-> IF f \in Used(n, calls') THEN d[f] ELSE <<>>]
      /\ UNCHANGED <<env, time, list, tail, fcnt, winVars>>
  BY DEF Step
<1>7. /\ disk' \in Disks /\ \A f \in File : disk'[f] \in {d[f], <<>>}
      /\ \A f \in Used(n, calls') : disk'[f] = d[f]
  <2>1. <<>> \in Seq(Entry) /\ Used(n, calls') \subseteq File
    BY DEF Used
  <2>2. \A f \in File : d[f] \in Seq(Entry)
    BY DEF Disks
  <2>3. \A f \in File : disk'[f] = IF f \in Used(n, calls') THEN d[f] ELSE <<>>
    BY <1>6
  <2>4. disk' \in Disks
    BY <1>6, <2>1, <2>2 DEF Disks
  <2> QED BY <2>1, <2>3, <2>4
<1>8. calls'[p][i] = [fn |-> s[i].fn, job |-> j]
  BY <1>2, <1>4, <1>5
<1>9. \A f \in File \cap {n.hist, n.bak, j.in, j.out} : f \in Used(n, calls')
  <2>1. calls'[p][i].job = j /\ i \in 1..Len(calls'[p])
    BY <1>1, <1>4, <1>5, <1>8
  <2> QED BY <2>1 DEF Used
<1> QED BY <1>2, <1>4, <1>5, <1>6, <1>7, <1>8, <1>9

(* The file of an open: one that is named so, or one that nobody has.      *)
LEMMA OpenedFacts ==
  ASSUME TypeOK, there \/ Unused # {}
  PROVE  /\ Opened \in File /\ (there => Opened = name.hist)
         /\ ~there => Opened \in Unused
BY DEF TypeOK, Opened, Unused, there

LEMMA OverFacts ==
  ASSUME NEW a \in Seq(Entry), NEW s \in Seq(Entry)
  PROVE  /\ Over(a, s) \in Seq(Entry)
         /\ ToSet(Over(a, s)) \subseteq ToSet(a) \cup ToSet(s)
         /\ a = <<>> => Over(a, s) = s
<1> DEFINE m == Len(s) + 1
           t == SubSeq(a, m, Len(a))
           r == s \o t
<1>1. /\ t \in Seq(Entry)
      /\ Len(t) = (IF m <= Len(a) THEN Len(a) - m + 1 ELSE 0)
      /\ \A k \in 1..Len(t) : m + k - 1 \in 1..Len(a) /\ t[k] = a[m + k - 1]
  <2>1. m \in Nat \ {0}
    OBVIOUS
  <2> HIDE DEF m
  <2> QED BY <2>1, SubSeqFrom
<1>2. a = <<>> => Len(t) = 0 /\ t = <<>>
  <2>1. a = <<>> => ~ (m <= Len(a))
    OBVIOUS
  <2> HIDE DEF t, m
  <2> QED BY <1>1, <2>1
<1> HIDE DEF t
<1>3. /\ r \in Seq(Entry) /\ Len(r) = Len(s) + Len(t)
      /\ \A k \in 1..Len(s) : r[k] = s[k]
      /\ \A k \in (Len(s) + 1)..(Len(s) + Len(t)) : r[k] = t[k - Len(s)]
  <2>1. s \in Seq(Entry) /\ t \in Seq(Entry)
    BY <1>1
  <2> QED BY <2>1, ConcatProperties
<1>4. t = <<>> => r = s
  OBVIOUS
<1> HIDE DEF r
<1>5. ASSUME NEW k \in 1..Len(r) PROVE r[k] \in ToSet(a) \cup ToSet(s)
  <2>0. /\ \A x \in 1..Len(a) : a[x] \in ToSet(a)
        /\ \A x \in 1..Len(s) : s[x] \in ToSet(s)
    BY DEF ToSet
  <2>1. CASE k \in 1..Len(s)
    BY <1>3, <2>0, <2>1
  <2>2. CASE k \notin 1..Len(s)
    <3>1. k \in (Len(s) + 1)..(Len(s) + Len(t)) /\ k - Len(s) \in 1..Len(t)
      BY <1>1, <1>3, <2>2
    <3>2. t[k - Len(s)] \in ToSet(a)
      <4> HIDE DEF m
      <4> QED BY <1>1, <2>0, <3>1
    <3> QED BY <1>3, <3>1, <3>2
  <2> QED BY <2>1, <2>2
<1>6. ToSet(r) \subseteq ToSet(a) \cup ToSet(s)
  <2>1. DOMAIN r = 1..Len(r)
    BY <1>3
  <2>2. \A x \in ToSet(r) : \E k \in 1..Len(r) : x = r[k]
    BY <2>1 DEF ToSet
  <2> QED BY <1>5, <2>2
<1>7. Over(a, s) = r
  BY DEF Over, r, t
<1> QED BY <1>2, <1>3, <1>4, <1>6, <1>7

(* What a step of a child comes to: it goes on with the same job, is at    *)
(* another point of it, and has written one file at most.                  *)
ChildStep(p, i, k, n, d) ==
  /\ Step(p, i, k, n, d)
  /\ k.op = calls[p][i].job.op /\ k.add = calls[p][i].job.add
  /\ k.del = calls[p][i].job.del /\ k.skip = calls[p][i].job.skip

LEMMA DoneIsJob ==
  ASSUME NEW j \in Job
  PROVE  /\ Done(j) \in Job /\ Done(j).at = "end"
         /\ Done(j).op = j.op /\ Done(j).add = j.add /\ Done(j).del = j.del
         /\ Done(j).skip = j.skip /\ Done(j).in = 0 /\ Done(j).out = 0
BY DEF Done, Job

LEMMA ChildSteps ==
  ASSUME TypeOK, NEW p \in Prog, NEW i \in 1..Len(calls[p]),
         Child(p, i) \/ ChildFails(p, i)
  PROVE  /\ \E k \in Job, n \in Names, d \in Disks : ChildStep(p, i, k, n, d)
         /\ removed' \in {removed, removed \cup ToSet(file)}
         /\ calls[p][i].job.at # "end"
<1> DEFINE j == calls[p][i].job
<1>1. j \in Job /\ name \in Names /\ disk \in Disks
  BY JobOf DEF TypeOK, Names, Disks
<1> DEFINE Goal == \E l \in Job, m \in Names, e \in Disks : ChildStep(p, i, l, m, e)
<1>2. ASSUME NEW k \in Job, NEW n \in Names, NEW d \in Disks,
             Step(p, i, k, n, d), k.op = j.op, k.add = j.add, k.del = j.del,
             k.skip = j.skip
      PROVE  Goal
  BY <1>2 DEF ChildStep
<1>0. removed' \in {removed, removed \cup ToSet(file)} /\ j.at # "end"
  BY DEF Child, ChildFails, Unlink, Link, UnlinkOld, OpenBak, Create, Copy,
         OpenEnd, WriteEnd, j
<1> SUFFICES Goal
  BY <1>0 DEF Goal, j
<1> HIDE DEF j
<1>3. /\ Done(j) \in Job /\ Done(j).op = j.op /\ Done(j).add = j.add
      /\ Done(j).del = j.del /\ Done(j).skip = j.skip
  BY <1>1, DoneIsJob
<1> HIDE DEF Goal
<1> USE <1>2, <1>3
<1>4. CASE Unlink(p, i, j)
  <2> DEFINE k == [j EXCEPT !.at = "link"]
             n == [name EXCEPT !.bak = 0]
  <2>1. k \in Job /\ k.op = j.op /\ k.add = j.add /\ k.del = j.del
        /\ k.skip = j.skip /\ n \in Names
    BY <1>1 DEF Job, Names
  <2>2. Step(p, i, k, n, disk)
    BY <1>4 DEF Unlink
  <2> HIDE DEF k, n
  <2> QED BY <1>1, <2>1, <2>2
<1>5. CASE Link(p, i, j)
  <2> DEFINE k == [j EXCEPT !.at = "unlink"]
             n == [name EXCEPT !.bak = name.hist]
  <2>1. k \in Job /\ k.op = j.op /\ k.add = j.add /\ k.del = j.del
        /\ k.skip = j.skip /\ n \in Names
    <3>1. j.at = "link"
      BY <1>5 DEF Link
    <3> QED BY <1>1, <3>1 DEF Job, Names
  <2>2. Step(p, i, k, n, disk) \/ Step(p, i, Done(j), name, disk)
    BY <1>5 DEF Link
  <2> HIDE DEF k, n
  <2> QED BY <1>1, <2>1, <2>2
<1>13. CASE UnlinkOld(p, i, j)
  <2> DEFINE k == IF j.op = "rewrite" THEN [j EXCEPT !.at = "open"] ELSE Done(j)
             n == [name EXCEPT !.hist = 0]
  <2>1. k \in Job /\ k.op = j.op /\ k.add = j.add /\ k.del = j.del
        /\ k.skip = j.skip
    BY <1>1 DEF Job
  <2>2. n \in Names
    BY <1>1 DEF Names
  <2>3. Step(p, i, k, n, disk)
    BY <1>13 DEF UnlinkOld
  <2> HIDE DEF k, n
  <2> QED BY <1>1, <2>1, <2>2, <2>3
<1>6. CASE OpenBak(p, i, j)
  <2> DEFINE k == IF name.bak = 0 THEN Done(j)
                  ELSE [j EXCEPT !.at = "create", !.in = name.bak]
  <2>1. k \in Job /\ k.op = j.op /\ k.add = j.add /\ k.del = j.del
        /\ k.skip = j.skip
    <3>1. j.at = "open" /\ name.bak \in File \cup {0}
      BY <1>1, <1>6 DEF OpenBak, Names
    <3>2. CASE name.bak = 0
      BY <3>2
    <3>3. CASE name.bak # 0
      BY <1>1, <3>1, <3>3 DEF Job
    <3> QED BY <3>2, <3>3
  <2>2. Step(p, i, k, name, disk)
    BY <1>6 DEF OpenBak
  <2> HIDE DEF k
  <2> QED BY <1>1, <2>1, <2>2
<1>7. CASE Create(p, i, j)
  <2> DEFINE k == [j EXCEPT !.at = "copy", !.out = Opened]
             n == [name EXCEPT !.hist = Opened]
             d == [disk EXCEPT ![Opened] = <<>>]
  <2>0. Opened \in File /\ Opened # 0
    BY <1>7, OpenedFacts, ZeroIsNoFile DEF Create
  <2>1. k \in Job /\ k.op = j.op /\ k.add = j.add /\ k.del = j.del
        /\ k.skip = j.skip
    <3>1. j.at = "create"
      BY <1>7 DEF Create
    <3> QED BY <1>1, <2>0, <3>1 DEF Job
  <2>2. n \in Names /\ d \in Disks
    BY <1>1, <2>0 DEF Names, Disks
  <2>3. Step(p, i, k, n, d)
    BY <1>7 DEF Create
  <2> HIDE DEF k, n, d
  <2> QED BY <1>1, <2>1, <2>2, <2>3
<1>8. ASSUME j.at = "copy"
      PROVE  /\ j.in \in File /\ j.out \in File
             /\ Rewritten(j, disk[j.in]) \in Seq(Entry)
             /\ \A r \in Seq(Entry) :
                  [disk EXCEPT ![j.out] = Over(@, r)] \in Disks
  <2>1. j.in \in File /\ j.out \in File
    BY <1>1, <1>8 DEF Job
  <2>2. disk[j.in] \in Seq(Entry) /\ disk[j.out] \in Seq(Entry)
    BY <1>1, <2>1 DEF Disks
  <2>3. \A r \in Seq(Entry) : Over(disk[j.out], r) \in Seq(Entry)
    BY <2>2, OverFacts
  <2>4. Rewritten(j, disk[j.in]) \in Seq(Entry)
    BY <1>1, <2>2, RewrittenFacts
  <2>5. \A r \in Seq(Entry) : [disk EXCEPT ![j.out] = Over(@, r)] \in Disks
    BY <1>1, <2>1, <2>3 DEF Disks
  <2> QED BY <2>1, <2>4, <2>5
<1>9. CASE Copy(p, i, j)
  BY <1>1, <1>8, <1>9 DEF Copy
<1>10. CASE OpenEnd(p, i, j)
  <2> DEFINE k == [j EXCEPT !.at = "write", !.out = Opened]
             n == [name EXCEPT !.hist = Opened]
             d == IF there THEN disk ELSE [disk EXCEPT ![Opened] = <<>>]
  <2>0. Opened \in File /\ Opened # 0
    BY <1>10, OpenedFacts, ZeroIsNoFile DEF OpenEnd
  <2>1. k \in Job /\ k.op = j.op /\ k.add = j.add /\ k.del = j.del
        /\ k.skip = j.skip
    <3>1. j.op = "append" /\ j.at = "start"
      BY <1>10 DEF OpenEnd
    <3> QED BY <1>1, <2>0, <3>1 DEF Job
  <2>2. n \in Names /\ d \in Disks
    BY <1>1, <2>0 DEF Names, Disks
  <2>3. Step(p, i, k, n, d)
    BY <1>10 DEF OpenEnd
  <2> HIDE DEF k, n, d
  <2> QED BY <1>1, <2>1, <2>2, <2>3
<1>11. CASE WriteEnd(p, i, j)
  <2> DEFINE d == [disk EXCEPT ![j.out] = Append(@, j.add)]
  <2>1. j.out \in File /\ j.add \in Entry
    <3>1. j.at = "write"
      BY <1>11 DEF WriteEnd
    <3> QED BY <1>1, <3>1 DEF Job
  <2>2. Append(disk[j.out], j.add) \in Seq(Entry)
    <3>1. disk[j.out] \in Seq(Entry)
      BY <1>1, <2>1 DEF Disks
    <3> QED BY <2>1, <3>1, AppendProperties
  <2>3. d \in Disks
    BY <1>1, <2>1, <2>2 DEF Disks
  <2>4. Step(p, i, Done(j), name, d)
    BY <1>11 DEF WriteEnd
  <2> HIDE DEF d
  <2> QED BY <1>1, <2>3, <2>4
<1>12. CASE ChildFails(p, i)
  <2>1. CASE Step(p, i, Done(j), name, disk)
    BY <1>1, <2>1
  <2>2. CASE ~ Step(p, i, Done(j), name, disk)
    <3>1. /\ j.at = "copy"
          /\ \E n \in 0..Len(Rewritten(j, disk[j.in])) :
               Step(p, i, Done(j), name, [disk EXCEPT ![j.out] =
                      Over(@, SubSeq(Rewritten(j, disk[j.in]), 1, n))])
      BY <1>12, <2>2 DEF ChildFails, j
    <3>2. PICK n \in 0..Len(Rewritten(j, disk[j.in])) :
               Step(p, i, Done(j), name, [disk EXCEPT ![j.out] =
                      Over(@, SubSeq(Rewritten(j, disk[j.in]), 1, n))])
      BY <3>1
    <3> DEFINE r == SubSeq(Rewritten(j, disk[j.in]), 1, n)
    <3>3. r \in Seq(Entry)
      BY <1>8, <3>1, SubSeqTo
    <3> HIDE DEF r
    <3>4. [disk EXCEPT ![j.out] = Over(@, r)] \in Disks
      BY <1>8, <3>1, <3>3
    <3>5. Step(p, i, Done(j), name, [disk EXCEPT ![j.out] = Over(@, r)])
      BY <3>2 DEF r
    <3> QED BY <1>1, <3>4, <3>5
  <2> QED BY <2>1, <2>2
<1> QED BY <1>4, <1>5, <1>6, <1>7, <1>9, <1>10, <1>11, <1>12, <1>13
       DEF Child, j

LEMMA EnvStays ==
  ASSUME TypeOK, [Next]_vars
  PROVE  env' = env
<1>1. ASSUME NEW p \in Prog, NEW i \in 1..Len(calls[p]),
             Child(p, i) \/ ChildFails(p, i)
      PROVE  env' = env
  <2>1. PICK k \in Job, n \in Names, d \in Disks : ChildStep(p, i, k, n, d)
    BY <1>1, ChildSteps
  <2> QED BY <2>1 DEF ChildStep, Step
<1>2. CASE Window
  BY <1>2 DEF Window, Delete, DeleteAll, Rescan, Open, Changer, Select, Load
<1>3. ASSUME NEW p \in Prog, NEW d \in Disc, Add(p, d)
      PROVE  env' = env
  BY <1>3 DEF Add
<1>4. ASSUME NEW p \in Prog, Return(p) \/ Start(p)
      PROVE  env' = env
  BY <1>4 DEF Return, Start, Load
<1>5. CASE vars' = vars
  BY <1>5 DEF vars
<1> QED BY <1>1, <1>2, <1>3, <1>4, <1>5 DEF Next

(* The inmost call leaves the others. *)
LEMMA ReturnFacts ==
  ASSUME TypeOK, NEW p \in Prog, Return(p)
  PROVE  /\ calls' \in [Prog -> Seq(Call)]
         /\ \A q \in Prog \ {p} : calls'[q] = calls[q]
         /\ Len(calls[p]) \in Nat \ {0}
         /\ calls[p][1] \in Call /\ calls[p][1].job.at = "end"
         /\ Len(calls'[p]) = Len(calls[p]) - 1
         /\ \A k \in 1..(Len(calls[p]) - 1) : calls'[p][k] = calls[p][k + 1]
<1> DEFINE s == calls[p]
           t == Tail(s)
<1>1. /\ calls \in [Prog -> Seq(Call)] /\ s \in Seq(Call) /\ s # <<>>
      /\ Head(s).job.at = "end"
  BY DEF TypeOK, Return
<1>2. calls' = [calls EXCEPT ![p] = t]
  BY DEF Return
<1>3. /\ t \in Seq(Call) /\ Len(t) = Len(s) - 1 /\ Len(s) \in Nat \ {0}
      /\ \A k \in 1..(Len(s) - 1) : t[k] = s[k + 1]
      /\ s[1] \in Call /\ Head(s) = s[1]
  <2> HIDE DEF s
  <2> QED BY <1>1
<1> HIDE DEF t
<1>4. /\ calls' \in [Prog -> Seq(Call)] /\ calls'[p] = t
      /\ \A q \in Prog \ {p} : calls'[q] = calls[q]
  BY <1>1, <1>2, <1>3
<1> QED BY <1>1, <1>3, <1>4

(* What Add puts in front of a list. *)
LEMMA AddFacts ==
  ASSUME TypeOK, NEW p \in Prog, NEW d \in Disc, Add(p, d)
  PROVE  LET e == [disc |-> d, time |-> time + 1]
             m == IF Len(list[p]) = MaxHist THEN MaxHist ELSE Len(list[p]) + 1
         IN  /\ e \in Entry
             /\ list' \in [Prog -> Seq(Entry)]
             /\ \A q \in Prog \ {p} : list'[q] = list[q]
             /\ m \in Nat /\ m - 1 \in 0..Len(list[p])
             /\ list'[p] = <<e>> \o SubSeq(list[p], 1, m - 1)
             /\ Len(list'[p]) = m /\ list'[p][1] = e
             /\ \A k \in 2..m : list'[p][k] = list[p][k - 1]
<1> DEFINE e == [disc |-> d, time |-> time + 1]
           s == list[p]
           m == IF Len(s) = MaxHist THEN MaxHist ELSE Len(s) + 1
           t == <<e>> \o SubSeq(s, 1, m - 1)
<1>1. e \in Entry
  BY BoundsAssumption DEF Add, TypeOK, Entry
<1>2. list \in [Prog -> Seq(Entry)] /\ s \in Seq(Entry)
  BY DEF TypeOK
<1>3. m \in Nat /\ m - 1 \in 0..Len(s)
  <2> HIDE DEF s
  <2> QED BY <1>2, BoundsAssumption
<1>4. list' = [list EXCEPT ![p] = t]
  BY DEF Add
<1>5. /\ t \in Seq(Entry) /\ Len(t) = (m - 1) + 1 /\ t[1] = e
      /\ \A k \in 2..((m - 1) + 1) : t[k] = s[k - 1]
  <2> HIDE DEF e, s, m
  <2> QED BY <1>1, <1>2, <1>3, InFront
<1>6. (m - 1) + 1 = m
  BY <1>3
<1> HIDE DEF e, m, t
<1>7. /\ list' \in [Prog -> Seq(Entry)] /\ list'[p] = t
      /\ \A q \in Prog \ {p} : list'[q] = list[q]
  BY <1>2, <1>4, <1>5
<1> QED BY <1>1, <1>3, <1>5, <1>6, <1>7 DEF e, m, t

(* The variables of the window and the rest, by action. *)
LEMMA ShowAllTypes ==
  ASSUME NEW l \in Seq(Entry), ShowAll(l)
  PROVE  widget' \in Seq(Entry) /\ hist_cnt' \in Nat
BY DEF ShowAll

LEMMA ShowNewFacts ==
  ASSUME NEW e \in Entry, widget \in Seq(Entry), hist_cnt \in Nat, ShowNew(e)
  PROVE  widget' \in Seq(Entry) /\ hist_cnt' \in Nat
<1> DEFINE w == <<e>> \o widget
<1>1. w \in Seq(Entry)
  OBVIOUS
<1> HIDE DEF w
<1>2. hist_cnt + 1 <= Len(w) => RemoveAt(w, hist_cnt + 1) \in Seq(Entry)
  BY <1>1, RemoveAtFacts
<1> QED BY <1>1, <1>2 DEF ShowNew, w

LEMMA NextKeepsTypes ==
  ASSUME TypeOK, [Next]_vars
  PROVE  TypeOK'
<1>1. CASE UNCHANGED vars
  BY <1>1 DEF TypeOK, vars, fileVars, winVars
<1>2. CASE Delete
  <2> DEFINE old == list[Xmcd]
             i   == dlist_pos
             m   == Len(old) - 1
  <2>1. /\ Xmcd \in Prog /\ old \in Seq(Entry)
        /\ i \in Nat \ {0} /\ widget \in Seq(Entry)
    BY <1>2, ProgAssumption DEF Delete, TypeOK
  <2>2. widget' \in Seq(Entry)
    BY <1>2, <2>1, RemoveAtFacts DEF Delete
  <2>3. CASE i <= Len(old)
    <3>1. i \in 1..Len(old) /\ m \in Nat /\ old[i] \in Entry
      BY <2>1, <2>3
    <3>2. RemoveAt(old, i) \in Seq(Entry)
      BY <2>1, <3>1, RemoveAtFacts
    <3>3. fcnt \in [Prog -> Nat] /\ fcnt[Xmcd] - m \in Int
      BY <2>1, <3>1 DEF TypeOK
    <3>4. /\ list' = [list EXCEPT ![Xmcd] = RemoveAt(old, i)]
          /\ tail' = [tail EXCEPT ![Xmcd] = @ /\ i # Len(old)]
          /\ fcnt' = [fcnt EXCEPT ![Xmcd] = m]
          /\ removed' = removed \cup {old[i]}
          /\ Wait(Xmcd, "del", Drop(old[i], fcnt[Xmcd] - m))
          /\ UNCHANGED <<hist_cnt, dlist_pos, picked>>
      BY <1>2, <2>3, <2>1 DEF Delete
    <3>5. Drop(old[i], fcnt[Xmcd] - m) \in Job
      BY <3>1, <3>3, JobTypes
    <3>6. calls' \in [Prog -> Seq(Call)]
      BY <2>1, <3>4, <3>5, WaitFacts
    <3> HIDE DEF old, i, m
    <3>7. /\ list' \in [Prog -> Seq(Entry)] /\ fcnt' \in [Prog -> Nat]
          /\ tail' \in [Prog -> BOOLEAN] /\ removed' \subseteq Entry
      BY <3>1, <3>2, <3>4, <2>1 DEF TypeOK
    <3> QED BY <1>2, <2>2, <3>4, <3>6, <3>7 DEF TypeOK, Delete, fileVars
  <2>4. CASE ~ (i <= Len(old))
    <3>1. /\ hist_cnt' = (IF hist_cnt > 0 THEN hist_cnt - 1 ELSE 0)
          /\ dlist_pos' = -1 /\ picked' = NoEntry
          /\ UNCHANGED <<list, tail, fcnt, removed, calls>>
          /\ UNCHANGED <<env, time, fileVars, shown>>
      BY <1>2, <2>4 DEF Delete
    <3> QED BY <2>2, <3>1 DEF TypeOK, fileVars
  <2> QED BY <2>3, <2>4
<1>3. CASE DeleteAll
  <2>1. calls' \in [Prog -> Seq(Call)]
    BY <1>3, JobTypes, WaitFacts, ProgAssumption DEF DeleteAll
  <2>2. ToSet(list[Xmcd]) \subseteq Entry
    <3>1. list[Xmcd] \in Seq(Entry)
      BY ProgAssumption DEF TypeOK
    <3> QED BY <3>1 DEF ToSet
  <2>3. /\ list' \in [Prog -> Seq(Entry)] /\ fcnt' \in [Prog -> Nat]
        /\ tail' \in [Prog -> BOOLEAN]
    <3>1. <<>> \in Seq(Entry) /\ 0 \in Nat
      OBVIOUS
    <3> QED BY <1>3, <3>1 DEF DeleteAll, TypeOK
  <2>4. widget' \in Seq(Entry)
    BY <1>3 DEF DeleteAll
  <2>5. removed' \subseteq Entry
    BY <1>3, <2>2 DEF DeleteAll, TypeOK
  <2> QED BY <1>3, <2>1, <2>3, <2>4, <2>5 DEF DeleteAll, TypeOK, fileVars
<1>4. CASE Rescan
  <2>1. Newest \in Seq(Entry) /\ Len(file) \in Nat
    BY NewestFacts, FileType
  <2>2. widget' \in Seq(Entry) /\ hist_cnt' \in Nat
    BY <1>4, <2>1, ShowAllTypes DEF Rescan
  <2> QED BY <1>4, <2>1, <2>2, ProgAssumption
     DEF Rescan, Load, NoPick, TypeOK, fileVars
<1>5. CASE Open
  <2>1. list[Xmcd] \in Seq(Entry)
    BY ProgAssumption DEF TypeOK
  <2>2. widget' \in Seq(Entry) /\ hist_cnt' \in Nat
    BY <1>5, <2>1, ShowAllTypes DEF Open
  <2> QED BY <1>5, <2>2 DEF Open, NoPick, TypeOK, fileVars
<1>6. CASE Changer
  BY <1>6 DEF Changer, NoPick, TypeOK, fileVars
<1>7. CASE Select
  <2>1. dlist_pos' \in Int /\ picked' \in Entry \cup {NoEntry}
    <3>1. CASE dlist_pos > 0 /\ NoPick
      BY <3>1 DEF NoPick
    <3>2. CASE \E i \in 1..Len(widget) :
                 i # dlist_pos /\ dlist_pos' = i /\ picked' = widget[i]
      BY <3>2 DEF TypeOK
    <3> QED BY <1>7, <3>1, <3>2 DEF Select
  <2> QED BY <1>7, <2>1 DEF Select, TypeOK, fileVars
<1>8. ASSUME NEW p \in Prog, NEW d \in Disc, Add(p, d) PROVE TypeOK'
  <2> DEFINE e == [disc |-> d, time |-> time + 1]
             m == IF Len(list[p]) = MaxHist THEN MaxHist ELSE Len(list[p]) + 1
             more == fcnt[p] + 1 - m
  <2>1. e \in Entry /\ list' \in [Prog -> Seq(Entry)] /\ m \in Nat
    BY <1>8, AddFacts
  <2>2. fcnt \in [Prog -> Nat] /\ more \in Int
    BY <2>1 DEF TypeOK
  <2>3. \/ /\ fcnt' = [fcnt EXCEPT ![p] = m]
           /\ Wait(p, "add", Rewrite(e, more + 1))
        \/ /\ fcnt' = [fcnt EXCEPT ![p] = @ + 1]
           /\ Wait(p, "add", AppendJob(e))
    BY <1>8 DEF Add
  <2>4. tail' = [tail EXCEPT ![p] = @ \/ list[p] = <<>>]
        /\ time' = time + 1 /\ time < MaxTime
        /\ UNCHANGED <<env, fileVars, winVars, removed>>
    BY <1>8 DEF Add
  <2> HIDE DEF e, m, more
  <2>5. /\ Rewrite(e, more + 1) \in Job /\ AppendJob(e) \in Job
        /\ Rewrite(e, more + 1).add # NoEntry /\ AppendJob(e).add # NoEntry
    <3>1. e # NoEntry
      BY <2>1, NoEntryIsNone
    <3> QED BY <2>1, <2>2, <3>1, JobTypes DEF Rewrite, AppendJob, NewJob
  <2>6. fcnt' \in [Prog -> Nat]
    BY <2>1, <2>2, <2>3
  <2>7. calls' \in [Prog -> Seq(Call)]
    BY <2>3, <2>5, WaitFacts
  <2>8. time' \in 0..MaxTime
    BY <2>4, BoundsAssumption DEF TypeOK
  <2>9. tail' \in [Prog -> BOOLEAN]
    BY <2>4 DEF TypeOK
  <2> QED BY <2>1, <2>4, <2>6, <2>7, <2>8, <2>9 DEF TypeOK, fileVars, winVars
<1>9. ASSUME NEW p \in Prog, NEW i \in 1..Len(calls[p]),
             Child(p, i) \/ ChildFails(p, i)
      PROVE  TypeOK'
  <2>1. /\ \E k \in Job, n \in Names, d \in Disks : ChildStep(p, i, k, n, d)
        /\ removed' \in {removed, removed \cup ToSet(file)}
    BY <1>9, ChildSteps
  <2>2. PICK k \in Job, n \in Names, d \in Disks : ChildStep(p, i, k, n, d)
    BY <2>1
  <2>3. /\ calls' \in [Prog -> Seq(Call)] /\ name' = n /\ disk' \in Disks
        /\ UNCHANGED <<env, time, list, tail, fcnt, winVars>>
    BY <2>2, StepFacts DEF ChildStep
  <2>4. removed' \subseteq Entry
    BY <2>1, FileType DEF TypeOK
  <2> QED BY <2>3, <2>4 DEF TypeOK, winVars, Names, Disks
<1>10. ASSUME NEW p \in Prog, Return(p) PROVE TypeOK'
  <2>1. calls' \in [Prog -> Seq(Call)] /\ calls[p][1] \in Call
    BY <1>10, ReturnFacts
  <2> DEFINE c == Head(calls[p])
  <2>2. UNCHANGED <<env, time, fileVars, list, tail, fcnt, removed>>
    BY <1>10 DEF Return
  <2>3. widget' \in Seq(Entry) /\ hist_cnt' \in Nat
        /\ UNCHANGED shown
        /\ dlist_pos' \in Int /\ picked' \in Entry \cup {NoEntry}
    <3>1. CASE UNCHANGED winVars
      BY <3>1 DEF winVars, TypeOK
    <3>2. CASE /\ c.fn = "add"
               /\ IF shown = "hist" THEN ShowNew(c.job.add)
                                    ELSE UNCHANGED <<widget, hist_cnt>>
               /\ UNCHANGED <<shown, dlist_pos, picked>>
      <4>1. c \in Call /\ c.job.add \in Entry
        <5>1. c = calls[p][1]
          BY <1>10 DEF Return, TypeOK
        <5>2. c \in Call
          BY <2>1, <5>1
        <5> HIDE DEF c
        <5> QED BY <3>2, <5>2 DEF Call, Job
      <4> HIDE DEF c
      <4>2. widget \in Seq(Entry) /\ hist_cnt \in Nat /\ dlist_pos \in Int
            /\ picked \in Entry \cup {NoEntry}
        BY DEF TypeOK
      <4>3. CASE shown = "hist"
        BY <3>2, <4>1, <4>2, <4>3, ShowNewFacts
      <4> QED BY <3>2, <4>2, <4>3
    <3>3. CASE /\ hist_cnt' = (IF hist_cnt > 0 THEN hist_cnt - 1 ELSE 0)
               /\ NoPick /\ UNCHANGED <<shown, widget>>
      BY <3>3 DEF NoPick, TypeOK
    <3>4. CASE hist_cnt' = 0 /\ NoPick /\ UNCHANGED <<shown, widget>>
      BY <3>4 DEF NoPick, TypeOK
    <3> QED BY <1>10, <3>1, <3>2, <3>3, <3>4 DEF Return
  <2> QED BY <2>1, <2>2, <2>3 DEF TypeOK, fileVars
<1>11. ASSUME NEW p \in Prog, Start(p) PROVE TypeOK'
  <2>1. Newest \in Seq(Entry) /\ Len(file) \in Nat
    BY NewestFacts, FileType
  <2> QED BY <1>11, <2>1 DEF Start, Load, TypeOK, fileVars, winVars
<1> QED BY <1>1, <1>2, <1>3, <1>4, <1>5, <1>6, <1>7, <1>8, <1>9, <1>10, <1>11
        DEF Next, Window

(* The variables keep their types. *)
THEOREM HistoryTypeCorrect == Spec => []TypeOK
<1>1. Init => TypeOK
  <2> SUFFICES ASSUME Init PROVE TypeOK
    OBVIOUS
  <2>1. env \in SUBSET {"share", "nest", "come", "fail", "apart", "still"}
    BY SettingsAssumption DEF Init
  <2>2. /\ time \in 0..MaxTime /\ widget \in Seq(Entry)
        /\ disk \in [File -> Seq(Entry)]
        /\ name \in [hist : File \cup {0}, bak : File \cup {0}]
    BY BoundsAssumption DEF Init
  <2>3. /\ list \in [Prog -> Seq(Entry)] /\ calls \in [Prog -> Seq(Call)]
    BY DEF Init
  <2>4. /\ hist_cnt \in Nat /\ dlist_pos \in Int
        /\ shown \in {"never", "hist", "chgr"} /\ removed \subseteq Entry
        /\ picked \in Entry \cup {NoEntry}
    <3>1. hist_cnt = 0 /\ dlist_pos = -1 /\ shown = "never"
          /\ removed = {} /\ picked = NoEntry
      BY DEF Init
    <3>2. shown \in {"never", "hist", "chgr"}
      BY <3>1
    <3>3. hist_cnt \in Nat /\ dlist_pos \in Int
      BY <3>1
    <3> QED BY <3>1, <3>2, <3>3
  <2>5. tail \in [Prog -> BOOLEAN] /\ fcnt \in [Prog -> Nat]
    BY DEF Init
  <2> QED BY <2>1, <2>2, <2>3, <2>4, <2>5 DEF TypeOK
<1>2. TypeOK /\ [Next]_vars => TypeOK'
  BY NextKeepsTypes
<1> QED BY <1>1, <1>2, PTL DEF Spec

-----------------------------------------------------------------------------
(* The list and the file. *)

(* The list l has the last of the n entries of f, newest first. *)
Agree(l, f, n) ==
  /\ Len(f) = n
  /\ Len(l) = (IF n > MaxHist THEN MaxHist ELSE n)
  /\ \A i \in 1..Len(l) : l[i] = f[n + 1 - i]
  /\ n <= Len(l) + HIST_HYST

(* The entries of f are of different times, the last of them t. *)
Ordered(f, t) ==
  /\ \A i, k \in 1..Len(f) : i < k => f[i].time < f[k].time
  /\ \A i \in 1..Len(f) : f[i].time <= t

LEMMA Times ==
  ASSUME NEW f \in Seq(Entry)
  PROVE  \A i \in 1..Len(f) : f[i] \in Entry /\ f[i].time \in Nat
<1> SUFFICES ASSUME NEW i \in 1..Len(f)
             PROVE  f[i] \in Entry /\ f[i].time \in Nat
  OBVIOUS
<1>1. f[i] \in Entry
  OBVIOUS
<1>2. \A e \in Entry : e.time \in Nat
  BY BoundsAssumption DEF Entry
<1> QED BY <1>1, <1>2

(* A file that is rewritten for an addition: its end, and the entry. *)
LEMMA RewrittenAdd ==
  ASSUME NEW old \in Seq(Entry), NEW e \in Entry, NEW k \in Nat \ {0}
  PROVE  LET r == Rewritten(Rewrite(e, k), old)
             n == IF k <= Len(old) THEN Len(old) - k + 1 ELSE 0
         IN  /\ r \in Seq(Entry) /\ Len(r) = n + 1 /\ r[n + 1] = e
             /\ \A i \in 1..n : r[i] = old[k + i - 1]
<1> DEFINE t == SubSeq(old, k, Len(old))
           n == IF k <= Len(old) THEN Len(old) - k + 1 ELSE 0
<1>1. /\ t \in Seq(Entry) /\ Len(t) = n
      /\ \A i \in 1..Len(t) : t[i] = old[k + i - 1]
  BY SubSeqFrom
<1>2. Rewritten(Rewrite(e, k), old) =
        Append(Kept(t, NoEntry), e)
  <2>1. (IF k > 1 THEN k ELSE 1) = k
    OBVIOUS
  <2>2. e # NoEntry
    BY NoEntryIsNone
  <2> QED BY <2>1, <2>2 DEF Rewritten, Rewrite, NewJob
<1> HIDE DEF t
<1> DEFINE s == Kept(t, NoEntry)
<1>3. s \in Seq(Entry) /\ KeptSoFar(s, t, NoEntry, Len(t))
  BY <1>1, KeptFacts
<1>4. \A i \in 1..Len(t) : t[i] # NoEntry
  <2>1. \A i \in 1..Len(t) : t[i] \in Entry
    BY <1>1
  <2> QED BY <2>1, NoEntryIsNone
<1>5. Len(s) = Len(t) /\ \A i \in 1..Len(t) : s[i] = t[i]
  BY <1>3, <1>4 DEF KeptSoFar
<1> DEFINE r == Append(s, e)
<1> HIDE DEF s
<1>6. /\ r \in Seq(Entry) /\ Len(r) = Len(s) + 1
      /\ \A i \in 1..Len(s) : r[i] = s[i]
      /\ r[Len(s) + 1] = e
  BY <1>3, AppendProperties
<1> HIDE DEF r, n
<1>7. r \in Seq(Entry) /\ Len(r) = n + 1 /\ r[n + 1] = e
  BY <1>1, <1>5, <1>6
<1>8. \A i \in 1..n : r[i] = old[k + i - 1]
  BY <1>1, <1>5, <1>6
<1> QED BY <1>2, <1>7, <1>8 DEF r, s, n

(* A file that is rewritten without its entry x: what comes after moves up. *)
LEMMA RewrittenDrop ==
  ASSUME NEW old \in Seq(Entry), NEW k \in 1..Len(old), NEW x \in k..Len(old),
         \A y \in k..Len(old) : old[y] = old[x] <=> y = x
  PROVE  LET r == Rewritten(Drop(old[x], k), old)
         IN  /\ r \in Seq(Entry) /\ Len(r) = Len(old) - k
             /\ \A i \in 1..(Len(old) - k) :
                  r[i] = old[IF k + i - 1 < x THEN k + i - 1 ELSE k + i]
<1> DEFINE t == SubSeq(old, k, Len(old))
           n == Len(old) - k + 1
           z == x - k + 1
           d == old[x]
<1>0. Len(old) \in Nat /\ k \in Nat \ {0} /\ k <= Len(old) /\ x \in Nat
  OBVIOUS
<1>1. /\ t \in Seq(Entry) /\ Len(t) = n
      /\ \A i \in 1..n : t[i] = old[k + i - 1]
  BY <1>0, SubSeqFrom
<1>2. Rewritten(Drop(d, k), old) = Kept(t, d)
  <2>1. (IF k > 1 THEN k ELSE 1) = k
    BY <1>0
  <2> QED BY <2>1 DEF Rewritten, Drop, NewJob
<1> HIDE DEF t
<1>3. z \in 1..n
  BY <1>0
<1>4. \A i \in 1..n : t[i] = d <=> i = z
  <2> SUFFICES ASSUME NEW i \in 1..n PROVE t[i] = d <=> i = z
    OBVIOUS
  <2>1. k + i - 1 \in k..Len(old) /\ t[i] = old[k + i - 1]
    BY <1>0, <1>1
  <2>2. old[k + i - 1] = d <=> k + i - 1 = x
    BY <2>1
  <2> QED BY <1>0, <2>1, <2>2
<1> DEFINE r == Kept(t, d)
<1>5. r \in Seq(Entry) /\ KeptSoFar(r, t, d, n)
  BY <1>1, KeptFacts
<1> HIDE DEF r, d
<1>6. /\ Len(r) = n - 1
      /\ \A i \in 1..(n - 1) : r[i] = t[IF i < z THEN i ELSE i + 1]
  BY <1>3, <1>4, <1>5 DEF KeptSoFar
<1>7. ASSUME NEW i \in 1..(Len(old) - k)
      PROVE  r[i] = old[IF k + i - 1 < x THEN k + i - 1 ELSE k + i]
  <2>1. i \in 1..(n - 1) /\ i + 1 \in 1..n /\ i \in 1..n
    BY <1>0
  <2>2. t[i] = old[k + i - 1] /\ t[i + 1] = old[k + i]
    <3>1. k + (i + 1) - 1 = k + i
      BY <1>0
    <3>2. t[i + 1] = old[k + (i + 1) - 1]
      <4> HIDE DEF n
      <4> QED BY <1>1, <2>1
    <3> QED BY <1>1, <2>1, <3>1, <3>2
  <2>3. r[i] = t[IF i < z THEN i ELSE i + 1]
    BY <1>6, <2>1
  <2>4. i < z <=> k + i - 1 < x
    BY <1>0
  <2> HIDE DEF z
  <2> QED BY <2>2, <2>3, <2>4
<1>8. Len(r) = Len(old) - k
  BY <1>0, <1>6
<1> QED BY <1>2, <1>5, <1>7, <1>8 DEF r, d

(* An addition, when the file is appended to. *)
LEMMA AgreeAppend ==
  ASSUME NEW l \in Seq(Entry), NEW f \in Seq(Entry), NEW l2 \in Seq(Entry),
         NEW n \in Nat, NEW t \in Nat, NEW e \in Entry, e.time = t + 1,
         Agree(l, f, n), Ordered(f, t),
         NEW m \in Nat,
         m = (IF Len(l) = MaxHist THEN MaxHist ELSE Len(l) + 1),
         Len(l2) = m, l2[1] = e, \A k \in 2..m : l2[k] = l[k - 1],
         n + 1 - m <= HIST_HYST, NEW g, g = Append(f, e)
  PROVE  Agree(l2, g, n + 1) /\ Ordered(g, t + 1)
<1> USE BoundsAssumption
<1>1. /\ g \in Seq(Entry) /\ Len(g) = Len(f) + 1
      /\ \A i \in 1..Len(f) : g[i] = f[i]
      /\ g[Len(f) + 1] = e
  BY AppendProperties
<1>2. /\ Len(f) = n /\ Len(l) \in Nat
      /\ Len(l) = (IF n > MaxHist THEN MaxHist ELSE n)
      /\ \A i \in 1..Len(l) : l[i] = f[n + 1 - i]
  BY DEF Agree
<1>3. \A i \in 1..m : l2[i] = g[n + 2 - i]
  <2> SUFFICES ASSUME NEW i \in 1..m PROVE l2[i] = g[n + 2 - i]
    OBVIOUS
  <2>1. CASE i = 1
    BY <1>1, <1>2, <2>1
  <2>2. CASE i # 1
    <3>1. i \in 2..m /\ i - 1 \in 1..Len(l) /\ n + 1 - (i - 1) = n + 2 - i
          /\ n + 2 - i \in 1..n
      BY SMTT(40), <1>2, <2>2
    <3>2. l2[i] = l[i - 1] /\ l[i - 1] = f[n + 1 - (i - 1)]
      BY <1>2, <3>1
    <3> QED BY <1>1, <1>2, <3>1, <3>2
  <2> QED BY <2>1, <2>2
<1>4. Agree(l2, g, n + 1)
  <2>1. m = (IF n + 1 > MaxHist THEN MaxHist ELSE n + 1)
    BY <1>2
  <2>2. n + 1 <= m + HIST_HYST
    OBVIOUS
  <2>3. \A i \in 1..Len(l2) : l2[i] = g[(n + 1) + 1 - i]
    <3> SUFFICES ASSUME NEW i \in 1..m PROVE l2[i] = g[(n + 1) + 1 - i]
      OBVIOUS
    <3>1. (n + 1) + 1 - i = n + 2 - i
      OBVIOUS
    <3> QED BY <1>3, <3>1
  <2> QED BY <1>1, <1>2, <2>1, <2>2, <2>3 DEF Agree
<1>5. Ordered(g, t + 1)
  <2>0. /\ \A i, k \in 1..Len(f) : i < k => f[i].time < f[k].time
        /\ \A i \in 1..Len(f) : f[i].time \in Nat /\ f[i].time <= t
    <3>1. \A i \in 1..Len(f) : f[i].time \in Nat
      BY Times
    <3> QED BY <3>1 DEF Ordered
  <2>1. \A i \in 1..Len(g) : g[i].time <= t + 1
    <3> SUFFICES ASSUME NEW i \in 1..Len(g) PROVE g[i].time <= t + 1
      OBVIOUS
    <3>1. CASE i \in 1..Len(f)
      <4>1. g[i] = f[i]
        BY <1>1, <3>1
      <4>2. f[i].time \in Nat /\ f[i].time <= t
        BY <2>0, <3>1
      <4> QED BY <4>1, <4>2
    <3>2. CASE i \notin 1..Len(f)
      BY <1>1, <3>2
    <3> QED BY <3>1, <3>2
  <2>2. ASSUME NEW i \in 1..Len(g), NEW k \in 1..Len(g), i < k
        PROVE  g[i].time < g[k].time
    <3>1. i \in 1..Len(f) /\ g[i] = f[i] /\ f[i].time <= t
      BY <1>1, <2>0, <2>2
    <3>2. CASE k \in 1..Len(f)
      BY <1>1, <2>0, <2>2, <3>1, <3>2
    <3>3. CASE k \notin 1..Len(f)
      <4>1. k = Len(f) + 1
        BY <1>1, <3>3
      <4> QED BY <1>1, <2>0, <3>1, <4>1
    <3> QED BY <3>2, <3>3
  <2> QED BY <2>1, <2>2 DEF Ordered
<1> QED BY <1>4, <1>5

(* An addition, when the file is rewritten: it gets as long as the list. *)
LEMMA AgreeCut ==
  ASSUME NEW old \in Seq(Entry),
         NEW l \in Seq(Entry), NEW l2 \in Seq(Entry),
         NEW n \in Nat, NEW t \in Nat, NEW e \in Entry, e.time = t + 1,
         Agree(l, old, n), Ordered(old, t),
         NEW m \in Nat,
         m = (IF Len(l) = MaxHist THEN MaxHist ELSE Len(l) + 1),
         Len(l2) = m, l2[1] = e, \A k \in 2..m : l2[k] = l[k - 1],
         n + 1 - m > HIST_HYST
  PROVE  LET r == Rewritten(Rewrite(e, n + 1 - m + 1), old)
         IN  Agree(l2, r, m) /\ Ordered(r, t + 1)
<1> USE BoundsAssumption
<1> DEFINE k == n + 1 - m + 1
           g == Rewritten(Rewrite(e, k), old)
<1>2. /\ Len(old) = n /\ Len(l) \in Nat
      /\ Len(l) = (IF n > MaxHist THEN MaxHist ELSE n)
      /\ \A i \in 1..Len(l) : l[i] = old[n + 1 - i]
  BY DEF Agree
<1>1. /\ k \in Nat \ {0} /\ m \in Nat \ {0} /\ m <= MaxHist
      /\ (IF k <= n THEN n - k + 1 ELSE 0) = m - 1
  BY SMTT(40), <1>2
<1>3. /\ g \in Seq(Entry) /\ Len(g) = m /\ g[m] = e
      /\ \A i \in 1..(m - 1) : g[i] = old[k + i - 1]
  <2>1. (m - 1) + 1 = m
    OBVIOUS
  <2> HIDE DEF k
  <2>2. /\ g \in Seq(Entry) /\ Len(g) = (m - 1) + 1 /\ g[(m - 1) + 1] = e
        /\ \A i \in 1..(m - 1) : g[i] = old[k + i - 1]
    <3>1. k \in Nat \ {0} /\ Len(old) = n
          /\ (IF k <= n THEN n - k + 1 ELSE 0) = m - 1
      BY <1>1, <1>2
    <3> DEFINE c == IF k <= Len(old) THEN Len(old) - k + 1 ELSE 0
    <3>2. c = m - 1
      BY <3>1
    <3>3. /\ g \in Seq(Entry) /\ Len(g) = c + 1 /\ g[c + 1] = e
          /\ \A i \in 1..c : g[i] = old[k + i - 1]
      BY <3>1, RewrittenAdd
    <3> HIDE DEF c, g
    <3> QED BY <3>2, <3>3
  <2> QED BY <2>1, <2>2
<1> HIDE DEF g
<1>4. \A i \in 1..m : l2[i] = g[m + 1 - i]
  <2> SUFFICES ASSUME NEW i \in 1..m PROVE l2[i] = g[m + 1 - i]
    OBVIOUS
  <2>1. CASE i = 1
    BY <1>3, <2>1
  <2>2. CASE i # 1
    <3>1. /\ i \in 2..m /\ i - 1 \in 1..Len(l) /\ m + 1 - i \in 1..(m - 1)
          /\ n + 1 - (i - 1) = k + (m + 1 - i) - 1
      BY <1>1, <1>2, <2>2
    <3>2. l2[i] = l[i - 1] /\ l[i - 1] = old[n + 1 - (i - 1)]
      BY <1>2, <3>1
    <3>3. g[m + 1 - i] = old[k + (m + 1 - i) - 1]
      <4> HIDE DEF k
      <4> QED BY <1>3, <3>1
    <3> QED BY <3>1, <3>2, <3>3
  <2> QED BY <2>1, <2>2
<1>5. Agree(l2, g, m)
  BY <1>1, <1>3, <1>4 DEF Agree
<1>6. Ordered(g, t + 1)
  <2>0. /\ \A i, j \in 1..n : i < j => old[i].time < old[j].time
        /\ \A i \in 1..n : old[i].time \in Nat /\ old[i].time <= t
    <3>1. \A i \in 1..Len(old) : old[i].time \in Nat
      BY Times
    <3> QED BY <1>2, <3>1 DEF Ordered
  <2>1. \A i \in 1..(m - 1) : k + i - 1 \in 1..n
    BY <1>1, <1>2
  <2>2. \A i, j \in 1..(m - 1) : i < j => k + i - 1 < k + j - 1
    <3>1. k \in Int
      BY <1>1
    <3> HIDE DEF k
    <3> QED BY <3>1
  <2> HIDE DEF k
  <2>3. \A i \in 1..(m - 1) : g[i].time \in Nat /\ g[i].time <= t
    BY <1>3, <2>0, <2>1
  <2>4. \A i \in 1..m : g[i].time <= t + 1
    <3> SUFFICES ASSUME NEW i \in 1..m PROVE g[i].time <= t + 1
      OBVIOUS
    <3>1. CASE i = m
      BY <1>3, <3>1
    <3>2. CASE i # m
      BY <2>3, <3>2
    <3> QED BY <3>1, <3>2
  <2>5. ASSUME NEW i \in 1..m, NEW j \in 1..m, i < j
        PROVE  g[i].time < g[j].time
    <3>1. i \in 1..(m - 1)
      BY <2>5
    <3>2. CASE j = m
      <4>1. g[i].time \in Nat /\ g[i].time <= t
        BY <2>3, <3>1
      <4>2. g[j].time = t + 1
        BY <1>3, <3>2
      <4> QED BY <4>1, <4>2
    <3>3. CASE j # m
      <4>1. j \in 1..(m - 1)
        BY <3>3
      <4>2. old[k + i - 1].time < old[k + j - 1].time
        BY <2>0, <2>1, <2>2, <2>5, <3>1, <4>1
      <4> QED BY <1>3, <3>1, <4>1, <4>2
    <3> QED BY <3>2, <3>3
  <2> QED BY <1>3, <2>4, <2>5 DEF Ordered
<1> QED BY <1>5, <1>6 DEF g

(* A deletion: list and file lose the same entry. *)
LEMMA AgreeDrop ==
  ASSUME NEW old \in Seq(Entry), NEW l \in Seq(Entry), NEW n \in Nat,
         NEW t \in Nat, Agree(l, old, n), Ordered(old, t),
         NEW x \in 1..Len(l)
  PROVE  LET m == Len(l) - 1
             r == Rewritten(Drop(l[x], n - m), old)
         IN  /\ Agree(RemoveAt(l, x), r, m) /\ Ordered(r, t)
<1> USE BoundsAssumption
<1> DEFINE m == Len(l) - 1
           k == n - m
           y == n + 1 - x
           g == Rewritten(Drop(old[y], k), old)
           r == RemoveAt(l, x)
<1>1. /\ Len(old) = n /\ Len(l) \in Nat
      /\ Len(l) = (IF n > MaxHist THEN MaxHist ELSE n)
      /\ \A i \in 1..Len(l) : l[i] = old[n + 1 - i]
  BY DEF Agree
<1>2. /\ k \in 1..n /\ y \in k..n /\ m \in Nat /\ l[x] = old[y] /\ n - k = m
  BY SMTT(40), <1>1
<1>3. /\ r \in Seq(Entry) /\ Len(r) = m
      /\ \A i \in 1..m : r[i] = l[IF i < x THEN i ELSE i + 1]
  BY RemoveAtFacts
<1> HIDE DEF r
<1>4. /\ \A i, j \in 1..n : i < j => old[i].time < old[j].time
      /\ \A i \in 1..n : old[i].time \in Nat /\ old[i].time <= t
  <2>1. \A i \in 1..Len(old) : old[i].time \in Nat
    BY Times
  <2> QED BY <1>1, <2>1 DEF Ordered
<1>5. \A z \in k..n : old[z] = old[y] <=> z = y
  <2> SUFFICES ASSUME NEW z \in k..n, old[z] = old[y] PROVE z = y
    OBVIOUS
  <2>1. z \in 1..n /\ y \in 1..n
    BY <1>2
  <2> HIDE DEF y
  <2>2. ~ (z < y) /\ ~ (y < z)
    BY SMTT(40), <1>4, <2>1
  <2> QED BY <2>1, <2>2
<1>6. /\ g \in Seq(Entry) /\ Len(g) = m
      /\ \A i \in 1..m : g[i] = old[IF k + i - 1 < y THEN k + i - 1 ELSE k + i]
  <2> HIDE DEF k, y, m
  <2> QED BY <1>1, <1>2, <1>5, RewrittenDrop
<1> HIDE DEF g
<1>7. \A i \in 1..m : r[i] = g[m + 1 - i]
  <2> SUFFICES ASSUME NEW i \in 1..m PROVE r[i] = g[m + 1 - i]
    OBVIOUS
  <2> DEFINE j == m + 1 - i
  <2>1. j \in 1..m /\ k + j - 1 = n - i /\ k + j = n + 1 - i
    BY <1>1, <1>2
  <2>2. g[j] = old[IF n - i < y THEN n - i ELSE n + 1 - i]
    <3> HIDE DEF j, k, y, m
    <3> QED BY <1>6, <2>1
  <2>3. n - i < y <=> ~ (i < x)
    BY <1>1, <1>2
  <2>4. i \in 1..Len(l) /\ i + 1 \in 1..Len(l) /\ n + 1 - (i + 1) = n - i
    BY <1>1
  <2>5. l[i] = old[n + 1 - i] /\ l[i + 1] = old[n - i]
    <3>1. l[i + 1] = old[n + 1 - (i + 1)]
      <4>1. \A a \in 1..Len(l) : l[a] = old[n + 1 - a]
        BY <1>1
      <4> QED BY <2>4, <4>1
    <3> QED BY <1>1, <2>4, <3>1
  <2>6. r[i] = l[IF i < x THEN i ELSE i + 1]
    BY <1>3
  <2> HIDE DEF m, y
  <2> QED BY <2>2, <2>3, <2>5, <2>6
<1>8. Agree(r, g, m)
  BY <1>1, <1>2, <1>3, <1>6, <1>7 DEF Agree
<1>9. Ordered(g, t)
  <2> DEFINE h(i) == IF k + i - 1 < y THEN k + i - 1 ELSE k + i
  <2>1. \A i \in 1..m : h(i) \in 1..n
    BY <1>1, <1>2
  <2>2. \A i, j \in 1..m : i < j => h(i) < h(j)
    BY <1>1, <1>2
  <2>3. \A i \in 1..m : g[i] = old[h(i)]
    BY <1>6
  <2> HIDE DEF h, m
  <2> QED BY <1>4, <1>6, <2>1, <2>2, <2>3 DEF Ordered
<1> QED BY <1>2, <1>8, <1>9 DEF g, r

(* What the job of a child makes of the history, from where it has got to, *)
(* with the names n and the files d; and what there will be when the child *)
(* of xmcd's call has ended.                                               *)
HistoryOf(n, d) == IF n.hist # 0 THEN d[n.hist] ELSE <<>>
Base(j, n, d) ==
  IF j.at = "open" THEN d[n.bak]
  ELSE IF j.at \in {"create", "copy"} THEN d[j.in] ELSE HistoryOf(n, d)
After(j, n, d) ==
  IF j.at = "end" THEN HistoryOf(n, d)
  ELSE IF j.op = "append" THEN Append(HistoryOf(n, d), j.add)
  ELSE IF j.op = "rewrite" THEN Rewritten(j, Base(j, n, d)) ELSE <<>>
Result ==
  IF calls[Xmcd] = <<>> THEN file ELSE After(calls[Xmcd][1].job, name, disk)

(* Where a child that nobody disturbs finds its files. *)
Undisturbed(j, n, d) ==
  /\ j.at \in {"start", "link", "unlink"} /\ j.op # "append" => n.hist # 0
  /\ j.at \in {"link", "unlink"} => j.op # "append"
  /\ j.at = "link" => n.bak = 0
  /\ j.at = "unlink" => n.bak = n.hist
  /\ j.at \in {"open", "create", "copy"} => j.op = "rewrite"
  /\ j.at = "open" => n.bak \in File /\ n.hist = 0
  /\ j.at = "create" => j.in \in File /\ n.hist = 0
  /\ j.at = "copy" => /\ j.in \in File /\ j.out \in File /\ j.in # j.out
                      /\ n.hist = j.out /\ d[j.out] = <<>>
  /\ j.at = "write" => /\ j.op = "append" /\ j.out \in File
                       /\ n.hist = j.out

LEMMA ResultPending ==
  ASSUME NEW j, UNCHANGED fileVars, calls'[Xmcd] # <<>>,
         calls'[Xmcd][1].job = j
  PROVE  Result' = After(j, name, disk)
BY DEF Result, After, Base, file, there, fileVars

LEMMA ResultSame ==
  ASSUME UNCHANGED fileVars, calls' = calls
  PROVE  Result' = Result
BY DEF Result, After, Base, file, there, fileVars

(* A child that nobody disturbs gets nearer to what its job makes of the   *)
(* history.                                                                *)
LEMMA ChildUndisturbed ==
  ASSUME TypeOK, NEW p \in Prog, NEW i \in 1..Len(calls[p]),
         Undisturbed(calls[p][i].job, name, disk), Child(p, i)
  PROVE  /\ \A q \in Prog \ {p} : calls'[q] = calls[q]
         /\ Len(calls'[p]) = Len(calls[p]) /\ calls'[p] # <<>>
         /\ UNCHANGED <<time, list, fcnt>>
         /\ Undisturbed(calls'[p][i].job, name', disk')
         /\ After(calls'[p][i].job, name', disk')
                  = After(calls[p][i].job, name, disk)
<1> DEFINE j == calls[p][i].job
<1>1. j \in Job /\ name \in Names /\ disk \in Disks
  BY JobOf DEF TypeOK, Names, Disks
<1>2. Undisturbed(j, name, disk)
  OBVIOUS
<1>3. name.hist \in File \cup {0} /\ name.bak \in File \cup {0} /\ 0 \notin File
  BY <1>1, ZeroIsNoFile DEF Names
(* What is to be shown of its step.                                        *)
<1>4. ASSUME NEW k \in Job, NEW n \in Names, NEW d \in Disks,
             Step(p, i, k, n, d), k.add = j.add, Undisturbed(k, name', disk'),
             After(k, name', disk') = After(j, name, disk)
      PROVE  /\ \A q \in Prog \ {p} : calls'[q] = calls[q]
             /\ Len(calls'[p]) = Len(calls[p]) /\ calls'[p] # <<>>
             /\ UNCHANGED <<time, list, fcnt>>
             /\ Undisturbed(calls'[p][i].job, name', disk')
             /\ After(calls'[p][i].job, name', disk')
                  = After(calls[p][i].job, name, disk)
  <2>1. /\ \A q \in Prog \ {p} : calls'[q] = calls[q]
        /\ Len(calls'[p]) = Len(calls[p]) /\ calls' \in [Prog -> Seq(Call)]
        /\ calls'[p][i] = [fn |-> calls[p][i].fn, job |-> k]
        /\ UNCHANGED <<time, list, fcnt>>
    BY <1>4, StepFacts
  <2>2. calls'[p][i].job = k
    BY <2>1
  <2>3. calls'[p] # <<>>
    <3>1. Len(calls'[p]) # 0
      BY <2>1 DEF TypeOK
    <3> QED BY <3>1
  <2>4. Undisturbed(calls'[p][i].job, name', disk')
    BY <1>4, <2>2 DEF Undisturbed
  <2>5. After(calls'[p][i].job, name', disk') = After(k, name', disk')
    BY <2>2
  <2> QED BY <1>4, <2>1, <2>3, <2>4, <2>5
<1>5. \A k \in Job, n \in Names, d \in Disks :
        Step(p, i, k, n, d) /\ k.add = j.add =>
          /\ name' = n
          /\ \A f \in File \cap {n.hist, n.bak, k.in, k.out} : disk'[f] = d[f]
  <2> SUFFICES ASSUME NEW k \in Job, NEW n \in Names, NEW d \in Disks,
                      Step(p, i, k, n, d), k.add = calls[p][i].job.add
               PROVE  /\ name' = n
                      /\ \A f \in File \cap {n.hist, n.bak, k.in, k.out} :
                           disk'[f] = d[f]
    BY DEF j
  <2>1. name' = n
    BY DEF Step
  <2>2. \A f \in File \cap {n.hist, n.bak, k.in, k.out} : disk'[f] = d[f]
    <3> SUFFICES ASSUME NEW f \in File, f \in {n.hist, n.bak, k.in, k.out}
                 PROVE  disk'[f] = d[f]
      OBVIOUS
    <3>1. calls'[p][i] = [fn |-> calls[p][i].fn, job |-> k]
          /\ Len(calls'[p]) = Len(calls[p])
      BY StepFacts
    <3>2. f \in Used(n, calls')
      BY <3>1 DEF Used
    <3>3. disk' = [g \in File |-> IF g \in Used(n, calls') THEN d[g] ELSE <<>>]
      BY DEF Step
    <3> QED BY <3>2, <3>3
  <2> QED BY <2>1, <2>2
<1> HIDE DEF j
<1>6. CASE Unlink(p, i, j)
  <2> DEFINE K == [j EXCEPT !.at = "link"]
             N == [name EXCEPT !.bak = 0]
  <2>1. /\ K \in Job /\ K.op = j.op /\ K.add = j.add /\ K.del = j.del
        /\ K.skip = j.skip /\ K.at = "link" /\ N \in Names
        /\ N.hist = name.hist /\ N.bak = 0
    BY <1>1 DEF Job, Names
  <2>2. Step(p, i, K, N, disk) /\ j.at = "start" /\ j.op # "append"
    BY <1>6 DEF Unlink
  <2> HIDE DEF K, N
  <2>3. name' = N /\ (name.hist \in File => disk'[name.hist] = disk[name.hist])
    BY <1>1, <1>5, <2>1, <2>2
  <2>4. HistoryOf(name', disk') = HistoryOf(name, disk) /\ name'.hist = name.hist
    BY <1>3, <2>1, <2>3 DEF HistoryOf, there
  <2>5. Undisturbed(K, name', disk')
    BY <1>2, <2>1, <2>2, <2>3, <2>4 DEF Undisturbed
  <2>6. After(K, name', disk') = After(j, name, disk)
    BY <2>1, <2>2, <2>4 DEF After, Base, Rewritten
  <2> QED BY <1>1, <1>4, <2>1, <2>2, <2>5, <2>6
<1>7. CASE Link(p, i, j)
  <2> DEFINE K == [j EXCEPT !.at = "unlink"]
             N == [name EXCEPT !.bak = name.hist]
  <2>1. /\ j.at = "link" /\ j.op # "append" /\ name.bak = 0
        /\ name.hist \in File
    BY <1>2, <1>3, <1>7 DEF Link, Undisturbed
  <2>2. /\ K \in Job /\ K.op = j.op /\ K.add = j.add /\ K.del = j.del
        /\ K.skip = j.skip /\ K.at = "unlink" /\ N \in Names
        /\ N.hist = name.hist /\ N.bak = name.hist
    BY <1>1 DEF Job, Names
  <2>3. Step(p, i, K, N, disk)
    BY <1>3, <1>7, <2>1 DEF Link, there
  <2> HIDE DEF K, N
  <2>4. name' = N /\ disk'[name.hist] = disk[name.hist]
    BY <1>1, <1>5, <2>1, <2>2, <2>3
  <2>5. HistoryOf(name', disk') = HistoryOf(name, disk)
    BY <2>2, <2>4 DEF HistoryOf
  <2>6. Undisturbed(K, name', disk')
    BY <1>3, <2>1, <2>2, <2>4 DEF Undisturbed
  <2>7. After(K, name', disk') = After(j, name, disk)
    BY <2>1, <2>2, <2>5 DEF After, Base, Rewritten
  <2> QED BY <1>1, <1>4, <2>2, <2>3, <2>6, <2>7
<1>13. CASE UnlinkOld(p, i, j)
  <2>1. j.at = "unlink" /\ j.op \in {"rewrite", "clear"}
        /\ name.hist \in File /\ name.bak = name.hist
    <3>1. j.at = "unlink" /\ j.op \in {"append", "rewrite", "clear"}
      BY <1>1, <1>13 DEF UnlinkOld, Job
    <3> QED BY <1>2, <1>3, <3>1 DEF Undisturbed
  <2> DEFINE N == [name EXCEPT !.hist = 0]
  <2>2. N \in Names /\ N.hist = 0 /\ N.bak = name.hist
    BY <1>1, <2>1 DEF Names
  <2>3. CASE j.op = "rewrite"
    <3> DEFINE K == [j EXCEPT !.at = "open"]
    <3>1. /\ K \in Job /\ K.op = j.op /\ K.add = j.add /\ K.del = j.del
          /\ K.skip = j.skip /\ K.at = "open"
      BY <1>1 DEF Job
    <3>2. Step(p, i, K, N, disk)
      BY <1>13, <2>3 DEF UnlinkOld
    <3> HIDE DEF K, N
    <3>3. name' = N /\ disk'[name.hist] = disk[name.hist]
      BY <1>1, <1>5, <2>1, <2>2, <3>1, <3>2
    <3>4. Undisturbed(K, name', disk')
      BY <2>1, <2>2, <2>3, <3>1, <3>3 DEF Undisturbed
    <3>5. After(K, name', disk') = After(j, name, disk)
      BY <1>3, <2>1, <2>2, <2>3, <3>1, <3>3 DEF After, Base, Rewritten, HistoryOf
    <3> QED BY <1>1, <1>4, <2>2, <3>1, <3>2, <3>4, <3>5
  <2>4. CASE j.op = "clear"
    <3> DEFINE K == Done(j)
    <3>1. K \in Job /\ K.add = j.add /\ K.at = "end"
      BY <1>1, DoneIsJob
    <3>2. Step(p, i, K, N, disk)
      BY <1>13, <2>4 DEF UnlinkOld
    <3> HIDE DEF K, N
    <3>3. name' = N
      BY <1>1, <1>5, <2>2, <3>1, <3>2
    <3>4. Undisturbed(K, name', disk')
      BY <3>1 DEF Undisturbed
    <3>5. After(K, name', disk') = After(j, name, disk)
      BY <2>1, <2>2, <2>4, <3>1, <3>3 DEF After, HistoryOf
    <3> QED BY <1>1, <1>4, <2>2, <3>1, <3>2, <3>4, <3>5
  <2> QED BY <2>1, <2>3, <2>4
<1>8. CASE OpenBak(p, i, j)
  <2> DEFINE K == [j EXCEPT !.at = "create", !.in = name.bak]
  <2>1. j.at = "open" /\ name.bak \in File /\ ~there /\ j.op = "rewrite"
    BY <1>2, <1>8 DEF OpenBak, Undisturbed, there
  <2>2. /\ K \in Job /\ K.op = j.op /\ K.add = j.add /\ K.del = j.del
        /\ K.skip = j.skip /\ K.at = "create" /\ K.in = name.bak
    BY <1>1, <1>3, <2>1 DEF Job
  <2>3. Step(p, i, K, name, disk)
    BY <1>3, <1>8, <2>1 DEF OpenBak
  <2> HIDE DEF K
  <2>4. name' = name /\ disk'[name.bak] = disk[name.bak]
    BY <1>1, <1>5, <2>1, <2>2, <2>3
  <2>5. Undisturbed(K, name', disk')
    BY <2>1, <2>2, <2>4 DEF Undisturbed, there
  <2>6. After(K, name', disk') = After(j, name, disk)
    BY <2>1, <2>2, <2>4 DEF After, Base, Rewritten
  <2> QED BY <1>1, <1>4, <2>2, <2>3, <2>5, <2>6
<1>9. CASE Create(p, i, j)
  <2> DEFINE K == [j EXCEPT !.at = "copy", !.out = Opened]
             N == [name EXCEPT !.hist = Opened]
             D == [disk EXCEPT ![Opened] = <<>>]
  <2>1. j.at = "create" /\ j.in \in File /\ ~there /\ j.op = "rewrite"
    BY <1>2, <1>9 DEF Create, Undisturbed, there
  <2>2. Opened \in File /\ Opened # j.in
    <3>1. Opened \in Unused
      BY <1>9, <2>1, OpenedFacts DEF Create
    <3>2. j.in \in Used(name, calls)
      BY <2>1 DEF Used, j
    <3> QED BY <3>1, <3>2 DEF Unused
  <2>3. /\ K \in Job /\ K.op = j.op /\ K.add = j.add /\ K.del = j.del
        /\ K.skip = j.skip /\ K.at = "copy" /\ K.in = j.in /\ K.out = Opened
        /\ N \in Names /\ N.hist = Opened /\ D \in Disks
        /\ D[Opened] = <<>> /\ D[j.in] = disk[j.in]
    <3>1. K \in Job
      BY <1>1, <1>3, <2>1, <2>2 DEF Job
    <3>2. N \in Names /\ N.hist = Opened
      BY <1>1, <2>2 DEF Names
    <3>3. D \in Disks /\ D[Opened] = <<>> /\ D[j.in] = disk[j.in]
      BY <1>1, <2>1, <2>2 DEF Disks
    <3>4. /\ K.op = j.op /\ K.add = j.add /\ K.del = j.del
          /\ K.skip = j.skip /\ K.at = "copy" /\ K.in = j.in /\ K.out = Opened
      BY <1>1 DEF Job
    <3> QED BY <3>1, <3>2, <3>3, <3>4
  <2>4. Step(p, i, K, N, D)
    BY <1>9 DEF Create
  <2> HIDE DEF K, N, D
  <2>5. name' = N /\ disk'[Opened] = <<>> /\ disk'[j.in] = disk[j.in]
    BY <1>5, <2>1, <2>2, <2>3, <2>4
  <2>6. Undisturbed(K, name', disk')
    BY <2>1, <2>2, <2>3, <2>5 DEF Undisturbed, there
  <2>7. After(K, name', disk') = After(j, name, disk)
    BY <2>1, <2>3, <2>5 DEF After, Base, Rewritten
  <2> QED BY <1>1, <1>4, <2>3, <2>4, <2>6, <2>7
<1>10. CASE Copy(p, i, j)
  <2> DEFINE K == Done(j)
             r == Rewritten(j, disk[j.in])
             d == [disk EXCEPT ![j.out] = Over(@, r)]
  <2>1. /\ j.at = "copy" /\ j.in \in File /\ j.out \in File /\ j.op = "rewrite"
        /\ name.hist = j.out /\ disk[j.out] = <<>>
    BY <1>2, <1>10 DEF Copy, Undisturbed
  <2>2. r \in Seq(Entry)
    <3>1. disk[j.in] \in Seq(Entry)
      BY <1>1, <2>1 DEF Disks
    <3> QED BY <1>1, <3>1, RewrittenFacts
  <2>3. Over(disk[j.out], r) = r
    <3> HIDE DEF r
    <3>1. disk[j.out] \in Seq(Entry)
      BY <1>1, <2>1 DEF Disks
    <3> QED BY <2>1, <2>2, <3>1, OverFacts
  <2>4. d \in Disks /\ d[j.out] = r
    <3> HIDE DEF r
    <3> QED BY <1>1, <2>1, <2>2, <2>3 DEF Disks
  <2>5. K \in Job /\ K.add = j.add /\ K.at = "end"
    BY <1>1, DoneIsJob
  <2>6. Step(p, i, K, name, d)
    BY <1>10 DEF Copy
  <2>7. After(j, name, disk) = r
    BY <2>1 DEF After, Base
  <2> HIDE DEF K, r, d
  <2>8. name' = name /\ disk'[j.out] = r
    BY <1>1, <1>5, <2>1, <2>4, <2>5, <2>6
  <2>9. Undisturbed(K, name', disk')
    BY <2>5 DEF Undisturbed, there
  <2>10. After(K, name', disk') = After(j, name, disk)
    BY <1>3, <2>1, <2>5, <2>7, <2>8 DEF After, HistoryOf, there
  <2> QED BY <1>1, <1>4, <2>4, <2>5, <2>6, <2>9, <2>10
<1>11. CASE OpenEnd(p, i, j)
  <2> DEFINE K == [j EXCEPT !.at = "write", !.out = Opened]
             N == [name EXCEPT !.hist = Opened]
             D == IF there THEN disk ELSE [disk EXCEPT ![Opened] = <<>>]
  <2>1. j.at = "start" /\ j.op = "append"
    BY <1>11 DEF OpenEnd
  <2>2. Opened \in File /\ (there => Opened = name.hist)
    BY <1>11, OpenedFacts DEF OpenEnd
  <2>3. /\ K \in Job /\ K.op = j.op /\ K.add = j.add /\ K.at = "write"
        /\ K.out = Opened /\ N \in Names /\ N.hist = Opened /\ D \in Disks
        /\ D[Opened] = HistoryOf(name, disk)
    <3>1. K \in Job /\ K.op = j.op /\ K.add = j.add /\ K.at = "write"
          /\ K.out = Opened
      BY <1>1, <1>3, <2>1, <2>2 DEF Job
    <3>2. N \in Names /\ N.hist = Opened
      BY <1>1, <2>2 DEF Names
    <3>3. D \in Disks /\ D[Opened] = HistoryOf(name, disk)
      BY <1>1, <2>2 DEF Disks, HistoryOf, there
    <3> QED BY <3>1, <3>2, <3>3
  <2>4. Step(p, i, K, N, D)
    BY <1>11 DEF OpenEnd
  <2> HIDE DEF K, N, D
  <2>5. name' = N /\ disk'[Opened] = HistoryOf(name, disk)
    BY <1>5, <2>2, <2>3, <2>4
  <2>6. name'.hist # 0 /\ HistoryOf(name', disk') = HistoryOf(name, disk)
    BY <1>3, <2>2, <2>3, <2>5 DEF HistoryOf, there
  <2>7. Undisturbed(K, name', disk')
    BY <2>1, <2>2, <2>3, <2>5 DEF Undisturbed, there
  <2>8. After(K, name', disk') = After(j, name, disk)
    BY <2>1, <2>3, <2>6 DEF After
  <2> QED BY <1>1, <1>4, <2>3, <2>4, <2>7, <2>8
<1>12. CASE WriteEnd(p, i, j)
  <2> DEFINE K == Done(j)
             D == [disk EXCEPT ![j.out] = Append(@, j.add)]
  <2>1. /\ j.at = "write" /\ j.op = "append" /\ j.out \in File
        /\ name.hist = j.out /\ j.add \in Entry
    BY <1>1, <1>2, <1>12 DEF WriteEnd, Undisturbed, Job
  <2>2. D \in Disks /\ D[j.out] = Append(disk[j.out], j.add)
    <3>1. disk[j.out] \in Seq(Entry)
      BY <1>1, <2>1 DEF Disks
    <3>2. Append(disk[j.out], j.add) \in Seq(Entry)
      BY <2>1, <3>1, AppendProperties
    <3> QED BY <1>1, <2>1, <3>2 DEF Disks
  <2>3. K \in Job /\ K.add = j.add /\ K.at = "end"
    BY <1>1, DoneIsJob
  <2>4. Step(p, i, K, name, D)
    BY <1>12 DEF WriteEnd
  <2> HIDE DEF K, D
  <2>5. name' = name /\ disk'[j.out] = Append(disk[j.out], j.add)
    BY <1>1, <1>5, <2>1, <2>2, <2>3, <2>4
  <2>6. Undisturbed(K, name', disk')
    BY <2>3 DEF Undisturbed, there
  <2>7. After(K, name', disk') = After(j, name, disk)
    BY <1>3, <2>1, <2>3, <2>5 DEF After, HistoryOf, there
  <2> QED BY <1>1, <1>4, <2>2, <2>3, <2>4, <2>6, <2>7
<1> QED BY <1>6, <1>7, <1>8, <1>9, <1>10, <1>11, <1>12, <1>13 DEF Child, j


(* With xmcd alone, and children that do their work.                       *)
AloneInv ==
  env \subseteq {"still"} =>
    /\ \A p \in Prog \ {Xmcd} : calls[p] = <<>>
    /\ Len(calls[Xmcd]) <= 1
    /\ calls[Xmcd] # <<>> => Undisturbed(calls[Xmcd][1].job, name, disk)
    /\ Agree(list[Xmcd], Result, fcnt[Xmcd])
    /\ Ordered(Result, time)

LEMMA NextKeepsAlone ==
  ASSUME TypeOK, TypeOK', AloneInv, [Next]_vars
  PROVE  AloneInv'
<1> USE ProgAssumption
<1>0. env' = env
  BY EnvStays
<1> SUFFICES ASSUME env \subseteq {"still"}, env' = env PROVE AloneInv'
  BY <1>0 DEF AloneInv
<1>a. /\ \A p \in Prog \ {Xmcd} : calls[p] = <<>>
      /\ Len(calls[Xmcd]) <= 1
      /\ calls[Xmcd] # <<>> => Undisturbed(calls[Xmcd][1].job, name, disk)
      /\ Agree(list[Xmcd], Result, fcnt[Xmcd])
      /\ Ordered(Result, time)
  BY DEF AloneInv
<1>b. /\ "share" \notin env /\ "nest" \notin env /\ "come" \notin env
      /\ "fail" \notin env
  OBVIOUS
<1>c. /\ file \in Seq(Entry) /\ list[Xmcd] \in Seq(Entry) /\ fcnt[Xmcd] \in Nat
      /\ time \in Nat /\ calls[Xmcd] \in Seq(Call)
      /\ fcnt \in [Prog -> Nat]
  BY FileType DEF TypeOK
<1>d. calls[Xmcd] = <<>> => Result = file
  BY DEF Result
(* What is to be shown of an action that starts a child. *)
<1>e. ASSUME NEW f \in {"add", "del", "delall"}, NEW j \in Job,
             f = "add" => j.add # NoEntry, j.at = "start",
             calls[Xmcd] = <<>>, Wait(Xmcd, f, j), UNCHANGED fileVars,
             j.op # "append" => file # <<>>,
             Agree(list[Xmcd]', After(j, name, disk), fcnt[Xmcd]'),
             Ordered(After(j, name, disk), time')
      PROVE  AloneInv'
  <2>1. /\ \A q \in Prog \ {Xmcd} : calls'[q] = calls[q]
        /\ Len(calls'[Xmcd]) = 1 /\ calls'[Xmcd][1] = [fn |-> f, job |-> j]
    <3>1. /\ \A q \in Prog \ {Xmcd} : calls'[q] = calls[q]
          /\ Len(calls'[Xmcd]) = Len(calls[Xmcd]) + 1
          /\ calls'[Xmcd][1] = [fn |-> f, job |-> j]
      <4>1. Wait(Xmcd, f, j) /\ (f = "add" => j.add # NoEntry)
        BY <1>e
      <4> QED BY <4>1, WaitFacts
    <3>2. Len(calls[Xmcd]) = 0
      BY <1>e
    <3> QED BY <3>1, <3>2
  <2>2. file' = file /\ there' = there
    BY <1>e DEF fileVars, file, there
  <2>3. calls'[Xmcd] # <<>> /\ calls'[Xmcd][1].job = j
    BY <2>1
  <2>4. Result' = After(j, name, disk)
    BY <1>e, <2>3, ResultPending
  <2>5. /\ Agree(list[Xmcd]', Result', fcnt[Xmcd]')
        /\ Ordered(Result', time')
    BY <1>e, <2>4
  <2>6. \A p \in Prog \ {Xmcd} : calls'[p] = <<>>
    BY <1>a, <2>1
  <2>7. Undisturbed(calls'[Xmcd][1].job, name', disk')
    <3>1. j.op # "append" => there
      BY <1>e DEF file
    <3> QED BY <1>e, <2>2, <2>3, <3>1 DEF Undisturbed, there
  <2> QED BY <2>1, <2>5, <2>6, <2>7 DEF AloneInv
(* And of one that leaves all of this alone. *)
<1>f. ASSUME UNCHANGED <<time, fileVars, list, fcnt, calls>> PROVE AloneInv'
  <2>1. Result' = Result
    BY <1>f, ResultSame
  <2>2. calls[Xmcd] # <<>> => Undisturbed(calls'[Xmcd][1].job, name', disk')
    BY <1>a, <1>f DEF Undisturbed, fileVars
  <2> QED BY <1>a, <1>f, <2>1, <2>2 DEF AloneInv
<1>1. CASE UNCHANGED vars
  BY <1>1, <1>f DEF vars
<1>2. CASE Delete
  <2> DEFINE old == list[Xmcd]
             i   == dlist_pos
             m   == Len(old) - 1
  <2>1. CASE i <= Len(old)
    <3>1. /\ calls[Xmcd] = <<>> /\ i \in 1..Len(old)
      BY <1>2, <1>b, <2>1 DEF Delete, Free, TypeOK
    <3>2. Agree(old, file, fcnt[Xmcd]) /\ Ordered(file, time)
      BY <1>a, <1>d, <3>1
    <3>3. /\ list' = [list EXCEPT ![Xmcd] = RemoveAt(old, i)]
          /\ fcnt' = [fcnt EXCEPT ![Xmcd] = m]
          /\ Wait(Xmcd, "del", Drop(old[i], fcnt[Xmcd] - m))
          /\ UNCHANGED fileVars /\ time' = time
      BY <1>2, <1>c, <2>1, <3>1 DEF Delete
    <3>4. list'[Xmcd] = RemoveAt(old, i) /\ fcnt'[Xmcd] = m
      BY <3>3 DEF TypeOK
    <3>5. PICK j \in Job : j = Drop(old[i], fcnt[Xmcd] - m)
      <4>1. old[i] \in Entry /\ fcnt[Xmcd] - m \in Int
        BY <1>c, <3>1
      <4> QED BY <4>1, JobTypes
    <3>6. LET r == Rewritten(Drop(old[i], fcnt[Xmcd] - m), file)
          IN  Agree(RemoveAt(old, i), r, m) /\ Ordered(r, time)
      BY <1>c, <3>1, <3>2, AgreeDrop
    <3>7. /\ After(j, name, disk) = Rewritten(Drop(old[i], fcnt[Xmcd] - m), file)
          /\ j.op = "rewrite" /\ j.at = "start"
      BY <3>5 DEF After, Base, HistoryOf, file, there, Drop, NewJob
    <3>8. file # <<>>
      BY <1>c, <3>1, <3>2 DEF Agree
    <3> HIDE DEF old, i, m
    <3> QED BY <1>e, <3>1, <3>3, <3>4, <3>5, <3>6, <3>7, <3>8
  <2>2. CASE ~ (i <= Len(old))
    BY <1>2, <1>f, <2>2 DEF Delete
  <2> QED BY <2>1, <2>2
<1>3. CASE DeleteAll
  <2>1. calls[Xmcd] = <<>> /\ list[Xmcd] # <<>>
    BY <1>3, <1>b DEF DeleteAll, Free
  <2>2. PICK j \in Job : j = Clear
    BY JobTypes
  <2>3. After(j, name, disk) = <<>> /\ j.op = "clear" /\ j.at = "start"
    BY <2>2 DEF After, Clear, NewJob
  <2>4. list'[Xmcd] = <<>> /\ fcnt'[Xmcd] = 0
    BY <1>3 DEF DeleteAll, TypeOK
  <2>5. /\ Wait(Xmcd, "delall", j) /\ UNCHANGED fileVars /\ time' = time
    BY <1>3, <2>2 DEF DeleteAll
  <2>6. Agree(list'[Xmcd], <<>>, fcnt'[Xmcd]) /\ Ordered(<<>>, time')
    BY <2>4, BoundsAssumption DEF Agree, Ordered
  <2>7. file # <<>>
    <3>1. Len(list[Xmcd]) # 0
      BY <1>c, <2>1
    <3>2. Agree(list[Xmcd], file, fcnt[Xmcd])
      BY <1>a, <1>d, <2>1
    <3> QED BY <1>c, <3>1, <3>2, BoundsAssumption DEF Agree
  <2> QED BY <1>e, <2>1, <2>3, <2>5, <2>6, <2>7
<1>4. CASE Rescan
  <2>1. calls[Xmcd] = <<>> /\ calls' = calls /\ UNCHANGED fileVars /\ time' = time
    BY <1>4, <1>b DEF Rescan, Load, Free
  <2>2. list'[Xmcd] = Newest /\ fcnt'[Xmcd] = Len(file)
    BY <1>4 DEF Rescan, Load, TypeOK
  <2>3. Result' = file /\ Result = file
    BY <1>d, <2>1, ResultSame
  <2>4. Agree(Newest, file, Len(file))
    <3>1. /\ Len(Newest) = (IF Len(file) > MaxHist THEN MaxHist ELSE Len(file))
          /\ \A i \in 1..Len(Newest) : Newest[i] = file[Len(file) + 1 - i]
      BY <1>c, NewestFacts
    <3>2. Agree(list[Xmcd], file, fcnt[Xmcd])
      BY <1>a, <2>3
    <3> QED BY <3>1, <3>2 DEF Agree
  <2>5. calls'[Xmcd] = <<>>
    BY <2>1
  <2> QED BY <1>a, <2>1, <2>2, <2>3, <2>4, <2>5 DEF AloneInv
<1>5. CASE Open
  BY <1>5, <1>f DEF Open
<1>6. CASE Changer
  BY <1>6, <1>f DEF Changer
<1>7. CASE Select
  BY <1>7, <1>f DEF Select
<1>8. ASSUME NEW p \in Prog, NEW d \in Disc, Add(p, d) PROVE AloneInv'
  <2> DEFINE e == [disc |-> d, time |-> time + 1]
             l == list[Xmcd]
             n == fcnt[Xmcd]
             m == IF Len(l) = MaxHist THEN MaxHist ELSE Len(l) + 1
  <2>1. p = Xmcd /\ calls[Xmcd] = <<>>
    BY <1>8, <1>a, <1>b DEF Add, Runs, Comes, Free
  <2>2. /\ e \in Entry /\ m \in Nat /\ list'[Xmcd] \in Seq(Entry)
        /\ Len(list'[Xmcd]) = m /\ list'[Xmcd][1] = e
        /\ \A k \in 2..m : list'[Xmcd][k] = l[k - 1]
    BY <1>8, <2>1, AddFacts
  <2>3. Agree(l, file, n) /\ Ordered(file, time)
    BY <1>a, <1>d, <2>1
  <2>4. e.time = time + 1 /\ time' = time + 1 /\ UNCHANGED fileVars
    BY <1>8 DEF Add
  <2>5. IF n + 1 - m > HIST_HYST
          THEN /\ fcnt' = [fcnt EXCEPT ![Xmcd] = m]
               /\ Wait(Xmcd, "add", Rewrite(e, n + 1 - m + 1))
          ELSE /\ fcnt' = [fcnt EXCEPT ![Xmcd] = @ + 1]
               /\ Wait(Xmcd, "add", AppendJob(e))
    BY <1>8, <2>1 DEF Add
  <2>6. e # NoEntry
    BY <2>2, NoEntryIsNone
  <2>7. m = (IF Len(l) = MaxHist THEN MaxHist ELSE Len(l) + 1)
    OBVIOUS
  <2>8. n \in Nat /\ l \in Seq(Entry) /\ n + 1 - m + 1 \in Int
    BY SMTT(40), <1>c, <2>2
  <2> HIDE DEF e, l, n, m
  <2>9. CASE n + 1 - m > HIST_HYST
    <3>1. fcnt'[Xmcd] = m
      BY <1>c, <2>5, <2>9
    <3>2. PICK j \in Job : j = Rewrite(e, n + 1 - m + 1)
      BY <2>2, <2>8, JobTypes
    <3>3. j.op = "rewrite" /\ j.add = e /\ j.at = "start"
      BY <3>2 DEF Rewrite, NewJob
    <3>4. After(j, name, disk) = Rewritten(Rewrite(e, n + 1 - m + 1), file)
      BY <3>2, <3>3 DEF After, Base, HistoryOf, file, there
    <3>5. Agree(list'[Xmcd], After(j, name, disk), m) /\ Ordered(After(j, name, disk), time')
      <4>1. LET r == Rewritten(Rewrite(e, n + 1 - m + 1), file)
            IN  Agree(list'[Xmcd], r, m) /\ Ordered(r, time + 1)
        BY <1>c, <2>2, <2>3, <2>4, <2>7, <2>8, <2>9, AgreeCut
      <4> QED BY <2>4, <3>4, <4>1
    <3>6. file # <<>>
      <4>1. n > 0
        <5>1. m \in Nat \ {0}
          BY <2>7, <2>8, BoundsAssumption
        <5> QED BY <2>8, <2>9, <5>1, BoundsAssumption
      <4> QED BY <2>3, <4>1 DEF Agree
    <3> QED BY <1>e, <2>1, <2>4, <2>5, <2>6, <2>9, <3>1, <3>2, <3>3, <3>5, <3>6
  <2>10. CASE ~ (n + 1 - m > HIST_HYST)
    <3>1. fcnt'[Xmcd] = n + 1
      BY <1>c, <2>5, <2>10 DEF n
    <3>2. PICK j \in Job : j = AppendJob(e)
      BY <2>2, JobTypes
    <3>3. j.op = "append" /\ j.add = e /\ j.at = "start"
      BY <3>2 DEF AppendJob, NewJob
    <3>4. After(j, name, disk) = Append(file, e)
      BY <3>3 DEF After, HistoryOf, file, there
    <3>5. n + 1 - m <= HIST_HYST
      BY <2>2, <2>8, <2>10, BoundsAssumption
    <3>6. Agree(list'[Xmcd], After(j, name, disk), n + 1) /\ Ordered(After(j, name, disk), time')
      <4> DEFINE g == After(j, name, disk)
      <4>0. g = Append(file, e)
        BY <3>4
      <4> HIDE DEF g
      <4>1. Agree(list'[Xmcd], g, n + 1) /\ Ordered(g, time + 1)
        <5>1. /\ l \in Seq(Entry) /\ file \in Seq(Entry) /\ n \in Nat
              /\ list'[Xmcd] \in Seq(Entry) /\ time \in Nat /\ e \in Entry
              /\ e.time = time + 1 /\ Agree(l, file, n) /\ Ordered(file, time)
              /\ m \in Nat
              /\ m = (IF Len(l) = MaxHist THEN MaxHist ELSE Len(l) + 1)
              /\ Len(list'[Xmcd]) = m /\ list'[Xmcd][1] = e
              /\ \A k \in 2..m : list'[Xmcd][k] = l[k - 1]
              /\ n + 1 - m <= HIST_HYST /\ g = Append(file, e)
          BY <1>c, <2>2, <2>3, <2>4, <2>7, <2>8, <3>5, <4>0
        <5> QED BY ONLY ZenonT(60), <5>1, AgreeAppend
      <4> QED BY <2>4, <4>1 DEF g
    <3> QED BY <1>e, <2>1, <2>4, <2>5, <2>6, <2>10, <3>1, <3>2, <3>3, <3>6
  <2> QED BY <2>9, <2>10
<1>9. ASSUME NEW p \in Prog, NEW i \in 1..Len(calls[p]),
             Child(p, i) \/ ChildFails(p, i)
      PROVE  AloneInv'
  <2>1. p = Xmcd /\ i = 1 /\ Child(p, i) /\ calls[Xmcd] # <<>>
    <3>1. Child(p, i)
      BY <1>9, <1>b DEF ChildFails
    <3>2. p = Xmcd
      <4>1. Len(calls[p]) # 0
        BY DEF TypeOK
      <4> QED BY <1>a, <4>1
    <3> QED BY <1>a, <1>c, <3>1, <3>2
  <2> DEFINE j == calls[Xmcd][1].job
  <2>2. 1 \in 1..Len(calls[Xmcd]) /\ Undisturbed(j, name, disk) /\ Result = After(j, name, disk)
    BY <1>a, <2>1 DEF Result
  <2>3. /\ \A q \in Prog \ {Xmcd} : calls'[q] = calls[q]
        /\ Len(calls'[Xmcd]) = Len(calls[Xmcd]) /\ calls'[Xmcd] # <<>>
        /\ UNCHANGED <<time, list, fcnt>>
        /\ Undisturbed(calls'[Xmcd][1].job, name', disk')
        /\ After(calls'[Xmcd][1].job, name', disk') = After(j, name, disk)
    BY <2>1, <2>2, ChildUndisturbed
  <2>4. Result' = Result
    BY <2>2, <2>3 DEF Result
  <2> QED BY <1>a, <2>3, <2>4 DEF AloneInv
<1>10. ASSUME NEW p \in Prog, Return(p) PROVE AloneInv'
  <2>1. p = Xmcd
    BY <1>10, <1>a DEF Return
  <2>2. /\ \A q \in Prog \ {Xmcd} : calls'[q] = calls[q]
        /\ Len(calls[Xmcd]) \in Nat \ {0} /\ calls[Xmcd][1].job.at = "end"
        /\ Len(calls'[Xmcd]) = Len(calls[Xmcd]) - 1
        /\ calls'[Xmcd] \in Seq(Call)
    BY <1>10, <2>1, ReturnFacts
  <2>3. calls'[Xmcd] = <<>> /\ calls[Xmcd] # <<>>
    BY <1>a, <1>c, <2>2
  <2>5. UNCHANGED <<time, fileVars, list, fcnt>>
    BY <1>10 DEF Return
  <2>4. Result' = Result
    BY <2>2, <2>3, <2>5 DEF Result, After, HistoryOf, file, there, fileVars
  <2>6. Len(calls'[Xmcd]) <= 1
    BY <2>3
  <2> QED BY <1>a, <2>2, <2>3, <2>4, <2>5, <2>6 DEF AloneInv
<1>11. ASSUME NEW p \in Prog, Start(p) PROVE AloneInv'
  BY <1>11, <1>b DEF Start, Runs
<1> QED BY <1>1, <1>2, <1>3, <1>4, <1>5, <1>6, <1>7, <1>8, <1>9, <1>10, <1>11
        DEF Next, Window

(* As long as one program runs and its children do their work, the list in *)
(* core is what a start would read from the file, which is never longer by *)
(* more than HIST_HYST.                                                    *)
THEOREM FileAgreesHolds == Spec => []FileAgrees
<1>1. Init => AloneInv
  <2> SUFFICES ASSUME Init PROVE AloneInv
    OBVIOUS
  <2>1. /\ file = <<>> /\ list[Xmcd] = <<>> /\ fcnt[Xmcd] = 0
        /\ \A p \in Prog : calls[p] = <<>>
    BY ProgAssumption DEF Init, file, there
  <2>2. Result = <<>> /\ calls[Xmcd] = <<>> /\ Len(<<>>) = 0
    BY <2>1, ProgAssumption DEF Result
  <2>3. Agree(<<>>, <<>>, 0) /\ Ordered(<<>>, time)
    BY <2>2, BoundsAssumption DEF Agree, Ordered
  <2> QED BY <2>1, <2>2, <2>3 DEF AloneInv
<1>2. TypeOK /\ TypeOK' /\ AloneInv /\ [Next]_vars => AloneInv'
  BY NextKeepsAlone
<1>3. TypeOK /\ AloneInv => FileAgrees
  <2> SUFFICES ASSUME TypeOK, AloneInv, env \subseteq {"still"}, Idle(Xmcd)
               PROVE  /\ Newest = list[Xmcd] /\ Len(file) = fcnt[Xmcd]
                      /\ Len(file) <= Len(list[Xmcd]) + HIST_HYST
    BY DEF FileAgrees
  <2>1. Agree(list[Xmcd], file, fcnt[Xmcd])
    BY DEF AloneInv, Idle, Result
  <2>2. list[Xmcd] \in Seq(Entry)
    BY ProgAssumption DEF TypeOK
  <2>3. /\ Newest \in Seq(Entry)
        /\ Len(Newest) = (IF Len(file) > MaxHist THEN MaxHist ELSE Len(file))
        /\ \A i \in 1..Len(Newest) : Newest[i] = file[Len(file) + 1 - i]
    BY NewestFacts, FileType
  <2>4. Newest = list[Xmcd]
    <3>1. Len(Newest) = Len(list[Xmcd])
          /\ \A i \in 1..Len(Newest) : Newest[i] = list[Xmcd][i]
      BY <2>1, <2>3 DEF Agree
    <3> QED BY <2>2, <2>3, <3>1, SeqEqual
  <2> QED BY <2>1, <2>4 DEF Agree
<1> QED BY <1>1, <1>2, <1>3, HistoryTypeCorrect, PTL DEF Spec

-----------------------------------------------------------------------------
(* The list and the window. *)

(* Between calls; and while a call of xmcd waits for its child.            *)
IdleWin ==
  shown = "hist" =>
    widget = list[Xmcd] /\ hist_cnt = Len(widget) /\ dlist_pos <= Len(widget)
AddWin(e) ==
  shown = "hist" =>
    /\ hist_cnt = Len(widget) /\ hist_cnt <= MaxHist
    /\ dlist_pos <= Len(widget)
    /\ list[Xmcd] = <<e>> \o SubSeq(widget, 1,
                      IF Len(widget) = MaxHist THEN MaxHist - 1 ELSE Len(widget))
DelWin == shown = "hist" => widget = list[Xmcd] /\ hist_cnt = Len(widget) + 1
AllWin == shown = "hist" => widget = <<>> /\ list[Xmcd] = <<>>

CallWin ==
  /\ calls[Xmcd][1].fn = "add" => AddWin(calls[Xmcd][1].job.add)
  /\ calls[Xmcd][1].fn = "del" => DelWin
  /\ calls[Xmcd][1].fn = "delall" => AllWin

(* The selected line, as long as no disc comes while there is one.         *)
PickInv ==
  env = {"still"} /\ dlist_pos > 0 =>
    /\ calls[Xmcd] = <<>> =>
         dlist_pos <= Len(list[Xmcd]) /\ list[Xmcd][dlist_pos] = picked
    /\ calls[Xmcd] # <<>> => calls[Xmcd][1].fn # "add"

WindowInv ==
  env \cap {"nest", "come"} = {} =>
    /\ Len(calls[Xmcd]) <= 1 /\ Len(list[Xmcd]) <= MaxHist
    /\ dlist_pos > 0 => shown = "hist"
    /\ calls[Xmcd] = <<>> => IdleWin
    /\ calls[Xmcd] # <<>> => CallWin
    /\ PickInv

(* What the window shows when it was shown the new entry of a list.        *)
LEMMA ShowNewIs ==
  ASSUME NEW e \in Entry, widget \in Seq(Entry), hist_cnt = Len(widget),
         hist_cnt <= MaxHist, ShowNew(e)
  PROVE  /\ widget' = <<e>> \o SubSeq(widget, 1,
                      IF Len(widget) = MaxHist THEN MaxHist - 1 ELSE Len(widget))
         /\ hist_cnt' = Len(widget') /\ Len(widget) <= Len(widget')
<1> USE BoundsAssumption
<1> DEFINE w == <<e>> \o widget
           n == Len(widget)
           m == IF n = MaxHist THEN MaxHist - 1 ELSE n
           l == <<e>> \o SubSeq(widget, 1, m)
<1>0. n \in Nat /\ m \in 0..n /\ n <= MaxHist
  OBVIOUS
<1>1. /\ w \in Seq(Entry) /\ Len(w) = n + 1 /\ w[1] = e
      /\ \A k \in 2..(n + 1) : w[k] = widget[k - 1]
  OBVIOUS
<1>2. /\ l \in Seq(Entry) /\ Len(l) = m + 1 /\ l[1] = e
      /\ \A k \in 2..(m + 1) : l[k] = widget[k - 1]
  <2> HIDE DEF m
  <2> QED BY <1>0, InFront
<1>3. /\ hist_cnt' = (IF n + 1 > MaxHist THEN n ELSE n + 1)
      /\ widget' = IF n + 1 > MaxHist /\ n + 1 <= Len(w)
                     THEN RemoveAt(w, n + 1) ELSE w
  BY DEF ShowNew
<1> HIDE DEF w, l
<1>4. CASE n = MaxHist
  <2>1. n + 1 \in 1..Len(w) /\ m = n - 1
    BY <1>0, <1>1, <1>4
  <2> DEFINE r == RemoveAt(w, n + 1)
  <2>2. /\ r \in Seq(Entry) /\ Len(r) = n
        /\ \A k \in 1..n : r[k] = w[k]
    <3>1. /\ r \in Seq(Entry) /\ Len(r) = Len(w) - 1
          /\ \A k \in 1..(Len(w) - 1) : r[k] = w[IF k < n + 1 THEN k ELSE k + 1]
      BY <1>1, <2>1, RemoveAtFacts
    <3> HIDE DEF r
    <3> QED BY <1>0, <1>1, <3>1
  <2>3. widget' = r /\ hist_cnt' = n
    BY <1>0, <1>1, <1>3, <1>4
  <2> HIDE DEF r
  <2>4. \A k \in 1..n : r[k] = l[k]
    <3> SUFFICES ASSUME NEW k \in 1..n PROVE r[k] = l[k]
      OBVIOUS
    <3>1. r[k] = w[k] /\ k \in Int
      BY <2>2
    <3>2. m + 1 = n /\ n \in Nat
      BY <1>0, <2>1
    <3> HIDE DEF n, m
    <3>3. CASE k = 1
      BY <1>1, <1>2, <3>1, <3>3
    <3>4. CASE k # 1
      <4>1. k \in 2..(n + 1) /\ k \in 2..(m + 1)
        BY <3>1, <3>2, <3>4
      <4> QED BY <1>1, <1>2, <3>1, <4>1
    <3> QED BY <3>3, <3>4
  <2>5. r = l
    BY <1>0, <1>2, <2>1, <2>2, <2>4, SeqEqual
  <2> QED BY <1>0, <2>2, <2>3, <2>5 DEF l
<1>5. CASE n # MaxHist
  <2>1. m = n /\ ~ (n + 1 > MaxHist)
    BY <1>0, <1>5
  <2>2. widget' = w /\ hist_cnt' = n + 1
    BY <1>0, <1>3, <2>1
  <2>3. \A k \in 1..(n + 1) : w[k] = l[k]
    BY <1>0, <1>1, <1>2, <2>1
  <2>4. w = l
    BY <1>0, <1>1, <1>2, <2>1, <2>3, SeqEqual
  <2> QED BY <1>0, <1>1, <2>2, <2>4 DEF l
<1> QED BY <1>4, <1>5

LEMMA NextKeepsWindow ==
  ASSUME TypeOK, TypeOK', WindowInv, [Next]_vars
  PROVE  WindowInv'
<1> USE ProgAssumption
<1>0. env' = env
  BY EnvStays
<1> SUFFICES ASSUME env \cap {"nest", "come"} = {}, env' = env PROVE WindowInv'
  BY <1>0 DEF WindowInv
<1>a. /\ Len(calls[Xmcd]) <= 1 /\ Len(list[Xmcd]) <= MaxHist
      /\ dlist_pos > 0 => shown = "hist"
      /\ calls[Xmcd] = <<>> => IdleWin
      /\ calls[Xmcd] # <<>> => CallWin
      /\ PickInv
  BY DEF WindowInv
<1>b. "nest" \notin env /\ "come" \notin env
  OBVIOUS
<1>c. /\ list[Xmcd] \in Seq(Entry) /\ calls[Xmcd] \in Seq(Call)
      /\ widget \in Seq(Entry) /\ dlist_pos \in Int /\ hist_cnt \in Nat
      /\ list \in [Prog -> Seq(Entry)] /\ MaxHist \in Nat \ {0, 1}
  BY BoundsAssumption DEF TypeOK
(* What is to be shown of an action that starts a child of xmcd.           *)
<1>d. ASSUME NEW f \in {"add", "del", "delall"}, NEW j \in Job,
             f = "add" => j.add # NoEntry, calls[Xmcd] = <<>>,
             Wait(Xmcd, f, j), Len(list'[Xmcd]) <= MaxHist,
             dlist_pos' > 0 => shown' = "hist",
             f = "add" => AddWin(j.add)', f = "del" => DelWin',
             f = "delall" => AllWin',
             f = "add" /\ env = {"still"} => ~ (dlist_pos' > 0)
      PROVE  WindowInv'
  <2>1. calls'[Xmcd] # <<>> /\ Len(calls'[Xmcd]) = 1
        /\ calls'[Xmcd][1] = [fn |-> f, job |-> j]
    <3>1. /\ Len(calls'[Xmcd]) = Len(calls[Xmcd]) + 1
          /\ calls'[Xmcd][1] = [fn |-> f, job |-> j]
      BY ZenonT(60), <1>d, WaitFacts
    <3>2. Len(calls[Xmcd]) = 0
      BY <1>d
    <3>3. Len(calls'[Xmcd]) = 1
      BY <3>1, <3>2
    <3>4. calls'[Xmcd] # <<>>
      BY <3>3
    <3> QED BY <3>1, <3>3, <3>4
  <2>2. calls'[Xmcd][1].fn = f /\ calls'[Xmcd][1].job = j
    BY <2>1
  <2>3. CallWin'
    BY <1>d, <2>2 DEF CallWin, AddWin
  <2>4. PickInv'
    BY <1>d, <2>1, <2>2 DEF PickInv
  <2> QED BY <1>d, <2>1, <2>3, <2>4 DEF WindowInv
(* And of one that leaves the list and the window alone.                   *)
<1>e. ASSUME UNCHANGED winVars, list'[Xmcd] = list[Xmcd],
             Len(calls'[Xmcd]) = Len(calls[Xmcd]), calls'[Xmcd] \in Seq(Call),
             calls[Xmcd] # <<>> =>
               /\ calls'[Xmcd][1].fn = calls[Xmcd][1].fn
               /\ calls'[Xmcd][1].job.add = calls[Xmcd][1].job.add
      PROVE  WindowInv'
  <2>1. calls'[Xmcd] = <<>> <=> calls[Xmcd] = <<>>
    BY <1>c, <1>e
  <2>2. /\ shown' = shown /\ widget' = widget /\ hist_cnt' = hist_cnt
        /\ dlist_pos' = dlist_pos /\ picked' = picked
    BY <1>e DEF winVars
  <2>3. calls'[Xmcd] = <<>> => IdleWin'
    BY <1>a, <1>e, <2>1, <2>2 DEF IdleWin
  <2>4. calls'[Xmcd] # <<>> => CallWin'
    BY <1>a, <1>e, <2>1, <2>2 DEF CallWin, AddWin, DelWin, AllWin
  <2>5. PickInv'
    BY <1>a, <1>e, <2>1, <2>2 DEF PickInv
  <2> QED BY <1>a, <1>e, <2>1, <2>2, <2>3, <2>4, <2>5 DEF WindowInv
(* And of one that leaves no call and no selection.                        *)
<1>f. ASSUME calls'[Xmcd] = <<>>, NoPick, Len(list'[Xmcd]) <= MaxHist,
             shown' = "hist" =>
               widget' = list'[Xmcd] /\ hist_cnt' = Len(widget')
      PROVE  WindowInv'
  <2>1. dlist_pos' = -1 /\ ~ (dlist_pos' > 0)
    BY <1>f DEF NoPick
  <2>2. IdleWin'
    <3>1. widget' \in Seq(Entry)
      BY DEF TypeOK
    <3>2. Len(widget') \in Nat
      BY <3>1
    <3> QED BY <1>f, <2>1, <3>2 DEF IdleWin
  <2>3. Len(calls'[Xmcd]) = 0
    BY <1>f
  <2> QED BY <1>f, <2>1, <2>2, <2>3 DEF WindowInv, PickInv
<1>1. CASE UNCHANGED vars
  BY <1>1, <1>c, <1>e DEF vars
<1>2. CASE Delete
  <2> DEFINE old == list[Xmcd]
             i   == dlist_pos
             m   == Len(old) - 1
  <2>1. calls[Xmcd] = <<>> /\ shown = "hist" /\ i > 0
    BY <1>2, <1>b DEF Delete, Free
  <2>2. widget = old /\ hist_cnt = Len(widget) /\ i \in 1..Len(old)
    BY <1>a, <1>c, <2>1 DEF IdleWin
  <2>3. /\ widget' = RemoveAt(old, i)
        /\ list' = [list EXCEPT ![Xmcd] = RemoveAt(old, i)]
        /\ Wait(Xmcd, "del", Drop(old[i], fcnt[Xmcd] - m))
        /\ UNCHANGED <<hist_cnt, dlist_pos, picked, shown>>
    BY <1>2, <1>c, <2>2 DEF Delete
  <2>4. /\ list'[Xmcd] = RemoveAt(old, i)
        /\ Len(RemoveAt(old, i)) = Len(old) - 1
    <3>1. Len(RemoveAt(old, i)) = Len(old) - 1
      BY <1>c, <2>2, RemoveAtFacts
    <3> HIDE DEF old, i
    <3> QED BY <1>c, <2>3, <3>1
  <2>5. PICK j \in Job : j = Drop(old[i], fcnt[Xmcd] - m)
    <3>1. old[i] \in Entry /\ fcnt[Xmcd] - m \in Int
      BY <1>c, <2>2 DEF TypeOK
    <3> QED BY <3>1, JobTypes
  <2>6. DelWin' /\ Len(list'[Xmcd]) <= MaxHist
    BY <1>a, <1>c, <2>2, <2>3, <2>4 DEF DelWin
  <2> HIDE DEF old, i, m
  <2> QED BY <1>d, <2>1, <2>3, <2>5, <2>6
<1>3. CASE DeleteAll
  <2>1. calls[Xmcd] = <<>> /\ shown = "hist" /\ shown' = shown
        /\ widget' = <<>> /\ list'[Xmcd] = <<>>
    BY <1>3, <1>b DEF DeleteAll, Free, TypeOK
  <2>2. PICK j \in Job : j = Clear
    BY JobTypes
  <2>3. Wait(Xmcd, "delall", j)
    BY <1>3, <2>2 DEF DeleteAll
  <2>4. AllWin' /\ Len(list'[Xmcd]) <= MaxHist
    BY <1>c, <2>1 DEF AllWin
  <2> QED BY <1>d, <2>1, <2>3, <2>4
<1>4. CASE Rescan
  <2>1. calls[Xmcd] = <<>> /\ calls' = calls /\ NoPick
        /\ list'[Xmcd] = Newest /\ widget' = Newest /\ hist_cnt' = Len(Newest)
    BY <1>4, <1>b DEF Rescan, Load, Free, ShowAll, TypeOK
  <2>2. Len(Newest) <= MaxHist
    <3>1. Len(Newest) = (IF Len(file) > MaxHist THEN MaxHist ELSE Len(file))
          /\ Len(file) \in Nat
      BY NewestFacts, FileType
    <3> QED BY <1>c, <3>1
  <2> QED BY <1>f, <2>1, <2>2
<1>5. CASE Open
  <2>1. calls[Xmcd] = <<>> /\ calls' = calls /\ NoPick /\ list' = list
        /\ widget' = list[Xmcd] /\ hist_cnt' = Len(list[Xmcd])
    BY <1>5, <1>b DEF Open, Free, ShowAll
  <2> QED BY <1>a, <1>f, <2>1
<1>6. CASE Changer
  <2>1. calls[Xmcd] = <<>> /\ calls' = calls /\ NoPick /\ list' = list
        /\ shown' = "chgr"
    BY <1>6, <1>b DEF Changer, Free
  <2> QED BY <1>a, <1>f, <2>1
<1>7. CASE Select
  <2>1. calls[Xmcd] = <<>> /\ shown = "hist" /\ calls' = calls
        /\ UNCHANGED <<list, shown, widget, hist_cnt>>
    BY <1>7, <1>b DEF Select, Free
  <2>2. widget = list[Xmcd] /\ hist_cnt = Len(widget)
    BY <1>a, <2>1 DEF IdleWin
  <2>3. CASE NoPick
    BY <1>a, <1>f, <2>1, <2>2, <2>3
  <2>4. CASE \E i \in 1..Len(widget) : dlist_pos' = i /\ picked' = widget[i]
    <3>1. dlist_pos' \in 1..Len(widget) /\ picked' = widget[dlist_pos']
      BY <2>4
    <3>2. IdleWin'
      BY <2>1, <2>2, <3>1 DEF IdleWin
    <3>3. PickInv'
      BY <2>1, <2>2, <3>1 DEF PickInv
    <3> QED BY <1>a, <2>1, <3>2, <3>3 DEF WindowInv
  <2> QED BY <1>7, <2>3, <2>4 DEF Select
<1>8. ASSUME NEW p \in Prog, NEW d \in Disc, Add(p, d) PROVE WindowInv'
  <2>1. UNCHANGED winVars
    BY <1>8 DEF Add
  <2> DEFINE e == [disc |-> d, time |-> time + 1]
             m == IF Len(list[p]) = MaxHist THEN MaxHist ELSE Len(list[p]) + 1
             more == fcnt[p] + 1 - m
  <2>2. /\ e \in Entry /\ m \in Nat
        /\ \A q \in Prog \ {p} : list'[q] = list[q]
        /\ list'[p] = <<e>> \o SubSeq(list[p], 1, m - 1)
        /\ Len(list'[p]) = m
    BY <1>8, AddFacts
  <2>3. \/ Wait(p, "add", Rewrite(e, more + 1))
        \/ Wait(p, "add", AppendJob(e))
    BY <1>8 DEF Add
  <2>4. fcnt[p] \in Nat /\ more + 1 \in Int
    <3>1. fcnt \in [Prog -> Nat] /\ m \in Nat
      BY <2>2 DEF TypeOK
    <3> HIDE DEF m
    <3> QED BY <3>1
  <2> HIDE DEF e, more
  <2>5. PICK j \in Job : Wait(p, "add", j) /\ j.add = e /\ j.add # NoEntry
    <3>1. /\ Rewrite(e, more + 1) \in Job /\ AppendJob(e) \in Job
          /\ Rewrite(e, more + 1).add = e /\ AppendJob(e).add = e
      BY <2>2, <2>4, JobTypes DEF Rewrite, AppendJob, NewJob
    <3> QED BY <2>2, <2>3, <3>1, NoEntryIsNone
  <2>6. CASE p # Xmcd
    <3>1. list'[Xmcd] = list[Xmcd] /\ calls'[Xmcd] = calls[Xmcd]
      BY <2>2, <2>5, <2>6, WaitFacts
    <3> QED BY <1>c, <1>e, <2>1, <3>1
  <2>7. CASE p = Xmcd
    <3>1. calls[Xmcd] = <<>> /\ (env = {"still"} => dlist_pos <= 0)
      BY <1>8, <1>b, <2>7 DEF Add, Comes, Free
    <3>2. Len(list'[Xmcd]) <= MaxHist
      BY <1>a, <1>c, <2>2, <2>7
    <3>3. /\ shown' = shown /\ widget' = widget /\ hist_cnt' = hist_cnt
          /\ dlist_pos' = dlist_pos
      BY <2>1 DEF winVars
    <3>4. AddWin(j.add)'
      <4> SUFFICES ASSUME shown = "hist"
                   PROVE  /\ hist_cnt = Len(widget) /\ hist_cnt <= MaxHist
                          /\ dlist_pos <= Len(widget)
                          /\ list'[Xmcd] = <<e>> \o SubSeq(widget, 1,
                               IF Len(widget) = MaxHist THEN MaxHist - 1
                                                        ELSE Len(widget))
        BY <2>5, <3>3 DEF AddWin
      <4>1. widget = list[Xmcd] /\ hist_cnt = Len(widget)
            /\ dlist_pos <= Len(widget)
        BY <1>a, <3>1 DEF IdleWin
      <4>2. m - 1 = (IF Len(widget) = MaxHist THEN MaxHist - 1 ELSE Len(widget))
        BY <1>c, <2>7, <4>1
      <4> HIDE DEF m
      <4> QED BY <1>a, <2>2, <2>7, <4>1, <4>2
    <3>5. ~ (dlist_pos > 0) <=> dlist_pos <= 0
      BY <1>c
    <3> QED BY <1>a, <1>d, <2>5, <2>7, <3>1, <3>2, <3>3, <3>4, <3>5
  <2> QED BY <2>6, <2>7
<1>9. ASSUME NEW p \in Prog, NEW i \in 1..Len(calls[p]),
             Child(p, i) \/ ChildFails(p, i)
      PROVE  WindowInv'
  <2>1. PICK k \in Job, n \in Names, d \in Disks : ChildStep(p, i, k, n, d)
    BY <1>9, ChildSteps
  <2>2. /\ calls' \in [Prog -> Seq(Call)]
        /\ \A q \in Prog \ {p} : calls'[q] = calls[q]
        /\ Len(calls'[p]) = Len(calls[p])
        /\ \A x \in 1..Len(calls[p]) \ {i} : calls'[p][x] = calls[p][x]
        /\ calls'[p][i].fn = calls[p][i].fn
        /\ calls'[p][i].job.add = calls[p][i].job.add
        /\ UNCHANGED winVars /\ list' = list
    <3>1. /\ Step(p, i, k, n, d) /\ k \in Job /\ n \in Names /\ d \in Disks
          /\ k.add = calls[p][i].job.add
      BY <2>1 DEF ChildStep
    <3>2. /\ calls' \in [Prog -> Seq(Call)]
          /\ \A q \in Prog \ {p} : calls'[q] = calls[q]
          /\ Len(calls'[p]) = Len(calls[p])
          /\ \A x \in 1..Len(calls[p]) \ {i} : calls'[p][x] = calls[p][x]
          /\ calls'[p][i] = [fn |-> calls[p][i].fn, job |-> k]
      BY <3>1, StepFacts
    <3>3. UNCHANGED winVars /\ list' = list
      BY <3>1 DEF Step
    <3> QED BY <3>1, <3>2, <3>3
  <2>3. calls[Xmcd] # <<>> =>
          /\ calls'[Xmcd][1].fn = calls[Xmcd][1].fn
          /\ calls'[Xmcd][1].job.add = calls[Xmcd][1].job.add
    <3>1. CASE p # Xmcd
      BY <2>2, <3>1
    <3>2. CASE p = Xmcd
      <4>1. calls[Xmcd] # <<>> => 1 \in 1..Len(calls[Xmcd])
        BY <1>c
      <4> QED BY <2>2, <3>2, <4>1
    <3> QED BY <3>1, <3>2
  <2>4. Len(calls'[Xmcd]) = Len(calls[Xmcd]) /\ calls'[Xmcd] \in Seq(Call)
    BY <2>2
  <2> QED BY <1>e, <2>2, <2>3, <2>4
<1>10. ASSUME NEW p \in Prog, Return(p) PROVE WindowInv'
  <2>1. /\ \A q \in Prog \ {p} : calls'[q] = calls[q]
        /\ Len(calls[p]) \in Nat \ {0} /\ calls[p][1] \in Call
        /\ Len(calls'[p]) = Len(calls[p]) - 1
        /\ calls' \in [Prog -> Seq(Call)]
    BY <1>10, ReturnFacts
  <2>2. list' = list
    BY <1>10 DEF Return
  <2>3. CASE p # Xmcd
    <3>1. UNCHANGED winVars
      BY <1>10, <2>3 DEF Return
    <3>2. calls'[Xmcd] = calls[Xmcd]
      BY <2>1, <2>3
    <3> QED BY <1>c, <1>e, <2>2, <3>1, <3>2
  <2>4. CASE p = Xmcd
    <3> DEFINE c == calls[Xmcd][1]
    <3>1. calls'[Xmcd] = <<>> /\ calls[Xmcd] # <<>> /\ c \in Call
      <4>1. Len(calls'[Xmcd]) = 0 /\ calls'[Xmcd] \in Seq(Call)
        BY <1>a, <1>c, <2>1, <2>4
      <4> QED BY <2>1, <2>4, <4>1
    <3>2. CallWin /\ c = Head(calls[Xmcd])
      BY <1>a, <3>1
    <3>3. \/ /\ c.fn = "add"
             /\ IF shown = "hist" THEN ShowNew(c.job.add)
                                 ELSE UNCHANGED <<widget, hist_cnt>>
             /\ UNCHANGED <<shown, dlist_pos, picked>>
          \/ /\ c.fn = "del"
             /\ hist_cnt' = (IF hist_cnt > 0 THEN hist_cnt - 1 ELSE 0)
             /\ NoPick /\ UNCHANGED <<shown, widget>>
          \/ /\ c.fn = "delall"
             /\ hist_cnt' = 0 /\ NoPick /\ UNCHANGED <<shown, widget>>
      BY <1>10, <2>4, <3>2 DEF Return
    <3>4. /\ c.fn = "add" => AddWin(c.job.add)
          /\ c.fn = "del" => DelWin
          /\ c.fn = "delall" => AllWin
      BY <3>2 DEF CallWin
    <3>5. c.fn = "add" => c.job.add \in Entry
      BY <3>1 DEF Call, Job
    <3>6. PickInv /\ (c.fn = "add" => ~ (env = {"still"} /\ dlist_pos > 0))
      BY <1>a, <3>1 DEF PickInv
    <3> HIDE DEF c
    <3>7. CASE /\ c.fn = "add"
               /\ IF shown = "hist" THEN ShowNew(c.job.add)
                                   ELSE UNCHANGED <<widget, hist_cnt>>
               /\ UNCHANGED <<shown, dlist_pos, picked>>
      <4>1. PickInv'
        BY <3>6, <3>7 DEF PickInv
      <4>2. IdleWin'
        <5> SUFFICES ASSUME shown = "hist"
                     PROVE  /\ widget' = list[Xmcd] /\ hist_cnt' = Len(widget')
                            /\ dlist_pos <= Len(widget')
          BY <2>2, <3>7 DEF IdleWin
        <5>1. /\ hist_cnt = Len(widget) /\ hist_cnt <= MaxHist
              /\ dlist_pos <= Len(widget)
              /\ list[Xmcd] = <<c.job.add>> \o SubSeq(widget, 1,
                   IF Len(widget) = MaxHist THEN MaxHist - 1 ELSE Len(widget))
          BY <3>4, <3>7 DEF AddWin
        <5>2. /\ widget' = <<c.job.add>> \o SubSeq(widget, 1,
                   IF Len(widget) = MaxHist THEN MaxHist - 1 ELSE Len(widget))
              /\ hist_cnt' = Len(widget') /\ Len(widget) <= Len(widget')
          BY <1>c, <3>5, <3>7, <5>1, ShowNewIs
        <5>3. Len(widget) \in Nat /\ Len(widget') \in Nat
          <6>1. widget \in Seq(Entry) /\ widget' \in Seq(Entry)
            BY <1>c DEF TypeOK
          <6> QED BY <6>1
        <5> QED BY <1>c, <5>1, <5>2, <5>3
      <4>3. Len(calls'[Xmcd]) = 0
        BY <3>1
      <4> QED BY <1>a, <2>2, <3>1, <3>7, <4>1, <4>2, <4>3 DEF WindowInv
    <3>8. CASE /\ c.fn = "del"
               /\ hist_cnt' = (IF hist_cnt > 0 THEN hist_cnt - 1 ELSE 0)
               /\ NoPick /\ UNCHANGED <<shown, widget>>
      <4>1. shown = "hist" => widget = list[Xmcd] /\ hist_cnt = Len(widget) + 1
        BY <3>4, <3>8 DEF DelWin
      <4>2. shown = "hist" => hist_cnt' = Len(widget)
        BY <1>c, <3>8, <4>1
      <4> QED BY <1>a, <1>f, <2>2, <3>1, <3>8, <4>1, <4>2
    <3>9. CASE /\ c.fn = "delall"
               /\ hist_cnt' = 0 /\ NoPick /\ UNCHANGED <<shown, widget>>
      <4>1. shown = "hist" => widget = <<>> /\ list[Xmcd] = <<>>
        BY <3>4, <3>9 DEF AllWin
      <4>2. Len(<<>>) = 0
        OBVIOUS
      <4> QED BY <1>a, <1>f, <2>2, <3>1, <3>9, <4>1, <4>2
    <3> QED BY <3>3, <3>7, <3>8, <3>9
  <2> QED BY <2>3, <2>4
<1>11. ASSUME NEW p \in Prog, Start(p) PROVE WindowInv'
  <2>1. p # Xmcd /\ UNCHANGED winVars /\ calls' = calls
        /\ list' = [list EXCEPT ![p] = Newest]
    BY <1>11 DEF Start, Load
  <2>2. list'[Xmcd] = list[Xmcd]
    BY <1>c, <2>1
  <2> QED BY <1>c, <1>e, <2>1, <2>2
<1> QED BY <1>1, <1>2, <1>3, <1>4, <1>5, <1>6, <1>7, <1>8, <1>9, <1>10, <1>11
        DEF Next, Window

(* The window has the lines of the list, unless the user or a disc comes   *)
(* between a command and its end; and the selected line is the entry that  *)
(* was selected, as long as no disc comes.                                 *)
THEOREM ShownHolds == Spec => []Shown
<1>1. Init => WindowInv
  <2> SUFFICES ASSUME Init PROVE WindowInv
    OBVIOUS
  <2>1. /\ list[Xmcd] = <<>> /\ calls[Xmcd] = <<>> /\ Len(<<>>) = 0
        /\ ~ (dlist_pos > 0) /\ shown # "hist"
    BY ProgAssumption DEF Init
  <2> QED BY <2>1, BoundsAssumption DEF WindowInv, IdleWin, PickInv
<1>2. TypeOK /\ TypeOK' /\ WindowInv /\ [Next]_vars => WindowInv'
  BY NextKeepsWindow
<1>3. WindowInv => Shown
  <2>1. env = {"still"} => env \cap {"nest", "come"} = {}
    OBVIOUS
  <2> QED BY <2>1 DEF WindowInv, Shown, Idle, IdleWin, PickInv
<1> QED BY <1>1, <1>2, <1>3, HistoryTypeCorrect, PTL DEF Spec

-----------------------------------------------------------------------------
(* What was deleted. *)

LEMMA ToSetAppend ==
  ASSUME NEW S, NEW s \in Seq(S), NEW x \in S
  PROVE  ToSet(Append(s, x)) \subseteq ToSet(s) \cup {x}
<1> DEFINE t == Append(s, x)
<1>1. /\ Len(t) = Len(s) + 1 /\ \A i \in 1..Len(s) : t[i] = s[i]
      /\ t[Len(s) + 1] = x /\ DOMAIN t = 1..Len(t) /\ DOMAIN s = 1..Len(s)
  BY AppendProperties
<1> HIDE DEF t
<1>2. ASSUME NEW i \in 1..Len(t) PROVE t[i] \in ToSet(s) \cup {x}
  <2>1. CASE i \in 1..Len(s)
    BY <1>1, <2>1 DEF ToSet
  <2>2. CASE i \notin 1..Len(s)
    <3>1. i = Len(s) + 1
      BY <1>1, <2>2
    <3> QED BY <1>1, <3>1
  <2> QED BY <2>1, <2>2
<1>3. ToSet(t) \subseteq ToSet(s) \cup {x}
  BY <1>1, <1>2 DEF ToSet
<1> QED BY <1>3 DEF t

LEMMA ToSetRemoveAt ==
  ASSUME NEW S, NEW s \in Seq(S), NEW i \in 1..Len(s)
  PROVE  ToSet(RemoveAt(s, i)) \subseteq ToSet(s) /\ s[i] \in ToSet(s)
<1> DEFINE t == RemoveAt(s, i)
<1>1. /\ t \in Seq(S) /\ Len(t) = Len(s) - 1
      /\ \A k \in 1..(Len(s) - 1) : t[k] = s[IF k < i THEN k ELSE k + 1]
  BY RemoveAtFacts
<1>2. Len(s) \in Nat /\ \A k \in 1..Len(s) : s[k] \in ToSet(s)
  BY DEF ToSet
<1> HIDE DEF t
<1>3. ASSUME NEW k \in 1..Len(t) PROVE t[k] \in ToSet(s)
  <2>1. (IF k < i THEN k ELSE k + 1) \in 1..Len(s) /\ k \in 1..(Len(s) - 1)
    BY <1>1, <1>2
  <2> QED BY <1>1, <1>2, <2>1
<1>4. DOMAIN t = 1..Len(t)
  BY <1>1
<1> QED BY <1>2, <1>3, <1>4 DEF ToSet, t

Written == UNION {ToSet(disk[f]) : f \in File}

(* A job that is still to add an entry; one that is to take e away; one    *)
(* that is rewriting the file; and what this one is to copy, with the      *)
(* names n and the files d.                                                *)
Adds(j)     == j.at # "end" /\ j.add # NoEntry
Drops(j, e) == j.op = "clear" \/ (j.op = "rewrite" /\ j.del = e)
Works(j)    == j.at \in {"link", "unlink", "open", "create", "copy"}
Copies(j)   == j.at = "open" \/ (j.at = "unlink" /\ j.op = "rewrite")
Source(j, n, d) ==
  IF Copies(j) /\ n.bak # 0 THEN ToSet(d[n.bak])
  ELSE IF j.at \in {"create", "copy"} THEN ToSet(d[j.in]) ELSE {}

OldInv ==
  \A e \in Written \cup removed \cup ToSet(list[Xmcd]) : e.time <= time

(* What is still to be added is nowhere yet, but in the list of its        *)
(* program, and is added once.                                             *)
NowhereYet(p, e) ==
  /\ e.time <= time /\ e \notin Written /\ e \notin removed
  /\ p # Xmcd => e \notin ToSet(list[Xmcd])
AddsInv ==
  \A p \in Prog : \A i \in 1..Len(calls[p]) : Adds(calls[p][i].job) =>
    /\ NowhereYet(p, calls[p][i].job.add)
    /\ \A q \in Prog : \A k \in 1..Len(calls[q]) :
         Adds(calls[q][k].job) /\ calls[q][k].job.add = calls[p][i].job.add
           => q = p /\ k = i

(* One child at a time rewrites the file, and what it makes is the history. *)
OneInv ==
  \A p \in Prog : \A i \in 1..Len(calls[p]) : Works(calls[p][i].job) =>
    /\ \A q \in Prog : \A k \in 1..Len(calls[q]) :
         Works(calls[q][k].job) => q = p /\ k = i
    /\ calls[p][i].job.at = "copy" => calls[p][i].job.out = name.hist
    /\ calls[p][i].job.at = "link" => name.bak = 0

(* What was deleted and is in the history, or is about to be copied there, *)
(* is still to be taken away.                                              *)
Left(e, A) ==
  \E i \in 1..Len(calls[Xmcd]) :
    calls[Xmcd][i].job.at \in A /\ Drops(calls[Xmcd][i].job, e)
DropsInv ==
  /\ \A e \in ToSet(file) \cap removed : Left(e, {"start", "link", "unlink"})
  /\ \A p \in Prog : \A i \in 1..Len(calls[p]) :
       \A e \in Source(calls[p][i].job, name, disk) \cap removed :
         e = calls[p][i].job.del \/ Left(e, {"start"})

GoneInv ==
  "apart" \in env /\ env \cap {"nest", "fail"} = {} =>
    OldInv /\ AddsInv /\ OneInv /\ DropsInv

LEMMA WrittenFacts ==
  ASSUME TypeOK
  PROVE  /\ Written \subseteq Entry /\ ToSet(file) \subseteq Written
         /\ \A f \in File : ToSet(disk[f]) \subseteq Written
         /\ \A f \in File : \A x \in ToSet(disk[f]) : x \in Entry
<1>1. \A f \in File : ToSet(disk[f]) \subseteq Written
  BY DEF Written
<1>2. ASSUME NEW f \in File PROVE ToSet(disk[f]) \subseteq Entry
  <2>1. disk[f] \in Seq(Entry)
    BY DEF TypeOK
  <2> QED BY <2>1 DEF ToSet
<1>3. Written \subseteq Entry
  BY <1>2 DEF Written
<1>4. ToSet(file) \subseteq Written
  <2>1. CASE there
    <3>1. name.hist \in File
      BY <2>1 DEF TypeOK, there
    <3> QED BY <1>1, <2>1, <3>1 DEF file
  <2>2. CASE ~there
    <3>1. file = <<>> /\ ToSet(<<>>) = {}
      BY <2>2 DEF file, ToSet
    <3> QED BY <3>1
  <2> QED BY <2>1, <2>2
<1> QED BY <1>1, <1>2, <1>3, <1>4

(* What a step does to the calls of one program: they move by d, the one   *)
(* at z has added its entry, and the first may be new and add e; what is   *)
(* still to be added is still nowhere.                                     *)
Moved(p, d, z, e) ==
  /\ \A q \in Prog \ {p} : calls'[q] = calls[q]
  /\ \A k \in 1..Len(calls'[p]) :
       \/ ~ Adds(calls'[p][k].job)
       \/ /\ k + d \in 1..Len(calls[p]) /\ k + d # z
          /\ Adds(calls[p][k + d].job)
          /\ calls'[p][k].job.add = calls[p][k + d].job.add
       \/ d = -1 /\ k = 1 /\ calls'[p][k].job.add = e
  /\ time <= time'
  /\ \A q \in Prog : \A k \in 1..Len(calls[q]) :
       Adds(calls[q][k].job) /\ ~ (q = p /\ k = z) =>
         /\ calls[q][k].job.add \notin Written'
         /\ calls[q][k].job.add \notin removed'
         /\ q # Xmcd => calls[q][k].job.add \notin ToSet(list'[Xmcd])
  /\ d = -1 => /\ e.time \in Nat /\ time < e.time /\ e.time <= time'
               /\ e \notin Written' /\ e \notin removed'
               /\ p # Xmcd => e \notin ToSet(list'[Xmcd])

LEMMA AddsKept ==
  ASSUME TypeOK, TypeOK', AddsInv, NEW p \in Prog, NEW d \in {-1, 0, 1},
         NEW z \in Int, NEW e, Moved(p, d, z, e)
  PROVE  AddsInv'
<1>0. /\ \A q \in Prog \ {p} : calls'[q] = calls[q]
      /\ \A k \in 1..Len(calls'[p]) :
           \/ ~ Adds(calls'[p][k].job)
           \/ /\ k + d \in 1..Len(calls[p]) /\ k + d # z
              /\ Adds(calls[p][k + d].job)
              /\ calls'[p][k].job.add = calls[p][k + d].job.add
           \/ d = -1 /\ k = 1 /\ calls'[p][k].job.add = e
      /\ time <= time' /\ time' \in Nat
      /\ \A q \in Prog : \A k \in 1..Len(calls[q]) :
           Adds(calls[q][k].job) /\ ~ (q = p /\ k = z) =>
             /\ calls[q][k].job.add \notin Written'
             /\ calls[q][k].job.add \notin removed'
             /\ q # Xmcd => calls[q][k].job.add \notin ToSet(list'[Xmcd])
      /\ d = -1 => /\ e.time \in Nat /\ time < e.time /\ e.time <= time'
                   /\ e \notin Written' /\ e \notin removed'
                   /\ p # Xmcd => e \notin ToSet(list'[Xmcd])
  <2>1. time' \in Nat
    BY DEF TypeOK
  <2> QED BY <2>1 DEF Moved
<1> DEFINE Old(q, k) ==
             LET o == IF q = p THEN k + d ELSE k IN
             /\ o \in 1..Len(calls[q]) /\ ~ (q = p /\ o = z)
             /\ Adds(calls[q][o].job)
             /\ calls'[q][k].job.add = calls[q][o].job.add
           New(q, k) == d = -1 /\ q = p /\ k = 1 /\ calls'[q][k].job.add = e
<1>1. ASSUME NEW q \in Prog, NEW k \in 1..Len(calls'[q]),
             Adds(calls'[q][k].job)
      PROVE  Old(q, k) \/ New(q, k)
  <2>1. CASE q # p
    BY <1>0, <1>1, <2>1
  <2>2. CASE q = p
    BY <1>0, <1>1, <2>2
  <2> QED BY <2>1, <2>2
<1>2. ASSUME NEW q \in Prog, NEW k \in 1..Len(calls'[q]),
             Adds(calls'[q][k].job), Old(q, k)
      PROVE  /\ calls'[q][k].job.add.time <= time
             /\ calls'[q][k].job.add.time \in Nat
             /\ NowhereYet(q, calls[q][k].job.add)'
  <2> DEFINE o == IF q = p THEN k + d ELSE k
             a == calls[q][o].job.add
  <2>1. /\ o \in 1..Len(calls[q]) /\ ~ (q = p /\ o = z)
        /\ Adds(calls[q][o].job) /\ calls'[q][k].job.add = calls[q][o].job.add
    BY <1>2
  <2>2. a \in Entry
    <3>1. calls[q] \in Seq(Call)
      BY DEF TypeOK
    <3> HIDE DEF o
    <3>2. calls[q][o] \in Call
      BY <2>1, <3>1
    <3> QED BY <2>1, <3>2 DEF Call, Job, Adds
  <2>3. a.time \in Nat
    <3> HIDE DEF a
    <3> QED BY <2>2, BoundsAssumption DEF Entry
  <2> HIDE DEF o
  <2>4. Adds(calls[q][o].job)
    BY <2>1
  <2>5. a.time <= time
    BY <2>1, <2>4 DEF AddsInv, NowhereYet
  <2>6. /\ a \notin Written' /\ a \notin removed'
        /\ q # Xmcd => a \notin ToSet(list'[Xmcd])
    BY <1>0, <2>1, <2>4
  <2>7. time \in Nat
    BY DEF TypeOK
  <2>8. calls'[q][k].job.add = a
    BY <2>1
  <2> HIDE DEF a
  <2>9. a.time <= time'
    BY <1>0, <2>3, <2>5, <2>7
  <2>10. NowhereYet(q, calls[q][k].job.add)'
    BY ONLY <2>6, <2>8, <2>9 DEF NowhereYet
  <2> QED BY ONLY <2>3, <2>5, <2>8, <2>10
<1>3. ASSUME NEW q \in Prog, NEW k \in 1..Len(calls'[q]),
             Adds(calls'[q][k].job), New(q, k)
      PROVE  /\ time < calls'[q][k].job.add.time
             /\ calls'[q][k].job.add.time \in Nat
             /\ NowhereYet(q, calls[q][k].job.add)'
  <2>1. /\ q = p /\ calls'[q][k].job.add = e
        /\ e.time \in Nat /\ time < e.time /\ e.time <= time'
        /\ e \notin Written' /\ e \notin removed'
        /\ p # Xmcd => e \notin ToSet(list'[Xmcd])
    BY <1>0, <1>3
  <2> QED BY ONLY <2>1 DEF NowhereYet
<1>4. ASSUME NEW q \in Prog, NEW k \in 1..Len(calls'[q]),
             NEW r \in Prog, NEW l \in 1..Len(calls'[r]),
             Adds(calls'[q][k].job), Adds(calls'[r][l].job),
             calls'[r][l].job.add = calls'[q][k].job.add
      PROVE  r = q /\ l = k
  <2>0. time \in Nat
    BY DEF TypeOK
  <2>1. CASE New(q, k) /\ New(r, l)
    BY <2>1
  <2>2. CASE New(q, k) /\ Old(r, l)
    <3>1. time < calls'[q][k].job.add.time
      BY <1>3, <1>4, <2>2
    <3>2. calls'[r][l].job.add.time <= time /\ calls'[r][l].job.add.time \in Nat
      BY <1>2, <1>4, <2>2
    <3> QED BY <1>4, <2>0, <3>1, <3>2
  <2>3. CASE Old(q, k) /\ New(r, l)
    <3>1. time < calls'[r][l].job.add.time
      BY <1>3, <1>4, <2>3
    <3>2. calls'[q][k].job.add.time <= time /\ calls'[q][k].job.add.time \in Nat
      BY <1>2, <1>4, <2>3
    <3> QED BY <1>4, <2>0, <3>1, <3>2
  <2>4. CASE Old(q, k) /\ Old(r, l)
    <3> DEFINE o == IF q = p THEN k + d ELSE k
               u == IF r = p THEN l + d ELSE l
    <3>1. /\ o \in 1..Len(calls[q]) /\ Adds(calls[q][o].job)
          /\ calls'[q][k].job.add = calls[q][o].job.add
          /\ u \in 1..Len(calls[r]) /\ Adds(calls[r][u].job)
          /\ calls'[r][l].job.add = calls[r][u].job.add
      BY <2>4
    <3>2. r = q /\ u = o
      <4> HIDE DEF o, u
      <4>1. Adds(calls[q][o].job) /\ Adds(calls[r][u].job)
            /\ calls[r][u].job.add = calls[q][o].job.add
        BY <1>4, <3>1
      <4> QED BY ONLY AddsInv, q \in Prog, r \in Prog, <3>1, <4>1 DEF AddsInv
    <3>3. k \in Int /\ l \in Int /\ d \in Int
      <4>1. calls'[q] \in Seq(Call) /\ calls'[r] \in Seq(Call)
        BY DEF TypeOK
      <4> QED BY <4>1
    <3> QED BY <3>2, <3>3
  <2> QED BY <1>1, <1>4, <2>1, <2>2, <2>3, <2>4
<1> HIDE DEF Old, New
<1>5. ASSUME NEW q \in Prog, NEW k \in 1..Len(calls'[q]),
             Adds(calls'[q][k].job)
      PROVE  NowhereYet(q, calls[q][k].job.add)'
  BY <1>1, <1>2, <1>3, <1>5
<1> QED BY <1>4, <1>5 DEF AddsInv, NowhereYet, Adds

(* A step that leaves the files alone: the calls of one program move by d, *)
(* those that come or go are not at work.                                  *)
Shifted(p, d) ==
  /\ UNCHANGED fileVars
  /\ \A q \in Prog \ {p} : calls'[q] = calls[q]
  /\ \A k \in 1..Len(calls'[p]) :
       \/ ~ Works(calls'[p][k].job)
       \/ k + d \in 1..Len(calls[p]) /\ calls'[p][k] = calls[p][k + d]
  /\ \A k \in 1..Len(calls[p]) :
       \/ calls[p][k].job.at = "end"
       \/ k - d \in 1..Len(calls'[p]) /\ calls'[p][k - d] = calls[p][k]

LEMMA ShiftKeepsOne ==
  ASSUME TypeOK', OneInv, NEW p \in Prog, NEW d \in {-1, 0, 1}, Shifted(p, d)
  PROVE  OneInv'
<1> DEFINE At(q, k) == IF q = p THEN k + d ELSE k
<1>1. ASSUME NEW q \in Prog, NEW k \in 1..Len(calls'[q]),
             Works(calls'[q][k].job)
      PROVE  /\ At(q, k) \in 1..Len(calls[q])
             /\ calls'[q][k] = calls[q][At(q, k)] /\ k \in Int
  <2>1. k \in Int
    <3>1. Len(calls'[q]) \in Nat
      BY DEF TypeOK
    <3> QED BY <3>1
  <2>2. CASE q = p
    BY <1>1, <2>1, <2>2 DEF Shifted
  <2>3. CASE q # p
    BY <1>1, <2>1, <2>3 DEF Shifted
  <2> QED BY <2>2, <2>3
<1>2. name' = name
  BY DEF Shifted, fileVars
<1>3. ASSUME NEW q \in Prog, NEW k \in 1..Len(calls'[q]),
             Works(calls'[q][k].job), NEW r \in Prog,
             NEW l \in 1..Len(calls'[r]), Works(calls'[r][l].job)
      PROVE  r = q /\ l = k
  <2>1. /\ At(q, k) \in 1..Len(calls[q]) /\ calls'[q][k] = calls[q][At(q, k)]
        /\ At(r, l) \in 1..Len(calls[r]) /\ calls'[r][l] = calls[r][At(r, l)]
        /\ k \in Int /\ l \in Int
    BY <1>1, <1>3
  <2>2. r = q /\ At(r, l) = At(q, k)
    <3> HIDE DEF At
    <3> QED BY <1>3, <2>1 DEF OneInv
  <2> QED BY <2>1, <2>2
<1>4. ASSUME NEW q \in Prog, NEW k \in 1..Len(calls'[q]),
             Works(calls'[q][k].job), calls'[q][k].job.at = "copy"
      PROVE  calls'[q][k].job.out = name'.hist
  <2>1. /\ At(q, k) \in 1..Len(calls[q]) /\ calls'[q][k] = calls[q][At(q, k)]
    BY <1>1, <1>4
  <2> HIDE DEF At
  <2> QED BY <1>2, <1>4, <2>1 DEF OneInv
<1>5. ASSUME NEW q \in Prog, NEW k \in 1..Len(calls'[q]),
             Works(calls'[q][k].job), calls'[q][k].job.at = "link"
      PROVE  name'.bak = 0
  <2>1. /\ At(q, k) \in 1..Len(calls[q]) /\ calls'[q][k] = calls[q][At(q, k)]
    BY <1>1, <1>5
  <2> HIDE DEF At
  <2> QED BY <1>2, <1>5, <2>1 DEF OneInv
<1> QED BY <1>3, <1>4, <1>5 DEF OneInv

LEMMA ShiftKeepsDrops ==
  ASSUME TypeOK, TypeOK', DropsInv, NEW p \in Prog, NEW d \in {-1, 0, 1},
         Shifted(p, d), removed' = removed
  PROVE  DropsInv'
<1>1. ASSUME NEW e, NEW A, "end" \notin A, Left(e, A)
      PROVE  \E i \in 1..Len(calls'[Xmcd]) : /\ calls'[Xmcd][i].job.at \in A
                                             /\ Drops(calls'[Xmcd][i].job, e)
  <2>1. PICK k \in 1..Len(calls[Xmcd]) : /\ calls[Xmcd][k].job.at \in A
                                         /\ Drops(calls[Xmcd][k].job, e)
    BY <1>1 DEF Left
  <2>2. CASE p = Xmcd
    <3>1. k - d \in 1..Len(calls'[Xmcd]) /\ calls'[Xmcd][k - d] = calls[Xmcd][k]
      BY <1>1, <2>1, <2>2 DEF Shifted
    <3> QED BY <2>1, <3>1
  <2>3. CASE p # Xmcd
    <3>1. calls'[Xmcd] = calls[Xmcd]
      BY <2>3, ProgAssumption DEF Shifted
    <3> QED BY <2>1, <3>1
  <2> QED BY <2>2, <2>3
<1>2. file' = file /\ name' = name /\ disk' = disk
  BY DEF Shifted, fileVars, file, there
<1>3. ASSUME NEW q \in Prog, NEW k \in 1..Len(calls'[q]),
             NEW e \in Source(calls'[q][k].job, name, disk), e \in removed
      PROVE  e = calls'[q][k].job.del \/ Left(e, {"start"})
  <2>1. Works(calls'[q][k].job)
    BY <1>3 DEF Source, Copies, Works
  <2>2. CASE q = p
    <3>1. k + d \in 1..Len(calls[p]) /\ calls'[p][k] = calls[p][k + d]
      BY <2>1, <2>2 DEF Shifted
    <3>2. PICK l \in 1..Len(calls[p]) : calls'[p][k] = calls[p][l]
      BY <3>1
    <3> QED BY <1>3, <2>2, <3>2 DEF DropsInv
  <2>3. CASE q # p
    <3>1. calls'[q] = calls[q]
      BY <2>3 DEF Shifted
    <3> QED BY <1>3, <3>1 DEF DropsInv
  <2> QED BY <2>2, <2>3
<1>4. \A e \in ToSet(file') \cap removed' : Left(e, {"start", "link", "unlink"})'
  <2> SUFFICES ASSUME NEW e \in ToSet(file) \cap removed
               PROVE  \E i \in 1..Len(calls'[Xmcd]) :
                        /\ calls'[Xmcd][i].job.at \in {"start", "link", "unlink"}
                        /\ Drops(calls'[Xmcd][i].job, e)
    BY <1>2 DEF Left, Drops
  <2>1. Left(e, {"start", "link", "unlink"})
    BY DEF DropsInv
  <2> QED BY <1>1, <2>1
<1>5. ASSUME NEW q \in Prog, NEW k \in 1..Len(calls'[q]),
             NEW e \in Source(calls'[q][k].job, name', disk'), e \in removed'
      PROVE  e = calls'[q][k].job.del \/ Left(e, {"start"})'
  <2>1. e = calls'[q][k].job.del \/ Left(e, {"start"})
    BY <1>2, <1>3, <1>5
  <2>2. Left(e, {"start"}) =>
          \E i \in 1..Len(calls'[Xmcd]) : /\ calls'[Xmcd][i].job.at \in {"start"}
                                          /\ Drops(calls'[Xmcd][i].job, e)
    BY <1>1
  <2>3. Left(e, {"start"}) => Left(e, {"start"})'
    BY <2>2 DEF Left, Drops
  <2> QED BY <2>1, <2>3
<1> QED BY <1>4, <1>5 DEF DropsInv, Source, Copies

(* What is in the files after the step of a child, that was written in d.  *)
LEMMA StepSets ==
  ASSUME TypeOK, NEW p \in Prog, NEW i \in 1..Len(calls[p]), NEW j \in Job,
         j.add = calls[p][i].job.add, NEW n \in Names, NEW d \in Disks,
         Step(p, i, j, n, d)
  PROVE  /\ name' = n /\ \A f \in File : ToSet(disk'[f]) \subseteq ToSet(d[f])
         /\ ToSet(HistoryOf(name', disk')) \subseteq ToSet(HistoryOf(n, d))
         /\ \A o \in Job :
              Source(o, name', disk') \subseteq Source(o, n, d)
<1>1. name' = n /\ \A f \in File : disk'[f] \in {d[f], <<>>}
  BY StepFacts
<1>2. ToSet(<<>>) = {}
  BY DEF ToSet
<1>3. \A f \in File : ToSet(disk'[f]) \subseteq ToSet(d[f])
  BY <1>1, <1>2
<1>4. n.hist \in File \cup {0} /\ n.bak \in File \cup {0}
  BY DEF Names
<1>5. ToSet(HistoryOf(name', disk')) \subseteq ToSet(HistoryOf(n, d))
  BY <1>1, <1>2, <1>3, <1>4 DEF HistoryOf
<1>6. ASSUME NEW o \in Job
      PROVE  Source(o, name', disk') \subseteq Source(o, n, d)
  <2>1. o.at \in {"create", "copy"} => o.in \in File
    BY DEF Job
  <2> QED BY <1>1, <1>3, <1>4, <2>1 DEF Source, Copies
<1> QED BY <1>1, <1>3, <1>5, <1>6

(* What the step of a child with job j makes of the names and the files:   *)
(* n and d, its job then being k.                                          *)
Makes(j, k, n, d) ==
  /\ \A f \in File : \A x \in ToSet(d[f]) :
       \/ x \in ToSet(disk[f]) \/ (Adds(j) /\ ~Adds(k) /\ x = j.add)
       \/ j.at = "copy" /\ x \in Source(j, name, disk) /\ x # j.del
  /\ n.hist = name.hist \/ HistoryOf(n, d) = <<>>
  /\ k.at = "copy" => k.out = n.hist
  /\ k.at = "link" => n.bak = 0
  /\ \A x \in Source(k, n, d) :
       \/ x \in Source(j, name, disk)
       \/ j.at = "link" /\ j.op = "rewrite" /\ x \in ToSet(file)
  /\ \/ Works(j) \/ Works(k)
     \/ n.bak = name.bak /\ (n.hist = name.hist \/ name.hist = 0)
  /\ \/ removed' = removed
     \/ /\ removed' = removed \cup ToSet(file) /\ Works(j)
        /\ HistoryOf(n, d) = <<>> /\ Source(k, n, d) = {}
  /\ j.at = "start" /\ j.op # "append" => k.at = "link"
  /\ j.at = "link" => k.at = "unlink" \/ HistoryOf(n, d) = <<>>
  /\ j.at = "unlink" => HistoryOf(n, d) = <<>>
  /\ Works(k) /\ ~ Works(j) =>
       \A q \in Prog : \A l \in 1..Len(calls[q]) : ~ Works(calls[q][l].job)

LEMMA ChildMakes ==
  ASSUME TypeOK, "apart" \in env, OneInv, NEW p \in Prog,
         NEW i \in 1..Len(calls[p]), Child(p, i)
  PROVE  \E k \in Job, n \in Names, d \in Disks :
           ChildStep(p, i, k, n, d) /\ Makes(calls[p][i].job, k, n, d)
<1> DEFINE j == calls[p][i].job
<1>1. j \in Job /\ name \in Names /\ disk \in Disks
  BY JobOf DEF TypeOK, Names, Disks
<1>2. /\ name.hist \in File \cup {0} /\ name.bak \in File \cup {0}
      /\ 0 \notin File /\ ToSet(<<>>) = {}
  BY <1>1, ZeroIsNoFile DEF Names, ToSet
<1>3. file = HistoryOf(name, disk) /\ (there <=> name.hist # 0)
  BY DEF file, there, HistoryOf
<1>4. (j.at = "copy" => j.out = name.hist) /\ (j.at = "link" => name.bak = 0)
  BY DEF OneInv, Works
<1> DEFINE Goal == \E l \in Job, m \in Names, e \in Disks :
                     ChildStep(p, i, l, m, e) /\ Makes(j, l, m, e)
<1>5. ASSUME NEW k \in Job, NEW n \in Names, NEW d \in Disks,
             Step(p, i, k, n, d), k.op = j.op, k.add = j.add, k.del = j.del,
             k.skip = j.skip, Makes(j, k, n, d)
      PROVE  Goal
  BY <1>5 DEF ChildStep
<1> SUFFICES Goal
  OBVIOUS
<1>6. /\ Done(j) \in Job /\ Done(j).op = j.op /\ Done(j).add = j.add
      /\ Done(j).del = j.del /\ Done(j).skip = j.skip /\ Done(j).at = "end"
  BY <1>1, DoneIsJob
<1> DEFINE Nobody == \A q \in Prog : \A l \in 1..Len(calls[q]) :
                       ~ Works(calls[q][l].job)
<1>7. Child(p, i) /\ (Unlink(p, i, j) => Nobody)
  BY DEF Unlink, Works
<1> HIDE DEF Nobody
<1> HIDE DEF j, Goal
<1>9. CASE Unlink(p, i, j)
  <2> DEFINE k == [j EXCEPT !.at = "link"]
             n == [name EXCEPT !.bak = 0]
  <2>1. /\ k \in Job /\ k.op = j.op /\ k.add = j.add /\ k.del = j.del
        /\ k.skip = j.skip /\ k.at = "link" /\ n \in Names
        /\ n.hist = name.hist /\ n.bak = 0
    BY <1>1 DEF Job, Names
  <2>2. Step(p, i, k, n, disk) /\ j.at = "start" /\ removed' = removed
    BY <1>9 DEF Unlink
  <2>3. Nobody
    BY <1>7, <1>9
  <2> HIDE DEF k, n
  <2>4. Makes(j, k, n, disk)
    BY <2>1, <2>2, <2>3 DEF Makes, Nobody, Works, Source, Copies
  <2> QED BY <1>1, <1>5, <2>1, <2>2, <2>4
<1>10. CASE Link(p, i, j)
  <2>0. j.at = "link" /\ name.bak = 0 /\ removed' = removed /\ Works(j)
    BY <1>4, <1>10 DEF Link, Works
  <2>1. CASE there
    <3> DEFINE k == [j EXCEPT !.at = "unlink"]
               n == [name EXCEPT !.bak = name.hist]
    <3>1. /\ k \in Job /\ k.op = j.op /\ k.add = j.add /\ k.del = j.del
          /\ k.skip = j.skip /\ k.at = "unlink" /\ n \in Names
          /\ n.hist = name.hist /\ n.bak = name.hist
      BY <1>1, <2>0 DEF Job, Names
    <3>2. Step(p, i, k, n, disk)
      BY <1>10, <2>0, <2>1 DEF Link
    <3> HIDE DEF k, n
    <3>3. Source(k, n, disk) =
            IF j.op = "rewrite" THEN ToSet(file) ELSE {}
      BY <1>3, <2>1, <3>1 DEF Source, Copies, HistoryOf
    <3>4. Makes(j, k, n, disk)
      BY <2>0, <3>1, <3>3 DEF Makes
    <3> QED BY <1>1, <1>5, <3>1, <3>2, <3>4
  <2>2. CASE ~there
    <3>1. Step(p, i, Done(j), name, disk)
      BY <1>10, <2>2 DEF Link
    <3>2. HistoryOf(name, disk) = <<>>
      BY <1>3, <2>2 DEF HistoryOf
    <3>3. Source(Done(j), name, disk) = {}
      BY <1>6 DEF Source, Copies
    <3>4. Makes(j, Done(j), name, disk)
      BY <1>6, <2>0, <3>2, <3>3 DEF Makes
    <3> QED BY <1>1, <1>5, <1>6, <3>1, <3>4
  <2> QED BY <2>1, <2>2
<1>16. CASE UnlinkOld(p, i, j)
  <2> DEFINE n == [name EXCEPT !.hist = 0]
  <2>0. /\ j.at = "unlink" /\ Works(j) /\ n \in Names
        /\ n.bak = name.bak /\ HistoryOf(n, disk) = <<>>
    BY <1>1, <1>16 DEF UnlinkOld, Works, Names, HistoryOf
  <2>1. CASE j.op = "rewrite"
    <3> DEFINE k == [j EXCEPT !.at = "open"]
    <3>1. /\ k \in Job /\ k.op = j.op /\ k.add = j.add /\ k.del = j.del
          /\ k.skip = j.skip /\ k.at = "open"
      BY <1>1 DEF Job
    <3>2. Step(p, i, k, n, disk) /\ removed' = removed
      BY <1>16, <2>1 DEF UnlinkOld
    <3> HIDE DEF k, n
    <3>3. Source(k, n, disk) = Source(j, name, disk)
      BY <2>0, <2>1, <3>1 DEF Source, Copies
    <3>4. Makes(j, k, n, disk)
      BY <2>0, <3>1, <3>2, <3>3 DEF Makes
    <3> QED BY <1>1, <1>5, <2>0, <3>1, <3>2, <3>4
  <2>2. CASE j.op # "rewrite"
    <3>1. /\ Step(p, i, Done(j), n, disk)
          /\ removed' = removed \/ removed' = removed \cup ToSet(file)
      BY <1>16, <2>2 DEF UnlinkOld
    <3> HIDE DEF n
    <3>2. Source(Done(j), n, disk) = {}
      BY <1>6 DEF Source, Copies
    <3>3. Makes(j, Done(j), n, disk)
      BY <1>6, <2>0, <3>1, <3>2 DEF Makes
    <3> QED BY <1>1, <1>5, <1>6, <2>0, <3>1, <3>3
  <2> QED BY <2>1, <2>2
<1>11. CASE OpenBak(p, i, j)
  <2>0. j.at = "open" /\ removed' = removed
    BY <1>11 DEF OpenBak
  <2>1. CASE name.bak = 0
    <3>1. Step(p, i, Done(j), name, disk)
      BY <1>11, <2>1 DEF OpenBak
    <3>2. Makes(j, Done(j), name, disk)
      BY <1>6, <2>0 DEF Makes, Works, Source, Copies
    <3> QED BY <1>1, <1>5, <1>6, <3>1, <3>2
  <2>2. CASE name.bak # 0
    <3> DEFINE k == [j EXCEPT !.at = "create", !.in = name.bak]
    <3>1. /\ k \in Job /\ k.op = j.op /\ k.add = j.add /\ k.del = j.del
          /\ k.skip = j.skip /\ k.at = "create" /\ k.in = name.bak
      BY <1>1, <1>2, <2>0, <2>2 DEF Job
    <3>2. Step(p, i, k, name, disk)
      BY <1>11, <2>2 DEF OpenBak
    <3> HIDE DEF k
    <3>3. Makes(j, k, name, disk)
      BY <2>0, <2>2, <3>1 DEF Makes, Works, Source, Copies
    <3> QED BY <1>1, <1>5, <3>1, <3>2, <3>3
  <2> QED BY <2>1, <2>2
<1>12. CASE Create(p, i, j)
  <2> DEFINE k == [j EXCEPT !.at = "copy", !.out = Opened]
             n == [name EXCEPT !.hist = Opened]
             d == [disk EXCEPT ![Opened] = <<>>]
  <2>0. Opened \in File /\ j.at = "create" /\ removed' = removed
    BY <1>12, OpenedFacts DEF Create
  <2>1. /\ k.op = j.op /\ k.add = j.add /\ k.del = j.del /\ k.skip = j.skip
        /\ k.at = "copy" /\ k.out = Opened /\ k.in = j.in
    BY <1>1 DEF Job
  <2>2. k \in Job
    BY <1>1, <1>2, <2>0 DEF Job
  <2>3. n \in Names /\ n.hist = Opened /\ d \in Disks
    BY SMTT(40), <1>1, <2>0 DEF Names, Disks
  <2>4. d[Opened] = <<>> /\ \A f \in File : d[f] \in {disk[f], <<>>}
    BY <1>1, <2>0 DEF Disks
  <2>5. Step(p, i, k, n, d)
    BY <1>12 DEF Create
  <2>6. j.in \in File
    BY <1>1, <2>0 DEF Job
  <2> HIDE DEF k, n, d
  <2>7. HistoryOf(n, d) = <<>>
    BY <2>3, <2>4 DEF HistoryOf
  <2>8. \A f \in File : ToSet(d[f]) \subseteq ToSet(disk[f])
    BY <1>2, <2>4
  <2>9. Source(k, n, d) \subseteq Source(j, name, disk)
    BY <2>0, <2>1, <2>6, <2>8 DEF Source, Copies
  <2>10. Makes(j, k, n, d)
    <3>1. Works(j) /\ k.at = "copy" /\ k.out = n.hist /\ j.at = "create"
      BY <2>0, <2>1, <2>3 DEF Works
    <3>2. \A x \in Source(k, n, d) : x \in Source(j, name, disk)
      BY <2>9
    <3>3. \A f \in File : \A x \in ToSet(d[f]) : x \in ToSet(disk[f])
      BY <2>8
    <3> QED BY <2>0, <2>7, <3>1, <3>2, <3>3 DEF Makes
  <2> QED BY <1>5, <2>1, <2>2, <2>3, <2>5, <2>10
<1>13. CASE Copy(p, i, j)
  <2> DEFINE r == Rewritten(j, disk[j.in])
             d == [disk EXCEPT ![j.out] = Over(@, r)]
  <2>0. j.at = "copy" /\ j.out \in File /\ j.in \in File /\ removed' = removed
    BY <1>1, <1>13 DEF Copy, Job
  <2>1. disk[j.in] \in Seq(Entry) /\ disk[j.out] \in Seq(Entry)
    BY <1>1, <2>0 DEF Disks
  <2>2. /\ r \in Seq(Entry)
        /\ \A e \in ToSet(r) : \/ e = j.add /\ j.add # NoEntry
                               \/ e \in ToSet(disk[j.in]) /\ e # j.del
    BY <1>1, <2>1, RewrittenFacts
  <2>3. Step(p, i, Done(j), name, d)
    BY <1>13 DEF Copy
  <2> HIDE DEF r
  <2>4. /\ Over(disk[j.out], r) \in Seq(Entry)
        /\ ToSet(Over(disk[j.out], r)) \subseteq ToSet(disk[j.out]) \cup ToSet(r)
    BY <2>1, <2>2, OverFacts
  <2>5. /\ d \in Disks /\ d[j.out] = Over(disk[j.out], r)
        /\ \A f \in File \ {j.out} : d[f] = disk[f]
    BY <1>1, <2>0, <2>4 DEF Disks
  <2> HIDE DEF d
  <2>6. Source(j, name, disk) = ToSet(disk[j.in])
    BY <2>0 DEF Source, Copies
  <2>7. ASSUME NEW f \in File, NEW x \in ToSet(d[f])
        PROVE  \/ x \in ToSet(disk[f]) \/ (Adds(j) /\ ~Adds(Done(j)) /\ x = j.add)
               \/ j.at = "copy" /\ x \in Source(j, name, disk) /\ x # j.del
    <3>1. CASE f = j.out
      BY <1>6, <2>0, <2>2, <2>4, <2>5, <2>6, <2>7, <3>1 DEF Adds
    <3>2. CASE f # j.out
      BY <2>5, <2>7, <3>2
    <3> QED BY <3>1, <3>2
  <2>8. Makes(j, Done(j), name, d)
    BY <1>6, <2>0, <2>7 DEF Makes, Works, Source, Copies
  <2> QED BY <1>1, <1>5, <1>6, <2>3, <2>5, <2>8
<1>14. CASE OpenEnd(p, i, j)
  <2> DEFINE k == [j EXCEPT !.at = "write", !.out = Opened]
             n == [name EXCEPT !.hist = Opened]
             d == IF there THEN disk ELSE [disk EXCEPT ![Opened] = <<>>]
  <2>0. /\ Opened \in File /\ j.at = "start" /\ removed' = removed
        /\ j.op = "append" /\ (there => Opened = name.hist)
    BY <1>14, OpenedFacts DEF OpenEnd
  <2>1. /\ k.op = j.op /\ k.add = j.add /\ k.del = j.del /\ k.skip = j.skip
        /\ k.at = "write" /\ k.out = Opened
    BY <1>1 DEF Job
  <2>2. k \in Job
    BY <1>1, <1>2, <2>0 DEF Job
  <2>3. n \in Names /\ n.hist = Opened /\ n.bak = name.bak /\ d \in Disks
    BY SMTT(40), <1>1, <2>0 DEF Names, Disks
  <2>4. /\ there => d = disk
        /\ ~there => d[Opened] = <<>>
        /\ \A f \in File : d[f] \in {disk[f], <<>>}
    BY <1>1, <2>0 DEF Disks
  <2>5. Step(p, i, k, n, d)
    BY <1>14 DEF OpenEnd
  <2> HIDE DEF k, n, d
  <2>6. \A f \in File : ToSet(d[f]) \subseteq ToSet(disk[f])
    BY <1>2, <2>4
  <2>7. n.hist = name.hist \/ (name.hist = 0 /\ HistoryOf(n, d) = <<>>)
    BY <1>3, <2>0, <2>3, <2>4 DEF HistoryOf
  <2>8. Makes(j, k, n, d)
    BY <2>0, <2>1, <2>3, <2>6, <2>7 DEF Makes, Works, Source, Copies
  <2> QED BY <1>5, <2>1, <2>2, <2>3, <2>5, <2>8
<1>15. CASE WriteEnd(p, i, j)
  <2> DEFINE d == [disk EXCEPT ![j.out] = Append(@, j.add)]
  <2>0. /\ j.at = "write" /\ j.out \in File /\ removed' = removed
        /\ j.add \in Entry /\ j.add # NoEntry
    BY <1>1, <1>15 DEF WriteEnd, Job
  <2>1. disk[j.out] \in Seq(Entry)
    BY <1>1, <2>0 DEF Disks
  <2>2. /\ Append(disk[j.out], j.add) \in Seq(Entry)
        /\ ToSet(Append(disk[j.out], j.add)) \subseteq ToSet(disk[j.out]) \cup {j.add}
    BY <2>0, <2>1, AppendProperties, ToSetAppend
  <2>3. /\ d \in Disks /\ d[j.out] = Append(disk[j.out], j.add)
        /\ \A f \in File \ {j.out} : d[f] = disk[f]
    BY <1>1, <2>0, <2>2 DEF Disks
  <2>4. Step(p, i, Done(j), name, d)
    BY <1>15 DEF WriteEnd
  <2> HIDE DEF d
  <2>5. ASSUME NEW f \in File, NEW x \in ToSet(d[f])
        PROVE  \/ x \in ToSet(disk[f]) \/ (Adds(j) /\ ~Adds(Done(j)) /\ x = j.add)
    <3>1. CASE f = j.out
      BY <1>6, <2>0, <2>2, <2>3, <2>5, <3>1 DEF Adds
    <3>2. CASE f # j.out
      BY <2>3, <2>5, <3>2
    <3> QED BY <3>1, <3>2
  <2>6. Makes(j, Done(j), name, d)
    BY <1>6, <2>0, <2>5 DEF Makes, Works, Source, Copies
  <2> QED BY <1>1, <1>5, <1>6, <2>3, <2>4, <2>6
<1> QED BY <1>7, <1>9, <1>10, <1>11, <1>12, <1>13, <1>14, <1>15, <1>16
       DEF Child, j

(* A child that goes on, with no other one that rewrites the file, keeps   *)
(* the invariants.                                                         *)
LEMMA ChildKeepsGone ==
  ASSUME TypeOK, TypeOK', "apart" \in env, OldInv, AddsInv, OneInv, DropsInv,
         NEW p \in Prog, NEW i \in 1..Len(calls[p]), Child(p, i)
  PROVE  OldInv' /\ AddsInv' /\ OneInv' /\ DropsInv'
<1> USE ProgAssumption
<1> DEFINE j == calls[p][i].job
<1>1. PICK k \in Job, n \in Names, d \in Disks :
        ChildStep(p, i, k, n, d) /\ Makes(j, k, n, d)
  BY ChildMakes
<1>2. /\ j \in Job /\ k.op = j.op /\ k.add = j.add /\ k.del = j.del
      /\ Step(p, i, k, n, d)
  BY <1>1, JobOf DEF ChildStep
<1>3. /\ \A q \in Prog \ {p} : calls'[q] = calls[q]
      /\ Len(calls'[p]) = Len(calls[p])
      /\ \A l \in 1..Len(calls[p]) \ {i} : calls'[p][l] = calls[p][l]
      /\ calls'[p][i] = [fn |-> calls[p][i].fn, job |-> k]
      /\ name' = n
  BY <1>2, StepFacts
<1>4. calls'[p][i].job = k /\ UNCHANGED <<time, list>>
  BY <1>2, <1>3 DEF Step
<1>5. /\ \A f \in File : ToSet(disk'[f]) \subseteq ToSet(d[f])
      /\ ToSet(HistoryOf(name', disk')) \subseteq ToSet(HistoryOf(n, d))
      /\ \A o \in Job : Source(o, name', disk') \subseteq Source(o, n, d)
  BY <1>2, StepSets
<1>6. /\ file = HistoryOf(name, disk) /\ file' = HistoryOf(name', disk')
      /\ ToSet(<<>>) = {}
  BY DEF file, there, HistoryOf, ToSet
<1>7. /\ name.hist \in File \cup {0} /\ name.bak \in File \cup {0}
      /\ n.hist \in File \cup {0} /\ n.bak \in File \cup {0}
  BY DEF TypeOK, Names
<1>8. j.at \in {"create", "copy"} => j.in \in File
  BY <1>2 DEF Job
<1>9. /\ ToSet(file) \subseteq Written /\ Written \subseteq Entry
      /\ \A f \in File : ToSet(disk[f]) \subseteq Written
      /\ Source(j, name, disk) \subseteq Written
  <2>1. /\ ToSet(file) \subseteq Written /\ Written \subseteq Entry
        /\ \A f \in File : ToSet(disk[f]) \subseteq Written
    BY WrittenFacts
  <2> HIDE DEF j
  <2> QED BY <1>7, <1>8, <2>1 DEF Source, Copies
<1>10. Adds(j) => NowhereYet(p, j.add)
  BY DEF AddsInv
<1>11. time \in Nat
  BY DEF TypeOK
<1>12. \A q \in Prog : Len(calls[q]) \in Nat
  BY DEF TypeOK
<1>13. Makes(j, k, n, d)
  BY <1>1
<1> HIDE DEF j
(* What is new in the files.                                               *)
<1>14. \A f \in File : \A x \in ToSet(disk'[f]) :
         \/ x \in ToSet(disk[f]) \/ (Adds(j) /\ ~Adds(k) /\ x = j.add)
         \/ j.at = "copy" /\ x \in Source(j, name, disk) /\ x # j.del
  BY <1>5, <1>13 DEF Makes
<1>15. \A x \in Written' :
         x \in Written \/ (Adds(j) /\ ~Adds(k) /\ x = j.add)
  <2>1. \A x \in Written' : \E f \in File : x \in ToSet(disk'[f])
    BY DEF Written
  <2> QED BY <1>9, <1>14, <2>1
<1>16. \A x \in ToSet(file') :
         \/ x \in ToSet(file) \/ (Adds(j) /\ ~Adds(k) /\ x = j.add)
         \/ j.at = "copy" /\ x \in Source(j, name, disk) /\ x # j.del
  <2>1. CASE HistoryOf(n, d) = <<>>
    BY <1>5, <1>6, <2>1
  <2>2. CASE n.hist = name.hist
    <3>1. CASE n.hist = 0
      <4>1. HistoryOf(n, d) = <<>>
        BY <3>1 DEF HistoryOf
      <4> QED BY <2>1, <4>1
    <3>2. CASE n.hist # 0
      <4>1. n.hist \in File /\ file' = disk'[n.hist] /\ file = disk[n.hist]
        BY <1>3, <1>6, <1>7, <2>2, <3>2 DEF HistoryOf
      <4> QED BY <1>14, <4>1
    <3> QED BY <3>1, <3>2
  <2> QED BY <1>13, <2>1, <2>2 DEF Makes
<1>17. removed' \subseteq removed \cup Written
  BY <1>9, <1>13 DEF Makes
<1>18. OldInv'
  <2> SUFFICES ASSUME NEW x \in Written' \cup removed' \cup ToSet(list'[Xmcd])
               PROVE  x.time <= time'
    BY DEF OldInv
  <2>1. \/ x \in Written \cup removed \cup ToSet(list[Xmcd])
        \/ Adds(j) /\ x = j.add
    BY <1>4, <1>15, <1>17
  <2> QED BY <1>4, <1>10, <2>1 DEF OldInv, NowhereYet
<1>19. AddsInv'
  <2> DEFINE z == IF Adds(k) THEN 0 ELSE i
  <2>1. \A q \in Prog : \A l \in 1..Len(calls[q]) :
          Adds(calls[q][l].job) /\ ~ (q = p /\ l = z) =>
            /\ calls[q][l].job.add \notin Written'
            /\ calls[q][l].job.add \notin removed'
            /\ q # Xmcd => calls[q][l].job.add \notin ToSet(list'[Xmcd])
    <3> SUFFICES ASSUME NEW q \in Prog, NEW l \in 1..Len(calls[q]),
                        Adds(calls[q][l].job), ~ (q = p /\ l = z)
                 PROVE  /\ calls[q][l].job.add \notin Written'
                        /\ calls[q][l].job.add \notin removed'
                        /\ q # Xmcd =>
                             calls[q][l].job.add \notin ToSet(list'[Xmcd])
      OBVIOUS
    <3>1. Adds(j) /\ ~Adds(k) => calls[q][l].job.add # j.add
      BY DEF AddsInv, j
    <3>2. NowhereYet(q, calls[q][l].job.add)
      BY DEF AddsInv
    <3> HIDE DEF z
    <3> QED BY <1>4, <1>15, <1>17, <3>1, <3>2 DEF NowhereYet
  <2>2. ASSUME NEW l \in 1..Len(calls'[p])
        PROVE  \/ ~ Adds(calls'[p][l].job)
               \/ /\ l + 0 \in 1..Len(calls[p]) /\ l + 0 # z
                  /\ Adds(calls[p][l + 0].job)
                  /\ calls'[p][l].job.add = calls[p][l + 0].job.add
    <3>1. l \in 1..Len(calls[p]) /\ l + 0 = l /\ l # 0
      BY <1>3, <1>12
    <3>2. CASE l = i
      <4>1. Adds(k) => Adds(j)
        BY <1>2, <1>13, ChildSteps DEF Adds, j
      <4> QED BY <1>2, <1>4, <3>1, <3>2, <4>1 DEF j
    <3>3. CASE l # i
      BY <1>3, <3>1, <3>3
    <3> QED BY <3>2, <3>3
  <2>3. time <= time' /\ z \in Int
    BY <1>4, <1>11, <1>12
  <2> HIDE DEF z
  <2>4. Moved(p, 0, z, NoEntry)
    BY <1>3, <2>1, <2>2, <2>3 DEF Moved
  <2> QED BY <2>3, <2>4, AddsKept

(* The calls afterwards.                                                   *)
<1>20. ASSUME NEW q \in Prog, NEW l \in 1..Len(calls'[q])
       PROVE  /\ l \in 1..Len(calls[q])
              /\ \/ q = p /\ l = i /\ calls'[q][l].job = k
                 \/ ~ (q = p /\ l = i) /\ calls'[q][l] = calls[q][l]
  <2>1. l \in 1..Len(calls[q])
    BY <1>3
  <2> QED BY <1>3, <1>4, <2>1
<1>21. ASSUME NEW q \in Prog, NEW l \in 1..Len(calls[q]),
              ~ (q = p /\ l = i), Works(calls[q][l].job)
       PROVE  /\ ~ Works(j) /\ ~ Works(k) /\ n.bak = name.bak
              /\ n.hist = name.hist \/ name.hist = 0
  <2>1. ~ Works(j)
    BY <1>21 DEF OneInv, j
  <2>2. ~ Works(k)
    BY <1>13, <1>21, <2>1 DEF Makes
  <2> QED BY <1>13, <2>1, <2>2 DEF Makes
<1>22. OneInv'
  <2>1. ASSUME NEW q \in Prog, NEW l \in 1..Len(calls'[q]),
               Works(calls'[q][l].job),
               NEW r \in Prog, NEW m \in 1..Len(calls'[r]),
               Works(calls'[r][m].job)
        PROVE  r = q /\ m = l
    <3>1. l \in 1..Len(calls[q]) /\ m \in 1..Len(calls[r])
      BY <1>20
    <3>2. CASE q = p /\ l = i
      BY <1>20, <1>21, <2>1, <3>1, <3>2
    <3>3. CASE ~ (q = p /\ l = i)
      <4>1. Works(calls[q][l].job) /\ ~Works(k)
        BY <1>20, <1>21, <2>1, <3>1, <3>3
      <4>2. Works(calls[r][m].job)
        BY <1>20, <2>1, <4>1
      <4> QED BY <3>1, <4>1, <4>2 DEF OneInv
    <3> QED BY <3>2, <3>3
  <2>2. ASSUME NEW q \in Prog, NEW l \in 1..Len(calls'[q]),
               Works(calls'[q][l].job), calls'[q][l].job.at = "copy"
        PROVE  calls'[q][l].job.out = name'.hist
    <3>1. l \in 1..Len(calls[q])
      BY <1>20
    <3>2. CASE q = p /\ l = i
      BY <1>3, <1>4, <1>13, <2>2, <3>2 DEF Makes
    <3>3. CASE ~ (q = p /\ l = i)
      <4>1. calls'[q][l] = calls[q][l]
        BY <1>20, <3>3
      <4>2. n.hist = name.hist \/ name.hist = 0
        BY <1>21, <2>2, <3>1, <3>3, <4>1
      <4>3. calls[q][l].job.out = name.hist
        BY <2>2, <3>1, <4>1 DEF OneInv
      <4>4. calls[q][l].job.out # 0
        BY <2>2, <3>1, <4>1, JobOf DEF Job
      <4> QED BY <1>3, <4>1, <4>2, <4>3, <4>4
    <3> QED BY <3>2, <3>3
  <2>3. ASSUME NEW q \in Prog, NEW l \in 1..Len(calls'[q]),
               calls'[q][l].job.at = "link"
        PROVE  name'.bak = 0
    <3>1. l \in 1..Len(calls[q])
      BY <1>20
    <3>2. CASE q = p /\ l = i
      BY <1>3, <1>4, <1>13, <2>3, <3>2 DEF Makes
    <3>3. CASE ~ (q = p /\ l = i)
      <4>1. calls'[q][l] = calls[q][l] /\ Works(calls[q][l].job)
        BY <1>20, <2>3, <3>3 DEF Works
      <4>2. n.bak = name.bak
        BY <1>21, <3>1, <3>3, <4>1
      <4>3. name.bak = 0
        BY <2>3, <3>1, <4>1 DEF OneInv
      <4> QED BY <1>3, <4>2, <4>3
    <3> QED BY <3>2, <3>3
  <2> QED BY <2>1, <2>2, <2>3 DEF OneInv
(* Who takes an entry away.                                                *)
<1> DEFINE Then(e, A) == \E l \in 1..Len(calls'[Xmcd]) :
             calls'[Xmcd][l].job.at \in A /\ Drops(calls'[Xmcd][l].job, e)
<1>23. ASSUME NEW e, NEW A, Left(e, A)
       PROVE  Then(e, A) \/ (p = Xmcd /\ j.at \in A /\ Drops(j, e))
  <2>1. PICK l \in 1..Len(calls[Xmcd]) : /\ calls[Xmcd][l].job.at \in A
                                         /\ Drops(calls[Xmcd][l].job, e)
    BY <1>23 DEF Left
  <2>2. CASE p = Xmcd /\ l = i
    BY <2>1, <2>2 DEF j
  <2>3. CASE ~ (p = Xmcd /\ l = i)
    <3>1. l \in 1..Len(calls'[Xmcd]) /\ calls'[Xmcd][l] = calls[Xmcd][l]
      BY <1>3, <2>3
    <3> QED BY <2>1, <3>1
  <2> QED BY <2>2, <2>3
<1>24. ASSUME NEW e, Drops(j, e), j.at = "start"
       PROVE  Works(k) /\ k.at = "link" /\ Drops(k, e)
  <2>1. j.op # "append"
    BY <1>24 DEF Drops
  <2> QED BY <1>2, <1>13, <1>24, <2>1 DEF Makes, Drops, Works
<1>25. \A e : Left(e, {"start"}) /\ j.at # "start" => Then(e, {"start"})
  BY <1>23
<1>26. ASSUME NEW e \in ToSet(file'), e \in removed'
       PROVE  Then(e, {"start", "link", "unlink"})
  <2>1. removed' = removed
    BY <1>5, <1>6, <1>13, <1>26 DEF Makes
  <2>2. CASE e \in ToSet(file)
    <3>1. Left(e, {"start", "link", "unlink"})
      BY <1>26, <2>1, <2>2 DEF DropsInv
    <3>2. CASE p = Xmcd /\ j.at \in {"start", "link", "unlink"} /\ Drops(j, e)
      <4>1. j.at # "unlink" /\ (j.at = "link" => k.at = "unlink")
        BY <1>5, <1>6, <1>13, <1>26 DEF Makes
      <4>2. k.at \in {"link", "unlink"} /\ Drops(k, e)
        BY <1>2, <1>24, <3>2, <4>1 DEF Drops
      <4>3. i \in 1..Len(calls'[Xmcd]) /\ calls'[Xmcd][i].job = k
        BY <1>3, <1>4, <3>2
      <4> QED BY <4>2, <4>3
    <3> QED BY <1>23, <3>1, <3>2
  <2>3. CASE Adds(j) /\ e = j.add
    BY <1>10, <1>26, <2>1, <2>3 DEF NowhereYet
  <2>4. CASE j.at = "copy" /\ e \in Source(j, name, disk) /\ e # j.del
    <3>1. Left(e, {"start"})
      BY <1>26, <2>1, <2>4 DEF DropsInv, j
    <3>2. Then(e, {"start"})
      BY <1>25, <2>4, <3>1
    <3> QED BY <3>2
  <2> QED BY <1>16, <1>26, <2>2, <2>3, <2>4
<1>27. ASSUME NEW e \in Source(k, name', disk'), e \in removed'
       PROVE  e = k.del \/ Then(e, {"start"})
  <2>1. e \in Source(k, n, d)
    BY <1>5
  <2>2. removed' = removed
    BY <1>13, <2>1 DEF Makes
  <2>3. CASE e \in Source(j, name, disk)
    <3>1. e = j.del \/ Left(e, {"start"})
      BY <1>27, <2>2, <2>3 DEF DropsInv, j
    <3>2. j.at # "start"
      BY <2>3 DEF Source, Copies
    <3> QED BY <1>2, <1>25, <3>1, <3>2
  <2>4. CASE j.at = "link" /\ j.op = "rewrite" /\ e \in ToSet(file)
    <3>1. Left(e, {"start", "link", "unlink"})
      BY <1>27, <2>2, <2>4 DEF DropsInv
    <3>2. PICK l \in 1..Len(calls[Xmcd]) :
                 /\ calls[Xmcd][l].job.at \in {"start", "link", "unlink"}
                 /\ Drops(calls[Xmcd][l].job, e)
      BY <3>1 DEF Left
    <3>3. CASE p = Xmcd /\ l = i
      <4>1. Drops(j, e)
        BY <3>2, <3>3 DEF j
      <4> QED BY <1>2, <2>4, <4>1 DEF Drops
    <3>4. CASE ~ (p = Xmcd /\ l = i)
      <4>1. Works(j)
        BY <2>4 DEF Works
      <4>2. ~ Works(calls[Xmcd][l].job)
        BY <1>21, <3>4, <4>1
      <4>3. calls[Xmcd][l].job.at = "start"
        BY <3>2, <4>2 DEF Works
      <4>4. Left(e, {"start"})
        BY <3>2, <4>3 DEF Left
      <4> QED BY <1>25, <2>4, <4>4
    <3> QED BY <3>3, <3>4
  <2> QED BY <1>13, <2>1, <2>3, <2>4 DEF Makes
<1>28. ASSUME NEW q \in Prog, NEW l \in 1..Len(calls[q]),
              ~ (q = p /\ l = i),
              NEW e \in Source(calls[q][l].job, name', disk'), e \in removed'
       PROVE  e = calls[q][l].job.del \/ Then(e, {"start"})
  <2> DEFINE o == calls[q][l].job
  <2>1. o \in Job /\ Works(o)
    BY <1>28, JobOf DEF Source, Copies, Works
  <2>2. ~ Works(j) /\ ~ Works(k) /\ n.bak = name.bak
    BY <1>21, <1>28, <2>1
  <2>3. removed' = removed
    BY <1>13, <2>2 DEF Makes
  <2>4. j.at # "copy" /\ (Adds(j) => j.add \notin removed)
    BY <1>10, <2>2 DEF Works, NowhereYet
  <2>5. o.at \in {"create", "copy"} => o.in \in File
    BY <2>1 DEF Job
  <2>6. e \in Source(o, name', disk')
    BY <1>28
  <2>7. o = calls[q][l].job
    OBVIOUS
  <2> HIDE DEF o
  <2>8. e \in Source(o, name, disk)
    <3>1. CASE Copies(o) /\ name.bak # 0
      <4>1. e \in ToSet(disk'[name.bak]) /\ name.bak \in File
        BY <1>3, <1>7, <2>2, <2>6, <3>1 DEF Source, Copies
      <4>2. e \in ToSet(disk[name.bak])
        BY <1>14, <1>28, <2>3, <2>4, <4>1
      <4> QED BY <3>1, <4>2 DEF Source, Copies
    <3>2. CASE o.at \in {"create", "copy"}
      <4>1. e \in ToSet(disk'[o.in]) /\ o.in \in File
        BY <2>5, <2>6, <3>2 DEF Source, Copies
      <4>2. e \in ToSet(disk[o.in])
        BY <1>14, <1>28, <2>3, <2>4, <4>1
      <4> QED BY <3>2, <4>2 DEF Source, Copies
    <3> QED BY <1>3, <2>2, <2>6, <3>1, <3>2 DEF Source, Copies
  <2>9. e = o.del \/ Left(e, {"start"})
    BY <1>28, <2>3, <2>7, <2>8 DEF DropsInv
  <2>10. CASE Left(e, {"start"})
    <3>1. ~ (j.at = "start" /\ Drops(j, e))
      BY <1>24, <2>2
    <3> QED BY <1>23, <2>10, <3>1
  <2> QED BY <2>7, <2>9, <2>10
<1>29. DropsInv'
  <2>2. \A e : (Then(e, {"start"}) <=> Left(e, {"start"})')
            /\ (Then(e, {"start", "link", "unlink"}) <=> Left(e, {"start", "link", "unlink"})')
    BY DEF Left, Drops
  <2> HIDE DEF Then
  <2>3. \A e \in ToSet(file') \cap removed' : Left(e, {"start", "link", "unlink"})'
    BY <1>26, <2>2
  <2>4. ASSUME NEW q \in Prog, NEW l \in 1..Len(calls'[q]),
               NEW e \in Source(calls'[q][l].job, name', disk'), e \in removed'
        PROVE  e = calls'[q][l].job.del \/ Left(e, {"start"})'
    <3>1. CASE q = p /\ l = i
      <4>1. calls'[q][l].job = k
        BY <1>4, <3>1
      <4> QED BY <1>27, <2>2, <2>4, <4>1
    <3>2. CASE ~ (q = p /\ l = i)
      <4>1. l \in 1..Len(calls[q]) /\ calls'[q][l] = calls[q][l]
        BY <1>20, <3>2
      <4> QED BY <1>28, <2>2, <2>4, <3>2, <4>1
    <3> QED BY <3>1, <3>2
  <2> QED BY <2>3, <2>4 DEF DropsInv, Source, Copies
<1> QED BY <1>18, <1>19, <1>22, <1>29

LEMMA NextKeepsGone ==
  ASSUME TypeOK, TypeOK', GoneInv, [Next]_vars
  PROVE  GoneInv'
<1> USE ProgAssumption
<1>0. env' = env
  BY EnvStays
<1> SUFFICES ASSUME "apart" \in env, env \cap {"nest", "fail"} = {}, env' = env
             PROVE  GoneInv'
  BY <1>0 DEF GoneInv
<1>a. OldInv /\ AddsInv /\ OneInv /\ DropsInv
  BY DEF GoneInv
<1>b. "nest" \notin env /\ "fail" \notin env
  OBVIOUS
<1>c. /\ file \in Seq(Entry) /\ ToSet(file) \subseteq Written
      /\ Written \subseteq Entry /\ list \in [Prog -> Seq(Entry)]
      /\ list[Xmcd] \in Seq(Entry) /\ calls \in [Prog -> Seq(Call)]
      /\ time \in Nat /\ time' \in Nat /\ removed \subseteq Entry
      /\ calls' \in [Prog -> Seq(Call)]
  <2>0. file \in Seq(Entry)
    BY FileType
  <2>1. file \in Seq(Entry) /\ ToSet(file) \subseteq Written /\ Written \subseteq Entry
    <3>1. ToSet(file) \subseteq Written /\ Written \subseteq Entry
      BY WrittenFacts
    <3> QED BY <2>0, <3>1
  <2>2. /\ list \in [Prog -> Seq(Entry)] /\ calls \in [Prog -> Seq(Call)]
        /\ time \in Nat /\ removed \subseteq Entry
    <3>1. time \in Nat
      BY DEF TypeOK
    <3>2. list \in [Prog -> Seq(Entry)] /\ calls \in [Prog -> Seq(Call)]
      BY DEF TypeOK
    <3>3. removed \subseteq Entry
      BY DEF TypeOK
    <3> QED BY <3>1, <3>2, <3>3
  <2>3. time' \in Nat /\ calls' \in [Prog -> Seq(Call)]
    BY DEF TypeOK
  <2>4. list[Xmcd] \in Seq(Entry)
    BY <2>2
  <2> QED BY <2>1, <2>2, <2>3, <2>4
<1>d. \A q \in Prog : Len(calls[q]) \in Nat /\ Len(calls'[q]) \in Nat
  BY <1>c
(* What is still to be added is nowhere yet.                               *)
<1>e. ASSUME NEW q \in Prog, NEW k \in 1..Len(calls[q]), Adds(calls[q][k].job)
      PROVE  LET e == calls[q][k].job.add IN
             /\ e.time <= time /\ e.time \in Nat /\ e \in Entry
             /\ e \notin Written /\ e \notin removed
             /\ q # Xmcd => e \notin ToSet(list[Xmcd])
  <2>1. NowhereYet(q, calls[q][k].job.add)
    BY <1>a, <1>e DEF AddsInv
  <2>2. calls[q][k].job.add \in Entry
    <3>1. calls[q] \in Seq(Call)
      BY <1>c
    <3>2. calls[q][k] \in Call
      BY <3>1
    <3> QED BY <1>e, <3>2 DEF Call, Job, Adds
  <2>3. \A e \in Entry : e.time \in Nat
    BY BoundsAssumption DEF Entry
  <2> QED BY <2>1, <2>2, <2>3 DEF NowhereYet
(* The files are as before.                                                *)
<1>h. UNCHANGED fileVars => file' = file /\ Written' = Written
  BY DEF fileVars, file, there, Written
(* A step that leaves the file, the calls and the deleted entries alone.   *)
<1>f. ASSUME UNCHANGED <<fileVars, calls, removed, time>>,
             ToSet(list'[Xmcd]) \subseteq ToSet(list[Xmcd]) \cup ToSet(file)
      PROVE  GoneInv'
  <2>1. OldInv'
    BY <1>a, <1>c, <1>f, <1>h DEF OldInv
  <2>2. /\ \A q \in Prog : calls'[q] = calls[q]
        /\ \A k \in 1..Len(calls[Xmcd]) : /\ k + 0 = k /\ k - 0 = k /\ k # 0
                                          /\ k \in 1..Len(calls'[Xmcd])
        /\ Len(calls'[Xmcd]) = Len(calls[Xmcd])
    BY <1>d, <1>f
  <2>3. AddsInv'
    <3>1. \A k \in 1..Len(calls'[Xmcd]) :
            \/ ~ Adds(calls'[Xmcd][k].job)
            \/ /\ k + 0 \in 1..Len(calls[Xmcd]) /\ k + 0 # 0
               /\ Adds(calls[Xmcd][k + 0].job)
               /\ calls'[Xmcd][k].job.add = calls[Xmcd][k + 0].job.add
      BY <2>2
    <3>2. \A q \in Prog : \A k \in 1..Len(calls[q]) :
            Adds(calls[q][k].job) =>
             /\ calls[q][k].job.add \notin Written'
             /\ calls[q][k].job.add \notin removed'
             /\ q # Xmcd => calls[q][k].job.add \notin ToSet(list'[Xmcd])
      BY <1>c, <1>e, <1>f, <1>h
    <3>3. time <= time'
      BY <1>c, <1>f
    <3>4. Moved(Xmcd, 0, 0, NoEntry)
      BY <2>2, <3>1, <3>2, <3>3 DEF Moved
    <3> QED BY <1>a, <3>4, AddsKept
  <2>4. Shifted(Xmcd, 0) /\ removed' = removed
    BY <1>f, <2>2 DEF Shifted
  <2>5. OneInv' /\ DropsInv'
    BY <1>a, <2>4, ShiftKeepsOne, ShiftKeepsDrops
  <2> QED BY <2>1, <2>3, <2>5 DEF GoneInv
(* A command of xmcd that deletes the entries D, and starts a child with   *)
(* job j.                                                                  *)
<1>g. ASSUME NEW f \in {"del", "delall"}, NEW j \in Job, NEW D,
             D \subseteq ToSet(list[Xmcd]), j.add = NoEntry,
             j.at = "start",
             \A e \in D : Drops(j, e), calls[Xmcd] = <<>>, Wait(Xmcd, f, j),
             UNCHANGED <<fileVars, time>>, removed' = removed \cup D,
             ToSet(list'[Xmcd]) \subseteq ToSet(list[Xmcd])
      PROVE  GoneInv'
  <2>1. OldInv'
    BY <1>a, <1>g, <1>h DEF OldInv
  <2>2. /\ \A q \in Prog \ {Xmcd} : calls'[q] = calls[q]
        /\ Len(calls'[Xmcd]) = 1 /\ calls'[Xmcd][1].job = j
    <3>1. /\ \A q \in Prog \ {Xmcd} : calls'[q] = calls[q]
          /\ Len(calls'[Xmcd]) = Len(calls[Xmcd]) + 1
          /\ calls'[Xmcd][1] = [fn |-> f, job |-> j]
      <4>1. f \in {"add", "del", "delall"} /\ f # "add"
        BY <1>g
      <4> QED BY ZenonT(60), <1>g, <4>1, WaitFacts
    <3>2. Len(calls[Xmcd]) = 0
      BY <1>g
    <3> QED BY <3>1, <3>2
  <2>3. AddsInv'
    <3>1. \A k \in 1..Len(calls'[Xmcd]) : ~ Adds(calls'[Xmcd][k].job)
      BY <1>g, <2>2 DEF Adds
    <3>2. \A q \in Prog : \A k \in 1..Len(calls[q]) :
            Adds(calls[q][k].job) =>
             /\ calls[q][k].job.add \notin Written'
             /\ calls[q][k].job.add \notin removed'
             /\ q # Xmcd => calls[q][k].job.add \notin ToSet(list'[Xmcd])
      <4> SUFFICES ASSUME NEW q \in Prog, NEW k \in 1..Len(calls[q]),
                          Adds(calls[q][k].job)
                   PROVE  /\ calls[q][k].job.add \notin Written'
                          /\ calls[q][k].job.add \notin removed'
                          /\ q # Xmcd =>
                               calls[q][k].job.add \notin ToSet(list'[Xmcd])
        OBVIOUS
      <4>1. q # Xmcd
        <5>1. Len(calls[Xmcd]) = 0
          BY <1>g
        <5> QED BY <5>1
      <4> QED BY <1>e, <1>g, <1>h, <4>1
    <3>3. time <= time'
      BY <1>c, <1>g
    <3>4. Moved(Xmcd, 0, 0, NoEntry)
      BY <2>2, <3>1, <3>2, <3>3 DEF Moved
    <3> QED BY <1>a, <3>4, AddsKept
  <2>4. Shifted(Xmcd, -1)
    <3>1. \A k \in 1..Len(calls'[Xmcd]) : ~ Works(calls'[Xmcd][k].job)
      BY <1>g, <2>2 DEF Works
    <3>2. Len(calls[Xmcd]) = 0
      BY <1>g
    <3> QED BY <1>g, <2>2, <3>1, <3>2 DEF Shifted
  <2>5. OneInv'
    <3>1. -1 \in {-1, 0, 1}
      OBVIOUS
    <3> QED BY <1>a, <2>4, <3>1, ShiftKeepsOne
  <2>6. \A e, A : ~ Left(e, A)
    <3>1. Len(calls[Xmcd]) = 0
      BY <1>g
    <3> QED BY <3>1 DEF Left
  <2>7. \A e \in D : \A A \in {{"start"}, {"start", "link", "unlink"}} :
          \E k \in 1..Len(calls'[Xmcd]) : /\ calls'[Xmcd][k].job.at \in A
                                          /\ Drops(calls'[Xmcd][k].job, e)
    BY <1>g, <2>2
  <2>8. \A e \in D : Left(e, {"start"})' /\ Left(e, {"start", "link", "unlink"})'
    BY <2>7 DEF Left, Drops
  <2>9. ASSUME NEW e \in ToSet(file'), e \in removed'
        PROVE  Left(e, {"start", "link", "unlink"})'
    <3>1. e \notin removed
      BY <1>a, <1>g, <1>h, <2>6, <2>9 DEF DropsInv
    <3> QED BY <1>g, <2>8, <2>9, <3>1
  <2>10. ASSUME NEW q \in Prog, NEW k \in 1..Len(calls'[q]),
                NEW e \in Source(calls'[q][k].job, name', disk'), e \in removed'
         PROVE  e = calls'[q][k].job.del \/ Left(e, {"start"})'
    <3>1. name' = name /\ disk' = disk
      BY <1>g DEF fileVars
    <3>2. q # Xmcd
      <4>1. calls'[q][k].job.at # "start"
        BY <2>10 DEF Source, Copies
      <4> QED BY <1>g, <2>2, <4>1
    <3>3. calls'[q] = calls[q]
      BY <2>2, <3>2
    <3>4. e \in removed => e = calls'[q][k].job.del
      BY <1>a, <2>6, <2>10, <3>1, <3>3 DEF DropsInv
    <3> QED BY <1>g, <2>8, <2>10, <3>4
  <2>11. DropsInv'
    BY <2>9, <2>10 DEF DropsInv, Source, Copies
  <2> QED BY <2>1, <2>3, <2>5, <2>11 DEF GoneInv
<1>1. CASE UNCHANGED vars
  BY <1>1, <1>f DEF vars
<1>2. CASE Delete
  <2> DEFINE old == list[Xmcd]
             i   == dlist_pos
             m   == Len(old) - 1
  <2>1. calls[Xmcd] = <<>> /\ i \in Nat \ {0}
    BY <1>2, <1>b DEF Delete, Free, TypeOK
  <2>2. CASE i <= Len(old)
    <3>1. i \in 1..Len(old)
      BY <1>c, <2>1, <2>2
    <3>2. /\ list' = [list EXCEPT ![Xmcd] = RemoveAt(old, i)]
          /\ removed' = removed \cup {old[i]}
          /\ Wait(Xmcd, "del", Drop(old[i], fcnt[Xmcd] - m))
          /\ UNCHANGED <<time, fileVars>>
      <4>1. ~ (i > Len(old))
        BY <1>c, <2>1, <2>2
      <4> QED BY <1>2, <4>1 DEF Delete, fileVars
    <3>3. PICK j \in Job : j = Drop(old[i], fcnt[Xmcd] - m)
      <4>1. old[i] \in Entry /\ fcnt[Xmcd] - m \in Int
        <5>1. old[i] \in Entry /\ Len(old) \in Nat
          BY <1>c, <3>1
        <5>2. fcnt[Xmcd] \in Nat
          BY DEF TypeOK
        <5> QED BY <5>1, <5>2
      <4> QED BY <4>1, JobTypes
    <3>4. /\ j.add = NoEntry /\ j.at = "start"
          /\ \A e \in {old[i]} : Drops(j, e)
      BY <3>3 DEF Drop, NewJob, Drops
    <3>5. ToSet(RemoveAt(old, i)) \subseteq ToSet(old) /\ old[i] \in ToSet(old)
      BY <1>c, <3>1, ToSetRemoveAt
    <3>6. ToSet(list'[Xmcd]) \subseteq ToSet(list[Xmcd])
      BY <1>c, <3>2, <3>5
    <3> DEFINE D == {old[i]}
    <3>7. /\ D \subseteq ToSet(list[Xmcd]) /\ \A e \in D : Drops(j, e)
          /\ removed' = removed \cup D
      BY <3>2, <3>4, <3>5
    <3>8. Wait(Xmcd, "del", j)
      BY <3>2, <3>3
    <3> HIDE DEF i, m, old, D
    <3> QED BY <1>g, <2>1, <3>2, <3>4, <3>6, <3>7, <3>8
  <2>3. CASE ~ (i <= Len(old))
    BY <1>2, <1>f, <2>3 DEF Delete
  <2> QED BY <2>2, <2>3
<1>3. CASE DeleteAll
  <2>1. /\ calls[Xmcd] = <<>> /\ list'[Xmcd] = <<>>
        /\ removed' = removed \cup ToSet(list[Xmcd])
        /\ UNCHANGED <<fileVars, time>>
    BY <1>3, <1>b, <1>c DEF DeleteAll, Free
  <2>2. PICK j \in Job : j = Clear
    BY JobTypes
  <2>3. Wait(Xmcd, "delall", j)
    BY <1>3, <2>2 DEF DeleteAll
  <2>4. /\ j.add = NoEntry /\ j.at = "start"
        /\ \A e \in ToSet(list[Xmcd]) : Drops(j, e)
    BY <2>2 DEF Clear, NewJob, Drops
  <2>5. ToSet(list'[Xmcd]) \subseteq ToSet(list[Xmcd])
    BY <2>1 DEF ToSet
  <2> QED BY <1>g, <2>1, <2>3, <2>4, <2>5
<1>4. CASE Rescan
  <2>1. list'[Xmcd] = Newest /\ UNCHANGED <<fileVars, calls, removed, time>>
    BY <1>4, <1>c DEF Rescan, Load
  <2>2. ToSet(Newest) \subseteq ToSet(file)
    BY <1>c, NewestFacts
  <2> QED BY <1>f, <2>1, <2>2
<1>5. CASE Open
  BY <1>5, <1>f DEF Open
<1>6. CASE Changer
  BY <1>6, <1>f DEF Changer
<1>7. CASE Select
  BY <1>7, <1>f DEF Select
<1>8. ASSUME NEW p \in Prog, NEW d \in Disc, Add(p, d) PROVE GoneInv'
  <2> DEFINE e == [disc |-> d, time |-> time + 1]
             m == IF Len(list[p]) = MaxHist THEN MaxHist ELSE Len(list[p]) + 1
             more == fcnt[p] + 1 - m
  <2>1. /\ e \in Entry /\ m \in Nat
        /\ \A q \in Prog \ {p} : list'[q] = list[q]
        /\ Len(list'[p]) = m /\ list'[p][1] = e
        /\ list'[p] \in Seq(Entry)
        /\ \A k \in 2..m : list'[p][k] = list[p][k - 1]
        /\ m - 1 \in 0..Len(list[p])
    BY <1>8, AddFacts
  <2>2. \/ Wait(p, "add", Rewrite(e, more + 1))
        \/ Wait(p, "add", AppendJob(e))
    BY <1>8 DEF Add
  <2>3. UNCHANGED <<fileVars, removed>> /\ time' = time + 1
    BY <1>8 DEF Add
  <2>4. more + 1 \in Int
    <3>1. fcnt \in [Prog -> Nat] /\ m \in Nat
      BY <2>1 DEF TypeOK
    <3> HIDE DEF m
    <3> QED BY <3>1
  <2>5. e.time = time + 1
    OBVIOUS
  <2> HIDE DEF e, m, more
  <2>6. PICK j \in Job : /\ Wait(p, "add", j) /\ j.add = e
                     /\ j.add # NoEntry /\ j.at = "start"
    <3>1. /\ Rewrite(e, more + 1) \in Job /\ AppendJob(e) \in Job
          /\ Rewrite(e, more + 1).add = e /\ AppendJob(e).add = e
          /\ Rewrite(e, more + 1).at = "start" /\ AppendJob(e).at = "start"
      BY <2>1, <2>4, JobTypes DEF Rewrite, AppendJob, NewJob
    <3> QED BY <2>1, <2>2, <3>1, NoEntryIsNone
  <2>7. /\ \A q \in Prog \ {p} : calls'[q] = calls[q]
        /\ Len(calls'[p]) = Len(calls[p]) + 1
        /\ calls'[p][1].job = j
        /\ \A k \in 2..(Len(calls[p]) + 1) : calls'[p][k] = calls[p][k - 1]
    <3>1. /\ \A q \in Prog \ {p} : calls'[q] = calls[q]
          /\ Len(calls'[p]) = Len(calls[p]) + 1
          /\ calls'[p][1] = [fn |-> "add", job |-> j]
          /\ \A k \in 2..(Len(calls[p]) + 1) : calls'[p][k] = calls[p][k - 1]
      BY <2>6, WaitFacts
    <3> QED BY <3>1
  <2>8. ToSet(list'[Xmcd]) \subseteq ToSet(list[Xmcd]) \cup {e}
        /\ (p # Xmcd => list'[Xmcd] = list[Xmcd])
    <3>1. CASE p # Xmcd
      BY <2>1, <3>1
    <3>2. CASE p = Xmcd
      <4>1. /\ DOMAIN list'[p] = 1..m
            /\ \A k \in 1..Len(list[p]) : list[p][k] \in ToSet(list[p])
        BY <1>c, <2>1, <3>2 DEF ToSet
      <4>2. ASSUME NEW k \in 1..m
            PROVE  list'[p][k] \in ToSet(list[p]) \cup {e}
        <5>1. CASE k = 1
          BY <2>1, <5>1
        <5>2. CASE k # 1
          <6>1. k \in 2..m /\ k - 1 \in 1..Len(list[p])
            BY <1>c, <2>1, <3>2, <5>2
          <6> QED BY <2>1, <4>1, <6>1
        <5> QED BY <5>1, <5>2
      <4> QED BY <3>2, <4>1, <4>2 DEF ToSet
    <3> QED BY <3>1, <3>2
  <2>9. OldInv'
    <3> SUFFICES ASSUME NEW x \in Written \cup removed \cup ToSet(list'[Xmcd])
                 PROVE  x.time <= time'
      BY <1>h, <2>3 DEF OldInv
    <3>1. CASE x = e
      BY <1>c, <2>3, <2>5, <3>1
    <3>2. CASE x # e
      <4>1. x \in Written \cup removed \cup ToSet(list[Xmcd])
        BY <2>8, <3>2
      <4>2. x.time <= time
        BY <1>a, <4>1 DEF OldInv
      <4>3. x \in Entry
        <5>1. ToSet(list[Xmcd]) \subseteq Entry
          BY <1>c DEF ToSet
        <5> QED BY <1>c, <4>1, <5>1
      <4>4. x.time \in Nat
        BY <4>3, BoundsAssumption DEF Entry
      <4> QED BY <1>c, <2>3, <4>2, <4>4
    <3> QED BY <3>1, <3>2
  <2>10. AddsInv'
    <3>1. ~ (e.time <= time) /\ e.time \in Nat /\ time < e.time /\ e.time <= time'
      BY <1>c, <2>3, <2>5
    <3>2. e \notin Written /\ e \notin removed /\ e \notin ToSet(list[Xmcd])
      BY <1>a, <3>1 DEF OldInv
    <3>3. \A q \in Prog : \A k \in 1..Len(calls[q]) :
            Adds(calls[q][k].job) =>
             /\ calls[q][k].job.add \notin Written'
             /\ calls[q][k].job.add \notin removed'
             /\ q # Xmcd => calls[q][k].job.add \notin ToSet(list'[Xmcd])
      <4> SUFFICES ASSUME NEW q \in Prog, NEW k \in 1..Len(calls[q]),
                          Adds(calls[q][k].job)
                   PROVE  /\ calls[q][k].job.add \notin Written'
                          /\ calls[q][k].job.add \notin removed'
                          /\ q # Xmcd =>
                               calls[q][k].job.add \notin ToSet(list'[Xmcd])
        OBVIOUS
      <4>1. calls[q][k].job.add # e
        BY <1>e, <3>1
      <4> QED BY <1>e, <1>h, <2>3, <2>8, <4>1
    <3>4. \A k \in 1..Len(calls'[p]) :
            \/ ~ Adds(calls'[p][k].job)
            \/ /\ k + (-1) \in 1..Len(calls[p]) /\ k + (-1) # 0
               /\ Adds(calls[p][k + (-1)].job)
               /\ calls'[p][k].job.add = calls[p][k + (-1)].job.add
            \/ k = 1 /\ calls'[p][k].job.add = e
      <4> SUFFICES ASSUME NEW k \in 1..Len(calls'[p]), k # 1
                   PROVE  /\ k + (-1) \in 1..Len(calls[p]) /\ k + (-1) # 0
                          /\ calls'[p][k] = calls[p][k + (-1)]
        BY <2>6, <2>7
      <4>1. k \in 2..(Len(calls[p]) + 1) /\ k + (-1) = k - 1
        BY <1>d, <2>7
      <4>2. k - 1 \in 1..Len(calls[p]) /\ k - 1 # 0
        BY <1>d, <4>1
      <4> QED BY <2>7, <4>1, <4>2
    <3>5. time <= time' /\ -1 \in {-1, 0, 1} /\ 0 \in Int /\ -1 = -1
      BY <1>c, <2>3
    <3>6. /\ e \notin Written' /\ e \notin removed'
          /\ p # Xmcd => e \notin ToSet(list'[Xmcd])
      BY <1>h, <2>3, <2>8, <3>2
    <3>7. Moved(p, -1, 0, e)
      BY <2>7, <3>1, <3>3, <3>4, <3>5, <3>6 DEF Moved
    <3> QED BY <1>a, <3>5, <3>7, AddsKept
  <2>11. Shifted(p, -1)
    <3>1. ASSUME NEW k \in 1..Len(calls'[p])
          PROVE  \/ ~ Works(calls'[p][k].job)
                 \/ /\ k + (-1) \in 1..Len(calls[p])
                    /\ calls'[p][k] = calls[p][k + (-1)]
      <4>1. CASE k = 1
        BY <2>6, <2>7, <4>1 DEF Works
      <4>2. CASE k # 1
        <5>1. k \in 2..(Len(calls[p]) + 1) /\ k + (-1) = k - 1
          BY <1>d, <2>7, <4>2
        <5>2. k - 1 \in 1..Len(calls[p])
          BY <1>d, <5>1
        <5> QED BY <2>7, <5>1, <5>2
      <4> QED BY <4>1, <4>2
    <3>2. ASSUME NEW k \in 1..Len(calls[p])
          PROVE  /\ k - (-1) \in 1..Len(calls'[p])
                 /\ calls'[p][k - (-1)] = calls[p][k]
      <4>1. /\ k - (-1) = k + 1 /\ k + 1 \in 2..(Len(calls[p]) + 1)
            /\ (k + 1) - 1 = k /\ k + 1 \in 1..Len(calls'[p])
        BY <1>d, <2>7
      <4> QED BY <2>7, <4>1
    <3> QED BY <2>3, <2>7, <3>1, <3>2 DEF Shifted
  <2>12. OneInv' /\ DropsInv'
    <3>1. -1 \in {-1, 0, 1} /\ removed' = removed
      BY <2>3
    <3> QED BY <1>a, <2>11, <3>1, ShiftKeepsOne, ShiftKeepsDrops
  <2> QED BY <2>9, <2>10, <2>12 DEF GoneInv
<1>9. ASSUME NEW p \in Prog, NEW i \in 1..Len(calls[p]),
             Child(p, i) \/ ChildFails(p, i)
      PROVE  GoneInv'
  <2>1. Child(p, i)
    BY <1>9, <1>b DEF ChildFails
  <2> QED BY <1>a, <2>1, ChildKeepsGone DEF GoneInv
<1>10. ASSUME NEW p \in Prog, Return(p) PROVE GoneInv'
  <2>1. /\ \A q \in Prog \ {p} : calls'[q] = calls[q]
        /\ Len(calls[p]) \in Nat \ {0} /\ calls[p][1].job.at = "end"
        /\ Len(calls'[p]) = Len(calls[p]) - 1
        /\ \A k \in 1..(Len(calls[p]) - 1) : calls'[p][k] = calls[p][k + 1]
    BY <1>10, ReturnFacts
  <2>2. UNCHANGED <<time, fileVars, list, removed>>
    BY <1>10 DEF Return
  <2>3. OldInv'
    BY <1>a, <1>h, <2>2 DEF OldInv
  <2>6. ASSUME NEW k \in 1..Len(calls'[p])
        PROVE  /\ k + 1 \in 1..Len(calls[p]) /\ k + 1 # 0
               /\ calls'[p][k] = calls[p][k + 1]
    BY <1>d, <2>1
  <2>4. AddsInv'
    <3>1. \A q \in Prog : \A k \in 1..Len(calls[q]) :
            Adds(calls[q][k].job) =>
             /\ calls[q][k].job.add \notin Written'
             /\ calls[q][k].job.add \notin removed'
             /\ q # Xmcd => calls[q][k].job.add \notin ToSet(list'[Xmcd])
      BY <1>e, <1>h, <2>2
    <3>2. \A k \in 1..Len(calls'[p]) :
            \/ ~ Adds(calls'[p][k].job)
            \/ /\ k + 1 \in 1..Len(calls[p]) /\ k + 1 # 0
               /\ Adds(calls[p][k + 1].job)
               /\ calls'[p][k].job.add = calls[p][k + 1].job.add
      BY <2>6
    <3>3. time <= time'
      BY <1>c, <2>2
    <3>4. Moved(p, 1, 0, NoEntry)
      BY <2>1, <3>1, <3>2, <3>3 DEF Moved
    <3> QED BY <1>a, <3>4, AddsKept
  <2>5. Shifted(p, 1)
    <3>1. ASSUME NEW k \in 1..Len(calls[p]), calls[p][k].job.at # "end"
          PROVE  /\ k - 1 \in 1..Len(calls'[p])
                 /\ calls'[p][k - 1] = calls[p][k]
      <4>1. k # 1
        BY <2>1, <3>1
      <4>2. k - 1 \in 1..(Len(calls[p]) - 1) /\ (k - 1) + 1 = k
        BY <1>d, <4>1
      <4> QED BY <2>1, <4>2
    <3> QED BY <2>1, <2>2, <2>6, <3>1 DEF Shifted
  <2>7. OneInv' /\ DropsInv'
    BY <1>a, <2>2, <2>5, ShiftKeepsOne, ShiftKeepsDrops
  <2> QED BY <2>3, <2>4, <2>7 DEF GoneInv
<1>11. ASSUME NEW p \in Prog, Start(p) PROVE GoneInv'
  <2>1. p # Xmcd /\ UNCHANGED <<fileVars, calls, removed, time>>
        /\ list' = [list EXCEPT ![p] = Newest]
    BY <1>11 DEF Start, Load
  <2>2. list'[Xmcd] = list[Xmcd]
    BY <1>c, <2>1
  <2> QED BY <1>f, <2>1, <2>2
<1> QED BY <1>1, <1>2, <1>3, <1>4, <1>5, <1>6, <1>7, <1>8, <1>9, <1>10, <1>11
        DEF Next, Window

(* A deleted entry does not come back, whatever other programs add while   *)
(* their children and xmcd's are at work, and with a disc that comes in    *)
(* the middle of the deletion: it is not in the file when xmcd's calls     *)
(* have ended, as long as no two children rewrite the file at a time.      *)
THEOREM GoneHolds == Spec => []Gone
<1>1. Init => GoneInv
  <2> SUFFICES ASSUME Init PROVE GoneInv
    OBVIOUS
  <2>1. /\ removed = {} /\ list[Xmcd] = <<>> /\ \A f \in File : disk[f] = <<>>
        /\ \A p \in Prog : calls[p] = <<>>
    BY ProgAssumption DEF Init
  <2>2. ToSet(<<>>) = {} /\ Len(<<>>) = 0
    BY DEF ToSet
  <2>3. \A p \in Prog : Len(calls[p]) = 0
    BY <2>1
  <2>4. Written = {}
    BY <2>1, <2>2 DEF Written
  <2>5. OldInv
    BY <2>1, <2>2, <2>4 DEF OldInv
  <2>6. AddsInv /\ OneInv /\ DropsInv
    BY <2>1, <2>3 DEF AddsInv, OneInv, DropsInv
  <2> QED BY <2>5, <2>6 DEF GoneInv
<1>2. TypeOK /\ TypeOK' /\ GoneInv /\ [Next]_vars => GoneInv'
  BY NextKeepsGone
<1>3. GoneInv => Gone
  <2> SUFFICES ASSUME GoneInv, "apart" \in env,
                      env \cap {"nest", "fail"} = {}, Idle(Xmcd)
               PROVE  ToSet(file) \cap removed = {}
    BY DEF Gone
  <2>1. Len(calls[Xmcd]) = 0 /\ DropsInv
    BY DEF Idle, GoneInv
  <2> QED BY <2>1 DEF DropsInv, Left
<1> QED BY <1>1, <1>2, <1>3, HistoryTypeCorrect, PTL DEF Spec
=============================================================================

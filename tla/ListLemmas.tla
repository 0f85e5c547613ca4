------------------------------ MODULE ListLemmas ------------------------------
(***************************************************************************)
(* Facts about sequences that the proofs about lists and queues share.     *)
(***************************************************************************)
EXTENDS Naturals, Sequences, SequencesExt, FiniteSets,
        FiniteSetTheorems, SequenceTheorems, WellFoundedInduction, TLAPS

(* What RemoveAt leaves: one element less, the others in their order.      *)
LEMMA RemoveAtFacts ==
  ASSUME NEW T, NEW s \in Seq(T), NEW n \in 1 .. Len(s)
  PROVE  /\ RemoveAt(s, n) \in Seq(T)
         /\ Len(RemoveAt(s, n)) = Len(s) - 1
         /\ \A i \in 1 .. Len(s) - 1 : RemoveAt(s, n)[i] = s[IF i < n THEN i ELSE i + 1]
  <1> DEFINE front == SubSeq(s, 1, n - 1)
             back == SubSeq(s, n + 1, Len(s))
  <1>1. Len(s) \in Nat /\ \A i \in 1 .. Len(s) : s[i] \in T
    OBVIOUS
  <1>2. /\ front \in Seq(T) /\ Len(front) = n - 1
        /\ \A i \in 1 .. n - 1 : front[i] = s[i]
    <2>1. \A i \in 1 .. n - 1 : s[i] \in T
      BY <1>1
    <2>2. /\ front \in Seq(T) /\ Len(front) = IF 1 <= n - 1 THEN n - 1 - 1 + 1 ELSE 0
          /\ \A i \in 1 .. n - 1 - 1 + 1 : front[i] = s[1 + i - 1]
      BY <2>1, SubSeqProperties
    <2> HIDE DEF front
    <2> QED BY <2>2
  <1>3. /\ back \in Seq(T) /\ Len(back) = Len(s) - n
        /\ \A i \in 1 .. Len(s) - n : back[i] = s[n + i]
    <2>1. \A i \in n + 1 .. Len(s) : s[i] \in T
      BY <1>1
    <2>2. /\ back \in Seq(T)
          /\ Len(back) = IF n + 1 <= Len(s) THEN Len(s) - (n + 1) + 1 ELSE 0
          /\ \A i \in 1 .. Len(s) - (n + 1) + 1 : back[i] = s[n + 1 + i - 1]
      BY <1>1, <2>1, SubSeqProperties
    <2> HIDE DEF back
    <2> QED BY <1>1, <2>2
  <1>4. RemoveAt(s, n) = front \o back
    BY DEF RemoveAt
  <1> HIDE DEF front, back
  <1>5. /\ front \o back \in Seq(T) /\ Len(front \o back) = Len(front) + Len(back)
        /\ \A i \in 1 .. Len(front) + Len(back) :
              (front \o back)[i] = IF i <= Len(front) THEN front[i] ELSE back[i - Len(front)]
    BY <1>2, <1>3, ConcatProperties
  <1>6. Len(RemoveAt(s, n)) = Len(s) - 1
    BY <1>1, <1>2, <1>3, <1>4, <1>5
  <1>7. ASSUME NEW i \in 1 .. Len(s) - 1
        PROVE  RemoveAt(s, n)[i] = s[IF i < n THEN i ELSE i + 1]
    <2>1. CASE i < n
      BY <1>1, <1>2, <1>3, <1>4, <1>5, <2>1
    <2>2. CASE ~(i < n)
      <3>1. /\ i \in 1 .. Len(front) + Len(back) /\ ~(i <= Len(front))
            /\ i - Len(front) \in 1 .. Len(s) - n /\ n + (i - Len(front)) = i + 1
        BY <1>1, <1>2, <1>3, <2>2
      <3> QED BY <1>3, <1>4, <1>5, <2>2, <3>1
    <2> QED BY <2>1, <2>2
  <1> QED BY <1>4, <1>5, <1>6, <1>7

LEMMA AppendRange ==
  ASSUME NEW T, NEW s \in Seq(T), NEW x \in T
  PROVE  Append(s, x) \in Seq(T) /\ Range(Append(s, x)) = Range(s) \cup {x}
  <1> DEFINE r == Append(s, x)
  <1>1. /\ r \in Seq(T) /\ Len(r) = Len(s) + 1 /\ r[Len(s) + 1] = x
        /\ \A i \in 1 .. Len(s) : r[i] = s[i]
    BY AppendProperties
  <1>2. DOMAIN s = 1 .. Len(s) /\ DOMAIN r = 1 .. Len(s) + 1 /\ Len(s) \in Nat
    BY <1>1
  <1> HIDE DEF r
  <1>3. ASSUME NEW y \in Range(r) PROVE y \in Range(s) \cup {x}
    <2>1. PICK i \in 1 .. Len(s) + 1 : y = r[i]
      BY <1>2 DEF Range
    <2>2. i \in 1 .. Len(s) \/ i = Len(s) + 1
      BY <1>2
    <2> QED BY <1>1, <1>2, <2>1, <2>2 DEF Range
  <1>4. ASSUME NEW y \in Range(s) \cup {x} PROVE y \in Range(r)
    <2>1. CASE y = x
      <3>1. Len(s) + 1 \in 1 .. Len(s) + 1
        BY <1>2
      <3> QED BY <1>1, <1>2, <2>1, <3>1 DEF Range
    <2>2. CASE y \in Range(s)
      <3>1. PICK i \in 1 .. Len(s) : y = s[i]
        BY <1>2, <2>2 DEF Range
      <3>2. i \in 1 .. Len(s) + 1
        BY <1>2
      <3> QED BY <1>1, <1>2, <3>1, <3>2 DEF Range
    <2> QED BY <2>1, <2>2
  <1> QED BY <1>1, <1>3, <1>4 DEF r

LEMMA TailRange ==
  ASSUME NEW T, NEW s \in Seq(T), s # <<>>
  PROVE  Tail(s) \in Seq(T) /\ Head(s) \in Range(s) /\ Range(Tail(s)) \subseteq Range(s)
  <1> DEFINE r == Tail(s)
  <1>1. /\ Head(s) \in T /\ r \in Seq(T) /\ Len(r) = Len(s) - 1
        /\ \A i \in 1 .. Len(r) : r[i] = s[i + 1]
    BY HeadTailProperties
  <1>2. DOMAIN s = 1 .. Len(s) /\ DOMAIN r = 1 .. Len(r) /\ Len(s) \in Nat /\ Len(s) # 0
    BY <1>1, EmptySeq
  <1>3. Head(s) = s[1] /\ 1 \in 1 .. Len(s)
    BY <1>2
  <1> HIDE DEF r
  <1>4. ASSUME NEW y \in Range(r) PROVE y \in Range(s)
    <2>1. PICK i \in 1 .. Len(r) : y = r[i]
      BY <1>2 DEF Range
    <2>2. i + 1 \in 1 .. Len(s)
      BY <1>1, <1>2
    <2> QED BY <1>1, <1>2, <2>1, <2>2 DEF Range
  <1> QED BY <1>1, <1>2, <1>3, <1>4 DEF Range, r

LEMMA EmptyRange == Range(<<>>) = {} /\ \A T : <<>> \in Seq(T)
  <1>1. <<>> \in Seq({}) /\ Len(<<>>) = 0
    BY EmptySeq
  <1>2. DOMAIN <<>> = {}
    BY <1>1
  <1> QED BY <1>2, EmptySeq DEF Range

LEMMA InRange ==
  ASSUME NEW T, NEW s \in Seq(T)
  PROVE  /\ Range(s) \subseteq T /\ Len(s) \in Nat /\ DOMAIN s = 1 .. Len(s)
         /\ \A i \in 1 .. Len(s) : s[i] \in T /\ s[i] \in Range(s)
         /\ \A x \in Range(s) : \E i \in 1 .. Len(s) : x = s[i]
  BY DEF Range

(* Of the elements that pass a test, one is the first.                     *)
LEMMA FirstOf ==
  ASSUME NEW T, NEW s \in Seq(T), NEW S, NEW k \in DOMAIN s, s[k] \in S
  PROVE  \E i \in DOMAIN s : s[i] \in S /\ \A j \in 1 .. i - 1 : s[j] \notin S
  <1> DEFINE P == {i \in DOMAIN s : s[i] \in S}
             n == Len(s)
             sets == {1 .. i : i \in P}
             R == StrictSubsetOrdering(1 .. n)
  <1>1. n \in Nat /\ DOMAIN s = 1 .. n /\ P \subseteq 1 .. n /\ k \in P
    BY InRange
  <1>2. IsFiniteSet(1 .. n)
    BY <1>1, FS_Interval
  <1>3. IsWellFoundedOn(R, SUBSET (1 .. n))
    BY <1>2, FS_StrictSubsetOrderingWellFounded, FS_FiniteSubsetsOfFinite
  <1>4. sets \subseteq SUBSET (1 .. n) /\ sets # {}
    BY <1>1
  <1>5. PICK x \in sets : \A y \in sets : ~(<<y, x>> \in R)
    <2> HIDE DEF R, sets, n
    <2> QED BY <1>3, <1>4, WFMin
  <1>6. PICK i \in P : x = 1 .. i
    OBVIOUS
  <1>7. ASSUME NEW j \in 1 .. i - 1, s[j] \in S PROVE FALSE
    <2>1. j \in P /\ 1 .. j \in sets
      BY <1>1, <1>6, <1>7
    <2>2. 1 .. j \subseteq 1 .. i /\ 1 .. j # 1 .. i
      <3>1. i \in 1 .. i /\ i \notin 1 .. j /\ \A m \in 1 .. j : m \in 1 .. i
        BY <1>1, <1>6, <1>7
      <3> QED BY <3>1
    <2>3. 1 .. j \in SUBSET (1 .. n) /\ 1 .. i \in SUBSET (1 .. n)
      BY <1>1, <1>6, <2>1
    <2>4. <<1 .. j, 1 .. i>> \in R
      BY <2>2, <2>3 DEF StrictSubsetOrdering
    <2> QED BY <1>5, <1>6, <2>1, <2>4
  <1> QED BY <1>6, <1>7

(* What is left without the last element.                                  *)
LEMMA FrontFacts ==
  ASSUME NEW T, NEW s \in Seq(T), s # <<>>
  PROVE  /\ Len(s) \in Nat \ {0} /\ Last(s) = s[Len(s)] /\ Last(s) \in T
         /\ Front(s) \in Seq(T) /\ Len(Front(s)) = Len(s) - 1
         /\ \A i \in 1 .. Len(s) - 1 : Front(s)[i] = s[i]
  <1>1. Len(s) \in Nat /\ \A i \in 1 .. Len(s) : s[i] \in T
    OBVIOUS
  <1>2. Len(s) # 0
    BY EmptySeq
  <1>3. \A i \in 1 .. Len(s) - 1 : s[i] \in T
    BY <1>1
  <1>4. /\ Front(s) \in Seq(T)
        /\ Len(Front(s)) = IF 1 <= Len(s) - 1 THEN Len(s) - 1 - 1 + 1 ELSE 0
        /\ \A i \in 1 .. Len(s) - 1 - 1 + 1 : Front(s)[i] = s[1 + i - 1]
    BY <1>1, <1>3, SubSeqProperties DEF Front
  <1>5. Len(Front(s)) = Len(s) - 1
    <2> DEFINE n == Len(s)
               m == Len(Front(s))
    <2>1. n \in Nat /\ n # 0 /\ m = IF 1 <= n - 1 THEN n - 1 - 1 + 1 ELSE 0
      BY <1>1, <1>2, <1>4
    <2> HIDE DEF n, m
    <2>2. m = n - 1
      BY <2>1
    <2> QED BY <2>2 DEF n, m
  <1>6. \A i \in 1 .. Len(s) - 1 : Front(s)[i] = s[i]
    BY <1>1, <1>4
  <1> QED BY <1>1, <1>2, <1>4, <1>5, <1>6 DEF Last

(* A set of numbers has a least one: what stands in for induction.         *)
LEMMA LeastOf ==
  ASSUME NEW T \in SUBSET Nat, T # {}
  PROVE  \E x \in T : \A y \in T : x <= y
  <1> DEFINE R == OpToRel(<, Nat)
  <1>1. IsWellFoundedOn(R, Nat)
    BY NatLessThanWellFounded
  <1>2. \A x, y \in Nat : x < y => <<x, y>> \in R
    BY DEF OpToRel
  <1> HIDE DEF R
  <1>3. PICK x \in T : \A y \in T : ~ (<<y, x>> \in R)
    BY <1>1, WFMin
  <1>4. x \in Nat
    OBVIOUS
  <1> SUFFICES ASSUME NEW y \in T PROVE x <= y
    OBVIOUS
  <1>5. y \in Nat /\ ~ (y < x)
    BY <1>2, <1>3, <1>4, Zenon
  <1> QED BY ONLY <1>4, <1>5

(* A set of numbers without a least one is empty.                          *)
LEMMA NoDescent ==
  ASSUME NEW D \in SUBSET Nat, \A m \in D : \E k \in D : k < m
  PROVE  D = {}
  <1> SUFFICES ASSUME D # {} PROVE FALSE
    OBVIOUS
  <1>1. PICK m \in D : \A k \in D : m <= k
    BY LeastOf
  <1>2. PICK k \in D : k < m
    OBVIOUS
  <1>3. m \in Nat /\ k \in Nat /\ m <= k
    BY <1>1
  <1> QED BY <1>2, <1>3

-----------------------------------------------------------------------------
(* A value that is carried along a list.                                   *)

(* f holds the account before the first of n elements, and after each.     *)
IsRun(f, n, op, start, s) ==
  /\ f = [i \in 0 .. n |-> f[i]]
  /\ f[0] = start
  /\ \A i \in 1 .. n : f[i] = op[<<f[i - 1], s[i]>>]

(* Two runs over the same elements agree.                                  *)
LEMMA RunsAgree ==
  ASSUME NEW n \in Nat, NEW f, NEW g, NEW op, NEW start, NEW s, NEW r,
         IsRun(f, n, op, start, s), IsRun(g, n, op, start, r),
         \A i \in 1 .. n : s[i] = r[i]
  PROVE  \A i \in 0 .. n : f[i] = g[i]
  <1> DEFINE Differ == {i \in 0 .. n : f[i] # g[i]}
  <1>1. Differ \in SUBSET Nat
    OBVIOUS
  <1>2. ASSUME NEW m \in Differ PROVE \E k \in Differ : k < m
    <2>1. m \in 0 .. n /\ f[m] # g[m] /\ m # 0
      BY DEF IsRun
    <2>2. m - 1 \in 0 .. n /\ m \in 1 .. n /\ m - 1 < m
      BY <2>1
    <2>3. f[m] = op[<<f[m - 1], s[m]>>] /\ g[m] = op[<<g[m - 1], r[m]>>] /\ s[m] = r[m]
      BY <2>2 DEF IsRun
    <2>4. f[m - 1] # g[m - 1]
      BY <2>1, <2>3
    <2>5. m - 1 \in Differ
      BY <2>2, <2>4
    <2> HIDE DEF Differ
    <2> QED BY <2>2, <2>5
  <1>3. Differ = {}
    <2> HIDE DEF Differ
    <2> SUFFICES ASSUME Differ # {} PROVE FALSE
      OBVIOUS
    <2>1. PICK m \in Differ : \A k \in Differ : m <= k
      BY <1>1, LeastOf
    <2>2. PICK k \in Differ : k < m
      BY <1>2
    <2>3. m \in Nat /\ k \in Nat /\ m <= k
      BY <1>1, <2>1
    <2> QED BY <2>2, <2>3
  <1> QED BY <1>3

(* There is a run over every list.                                         *)
LEMMA RunExists ==
  ASSUME NEW T, NEW V, NEW op \in [V \X T -> V], NEW start \in V, NEW s \in Seq(T)
  PROVE  \E f : f \in [0 .. Len(s) -> V] /\ IsRun(f, Len(s), op, start, s)
  <1> DEFINE HasRun(n) == \E f : f \in [0 .. n -> V] /\ IsRun(f, n, op, start, s)
             Without == {n \in 0 .. Len(s) : ~HasRun(n)}
  <1>1. Len(s) \in Nat /\ \A i \in 1 .. Len(s) : s[i] \in T
    OBVIOUS
  <1>2. Without \in SUBSET Nat
    BY <1>1
  <1>3. HasRun(0)
    <2> DEFINE g == [i \in 0 .. 0 |-> start]
    <2>1. g \in [0 .. 0 -> V] /\ IsRun(g, 0, op, start, s)
      BY DEF IsRun
    <2> HIDE DEF g
    <2> QED BY <2>1
  <1>4. ASSUME NEW m \in 1 .. Len(s), HasRun(m - 1) PROVE HasRun(m)
    <2>1. PICK f : f \in [0 .. m - 1 -> V] /\ IsRun(f, m - 1, op, start, s)
      BY <1>4
    <2> DEFINE last == op[<<f[m - 1], s[m]>>]
               h == [i \in 0 .. m |-> IF i < m THEN f[i] ELSE last]
    <2>2. m \in Nat /\ m - 1 \in 0 .. m - 1 /\ s[m] \in T
      BY <1>1
    <2>3. last \in V
      <3>1. f[m - 1] \in V
        BY <2>1, <2>2
      <3> QED BY <2>2, <3>1
    <2> HIDE DEF last
    <2>4. h \in [0 .. m -> V]
      <3>1. \A i \in 0 .. m : i < m => f[i] \in V
        BY <2>1, <2>2
      <3> QED BY <2>3, <3>1
    <2>5. /\ \A i \in 0 .. m - 1 : h[i] = f[i]
          /\ h[m] = last
      BY <2>2
    <2> HIDE DEF h
    <2>6. h[0] = start
      <3>1. 0 \in 0 .. m - 1
        BY <2>2
      <3> QED BY <2>1, <2>5, <3>1 DEF IsRun
    <2>7. ASSUME NEW i \in 1 .. m PROVE h[i] = op[<<h[i - 1], s[i]>>]
      <3>1. i - 1 \in 0 .. m - 1
        BY <2>2
      <3>2. h[i - 1] = f[i - 1]
        BY <2>5, <3>1
      <3>3. CASE i = m
        BY <2>5, <3>2, <3>3 DEF last
      <3>4. CASE i # m
        <4>1. i \in 1 .. m - 1 /\ i \in 0 .. m - 1
          BY <2>2, <3>4
        <4> QED BY <2>1, <2>5, <3>2, <4>1 DEF IsRun
      <3> QED BY <3>3, <3>4
    <2>8. IsRun(h, m, op, start, s)
      <3>1. h = [i \in 0 .. m |-> h[i]]
        BY <2>4
      <3> QED BY <2>6, <2>7, <3>1 DEF IsRun
    <2> QED BY <2>4, <2>8
  <1>5. Without = {}
    <2> HIDE DEF HasRun
    <2>1. ASSUME NEW m \in Without PROVE m - 1 \in Without
      <3>1. m \in 0 .. Len(s) /\ ~HasRun(m) /\ m # 0
        BY <1>3
      <3>2. m \in 1 .. Len(s) /\ m - 1 \in 0 .. Len(s)
        BY <1>1, <3>1
      <3>3. ~HasRun(m - 1)
        BY <1>4, <3>1, <3>2
      <3> QED BY <3>2, <3>3
    <2> HIDE DEF Without
    <2> SUFFICES ASSUME Without # {} PROVE FALSE
      OBVIOUS
    <2>2. PICK m \in Without : \A k \in Without : m <= k
      BY <1>2, LeastOf
    <2> QED BY <1>2, <2>1, <2>2
  <1>6. HasRun(Len(s))
    <2> HIDE DEF HasRun
    <2>1. Len(s) \in 0 .. Len(s)
      BY <1>1
    <2> QED BY <1>5, <2>1
  <1> QED BY <1>6

(* What a list of lists is made of is in the flat list, and nothing else.  *)
LEMMA FlattenRange ==
  ASSUME NEW T, NEW ss \in Seq(Seq(T))
  PROVE  /\ FlattenSeq(ss) \in Seq(T)
         /\ \A x : x \in Range(FlattenSeq(ss)) <=> \E k \in 1 .. Len(ss) : x \in Range(ss[k])
  <1> DEFINE Def(g) == [i \in 1 .. Len(ss) |-> IF i = 1 THEN ss[i] ELSE g[i - 1] \o ss[i]]
             f == CHOOSE g : g = Def(g)
             V == Seq(T)
             op == [x \in V \X V |-> x[1] \o x[2]]
  <1>1. Len(ss) \in Nat /\ \A k \in 1 .. Len(ss) : ss[k] \in V
    OBVIOUS
  <1>2. FlattenSeq(ss) = IF Len(ss) = 0 THEN ss ELSE f[Len(ss)]
    BY DEF FlattenSeq
  <1>3. op \in [V \X V -> V]
    <2>1. \A a, b \in V : a \o b \in V
      BY ConcatProperties
    <2> HIDE DEF V
    <2> QED BY <2>1
  <1>4. <<>> \in V
    BY EmptySeq
  <1>5. PICK r : r \in [0 .. Len(ss) -> V] /\ IsRun(r, Len(ss), op, <<>>, ss)
    <2> HIDE DEF op
    <2>1. ss \in Seq(V)
      OBVIOUS
    <2> HIDE DEF V
    <2> QED BY <1>3, <1>4, <2>1, RunExists
  <1>6. ASSUME NEW i \in 1 .. Len(ss)
        PROVE  r[i - 1] \in V /\ r[i] \in V /\ r[i] = r[i - 1] \o ss[i]
    <2>1. i - 1 \in 0 .. Len(ss) /\ i \in 0 .. Len(ss)
      BY <1>1
    <2>2. r[i - 1] \in V /\ r[i] \in V /\ ss[i] \in V
      BY <1>1, <1>5, <2>1
    <2>3. r[i] = op[<<r[i - 1], ss[i]>>]
      <3> HIDE DEF op
      <3> QED BY <1>5 DEF IsRun
    <2> HIDE DEF V
    <2> QED BY <2>2, <2>3
  <1>7. r[0] = <<>>
    BY <1>5 DEF IsRun
  <1> HIDE DEF op
  <1>71. ASSUME NEW i \in 1 .. Len(ss), i = 1 PROVE r[i] = ss[i]
    <2>1. i - 1 = 0
      BY <1>71
    <2>2. r[i] = <<>> \o ss[i] /\ ss[i] \in Seq(T)
      BY <1>1, <1>6, <1>7, <2>1
    <2> QED BY <2>2, ConcatEmptySeq
  <1>8. ASSUME NEW g, g = Def(g) PROVE \A i \in 1 .. Len(ss) : g[i] = r[i]
    <2> DEFINE Differ == {i \in 1 .. Len(ss) : g[i] # r[i]}
    <2>1. ASSUME NEW i \in Differ PROVE \E k \in Differ : k < i
      <3>1. i \in 1 .. Len(ss) /\ g[i] # r[i]
        OBVIOUS
      <3>2. g[i] = IF i = 1 THEN ss[i] ELSE g[i - 1] \o ss[i]
        BY <1>8
      <3>3. i # 1
        <4>1. CASE i = 1
          BY <1>71, <3>1, <3>2, <4>1
        <4> QED BY <4>1
      <3>4. i - 1 \in 1 .. Len(ss) /\ i - 1 < i
        BY <1>1, <3>1, <3>3
      <3>5. g[i - 1] # r[i - 1]
        BY <1>6, <3>1, <3>2, <3>3
      <3>6. i - 1 \in Differ
        BY <3>4, <3>5
      <3> HIDE DEF Differ
      <3> QED BY <3>4, <3>6
    <2>2. Differ \in SUBSET Nat
      BY <1>1
    <2> HIDE DEF Differ
    <2>3. Differ = {}
      BY <2>1, <2>2, NoDescent
    <2> QED BY <2>3 DEF Differ
  <1>9. \E g : g = Def(g)
    <2> DEFINE g == [i \in 1 .. Len(ss) |-> r[i]]
    <2>1. ASSUME NEW i \in 1 .. Len(ss)
          PROVE  g[i] = IF i = 1 THEN ss[i] ELSE g[i - 1] \o ss[i]
      <3>1. CASE i = 1
        BY <1>71, <3>1
      <3>2. CASE i # 1
        <4>1. i - 1 \in 1 .. Len(ss)
          BY <1>1, <3>2
        <4> QED BY <1>6, <3>2, <4>1
      <3> QED BY <3>1, <3>2
    <2>2. g = [i \in 1 .. Len(ss) |-> g[i]]
      OBVIOUS
    <2> HIDE DEF g
    <2>3. g = Def(g)
      BY <2>1, <2>2
    <2> QED BY <2>3
  <1>10. f = Def(f)
    <2> HIDE DEF Def
    <2> QED BY <1>9
  <1>11. \A i \in 1 .. Len(ss) : f[i] = r[i]
    <2> HIDE DEF f, Def
    <2> QED BY <1>8, <1>10
  <1> HIDE DEF f, Def
  <1>12. CASE Len(ss) = 0
    <2>1. ss = <<>>
      BY <1>12, EmptySeq
    <2>2. FlattenSeq(ss) = <<>>
      BY <1>2, <1>12, <2>1
    <2> QED BY <1>12, <2>2, EmptyRange, EmptySeq
  <1>13. CASE Len(ss) # 0
    <2>1. Len(ss) \in 1 .. Len(ss)
      BY <1>1, <1>13
    <2>2. FlattenSeq(ss) = r[Len(ss)]
      BY <1>2, <1>11, <1>13, <2>1
    <2> DEFINE Made(i) == \A x : x \in Range(r[i]) <=> \E k \in 1 .. i : x \in Range(ss[k])
               Wrong == {i \in 0 .. Len(ss) : ~Made(i)}
    <2>3. Made(0)
      BY <1>7, EmptyRange
    <2>4. ASSUME NEW i \in 1 .. Len(ss), Made(i - 1) PROVE Made(i)
      <3>1. r[i - 1] \in Seq(T) /\ ss[i] \in Seq(T) /\ r[i] = r[i - 1] \o ss[i]
        BY <1>1, <1>6
      <3>2. Range(r[i]) = Range(r[i - 1]) \cup Range(ss[i])
        BY <3>1, RangeConcatenation
      <3>3. \A k \in 1 .. i : k = i \/ k \in 1 .. i - 1
        BY <1>1
      <3>4. i \in 1 .. i /\ \A k \in 1 .. i - 1 : k \in 1 .. i
        BY <1>1
      <3> QED BY <2>4, <3>2, <3>3, <3>4
    <2> HIDE DEF Made
    <2>5. ASSUME NEW i \in Wrong PROVE \E k \in Wrong : k < i
      <3>1. i \in 0 .. Len(ss) /\ ~Made(i) /\ i # 0
        BY <2>3
      <3>2. i \in 1 .. Len(ss) /\ i - 1 \in 0 .. Len(ss) /\ i - 1 < i
        BY <1>1, <3>1
      <3>3. ~Made(i - 1)
        BY <2>4, <3>1, <3>2
      <3>4. i - 1 \in Wrong
        BY <3>2, <3>3
      <3> HIDE DEF Wrong
      <3> QED BY <3>2, <3>4
    <2>6. Wrong \in SUBSET Nat
      BY <1>1
    <2> HIDE DEF Wrong
    <2>7. Wrong = {}
      BY <2>5, <2>6, NoDescent
    <2>8. Made(Len(ss))
      <3>1. Len(ss) \in 0 .. Len(ss)
        BY <1>1
      <3> QED BY <2>7, <3>1 DEF Wrong
    <2>9. r[Len(ss)] \in Seq(T)
      BY <1>6, <2>1
    <2> QED BY <2>2, <2>8, <2>9 DEF Made
  <1> QED BY <1>1, <1>12, <1>13

=============================================================================

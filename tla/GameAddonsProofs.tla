-------------------------- MODULE GameAddonsProofs --------------------------
(***************************************************************************)
(* That what the game tells its user of the installed add-ons is so, for   *)
(* any add-ons, versions and numbers of files that cannot be removed or    *)
(* written, when add-ons are laid out as the game expects them; and that   *)
(* two version numbers compare as their components say.                    *)
(***************************************************************************)
EXTENDS GameAddons, VersionOrder, ListsProofs

-----------------------------------------------------------------------------
(* Versions *)

\* Where the comparison of a and b ends: at the end, when the counter runs out, or
\* at components that differ.
Ends(a, b, j) == j = Len(a) + 1 \/ level + j > MaxRecursions \/ a[j] # b[j]

FirstEnd(a, b, k) == CHOOSE j \in k..(Len(a) + 1) :
                        Ends(a, b, j) /\ \A i \in k..(j - 1) : ~Ends(a, b, i)

EndedAt(op, a, b, j) ==
    IF j = Len(a) + 1 THEN [result |-> FALSE, level |-> level + j - 1]
    ELSE [result |-> level + j <= MaxRecursions /\ Relates(op, a[j], b[j]),
          level |-> level + j]

\* The first components that differ.
Differs(a, b, k) == a[k] # b[k] /\ \A j \in 1..(k - 1) : a[j] = b[j]

LEMMA LeastWith ==
    ASSUME NEW T, T \subseteq Nat, T # {}
    PROVE  \E i \in T : \A k \in Nat : k < i => k \notin T
<1>1. PICK i \in T : \A k \in T : i <= k
  BY LeastOf
<1> QED
  BY <1>1

LEMMA FirstEndIs ==
    ASSUME NEW a \in Seq(Nat), NEW b, NEW k \in 1..(Len(a) + 1)
    PROVE  /\ FirstEnd(a, b, k) \in k..(Len(a) + 1)
           /\ Ends(a, b, FirstEnd(a, b, k))
           /\ \A i \in k..(FirstEnd(a, b, k) - 1) : ~Ends(a, b, i)
<1> DEFINE T == {j \in k..(Len(a) + 1) : Ends(a, b, j)}
<1>1. Len(a) \in Nat /\ Len(a) + 1 \in T /\ T \subseteq Nat
  BY DEF Ends
<1>2. PICK j \in T : \A i \in Nat : i < j => i \notin T
  <2> HIDE DEF T
  <2> QED
    BY <1>1, LeastWith
<1>3. j \in k..(Len(a) + 1) /\ Ends(a, b, j)
  OBVIOUS
<1>4. \A i \in k..(j - 1) : ~Ends(a, b, i)
  <2> SUFFICES ASSUME NEW i \in k..(j - 1), Ends(a, b, i) PROVE FALSE
    OBVIOUS
  <2>1. i \in Nat /\ i < j /\ i \in k..(Len(a) + 1)
    BY <1>1, <1>3
  <2> QED
    BY <1>2, <2>1
<1> HIDE DEF T
<1> QED
  BY <1>3, <1>4, Zenon DEF FirstEnd

LEMMA FirstEndNext ==
    ASSUME NEW a \in Seq(Nat), NEW b, NEW k \in 1..(Len(a) + 1)
    PROVE  /\ Ends(a, b, k) => FirstEnd(a, b, k) = k
           /\ ~Ends(a, b, k) => k + 1 \in 1..(Len(a) + 1) /\ FirstEnd(a, b, k) = FirstEnd(a, b, k + 1)
<1> DEFINE m == FirstEnd(a, b, k)
           n == FirstEnd(a, b, k + 1)
<1>1. Len(a) \in Nat
  OBVIOUS
<1>2. m \in k..(Len(a) + 1) /\ Ends(a, b, m) /\ \A i \in k..(m - 1) : ~Ends(a, b, i)
  BY FirstEndIs
<1>3. ASSUME ~Ends(a, b, k) PROVE k + 1 \in 1..(Len(a) + 1)
  BY <1>1, <1>3 DEF Ends
<1>4. ASSUME ~Ends(a, b, k)
      PROVE  n \in (k + 1)..(Len(a) + 1) /\ Ends(a, b, n) /\ \A i \in (k + 1)..(n - 1) : ~Ends(a, b, i)
  BY <1>3, <1>4, FirstEndIs
<1> HIDE DEF m, n
<1>5. Ends(a, b, k) => m = k
  BY <1>1, <1>2
<1>6. ASSUME ~Ends(a, b, k) PROVE m = n
  <2>1. m # k
    BY <1>2, <1>6
  <2>2. n \in k..(Len(a) + 1) /\ m \in (k + 1)..(Len(a) + 1)
    BY <1>1, <1>2, <1>4, <1>6, <2>1
  <2>3. ~(n < m)
    BY <1>1, <1>2, <1>4, <1>6, <2>2
  <2>4. ~(m < n)
    BY <1>1, <1>2, <1>4, <1>6, <2>2
  <2> QED
    BY <1>1, <2>2, <2>3, <2>4
<1> QED
  BY <1>3, <1>5, <1>6 DEF m, n

OrderedFrom(op, a, b, f, k) ==
    LET now == level + k
    IN  IF k = Len(a) + 1 THEN [result |-> FALSE, level |-> level + k - 1]
        ELSE IF now > MaxRecursions \/ a[k] # b[k]
             THEN [result |-> now <= MaxRecursions /\ Relates(op, a[k], b[k]),
                   level |-> now]
             ELSE f[k + 1]

\* The recursion ends where the comparison ends.
LEMMA OrderedEnds ==
    ASSUME NEW op, NEW a \in Seq(Nat), NEW b \in Seq(Nat)
    PROVE  Ordered(op, a, b) = EndedAt(op, a, b, FirstEnd(a, b, 1))
<1> DEFINE S == 1..(Len(a) + 1)
           Is(f) == f = [k \in S |-> OrderedFrom(op, a, b, f, k)]
           from == CHOOSE f : Is(f)
           g == [k \in S |-> EndedAt(op, a, b, FirstEnd(a, b, k))]
           m == FirstEnd(a, b, 1)
<1>1. Ordered(op, a, b) = from[1]
  BY DEF Ordered, OrderedFrom
<1>2. \A k \in S : \A f : Ends(a, b, k) => OrderedFrom(op, a, b, f, k) = EndedAt(op, a, b, k)
  BY DEF Ends, OrderedFrom, EndedAt
<1>3. \A k \in S : \A f : ~Ends(a, b, k) => OrderedFrom(op, a, b, f, k) = f[k + 1]
  BY DEF Ends, OrderedFrom
<1>4. Is(g)
  <2>1. ASSUME NEW k \in S PROVE g[k] = OrderedFrom(op, a, b, g, k)
    <3>1. CASE Ends(a, b, k)
      BY <1>2, <3>1, FirstEndNext
    <3>2. CASE ~Ends(a, b, k)
      BY <1>3, <3>2, FirstEndNext
    <3> QED
      BY <3>1, <3>2
  <2> QED
    BY <2>1
<1>5. Is(from)
  <2> HIDE DEF Is, g
  <2> QED
    BY <1>4, Zenon
<1>6. \A k \in S : from[k] = OrderedFrom(op, a, b, from, k)
  BY <1>5
<1> HIDE DEF from, g, Is
<1>7. m \in S /\ Ends(a, b, m) /\ \A i \in 1..(m - 1) : ~Ends(a, b, i)
  BY FirstEndIs
<1> HIDE DEF m
<1> DEFINE T == {k \in 1..m : from[k] = EndedAt(op, a, b, m)}
<1>8. Len(a) \in Nat /\ m \in T /\ T \subseteq Nat
  BY <1>2, <1>6, <1>7
<1>9. PICK k \in T : \A i \in Nat : i < k => i \notin T
  <2> HIDE DEF T
  <2> QED
    BY <1>8, LeastWith
<1>10. k \in 1..m /\ from[k] = EndedAt(op, a, b, m)
  OBVIOUS
<1>11. k = 1
  <2> SUFFICES ASSUME k # 1 PROVE FALSE
    OBVIOUS
  <2>1. k - 1 \in 1..(m - 1) /\ k - 1 \in S /\ k - 1 + 1 = k /\ k - 1 \in 1..m /\ k - 1 < k
    BY <1>7, <1>8, <1>10
  <2>2. from[k - 1] = from[k]
    BY <1>3, <1>6, <1>7, <2>1
  <2>3. k - 1 \in T
    BY <1>10, <2>1, <2>2
  <2> QED
    BY <1>9, <2>1, <2>3
<1> QED
  BY <1>1, <1>10, <1>11 DEF m

\* While the counter lasts, the first components that differ decide.
LEMMA OrderedIs ==
    ASSUME level \in Nat, NEW op, NEW a \in Seq(Nat), NEW b \in Seq(Nat),
           Ordered(op, a, b).level <= MaxRecursions
    PROVE  Ordered(op, a, b).result <=>
              \E k \in 1..Len(a) : Differs(a, b, k) /\ Relates(op, a[k], b[k])
<1> DEFINE m == FirstEnd(a, b, 1)
           o == Ordered(op, a, b)
<1>1. MaxRecursions \in Nat /\ Len(a) \in Nat
  BY VersionAssumption
<1>2. m \in 1..(Len(a) + 1) /\ Ends(a, b, m) /\ \A i \in 1..(m - 1) : ~Ends(a, b, i)
  BY FirstEndIs
<1>3. o = EndedAt(op, a, b, m)
  BY OrderedEnds
<1> HIDE DEF m, o
<1>4. \A i \in 1..(m - 1) : a[i] = b[i]
  BY <1>2 DEF Ends
<1>5. CASE m = Len(a) + 1
  <2>1. \A i \in 1..Len(a) : a[i] = b[i]
    BY <1>1, <1>4, <1>5
  <2>2. o.result = FALSE
    BY <1>3, <1>5 DEF EndedAt
  <2> QED
    BY <2>1, <2>2 DEF Differs, o
<1>6. CASE m # Len(a) + 1
  <2>1. o = [result |-> level + m <= MaxRecursions /\ Relates(op, a[m], b[m]),
             level |-> level + m]
    BY <1>3, <1>6 DEF EndedAt
  <2>2. level + m <= MaxRecursions
    BY <2>1 DEF o
  <2>3. o.result <=> Relates(op, a[m], b[m])
    BY <2>1, <2>2
  <2>4. m \in 1..Len(a) /\ Differs(a, b, m)
    BY <1>1, <1>2, <1>4, <1>6, <2>2 DEF Ends, Differs
  <2>5. ASSUME NEW k \in 1..Len(a), Differs(a, b, k) PROVE k = m
    <3>1. ~(k < m)
      BY <1>1, <1>2, <1>4, <2>5 DEF Differs
    <3>2. ~(m < k)
      BY <1>1, <1>2, <2>4, <2>5 DEF Differs
    <3> QED
      BY <1>1, <1>2, <3>1, <3>2
  <2> QED
    BY <2>3, <2>4, <2>5 DEF o
<1> QED
  BY <1>5, <1>6

LEMMA NumsEqual ==
    ASSUME NEW a \in Seq(Nat), NEW b \in Seq(Nat), Len(a) = Len(b),
           \A k \in 1..Len(a) : a[k] = b[k]
    PROVE  a = b
BY SeqEqual, Zenon

LEMMA FirstDiffers ==
    ASSUME NEW a \in Seq(Nat), NEW b \in Seq(Nat), Len(a) = Len(b)
    PROVE  /\ a # b => \E k \in 1..Len(a) : Differs(a, b, k)
           /\ a = b => \A k \in 1..Len(a) : ~Differs(a, b, k)
           /\ \A j, k \in 1..Len(a) : Differs(a, b, j) /\ Differs(a, b, k) => j = k
<1>1. Len(a) \in Nat
  OBVIOUS
<1>2. ASSUME a # b PROVE \E k \in 1..Len(a) : Differs(a, b, k)
  <2> DEFINE T == {k \in 1..Len(a) : a[k] # b[k]}
  <2>1. T # {} /\ T \subseteq Nat
    <3>1. T = {} => \A k \in 1..Len(a) : a[k] = b[k]
      OBVIOUS
    <3> QED
      BY <1>2, <3>1, NumsEqual
  <2>2. PICK k \in T : \A i \in Nat : i < k => i \notin T
    <3> HIDE DEF T
    <3> QED
      BY <2>1, LeastWith
  <2>3. ASSUME NEW j \in 1..(k - 1) PROVE a[j] = b[j]
    <3>1. j \in Nat /\ j < k /\ j \in 1..Len(a)
      BY <1>1
    <3> QED
      BY <2>2, <3>1
  <2> QED
    BY <2>3 DEF Differs
<1>3. a = b => \A k \in 1..Len(a) : ~Differs(a, b, k)
  BY DEF Differs
<1>4. ASSUME NEW j \in 1..Len(a), NEW k \in 1..Len(a), Differs(a, b, j), Differs(a, b, k)
      PROVE  j = k
  <2>1. ~(j < k) /\ ~(k < j)
    BY <1>1, <1>4 DEF Differs
  <2> QED
    BY <2>1
<1> QED
  BY <1>2, <1>3, <1>4

LEMMA ParseType ==
    ASSUME NEW t \in Texts
    PROVE  Parse(t) \in [nums : Seq(Nat), special : Nat]
<1>1. t.comps \in Seq(Nat) /\ t.special \in Nat /\ Len(t.comps) \in Nat
  BY VersionAssumption
<1> DEFINE n == Larger(Len(t.comps), 3)
           c == [k \in 1..n |-> IF k <= Len(t.comps) THEN t.comps[k] ELSE 0]
<1>2. n \in Nat
  BY <1>1 DEF Larger
<1> HIDE DEF n
<1>3. c \in Seq(Nat)
  BY <1>1, <1>2
<1> QED
  BY <1>1, <1>3 DEF Parse, n

LEMMA PaddedIs ==
    ASSUME NEW a \in Seq(Nat), NEW b \in Seq(Nat)
    PROVE  /\ Padded(a, b) \in Seq(Nat)
           /\ Len(Padded(a, b)) = Larger(Len(a), Len(b))
           /\ DOMAIN a \cup DOMAIN b = 1..Larger(Len(a), Len(b))
           /\ \A k \in 1..Larger(Len(a), Len(b)) :
                 Padded(a, b)[k] = IF k \in DOMAIN a THEN a[k] ELSE 0
<1>1. Len(a) \in Nat /\ Len(b) \in Nat /\ \A k \in 1..Len(a) : a[k] \in Nat
  OBVIOUS
<1>0. DOMAIN a = 1..Len(a) /\ DOMAIN b = 1..Len(b)
  OBVIOUS
<1> DEFINE n == Larger(Len(a), Len(b))
           c == [k \in 1..n |-> IF k <= Len(a) THEN a[k] ELSE 0]
<1>2. n \in Nat /\ Len(a) <= n /\ Len(b) <= n /\ (n = Len(a) \/ n = Len(b))
  BY <1>1 DEF Larger
<1>3. Padded(a, b) = c
  BY DEF Padded
<1> HIDE DEF n
<1>4. \A k \in 1..n : c[k] = IF k \in DOMAIN a THEN a[k] ELSE 0
  <2>0. \A k \in 1..n : k \in 1..Len(a) <=> k <= Len(a)
    BY <1>1, <1>2
  <2>1. \A k \in 1..n : k \in DOMAIN a <=> k <= Len(a)
    BY <1>0, <2>0
  <2> QED
    BY <2>1
<1>5. c \in Seq(Nat) /\ Len(c) = n
  <2>1. \A k \in 1..n : (IF k <= Len(a) THEN a[k] ELSE 0) \in Nat
    BY <1>1, <1>2
  <2>2. c \in [1..n -> Nat]
    BY <2>1
  <2> HIDE DEF c
  <2> QED
    BY <1>2, <2>2
<1>6. DOMAIN a \cup DOMAIN b = 1..n
  <2>1. (1..Len(a)) \cup (1..Len(b)) = 1..n
    BY <1>1, <1>2
  <2> QED
    BY <1>0, <2>1
<1> QED
  BY <1>3, <1>4, <1>5, <1>6 DEF n

VersionType == [nums : Seq(Nat), special : Nat]

\* The order of two versions, by their padded components.
LEMMA AboveIs ==
    ASSUME NEW l \in VersionType, NEW r \in VersionType, NEW a, NEW b,
           a = Padded(l.nums, r.nums), b = Padded(r.nums, l.nums)
    PROVE  /\ a \in Seq(Nat) /\ b \in Seq(Nat) /\ Len(a) = Len(b)
           /\ Above(l, r) <=> \/ \E k \in 1..Len(a) : Differs(a, b, k) /\ a[k] > b[k]
                              \/ a = b /\ l.special > r.special
           /\ Above(r, l) <=> \/ \E k \in 1..Len(a) : Differs(a, b, k) /\ a[k] < b[k]
                              \/ a = b /\ l.special < r.special
<1> DEFINE n == Larger(Len(l.nums), Len(r.nums))
<1>1. /\ l.nums \in Seq(Nat) /\ r.nums \in Seq(Nat)
      /\ l.special \in Nat /\ r.special \in Nat
  BY DEF VersionType
<1>2. Larger(Len(r.nums), Len(l.nums)) = n /\ n \in Nat
  BY <1>1 DEF Larger
<1> HIDE DEF n
<1>3. /\ a \in Seq(Nat) /\ Len(a) = n /\ DOMAIN l.nums \cup DOMAIN r.nums = 1..n
      /\ \A k \in 1..n : a[k] = Component(l, k)
  BY <1>1, PaddedIs DEF Component, n
<1>4. /\ b \in Seq(Nat) /\ Len(b) = n /\ DOMAIN r.nums \cup DOMAIN l.nums = 1..n
      /\ \A k \in 1..n : b[k] = Component(r, k)
  BY <1>1, <1>2, PaddedIs DEF Component
<1>5. /\ \A k \in 1..n : a[k] \in Nat /\ b[k] \in Nat
      /\ a = b <=> \A k \in 1..n : a[k] = b[k]
  <2>1. \A k \in 1..n : a[k] \in Nat /\ b[k] \in Nat
    <3>1. a \in Seq(Nat) /\ b \in Seq(Nat) /\ Len(a) = n /\ Len(b) = n
      BY <1>3, <1>4
    <3> QED
      BY <3>1
  <2>2. (\A k \in 1..n : a[k] = b[k]) => a = b
    BY <1>3, <1>4, NumsEqual
  <2> QED
    BY <2>1, <2>2
<1>6. /\ Same(l, r) <=> a = b
      /\ Same(r, l) <=> a = b
  BY <1>3, <1>4, <1>5 DEF Same
<1>7. ASSUME NEW k \in 1..n
      PROVE  /\ (\A j \in 1..(k - 1) : Component(l, j) = Component(r, j))
                   <=> (\A j \in 1..(k - 1) : a[j] = b[j])
             /\ (\A j \in 1..(k - 1) : Component(r, j) = Component(l, j))
                   <=> (\A j \in 1..(k - 1) : a[j] = b[j])
  <2>1. \A j \in 1..(k - 1) : j \in 1..n
    BY <1>2
  <2> QED
    BY <1>3, <1>4, <2>1
<1>8. Above(l, r) <=> \/ \E k \in 1..n : Differs(a, b, k) /\ a[k] > b[k]
                      \/ a = b /\ l.special > r.special
  <2>1. \A k \in 1..n : Component(l, k) > Component(r, k) <=> a[k] > b[k]
    BY <1>3, <1>4
  <2>2. \A k \in 1..n : a[k] > b[k] => a[k] # b[k]
    BY <1>5
  <2>3. ASSUME NEW k \in 1..n
        PROVE  /\ Component(l, k) > Component(r, k)
               /\ \A j \in 1..(k - 1) : Component(l, j) = Component(r, j)
               <=> Differs(a, b, k) /\ a[k] > b[k]
    BY <1>7, <2>1, <2>2 DEF Differs
  <2>4. Above(l, r) <=> \/ \E k \in 1..n : Component(l, k) > Component(r, k) /\
                                 \A j \in 1..(k - 1) : Component(l, j) = Component(r, j)
                        \/ a = b /\ l.special > r.special
    BY <1>3, <1>6 DEF Above
  <2> QED
    BY <2>3, <2>4, Zenon
<1>9. Above(r, l) <=> \/ \E k \in 1..n : Differs(a, b, k) /\ a[k] < b[k]
                      \/ a = b /\ l.special < r.special
  <2>1. \A k \in 1..n : Component(r, k) > Component(l, k) <=> a[k] < b[k]
    BY <1>3, <1>4, <1>5
  <2>2. r.special > l.special <=> l.special < r.special
    BY <1>1
  <2>3. \A k \in 1..n : a[k] < b[k] => a[k] # b[k]
    BY <1>5
  <2>4. ASSUME NEW k \in 1..n
        PROVE  /\ Component(r, k) > Component(l, k)
               /\ \A j \in 1..(k - 1) : Component(r, j) = Component(l, j)
               <=> Differs(a, b, k) /\ a[k] < b[k]
    BY <1>7, <2>1, <2>3 DEF Differs
  <2>5. Above(r, l) <=> \/ \E k \in 1..n : Component(r, k) > Component(l, k) /\
                                 \A j \in 1..(k - 1) : Component(r, j) = Component(l, j)
                        \/ a = b /\ l.special < r.special
    BY <1>4, <1>6, <2>2 DEF Above
  <2> QED
    BY <2>4, <2>5, Zenon
<1> QED
  BY <1>3, <1>4, <1>8, <1>9

LEMMA CompareRight ==
    ASSUME level \in Nat, NEW op \in Ops, NEW l \in VersionType, NEW r \in VersionType,
           Compare(op, l, r).level <= MaxRecursions
    PROVE  Right([op |-> op, l |-> l, r |-> r, result |-> Compare(op, l, r).result,
                  safe |-> TRUE])
<1> DEFINE a == Padded(l.nums, r.nums)
           b == Padded(r.nums, l.nums)
           d == \E k \in 1..Len(a) : Differs(a, b, k) /\ Relates(op, a[k], b[k])
           res == Compare(op, l, r).result
<1>1. /\ a \in Seq(Nat) /\ b \in Seq(Nat) /\ Len(a) = Len(b)
      /\ Above(l, r) <=> \/ \E k \in 1..Len(a) : Differs(a, b, k) /\ a[k] > b[k]
                         \/ a = b /\ l.special > r.special
      /\ Above(r, l) <=> \/ \E k \in 1..Len(a) : Differs(a, b, k) /\ a[k] < b[k]
                         \/ a = b /\ l.special < r.special
  BY AboveIs
<1>2. Ordered(op, a, b).level <= MaxRecursions
  BY DEF Compare
<1> DEFINE holds == \/ Ordered(op, a, b).result
                    \/ a = b /\ Relates(op, l.special, r.special)
                    \/ op \in {"<=", ">="} /\ a = b /\ l.special = r.special
<1>3. res = holds
  BY DEF Compare
<1> HIDE DEF a, b, res
<1>4. Ordered(op, a, b).result <=> d
  BY <1>1, <1>2, OrderedIs
<1>5. res \in BOOLEAN
  BY <1>3, Zenon
<1> HIDE DEF d
<1>6. res <=> \/ d
              \/ a = b /\ Relates(op, l.special, r.special)
              \/ op \in {"<=", ">="} /\ a = b /\ l.special = r.special
  <2>1. holds <=> \/ d
                  \/ a = b /\ Relates(op, l.special, r.special)
                  \/ op \in {"<=", ">="} /\ a = b /\ l.special = r.special
    BY <1>4
  <2> HIDE DEF holds
  <2> QED
    BY <1>3, <2>1
<1>7. /\ a # b => \E k \in 1..Len(a) : Differs(a, b, k)
      /\ a = b => \A k \in 1..Len(a) : ~Differs(a, b, k)
      /\ \A j, k \in 1..Len(a) : Differs(a, b, j) /\ Differs(a, b, k) => j = k
  BY <1>1, FirstDiffers
<1>8. /\ l.special \in Nat /\ r.special \in Nat
      /\ \A k \in 1..Len(a) : a[k] \in Nat /\ b[k] \in Nat
  <2>1. l.special \in Nat /\ r.special \in Nat
    BY DEF VersionType
  <2>2. a \in Seq(Nat) /\ b \in Seq(Nat) /\ Len(a) = Len(b)
    BY <1>1
  <2> QED
    BY <2>1, <2>2
<1>9. op = ">" => (res <=> Above(l, r))
  BY <1>1, <1>6 DEF Relates, d
<1>10. op = "<" => (res <=> Above(r, l))
  BY <1>1, <1>6 DEF Relates, d
<1>11. op = ">=" => (res <=> ~Above(r, l))
  <2>1. CASE a = b
    BY <1>1, <1>6, <1>7, <1>8, <2>1 DEF Relates, d
  <2>2. CASE a # b
    <3>1. PICK k \in 1..Len(a) : Differs(a, b, k)
      BY <1>7, <2>2
    <3>2. a[k] # b[k] /\ \A j \in 1..Len(a) : Differs(a, b, j) => j = k
      BY <1>7, <3>1 DEF Differs
    <3>3. a[k] > b[k] <=> ~(a[k] < b[k])
      BY <1>8, <3>2
    <3> QED
      BY <1>1, <1>6, <2>2, <3>1, <3>2, <3>3 DEF Relates, d
  <2> QED
    BY <2>1, <2>2
<1>12. op = "<=" => (res <=> ~Above(l, r))
  <2>1. CASE a = b
    BY <1>1, <1>6, <1>7, <1>8, <2>1 DEF Relates, d
  <2>2. CASE a # b
    <3>1. PICK k \in 1..Len(a) : Differs(a, b, k)
      BY <1>7, <2>2
    <3>2. a[k] # b[k] /\ \A j \in 1..Len(a) : Differs(a, b, j) => j = k
      BY <1>7, <3>1 DEF Differs
    <3>3. a[k] > b[k] <=> ~(a[k] < b[k])
      BY <1>8, <3>2
    <3> QED
      BY <1>1, <1>6, <2>2, <3>1, <3>2, <3>3 DEF Relates, d
  <2> QED
    BY <2>1, <2>2
<1>13. op \in {"<", ">", "<=", ">="}
  BY DEF Ops
<1>14. Above(l, r) \in BOOLEAN /\ Above(r, l) \in BOOLEAN
  BY DEF Above
<1>15. res = CASE op = ">" -> Above(l, r)
               [] op = "<" -> Above(r, l)
               [] op = ">=" -> ~Above(r, l)
               [] op = "<=" -> ~Above(l, r)
  BY <1>5, <1>9, <1>10, <1>11, <1>12, <1>13, <1>14
<1> QED
  BY <1>15 DEF Right, res

VInv == level \in Nat /\ RightUntilExhausted

LEMMA EvaluateRight ==
    ASSUME VInv, NEW op \in Ops, NEW s \in Texts, NEW t \in Texts, Evaluate(op, s, t)
    PROVE  VInv'
<1> DEFINE c == Compare(op, Parse(s), Parse(t))
<1>1. Parse(s) \in VersionType /\ Parse(t) \in VersionType
  BY ParseType DEF VersionType
<1>2. /\ level' = IF c.level > MaxRecursions THEN MaxRecursions ELSE c.level
      /\ last' = [op |-> op, l |-> Parse(s), r |-> Parse(t),
                  result |-> c.result, safe |-> c.level <= MaxRecursions]
  BY DEF Evaluate
<1>3. c.level \in Nat
  <2>1. /\ Padded(Parse(s).nums, Parse(t).nums) \in Seq(Nat)
        /\ Padded(Parse(t).nums, Parse(s).nums) \in Seq(Nat)
    BY <1>1, PaddedIs DEF VersionType
  <2> DEFINE a == Padded(Parse(s).nums, Parse(t).nums)
             b == Padded(Parse(t).nums, Parse(s).nums)
  <2>2. c.level = Ordered(op, a, b).level
    BY DEF Compare
  <2> HIDE DEF a, b
  <2>3. Ordered(op, a, b) = EndedAt(op, a, b, FirstEnd(a, b, 1))
    BY <2>1, OrderedEnds DEF a, b
  <2>4. FirstEnd(a, b, 1) \in 1..(Len(a) + 1) /\ Len(a) \in Nat
    BY <2>1, FirstEndIs DEF a, b
  <2> HIDE DEF c
  <2> QED
    BY <2>2, <2>3, <2>4 DEF VInv, EndedAt
<1>4. c.level <= MaxRecursions =>
         Right([op |-> op, l |-> Parse(s), r |-> Parse(t), result |-> c.result, safe |-> TRUE])
  BY <1>1, CompareRight DEF VInv
<1> HIDE DEF c
<1>5. level' \in Nat
  BY <1>2, <1>3, VersionAssumption
<1>6. last'.safe => Right(last')
  BY <1>2, <1>4 DEF Right
<1> QED
  BY <1>5, <1>6 DEF VInv, RightUntilExhausted, Right, Above, Same, Component

\* A comparison holds if and only if the first component that differs says so, or
\* the special parts of versions that do not differ, as long as the recursion guard
\* has not counted to its limit, for version numbers of any number of components
\* (version.cpp:178-243).
THEOREM RightUntilExhaustedAlways == VersionSpec => []RightUntilExhausted
<1>1. VersionInit => VInv
  BY DEF VersionInit, VInv, RightUntilExhausted
<1>2. VInv /\ [VersionNext]_<<level, last>> => VInv'
  <2> SUFFICES ASSUME VInv, [VersionNext]_<<level, last>> PROVE VInv'
    OBVIOUS
  <2>1. CASE UNCHANGED <<level, last>>
    BY <2>1 DEF VInv, RightUntilExhausted, Right, Above, Same, Component
  <2>2. CASE VersionNext
    BY <2>2, EvaluateRight DEF VersionNext
  <2> QED
    BY <2>1, <2>2
<1>3. VInv => RightUntilExhausted
  BY DEF VInv
<1> QED
  BY <1>1, <1>2, <1>3, PTL DEF VersionSpec

-----------------------------------------------------------------------------
(* The add-ons of the game *)

USE GaAssumption

\* The type invariant needs that what is served was published.
ServedPublished == \A t \in Titles : Served(t) => srv[t].ver # 0

\* What is removed or unpacked was chosen.
InHand == dlg.at \in {"remove", "unpack"} => dlg.item \in dlg.todo

Types == GaTypeOK /\ ServedPublished /\ InHand

LEMMA EmptyType == Empty \in Place /\ Empty.main = 0 /\ Empty.rest = 0 /\ Empty.info = 0
BY DEF Empty, Place, Vers

LEMMA MixedType == ASSUME NEW fs, NEW p \in Place, NEW q \in Place
                   PROVE  Mixed(fs, p, q) \in Place
BY DEF Mixed, Place

LEMMA PathsOf == ASSUME NEW d \in Dirs, NEW e \in Dirs
                 PROVE  <<d>> \in Paths /\ <<d, e>> \in Paths
BY DEF Paths

LEMMA AtRestType == AtRest \in Dialogs /\ AtRest.got = Absent /\ AtRest.at = "rest"
<1>1. [t \in Titles |-> 0] \in [Titles -> Vers]
  BY DEF Vers
<1> QED
  BY <1>1 DEF AtRest, Dialogs

LEMMA EndingType == ASSUME NEW b \in BOOLEAN
                    PROVE  /\ Ending(b) \in Dialogs
                           /\ Ending(b).got = Absent /\ Ending(b).at = "end"
BY AtRestType DEF Ending, Dialogs

LEMMA ReturnedType == ASSUME NEW d \in Dialogs, NEW ok \in BOOLEAN, d.at \in {"get", "unpack"}
                      PROVE  /\ Returned(d, ok) \in Dialogs
                             /\ Returned(d, ok).got = Absent
                             /\ Returned(d, ok).at \in {"done", "get"}
BY DEF Returned, Dialogs

\* What removing and unpacking leave are files of known versions.
LEMMA RemovedType == ASSUME NEW d, GaTypeOK, Removed(d) \/ RemovedInPart(d), d \in Dirs
                     PROVE  /\ place' \in [Paths -> Place]
                            /\ damaged' \subseteq Dirs
                            /\ faults' \in 0..MaxFaults
<1>1. CASE Removed(d)
  BY <1>1, EmptyType DEF Removed, GaTypeOK
<1>2. CASE RemovedInPart(d)
  <2>1. place' \in [Paths -> Place]
    BY <1>2, EmptyType, MixedType DEF RemovedInPart, GaTypeOK
  <2> QED
    BY <1>2, <2>1 DEF RemovedInPart, GaTypeOK, Fault
<1> QED
  BY <1>1, <1>2

LEMMA UnpackedType == ASSUME NEW done, GaTypeOK, dlg.at = "unpack", dlg.item \in Titles,
                             Unpacked(done)
                      PROVE  place' \in [Paths -> Place]
<1> DEFINE t == dlg.item
           l == dlg.got.layout
           new == [main |-> dlg.got.ver, rest |-> dlg.got.ver, info |-> dlg.list[t]]
           files == [place EXCEPT ![Target(t, l)] = Mixed(done \ {"info"}, new, @)]
<1>1. dlg.got \in Published /\ dlg.list[t] \in Vers
  BY DEF GaTypeOK, Dialogs
<1>2. new \in Place
  BY <1>1 DEF Published, Place, Vers
<1>3. Target(t, l) \in Paths
  BY PathsOf DEF Target
<1>4. files \in [Paths -> Place]
  BY <1>2, <1>3, MixedType DEF GaTypeOK
<1> HIDE DEF files, new
<1>5. CASE "info" \in done /\ l # "script"
  <2>1. InfoTarget(t, l) \in Paths
    BY <1>1, <1>5, PathsOf DEF InfoTarget, Published
  <2>2. place' = [files EXCEPT ![InfoTarget(t, l)] = Mixed({"info"}, new, @)]
    BY <1>5 DEF Unpacked, files, new
  <2> QED
    BY <1>2, <1>4, <2>1, <2>2, MixedType
<1>6. CASE ~ ("info" \in done /\ l # "script")
  BY <1>4, <1>6 DEF Unpacked, files, new
<1> QED
  BY <1>5, <1>6

-----------------------------------------------------------------------------
(* Type correctness *)

LEMMA InitTypes == GaInit => Types
<1> SUFFICES ASSUME GaInit PROVE Types
  OBVIOUS
<1>1. dlg = AtRest /\ srv \in Servers
  BY DEF GaInit
<1>2. 0 \in Vers /\ 0 \in 0..MaxFaults
  BY DEF Vers
<1>3. GaTypeOK
  BY <1>1, <1>2, EmptyType, AtRestType DEF GaInit, GaTypeOK
<1>4. ServedPublished
  BY DEF GaInit, ServedPublished
<1> QED
  BY <1>1, <1>3, <1>4 DEF Types, InHand, AtRest

\* The server's steps.
LEMMA ServerTypes == ASSUME Types, NEW t \in Titles,
                            (\E l \in Layouts : Publish(t, l)) \/ Unpublish(t)
                     PROVE  Types'
<1>1. UNCHANGED <<place, cache, dlg, damaged, faults>>
  BY DEF Publish, Unpublish
<1>2. srv' \in Servers /\ ServedPublished'
  <2>1. CASE \E l \in Layouts : Publish(t, l)
    <3>1. PICK l \in Layouts : Publish(t, l)
      BY <2>1
    <3>2. srv' = [srv EXCEPT ![t] = [layout |-> l, ver |-> srv[t].ver + 1]]
      BY <3>1 DEF Publish
    <3>3. srv[t].ver + 1 \in Vers /\ srv[t].ver + 1 # 0
      BY <3>1 DEF Publish, Types, GaTypeOK, Servers, Vers
    <3> QED
      BY <3>2, <3>3 DEF Types, GaTypeOK, Servers, ServedPublished, Served
  <2>2. CASE Unpublish(t)
    <3>1. srv' = [srv EXCEPT ![t].layout = Absent]
      BY <2>2 DEF Unpublish
    <3>2. srv' \in Servers
      BY <3>1 DEF Types, GaTypeOK, Servers
    <3>3. \A u \in Titles : srv'[u].ver = srv[u].ver
                            /\ (srv'[u].layout # Absent => srv[u].layout # Absent)
      BY <3>1 DEF Types, GaTypeOK, Servers
    <3> QED
      BY <3>2, <3>3 DEF Types, ServedPublished, Served
  <2> QED
    BY <2>1, <2>2
<1> QED
  BY <1>1, <1>2 DEF Types, GaTypeOK, InHand

\* Steps of the dialogs that change nothing else.
LEMMA DialogTypes ==
    ASSUME Types,
           \/ \E m \in {"download", "update", "uninstall"} : Open(m)
           \/ FetchList \/ Leave \/ Read
           \/ \E ts \in SUBSET Titles : Choose(ts)
           \/ \E t \in Titles : Get(t) \/ GetFails(t)
    PROVE  Types'
<1>1. UNCHANGED <<srv, place, cache, damaged, faults>>
  BY DEF Open, FetchList, Leave, Read, Choose, Get, GetFails
<1> USE DEF Types, GaTypeOK, InHand
<1> SUFFICES GaTypeOK' /\ InHand'
  BY <1>1 DEF ServedPublished, Served
<1>3. CASE \E m \in {"download", "update", "uninstall"} : Open(m)
  <2>1. PICK m \in {"download", "update", "uninstall"} : Open(m)
    BY <1>3
  <2>2. dlg' \in Dialogs /\ dlg'.got = Absent /\ dlg'.at \in {"list", "choose"}
    BY <2>1, AtRestType DEF Open, Dialogs
  <2> QED
    BY <1>1, <2>2
<1>4. CASE FetchList
  <2>1. [t \in Titles |-> IF Served(t) THEN srv[t].ver ELSE 0] \in [Titles -> Vers]
    BY DEF Servers, Vers
  <2> QED
    BY <1>1, <1>4, <2>1 DEF FetchList, Outdated, Dialogs
<1>5. CASE Leave
  <2>1. dlg' = Ending(dlg.refresh) /\ dlg.refresh \in BOOLEAN
    BY <1>5 DEF Leave, Dialogs
  <2> QED
    BY <1>1, <2>1, EndingType
<1>6. CASE Read
  <2>1. dlg.refresh \in BOOLEAN
    BY DEF Dialogs
  <2>2. dlg' \in Dialogs /\ dlg'.got = Absent /\ dlg'.at \in {"end", "list"}
    BY <1>6, <2>1, EndingType, AtRestType DEF Read, Dialogs
  <2> QED
    BY <1>1, <2>2
<1>7. CASE \E ts \in SUBSET Titles : Choose(ts)
  <2>1. PICK ts \in SUBSET Titles : Choose(ts)
    BY <1>7
  <2>2. dlg' = [dlg EXCEPT !.at = "get", !.todo = ts, !.chosen = ts] /\ dlg.at = "choose"
    BY <2>1 DEF Choose
  <2> QED
    BY <1>1, <2>2 DEF Dialogs
<1>8. ASSUME NEW t \in Titles, Get(t) PROVE GaTypeOK' /\ InHand'
  <2>1. srv[t].ver \in 1..MaxVer /\ srv[t].layout \in Layouts
    <3>1. srv[t].ver \in Vers /\ srv[t].layout \in Layouts \cup {Absent}
      BY DEF Servers
    <3>2. srv[t].layout # Absent /\ srv[t].ver # 0
      BY <1>8 DEF Get, ServedPublished, Served
    <3> QED
      BY <3>1, <3>2 DEF Vers
  <2>2. srv[t] \in Published
    BY <2>1 DEF Servers, Published
  <2>3. srv[t] # Absent
    BY <2>2 DEF Published
  <2>4. dlg' = [dlg EXCEPT !.at = "remove", !.item = t, !.got = srv[t]] /\ t \in dlg.todo
    BY <1>8 DEF Get
  <2>5. /\ dlg' \in Dialogs /\ dlg'.at = "remove" /\ dlg'.got = srv[t]
        /\ dlg'.item = t /\ dlg'.todo = dlg.todo
    <3> HIDE DEF GaTypeOK
    <3> DEFINE got == srv[t]
    <3>1. got \in Published /\ dlg \in Dialogs
      BY <2>2 DEF GaTypeOK
    <3> HIDE DEF got
    <3> QED
      BY <2>4, <3>1 DEF Dialogs, got
  <2> QED
    BY <1>1, <2>3, <2>4, <2>5
<1>9. ASSUME NEW t \in Titles, GetFails(t) PROVE GaTypeOK' /\ InHand'
  <2>1. dlg' = Returned([dlg EXCEPT !.item = t], FALSE) /\ dlg.at = "get"
    BY <1>9 DEF GetFails
  <2>2. [dlg EXCEPT !.item = t] \in Dialogs /\ [dlg EXCEPT !.item = t].at = "get"
    BY <2>1 DEF Dialogs
  <2> QED
    BY <1>1, <2>1, <2>2, ReturnedType
<1> QED
  BY <1>3, <1>4, <1>5, <1>6, <1>7, <1>8, <1>9

\* Steps that change the user's directories.
LEMMA FilesTypes ==
    ASSUME Types, RemoveOld \/ Unpack \/ UnpackFails \/ \E d \in Dirs : Uninstall(d)
    PROVE  Types'
<1>1. srv' = srv /\ cache' = cache
  BY DEF RemoveOld, Unpack, UnpackFails, Uninstall
<1> USE DEF Types, GaTypeOK, InHand
<1> SUFFICES GaTypeOK' /\ InHand'
  BY <1>1 DEF ServedPublished, Served
<1>2. dlg.refresh \in BOOLEAN
  BY DEF Dialogs
<1>3. CASE RemoveOld
  <2>1. dlg.item \in Titles /\ dlg.item \in Dirs
    BY <1>3 DEF RemoveOld, Dialogs
  <2>2. /\ place' \in [Paths -> Place]
        /\ damaged' \subseteq Dirs
        /\ faults' \in 0..MaxFaults
    BY <1>3, <2>1, RemovedType DEF RemoveOld
  <2> QED
    BY <1>1, <1>3, <2>2 DEF RemoveOld, Dialogs
<1>4. CASE Unpack
  <2>1. place' \in [Paths -> Place]
    BY <1>4, UnpackedType DEF Unpack, Dialogs
  <2> QED
    BY <1>1, <1>4, <2>1, ReturnedType DEF Unpack
<1>5. CASE UnpackFails
  <2>1. PICK done \in SUBSET {"main", "rest"} : Unpacked(done)
    BY <1>5 DEF UnpackFails
  <2>2. place' \in [Paths -> Place]
    BY <1>5, <2>1, UnpackedType DEF UnpackFails, Dialogs
  <2>3. faults' \in 0..MaxFaults
    BY <1>5 DEF UnpackFails, Fault
  <2> QED
    BY <1>1, <1>2, <1>5, <2>2, <2>3, EndingType DEF UnpackFails
<1>6. ASSUME NEW d \in Dirs, Uninstall(d) PROVE GaTypeOK' /\ InHand'
  <2>1. Under[d] \in Dirs
    OBVIOUS
  <2>2. /\ place' \in [Paths -> Place]
        /\ damaged' \subseteq Dirs
        /\ faults' \in 0..MaxFaults
    BY <1>6, <2>1, RemovedType DEF Uninstall
  <2>3. dlg' = Ending(TRUE) \/ dlg' = Ending(dlg.refresh)
    BY <1>6 DEF Uninstall
  <2> QED
    BY <1>1, <1>2, <2>2, <2>3, EndingType
<1> QED
  BY <1>3, <1>4, <1>5, <1>6

LEMMA CacheTypes == ASSUME Types, Finish \/ Restart PROVE Types'
<1>1. UNCHANGED <<srv, place, damaged, faults>> /\ dlg' = AtRest
  BY DEF Finish, Restart
<1>2. Probed \in [Dirs -> Vers]
  <2>1. \A d \in Dirs : place[<<d>>] \in Place
    BY PathsOf DEF Types, GaTypeOK
  <2>2. \A d \in Dirs : place[<<d>>].info \in Vers
    BY <2>1 DEF Place
  <2> QED
    BY <2>2 DEF Probed, Vers
<1>3. cache' \in [Dirs -> Vers]
  BY <1>2 DEF Finish, Restart, Types, GaTypeOK
<1> QED
  BY <1>1, <1>3, AtRestType DEF Types, GaTypeOK, InHand, ServedPublished, Served

LEMMA NextTypes == Types /\ [GaNext]_gaVars => Types'
<1> SUFFICES ASSUME Types, [GaNext]_gaVars PROVE Types'
  OBVIOUS
<1>1. CASE UNCHANGED gaVars
  BY <1>1 DEF gaVars, Types, GaTypeOK, ServedPublished, Served, InHand
<1>2. CASE GaNext
  BY <1>2, ServerTypes, DialogTypes, FilesTypes, CacheTypes DEF GaNext
<1> QED
  BY <1>1, <1>2

LEMMA AlwaysTypes == GaSpec => []Types
<1>1. GaInit => Types
  BY InitTypes
<1>2. Types /\ [GaNext]_gaVars => Types'
  BY NextTypes
<1> QED
  BY <1>1, <1>2, PTL DEF GaSpec

\* The variables keep their types, and something is in hand exactly while it is
\* removed and unpacked (addon_management.cpp:635).
THEOREM GaTypeCorrect == GaSpec => []GaTypeOK
<1>1. Types => GaTypeOK
  BY DEF Types
<1> QED
  BY <1>1, AlwaysTypes, PTL

-----------------------------------------------------------------------------
(* What the user is told *)

\* Add-ons are published by campaignd's users or with the script, from directories
\* of their names.  The game does otherwise, and is not told the truth.
LaidOut ==
    /\ \A t \in Titles : DirOf[t] = t
    /\ Layouts \subseteq {"campaignd", "script"}

\* Versions only grow: neither a list, nor what is in hand, nor an _info.cfg is
\* ahead of the server, and what is in hand is not behind its list.
ListsOld == \A t \in Titles : dlg.list[t] <= srv[t].ver
InfosOld == \A t \in Titles : place[<<t>>].info <= srv[t].ver
NotAhead ==
    /\ ListsOld /\ InfosOld
    /\ dlg.at \in {"remove", "unpack"} =>
          /\ dlg.list[dlg.item] <= dlg.got.ver
          /\ place[<<dlg.item>>].info <= dlg.got.ver

\* Files are unpacked over nothing, unless removing them failed.
Cleared == dlg.at = "unpack" /\ dlg.item \notin damaged => place[<<dlg.item>>] = Empty

\* Of the chosen add-ons those that are not left to do are installed, unless one
\* of them failed.
Installs(t) == LET here == place[<<t>>]
               IN  here.main # 0 /\ here.main >= dlg.list[t] /\ here.rest >= dlg.list[t]
Progress ==
    /\ dlg.at = "done" => dlg.todo = {}
    /\ dlg.at \in {"get", "remove", "unpack", "done"} /\ ~ dlg.failed =>
          \A t \in dlg.chosen \ dlg.todo : Installs(t)

\* Nothing was installed that the cache does not know, unless a refresh is due.
CacheFresh ==
    /\ dlg.at = "rest" \/ (dlg.at \in {"list", "choose"} /\ dlg.mode = "update")
          => ~ dlg.refresh
    /\ ~ dlg.refresh =>
          \A t \in Titles \ damaged :
             LET here == place[<<t>>]
             IN  here.main # 0 => here.info = 0 \/ cache[t] = here.info

GaIInv == Types /\ NotAhead /\ Cleared /\ Progress /\ CacheFresh
          /\ InfoIsReal /\ OffersOutdated

\* What is known of the files of one add-on.
LEMMA PlaceOf == ASSUME GaTypeOK, NEW t \in Titles
                 PROVE  /\ <<t>> \in Paths
                        /\ place[<<t>>] \in Place
                        /\ place[<<t>>].main \in Nat /\ place[<<t>>].rest \in Nat
                        /\ place[<<t>>].info \in Nat
                        /\ srv[t].ver \in Nat /\ dlg.list[t] \in Nat
<1>1. <<t>> \in Paths /\ place[<<t>>] \in Place
  BY PathsOf DEF GaTypeOK
<1>2. srv[t].ver \in Nat /\ dlg.list[t] \in Nat
  BY DEF GaTypeOK, Servers, Dialogs, Vers
<1> QED
  BY <1>1, <1>2 DEF Place, Vers

LEMMA EmptyListOld == ASSUME GaTypeOK, NEW t \in Titles PROVE 0 <= srv[t].ver
<1>1. srv[t].ver \in Nat
  BY PlaceOf
<1> QED
  BY <1>1

LEMMA ReturnedFields ==
    ASSUME NEW d \in Dialogs, NEW ok \in BOOLEAN
    PROVE  LET r == Returned(d, ok)
           IN  /\ r.todo = d.todo \ {d.item} /\ r.chosen = d.chosen
               /\ r.list = d.list /\ r.mode = d.mode
               /\ r.at \in {"done", "get"} /\ (r.at = "done" => r.todo = {})
               /\ r.failed = (d.failed \/ ~ ok) /\ r.refresh = (d.refresh \/ ok)
BY DEF Returned, Dialogs

LEMMA EndingFields ==
    ASSUME NEW b \in BOOLEAN
    PROVE  /\ Ending(b).at = "end" /\ Ending(b).refresh = b
           /\ \A t \in Titles : Ending(b).list[t] = 0
<1>1. AtRest.list = [t \in Titles |-> 0]
  BY DEF AtRest
<1> QED
  BY <1>1, AtRestType DEF Ending, Dialogs

LEMMA InitGaIInv == GaInit => GaIInv
<1> SUFFICES ASSUME GaInit PROVE GaIInv
  OBVIOUS
<1>1. Types
  BY InitTypes
<1>2. /\ dlg = AtRest /\ dlg.at = "rest" /\ ~ dlg.refresh
      /\ \A t \in Titles : dlg.list[t] = 0
  BY DEF GaInit, AtRest
<1>3. \A t \in Titles : /\ place[<<t>>].main = 0 /\ place[<<t>>].info = 0
                        /\ place[<<t>>].rest = 0
  BY PathsOf, EmptyType DEF GaInit
<1>4. \A t \in Titles : srv[t].ver \in Nat
  BY <1>1, PlaceOf DEF Types
<1>5. ListsOld /\ InfosOld
  BY <1>2, <1>3, <1>4 DEF ListsOld, InfosOld
<1> QED
  BY <1>1, <1>2, <1>3, <1>5 DEF GaIInv, NotAhead, Cleared, Progress, CacheFresh,
     InfoIsReal, OffersOutdated

\* The server's steps: versions grow.
LEMMA ServerKeeps == ASSUME GaIInv, NEW t \in Titles,
                            (\E l \in Layouts : Publish(t, l)) \/ Unpublish(t)
                     PROVE  GaIInv'
<1>1. UNCHANGED <<place, cache, dlg, damaged, faults>>
  BY DEF Publish, Unpublish
<1>2. Types'
  BY ServerTypes DEF GaIInv
<1>3. \A u \in Titles : srv[u].ver <= srv'[u].ver
  <2>1. srv \in Servers /\ \A u \in Titles : srv[u].ver \in Nat
    BY PlaceOf DEF GaIInv, Types, GaTypeOK
  <2>2. CASE \E l \in Layouts : Publish(t, l)
    <3>1. PICK l \in Layouts : srv' = [srv EXCEPT ![t] = [layout |-> l, ver |-> srv[t].ver + 1]]
      BY <2>2 DEF Publish
    <3> QED
      BY <2>1, <3>1 DEF Servers
  <2>3. CASE Unpublish(t)
    BY <2>1, <2>3 DEF Servers, Unpublish
  <2> QED
    BY <2>2, <2>3
<1>4. \A u \in Titles : srv'[u].ver \in Nat
  BY <1>2 DEF Types, GaTypeOK, Servers, Vers
<1>5. ListsOld' /\ InfosOld'
  <2> SUFFICES ASSUME NEW u \in Titles
               PROVE  dlg.list[u] <= srv'[u].ver /\ place[<<u>>].info <= srv'[u].ver
    BY <1>1 DEF ListsOld, InfosOld
  <2>1. dlg.list[u] <= srv[u].ver /\ place[<<u>>].info <= srv[u].ver
    BY DEF GaIInv, NotAhead, ListsOld, InfosOld
  <2>2. dlg.list[u] \in Nat /\ srv[u].ver \in Nat /\ place[<<u>>].info \in Nat
    BY PlaceOf DEF GaIInv, Types
  <2> QED
    BY <1>3, <1>4, <2>1, <2>2
<1>6. NotAhead'
  BY <1>1, <1>5 DEF GaIInv, NotAhead
<1> QED
  BY <1>1, <1>2, <1>6 DEF GaIInv, Cleared, Progress, Installs, CacheFresh, InfoIsReal,
     OffersOutdated, Installed

\* The dialogs' steps that leave the files alone.
LEMMA DialogKeeps ==
    ASSUME GaIInv,
           \/ \E m \in {"download", "update", "uninstall"} : Open(m)
           \/ FetchList \/ Leave \/ Read
           \/ \E ts \in SUBSET Titles : Choose(ts)
           \/ \E t \in Titles : Get(t) \/ GetFails(t)
    PROVE  GaIInv'
<1>1. UNCHANGED <<srv, place, cache, damaged, faults>>
  BY DEF Open, FetchList, Leave, Read, Choose, Get, GetFails
<1>2. Types'
  BY DialogTypes DEF GaIInv
<1>3. Types /\ dlg \in Dialogs /\ dlg.refresh \in BOOLEAN
  BY DEF GaIInv, Types, GaTypeOK, Dialogs
<1>4. \A t \in Titles : srv[t].ver \in Nat
  BY <1>3, PlaceOf DEF Types
<1>5. InfoIsReal' /\ InfosOld'
  BY <1>1 DEF GaIInv, InfoIsReal, Installed, NotAhead, InfosOld
<1>0. (\A t \in Titles : dlg'.list[t] = 0) => ListsOld'
  <2> SUFFICES ASSUME \A t \in Titles : dlg'.list[t] = 0, NEW t \in Titles
               PROVE  dlg'.list[t] <= srv[t].ver
    BY <1>1 DEF ListsOld
  <2>1. dlg'.list[t] = 0 /\ srv[t].ver \in Nat
    BY <1>4
  <2> QED
    BY <2>1
<1> SUFFICES NotAhead' /\ Cleared' /\ Progress' /\ CacheFresh' /\ OffersOutdated'
  BY <1>2, <1>5 DEF GaIInv
<1>6. ASSUME NEW m \in {"download", "update", "uninstall"}, Open(m)
      PROVE  NotAhead' /\ Cleared' /\ Progress' /\ CacheFresh' /\ OffersOutdated'
  <2>1. AtRest.refresh = FALSE /\ AtRest.list = [t \in Titles |-> 0]
    BY DEF AtRest
  <2>2. /\ dlg'.at = IF m = "uninstall" THEN "choose" ELSE "list"
        /\ dlg'.mode = m /\ ~ dlg'.refresh
        /\ \A t \in Titles : dlg'.list[t] = 0
    BY <1>6, <2>1, AtRestType DEF Open, Dialogs
  <2>3. ~ dlg.refresh
    BY <1>6 DEF Open, GaIInv, CacheFresh
  <2> QED
    BY <1>1, <1>5, <1>0, <2>2, <2>3 DEF GaIInv, NotAhead, Cleared, Progress, CacheFresh,
       OffersOutdated
<1>7. ASSUME FetchList
      PROVE  NotAhead' /\ Cleared' /\ Progress' /\ CacheFresh' /\ OffersOutdated'
  <2> DEFINE list == [t \in Titles |-> IF Served(t) THEN srv[t].ver ELSE 0]
  <2>1. /\ dlg.at = "list" /\ dlg'.at = "choose" /\ dlg'.mode = dlg.mode
        /\ dlg'.refresh = dlg.refresh /\ dlg'.list = list
        /\ dlg.mode = "update" => dlg'.todo = Outdated(list)
    BY <1>3, <1>7 DEF FetchList, Dialogs
  <2>2. ListsOld'
    <3> SUFFICES ASSUME NEW t \in Titles PROVE list[t] <= srv[t].ver
      BY <1>1, <2>1 DEF ListsOld
    <3> QED
      BY <1>4
  <2>3. OffersOutdated'
    <3> SUFFICES ASSUME dlg.mode = "update",
                        NEW t \in (Titles \cap Installed) \ (Own \cup damaged),
                        place[<<t>>].info # 0, list[t] > place[<<t>>].info
                 PROVE  t \in Outdated(list)
      BY <1>1, <2>1 DEF OffersOutdated, Installed
    <3>1. cache[t] = place[<<t>>].info
      BY <2>1 DEF GaIInv, CacheFresh, Installed
    <3> QED
      BY <3>1 DEF Outdated
  <2> QED
    BY <1>1, <1>5, <2>1, <2>2, <2>3 DEF GaIInv, NotAhead, Cleared, Progress, CacheFresh
<1>8. ASSUME Leave \/ Read
      PROVE  NotAhead' /\ Cleared' /\ Progress' /\ CacheFresh' /\ OffersOutdated'
  <2>1. AtRest.list = [t \in Titles |-> 0]
    BY DEF AtRest
  <2>2. \/ dlg' = Ending(dlg.refresh)
        \/ dlg' = [AtRest EXCEPT !.at = "list", !.mode = "download", !.refresh = dlg.refresh]
    BY <1>8 DEF Leave, Read
  <2>3. /\ dlg'.at \in {"end", "list"} /\ dlg'.refresh = dlg.refresh
        /\ dlg'.at = "list" => dlg'.mode = "download"
        /\ \A t \in Titles : dlg'.list[t] = 0
    <3>1. CASE dlg' = Ending(dlg.refresh)
      BY <1>3, <3>1, EndingFields
    <3>2. CASE dlg' = [AtRest EXCEPT !.at = "list", !.mode = "download",
                                     !.refresh = dlg.refresh]
      BY <2>1, <3>2, AtRestType DEF Dialogs
    <3> QED
      BY <2>2, <3>1, <3>2
  <2> QED
    BY <1>1, <1>5, <1>0, <2>3 DEF GaIInv, NotAhead, Cleared, Progress, CacheFresh, OffersOutdated
<1>9. ASSUME NEW ts \in SUBSET Titles, Choose(ts)
      PROVE  NotAhead' /\ Cleared' /\ Progress' /\ CacheFresh' /\ OffersOutdated'
  <2>1. /\ dlg'.at = "get" /\ dlg'.todo = dlg'.chosen
        /\ dlg'.refresh = dlg.refresh /\ dlg'.list = dlg.list
    BY <1>3, <1>9 DEF Choose, Dialogs
  <2> QED
    BY <1>1, <1>5, <2>1 DEF GaIInv, NotAhead, ListsOld, Cleared, Progress, CacheFresh,
       OffersOutdated
<1>10. ASSUME NEW t \in Titles, Get(t)
       PROVE  NotAhead' /\ Cleared' /\ Progress' /\ CacheFresh' /\ OffersOutdated'
  <2>1. /\ dlg.at = "get" /\ dlg'.at = "remove" /\ dlg'.item = t /\ dlg'.got = srv[t]
        /\ dlg'.todo = dlg.todo /\ dlg'.chosen = dlg.chosen /\ dlg'.failed = dlg.failed
        /\ dlg'.refresh = dlg.refresh /\ dlg'.list = dlg.list
    BY <1>3, <1>10 DEF Get, Dialogs
  <2> QED
    BY <1>1, <1>5, <2>1 DEF GaIInv, NotAhead, ListsOld, InfosOld, Cleared, Progress,
       Installs, CacheFresh, OffersOutdated
<1>11. ASSUME NEW t \in Titles, GetFails(t)
       PROVE  NotAhead' /\ Cleared' /\ Progress' /\ CacheFresh' /\ OffersOutdated'
  <2> DEFINE d == [dlg EXCEPT !.item = t]
  <2>1. d \in Dialogs /\ d.list = dlg.list /\ d.refresh = dlg.refresh
    BY <1>3 DEF Dialogs
  <2> HIDE DEF d
  <2>2. dlg' = Returned(d, FALSE)
    BY <1>11 DEF GetFails, d
  <2>3. /\ dlg'.at \in {"done", "get"} /\ (dlg'.at = "done" => dlg'.todo = {})
        /\ dlg'.failed /\ dlg'.refresh = dlg.refresh /\ dlg'.list = dlg.list
    BY <1>3, <2>1, <2>2, ReturnedFields
  <2> QED
    BY <1>1, <1>5, <2>3 DEF GaIInv, NotAhead, ListsOld, Cleared, Progress, CacheFresh,
       OffersOutdated
<1> QED
  BY <1>6, <1>7, <1>8, <1>9, <1>10, <1>11

\* What removing a directory, or a part of it, does to each add-on.
LEMMA RemovedFiles ==
    ASSUME GaTypeOK, NEW d \in Dirs, Removed(d) \/ RemovedInPart(d)
    PROVE  \A t \in Titles :
             /\ t # d => place'[<<t>>] = place[<<t>>] /\ (t \in damaged' <=> t \in damaged)
             /\ place'[<<t>>].info \in {0, place[<<t>>].info}
             /\ t \notin damaged' => t \notin damaged \/ place'[<<t>>] = Empty
             /\ t \notin damaged' => place'[<<t>>] \in {Empty, place[<<t>>]}
             /\ t = d /\ t \notin damaged' => place'[<<t>>] = Empty
<1> SUFFICES ASSUME NEW t \in Titles
             PROVE  /\ t # d => /\ place'[<<t>>] = place[<<t>>]
                                /\ t \in damaged' <=> t \in damaged
                    /\ place'[<<t>>].info \in {0, place[<<t>>].info}
                    /\ t = d /\ t \notin damaged' => place'[<<t>>] = Empty
  OBVIOUS
<1>1. <<t>> \in Paths /\ (<<t>> \in In(d) <=> t = d)
  BY PathsOf DEF In
<1>2. CASE Removed(d)
  BY <1>1, <1>2, EmptyType DEF Removed
<1>3. CASE RemovedInPart(d)
  <2>1. PICK kept : place' = [p \in Paths |-> IF p \in In(d) THEN Mixed(kept, place[p], Empty)
                                                            ELSE place[p]]
    BY <1>3 DEF RemovedInPart
  <2>2. damaged' = damaged \cup {d}
    BY <1>3 DEF RemovedInPart
  <2>3. Mixed(kept, place[<<t>>], Empty).info \in {0, place[<<t>>].info}
    BY EmptyType DEF Mixed
  <2> QED
    BY <1>1, <2>1, <2>2, <2>3
<1> QED
  BY <1>2, <1>3

\* What unpacking does to each add-on, when it is laid out as expected.
LEMMA UnpackedFiles ==
    ASSUME LaidOut, GaTypeOK, NEW done, Unpacked(done), dlg.at = "unpack", dlg.item \in Titles
    PROVE  \A t \in Titles :
             LET old == place[<<t>>]
                 new == place'[<<t>>]
             IN  /\ t # dlg.item => new = old
                 /\ t = dlg.item =>
                       /\ new.main = IF "main" \in done THEN dlg.got.ver ELSE old.main
                       /\ new.rest = IF "rest" \in done THEN dlg.got.ver ELSE old.rest
                       /\ new.info \in {old.info, dlg.list[t]}
                       /\ "info" \notin done => new.info = old.info
<1> DEFINE i == dlg.item
           l == dlg.got.layout
           new == [main |-> dlg.got.ver, rest |-> dlg.got.ver, info |-> dlg.list[i]]
           files == [place EXCEPT ![<<i>>] = Mixed(done \ {"info"}, new, place[<<i>>])]
<1>1. l \in {"campaignd", "script"} /\ DirOf[i] = i
  BY DEF LaidOut, GaTypeOK, Dialogs, Published
<1>2. Target(i, l) = <<i>> /\ (l # "script" => InfoTarget(i, l) = <<i>>)
  BY <1>1 DEF Target, InfoTarget
<1>3. place' = IF "info" \in done /\ l # "script"
                  THEN [files EXCEPT ![<<i>>] = Mixed({"info"}, new, files[<<i>>])]
                  ELSE files
  <2> DEFINE g == [place EXCEPT ![Target(i, l)] =
                     Mixed(done \ {"info"}, new, place[Target(i, l)])]
  <2>1. place' = IF "info" \in done /\ l # "script"
                    THEN [g EXCEPT ![InfoTarget(i, l)] =
                            Mixed({"info"}, new, g[InfoTarget(i, l)])]
                    ELSE g
    BY DEF Unpacked
  <2>2. files = g
    BY <1>2
  <2> HIDE DEF files, g, new
  <2>3. CASE "info" \in done /\ l # "script"
    BY <1>2, <2>1, <2>2, <2>3
  <2>4. CASE ~ ("info" \in done /\ l # "script")
    BY <2>1, <2>2, <2>4
  <2> QED
    BY <2>3, <2>4
<1>4. <<i>> \in Paths /\ DOMAIN place = Paths
  BY PathsOf DEF GaTypeOK
<1>5. files[<<i>>] = Mixed(done \ {"info"}, new, place[<<i>>]) /\ DOMAIN files = Paths
  BY <1>4
<1>6. \A t \in Titles : t # i => <<t>> # <<i>>
  OBVIOUS
<1>7. \A t \in Titles : t # i => place'[<<t>>] = place[<<t>>]
  BY <1>3, <1>4, <1>6, PathsOf
<1>8. \/ place'[<<i>>] = files[<<i>>]
      \/ "info" \in done /\ place'[<<i>>] = Mixed({"info"}, new, files[<<i>>])
  BY <1>3, <1>4, <1>5
<1>9. LET f == files[<<i>>]
      IN  /\ f.main = IF "main" \in done THEN dlg.got.ver ELSE place[<<i>>].main
          /\ f.rest = IF "rest" \in done THEN dlg.got.ver ELSE place[<<i>>].rest
          /\ f.info = place[<<i>>].info
  BY <1>5 DEF Mixed
<1>10. LET f == files[<<i>>]
           m == Mixed({"info"}, new, f)
       IN  m.main = f.main /\ m.rest = f.rest /\ m.info = dlg.list[i]
  BY DEF Mixed
<1> HIDE DEF files
<1> QED
  BY <1>7, <1>8, <1>9, <1>10

\* Removing an add-on breaks nothing that is said of files.
LEMMA RemovedKeeps ==
    ASSUME GaIInv, NEW d \in Dirs, Removed(d) \/ RemovedInPart(d),
           srv' = srv, cache' = cache, dlg'.refresh \in BOOLEAN,
           ~ dlg'.refresh => ~ dlg.refresh
    PROVE  /\ InfosOld' /\ InfoIsReal'
           /\ ~ dlg'.refresh =>
                 \A t \in Titles \ damaged' :
                    LET here == place'[<<t>>]
                    IN  here.main # 0 => here.info = 0 \/ cache'[t] = here.info
<1>1. GaTypeOK
  BY DEF GaIInv, Types
<1>2. \A t \in Titles :
        /\ place'[<<t>>].info \in {0, place[<<t>>].info}
        /\ t \notin damaged' =>
              \/ place'[<<t>>] = Empty
              \/ t \notin damaged /\ place'[<<t>>] = place[<<t>>]
  BY <1>1, RemovedFiles
<1>3. InfosOld'
  <2> SUFFICES ASSUME NEW t \in Titles PROVE place'[<<t>>].info <= srv[t].ver
    BY DEF InfosOld
  <2>1. srv[t].ver \in Nat /\ place[<<t>>].info \in Nat
    BY <1>1, PlaceOf
  <2>2. place[<<t>>].info <= srv[t].ver
    BY DEF GaIInv, NotAhead, InfosOld
  <2> QED
    BY <1>2, <2>1, <2>2
<1>4. InfoIsReal'
  BY <1>2, EmptyType DEF GaIInv, InfoIsReal, Installed
<1> QED
  BY <1>2, <1>3, <1>4, EmptyType DEF GaIInv, CacheFresh

LEMMA RemoveOldKeeps == ASSUME GaIInv, RemoveOld PROVE GaIInv'
<1>1. Types' /\ Types
  BY FilesTypes DEF GaIInv
<1>2. /\ GaTypeOK /\ dlg \in Dialogs /\ dlg.at = "remove"
      /\ dlg.item \in dlg.todo /\ dlg.item \in Titles /\ dlg.item \in Dirs
  BY <1>1 DEF RemoveOld, Types, GaTypeOK, InHand, Dialogs
<1>3. /\ dlg'.at = "unpack" /\ dlg'.item = dlg.item /\ dlg'.got = dlg.got
      /\ dlg'.todo = dlg.todo /\ dlg'.chosen = dlg.chosen /\ dlg'.failed = dlg.failed
      /\ dlg'.refresh = dlg.refresh /\ dlg'.list = dlg.list
  BY <1>2 DEF RemoveOld, Dialogs
<1>4. srv' = srv /\ cache' = cache /\ (Removed(dlg.item) \/ RemovedInPart(dlg.item))
  BY DEF RemoveOld
<1>5. /\ InfosOld' /\ InfoIsReal'
      /\ CacheFresh'
  <2>1. dlg'.refresh \in BOOLEAN
    BY <1>2, <1>3 DEF Dialogs
  <2> QED
    BY <1>2, <1>3, <1>4, <2>1, RemovedKeeps DEF CacheFresh
<1>6. NotAhead'
  <2>1. place'[<<dlg.item>>].info \in {0, place[<<dlg.item>>].info}
    BY <1>2, <1>4, RemovedFiles
  <2>2. dlg.got.ver \in Nat
    BY <1>2 DEF GaTypeOK, Dialogs, Published
  <2>3. /\ dlg.list[dlg.item] <= dlg.got.ver /\ place[<<dlg.item>>].info <= dlg.got.ver
        /\ ListsOld
    BY <1>2 DEF GaIInv, NotAhead
  <2>4. place'[<<dlg.item>>].info <= dlg.got.ver
    BY <2>1, <2>2, <2>3
  <2>5. ListsOld'
    BY <1>3, <1>4, <2>3 DEF ListsOld
  <2> QED
    BY <1>3, <1>5, <2>3, <2>4, <2>5 DEF NotAhead
<1>7. Cleared'
  BY <1>2, <1>3, <1>4, RemovedFiles DEF Cleared
<1>8. Progress'
  <2>1. \A t \in Titles : t # dlg.item => place'[<<t>>] = place[<<t>>]
    BY <1>2, <1>4, RemovedFiles
  <2>2. dlg.chosen \subseteq Titles
    BY <1>2 DEF Dialogs
  <2> QED
    BY <1>2, <1>3, <2>1, <2>2 DEF GaIInv, Progress, Installs
<1> QED
  BY <1>1, <1>3, <1>5, <1>6, <1>7, <1>8 DEF GaIInv, OffersOutdated

LEMMA UninstallKeeps == ASSUME GaIInv, NEW d \in Dirs, Uninstall(d) PROVE GaIInv'
<1>1. Types' /\ Types /\ dlg.refresh \in BOOLEAN
  BY FilesTypes DEF GaIInv, Types, GaTypeOK, Dialogs
<1>2. Under[d] \in Dirs
  OBVIOUS
<1>3. /\ dlg'.at = "end" /\ dlg'.refresh \in BOOLEAN /\ (~ dlg'.refresh => ~ dlg.refresh)
      /\ \A t \in Titles : dlg'.list[t] = 0
  BY <1>1, EndingFields DEF Uninstall
<1>4. srv' = srv /\ cache' = cache /\ (Removed(Under[d]) \/ RemovedInPart(Under[d]))
  BY DEF Uninstall
<1>5. InfosOld' /\ InfoIsReal' /\ CacheFresh'
  BY <1>2, <1>3, <1>4, RemovedKeeps DEF CacheFresh
<1>6. ListsOld'
  <2> SUFFICES ASSUME NEW t \in Titles PROVE 0 <= srv[t].ver
    BY <1>3, <1>4 DEF ListsOld
  <2> QED
    BY <1>1, EmptyListOld DEF Types
<1> QED
  BY <1>1, <1>3, <1>5, <1>6 DEF GaIInv, NotAhead, Cleared, Progress, OffersOutdated

LEMMA UnpackKeeps == ASSUME LaidOut, GaIInv, Unpack PROVE GaIInv'
<1> DEFINE i == dlg.item
           ver == dlg.got.ver
<1>1. Types' /\ Types
  BY FilesTypes DEF GaIInv
<1>2. /\ GaTypeOK /\ dlg \in Dialogs /\ dlg.at = "unpack"
      /\ i \in dlg.todo /\ i \in Titles /\ dlg.chosen \subseteq Titles
  BY <1>1 DEF Unpack, Types, GaTypeOK, InHand, Dialogs
<1>3. ver \in Nat /\ ver # 0
  BY <1>2 DEF GaTypeOK, Dialogs, Published
<1>4. /\ dlg'.todo = dlg.todo \ {i} /\ dlg'.chosen = dlg.chosen /\ dlg'.list = dlg.list
      /\ dlg'.at \in {"done", "get"} /\ (dlg'.at = "done" => dlg'.todo = {})
      /\ dlg'.failed = dlg.failed /\ dlg'.refresh
  <2>1. dlg.failed \in BOOLEAN /\ dlg.refresh \in BOOLEAN
    BY <1>2 DEF Dialogs
  <2>2. dlg' = Returned(dlg, TRUE)
    BY DEF Unpack
  <2> QED
    BY <1>2, <2>1, <2>2, ReturnedFields
<1>5. srv' = srv /\ cache' = cache /\ damaged' = damaged \ {i}
  BY DEF Unpack
<1>6. \A t \in Titles : t # i => place'[<<t>>] = place[<<t>>]
  BY <1>2, UnpackedFiles DEF Unpack
<1>7. /\ place'[<<i>>].main = ver /\ place'[<<i>>].rest = ver
      /\ place'[<<i>>].info \in {place[<<i>>].info, dlg.list[i]}
  BY <1>2, UnpackedFiles DEF Unpack
<1>8. /\ dlg.list[i] <= ver /\ place[<<i>>].info <= ver
      /\ ListsOld /\ InfosOld
  BY <1>2 DEF GaIInv, NotAhead
<1>9. InfosOld'
  <2> SUFFICES ASSUME NEW t \in Titles PROVE place'[<<t>>].info <= srv[t].ver
    BY <1>5 DEF InfosOld
  <2> QED
    BY <1>6, <1>7, <1>8 DEF InfosOld, ListsOld
<1>10. NotAhead'
  BY <1>4, <1>5, <1>8, <1>9 DEF NotAhead, ListsOld
<1>11. InfoIsReal'
  <2> SUFFICES ASSUME NEW t \in Titles \ damaged', t \in Installed'
               PROVE  /\ place'[<<t>>].info <= place'[<<t>>].main
                      /\ place'[<<t>>].info <= place'[<<t>>].rest
    BY DEF InfoIsReal
  <2>1. CASE t = i
    BY <1>7, <1>8, <2>1
  <2>2. CASE t # i
    BY <1>5, <1>6, <2>2 DEF GaIInv, InfoIsReal, Installed
  <2> QED
    BY <2>1, <2>2
<1>12. Progress'
  <2> SUFFICES ASSUME ~ dlg.failed, NEW t \in dlg.chosen \ (dlg.todo \ {i})
               PROVE  Installs(t)'
    BY <1>4 DEF Progress
  <2>1. CASE t = i
    BY <1>3, <1>4, <1>7, <1>8, <2>1 DEF Installs
  <2>2. CASE t # i
    <3>1. Installs(t)
      BY <1>2, <2>2 DEF GaIInv, Progress
    <3> QED
      BY <1>2, <1>4, <1>6, <2>2, <3>1 DEF Installs
  <2> QED
    BY <2>1, <2>2
<1> QED
  BY <1>1, <1>4, <1>10, <1>11, <1>12 DEF GaIInv, Cleared, CacheFresh, OffersOutdated

\* The installation ends half way: what is there has no _info.cfg, if it could be
\* removed before.
LEMMA UnpackFailsKeeps == ASSUME LaidOut, GaIInv, UnpackFails PROVE GaIInv'
<1> DEFINE i == dlg.item
<1>1. Types' /\ Types
  BY FilesTypes DEF GaIInv
<1>2. /\ GaTypeOK /\ dlg.at = "unpack" /\ i \in Titles /\ dlg.refresh \in BOOLEAN
  BY <1>1 DEF UnpackFails, Types, GaTypeOK, InHand, Dialogs
<1>3. /\ dlg'.at = "end" /\ dlg'.refresh = dlg.refresh
      /\ \A t \in Titles : dlg'.list[t] = 0
  BY <1>2, EndingFields DEF UnpackFails
<1>4. UNCHANGED <<srv, cache, damaged>>
  BY DEF UnpackFails
<1>5. PICK done \in SUBSET {"main", "rest"} : Unpacked(done)
  BY DEF UnpackFails
<1>6. \A t \in Titles : t # i => place'[<<t>>] = place[<<t>>]
  BY <1>2, <1>5, UnpackedFiles
<1>7. place'[<<i>>].info = place[<<i>>].info
  BY <1>2, <1>5, UnpackedFiles
<1>8. i \notin damaged => place'[<<i>>].info = 0
  BY <1>2, <1>7, EmptyType DEF GaIInv, Cleared
<1>9. InfosOld'
  BY <1>4, <1>6, <1>7 DEF GaIInv, NotAhead, InfosOld
<1>10. ListsOld'
  <2> SUFFICES ASSUME NEW t \in Titles PROVE 0 <= srv[t].ver
    BY <1>3, <1>4 DEF ListsOld
  <2> QED
    BY <1>2, EmptyListOld
<1>11. InfoIsReal'
  <2> SUFFICES ASSUME NEW t \in Titles \ damaged, t \in Installed'
               PROVE  /\ place'[<<t>>].info <= place'[<<t>>].main
                      /\ place'[<<t>>].info <= place'[<<t>>].rest
    BY <1>4 DEF InfoIsReal
  <2>1. CASE t = i
    <3>1. place'[<<i>>].main \in Nat /\ place'[<<i>>].rest \in Nat
      <4>1. place'[<<i>>] \in Place
        BY <1>1, <1>2, PathsOf DEF Types, GaTypeOK
      <4> QED
        BY <4>1 DEF Place, Vers
    <3>2. place'[<<i>>].info = 0
      BY <1>8, <2>1
    <3> QED
      BY <2>1, <3>1, <3>2
  <2>2. CASE t # i
    BY <1>6, <2>2 DEF GaIInv, InfoIsReal, Installed
  <2> QED
    BY <2>1, <2>2
<1>12. CacheFresh'
  BY <1>3, <1>4, <1>6, <1>8 DEF GaIInv, CacheFresh
<1> QED
  BY <1>1, <1>3, <1>9, <1>10, <1>11, <1>12 DEF GaIInv, NotAhead, Cleared, Progress,
     OffersOutdated

LEMMA CacheKeeps == ASSUME GaIInv, Finish \/ Restart PROVE GaIInv'
<1>1. Types' /\ Types
  BY CacheTypes DEF GaIInv
<1>2. UNCHANGED <<srv, place, damaged>> /\ dlg' = AtRest
  BY DEF Finish, Restart
<1>3. dlg'.at = "rest" /\ ~ dlg'.refresh /\ \A t \in Titles : dlg'.list[t] = 0
  BY <1>2 DEF AtRest
<1>4. cache' = Probed \/ (~ dlg.refresh /\ cache' = cache)
  BY <1>1 DEF Finish, Restart, Types, GaTypeOK, Dialogs
<1>5. CacheFresh'
  <2> SUFFICES ASSUME NEW t \in Titles \ damaged, place[<<t>>].main # 0
               PROVE  place[<<t>>].info = 0 \/ cache'[t] = place[<<t>>].info
    BY <1>2, <1>3 DEF CacheFresh
  <2>1. CASE cache' = Probed
    BY <2>1 DEF Probed, Installed
  <2>2. CASE ~ dlg.refresh /\ cache' = cache
    BY <2>2 DEF GaIInv, CacheFresh
  <2> QED
    BY <1>4, <2>1, <2>2
<1>6. ListsOld'
  <2> SUFFICES ASSUME NEW t \in Titles PROVE 0 <= srv[t].ver
    BY <1>2, <1>3 DEF ListsOld
  <2> QED
    BY <1>1, EmptyListOld DEF Types
<1> QED
  BY <1>1, <1>2, <1>3, <1>5, <1>6 DEF GaIInv, NotAhead, InfosOld, Cleared, Progress,
     InfoIsReal, Installed, OffersOutdated

LEMMA NextGaIInv == LaidOut /\ GaIInv /\ [GaNext]_gaVars => GaIInv'
<1> SUFFICES ASSUME LaidOut, GaIInv, [GaNext]_gaVars PROVE GaIInv'
  OBVIOUS
<1>1. CASE UNCHANGED gaVars
  <2>1. Types'
    BY <1>1, NextTypes DEF GaIInv
  <2> QED
    BY <1>1, <2>1 DEF gaVars, GaIInv, NotAhead, ListsOld, InfosOld, Cleared, Progress,
       Installs, CacheFresh, InfoIsReal, Installed, OffersOutdated
<1>2. CASE GaNext
  BY <1>2, ServerKeeps, DialogKeeps, RemoveOldKeeps, UnpackKeeps, UnpackFailsKeeps,
     UninstallKeeps, CacheKeeps DEF GaNext
<1> QED
  BY <1>1, <1>2

LEMMA AlwaysGaIInv == ASSUME LaidOut PROVE GaSpec => []GaIInv
<1>1. GaInit => GaIInv
  BY InitGaIInv
<1>2. GaIInv /\ [GaNext]_gaVars => GaIInv'
  BY NextGaIInv
<1> QED
  BY <1>1, <1>2, PTL DEF GaSpec

\* No _info.cfg is ahead of the files beside it, however installations end and
\* the server changes (addon_management.cpp:675, 709).
THEOREM InfoIsRealAlways == ASSUME LaidOut PROVE GaSpec => []InfoIsReal
<1>1. GaIInv => InfoIsReal
  BY DEF GaIInv
<1> QED
  BY <1>1, AlwaysGaIInv, PTL

\* An update offers every installed add-on that the server has in a later version,
\* whatever failed before (addon_management.cpp:787).
THEOREM OffersOutdatedAlways == ASSUME LaidOut PROVE GaSpec => []OffersOutdated
<1>1. GaIInv => OffersOutdated
  BY DEF GaIInv
<1> QED
  BY <1>1, AlwaysGaIInv, PTL

\* What the user is told was installed is installed, in the listed version or a
\* later one (addon_management.cpp:721, 936).
THEOREM SuccessInstallsAlways == ASSUME LaidOut PROVE GaSpec => []SuccessInstalls
<1>1. GaIInv => SuccessInstalls
  <2> SUFFICES ASSUME GaIInv, dlg.at = "done", ~ dlg.failed, NEW t \in dlg.chosen
               PROVE  /\ t \in Installed
                      /\ place[<<t>>].main >= dlg.list[t]
                      /\ place[<<t>>].rest >= dlg.list[t]
    BY DEF SuccessInstalls
  <2>1. t \in Titles /\ t \in Dirs
    BY DEF GaIInv, Types, GaTypeOK, Dialogs
  <2>2. Installs(t)
    BY DEF GaIInv, Progress
  <2> QED
    BY <2>1, <2>2 DEF Installs, Installed
<1> QED
  BY <1>1, AlwaysGaIInv, PTL

=============================================================================

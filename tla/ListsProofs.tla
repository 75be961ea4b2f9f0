---------------------------- MODULE ListsProofs ----------------------------
(***************************************************************************)
(* What lists hold after entries were erased or added, or one list was put *)
(* behind another.                                                         *)
(***************************************************************************)
EXTENDS Lists, Functions, SequencesExt, SequenceTheorems, WellFoundedInduction,
        TLAPS

\* No entry is twice in q.
Distinct(q) == \A i, j \in DOMAIN q : q[i] = q[j] => i = j

LEMMA LeastOf ==
    ASSUME NEW T, T \subseteq Nat, T # {}
    PROVE  \E i \in T : \A k \in T : i <= k
<1>1. PICK i \in T : \A k \in T : <<k, i>> \notin OpToRel(<, Nat)
  BY NatLessThanWellFounded, WFMin, Zenon
<1>2. \A x, y \in Nat : x < y => <<x, y>> \in OpToRel(<, Nat)
  BY DEF OpToRel
<1>3. ASSUME NEW k \in T PROVE ~ k < i
  BY <1>1, <1>2, Zenon
<1> QED
  BY <1>3

-----------------------------------------------------------------------------
(* Adding *)

LEMMA RangeType == ASSUME NEW C, NEW q \in Seq(C)
                   PROVE  Range(q) \subseteq C
BY DEF Range

LEMMA AppendKept ==
    ASSUME NEW C, NEW q \in Seq(C), NEW c \in C
    PROVE  /\ Append(q, c) \in Seq(C)
           /\ Range(Append(q, c)) = Range(q) \cup {c}
           /\ Distinct(q) /\ c \notin Range(q) => Distinct(Append(q, c))
<1>1. /\ Append(q, c) \in Seq(C) /\ Len(Append(q, c)) = Len(q) + 1
      /\ \A i \in 1..Len(q) : Append(q, c)[i] = q[i]
      /\ Append(q, c)[Len(q) + 1] = c
  OBVIOUS
<1>2. DOMAIN Append(q, c) = 1..(Len(q) + 1) /\ DOMAIN q = 1..Len(q)
  BY <1>1
<1>3. DOMAIN Append(q, c) = DOMAIN q \cup {Len(q) + 1}
  BY <1>2
<1>4. \A i \in DOMAIN q : Append(q, c)[i] = q[i]
  BY <1>1, <1>2
<1>5. Range(Append(q, c)) = Range(q) \cup {c}
  BY <1>1, <1>3, <1>4 DEF Range
<1>6. ASSUME Distinct(q), c \notin Range(q) PROVE Distinct(Append(q, c))
  BY <1>1, <1>3, <1>4, <1>6 DEF Distinct, Range
<1> QED
  BY <1>1, <1>5, <1>6

LEMMA BothKept ==
    ASSUME NEW C, NEW p \in Seq(C), NEW q \in Seq(C)
    PROVE  /\ p \o q \in Seq(C)
           /\ Range(p \o q) = Range(p) \cup Range(q)
           /\ Distinct(p \o q) <=>
                 Distinct(p) /\ Distinct(q) /\ Range(p) \cap Range(q) = {}
<1>1. /\ p \o q \in Seq(C) /\ Len(p \o q) = Len(p) + Len(q)
      /\ DOMAIN p = 1..Len(p) /\ DOMAIN q = 1..Len(q)
      /\ DOMAIN (p \o q) = 1..(Len(p) + Len(q))
  OBVIOUS
<1>2. /\ \A i \in DOMAIN p : i \in DOMAIN (p \o q) /\ (p \o q)[i] = p[i]
      /\ \A i \in DOMAIN q : Len(p) + i \in DOMAIN (p \o q) /\ (p \o q)[Len(p) + i] = q[i]
  BY <1>1
<1>3. \A i \in DOMAIN (p \o q) : i \in DOMAIN p \/ i - Len(p) \in DOMAIN q
  BY <1>1
<1>4. \A i \in DOMAIN (p \o q) \ DOMAIN p : (p \o q)[i] = q[i - Len(p)]
  BY <1>1
<1>5. Range(p \o q) = Range(p) \cup Range(q)
  <2>1. ASSUME NEW i \in DOMAIN (p \o q) PROVE (p \o q)[i] \in Range(p) \cup Range(q)
    <3>1. CASE i \in DOMAIN p
      BY <1>2, <3>1 DEF Range
    <3>2. CASE i \notin DOMAIN p
      BY <1>3, <1>4, <3>2 DEF Range
    <3> QED
      BY <3>1, <3>2
  <2>2. ASSUME NEW i \in DOMAIN p PROVE p[i] \in Range(p \o q)
    BY <1>2 DEF Range
  <2>3. ASSUME NEW i \in DOMAIN q PROVE q[i] \in Range(p \o q)
    BY <1>2 DEF Range
  <2> QED
    BY <2>1, <2>2, <2>3 DEF Range
<1>6. ASSUME Distinct(p \o q)
      PROVE  Distinct(p) /\ Distinct(q) /\ Range(p) \cap Range(q) = {}
  <2>1. Distinct(p)
    BY <1>2, <1>6 DEF Distinct
  <2>2. Distinct(q)
    <3> SUFFICES ASSUME NEW i \in DOMAIN q, NEW j \in DOMAIN q, q[i] = q[j] PROVE i = j
      BY DEF Distinct
    <3>1. Len(p) + i = Len(p) + j
      BY <1>2, <1>6 DEF Distinct
    <3> QED
      BY <1>1, <3>1
  <2>3. ASSUME NEW i \in DOMAIN p, NEW j \in DOMAIN q, p[i] = q[j] PROVE FALSE
    <3>1. i = Len(p) + j
      BY <1>2, <1>6, <2>3 DEF Distinct
    <3> QED
      BY <1>1, <3>1
  <2> QED
    BY <2>1, <2>2, <2>3 DEF Range
<1>7. ASSUME Distinct(p), Distinct(q), Range(p) \cap Range(q) = {}
      PROVE  Distinct(p \o q)
  <2> SUFFICES ASSUME NEW i \in DOMAIN (p \o q), NEW j \in DOMAIN (p \o q),
                      (p \o q)[i] = (p \o q)[j]
               PROVE  i = j
    BY DEF Distinct
  <2>1. CASE i \in DOMAIN p /\ j \in DOMAIN p
    BY <1>2, <1>7, <2>1 DEF Distinct
  <2>2. CASE i \notin DOMAIN p /\ j \notin DOMAIN p
    <3>1. i - Len(p) = j - Len(p)
      BY <1>3, <1>4, <1>7, <2>2 DEF Distinct
    <3> QED
      BY <1>1, <3>1
  <2>3. ASSUME NEW k \in DOMAIN p, NEW l \in DOMAIN (p \o q) \ DOMAIN p
        PROVE  (p \o q)[k] # (p \o q)[l]
    <3>1. l - Len(p) \in DOMAIN q /\ (p \o q)[l] = q[l - Len(p)] /\ (p \o q)[k] = p[k]
      BY <1>2, <1>3, <1>4
    <3>2. p[k] \in Range(p) /\ q[l - Len(p)] \in Range(q)
      BY <3>1 DEF Range
    <3> QED
      BY <1>7, <3>1, <3>2
  <2> QED
    BY <2>1, <2>2, <2>3
<1> QED
  BY <1>1, <1>5, <1>6, <1>7

\* What Those makes of the first i entries, from what it made of those before.
StepOf(q, S, f, i) == IF i = 0 THEN <<>>
                    ELSE IF q[i] \in S THEN Append(f[i - 1], q[i]) ELSE f[i - 1]

StepsOf(q, S, C, n) == {f \in [0..n -> Seq(C)] : \A i \in 0..n : f[i] = StepOf(q, S, f, i)}

LEMMA KeepsFirst == ASSUME NEW C, NEW q \in Seq(C), NEW S PROVE StepsOf(q, S, C, 0) # {}
<1> DEFINE f == [i \in 0..0 |-> <<>>]
<1>1. <<>> \in Seq(C)
  OBVIOUS
<1>2. f \in [0..0 -> Seq(C)] /\ \A i \in 0..0 : i = 0 /\ f[i] = <<>>
  BY <1>1
<1> HIDE DEF f
<1>3. \A i \in 0..0 : f[i] = StepOf(q, S, f, i)
  BY <1>2 DEF StepOf
<1> QED
  BY <1>2, <1>3 DEF StepsOf

LEMMA KeepsNext == ASSUME NEW C, NEW q \in Seq(C), NEW S, NEW n \in 1..Len(q),
                          StepsOf(q, S, C, n - 1) # {}
                   PROVE  StepsOf(q, S, C, n) # {}
<1>1. PICK f \in [0..(n - 1) -> Seq(C)] : \A i \in 0..(n - 1) : f[i] = StepOf(q, S, f, i)
  BY DEF StepsOf
<1> DEFINE last == StepOf(q, S, f, n)
           g == [i \in 0..n |-> IF i = n THEN last ELSE f[i]]
<1>2. f[n - 1] \in Seq(C) /\ q[n] \in C
  BY <1>1
<1>3. last \in Seq(C)
  BY <1>2 DEF StepOf
<1>4. \A i \in 0..(n - 1) : f[i] \in Seq(C) /\ i # n
  BY <1>1
<1> HIDE DEF last
<1>5. g \in [0..n -> Seq(C)] /\ g[n] = last /\ \A i \in 0..(n - 1) : g[i] = f[i]
  BY <1>3, <1>4
<1> HIDE DEF g
<1>6. ASSUME NEW i \in 0..n PROVE g[i] = StepOf(q, S, g, i)
  <2>1. CASE i = 0
    BY <1>1, <1>5, <2>1 DEF StepOf
  <2>2. CASE i \in 1..(n - 1)
    <3>1. i - 1 \in 0..(n - 1) /\ i \in 0..(n - 1)
      BY <2>2
    <3>2. g[i] = f[i] /\ g[i - 1] = f[i - 1] /\ f[i] = StepOf(q, S, f, i)
      BY <1>1, <1>5, <3>1
    <3> QED
      BY <3>2 DEF StepOf
  <2>3. CASE i = n
    <3>1. g[n - 1] = f[n - 1]
      BY <1>5
    <3> QED
      BY <1>5, <2>3, <3>1 DEF StepOf, last
  <2> QED
    BY <2>1, <2>2, <2>3
<1> QED
  BY <1>5, <1>6 DEF StepsOf

\* There is the function that Those speaks of.
LEMMA ThoseIs ==
    ASSUME NEW C, NEW q \in Seq(C), NEW S
    PROVE  \E f \in StepsOf(q, S, C, Len(q)) : Those(q, S) = f[Len(q)]
<1> DEFINE Bad == {n \in 0..Len(q) : StepsOf(q, S, C, n) = {}}
           upTo == CHOOSE f : f = [i \in 0..Len(q) |-> StepOf(q, S, f, i)]
<1>1. Bad = {}
  <2> SUFFICES ASSUME Bad # {} PROVE FALSE
    OBVIOUS
  <2>1. Bad \subseteq Nat
    OBVIOUS
  <2>2. PICK n \in Bad : \A k \in Bad : n <= k
    <3> HIDE DEF Bad
    <3> QED
      BY <2>1, LeastOf, Zenon
  <2>3. n # 0
    BY <2>2, KeepsFirst
  <2>4. n \in 1..Len(q) /\ n - 1 \notin Bad
    BY <2>2, <2>3
  <2>5. StepsOf(q, S, C, n - 1) # {} /\ StepsOf(q, S, C, n) = {}
    BY <2>2, <2>4
  <2> QED
    BY <2>4, <2>5, KeepsNext
<1>2. PICK f : f \in StepsOf(q, S, C, Len(q))
  <2>1. Len(q) \in 0..Len(q)
    OBVIOUS
  <2> QED
    BY <1>1, <2>1
<1>3. f = [i \in 0..Len(q) |-> StepOf(q, S, f, i)]
  BY <1>2 DEF StepsOf
<1>4. upTo = [i \in 0..Len(q) |-> StepOf(q, S, upTo, i)]
  BY <1>3, Zenon
<1>5. Those(q, S) = upTo[Len(q)]
  BY DEF Those, StepOf
<1> HIDE DEF upTo
<1>6. upTo = [i \in 0..Len(q) |-> upTo[i]] /\ \A i \in 0..Len(q) : upTo[i] = StepOf(q, S, upTo, i)
  BY <1>4
<1> DEFINE Odd == {i \in 0..Len(q) : upTo[i] \notin Seq(C)}
<1>7. Odd = {}
  <2> SUFFICES ASSUME Odd # {} PROVE FALSE
    OBVIOUS
  <2>1. Odd \subseteq Nat
    OBVIOUS
  <2>2. PICK n \in Odd : \A k \in Odd : n <= k
    <3> HIDE DEF Odd
    <3> QED
      BY <2>1, LeastOf, Zenon
  <2>3. CASE n = 0
    <3>1. upTo[n] = <<>>
      BY <1>6, <2>3 DEF StepOf
    <3>2. <<>> \in Seq(C)
      OBVIOUS
    <3> QED
      BY <2>2, <3>1, <3>2
  <2>4. CASE n \in 1..Len(q)
    <3>1. n - 1 \in 0..Len(q) /\ n - 1 \notin Odd
      BY <2>2, <2>4
    <3>2. upTo[n - 1] \in Seq(C) /\ q[n] \in C
      BY <2>4, <3>1
    <3>3. upTo[n] = StepOf(q, S, upTo, n) /\ n # 0
      BY <1>6, <2>4
    <3>4. upTo[n] \in Seq(C)
      BY <3>2, <3>3 DEF StepOf
    <3> QED
      BY <2>2, <3>4
  <2> QED
    BY <2>2, <2>3, <2>4
<1>8. upTo \in [0..Len(q) -> Seq(C)]
  BY <1>6, <1>7
<1>9. upTo \in StepsOf(q, S, C, Len(q))
  BY <1>6, <1>8 DEF StepsOf
<1> QED
  BY <1>5, <1>9

\* Of distinct entries those in S are kept, each once.
LEMMA ThoseKept ==
    ASSUME NEW C, NEW q \in Seq(C), NEW S, Distinct(q)
    PROVE  /\ Those(q, S) \in Seq(C)
           /\ Range(Those(q, S)) = Range(q) \cap S
           /\ Distinct(Those(q, S))
<1>1. PICK f \in StepsOf(q, S, C, Len(q)) : Those(q, S) = f[Len(q)]
  BY ThoseIs
<1>2. /\ f \in [0..Len(q) -> Seq(C)]
      /\ \A i \in 0..Len(q) : f[i] = StepOf(q, S, f, i)
  BY <1>1 DEF StepsOf
<1> DEFINE Upto(n) == {q[i] : i \in 1..n} \cap S
           Good(n) == Range(f[n]) = Upto(n) /\ Distinct(f[n])
           Bad == {n \in 0..Len(q) : ~ Good(n)}
<1>3. Good(0)
  <2>1. f[0] = <<>>
    BY <1>2 DEF StepOf
  <2> QED
    BY <2>1 DEF Range, Distinct
<1>4. ASSUME NEW n \in 1..Len(q), Good(n - 1) PROVE Good(n)
  <2>1. n # 0 /\ n \in 0..Len(q) /\ n - 1 \in 0..Len(q)
    OBVIOUS
  <2>2. f[n - 1] \in Seq(C) /\ q[n] \in C /\ f[n] = StepOf(q, S, f, n)
    BY <1>2, <2>1
  <2>3. {q[i] : i \in 1..n} = {q[i] : i \in 1..(n - 1)} \cup {q[n]}
    <3>1. 1..n = (1..(n - 1)) \cup {n}
      BY <2>1
    <3> QED
      BY <3>1
  <2>4. CASE q[n] \notin S
    <3>1. f[n] = f[n - 1]
      BY <2>1, <2>2, <2>4 DEF StepOf
    <3>2. Upto(n) = Upto(n - 1)
      BY <2>3, <2>4
    <3> QED
      BY <1>4, <3>1, <3>2
  <2>5. CASE q[n] \in S
    <3>1. f[n] = Append(f[n - 1], q[n])
      BY <2>1, <2>2, <2>5 DEF StepOf
    <3>2. Upto(n) = Upto(n - 1) \cup {q[n]}
      BY <2>3, <2>5
    <3>3. q[n] \notin Upto(n - 1)
      <4>1. \A i \in 1..(n - 1) : i \in DOMAIN q /\ n \in DOMAIN q /\ i # n
        OBVIOUS
      <4> QED
        BY <4>1 DEF Distinct
    <3> HIDE DEF Upto
    <3> QED
      BY <1>4, <2>2, <3>1, <3>2, <3>3, AppendKept
  <2> QED
    BY <2>4, <2>5
<1> HIDE DEF Good
<1>5. Bad = {}
  <2> SUFFICES ASSUME Bad # {} PROVE FALSE
    OBVIOUS
  <2>1. Bad \subseteq Nat
    OBVIOUS
  <2>2. PICK n \in Bad : \A k \in Bad : n <= k
    <3> HIDE DEF Bad
    <3> QED
      BY <2>1, LeastOf, Zenon
  <2>3. n \in 1..Len(q) /\ n - 1 \notin Bad
    BY <1>3, <2>2
  <2> QED
    BY <1>4, <2>2, <2>3
<1>6. Good(Len(q))
  <2>1. Len(q) \in 0..Len(q)
    OBVIOUS
  <2> QED
    BY <1>5, <2>1
<1>7. Range(q) = {q[i] : i \in 1..Len(q)}
  BY DEF Range
<1> QED
  BY <1>1, <1>2, <1>6, <1>7 DEF Good

-----------------------------------------------------------------------------
(* Induction, with a set for what is shown of lists, and what it gives *)

LEMMA ListInduction ==
    ASSUME NEW C, NEW G, <<>> \in G,
           \A q \in Seq(C), x \in C : q \in G => Append(q, x) \in G
    PROVE  Seq(C) \subseteq G
<1> DEFINE Bad == {n \in Nat : \E q \in Seq(C) \ G : Len(q) = n}
<1>1. SUFFICES ASSUME NEW z \in Seq(C), z \notin G PROVE FALSE
  OBVIOUS
<1>2. Bad \subseteq Nat /\ Len(z) \in Bad
  BY <1>1
<1>3. PICK n \in Bad : \A k \in Bad : n <= k
  <2> HIDE DEF Bad
  <2> QED
    BY <1>2, LeastOf, Zenon
<1>4. PICK q \in Seq(C) \ G : Len(q) = n
  BY <1>3
<1>5. n # 0
  <2>1. n = 0 => q = <<>>
    BY <1>4
  <2> QED
    BY <1>4, <2>1
<1>6. n - 1 \in Nat /\ n - 1 \notin Bad
  BY <1>3, <1>5
<1> DEFINE front == SubSeq(q, 1, n - 1)
<1>7. front \in Seq(C) /\ Len(front) = n - 1 /\ q[n] \in C /\ q = Append(front, q[n])
  BY <1>4, <1>5, <1>6
<1>8. front \in G
  BY <1>6, <1>7
<1> QED
  BY <1>4, <1>7, <1>8

LEMMA ThoseEmpty == ASSUME NEW S PROVE Those(<<>>, S) = <<>>
<1> DEFINE C == {}
<1>1. <<>> \in Seq(C) /\ Len(<<>>) = 0
  OBVIOUS
<1>2. PICK f \in StepsOf(<<>>, S, C, 0) : Those(<<>>, S) = f[0]
  BY <1>1, ThoseIs
<1> QED
  BY <1>2 DEF StepsOf, StepOf

LEMMA ThoseAppend ==
    ASSUME NEW C, NEW q \in Seq(C), NEW x \in C, NEW S
    PROVE  Those(Append(q, x), S) = IF x \in S THEN Append(Those(q, S), x) ELSE Those(q, S)
<1> DEFINE p == Append(q, x)
           n == Len(q)
<1>1. /\ p \in Seq(C) /\ Len(p) = n + 1 /\ p[n + 1] = x /\ n \in Nat
      /\ \A i \in 1..n : p[i] = q[i]
  OBVIOUS
<1>2. PICK f \in StepsOf(q, S, C, n) : Those(q, S) = f[n]
  BY ThoseIs
<1> HIDE DEF p, n
<1>3. PICK g \in StepsOf(p, S, C, n + 1) : Those(p, S) = g[n + 1]
  BY <1>1, ThoseIs
<1>4. \A i \in 0..n : f[i] = StepOf(q, S, f, i)
  BY <1>2 DEF StepsOf
<1>5. \A i \in 0..(n + 1) : g[i] = StepOf(p, S, g, i)
  BY <1>3 DEF StepsOf
<1> DEFINE Bad == {i \in 0..n : f[i] # g[i]}
<1>6. Bad = {}
  <2> SUFFICES ASSUME Bad # {} PROVE FALSE
    OBVIOUS
  <2>1. Bad \subseteq Nat
    BY <1>1
  <2>2. PICK i \in Bad : \A k \in Bad : i <= k
    <3> HIDE DEF Bad
    <3> QED
      BY <2>1, LeastOf, Zenon
  <2>3. CASE i = 0
    <3>1. f[0] = <<>> /\ g[0] = <<>>
      BY <1>1, <1>4, <1>5 DEF StepOf
    <3> QED
      BY <2>2, <2>3, <3>1
  <2>4. CASE i \in 1..n
    <3>1. i - 1 \in 0..n /\ f[i - 1] = g[i - 1] /\ p[i] = q[i] /\ i # 0
      BY <1>1, <2>2, <2>4
    <3>2. f[i] = StepOf(q, S, f, i) /\ g[i] = StepOf(p, S, g, i)
      BY <1>1, <1>4, <1>5, <2>4
    <3>3. f[i] = g[i]
      BY <3>1, <3>2 DEF StepOf
    <3> QED
      BY <2>2, <3>3
  <2> QED
    BY <1>1, <2>2, <2>3, <2>4
<1>7. f[n] = g[n]
  BY <1>1, <1>6
<1>8. g[n + 1] = IF x \in S THEN Append(g[n], x) ELSE g[n]
  <2>1. g[n + 1] = StepOf(p, S, g, n + 1) /\ n + 1 # 0 /\ (n + 1) - 1 = n
    BY <1>1, <1>5
  <2> QED
    BY <1>1, <2>1 DEF StepOf
<1> QED
  BY <1>2, <1>3, <1>7, <1>8 DEF p

LEMMA ThoseType ==
    ASSUME NEW C, NEW q \in Seq(C), NEW S
    PROVE  /\ Those(q, S) \in Seq(C \cap S)
           /\ Range(Those(q, S)) = Range(q) \cap S
<1> DEFINE G == {p \in Seq(C) : /\ Those(p, S) \in Seq(C \cap S)
                                /\ Range(Those(p, S)) = Range(p) \cap S}
<1>1. <<>> \in G
  <2>1. <<>> \in Seq(C) /\ <<>> \in Seq(C \cap S) /\ Range(<<>>) = {}
    BY DEF Range
  <2> QED
    BY <2>1, ThoseEmpty
<1>2. ASSUME NEW p \in Seq(C), NEW x \in C, p \in G PROVE Append(p, x) \in G
  <2> DEFINE r == Those(p, S)
  <2>1. r \in Seq(C \cap S) /\ Range(r) = Range(p) \cap S
    BY <1>2
  <2>2. Append(p, x) \in Seq(C) /\ Range(Append(p, x)) = Range(p) \cup {x}
    BY AppendKept
  <2>3. Those(Append(p, x), S) = IF x \in S THEN Append(r, x) ELSE r
    BY ThoseAppend
  <2> HIDE DEF r
  <2>4. CASE x \in S
    <3>1. Append(r, x) \in Seq(C \cap S) /\ Range(Append(r, x)) = Range(r) \cup {x}
      BY <2>1, <2>4, AppendKept
    <3> QED
      BY <2>1, <2>2, <2>3, <2>4, <3>1
  <2>5. CASE x \notin S
    BY <2>1, <2>2, <2>3, <2>5
  <2> QED
    BY <2>4, <2>5
<1>3. Seq(C) \subseteq G
  <2> HIDE DEF G
  <2> QED
    BY <1>1, <1>2, ListInduction
<1> QED
  BY <1>3

LEMMA ThoseNone ==
    ASSUME NEW C, NEW q \in Seq(C), NEW S
    PROVE  Those(q, S) = <<>> <=> \A i \in DOMAIN q : q[i] \notin S
<1> DEFINE r == Those(q, S)
<1>1. r \in Seq(C \cap S) /\ Range(r) = Range(q) \cap S
  BY ThoseType
<1> HIDE DEF r
<1>2. r = <<>> <=> Range(r) = {}
  <2>1. DOMAIN r = 1..Len(r)
    BY <1>1
  <2>2. r # <<>> => 1 \in DOMAIN r
    BY <1>1, <2>1
  <2> QED
    BY <2>2 DEF Range
<1>3. Range(q) \cap S = {} <=> \A i \in DOMAIN q : q[i] \notin S
  BY DEF Range
<1> QED
  BY <1>1, <1>2, <1>3 DEF r

LEMMA ThoseBoth ==
    ASSUME NEW C, NEW p \in Seq(C), NEW q \in Seq(C), NEW S
    PROVE  Those(p \o q, S) = Those(p, S) \o Those(q, S)
<1> DEFINE G == {r \in Seq(C) : Those(p \o r, S) = Those(p, S) \o Those(r, S)}
<1>1. <<>> \in G
  <2>1. p \o <<>> = p /\ Those(p, S) \in Seq(C \cap S)
    BY ThoseType
  <2>2. Those(p, S) \o <<>> = Those(p, S)
    BY <2>1
  <2> QED
    BY <2>1, <2>2, ThoseEmpty
<1>2. ASSUME NEW r \in Seq(C), NEW x \in C, r \in G PROVE Append(r, x) \in G
  <2> DEFINE tp == Those(p, S)
             tr == Those(r, S)
  <2>1. tp \in Seq(C) /\ tr \in Seq(C)
    <3>1. Seq(C \cap S) \subseteq Seq(C)
      OBVIOUS
    <3> QED
      BY <3>1, ThoseType
  <2>2. p \o r \in Seq(C) /\ Append(r, x) \in Seq(C) /\ p \o Append(r, x) = Append(p \o r, x)
    OBVIOUS
  <2>5. Those(p \o r, S) = tp \o tr
    BY <1>2
  <2>6. Those(Append(r, x), S) = IF x \in S THEN Append(tr, x) ELSE tr
    BY ThoseAppend
  <2> HIDE DEF tp, tr
  <2>3. Those(Append(p \o r, x), S) = IF x \in S THEN Append(tp \o tr, x) ELSE tp \o tr
    BY <2>2, <2>5, ThoseAppend
  <2>4. tp \o Append(tr, x) = Append(tp \o tr, x)
    BY <2>1
  <2> QED
    BY <2>2, <2>3, <2>4, <2>6 DEF tp
<1>3. Seq(C) \subseteq G
  <2> HIDE DEF G
  <2> QED
    BY <1>1, <1>2, ListInduction
<1> QED
  BY <1>3

LEMMA AllThoseBoth ==
    ASSUME NEW C, NEW S
    PROVE  \A p, q \in Seq(C) : Those(p \o q, S) = Those(p, S) \o Those(q, S)
BY ThoseBoth

LEMMA ThoseThose ==
    ASSUME NEW C, NEW q \in Seq(C), NEW S, NEW T
    PROVE  Those(Those(q, T), S) = Those(q, S \cap T)
<1> DEFINE G == {r \in Seq(C) : Those(Those(r, T), S) = Those(r, S \cap T)}
<1>1. <<>> \in G
  BY ThoseEmpty
<1>2. ASSUME NEW r \in Seq(C), NEW x \in C, r \in G PROVE Append(r, x) \in G
  <2> DEFINE rt == Those(r, T)
             rst == Those(r, S \cap T)
  <2>1. rt \in Seq(C)
    <3>1. Seq(C \cap T) \subseteq Seq(C)
      OBVIOUS
    <3> QED
      BY <3>1, ThoseType
  <2>2. /\ Those(Append(r, x), T) = IF x \in T THEN Append(rt, x) ELSE rt
        /\ Those(Append(r, x), S \cap T) = IF x \in S \cap T THEN Append(rst, x) ELSE rst
        /\ Those(rt, S) = rst
    BY <1>2, ThoseAppend
  <2> HIDE DEF rt
  <2>3. Those(Append(rt, x), S) = IF x \in S THEN Append(rst, x) ELSE rst
    <3>1. Those(Append(rt, x), S) = IF x \in S THEN Append(Those(rt, S), x) ELSE Those(rt, S)
      <4> HIDE DEF rst
      <4> QED
        BY <2>1, ThoseAppend, Zenon
    <3> QED
      BY <2>2, <3>1
  <2>4. Those(Those(Append(r, x), T), S) = Those(Append(r, x), S \cap T)
    <3> HIDE DEF rst
    <3>1. CASE x \in T
      BY <2>2, <2>3, <3>1
    <3>2. CASE x \notin T
      BY <2>2, <3>2
    <3> QED
      BY <3>1, <3>2
  <2> QED
    BY <2>4
<1>3. Seq(C) \subseteq G
  <2> HIDE DEF G
  <2> QED
    BY <1>1, <1>2, ListInduction
<1> QED
  BY <1>3

-----------------------------------------------------------------------------
(* Taking one entry out *)

LEMMA SplitAt ==
    ASSUME NEW C, NEW q \in Seq(C), NEW i \in 1..Len(q)
    PROVE  \E p, r \in Seq(C) :
              /\ q = Append(p, q[i]) \o r /\ RemoveAt(q, i) = p \o r
              /\ Len(p) = i - 1 /\ \A k \in 1..(i - 1) : p[k] = q[k]
<1> DEFINE p == SubSeq(q, 1, i - 1)
           r == SubSeq(q, i + 1, Len(q))
<1>1. /\ p \in Seq(C) /\ Len(p) = i - 1 /\ \A k \in 1..(i - 1) : p[k] = q[k]
      /\ r \in Seq(C) /\ Len(r) = Len(q) - i /\ \A k \in 1..(Len(q) - i) : r[k] = q[i + k]
      /\ q[i] \in C
  OBVIOUS
<1>2. RemoveAt(q, i) = p \o r
  BY DEF RemoveAt
<1> HIDE DEF p, r
<1> DEFINE a == Append(p, q[i])
<1>3. /\ a \in Seq(C) /\ Len(a) = i /\ a[i] = q[i] /\ \A k \in 1..(i - 1) : a[k] = q[k]
  BY <1>1
<1> HIDE DEF a
<1>4. /\ a \o r \in Seq(C) /\ Len(a \o r) = Len(q)
      /\ \A k \in 1..Len(a) : (a \o r)[k] = a[k]
      /\ \A k \in 1..Len(r) : (a \o r)[Len(a) + k] = r[k]
  <2>0. a \in Seq(C) /\ r \in Seq(C)
    BY <1>1, <1>3
  <2>1. Len(a \o r) = Len(a) + Len(r) /\ a \o r \in Seq(C)
    BY <2>0
  <2>2. /\ \A k \in 1..Len(a) : (a \o r)[k] = a[k]
        /\ \A k \in 1..Len(r) : (a \o r)[Len(a) + k] = r[k]
    BY <2>0
  <2> QED
    BY <1>1, <1>3, <2>1, <2>2
<1>6. ASSUME NEW k \in 1..Len(q) PROVE (a \o r)[k] = q[k]
  <2>1. CASE k \in 1..i
    BY <1>3, <1>4, <2>1
  <2>2. CASE k - i \in 1..(Len(q) - i)
    <3>1. (a \o r)[i + (k - i)] = r[k - i] /\ r[k - i] = q[i + (k - i)]
      BY <1>1, <1>3, <1>4, <2>2
    <3>2. i + (k - i) = k
      OBVIOUS
    <3> QED
      BY <3>1, <3>2
  <2>3. Len(q) \in Nat /\ (k \in 1..i \/ k - i \in 1..(Len(q) - i))
    OBVIOUS
  <2> QED
    BY <2>1, <2>2, <2>3
<1>5. q = a \o r
  BY <1>4, <1>6, SeqEqual
<1> QED
  BY <1>1, <1>2, <1>5 DEF a

LEMMA RemovedAt ==
    ASSUME NEW C, NEW q \in Seq(C), NEW i \in 1..Len(q), NEW S
    PROVE  /\ RemoveAt(q, i) \in Seq(C) /\ Range(RemoveAt(q, i)) \subseteq Range(q)
           /\ q[i] \notin S => Those(RemoveAt(q, i), S) = Those(q, S)
           /\ q[i] \in S =>
                 /\ Len(Those(RemoveAt(q, i), S)) = Len(Those(q, S)) - 1
                 /\ (\A k \in 1..(i - 1) : q[k] \notin S) =>
                       Those(q, S) = <<q[i]>> \o Those(RemoveAt(q, i), S)
<1>1. PICK p, r \in Seq(C) :
              /\ q = Append(p, q[i]) \o r /\ RemoveAt(q, i) = p \o r
              /\ Len(p) = i - 1 /\ \A k \in 1..(i - 1) : p[k] = q[k]
  BY SplitAt
<1> DEFINE x == q[i]
           a == Append(p, x)
           tp == Those(p, S)
           tr == Those(r, S)
<1>2. x \in C /\ a \in Seq(C) /\ Range(a) = Range(p) \cup {x}
  BY AppendKept
<1>3. tp \in Seq(C) /\ tr \in Seq(C)
  <2>1. Seq(C \cap S) \subseteq Seq(C)
    OBVIOUS
  <2> QED
    BY <2>1, ThoseType
<1>8. Those(a, S) = IF x \in S THEN Append(tp, x) ELSE tp
  <2> HIDE DEF x
  <2> QED
    BY <1>2, ThoseAppend
<1>4. Those(a \o r, S) = Those(a, S) \o tr /\ Those(p \o r, S) = tp \o tr
  <2> HIDE DEF a
  <2> HIDE DEF tp, tr, x
  <2>0. \A u, v \in Seq(C) : Those(u \o v, S) = Those(u, S) \o Those(v, S)
    BY AllThoseBoth, Zenon
  <2>1. Those(a \o r, S) = Those(a, S) \o Those(r, S)
    BY <1>2, <2>0, Zenon
  <2>2. Those(p \o r, S) = Those(p, S) \o Those(r, S)
    BY <2>0, Zenon
  <2> QED
    BY <2>1, <2>2 DEF tp, tr
<1>5. Range(RemoveAt(q, i)) \subseteq Range(q) /\ RemoveAt(q, i) \in Seq(C)
  <2> HIDE DEF a
  <2>1. /\ Range(a \o r) = Range(a) \cup Range(r)
        /\ Range(p \o r) = Range(p) \cup Range(r) /\ p \o r \in Seq(C)
    BY <1>2, BothKept
  <2>2. q = a \o r
    BY <1>1 DEF a
  <2> QED
    BY <1>1, <1>2, <2>1, <2>2
<1>6. (\A k \in 1..(i - 1) : q[k] \notin S) => tp = <<>>
  <2>1. DOMAIN p = 1..(i - 1)
    BY <1>1
  <2> QED
    BY <1>1, <2>1, ThoseNone
<1> HIDE DEF tp, tr, x
<1>7. /\ Len(tp \o tr) = Len(Append(tp, x) \o tr) - 1
      /\ tp = <<>> => Append(tp, x) \o tr = <<x>> \o (tp \o tr)
  BY <1>2, <1>3
<1> QED
  BY <1>1, <1>4, <1>5, <1>6, <1>7, <1>8 DEF x

-----------------------------------------------------------------------------
(* Lists of lists *)

LEMMA FrontInduction ==
    ASSUME NEW C, NEW G, <<>> \in G,
           \A q \in Seq(C), x \in C : q \in G => <<x>> \o q \in G
    PROVE  Seq(C) \subseteq G
<1> DEFINE H == {q \in Seq(C) : \A r \in Seq(C) : r \in G => q \o r \in G}
<1>1. <<>> \in H
  <2>1. \A r \in Seq(C) : <<>> \o r = r
    BY ConcatEmptySeq
  <2> QED
    BY <2>1
<1>2. ASSUME NEW q \in Seq(C), NEW x \in C, q \in H PROVE Append(q, x) \in H
  <2>1. ASSUME NEW r \in Seq(C), r \in G PROVE Append(q, x) \o r \in G
    <3>1. <<x>> \in Seq(C) /\ <<x>> \o r \in Seq(C) /\ <<x>> \o r \in G
      BY <2>1
    <3>2. q \o (<<x>> \o r) \in G
      BY <1>2, <3>1
    <3>3. Append(q, x) = q \o <<x>>
      OBVIOUS
    <3>4. (q \o <<x>>) \o r = q \o (<<x>> \o r)
      BY <3>1, ConcatAssociative
    <3> QED
      BY <3>2, <3>3, <3>4
  <2>2. Append(q, x) \in Seq(C)
    OBVIOUS
  <2> QED
    BY <2>1, <2>2
<1>3. Seq(C) \subseteq H
  <2> HIDE DEF H
  <2> QED
    BY <1>1, <1>2, ListInduction
<1>4. ASSUME NEW q \in Seq(C) PROVE q \in G
  <2>1. \A r \in Seq(C) : r \in G => q \o r \in G
    BY <1>3
  <2>3. <<>> \in Seq(C)
    OBVIOUS
  <2>0. q \o <<>> \in G
    BY <2>1, <2>3, Zenon
  <2>2. q \o <<>> = q
    BY ConcatEmptySeq
  <2> QED
    BY <2>0, <2>2
<1> QED
  BY <1>4

\* One step of FlattenSeq.
FlatStep(w, f, i) == IF i = 1 THEN w[i] ELSE f[i - 1] \o w[i]

IsFlat(w, f) == f = [i \in 1..Len(w) |-> FlatStep(w, f, i)]

LEMMA FlatExists ==
    ASSUME NEW C, NEW w \in Seq(C)
    PROVE  \E f : IsFlat(w, f)
<1> DEFINE G == {q \in Seq(C) : \E f : IsFlat(q, f)}
<1>1. <<>> \in G
  <2>1. IsFlat(<<>>, [i \in 1..0 |-> FlatStep(<<>>, <<>>, i)])
    BY DEF IsFlat
  <2> QED
    BY <2>1
<1>2. ASSUME NEW q \in Seq(C), NEW x \in C, q \in G PROVE Append(q, x) \in G
  <2>1. PICK f : IsFlat(q, f)
    BY <1>2
  <2> DEFINE p == Append(q, x)
             n == Len(q)
             top == FlatStep(p, f, n + 1)
             g == [i \in 1..(n + 1) |-> IF i = n + 1 THEN top ELSE f[i]]
  <2>2. p \in Seq(C) /\ Len(p) = n + 1 /\ n \in Nat /\ \A i \in 1..n : p[i] = q[i]
    OBVIOUS
  <2>3. \A i \in 1..n : f[i] = FlatStep(q, f, i)
    BY <2>1 DEF IsFlat
  <2> HIDE DEF p, n, top
  <2>4. g[n + 1] = top /\ \A i \in 1..n : g[i] = f[i]
    BY <2>2
  <2>5. ASSUME NEW i \in 1..(n + 1) PROVE g[i] = FlatStep(p, g, i)
    <3>1. CASE i = n + 1
      <4>1. i # 1 => i - 1 \in 1..n /\ i - 1 = n
        BY <2>2, <3>1
      <4> HIDE DEF g
      <4>2. i # 1 => g[i - 1] = f[i - 1]
        BY <2>4, <4>1
      <4> QED
        BY <2>4, <3>1, <4>2 DEF top, FlatStep
    <3>2. CASE i \in 1..n
      <4>1. i # 1 => i - 1 \in 1..n
        BY <2>2, <3>2
      <4> HIDE DEF g
      <4>2. g[i] = f[i] /\ p[i] = q[i] /\ (i # 1 => g[i - 1] = f[i - 1])
        BY <2>2, <2>4, <3>2, <4>1
      <4> QED
        BY <2>3, <3>2, <4>2 DEF FlatStep
    <3> QED
      BY <2>2, <3>1, <3>2
  <2>6. IsFlat(p, g)
    BY <2>2, <2>5 DEF IsFlat
  <2> HIDE DEF g
  <2> QED
    BY <2>2, <2>6 DEF p
<1>3. Seq(C) \subseteq G
  <2> HIDE DEF G
  <2> QED
    BY <1>1, <1>2, ListInduction
<1> QED
  BY <1>3

Flat(w) == CHOOSE f : IsFlat(w, f)

LEMMA FlatIs ==
    ASSUME NEW C, NEW w \in Seq(C)
    PROVE  /\ \A i \in 1..Len(w) : Flat(w)[i] = FlatStep(w, Flat(w), i)
           /\ w # <<>> => FlattenSeq(w) = Flat(w)[Len(w)]
           /\ w = <<>> => FlattenSeq(w) = <<>>
<1>1. IsFlat(w, Flat(w))
  BY FlatExists, Zenon DEF Flat
<1>2. \A i \in 1..Len(w) : Flat(w)[i] = FlatStep(w, Flat(w), i)
  BY <1>1 DEF IsFlat
<1>3. FlattenSeq(w) = IF Len(w) = 0 THEN w ELSE Flat(w)[Len(w)]
  BY DEF FlattenSeq, Flat, IsFlat, FlatStep
<1>4. Len(w) = 0 <=> w = <<>>
  OBVIOUS
<1> QED
  BY <1>2, <1>3, <1>4

LEMMA FlattenAppend ==
    ASSUME NEW D, NEW w \in Seq(Seq(D)), NEW t \in Seq(D)
    PROVE  FlattenSeq(Append(w, t)) = FlattenSeq(w) \o t
<1> DEFINE C == Seq(D)
           p == Append(w, t)
           n == Len(w)
<1>0. w \in Seq(C) /\ t \in C
  OBVIOUS
<1> HIDE DEF C
<1>1. /\ p \in Seq(C) /\ p # <<>> /\ Len(p) = n + 1 /\ n \in Nat /\ p[n + 1] = t
      /\ \A i \in 1..n : p[i] = w[i]
  BY <1>0
<1> DEFINE f == Flat(w)
           g == Flat(p)
<1>2. \A i \in 1..n : f[i] = FlatStep(w, f, i)
  BY <1>0, FlatIs
<1> HIDE DEF p
<1>3. (\A i \in 1..(n + 1) : g[i] = FlatStep(p, g, i)) /\ FlattenSeq(p) = g[n + 1]
  BY <1>1, FlatIs
<1>4. (w # <<>> => FlattenSeq(w) = f[n]) /\ (w = <<>> => FlattenSeq(w) = <<>>)
  BY <1>0, FlatIs
<1>5. n = 0 <=> w = <<>>
  BY <1>0
<1> HIDE DEF f, g, n
<1> DEFINE Bad == {i \in 1..n : f[i] # g[i]}
<1>6. Bad = {}
  <2> SUFFICES ASSUME Bad # {} PROVE FALSE
    OBVIOUS
  <2>1. Bad \subseteq Nat
    BY <1>1
  <2>2. PICK i \in Bad : \A k \in Bad : i <= k
    <3> HIDE DEF Bad
    <3> QED
      BY <2>1, LeastOf, Zenon
  <2>3. i \in 1..n /\ f[i] # g[i]
    OBVIOUS
  <2>4. i # 1 => i - 1 \in 1..n /\ ~(i <= i - 1)
    BY <1>1, <2>3
  <2>5. i # 1 => f[i - 1] = g[i - 1]
    BY <2>2, <2>4
  <2>6. i \in 1..(n + 1) /\ p[i] = w[i]
    BY <1>1, <2>3
  <2> HIDE DEF Bad
  <2>7. f[i] = FlatStep(w, f, i) /\ g[i] = FlatStep(p, g, i)
    BY <1>2, <1>3, <2>3, <2>6
  <2> QED
    BY <2>3, <2>5, <2>6, <2>7 DEF FlatStep
<1>7. g[n + 1] = FlatStep(p, g, n + 1)
  BY <1>1, <1>3
<1>8. CASE n = 0
  <2>1. g[n + 1] = t
    BY <1>1, <1>7, <1>8 DEF FlatStep
  <2>2. <<>> \o t = t
    BY ConcatEmptySeq
  <2> QED
    BY <1>3, <1>4, <1>5, <1>8, <2>1, <2>2 DEF p
<1>9. CASE n # 0
  <2>1. n \in 1..n /\ n + 1 # 1 /\ n + 1 - 1 = n
    BY <1>1, <1>9
  <2>2. f[n] = g[n]
    BY <1>6, <2>1
  <2>3. g[n + 1] = g[n] \o t
    BY <1>1, <1>7, <2>1 DEF FlatStep
  <2> QED
    BY <1>3, <1>4, <1>5, <1>9, <2>2, <2>3 DEF p
<1> QED
  BY <1>8, <1>9

LEMMA FlattenEmpty == FlattenSeq(<<>>) = <<>>
<1>1. <<>> \in Seq({})
  OBVIOUS
<1> QED
  BY <1>1, FlatIs

LEMMA FlattenType ==
    ASSUME NEW D, NEW w \in Seq(Seq(D))
    PROVE  FlattenSeq(w) \in Seq(D)
<1> DEFINE C == Seq(D)
           G == {q \in Seq(C) : FlattenSeq(q) \in Seq(D)}
<1>0. w \in Seq(C) /\ <<>> \in Seq(D) /\ <<>> \in Seq(C)
  OBVIOUS
<1> HIDE DEF C
<1>1. <<>> \in G
  BY <1>0, FlattenEmpty
<1>2. ASSUME NEW q \in Seq(C), NEW t \in C, q \in G PROVE Append(q, t) \in G
  <2>1. FlattenSeq(Append(q, t)) = FlattenSeq(q) \o t
    BY FlattenAppend DEF C
  <2>2. FlattenSeq(q) \in Seq(D) /\ t \in Seq(D)
    BY <1>2 DEF C
  <2>4. FlattenSeq(q) \o t \in Seq(D)
    BY <2>2
  <2>3. Append(q, t) \in Seq(C)
    OBVIOUS
  <2> QED
    BY <2>1, <2>3, <2>4
<1> HIDE DEF G
<1>4. Seq(C) \subseteq G
  BY <1>1, <1>2, ListInduction
<1>5. w \in G
  BY <1>0, <1>4
<1> QED
  BY <1>5 DEF G

\* h lays each entry of C out as a list.
Lays(h, C, D) == h \in [C -> Seq(D)]

\* q with each entry replaced by a list.
Each(h, q) == [k \in DOMAIN q |-> h[q[k]]]
Spread(h, q) == FlattenSeq(Each(h, q))

LEMMA SpreadEmpty == ASSUME NEW h PROVE Spread(h, <<>>) = <<>>
<1>1. Each(h, <<>>) = <<>>
  BY DEF Each
<1> QED
  BY <1>1, FlattenEmpty DEF Spread

LEMMA SpreadList ==
    ASSUME NEW C, NEW D, NEW h, Lays(h, C, D), NEW q \in Seq(C)
    PROVE  Each(h, q) \in Seq(Seq(D)) /\ Len(Each(h, q)) = Len(q)
<1> DEFINE S == Seq(D)
           l == [k \in 1..Len(q) |-> h[q[k]]]
<1>1. Len(q) \in Nat /\ DOMAIN q = 1..Len(q) /\ \A k \in 1..Len(q) : h[q[k]] \in S
  BY DEF Lays
<1> HIDE DEF S
<1>2. l \in Seq(S) /\ Len(l) = Len(q)
  BY <1>1
<1> QED
  BY <1>1, <1>2 DEF S, Each

LEMMA SpreadType ==
    ASSUME NEW C, NEW D, NEW h, Lays(h, C, D), NEW q \in Seq(C)
    PROVE  Spread(h, q) \in Seq(D)
BY SpreadList, FlattenType DEF Spread

LEMMA SpreadAppend ==
    ASSUME NEW C, NEW D, NEW h, Lays(h, C, D), NEW q \in Seq(C), NEW x \in C
    PROVE  Spread(h, Append(q, x)) = Spread(h, q) \o h[x]
<1>0. \A r \in Seq(C) : Each(h, r) \in Seq(Seq(D)) /\ Len(Each(h, r)) = Len(r)
  BY SpreadList
<1> DEFINE S == Seq(D)
           p == Append(q, x)
           n == Len(q)
           l == Each(h, q)
           m == Each(h, p)
<1>1. h[x] \in S /\ p \in Seq(C) /\ Len(p) = n + 1 /\ n \in Nat
  BY DEF Lays
<1>2. DOMAIN p = 1..(n + 1) /\ DOMAIN q = 1..n
  OBVIOUS
<1>3. p[n + 1] = x /\ \A k \in 1..n : p[k] = q[k]
  OBVIOUS
<1>4. l \in Seq(S) /\ Len(l) = n
  BY <1>0
<1>5. m \in Seq(S) /\ Len(m) = n + 1
  <2> HIDE DEF p
  <2> QED
    BY <1>0, <1>1
<1>6. (\A k \in 1..n : m[k] = l[k]) /\ m[n + 1] = h[x]
  <2> HIDE DEF p, n
  <2> QED
    BY <1>1, <1>2, <1>3 DEF Each
<1>7. Spread(h, p) = FlattenSeq(m) /\ Spread(h, q) = FlattenSeq(l)
  BY DEF Spread
<1> HIDE DEF l, m, p, n, S
<1>8. Append(l, h[x]) \in Seq(S) /\ Len(Append(l, h[x])) = n + 1
  <2>1. h[x] \in S /\ n \in Nat
    BY <1>1
  <2> QED
    BY <1>4, <2>1
<1>9. \A k \in 1..(n + 1) : Append(l, h[x])[k] = m[k]
  <2>1. \A k \in 1..n : Append(l, h[x])[k] = l[k]
    BY <1>1, <1>4
  <2>2. Append(l, h[x])[n + 1] = h[x]
    BY <1>1, <1>4
  <2>3. \A k \in 1..(n + 1) : k \in 1..n \/ k = n + 1
    BY <1>1
  <2> QED
    BY <1>6, <2>1, <2>2, <2>3
<1>10. Append(l, h[x]) = m
  BY <1>5, <1>8, <1>9, SeqEqual
<1>11. FlattenSeq(Append(l, h[x])) = FlattenSeq(l) \o h[x]
  BY <1>1, <1>4, FlattenAppend DEF S
<1> QED
  BY <1>7, <1>10, <1>11 DEF p

FrontFirst(p, q, r) == (p \o q) \o r
BackFirst(p, q, r) == p \o (q \o r)

LEMMA Regroup ==
    ASSUME NEW C, NEW p \in Seq(C), NEW q \in Seq(C), NEW r \in Seq(C)
    PROVE  FrontFirst(p, q, r) = BackFirst(p, q, r)
BY ConcatAssociative DEF FrontFirst, BackFirst

LEMMA SpreadBoth ==
    ASSUME NEW C, NEW D, NEW h, Lays(h, C, D), NEW q \in Seq(C), NEW r \in Seq(C)
    PROVE  Spread(h, q \o r) = Spread(h, q) \o Spread(h, r)
<1> DEFINE G == {t \in Seq(C) : Spread(h, q \o t) = Spread(h, q) \o Spread(h, t)}
<1>1. <<>> \in G
  <2>1. q \o <<>> = q /\ <<>> \in Seq(C)
    BY ConcatEmptySeq
  <2>2. Spread(h, q) \in Seq(D)
    BY SpreadType
  <2>3. Spread(h, q) \o <<>> = Spread(h, q)
    BY <2>2, ConcatEmptySeq
  <2> QED
    BY <2>1, <2>3, SpreadEmpty
<1>2. ASSUME NEW t \in Seq(C), NEW x \in C, t \in G PROVE Append(t, x) \in G
  <2>1. q \o Append(t, x) = Append(q \o t, x) /\ q \o t \in Seq(C)
    OBVIOUS
  <2>0. \A r0 \in Seq(C) : Spread(h, Append(r0, x)) = Spread(h, r0) \o h[x]
    <3> SUFFICES ASSUME NEW r0 \in Seq(C)
                 PROVE  Spread(h, Append(r0, x)) = Spread(h, r0) \o h[x]
      OBVIOUS
    <3> HIDE <1>2
    <3> QED
      BY SpreadAppend
  <2>2. /\ Spread(h, Append(q \o t, x)) = Spread(h, q \o t) \o h[x]
        /\ Spread(h, Append(t, x)) = Spread(h, t) \o h[x]
    BY <2>0, <2>1
  <2>3. Spread(h, q \o t) = Spread(h, q) \o Spread(h, t)
    BY <1>2
  <2>4. (Spread(h, q) \o Spread(h, t)) \o h[x] = Spread(h, q) \o (Spread(h, t) \o h[x])
    <3> DEFINE a == Spread(h, q)
               b == Spread(h, t)
               c == h[x]
    <3>1. a \in Seq(D) /\ b \in Seq(D) /\ c \in Seq(D)
      BY SpreadType DEF Lays
    <3> HIDE DEF a, b, c, G
    <3>3. FrontFirst(a, b, c) = BackFirst(a, b, c)
      BY <3>1, Regroup, Zenon
    <3> QED
      BY <3>3 DEF FrontFirst, BackFirst, a, b, c
  <2>5. Append(t, x) \in Seq(C)
    OBVIOUS
  <2> QED
    BY <2>1, <2>2, <2>3, <2>4, <2>5
<1> HIDE DEF G
<1>3. r \in G
  BY <1>1, <1>2, ListInduction
<1> QED
  BY <1>3 DEF G

LEMMA SpreadOne ==
    ASSUME NEW C, NEW D, NEW h, Lays(h, C, D), NEW x \in C
    PROVE  Spread(h, <<x>>) = h[x]
<1>1. <<>> \in Seq(C) /\ Append(<<>>, x) = <<x>> /\ h[x] \in Seq(D)
  BY DEF Lays
<1>2. Spread(h, Append(<<>>, x)) = <<>> \o h[x]
  <2>1. Spread(h, Append(<<>>, x)) = Spread(h, <<>>) \o h[x]
    BY <1>1, SpreadAppend, Zenon
  <2> QED
    BY <2>1, SpreadEmpty
<1>3. <<>> \o h[x] = h[x]
  BY <1>1, ConcatEmptySeq
<1> QED
  BY <1>1, <1>2, <1>3
=============================================================================

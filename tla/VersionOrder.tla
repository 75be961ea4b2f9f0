---------------------------- MODULE VersionOrder ----------------------------
(***************************************************************************)
(* Version numbers of the game, game/src/version.cpp: how a text is read   *)
(* and how two versions compare.  The comparison recurses over the         *)
(* components under a guard that counts in a static variable, which lives  *)
(* as long as the process: the module is the process, one comparison a     *)
(* step.  Components are numbers, the text after them is an element of     *)
(* Nat in alphabetical order, 0 for none.                                  *)
(***************************************************************************)
EXTENDS Integers, Sequences

CONSTANTS
    Texts,          \* version strings: their components and special part
    MaxUnsigned,    \* the largest unsigned int
    MaxRecursions,  \* 256
    NoComparison

ASSUME VersionAssumption ==
    /\ Texts \subseteq [comps : Seq(Nat), special : Nat]
    /\ MaxRecursions \in Nat /\ MaxUnsigned \in Nat
    /\ NoComparison \notin [l : Texts, r : Texts]

VARIABLES
    level,      \* the static counter; above MaxRecursions its value is all one
    last        \* the comparison made last: operands, operator and result

Ops == {"<", ">", "<=", ">="}

Larger(m, n) == IF m > n THEN m ELSE n

\* The string constructor: at least three components.
Parse(text) ==
    LET n == Larger(Len(text.comps), 3)
    IN  [nums |-> [k \in 1..n |-> IF k <= Len(text.comps) THEN text.comps[k]
                                                          ELSE 0],
         special |-> text.special]

\* lexical_cast fails on a component that does not fit; comparing throws.
Good(text) == \A k \in DOMAIN text.comps : text.comps[k] <= MaxUnsigned

\* Mutant of Padded: the components both have are compared.
PaddedToShorter(a, b) ==
    LET n == IF Len(a) < Len(b) THEN Len(a) ELSE Len(b)
    IN  SubSeq(a, 1, n)

\* Components of a, with zeroes as far as b goes.
Padded(a, b) ==
    [k \in 1..Larger(Len(a), Len(b)) |-> IF k <= Len(a) THEN a[k] ELSE 0]

\* The relation that an operator's recursion is made with.
Relates(op, m, n) == IF op \in {">", ">="} THEN m > n ELSE m < n

\* recursive_order_operation from component k on: its result and the counter.
Ordered(op, a, b) ==
    LET stop == Len(a) + 1
        from[k \in 1..stop] ==
            LET now == level + k    \* each call so far has counted one
            IN  IF k = stop THEN [result |-> FALSE, level |-> level + k - 1]
                ELSE IF now > MaxRecursions \/ a[k] # b[k]
                     THEN [result |-> now <= MaxRecursions /\ Relates(op, a[k], b[k]),
                           level |-> now]
                     ELSE from[k + 1]
    IN  from[1]

\* operator> and operator<: the components, then the special parts; an empty
\* one comes first.  <= and >= also hold of equal versions.
Compare(op, l, r) ==
    LET a == Padded(l.nums, r.nums)
        b == Padded(r.nums, l.nums)
        strict == Ordered(op, a, b)
        special == Relates(op, l.special, r.special)
        equal == a = b
    IN  [result |-> \/ strict.result
                    \/ equal /\ special
                    \/ op \in {"<=", ">="} /\ equal /\ l.special = r.special,
         level |-> strict.level]

VersionInit == level = 0 /\ last = NoComparison

Evaluate(op, s, t) ==
    LET c == Compare(op, Parse(s), Parse(t))
    IN  /\ Good(s) /\ Good(t)
        /\ level' = IF c.level > MaxRecursions THEN MaxRecursions ELSE c.level
        /\ last' = [op |-> op, l |-> Parse(s), r |-> Parse(t),
                    result |-> c.result, safe |-> c.level <= MaxRecursions]

VersionNext == \E op \in Ops, s, t \in Texts : Evaluate(op, s, t)

VersionSpec == VersionInit /\ [][VersionNext]_<<level, last>>

-----------------------------------------------------------------------------
(* Correctness *)

\* The k-th component, zero beyond the end.
Component(v, k) == IF k \in DOMAIN v.nums THEN v.nums[k] ELSE 0

Same(l, r) == \A k \in DOMAIN l.nums \cup DOMAIN r.nums : Component(l, k) = Component(r, k)

\* The order of versions: the first component that differs decides.
Above(l, r) ==
    \/ \E k \in DOMAIN l.nums \cup DOMAIN r.nums :
          Component(l, k) > Component(r, k) /\ \A j \in 1..(k - 1) : Component(l, j) = Component(r, j)
    \/ Same(l, r) /\ l.special > r.special

Right(c) ==
    c.result = CASE c.op = ">" -> Above(c.l, c.r)
                 [] c.op = "<" -> Above(c.r, c.l)
                 [] c.op = ">=" -> ~Above(c.r, c.l)
                 [] c.op = "<=" -> ~Above(c.l, c.r)

\* "x0.x1.x2.x3.[...].xN > y0.y1.y2.y3.[...].yN iff x0 > y0 || ..."
\* (version.cpp:178-182): a comparison decides by the first component that
\* differs, however many were made before it.
ComparisonsAreRight == last # NoComparison => Right(last)

\* The same as long as the counter has not run out.
RightUntilExhausted == last # NoComparison /\ last.safe => Right(last)

=============================================================================

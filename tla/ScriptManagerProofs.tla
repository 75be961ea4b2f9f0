------------------------ MODULE ScriptManagerProofs ------------------------
(***************************************************************************)
(* That a command of the script changes no other add-on than it selected,  *)
(* and never leaves an _info.cfg that claims more than the files beside    *)
(* it, for any add-ons, whatever is interrupted and published meanwhile,   *)
(* as long as nobody else removes add-ons while a command runs; that       *)
(* updating ends where the server is; and that files survive the packing   *)
(* and unpacking of any of the programs, for any bytes.                    *)
(***************************************************************************)
EXTENDS ScriptManager, AddonCodec, ListsProofs, TLAPS

-----------------------------------------------------------------------------
(* Files inside WML *)

Byte == 0..255

EncodeOf == [c \in Byte |-> IF NeedsEscaping(c) THEN <<EscapeChar, (c + 1) % 256>> ELSE <<c>>]

\* Bytes that the parsers leave alone.
Plain == Byte \ {0, 13, 254}

LEMMA EncodeOfIs ==
    /\ Lays(EncodeOf, Byte, Plain) /\ Lays(EncodeOf, Byte, Byte)
    /\ \A c \in Byte \ {0, 1, 13, 254} : EncodeOf[c] = <<c>>
    /\ \A c \in {0, 1, 13, 254} : EncodeOf[c] = <<1, c + 1>>
<1>1. \A c \in Byte \ {0, 1, 13, 254} : EncodeOf[c] = <<c>>
  BY DEF EncodeOf, NeedsEscaping, EscapeChar
<1>2. ASSUME NEW c \in {0, 1, 13, 254} PROVE EncodeOf[c] = <<1, c + 1>>
  <2>1. c \in Byte /\ NeedsEscaping(c)
    BY DEF NeedsEscaping, EscapeChar, Byte
  <2>2. (c + 1) % 256 = c + 1
    <3>1. c + 1 \in 0..255
      OBVIOUS
    <3> QED
      BY <3>1
  <2>3. EncodeOf[c] = <<EscapeChar, (c + 1) % 256>>
    BY <2>1 DEF EncodeOf
  <2> QED
    BY <2>2, <2>3 DEF EscapeChar
<1>4. \A c \in Byte : EncodeOf[c] \in Seq(Plain) /\ EncodeOf[c] \in Seq(Byte)
  <2> SUFFICES ASSUME NEW c \in Byte
               PROVE  EncodeOf[c] \in Seq(Plain) /\ EncodeOf[c] \in Seq(Byte)
    OBVIOUS
  <2>1. CASE c \in {0, 1, 13, 254}
    <3>1. c + 1 \in Plain /\ 1 \in Plain /\ c + 1 \in Byte /\ 1 \in Byte
      BY <2>1 DEF Plain, Byte
    <3>2. <<1, c + 1>> \in Seq(Plain) /\ <<1, c + 1>> \in Seq(Byte)
      BY <3>1
    <3> QED
      BY <1>2, <2>1, <3>2
  <2>2. CASE c \notin {0, 1, 13, 254}
    <3>1. EncodeOf[c] = <<c>> /\ c \in Plain
      BY <1>1, <2>2 DEF Plain
    <3> QED
      BY <3>1
  <2> QED
    BY <2>1, <2>2
<1>3. EncodeOf = [c \in Byte |-> EncodeOf[c]]
  BY DEF EncodeOf
<1>5. Lays(EncodeOf, Byte, Plain) /\ Lays(EncodeOf, Byte, Byte)
  BY <1>3, <1>4 DEF Lays
<1> QED
  BY <1>1, <1>2, <1>5

LEMMA EncodeIs == ASSUME NEW s \in Seq(Byte) PROVE EncodeBinary(s) = Spread(EncodeOf, s)
<1>1. \A k \in DOMAIN s : s[k] \in Byte
  OBVIOUS
<1>2. Each(EncodeOf, s) = [k \in DOMAIN s |-> IF NeedsEscaping(s[k])
                                              THEN <<EscapeChar, (s[k] + 1) % 256>>
                                              ELSE <<s[k]>>]
  BY <1>1 DEF Each, EncodeOf
<1> QED
  BY <1>2 DEF EncodeBinary, Spread

\* What is encoded has none of the bytes that the parsers take for their own.
LEMMA EncodedPlain ==
    ASSUME NEW s \in Seq(Byte)
    PROVE  EncodeBinary(s) \in Seq(Plain) /\ EncodeBinary(s) \in Seq(Byte) /\ NoParserBytes(s)
<1>1. EncodeBinary(s) \in Seq(Plain) /\ EncodeBinary(s) \in Seq(Byte)
  BY EncodeIs, EncodeOfIs, SpreadType
<1>2. \A k \in DOMAIN EncodeBinary(s) : EncodeBinary(s)[k] \in Plain
  BY <1>1
<1> QED
  BY <1>1, <1>2 DEF NoParserBytes, Plain

LEMMA EncodeAppend ==
    ASSUME NEW s \in Seq(Byte), NEW c \in Byte
    PROVE  /\ EncodeBinary(Append(s, c)) = EncodeBinary(s) \o EncodeOf[c]
           /\ EncodeBinary(<<c>> \o s) = EncodeOf[c] \o EncodeBinary(s)
           /\ EncodeBinary(<<>>) = <<>>
<1>1. /\ Append(s, c) \in Seq(Byte) /\ <<c>> \o s \in Seq(Byte)
      /\ <<c>> \in Seq(Byte) /\ <<>> \in Seq(Byte)
  OBVIOUS
<1>2. Lays(EncodeOf, Byte, Byte)
  BY EncodeOfIs
<1>3. Spread(EncodeOf, Append(s, c)) = Spread(EncodeOf, s) \o EncodeOf[c]
  BY <1>2, SpreadAppend, Zenon
<1>4. Spread(EncodeOf, <<c>> \o s) = Spread(EncodeOf, <<c>>) \o Spread(EncodeOf, s)
  <2>1. \A q, r \in Seq(Byte) : Spread(EncodeOf, q \o r) = Spread(EncodeOf, q) \o Spread(EncodeOf, r)
    BY <1>2, SpreadBoth
  <2> QED
    BY <1>1, <2>1
<1>5. Spread(EncodeOf, <<c>>) = EncodeOf[c]
  BY <1>2, SpreadOne, Zenon
<1> QED
  BY <1>1, <1>3, <1>4, <1>5, EncodeIs, SpreadEmpty, Zenon

-----------------------------------------------------------------------------
(* The server's decoder *)

AfterStep(r, c) ==
    IF r.escape THEN [out |-> Append(r.out, c - 1), escape |-> FALSE]
    ELSE IF c = EscapeChar THEN [r EXCEPT !.escape = TRUE]
    ELSE [r EXCEPT !.out = Append(@, c)]

AfterNone == [out |-> <<>>, escape |-> FALSE]

IsAfter(s, f) ==
    f = [k \in 0..Len(s) |-> IF k = 0 THEN AfterNone ELSE AfterStep(f[k - 1], s[k])]

After(s) == CHOOSE f : IsAfter(s, f)
State(s) == After(s)[Len(s)]

LEMMA AfterExists == ASSUME NEW C, NEW s \in Seq(C) PROVE \E f : IsAfter(s, f)
<1> DEFINE G == {q \in Seq(C) : \E f : IsAfter(q, f)}
<1>1. <<>> \in G
  <2> DEFINE g == [k \in 0..0 |-> AfterNone]
  <2>1. g = [k \in 0..0 |-> IF k = 0 THEN AfterNone ELSE AfterStep(g[k - 1], (<<>>)[k])]
    OBVIOUS
  <2> HIDE DEF g
  <2>2. IsAfter(<<>>, g)
    BY <2>1 DEF IsAfter
  <2>3. <<>> \in Seq(C)
    OBVIOUS
  <2> QED
    BY <2>2, <2>3
<1>2. ASSUME NEW q \in Seq(C), NEW x \in C, q \in G PROVE Append(q, x) \in G
  <2>1. PICK f : IsAfter(q, f)
    BY <1>2
  <2> DEFINE p == Append(q, x)
             n == Len(q)
             top == AfterStep(f[n], x)
             g == [i \in 0..(n + 1) |-> IF i = n + 1 THEN top ELSE f[i]]
  <2>2. p \in Seq(C) /\ Len(p) = n + 1 /\ n \in Nat /\ p[n + 1] = x /\ \A i \in 1..n : p[i] = q[i]
    OBVIOUS
  <2>3. \A i \in 0..n : f[i] = IF i = 0 THEN AfterNone ELSE AfterStep(f[i - 1], q[i])
    BY <2>1 DEF IsAfter
  <2> HIDE DEF p, n, top
  <2>4. g[n + 1] = top /\ \A i \in 0..n : g[i] = f[i]
    BY <2>2
  <2>5. ASSUME NEW i \in 0..(n + 1)
        PROVE  g[i] = IF i = 0 THEN AfterNone ELSE AfterStep(g[i - 1], p[i])
    <3>1. CASE i = n + 1
      <4>1. i # 0 /\ i - 1 \in 0..n /\ i - 1 = n
        BY <2>2, <3>1
      <4> HIDE DEF g
      <4>2. g[i - 1] = f[n] /\ p[i] = x /\ g[i] = top
        BY <2>2, <2>4, <3>1, <4>1
      <4> QED
        BY <4>1, <4>2 DEF top
    <3>2. CASE i \in 1..n
      <4>1. i # 0 /\ i - 1 \in 0..n /\ i \in 0..n
        BY <2>2, <3>2
      <4> HIDE DEF g
      <4>2. g[i] = f[i] /\ p[i] = q[i] /\ g[i - 1] = f[i - 1]
        BY <2>2, <2>4, <3>2, <4>1
      <4> QED
        BY <2>3, <4>1, <4>2
    <3>3. CASE i = 0
      <4> HIDE DEF g
      <4>1. 0 \in 0..n
        BY <2>2
      <4> QED
        BY <2>3, <2>4, <3>3, <4>1
    <3> QED
      BY <2>2, <3>1, <3>2, <3>3
  <2>6. IsAfter(p, g)
    BY <2>2, <2>5 DEF IsAfter
  <2> HIDE DEF g
  <2> QED
    BY <2>2, <2>6 DEF p
<1>3. Seq(C) \subseteq G
  <2> HIDE DEF G
  <2> QED
    BY <1>1, <1>2, ListInduction
<1> QED
  BY <1>3

LEMMA AfterIs ==
    ASSUME NEW C, NEW s \in Seq(C)
    PROVE  /\ \A k \in 0..Len(s) :
                 After(s)[k] = IF k = 0 THEN AfterNone ELSE AfterStep(After(s)[k - 1], s[k])
           /\ Unescape(s) = State(s).out
<1>1. IsAfter(s, After(s))
  BY AfterExists, Zenon DEF After
<1>2. \A k \in 0..Len(s) :
         After(s)[k] = IF k = 0 THEN AfterNone ELSE AfterStep(After(s)[k - 1], s[k])
  BY <1>1 DEF IsAfter
<1>3. Unescape(s) = State(s).out
  BY DEF Unescape, State, After, IsAfter, AfterNone, AfterStep
<1> QED
  BY <1>2, <1>3

LEMMA StateAppend ==
    ASSUME NEW C, NEW s \in Seq(C), NEW x \in C
    PROVE  State(Append(s, x)) = AfterStep(State(s), x) /\ State(<<>>) = AfterNone
<1> DEFINE p == Append(s, x)
           n == Len(s)
           f == After(s)
           g == After(p)
<1>1. /\ p \in Seq(C) /\ Len(p) = n + 1 /\ n \in Nat /\ p[n + 1] = x
      /\ \A i \in 1..n : p[i] = s[i]
  OBVIOUS
<1>2. \A k \in 0..n : f[k] = IF k = 0 THEN AfterNone ELSE AfterStep(f[k - 1], s[k])
  BY AfterIs
<1> HIDE DEF p, n
<1>3. \A k \in 0..(n + 1) : g[k] = IF k = 0 THEN AfterNone ELSE AfterStep(g[k - 1], p[k])
  BY <1>1, AfterIs
<1>4. State(s) = f[n] /\ State(p) = g[n + 1]
  BY <1>1 DEF State, n
<1> HIDE DEF f, g
<1> DEFINE Bad == {i \in 0..n : f[i] # g[i]}
<1>5. Bad = {}
  <2> SUFFICES ASSUME Bad # {} PROVE FALSE
    OBVIOUS
  <2>1. Bad \subseteq Nat
    BY <1>1
  <2>2. PICK i \in Bad : \A k \in Bad : i <= k
    <3> HIDE DEF Bad
    <3> QED
      BY <2>1, LeastOf, Zenon
  <2>3. i \in 0..n /\ f[i] # g[i]
    OBVIOUS
  <2>4. i # 0 => i - 1 \in 0..n /\ ~(i <= i - 1) /\ i \in 1..n
    BY <1>1, <2>3
  <2>5. i # 0 => f[i - 1] = g[i - 1] /\ p[i] = s[i]
    BY <1>1, <2>2, <2>4
  <2>6. i \in 0..(n + 1)
    BY <1>1, <2>3
  <2> HIDE DEF Bad
  <2> QED
    BY <1>2, <1>3, <2>3, <2>5, <2>6
<1>6. g[n] = f[n] /\ n + 1 # 0 /\ n + 1 \in 0..(n + 1) /\ n + 1 - 1 = n
  <2>1. n \in 0..n
    BY <1>1
  <2> QED
    BY <1>1, <1>5, <2>1
<1>7. g[n + 1] = AfterStep(g[n], p[n + 1])
  <2> DEFINE k == n + 1
  <2>1. k \in 0..(n + 1) /\ k # 0 /\ k - 1 = n
    BY <1>1, <1>6
  <2> HIDE DEF k
  <2>2. g[k] = AfterStep(g[k - 1], p[k])
    BY <1>3, <2>1
  <2> QED
    BY <2>1, <2>2 DEF k
<1>8. State(<<>>) = AfterNone
  <2>1. <<>> \in Seq(C) /\ Len(<<>>) = 0 /\ 0 \in 0..0
    OBVIOUS
  <2>2. After(<<>>)[0] = AfterNone
    BY <2>1, AfterIs
  <2> QED
    BY <2>1, <2>2 DEF State
<1> QED
  BY <1>1, <1>4, <1>6, <1>7, <1>8 DEF p

LEMMA UnescapeEncoded == ASSUME NEW s \in Seq(Byte) PROVE Unescape(EncodeBinary(s)) = s
<1> DEFINE Done(q) == [out |-> q, escape |-> FALSE]
           G == {q \in Seq(Byte) : State(EncodeBinary(q)) = Done(q)}
<1>1. <<>> \in G
  <2>1. <<>> \in Seq(Byte) /\ 0 \in Byte
    BY DEF Byte
  <2>2. EncodeBinary(<<>>) = <<>> /\ State(<<>>) = AfterNone
    BY <2>1, EncodeAppend, StateAppend
  <2> QED
    BY <2>1, <2>2 DEF AfterNone
<1>2. ASSUME NEW q \in Seq(Byte), NEW c \in Byte, q \in G PROVE Append(q, c) \in G
  <2> DEFINE e == EncodeBinary(q)
  <2>1. e \in Seq(Byte) /\ State(e) = Done(q) /\ Append(q, c) \in Seq(Byte)
    BY <1>2, EncodedPlain
  <2>2. EncodeBinary(Append(q, c)) = e \o EncodeOf[c]
    BY EncodeAppend
  <2> HIDE DEF e
  <2>3. CASE c \notin {0, 1, 13, 254}
    <3>1. EncodeOf[c] = <<c>>
      BY <2>3, EncodeOfIs
    <3>2. e \o <<c>> = Append(e, c)
      BY <2>1
    <3>3. State(Append(e, c)) = AfterStep(Done(q), c)
      BY <2>1, StateAppend
    <3>4. AfterStep(Done(q), c) = Done(Append(q, c))
      BY <2>3 DEF AfterStep, EscapeChar
    <3> QED
      BY <2>1, <2>2, <3>1, <3>2, <3>3, <3>4
  <2>4. CASE c \in {0, 1, 13, 254}
    <3> DEFINE d == c + 1
               mid == [out |-> q, escape |-> TRUE]
    <3>0. EncodeOf[c] = <<1, d>>
      BY <2>4, EncodeOfIs
    <3>1. EncodeOf[c] = <<1, d>> /\ d \in Byte /\ 1 \in Byte /\ d - 1 = c
      BY <2>4, <3>0 DEF Byte
    <3> HIDE DEF d
    <3>2. e \o <<1, d>> = Append(Append(e, 1), d) /\ Append(e, 1) \in Seq(Byte)
      BY <2>1, <3>1
    <3>3. State(Append(e, 1)) = AfterStep(Done(q), 1)
      BY <2>1, <3>1, StateAppend
    <3>4. AfterStep(Done(q), 1) = mid
      BY DEF AfterStep, EscapeChar
    <3>5. State(Append(Append(e, 1), d)) = AfterStep(mid, d)
      BY <3>1, <3>2, <3>3, <3>4, StateAppend
    <3>6. AfterStep(mid, d) = Done(Append(q, c))
      BY <3>1 DEF AfterStep
    <3> QED
      BY <2>1, <2>2, <3>1, <3>2, <3>5, <3>6
  <2> QED
    BY <2>3, <2>4
<1>3. Seq(Byte) \subseteq G
  <2> HIDE DEF G
  <2> QED
    BY <1>1, <1>2, ListInduction
<1>4. State(EncodeBinary(s)).out = s
  BY <1>3
<1>5. EncodeBinary(s) \in Seq(Byte)
  BY EncodedPlain
<1> QED
  BY <1>4, <1>5, AfterIs

-----------------------------------------------------------------------------
(* The game's decoder *)

FromStep(s, f, k) ==
    IF k > Len(s) THEN <<>>
    ELSE IF s[k] = EscapeChar /\ k < Len(s)
         THEN <<(s[k + 1] + 255) % 256>> \o f[k + 2]
         ELSE <<s[k]>> \o f[k + 1]

IsFrom(s, f) == f = [k \in 1..(Len(s) + 1) |-> FromStep(s, f, k)]

From(s) == CHOOSE f : IsFrom(s, f)

LEMMA FromExists == ASSUME NEW C, NEW s \in Seq(C) PROVE \E f : IsFrom(s, f)
<1> DEFINE G == {q \in Seq(C) : \E f : IsFrom(q, f)}
<1>1. <<>> \in G
  <2> DEFINE g == [k \in 1..1 |-> <<>>]
  <2>1. <<>> \in Seq(C) /\ Len(<<>>) = 0 /\ 0 + 1 = 1 /\ \A k \in 1..1 : k > 0
    OBVIOUS
  <2>2. \A k \in 1..1 : g[k] = FromStep(<<>>, g, k)
    BY <2>1 DEF FromStep
  <2>3. IsFrom(<<>>, g)
    BY <2>1, <2>2 DEF IsFrom
  <2> HIDE DEF g
  <2> QED
    BY <2>1, <2>3
<1>2. ASSUME NEW q \in Seq(C), NEW x \in C, q \in G PROVE <<x>> \o q \in G
  <2>1. PICK f : IsFrom(q, f)
    BY <1>2
  <2> DEFINE p == <<x>> \o q
             n == Len(q)
             top == IF x = EscapeChar /\ 1 < n + 1
                    THEN <<(q[1] + 255) % 256>> \o f[2] ELSE <<x>> \o f[1]
             g == [k \in 1..(n + 2) |-> IF k = 1 THEN top ELSE f[k - 1]]
  <2>2. p \in Seq(C) /\ Len(p) = n + 1 /\ n \in Nat
    OBVIOUS
  <2>3. p[1] = x /\ \A k \in 2..(n + 1) : p[k] = q[k - 1]
    OBVIOUS
  <2>4. \A k \in 1..(n + 1) : f[k] = FromStep(q, f, k)
    BY <2>1 DEF IsFrom
  <2>5. Len(q) = n
    OBVIOUS
  <2> HIDE DEF p, n, top
  <2>6. g[1] = top /\ \A k \in 2..(n + 2) : g[k] = f[k - 1]
    BY <2>2
  <2>7. ASSUME NEW k \in 1..(n + 2) PROVE g[k] = FromStep(p, g, k)
    <3>1. CASE k = 1
      <4>0. ~(1 > Len(p)) /\ (1 < Len(p) <=> 1 < n + 1)
        BY <2>2
      <4>1. 2 \in 2..(n + 2) /\ 2 - 1 = 1
        BY <2>2
      <4> HIDE DEF g
      <4>2. g[2] = f[1]
        BY <2>6, <4>1
      <4>3. CASE x = EscapeChar /\ 1 < n + 1
        <5>1. 3 \in 2..(n + 2) /\ 3 - 1 = 2 /\ 2 \in 2..(n + 1) /\ 2 - 1 = 1
          BY <2>2, <4>3
        <5>2. g[3] = f[2] /\ p[2] = q[1]
          BY <2>3, <2>6, <5>1
        <5>3. 1 + 1 = 2 /\ 1 + 2 = 3
          OBVIOUS
        <5>4. FromStep(p, g, 1) = <<(p[1 + 1] + 255) % 256>> \o g[1 + 2]
          BY <2>3, <4>0, <4>3 DEF FromStep
        <5>5. FromStep(p, g, 1) = <<(q[1] + 255) % 256>> \o f[2]
          BY <5>2, <5>3, <5>4
        <5> QED
          BY <2>6, <3>1, <4>3, <5>5 DEF top
      <4>4. CASE ~(x = EscapeChar /\ 1 < n + 1)
        <5>1. 1 + 1 = 2
          OBVIOUS
        <5>2. FromStep(p, g, 1) = <<x>> \o g[1 + 1]
          BY <2>3, <4>0, <4>4 DEF FromStep
        <5>3. FromStep(p, g, 1) = <<x>> \o f[1]
          BY <4>2, <5>1, <5>2
        <5> QED
          BY <2>6, <3>1, <4>4, <5>3 DEF top
      <4> QED
        BY <4>3, <4>4
    <3>2. CASE k # 1
      <4> DEFINE j == k - 1
      <4>1. j \in 1..(n + 1) /\ k \in 2..(n + 2) /\ k = j + 1
        BY <2>2, <3>2
      <4> HIDE DEF j, g
      <4>2. g[k] = FromStep(q, f, j)
        <5>1. k - 1 = j
          BY <4>1
        <5> QED
          BY <2>4, <2>6, <4>1, <5>1
      <4>3. CASE j = n + 1
        <5>1. k > Len(p) /\ j > Len(q)
          BY <2>2, <2>5, <4>1, <4>3
        <5> QED
          BY <4>2, <5>1 DEF FromStep
      <4>4. CASE j # n + 1
        <5>1. /\ ~(k > Len(p)) /\ ~(j > Len(q))
              /\ k < Len(p) <=> j < Len(q)
              /\ k \in 2..(n + 1) /\ k - 1 = j /\ k + 1 \in 2..(n + 2) /\ k + 1 - 1 = j + 1
          BY <2>2, <2>5, <4>1, <4>4
        <5>2. p[k] = q[j] /\ g[k + 1] = f[j + 1]
          BY <2>3, <2>6, <5>1
        <5>3. CASE q[j] = EscapeChar /\ j < Len(q)
          <6>1. k + 1 \in 2..(n + 1) /\ k + 2 \in 2..(n + 2) /\ k + 2 - 1 = j + 2
            BY <2>2, <2>5, <4>1, <5>3
          <6>2. p[k + 1] = q[j + 1] /\ g[k + 2] = f[j + 2]
            BY <2>3, <2>6, <5>1, <6>1
          <6> QED
            BY <4>2, <5>1, <5>2, <5>3, <6>2 DEF FromStep
        <5>4. CASE ~(q[j] = EscapeChar /\ j < Len(q))
          BY <4>2, <5>1, <5>2, <5>4 DEF FromStep
        <5> QED
          BY <5>3, <5>4
      <4> QED
        BY <4>3, <4>4
    <3> QED
      BY <3>1, <3>2
  <2>8. IsFrom(p, g)
    <3>1. Len(p) + 1 = n + 2
      BY <2>2
    <3> QED
      BY <2>7, <3>1 DEF IsFrom
  <2> HIDE DEF g
  <2> QED
    BY <2>2, <2>8 DEF p
<1>3. Seq(C) \subseteq G
  <2> HIDE DEF G
  <2> QED
    BY <1>1, <1>2, FrontInduction
<1> QED
  BY <1>3

LEMMA FromIs ==
    ASSUME NEW C, NEW s \in Seq(C)
    PROVE  /\ \A k \in 1..(Len(s) + 1) : From(s)[k] = FromStep(s, From(s), k)
           /\ UnencodeBinary(s) = From(s)[1]
<1>1. IsFrom(s, From(s))
  BY FromExists, Zenon DEF From
<1>2. \A k \in 1..(Len(s) + 1) : From(s)[k] = FromStep(s, From(s), k)
  BY <1>1 DEF IsFrom
<1>3. UnencodeBinary(s) = From(s)[1]
  BY DEF UnencodeBinary, From, IsFrom, FromStep
<1> QED
  BY <1>2, <1>3

Special == {0, 1, 13, 254}
Lowered(c) == (c + 255) % 256

LEMMA Wraps == \A c \in Special : Lowered(c + 1) = c
<1>1. (0 + 1 + 255) % 256 = 0 /\ (1 + 1 + 255) % 256 = 1
  OBVIOUS
<1>2. (13 + 1 + 255) % 256 = 13 /\ (254 + 1 + 255) % 256 = 254
  OBVIOUS
<1> QED
  BY <1>1, <1>2 DEF Special, Lowered

\* Decoding what was encoded, behind anything else.
LEMMA FromEncoded ==
    ASSUME NEW u \in Seq(Byte), NEW w \in Seq(Byte)
    PROVE  From(w \o EncodeBinary(u))[Len(w) + 1] = u
<1> DEFINE G == {q \in Seq(Byte) : \A r \in Seq(Byte) :
                    From(r \o EncodeBinary(q))[Len(r) + 1] = q}
<1>0. <<>> \in Seq(Byte) /\ 0 \in Byte
  BY DEF Byte
<1>1. <<>> \in G
  <2>1. ASSUME NEW r \in Seq(Byte) PROVE From(r \o EncodeBinary(<<>>))[Len(r) + 1] = <<>>
    <3>1. EncodeBinary(<<>>) = <<>> /\ r \o <<>> = r
      BY <1>0, EncodeAppend, ConcatEmptySeq
    <3>2. Len(r) + 1 \in 1..(Len(r) + 1) /\ Len(r) + 1 > Len(r)
      OBVIOUS
    <3>3. From(r)[Len(r) + 1] = <<>>
      BY <3>2, FromIs DEF FromStep
    <3> QED
      BY <3>1, <3>3
  <2> QED
    BY <1>0, <2>1
<1>2. ASSUME NEW q \in Seq(Byte), NEW c \in Byte, q \in G PROVE <<c>> \o q \in G
  <2> DEFINE e == EncodeBinary(q)
  <2>0. e \in Seq(Byte) /\ <<c>> \o q \in Seq(Byte)
    BY EncodedPlain
  <2>1. EncodeBinary(<<c>> \o q) = EncodeOf[c] \o e
    BY EncodeAppend
  <2>2. \A r \in Seq(Byte) : From(r \o e)[Len(r) + 1] = q
    BY <1>2
  <2> HIDE DEF e, G
  <2>3. ASSUME NEW r \in Seq(Byte)
        PROVE  From(r \o (EncodeOf[c] \o e))[Len(r) + 1] = <<c>> \o q
    <3>0. EncodeOf[c] \in Seq(Byte)
      BY EncodeOfIs DEF Lays
    <3>8. FrontFirst(r, EncodeOf[c], e) = BackFirst(r, EncodeOf[c], e)
      BY <2>0, <3>0, Regroup, Zenon
    <3> DEFINE n == Len(r)
               t == r \o EncodeOf[c]
               s == t \o e
    <3>1. t \in Seq(Byte) /\ s \in Seq(Byte) /\ n \in Nat /\ Len(s) \in Nat
      BY <2>0, <3>0
    <3>2. r \o (EncodeOf[c] \o e) = s
      BY <3>8 DEF FrontFirst, BackFirst
    <3>7. Len(s) = Len(t) + Len(e) /\ Len(e) \in Nat /\ \A k \in 1..Len(t) : s[k] = t[k]
      <4> HIDE DEF t
      <4> QED
        BY <2>0, <3>1
    <3>3. From(s)[Len(t) + 1] = q
      BY <2>2, <3>1
    <3>4. \A k \in 1..(Len(s) + 1) : From(s)[k] = FromStep(s, From(s), k)
      BY <3>1, FromIs
    <3>5. CASE c \notin {0, 1, 13, 254}
      <4>1. EncodeOf[c] = <<c>>
        BY <3>5, EncodeOfIs
      <4>2. Len(t) = n + 1 /\ t[n + 1] = c
        BY <4>1
      <4>3. Len(s) = n + 1 + Len(e) /\ s[n + 1] = c /\ Len(e) \in Nat
        <5>1. n + 1 \in 1..Len(t) /\ n \in Nat
          BY <3>1, <4>2
        <5> HIDE DEF n, t, s
        <5> QED
          BY <3>7, <4>2, <5>1
      <4>4. n + 1 \in 1..(Len(s) + 1) /\ ~(n + 1 > Len(s))
        BY <3>1, <4>3
      <4> HIDE DEF n, t, s
      <4>5. From(s)[n + 1] = <<c>> \o From(s)[n + 1 + 1]
        BY <3>4, <3>5, <4>3, <4>4 DEF FromStep, EscapeChar
      <4> QED
        BY <3>2, <3>3, <4>2, <4>5 DEF n
    <3>6. CASE c \in {0, 1, 13, 254}
      <4>1. EncodeOf[c] = <<1, c + 1>>
        BY <3>6, EncodeOfIs
      <4>2. Len(t) = n + 2 /\ t[n + 1] = 1 /\ t[n + 2] = c + 1
        BY <4>1
      <4>3. Len(s) = n + 2 + Len(e) /\ s[n + 1] = 1 /\ s[n + 2] = c + 1 /\ Len(e) \in Nat
        <5>1. n + 1 \in 1..Len(t) /\ n \in Nat
          BY <3>1, <4>2
        <5>2. n + 2 \in 1..Len(t)
          BY <3>1, <4>2
        <5> HIDE DEF n, t, s
        <5> QED
          BY <3>7, <4>2, <5>1, <5>2
      <4>4. n + 1 \in 1..(Len(s) + 1) /\ ~(n + 1 > Len(s)) /\ n + 1 < Len(s)
        BY <3>1, <4>3
      <4>5. (c + 1 + 255) % 256 = c
        <5>1. c \in Special
          BY <3>6 DEF Special
        <5>2. Lowered(c + 1) = c
          BY <5>1, Wraps, Zenon
        <5> QED
          BY <5>2 DEF Lowered
      <4>6. n + 1 + 1 = n + 2 /\ n + 1 + 2 = n + 2 + 1
        BY <3>1
      <4> HIDE DEF n, t, s
      <4>7. From(s)[n + 1] = <<(s[n + 1 + 1] + 255) % 256>> \o From(s)[n + 1 + 2]
        BY <3>4, <4>3, <4>4 DEF FromStep, EscapeChar
      <4>8. From(s)[n + 1] = <<c>> \o From(s)[n + 2 + 1]
        BY <4>3, <4>5, <4>6, <4>7
      <4> QED
        BY <3>2, <3>3, <4>2, <4>8 DEF n
    <3> QED
      BY <3>5, <3>6
  <2> QED
    BY <2>0, <2>1, <2>3 DEF G
<1>3. Seq(Byte) \subseteq G
  <2> HIDE DEF G
  <2> QED
    BY <1>0, <1>1, <1>2, FrontInduction
<1> QED
  BY <1>3

LEMMA UnencodeEncoded ==
    ASSUME NEW s \in Seq(Byte) PROVE UnencodeBinary(EncodeBinary(s)) = s
<1>1. EncodeBinary(s) \in Seq(Byte) /\ <<>> \in Seq(Byte)
  BY EncodedPlain
<1>2. <<>> \o EncodeBinary(s) = EncodeBinary(s)
  BY <1>1, ConcatEmptySeq
<1>3. From(EncodeBinary(s))[1] = s
  <2>1. Len(<<>>) + 1 = 1
    OBVIOUS
  <2>2. From(<<>> \o EncodeBinary(s))[Len(<<>>) + 1] = s
    BY <1>1, FromEncoded
  <2> QED
    BY <1>2, <2>1, <2>2
<1> QED
  BY <1>1, <1>3, FromIs

-----------------------------------------------------------------------------
(* The other encoder *)

\* What a replacement of c makes of a byte.
ByOf(c, by) == [x \in Byte |-> IF x = c THEN by ELSE <<x>>]

\* Text that a replacement is applied to.
LEMMA ReplacedIs ==
    ASSUME NEW c \in Byte, NEW d \in Byte
    PROVE  /\ \A p \in Seq(Byte) : Replaced(p, c, <<1, d>>) \in Seq(Byte)
           /\ \A p, q \in Seq(Byte) :
                 Replaced(p \o q, c, <<1, d>>)
                    = Replaced(p, c, <<1, d>>) \o Replaced(q, c, <<1, d>>)
           /\ \A x \in Byte :
                 Replaced(<<x>>, c, <<1, d>>) = IF x = c THEN <<1, d>> ELSE <<x>>
           /\ Replaced(<<>>, c, <<1, d>>) = <<>>
<1> DEFINE by == <<1, d>>
           h == ByOf(c, by)
<1>1. by \in Seq(Byte)
  BY DEF Byte
<1> HIDE DEF by
<1>2. \A x \in Byte : h[x] = IF x = c THEN by ELSE <<x>>
  BY DEF ByOf
<1>3. Lays(h, Byte, Byte)
  <2>1. \A x \in Byte : (IF x = c THEN by ELSE <<x>>) \in Seq(Byte)
    BY <1>1
  <2> QED
    BY <2>1 DEF Lays, ByOf
<1>4. \A p \in Seq(Byte) : Replaced(p, c, by) = Spread(h, p)
  <2> SUFFICES ASSUME NEW p \in Seq(Byte) PROVE Replaced(p, c, by) = Spread(h, p)
    OBVIOUS
  <2>1. \A k \in DOMAIN p : p[k] \in Byte
    OBVIOUS
  <2>2. Each(h, p) = [k \in DOMAIN p |-> IF p[k] = c THEN by ELSE <<p[k]>>]
    BY <1>2, <2>1 DEF Each
  <2> QED
    BY <2>2 DEF Replaced, Spread
<1> HIDE DEF h
<1>5. \A p, q \in Seq(Byte) : Spread(h, p \o q) = Spread(h, p) \o Spread(h, q)
  BY <1>3, SpreadBoth
<1>6. \A p \in Seq(Byte) : Spread(h, p) \in Seq(Byte)
  BY <1>3, SpreadType
<1>7. \A x \in Byte : Spread(h, <<x>>) = h[x]
  BY <1>3, SpreadOne
<1>8. \A p, q \in Seq(Byte) : p \o q \in Seq(Byte)
  OBVIOUS
<1>9. <<>> \in Seq(Byte) /\ \A x \in Byte : <<x>> \in Seq(Byte)
  OBVIOUS
<1>10. \A p, q \in Seq(Byte) : Replaced(p \o q, c, by) = Replaced(p, c, by) \o Replaced(q, c, by)
  BY <1>4, <1>5, <1>8
<1>11. \A x \in Byte : Replaced(<<x>>, c, by) = IF x = c THEN by ELSE <<x>>
  BY <1>2, <1>4, <1>7, <1>9
<1>12. Replaced(<<>>, c, by) = <<>>
  BY <1>4, <1>9, SpreadEmpty
<1>13. \A p \in Seq(Byte) : Replaced(p, c, by) \in Seq(Byte)
  BY <1>4, <1>6
<1> QED
  BY <1>10, <1>11, <1>12, <1>13 DEF by

LEMMA Specials == /\ {0, 1, 2, 13, 14, 254, 255} \subseteq Byte
                  /\ \A c \in Byte : <<c>> \in Seq(Byte)
BY DEF Byte

LEMMA ReplacedType ==
    ASSUME NEW c \in Byte, NEW d \in Byte, NEW p \in Seq(Byte)
    PROVE  Replaced(p, c, <<1, d>>) \in Seq(Byte)
BY ReplacedIs

LEMMA ReplacedBoth ==
    ASSUME NEW c \in Byte, NEW d \in Byte, NEW p \in Seq(Byte), NEW q \in Seq(Byte)
    PROVE  Replaced(p \o q, c, <<1, d>>)
              = Replaced(p, c, <<1, d>>) \o Replaced(q, c, <<1, d>>)
<1>1. \A u, v \in Seq(Byte) :
         Replaced(u \o v, c, <<1, d>>) = Replaced(u, c, <<1, d>>) \o Replaced(v, c, <<1, d>>)
  BY ReplacedIs, Zenon
<1> QED
  BY <1>1, Zenon

LEMMA ReplacedOne ==
    ASSUME NEW c \in Byte, NEW d \in Byte, NEW x \in Byte
    PROVE  Replaced(<<x>>, c, <<1, d>>) = IF x = c THEN <<1, d>> ELSE <<x>>
<1>1. \A z \in Byte : Replaced(<<z>>, c, <<1, d>>) = IF z = c THEN <<1, d>> ELSE <<z>>
  BY ReplacedIs, Zenon
<1> QED
  BY <1>1, Zenon

LEMMA ReplacedEmpty ==
    ASSUME NEW c \in Byte, NEW d \in Byte
    PROVE  Replaced(<<>>, c, <<1, d>>) = <<>>
BY ReplacedIs, Zenon

\* A replacement leaves what another put there alone.
LEMMA ReplacedPair ==
    ASSUME NEW c \in Byte, NEW d \in Byte, NEW x \in Byte, NEW y \in Byte, x # c, y # c
    PROVE  Replaced(<<x, y>>, c, <<1, d>>) = <<x, y>>
<1>0. <<x>> \in Seq(Byte) /\ <<y>> \in Seq(Byte)
  OBVIOUS
<1>1. <<x, y>> = <<x>> \o <<y>>
  <2>1. <<x, y>> = Append(<<x>>, y)
    OBVIOUS
  <2>2. Append(<<x>>, y) = <<x>> \o <<y>>
    OBVIOUS
  <2> QED
    BY <2>1, <2>2
<1>2. Replaced(<<x>> \o <<y>>, c, <<1, d>>)
         = Replaced(<<x>>, c, <<1, d>>) \o Replaced(<<y>>, c, <<1, d>>)
  BY <1>0, ReplacedBoth, Zenon
<1>3. Replaced(<<x>>, c, <<1, d>>) = <<x>> /\ Replaced(<<y>>, c, <<1, d>>) = <<y>>
  <2>1. \A z \in Byte : Replaced(<<z>>, c, <<1, d>>) = IF z = c THEN <<1, d>> ELSE <<z>>
    BY ReplacedOne, Zenon
  <2> QED
    BY <2>1, Zenon
<1> QED
  BY <1>1, <1>2, <1>3

LEMMA PutOne == ASSUME NEW x \in Byte PROVE PutFile(<<x>>) = EncodeOf[x]
<1> DEFINE r1 == Replaced(<<x>>, 1, <<1, 2>>)
           r2 == Replaced(r1, 0, <<1, 1>>)
           r3 == Replaced(r2, 13, <<1, 14>>)
           r4 == Replaced(r3, 254, <<1, 255>>)
<1>1. PutFile(<<x>>) = r4
  BY DEF PutFile
<1>2. r1 = IF x = 1 THEN <<1, 2>> ELSE <<x>>
  BY Specials, ReplacedIs
<1> HIDE DEF r1
<1>3. r2 = IF x = 1 THEN <<1, 2>> ELSE IF x = 0 THEN <<1, 1>> ELSE <<x>>
  <2>1. CASE x = 1
    BY <1>2, <2>1, Specials, ReplacedPair
  <2>2. CASE x # 1
    BY <1>2, <2>2, Specials, ReplacedIs
  <2> QED
    BY <2>1, <2>2
<1> HIDE DEF r2
<1>4. r3 = IF x \in {0, 1} THEN <<1, x + 1>> ELSE IF x = 13 THEN <<1, 14>> ELSE <<x>>
  <2>1. CASE x = 1
    BY <1>3, <2>1, Specials, ReplacedPair
  <2>2. CASE x = 0
    BY <1>3, <2>2, Specials, ReplacedPair
  <2>3. CASE x \notin {0, 1}
    BY <1>3, <2>3, Specials, ReplacedIs
  <2> QED
    BY <2>1, <2>2, <2>3
<1> HIDE DEF r3
<1>5. r4 = IF x \in {0, 1, 13} THEN <<1, x + 1>> ELSE IF x = 254 THEN <<1, 255>> ELSE <<x>>
  <2>1. CASE x = 1
    BY <1>4, <2>1, Specials, ReplacedPair
  <2>2. CASE x = 0
    BY <1>4, <2>2, Specials, ReplacedPair
  <2>3. CASE x = 13
    BY <1>4, <2>3, Specials, ReplacedPair
  <2>4. CASE x \notin {0, 1, 13}
    BY <1>4, <2>4, Specials, ReplacedIs
  <2> QED
    BY <2>1, <2>2, <2>3, <2>4
<1> HIDE DEF r4
<1>6. CASE x \in {0, 1, 13, 254}
  BY <1>1, <1>5, <1>6, EncodeOfIs
<1>7. CASE x \notin {0, 1, 13, 254}
  BY <1>1, <1>5, <1>7, EncodeOfIs
<1> QED
  BY <1>6, <1>7

LEMMA PutBoth ==
    ASSUME NEW p \in Seq(Byte), NEW q \in Seq(Byte)
    PROVE  PutFile(p \o q) = PutFile(p) \o PutFile(q)
<1> DEFINE r1(t) == Replaced(t, 1, <<1, 2>>)
           r2(t) == Replaced(t, 0, <<1, 1>>)
           r3(t) == Replaced(t, 13, <<1, 14>>)
           r4(t) == Replaced(t, 254, <<1, 255>>)
<1>1. ASSUME NEW t \in Seq(Byte), NEW u \in Seq(Byte)
      PROVE  r1(t) \in Seq(Byte) /\ r1(t \o u) = r1(t) \o r1(u)
  <2>1. 1 \in Byte /\ 2 \in Byte
    BY Specials
  <2> QED
    BY <2>1, ReplacedType, ReplacedBoth, Zenon
<1>2. ASSUME NEW t \in Seq(Byte), NEW u \in Seq(Byte)
      PROVE  r2(t) \in Seq(Byte) /\ r2(t \o u) = r2(t) \o r2(u)
  <2>1. 0 \in Byte /\ 1 \in Byte
    BY Specials
  <2> QED
    BY <2>1, ReplacedType, ReplacedBoth, Zenon
<1>3. ASSUME NEW t \in Seq(Byte), NEW u \in Seq(Byte)
      PROVE  r3(t) \in Seq(Byte) /\ r3(t \o u) = r3(t) \o r3(u)
  <2>1. 13 \in Byte /\ 14 \in Byte
    BY Specials
  <2> QED
    BY <2>1, ReplacedType, ReplacedBoth, Zenon
<1>4. ASSUME NEW t \in Seq(Byte), NEW u \in Seq(Byte)
      PROVE  r4(t) \in Seq(Byte) /\ r4(t \o u) = r4(t) \o r4(u)
  <2> DEFINE c == 254
             d == 255
  <2>1. c \in Byte /\ d \in Byte
    BY Specials
  <2>2. r4(t) = Replaced(t, c, <<1, d>>) /\ r4(u) = Replaced(u, c, <<1, d>>)
    OBVIOUS
  <2>3. r4(t \o u) = Replaced(t \o u, c, <<1, d>>)
    OBVIOUS
  <2> HIDE DEF c, d, r4
  <2>4. /\ Replaced(t, c, <<1, d>>) \in Seq(Byte)
        /\ Replaced(t \o u, c, <<1, d>>)
              = Replaced(t, c, <<1, d>>) \o Replaced(u, c, <<1, d>>)
    BY <2>1, ReplacedType, ReplacedBoth, Zenon
  <2> QED
    BY <2>2, <2>3, <2>4, Zenon
<1>5. \A t : PutFile(t) = r4(r3(r2(r1(t))))
  BY DEF PutFile
<1> HIDE DEF r1, r2, r3, r4
<1>6. p \o q \in Seq(Byte)
  OBVIOUS
<1>7. r1(p \o q) = r1(p) \o r1(q) /\ r1(p) \in Seq(Byte) /\ r1(q) \in Seq(Byte)
  BY <1>1, Zenon
<1>8. /\ r2(r1(p \o q)) = r2(r1(p)) \o r2(r1(q))
      /\ r2(r1(p)) \in Seq(Byte) /\ r2(r1(q)) \in Seq(Byte)
  BY <1>2, <1>7, Zenon
<1>9. /\ r3(r2(r1(p \o q))) = r3(r2(r1(p))) \o r3(r2(r1(q)))
      /\ r3(r2(r1(p))) \in Seq(Byte) /\ r3(r2(r1(q))) \in Seq(Byte)
  BY <1>3, <1>8, Zenon
<1>10. r4(r3(r2(r1(p \o q)))) = r4(r3(r2(r1(p)))) \o r4(r3(r2(r1(q))))
  BY <1>4, <1>9, Zenon
<1> QED
  BY <1>5, <1>10, Zenon

LEMMA PutEncodes == ASSUME NEW s \in Seq(Byte) PROVE PutFile(s) = EncodeBinary(s)
<1> DEFINE G == {q \in Seq(Byte) : PutFile(q) = EncodeBinary(q)}
<1>0. <<>> \in Seq(Byte)
  OBVIOUS
<1>1. <<>> \in G
  <2>1. PutFile(<<>>) = <<>>
    <3>2. \A c \in Byte : \A d \in Byte : Replaced(<<>>, c, <<1, d>>) = <<>>
      BY ReplacedEmpty, Zenon
    <3>3. /\ Replaced(<<>>, 1, <<1, 2>>) = <<>>
          /\ Replaced(<<>>, 0, <<1, 1>>) = <<>>
          /\ Replaced(<<>>, 13, <<1, 14>>) = <<>>
      BY <3>2, Specials, Zenon
    <3>4. Replaced(<<>>, 254, <<1, 255>>) = <<>>
      <4> DEFINE c == 254
                 d == 255
      <4>1. c \in Byte /\ d \in Byte
        BY Specials
      <4> HIDE DEF c, d
      <4>2. Replaced(<<>>, c, <<1, d>>) = <<>>
        BY <3>2, <4>1, Zenon
      <4> QED
        BY <4>2 DEF c, d
    <3> QED
      BY <3>3, <3>4 DEF PutFile
  <2>2. EncodeBinary(<<>>) = <<>>
    BY <1>0, EncodeIs, SpreadEmpty
  <2> QED
    BY <1>0, <2>1, <2>2
<1>2. ASSUME NEW q \in Seq(Byte), NEW x \in Byte, q \in G PROVE Append(q, x) \in G
  <2>1. Append(q, x) = q \o <<x>> /\ <<x>> \in Seq(Byte) /\ Append(q, x) \in Seq(Byte)
    OBVIOUS
  <2>2. PutFile(q \o <<x>>) = PutFile(q) \o PutFile(<<x>>)
    BY <2>1, PutBoth
  <2>3. PutFile(q) = EncodeBinary(q) /\ PutFile(<<x>>) = EncodeOf[x]
    BY <1>2, PutOne
  <2>4. EncodeBinary(Append(q, x)) = EncodeBinary(q) \o EncodeOf[x]
    BY EncodeAppend
  <2> QED
    BY <2>1, <2>2, <2>3, <2>4
<1>3. Seq(Byte) \subseteq G
  <2> HIDE DEF G
  <2> QED
    BY <1>1, <1>2, ListInduction
<1> QED
  BY <1>3

\* Every file of any bytes and any length is the same after it was packed, by the
\* game or by the Python library, and unpacked by either; both pack it alike, and
\* what is packed has no byte that a WML parser acts on (addon_checks.cpp:122-165,
\* campaignserver_client.py:315).
THEOREM TextSurvivesAlways == CodecSpec => []TextSurvives
<1> DEFINE Inv == text \in Seq(Byte)
<1>1. CodecInit => Inv
  BY CodecAssumption DEF CodecInit, Byte
<1>2. Inv /\ [UNCHANGED text]_text => Inv'
  OBVIOUS
<1>3. Inv => TextSurvives
  BY UnencodeEncoded, UnescapeEncoded, PutEncodes, EncodedPlain
     DEF TextSurvives, RoundTrip, EncodersAgree
<1> QED
  BY <1>1, <1>2, <1>3, PTL DEF CodecSpec

-----------------------------------------------------------------------------
(* The script and its directory *)

USE ScriptAssumption

\* Deleting frees ids, which SQLite gives out again.
KeptWhileUsed == "remove" \notin ServerActs

\* Titles are unique on the server.
TitlesApart ==
    \A i, j \in Ids :
        catalog[i] # None /\ catalog[j] # None /\ catalog[i].title = catalog[j].title
            => i = j

\* What is on the server when the script is first used has unique titles.
StartApart ==
    \A i, j \in Ids : Start[i] # None /\ Start[j] # None /\ Start[i].title = Start[j].title
                          => i = j

Downloaded == {"clear", "mkdir", "unpack", "info"}
Handled == {"delete", "redirect", "fetch"} \cup Downloaded

\* What a command holds is set where it is used.
InHand ==
    /\ cmd.pc = "idle" => cmd.todo = {}
    /\ cmd.pc \in Handled => cmd.item \in Item
    /\ cmd.pc = "fetch" => cmd.file \in Titles
    /\ cmd.pc \in Downloaded => cmd.got \in Content
    /\ cmd.pc = "unpack" => disk[Target] = [holds |-> None, info |-> None]
    /\ cmd.pc = "info" => disk[Target] = [holds |-> cmd.got, info |-> None]

Types == TypeOK /\ InHand

\* What was listed is still there, in the listed revision or a later one.
StillThere(e) == /\ catalog[e.id] # None
                 /\ catalog[e.id].title = e.title
                 /\ e.rev <= catalog[e.id].rev

\* A command works on what it listed.
Selected ==
    /\ \A e \in cmd.todo : StillThere(e)
    /\ \A e, f \in cmd.todo : e.id = f.id => e = f
    /\ cmd.pc \in {"delete", "redirect", "fetch"} =>
          /\ StillThere(cmd.item)
          /\ \A e \in cmd.todo : e.id # cmd.item.id
    /\ cmd.pc = "fetch" => cmd.file = cmd.item.title
    /\ cmd.pc \in Downloaded =>
          cmd.got.title = cmd.item.title /\ cmd.item.rev <= cmd.got.rev

IInv == Types /\ TitlesApart /\ Selected /\ InfoNotAhead

-----------------------------------------------------------------------------
(* Lemmas about the state *)

LEMMA EntryAt == ASSUME TypeOK, NEW i \in Ids, catalog[i] # None
                 PROVE  /\ catalog[i] \in Server!Entry
                        /\ catalog[i].title \in Titles
                        /\ catalog[i].rev \in 1..MaxRev
                        /\ catalog[i].ver \in Versions \cup {None}
BY DEF TypeOK, Server!TypeOK, Server!Entry

LEMMA ListingType == ASSUME TypeOK PROVE Listing \subseteq Item
<1> SUFFICES ASSUME NEW i \in Listed
             PROVE  [id |-> i, title |-> catalog[i].title, rev |-> catalog[i].rev,
                     ver |-> catalog[i].ver] \in Item
  BY DEF Listing
<1>1. i \in Ids /\ catalog[i] # None /\ catalog[i].ver # None
  BY DEF Listed
<1> QED
  BY <1>1, EntryAt DEF Item

LEMMA IdleType == Idle \in Command /\ Idle.todo = {} /\ Idle.pc = "idle"
BY DEF Idle, Command, Steps

LEMMA TargetType == ASSUME cmd.got \in Content PROVE Target \in Dirs
BY DEF Target, Content

LEMMA InitTypes == Init => Types
<1> SUFFICES ASSUME Init PROVE Types
  OBVIOUS
<1>1. Server!TypeOK
  BY DEF Init, Server!TypeOK
<1> QED
  BY <1>1, IdleType DEF Init, Types, TypeOK, InHand, Downloaded, Handled

-----------------------------------------------------------------------------
(* Type correctness *)

\* The server's changes keep the catalogue's shape.
LEMMA CatalogTypes ==
    ASSUME TypeOK, NEW i \in Ids,
           \/ \E t \in Titles, v \in Versions : Server!Create(i, t, v)
           \/ catalog[i].rev < MaxRev /\ Server!Degrade(i)
           \/ catalog[i].rev < MaxRev /\ \E v \in Versions : Server!Republish(i, v)
           \/ Server!Delete(i)
    PROVE  Server!TypeOK'
<1>1. CASE \E t \in Titles, v \in Versions : Server!Create(i, t, v)
  BY <1>1 DEF TypeOK, Server!TypeOK, Server!Create, Server!Entry
<1>2. CASE catalog[i].rev < MaxRev /\ Server!Degrade(i)
  <2>1. PICK n \in {0, 1}, v \in {None, catalog[i].ver} :
             catalog' = [catalog EXCEPT ![i].rev = @ + n, ![i].ver = v]
    BY <1>2 DEF Server!Degrade
  <2>2. catalog[i] \in Server!Entry
    BY <1>2, EntryAt DEF Server!Degrade
  <2>3. catalog[i].rev + n \in 1..MaxRev /\ v \in Versions \cup {None}
    BY <1>2, <2>2 DEF Server!Entry
  <2> QED
    BY <2>1, <2>2, <2>3 DEF TypeOK, Server!TypeOK, Server!Entry
<1>3. CASE catalog[i].rev < MaxRev /\ \E v \in Versions : Server!Republish(i, v)
  <2>1. PICK v \in Versions :
             catalog' = [catalog EXCEPT ![i].rev = @ + 1, ![i].ver = v]
    BY <1>3 DEF Server!Republish
  <2>2. catalog[i] \in Server!Entry
    BY <1>3, EntryAt DEF Server!Republish
  <2>3. catalog[i].rev + 1 \in 1..MaxRev
    BY <1>3, <2>2 DEF Server!Entry
  <2> QED
    BY <2>1, <2>2, <2>3 DEF TypeOK, Server!TypeOK, Server!Entry
<1>4. CASE Server!Delete(i)
  BY <1>4 DEF TypeOK, Server!TypeOK, Server!Delete
<1> QED
  BY <1>1, <1>2, <1>3, <1>4

LEMMA ServerTypes == ASSUME Types, ServerChanges PROVE Types'
<1>1. Server!TypeOK'
  BY CatalogTypes DEF Types, ServerChanges, Changes
<1>2. gone' \subseteq Titles
  BY EntryAt DEF Types, TypeOK, ServerChanges, Changes, Removed, Server!Delete
<1>3. cmd' = [cmd EXCEPT !.calm = FALSE] /\ disk' = disk /\ cmd \in Command
  BY DEF ServerChanges, Types, TypeOK
<1>4. /\ cmd' \in Command /\ cmd'.pc = cmd.pc /\ cmd'.todo = cmd.todo
      /\ cmd'.item = cmd.item /\ cmd'.file = cmd.file /\ cmd'.got = cmd.got
  BY <1>3 DEF Command
<1> QED
  BY <1>1, <1>2, <1>3, <1>4 DEF Types, TypeOK, InHand, Target

\* Steps that leave the add-on directories and the server alone.
LEMMA CommandTypes ==
    ASSUME Types,
           \/ \E kind \in Commands, sel \in SUBSET Dirs : Begin(kind, sel)
           \/ FetchList \/ (\E e \in Item : Pick(e)) \/ Finish \/ Exit
           \/ GetCampaign \/ FetchFile \/ Interrupt
    PROVE  Types'
<1>1. UNCHANGED <<catalog, gone, disk>>
  BY DEF Begin, FetchList, Pick, Finish, Exit, GetCampaign, FetchFile, Interrupt
<1>2. TypeOK /\ cmd \in Command
  BY DEF Types, TypeOK
<1> SUFFICES cmd' \in Command /\ InHand'
  BY <1>1 DEF Types, TypeOK, Server!TypeOK
<1>3. ASSUME NEW kind \in Commands, NEW sel \in SUBSET Dirs, Begin(kind, sel)
      PROVE  cmd' \in Command /\ InHand'
  <2>1. cmd' = [Idle EXCEPT !.pc = "list", !.kind = kind, !.sel = sel, !.calm = TRUE]
    BY <1>3 DEF Begin
  <2>2. cmd' \in Command /\ cmd'.pc = "list"
    BY <2>1, IdleType DEF Command, Steps
  <2> QED
    BY <2>2 DEF InHand, Handled, Downloaded
<1>4. ASSUME FetchList PROVE cmd' \in Command /\ InHand'
  <2>1. cmd' = [cmd EXCEPT !.pc = "pick",
                           !.todo = {e \in Listing : e.title \in cmd.sel}]
    BY <1>4 DEF FetchList
  <2>2. {e \in Listing : e.title \in cmd.sel} \subseteq Item
    BY <1>2, ListingType
  <2>3. cmd' \in Command /\ cmd'.pc = "pick"
    BY <1>2, <2>1, <2>2 DEF Command, Steps
  <2> QED
    BY <2>3 DEF InHand, Handled, Downloaded
<1>5. ASSUME NEW e \in Item, Pick(e) PROVE cmd' \in Command /\ InHand'
  <2>1. /\ cmd' \in Command /\ cmd'.item = e
        /\ cmd'.pc \in {"delete", "redirect", "pick"}
    BY <1>2, <1>5 DEF Pick, Command, Steps
  <2> QED
    BY <1>5, <2>1 DEF InHand, Handled, Downloaded
<1>6. ASSUME Finish \/ Exit \/ Interrupt PROVE cmd' \in Command /\ InHand'
  <2>1. CASE Finish
    <3>1. cmd' \in Command /\ cmd'.pc = "end"
      BY <1>2, <2>1 DEF Finish, Goto, Command, Steps
    <3> QED
      BY <3>1 DEF InHand, Handled, Downloaded
  <2>2. CASE cmd' = Idle
    BY <2>2, IdleType DEF InHand, Handled, Downloaded
  <2> QED
    BY <1>6, <2>1, <2>2 DEF Exit, Interrupt
<1>7. ASSUME GetCampaign PROVE cmd' \in Command /\ InHand'
  <2>1. cmd.item \in Item
    BY <1>7 DEF GetCampaign, At, Types, InHand, Handled
  <2>2. CASE cmd.item.id \in Listed
    <3>1. catalog[cmd.item.id].title \in Titles
      BY <1>2, <2>2, EntryAt DEF Listed
    <3>2. cmd' = [cmd EXCEPT !.pc = "fetch", !.file = catalog[cmd.item.id].title]
      BY <1>7, <2>2 DEF GetCampaign
    <3>3. /\ cmd' \in Command /\ cmd'.pc = "fetch"
          /\ cmd'.item = cmd.item /\ cmd'.file \in Titles
      BY <1>2, <3>1, <3>2 DEF Command, Steps
    <3> QED
      BY <2>1, <3>3 DEF InHand, Handled, Downloaded
  <2>3. CASE cmd.item.id \notin Listed
    <3>1. cmd' \in Command /\ cmd'.pc = "hung"
      BY <1>2, <1>7, <2>3 DEF GetCampaign, Goto, Command, Steps
    <3> QED
      BY <3>1 DEF InHand, Handled, Downloaded
  <2> QED
    BY <2>2, <2>3
<1>8. ASSUME FetchFile PROVE cmd' \in Command /\ InHand'
  <2>1. cmd.item \in Item
    BY <1>8 DEF FetchFile, At, Types, InHand, Handled
  <2>2. CASE Served(cmd.file) # {}
    <3>1. PICK c \in Served(cmd.file) : cmd' = [cmd EXCEPT !.pc = "clear", !.got = c]
      BY <1>8, <2>2 DEF FetchFile
    <3>2. c \in Content
      <4>1. PICK j \in Listed : /\ catalog[j].title = cmd.file
                                /\ c = [title |-> cmd.file, ver |-> catalog[j].ver,
                                        rev |-> catalog[j].rev]
        BY DEF Served
      <4> QED
        BY <1>2, <4>1, EntryAt DEF Listed, Content
    <3>3. /\ cmd' \in Command /\ cmd'.pc = "clear"
          /\ cmd'.item = cmd.item /\ cmd'.got = c
      BY <1>2, <3>1, <3>2 DEF Command, Steps
    <3> QED
      BY <2>1, <3>2, <3>3 DEF InHand, Handled, Downloaded
  <2>3. CASE Served(cmd.file) = {}
    <3>1. cmd' \in Command /\ cmd'.pc = "hung"
      BY <1>2, <1>8, <2>3 DEF FetchFile, Goto, Command, Steps
    <3> QED
      BY <3>1 DEF InHand, Handled, Downloaded
  <2> QED
    BY <2>2, <2>3
<1> QED
  BY <1>3, <1>4, <1>5, <1>6, <1>7, <1>8

LEMMA DeleteTypes == ASSUME Types, DeleteCampaign PROVE Types'
<1>1. cmd.item \in Item /\ cmd.item.id \in Ids
  BY DEF DeleteCampaign, At, Types, InHand, Handled, Item
<1>2. Server!TypeOK'
  BY <1>1, CatalogTypes DEF Types, TypeOK, DeleteCampaign, Server!TypeOK
<1>3. gone' \subseteq Titles
  <2>1. CASE Server!Delete(cmd.item.id) /\ Removed(cmd.item.id)
    <3>1. catalog[cmd.item.id].title \in Titles
      BY <1>1, <2>1, EntryAt DEF Types, Server!Delete
    <3> QED
      BY <2>1, <3>1 DEF Types, TypeOK, Removed
  <2>2. CASE UNCHANGED <<catalog, gone>>
    BY <2>2 DEF Types, TypeOK
  <2> QED
    BY <2>1, <2>2 DEF DeleteCampaign
<1>4. cmd' \in Command /\ cmd'.pc = "pick" /\ disk' = disk
  BY DEF DeleteCampaign, Goto, Types, TypeOK, Command, Steps
<1> QED
  BY <1>2, <1>3, <1>4 DEF Types, TypeOK, InHand, Handled, Downloaded

\* Steps that fill a directory.
LEMMA DiskTypes ==
    ASSUME Types, RemoveOld \/ MakeDir \/ UnpackDir \/ WriteInfo
    PROVE  Types'
<1>1. UNCHANGED <<catalog, gone>>
  BY DEF RemoveOld, MakeDir, UnpackDir, WriteInfo
<1>2. cmd \in Command /\ disk \in [Dirs -> Directory \cup {None}]
  BY DEF Types, TypeOK
<1>3. /\ cmd.item \in Item /\ cmd.got \in Content /\ Target \in Dirs
  BY TargetType DEF RemoveOld, MakeDir, UnpackDir, WriteInfo, At, Types, InHand,
     Handled, Downloaded
<1> SUFFICES cmd' \in Command /\ disk' \in [Dirs -> Directory \cup {None}] /\ InHand'
  BY <1>1 DEF Types, TypeOK, Server!TypeOK
<1>4. CASE RemoveOld
  <2>1. cmd' = [cmd EXCEPT !.pc = "mkdir"] /\ disk' = [disk EXCEPT ![Target] = None]
    BY <1>4 DEF RemoveOld, Goto
  <2>2. /\ cmd' \in Command /\ cmd'.pc = "mkdir"
        /\ cmd'.item = cmd.item /\ cmd'.got = cmd.got
    BY <1>2, <2>1 DEF Command, Steps
  <2> QED
    BY <1>2, <1>3, <2>1, <2>2 DEF InHand, Handled, Downloaded
<1>5. CASE MakeDir
  <2>1. /\ cmd' = [cmd EXCEPT !.pc = "unpack"]
        /\ disk' = [disk EXCEPT ![Target] = [holds |-> None, info |-> None]]
    BY <1>5 DEF MakeDir, Goto
  <2>2. /\ cmd' \in Command /\ cmd'.pc = "unpack"
        /\ cmd'.item = cmd.item /\ cmd'.got = cmd.got
    BY <1>2, <2>1 DEF Command, Steps
  <2>3. disk' \in [Dirs -> Directory \cup {None}]
    BY <1>2, <1>3, <2>1 DEF Directory
  <2> QED
    BY <1>2, <1>3, <2>1, <2>2, <2>3 DEF InHand, Handled, Downloaded, Target
<1>6. CASE UnpackDir
  <2>1. /\ cmd' = [cmd EXCEPT !.pc = "info"]
        /\ disk' = [disk EXCEPT ![Target].holds = cmd.got]
    BY <1>6 DEF UnpackDir, Goto
  <2>2. /\ cmd' \in Command /\ cmd'.pc = "info"
        /\ cmd'.item = cmd.item /\ cmd'.got = cmd.got
    BY <1>2, <2>1 DEF Command, Steps
  <2>3. disk[Target] = [holds |-> None, info |-> None]
    BY <1>6 DEF UnpackDir, At, Types, InHand
  <2>4. disk' = [disk EXCEPT ![Target] = [holds |-> cmd.got, info |-> None]]
    <3> DEFINE old == [holds |-> None, info |-> None]
    <3>1. disk' = [disk EXCEPT ![Target] = [disk[Target] EXCEPT !.holds = cmd.got]]
      BY <2>1
    <3>2. [old EXCEPT !.holds = cmd.got] = [holds |-> cmd.got, info |-> None]
      OBVIOUS
    <3> QED
      BY <2>3, <3>1, <3>2
  <2>5. disk' \in [Dirs -> Directory \cup {None}]
    BY <1>2, <1>3, <2>4 DEF Directory
  <2> QED
    BY <1>2, <1>3, <2>2, <2>4, <2>5 DEF InHand, Handled, Downloaded, Target
<1>7. CASE WriteInfo
  <2>1. /\ cmd' = [cmd EXCEPT !.pc = "pick", !.file = None, !.got = None]
        /\ disk' = [disk EXCEPT ![Target].info = [rev |-> cmd.item.rev, ver |-> cmd.item.ver]]
    BY <1>7 DEF WriteInfo
  <2>2. cmd' \in Command /\ cmd'.pc = "pick"
    BY <1>2, <2>1 DEF Command, Steps
  <2>3. disk[Target] = [holds |-> cmd.got, info |-> None]
    BY <1>7 DEF WriteInfo, At, Types, InHand
  <2>4. [rev |-> cmd.item.rev, ver |-> cmd.item.ver] \in Info
    BY <1>3 DEF Item, Info
  <2>5. disk' = [disk EXCEPT ![Target] =
                    [holds |-> cmd.got, info |-> [rev |-> cmd.item.rev, ver |-> cmd.item.ver]]]
    <3> DEFINE old == [holds |-> cmd.got, info |-> None]
               new == [rev |-> cmd.item.rev, ver |-> cmd.item.ver]
    <3>1. disk' = [disk EXCEPT ![Target] = [disk[Target] EXCEPT !.info = new]]
      BY <2>1
    <3>2. [old EXCEPT !.info = new] = [holds |-> cmd.got, info |-> new]
      OBVIOUS
    <3> QED
      BY <2>3, <3>1, <3>2
  <2>6. disk' \in [Dirs -> Directory \cup {None}]
    BY <1>2, <1>3, <2>4, <2>5 DEF Directory
  <2> QED
    BY <2>2, <2>6 DEF InHand, Handled, Downloaded
<1> QED
  BY <1>4, <1>5, <1>6, <1>7

LEMMA NextTypes == Types /\ [Next]_vars => Types'
<1> SUFFICES ASSUME Types, [Next]_vars PROVE Types'
  OBVIOUS
<1>1. CASE UNCHANGED vars
  BY <1>1 DEF vars, Types, TypeOK, Server!TypeOK, InHand, Target
<1>2. CASE Next
  BY <1>2, ServerTypes, CommandTypes, DeleteTypes, DiskTypes DEF Next, Script, User
<1> QED
  BY <1>1, <1>2

LEMMA AlwaysTypes == Spec => []Types
<1>1. Init => Types
  BY InitTypes
<1>2. Types /\ [Next]_vars => Types'
  BY NextTypes
<1> QED
  BY <1>1, <1>2, PTL DEF Spec

\* The variables keep their types, and each step finds what it uses
\* (wesnoth_addon_manager.py:106).
THEOREM ScriptTypeCorrect == Spec => []TypeOK
<1>1. Types => TypeOK
  BY DEF Types
<1> QED
  BY <1>1, AlwaysTypes, PTL

-----------------------------------------------------------------------------
(* What was listed *)

LEMMA InitIInv == StartApart /\ Init => IInv
BY InitTypes, IdleType DEF Init, IInv, StartApart, TitlesApart, Selected,
   InfoNotAhead, Downloaded

\* Entries that are not deleted stay, keep their titles, and their revisions grow.
LEMMA CatalogGrows ==
    ASSUME TypeOK, NEW i \in Ids,
           \/ \E t \in Titles, v \in Versions : Server!Create(i, t, v)
           \/ catalog[i].rev < MaxRev /\ Server!Degrade(i)
           \/ catalog[i].rev < MaxRev /\ \E v \in Versions : Server!Republish(i, v)
    PROVE  \A k \in Ids : catalog[k] # None =>
              /\ catalog'[k] # None
              /\ catalog'[k].title = catalog[k].title
              /\ catalog[k].rev <= catalog'[k].rev
              /\ k # i => catalog'[k] = catalog[k]
<1>1. catalog \in [Ids -> Server!Entry \cup {None}]
  BY DEF TypeOK, Server!TypeOK
<1> SUFFICES ASSUME NEW k \in Ids, catalog[k] # None
             PROVE  /\ catalog'[k] # None
                    /\ catalog'[k].title = catalog[k].title
                    /\ catalog[k].rev <= catalog'[k].rev
                    /\ k # i => catalog'[k] = catalog[k]
  OBVIOUS
<1>2. catalog[k] \in Server!Entry /\ catalog[k].rev \in Nat
  BY EntryAt
<1>3. CASE \E t \in Titles, v \in Versions : Server!Create(i, t, v)
  BY <1>1, <1>2, <1>3 DEF Server!Create
<1>4. CASE catalog[i].rev < MaxRev /\ Server!Degrade(i)
  <2>1. PICK n \in {0, 1}, v \in {None, catalog[i].ver} :
             catalog' = [catalog EXCEPT ![i].rev = @ + n, ![i].ver = v]
    BY <1>4 DEF Server!Degrade
  <2>2. CASE k = i
    <3>1. catalog[k].rev + n \in 1..MaxRev /\ v \in Versions \cup {None}
      BY <1>2, <1>4, <2>2 DEF Server!Entry
    <3>2. catalog'[k] \in Server!Entry
      BY <1>1, <1>2, <2>1, <2>2, <3>1 DEF Server!Entry
    <3>3. /\ catalog'[k].title = catalog[k].title
          /\ catalog'[k].rev = catalog[k].rev + n
      BY <1>1, <1>2, <2>1, <2>2 DEF Server!Entry
    <3> QED
      BY <1>2, <2>2, <3>2, <3>3
  <2>3. CASE k # i
    BY <1>1, <1>2, <2>1, <2>3
  <2> QED
    BY <2>2, <2>3
<1>5. CASE catalog[i].rev < MaxRev /\ \E v \in Versions : Server!Republish(i, v)
  <2>1. PICK v \in Versions :
             catalog' = [catalog EXCEPT ![i].rev = @ + 1, ![i].ver = v]
    BY <1>5 DEF Server!Republish
  <2>2. CASE k = i
    <3>1. catalog[k].rev + 1 \in 1..MaxRev
      BY <1>2, <1>5, <2>2 DEF Server!Entry
    <3>2. catalog'[k] \in Server!Entry
      BY <1>1, <1>2, <2>1, <2>2, <3>1 DEF Server!Entry
    <3>3. /\ catalog'[k].title = catalog[k].title
          /\ catalog'[k].rev = catalog[k].rev + 1
      BY <1>1, <1>2, <2>1, <2>2 DEF Server!Entry
    <3> QED
      BY <1>2, <2>2, <3>2, <3>3
  <2>3. CASE k # i
    BY <1>1, <1>2, <2>1, <2>3
  <2> QED
    BY <2>2, <2>3
<1> QED
  BY <1>3, <1>4, <1>5

\* Titles stay unique.
LEMMA TitlesStayApart ==
    ASSUME TypeOK, TitlesApart, NEW i \in Ids,
           \/ \E t \in Titles, v \in Versions : Server!Create(i, t, v)
           \/ catalog[i].rev < MaxRev /\ Server!Degrade(i)
           \/ catalog[i].rev < MaxRev /\ \E v \in Versions : Server!Republish(i, v)
           \/ Server!Delete(i)
    PROVE  TitlesApart'
<1>1. catalog \in [Ids -> Server!Entry \cup {None}]
  BY DEF TypeOK, Server!TypeOK
<1>2. CASE Server!Delete(i)
  BY <1>1, <1>2 DEF Server!Delete, TitlesApart
<1>3. CASE /\ catalog[i].rev < MaxRev
           /\ Server!Degrade(i) \/ \E v \in Versions : Server!Republish(i, v)
  <2>1. catalog[i] # None
    BY <1>3 DEF Server!Degrade, Server!Republish
  <2>2. \A k \in Ids : k # i => catalog'[k] = catalog[k]
    BY <1>1, <1>3 DEF Server!Degrade, Server!Republish
  <2>3. catalog'[i].title = catalog[i].title
    BY <1>3, <2>1, CatalogGrows
  <2> QED
    BY <2>1, <2>2, <2>3 DEF TitlesApart
<1>4. CASE \E t \in Titles, v \in Versions : Server!Create(i, t, v)
  <2>1. PICK t \in Titles, v \in Versions : Server!Create(i, t, v)
    BY <1>4
  <2>2. \A k \in Ids : catalog[k] # None => catalog[k].title # t
    BY <2>1 DEF Server!Create, Server!Taken
  <2>3. /\ catalog'[i].title = t
        /\ \A k \in Ids : k # i => catalog'[k] = catalog[k]
    BY <1>1, <2>1 DEF Server!Create
  <2> QED
    BY <2>2, <2>3 DEF TitlesApart
<1> QED
  BY <1>2, <1>3, <1>4

LEMMA ServerKeeps == ASSUME KeptWhileUsed, IInv, ServerChanges PROVE IInv'
<1>1. Types' /\ Types /\ TypeOK
  BY ServerTypes DEF IInv, Types
<1>2. /\ cmd'.pc = cmd.pc /\ cmd'.todo = cmd.todo /\ cmd'.item = cmd.item
      /\ cmd'.file = cmd.file /\ cmd'.got = cmd.got /\ disk' = disk
  BY <1>1 DEF ServerChanges, TypeOK, Command
<1>3. InfoNotAhead'
  BY <1>2 DEF IInv, InfoNotAhead
<1>4. PICK i \in Ids :
           \/ \E t \in Titles, v \in Versions : Server!Create(i, t, v)
           \/ catalog[i].rev < MaxRev /\ Server!Degrade(i)
           \/ catalog[i].rev < MaxRev /\ \E v \in Versions : Server!Republish(i, v)
           \/ Server!Delete(i) /\ cmd.pc = "idle"
  BY DEF ServerChanges, Changes, KeptWhileUsed, At
<1>5. TitlesApart'
  BY <1>1, <1>4, TitlesStayApart DEF IInv
<1>6. CASE cmd.pc = "idle"
  BY <1>1, <1>2, <1>3, <1>5, <1>6 DEF IInv, Types, InHand, Selected, Downloaded
<1>7. CASE ~ Server!Delete(i) \/ cmd.pc # "idle"
  <2>1. \/ \E t \in Titles, v \in Versions : Server!Create(i, t, v)
        \/ catalog[i].rev < MaxRev /\ Server!Degrade(i)
        \/ catalog[i].rev < MaxRev /\ \E v \in Versions : Server!Republish(i, v)
    BY <1>4, <1>7
  <2>2. \A e \in Item : StillThere(e) => StillThere(e)'
    <3> SUFFICES ASSUME NEW e \in Item, StillThere(e) PROVE StillThere(e)'
      OBVIOUS
    <3>1. e.id \in Ids /\ e.rev \in Nat /\ catalog[e.id] # None
      BY DEF Item, StillThere
    <3>2. /\ catalog'[e.id] # None /\ catalog'[e.id].title = catalog[e.id].title
          /\ catalog[e.id].rev <= catalog'[e.id].rev
      BY <1>1, <2>1, <3>1, CatalogGrows
    <3>3. Server!TypeOK'
      BY <1>1 DEF Types, TypeOK
    <3>4. catalog[e.id].rev \in Nat /\ catalog'[e.id].rev \in Nat
      <4>1. catalog[e.id] \in Server!Entry
        BY <1>1, <3>1, EntryAt
      <4>2. catalog'[e.id] \in Server!Entry
        <5>1. catalog' \in [Ids -> Server!Entry \cup {None}]
          BY <3>3 DEF Server!TypeOK
        <5> QED
          BY <3>1, <3>2, <5>1
      <4> QED
        BY <4>1, <4>2 DEF Server!Entry
    <3> QED
      BY <3>1, <3>2, <3>4 DEF StillThere
  <2>3. cmd.todo \subseteq Item /\ (cmd.pc \in Handled => cmd.item \in Item)
    BY <1>1 DEF Types, TypeOK, Command, InHand
  <2>4. Selected'
    BY <1>2, <2>2, <2>3 DEF IInv, Selected, Handled
  <2> QED
    BY <1>1, <1>3, <1>5, <2>4 DEF IInv
<1> QED
  BY <1>6, <1>7

LEMMA CommandKeeps ==
    ASSUME IInv,
           \/ \E kind \in Commands, sel \in SUBSET Dirs : Begin(kind, sel)
           \/ FetchList \/ (\E e \in Item : Pick(e)) \/ Finish \/ Exit
           \/ GetCampaign \/ FetchFile \/ Interrupt
    PROVE  IInv'
<1>1. UNCHANGED <<catalog, gone, disk>>
  BY DEF Begin, FetchList, Pick, Finish, Exit, GetCampaign, FetchFile, Interrupt
<1>2. Types' /\ Types /\ TypeOK /\ cmd \in Command
  BY CommandTypes DEF IInv, Types, TypeOK
<1>3. InfoNotAhead' /\ TitlesApart'
  BY <1>1 DEF IInv, InfoNotAhead, TitlesApart
<1>4. \A e : StillThere(e)' <=> StillThere(e)
  BY <1>1 DEF StillThere
<1> SUFFICES Selected'
  BY <1>2, <1>3 DEF IInv
<1>5. CASE cmd'.todo = {} /\ cmd'.pc \in {"list", "idle"}
  BY <1>5 DEF Selected, Downloaded
<1>6. ASSUME NEW kind \in Commands, NEW sel \in SUBSET Dirs, Begin(kind, sel)
      PROVE  Selected'
  <2>1. cmd' = [Idle EXCEPT !.pc = "list", !.kind = kind, !.sel = sel, !.calm = TRUE]
    BY <1>6 DEF Begin
  <2> QED
    BY <1>5, <2>1, IdleType DEF Command
<1>7. CASE Exit \/ Interrupt
  BY <1>5, <1>7, IdleType DEF Exit, Interrupt
<1>8. CASE cmd'.todo = cmd.todo /\ cmd'.pc \in {"end", "hung"}
  BY <1>4, <1>8 DEF IInv, Selected, Downloaded
<1>9. CASE Finish
  BY <1>2, <1>8, <1>9 DEF Finish, Goto, Command
<1>10. CASE FetchList
  <2>1. /\ cmd'.pc = "pick" /\ cmd'.todo \subseteq Listing
    BY <1>2, <1>10 DEF FetchList, Command
  <2>2. \A e \in Listing : StillThere(e)
    <3> SUFFICES ASSUME NEW k \in Listed
                 PROVE  StillThere([id |-> k, title |-> catalog[k].title,
                                    rev |-> catalog[k].rev, ver |-> catalog[k].ver])
      BY DEF Listing
    <3>1. catalog[k] # None /\ catalog[k].rev \in Nat
      BY <1>2, EntryAt DEF Listed
    <3> QED
      BY <3>1 DEF StillThere
  <2>3. \A e, f \in Listing : e.id = f.id => e = f
    BY DEF Listing
  <2> QED
    BY <1>4, <2>1, <2>2, <2>3 DEF Selected, Downloaded
<1>11. ASSUME NEW e \in Item, Pick(e) PROVE Selected'
  <2>1. /\ e \in cmd.todo /\ cmd'.todo = cmd.todo \ {e} /\ cmd'.item = e
        /\ cmd'.pc \in {"delete", "redirect", "pick"}
    BY <1>2, <1>11 DEF Pick, Command
  <2> QED
    BY <1>4, <2>1 DEF IInv, Selected, Downloaded
<1>12. CASE GetCampaign
  <2>1. cmd.pc = "redirect" /\ StillThere(cmd.item)
    BY <1>12 DEF GetCampaign, At, IInv, Selected
  <2>2. CASE cmd.item.id \in Listed
    <3>1. /\ cmd'.pc = "fetch" /\ cmd'.file = catalog[cmd.item.id].title
          /\ cmd'.item = cmd.item /\ cmd'.todo = cmd.todo
      BY <1>2, <1>12, <2>2 DEF GetCampaign, Command
    <3> QED
      BY <1>4, <2>1, <3>1 DEF IInv, Selected, StillThere, Downloaded
  <2>3. CASE cmd.item.id \notin Listed
    BY <1>2, <1>8, <1>12, <2>3 DEF GetCampaign, Goto, Command
  <2> QED
    BY <2>2, <2>3
<1>13. CASE FetchFile
  <2>1. cmd.pc = "fetch" /\ StillThere(cmd.item) /\ cmd.file = cmd.item.title
    BY <1>13 DEF FetchFile, At, IInv, Selected
  <2>2. CASE Served(cmd.file) # {}
    <3>1. PICK c \in Served(cmd.file) : cmd' = [cmd EXCEPT !.pc = "clear", !.got = c]
      BY <1>13, <2>2 DEF FetchFile
    <3>2. PICK j \in Listed : /\ catalog[j].title = cmd.file
                              /\ c = [title |-> cmd.file, ver |-> catalog[j].ver,
                                      rev |-> catalog[j].rev]
      BY DEF Served
    <3>3. cmd.item.id \in Ids
      BY <1>2, <2>1 DEF Types, InHand, Handled, Item
    <3>4. j = cmd.item.id
      BY <2>1, <3>2, <3>3 DEF IInv, TitlesApart, StillThere, Listed
    <3>5. c.title = cmd.item.title /\ cmd.item.rev <= c.rev
      BY <2>1, <3>2, <3>4 DEF StillThere
    <3>6. /\ cmd'.pc = "clear" /\ cmd'.got = c
          /\ cmd'.item = cmd.item /\ cmd'.todo = cmd.todo
      BY <1>2, <3>1 DEF Command
    <3> QED
      BY <1>4, <3>5, <3>6 DEF IInv, Selected
  <2>3. CASE Served(cmd.file) = {}
    BY <1>2, <1>8, <1>13, <2>3 DEF FetchFile, Goto, Command
  <2> QED
    BY <2>2, <2>3
<1> QED
  BY <1>6, <1>7, <1>9, <1>10, <1>11, <1>12, <1>13

LEMMA DeleteKeeps == ASSUME IInv, DeleteCampaign PROVE IInv'
<1>1. Types' /\ Types /\ TypeOK /\ cmd \in Command
  BY DeleteTypes DEF IInv, Types, TypeOK
<1>2. /\ cmd.pc = "delete" /\ cmd'.pc = "pick" /\ cmd'.todo = cmd.todo /\ disk' = disk
      /\ cmd.item.id \in Ids
  BY <1>1 DEF DeleteCampaign, Goto, At, Command, Types, InHand, Handled, Item
<1>3. \A k \in Ids : k # cmd.item.id => catalog'[k] = catalog[k]
  BY <1>1, <1>2 DEF DeleteCampaign, Server!Delete, TypeOK, Server!TypeOK
<1>4. TitlesApart'
  <2>1. CASE Server!Delete(cmd.item.id)
    BY <1>1, <1>2, <2>1, TitlesStayApart DEF IInv
  <2>2. CASE UNCHANGED catalog
    BY <2>2 DEF IInv, TitlesApart
  <2> QED
    BY <2>1, <2>2 DEF DeleteCampaign
<1>5. \A e \in cmd.todo : StillThere(e)'
  <2> SUFFICES ASSUME NEW e \in cmd.todo PROVE StillThere(e)'
    OBVIOUS
  <2>1. e.id \in Ids /\ e.id # cmd.item.id /\ StillThere(e)
    BY <1>1, <1>2 DEF IInv, Selected, Command, Item
  <2> QED
    BY <1>3, <2>1 DEF StillThere
<1>6. Selected'
  BY <1>2, <1>5 DEF IInv, Selected, Downloaded
<1> QED
  BY <1>1, <1>2, <1>4, <1>6 DEF IInv, InfoNotAhead

LEMMA DiskKeeps == ASSUME IInv, RemoveOld \/ MakeDir \/ UnpackDir \/ WriteInfo PROVE IInv'
<1>1. Types' /\ Types
  BY DiskTypes DEF IInv
<1>2. catalog' = catalog /\ TitlesApart'
  BY DEF RemoveOld, MakeDir, UnpackDir, WriteInfo, IInv, TitlesApart
<1>3. \A e : StillThere(e)' <=> StillThere(e)
  BY <1>2 DEF StillThere
<1>4. /\ cmd \in Command /\ cmd.pc \in Downloaded /\ cmd.item \in Item /\ cmd.got \in Content
      /\ Target \in Dirs /\ disk \in [Dirs -> Directory \cup {None}]
  BY <1>1, TargetType DEF RemoveOld, MakeDir, UnpackDir, WriteInfo, At, Types, TypeOK,
     InHand, Handled, Downloaded
<1>5. cmd.got # None /\ cmd.item.rev <= cmd.got.rev
  BY <1>4 DEF IInv, Selected
<1>6. /\ cmd'.todo = cmd.todo
      /\ cmd'.pc \in {"mkdir", "unpack", "info"} => cmd'.item = cmd.item /\ cmd'.got = cmd.got
      /\ cmd'.pc \in {"mkdir", "unpack", "info", "pick"}
  BY <1>4 DEF RemoveOld, MakeDir, UnpackDir, WriteInfo, Goto, Command
<1>7. Selected'
  BY <1>3, <1>4, <1>6 DEF IInv, Selected, Downloaded
<1>8. \A d \in Dirs : d # Target => disk'[d] = disk[d]
  BY <1>4 DEF RemoveOld, MakeDir, UnpackDir, WriteInfo
<1>9. disk'[Target] # None /\ disk'[Target].info # None =>
         disk'[Target].holds # None /\ disk'[Target].info.rev <= disk'[Target].holds.rev
  <2>1. CASE RemoveOld
    BY <1>4, <2>1 DEF RemoveOld
  <2>2. CASE MakeDir
    BY <1>4, <2>2 DEF MakeDir
  <2>3. CASE UnpackDir
    <3>1. cmd'.pc = "info" /\ cmd'.got = cmd.got
      BY <1>4, <2>3 DEF UnpackDir, Goto, Command
    <3>2. disk'[Target] = [holds |-> cmd.got, info |-> None]
      BY <1>1, <3>1 DEF Types, InHand, Target
    <3> QED
      BY <3>2
  <2>4. CASE WriteInfo
    <3> DEFINE old == [holds |-> cmd.got, info |-> None]
               new == [rev |-> cmd.item.rev, ver |-> cmd.item.ver]
    <3>1. disk[Target] = old
      BY <1>1, <2>4 DEF WriteInfo, At, Types, InHand
    <3>2. disk'[Target] = [disk[Target] EXCEPT !.info = new]
      BY <1>4, <2>4 DEF WriteInfo
    <3>3. [old EXCEPT !.info = new].holds = cmd.got /\ [old EXCEPT !.info = new].info = new
      OBVIOUS
    <3>4. disk'[Target].holds = cmd.got /\ disk'[Target].info = new
      BY <3>1, <3>2, <3>3
    <3> QED
      BY <1>5, <3>4
  <2> QED
    BY <2>1, <2>2, <2>3, <2>4
<1>10. InfoNotAhead'
  BY <1>8, <1>9 DEF IInv, InfoNotAhead
<1> QED
  BY <1>1, <1>2, <1>7, <1>10 DEF IInv

LEMMA NextIInv == KeptWhileUsed /\ IInv /\ [Next]_vars => IInv'
<1> SUFFICES ASSUME KeptWhileUsed, IInv, [Next]_vars PROVE IInv'
  OBVIOUS
<1>1. CASE UNCHANGED vars
  <2>1. Types'
    BY <1>1, NextTypes DEF IInv
  <2> QED
    BY <1>1, <2>1 DEF vars, IInv, TitlesApart, Selected, StillThere, InfoNotAhead
<1>2. CASE Next
  BY <1>2, ServerKeeps, CommandKeeps, DeleteKeeps, DiskKeeps DEF Next, Script, User
<1> QED
  BY <1>1, <1>2

-----------------------------------------------------------------------------
(* The theorems *)

LEMMA AlwaysIInv == ASSUME KeptWhileUsed, StartApart PROVE Spec => []IInv
<1>1. Init => IInv
  BY InitIInv
<1>2. IInv /\ [Next]_vars => IInv'
  BY NextIInv
<1> QED
  BY <1>1, <1>2, PTL DEF Spec

\* No _info.cfg claims a later revision than its add-on's files have, however
\* commands are interrupted and whatever is published between the list and the
\* download (wesnoth_addon_manager.py:123, campaignserver_client.py:263).
THEOREM InfoNotAheadAlways ==
    ASSUME KeptWhileUsed, StartApart PROVE Spec => []InfoNotAhead
<1>1. IInv => InfoNotAhead
  BY DEF IInv
<1> QED
  BY <1>1, AlwaysIInv, PTL

\* A step changes only the add-on in hand, in its directory and on the server.
LEMMA StepsActOnNamed ==
    ASSUME IInv, [Next]_vars
    PROVE  /\ \A d \in Dirs : disk'[d] # disk[d] => d = DirOf[cmd.item.title]
           /\ At("delete") /\ DeleteCampaign =>
                \A i \in Ids : catalog'[i] # catalog[i]
                    => catalog[i].title = cmd.item.title
<1>1. TypeOK /\ Types
  BY DEF IInv, Types
<1>2. ASSUME NEW d \in Dirs, disk'[d] # disk[d] PROVE d = DirOf[cmd.item.title]
  <2>1. RemoveOld \/ MakeDir \/ UnpackDir \/ WriteInfo
    BY <1>2 DEF vars, Next, Script, User, ServerChanges, Begin, FetchList, Pick, Finish,
       Exit, DeleteCampaign, GetCampaign, FetchFile, Interrupt
  <2>2. cmd.pc \in Downloaded
    BY <2>1 DEF RemoveOld, MakeDir, UnpackDir, WriteInfo, At, Downloaded
  <2>3. cmd.got.title = cmd.item.title /\ Target \in Dirs
    BY <1>1, <2>2, TargetType DEF IInv, Selected, Types, InHand
  <2>4. d = Target
    BY <1>1, <1>2, <2>1, <2>3 DEF RemoveOld, MakeDir, UnpackDir, WriteInfo, TypeOK
  <2> QED
    BY <2>3, <2>4 DEF Target
<1>3. ASSUME At("delete"), DeleteCampaign, NEW i \in Ids, catalog'[i] # catalog[i]
      PROVE  catalog[i].title = cmd.item.title
  <2>1. i = cmd.item.id
    BY <1>1, <1>3 DEF DeleteCampaign, Server!Delete, TypeOK, Server!TypeOK
  <2> QED
    BY <1>3, <2>1 DEF At, IInv, Selected, StillThere
<1> QED
  BY <1>2, <1>3

\* A command changes no other add-on than the one it took from its list, on disk
\* or on the server (wesnoth_addon_manager.py:270, campaignserver_client.py:245).
THEOREM ActsOnNamedAlways ==
    ASSUME KeptWhileUsed, StartApart PROVE Spec => ActsOnNamed
<1>1. IInv /\ [Next]_vars =>
        [/\ \A d \in Dirs : disk'[d] # disk[d] => d = DirOf[cmd.item.title]
         /\ At("delete") /\ DeleteCampaign =>
              \A i \in Ids : catalog'[i] # catalog[i]
                  => catalog[i].title = cmd.item.title]_vars
  BY StepsActOnNamed
<1> QED
  BY <1>1, AlwaysIInv, PTL DEF Spec, ActsOnNamed

-----------------------------------------------------------------------------
(* Updates *)

\* A title that went from the server is not published again.
NoneAgain == "again" \notin ServerActs

\* Revisions compare as text the way they compare as numbers.
OneDigit == MaxRev < 10

\* Every add-on was published from a directory of its title.
NamedAlike == \A t \in Titles : DirOf[t] = t

ContentOf(e) == [title |-> e.title, ver |-> e.ver, rev |-> e.rev]
Has(e) == disk[e.title] # None /\ disk[e.title].holds = ContentOf(e)

\* What was downloaded once is not newer than the server, and of the server's
\* version if it is of the server's revision.
NotNewer(c) ==
    /\ c.title \in gone \/ \E i \in Ids : catalog[i] # None /\ catalog[i].title = c.title
    /\ \A i \in Ids : catalog[i] # None /\ catalog[i].title = c.title =>
          /\ c.rev <= catalog[i].rev
          /\ c.rev = catalog[i].rev /\ catalog[i].ver # None => c.ver = catalog[i].ver

\* Directories hold what was downloaded for them.
Genuine ==
    /\ \A d \in Dirs : disk[d] # None /\ disk[d].holds # None =>
          disk[d].holds.title = d /\ NotNewer(disk[d].holds)
    /\ cmd.pc \in Downloaded => NotNewer(cmd.got)

\* While the server stays as it was, an update has done, has in hand or has still
\* to do each add-on that it selected.
Converging ==
    cmd.kind = "update" /\ cmd.calm /\ cmd.pc \in Handled \cup {"pick", "end"} =>
        /\ cmd.pc # "delete"
        /\ cmd.pc = "end" => cmd.todo = {}
        /\ cmd.todo \subseteq Listing
        /\ cmd.pc \in Handled => cmd.item \in Listing
        /\ cmd.pc \in Downloaded => cmd.got = ContentOf(cmd.item)
        /\ \A e \in Listing : e.title \in cmd.sel =>
              e \in cmd.todo \/ (cmd.pc \in Handled /\ e = cmd.item) \/ Has(e)

UInv == IInv /\ Genuine /\ Converging

LEMMA HeldType ==
    ASSUME TypeOK, NEW d \in Dirs, disk[d] # None, disk[d].holds # None
    PROVE  disk[d].holds \in Content
BY DEF TypeOK, Directory

LEMMA ListingEntry ==
    ASSUME TypeOK, NEW e \in Listing
    PROVE  /\ e \in Item /\ e.id \in Ids /\ catalog[e.id] # None /\ catalog[e.id].ver # None
           /\ e.title = catalog[e.id].title /\ e.rev = catalog[e.id].rev
           /\ e.ver = catalog[e.id].ver
<1>1. PICK i \in Listed : e = [id |-> i, title |-> catalog[i].title,
                               rev |-> catalog[i].rev, ver |-> catalog[i].ver]
  BY DEF Listing
<1> QED
  BY <1>1, ListingType DEF Listed

\* The server's changes make nothing that was downloaded newer.
LEMMA ChangesNotNewer ==
    ASSUME TypeOK, NoneAgain, ServerChanges, NEW c \in Content, NotNewer(c)
    PROVE  NotNewer(c)'
<1>1. catalog \in [Ids -> Server!Entry \cup {None}]
  BY DEF TypeOK, Server!TypeOK
<1>2. PICK i \in Ids :
        \/ /\ \E t \in Titles, v \in Versions : t \notin gone /\ Server!Create(i, t, v)
           /\ gone' = gone
        \/ /\ catalog[i].rev < MaxRev
           /\ Server!Degrade(i) \/ \E v \in Versions : Server!Republish(i, v)
           /\ gone' = gone
        \/ Server!Delete(i) /\ Removed(i)
  BY DEF ServerChanges, Changes, NoneAgain
<1>3. c.rev \in Nat /\ c.title \in Titles
  BY DEF Content
<1>4. CASE Server!Delete(i) /\ Removed(i)
  <2>1. catalog'[i] = None /\ \A k \in Ids \ {i} : catalog'[k] = catalog[k]
    BY <1>1, <1>4 DEF Server!Delete
  <2>2. gone' = gone \cup {catalog[i].title}
    BY <1>4 DEF Removed
  <2> QED
    BY <2>1, <2>2 DEF NotNewer
<1>5. CASE gone' = gone /\ \E t \in Titles, v \in Versions :
                               t \notin gone /\ Server!Create(i, t, v)
  <2>1. PICK t \in Titles, v \in Versions : t \notin gone /\ Server!Create(i, t, v)
    BY <1>5
  <2>2. /\ catalog[i] = None /\ \A k \in Ids : catalog[k] # None => catalog[k].title # t
        /\ catalog' = [catalog EXCEPT ![i] = [title |-> t, rev |-> 1, ver |-> v]]
    BY <2>1 DEF Server!Create, Server!Taken
  <2>3. /\ catalog'[i].title = t /\ \A k \in Ids \ {i} : catalog'[k] = catalog[k]
    BY <1>1, <2>2
  <2>4. c.title # t
    BY <2>1, <2>2 DEF NotNewer
  <2> QED
    BY <1>5, <2>2, <2>3, <2>4 DEF NotNewer
<1>6. CASE /\ gone' = gone /\ catalog[i].rev < MaxRev
           /\ Server!Degrade(i) \/ \E v \in Versions : Server!Republish(i, v)
  <2>1. catalog[i] # None
    BY <1>6 DEF Server!Degrade, Server!Republish
  <2>2. \A k \in Ids \ {i} : catalog'[k] = catalog[k]
    BY <1>1, <1>6 DEF Server!Degrade, Server!Republish
  <2>3. catalog'[i] # None /\ catalog'[i].title = catalog[i].title
    BY <1>6, <2>1, CatalogGrows
  <2>4. /\ catalog[i] \in [title : Titles, rev : 1..MaxRev, ver : Versions \cup {None}]
        /\ catalog[i].rev \in Nat
    BY <2>1, EntryAt DEF Server!Entry
  <2>5. \/ catalog'[i].rev = catalog[i].rev + 1
        \/ catalog'[i].rev = catalog[i].rev /\ catalog'[i].ver \in {None, catalog[i].ver}
    <3>1. ASSUME NEW n \in {0, 1}, NEW v,
                 catalog' = [catalog EXCEPT ![i].rev = @ + n, ![i].ver = v]
          PROVE  catalog'[i].rev = catalog[i].rev + n /\ catalog'[i].ver = v
      BY <1>1, <2>4, <3>1
    <3>2. CASE Server!Degrade(i)
      <4>1. PICK n \in {0, 1}, v \in {None, catalog[i].ver} :
                 catalog' = [catalog EXCEPT ![i].rev = @ + n, ![i].ver = v]
        BY <3>2 DEF Server!Degrade
      <4>2. catalog'[i].rev = catalog[i].rev + n /\ catalog'[i].ver = v
        BY <3>1, <4>1
      <4> QED
        BY <2>4, <4>2
    <3>3. CASE \E v \in Versions : Server!Republish(i, v)
      BY <3>1, <3>3 DEF Server!Republish
    <3> QED
      BY <1>6, <3>2, <3>3
  <2>6. c.title \in gone' \/ \E k \in Ids : catalog'[k] # None /\ catalog'[k].title = c.title
    BY <1>6, <2>1, <2>2, <2>3 DEF NotNewer
  <2>7. ASSUME catalog[i].title = c.title
        PROVE  /\ c.rev <= catalog'[i].rev
               /\ c.rev = catalog'[i].rev /\ catalog'[i].ver # None => c.ver = catalog'[i].ver
    BY <1>3, <2>1, <2>4, <2>5, <2>7 DEF NotNewer
  <2> QED
    BY <2>1, <2>2, <2>3, <2>6, <2>7 DEF NotNewer
<1> QED
  BY <1>2, <1>4, <1>5, <1>6

\* An add-on that an update leaves alone is the server's.
LEMMA UnwantedHas ==
    ASSUME OneDigit, IInv, Genuine, NEW e \in Listing, ~Wanted(e)
    PROVE  Has(e)
<1>1. TypeOK
  BY DEF IInv, Types
<1>2. /\ e \in Item /\ e.id \in Ids /\ catalog[e.id] # None /\ catalog[e.id].ver # None
      /\ e.title = catalog[e.id].title /\ e.rev = catalog[e.id].rev
      /\ e.ver = catalog[e.id].ver
  BY <1>1, ListingEntry
<1>3. e.title \in Dirs /\ e.rev \in 1..9
  BY <1>2 DEF Item, OneDigit
<1>4. disk[e.title] # None /\ disk[e.title].info # None
  BY DEF Wanted
<1> DEFINE info == disk[e.title].info
           held == disk[e.title].holds
<1>5. info.rev \in 1..9
  <2>1. disk[e.title] \in Directory
    BY <1>1, <1>3, <1>4 DEF TypeOK
  <2>2. info \in Info
    BY <1>4, <2>1 DEF Directory
  <2> QED
    BY <2>2 DEF Info, OneDigit
<1>6. info.rev = e.rev \/ (info.ver = e.ver /\ ~TextGreater(e.rev, info.rev))
  BY <1>4 DEF Wanted
<1>7. held # None /\ info.rev <= held.rev
  BY <1>3, <1>4 DEF IInv, InfoNotAhead
<1>8. held \in Content /\ held.title = e.title /\ NotNewer(held)
  BY <1>1, <1>3, <1>4, <1>7, HeldType DEF Genuine
<1> HIDE DEF info, held
<1>9. held.rev <= e.rev /\ (held.rev = e.rev => held.ver = e.ver)
  BY <1>2, <1>8 DEF NotNewer
<1>10. held.rev \in Nat
  BY <1>8 DEF Content
<1>11. e.rev > info.rev => TextGreater(e.rev, info.rev)
  BY <1>3, <1>5 DEF TextGreater, Leading
<1>12. held.rev = e.rev /\ held.ver = e.ver
  BY <1>3, <1>5, <1>6, <1>7, <1>9, <1>10, <1>11
<1>13. held = ContentOf(e)
  BY <1>8, <1>12 DEF Content, ContentOf
<1> QED
  BY <1>4, <1>13 DEF Has, held

LEMMA ServerGenuine ==
    ASSUME KeptWhileUsed, NoneAgain, UInv, ServerChanges PROVE Genuine' /\ Converging'
<1>1. TypeOK /\ Types
  BY DEF UInv, IInv, Types
<1>2. /\ cmd'.pc = cmd.pc /\ cmd'.got = cmd.got /\ cmd'.calm = FALSE /\ disk' = disk
  BY <1>1 DEF ServerChanges, TypeOK, Command
<1>3. ASSUME NEW d \in Dirs, disk'[d] # None, disk'[d].holds # None
      PROVE  disk'[d].holds.title = d /\ NotNewer(disk[d].holds)'
  BY <1>1, <1>2, <1>3, HeldType, ChangesNotNewer DEF UInv, Genuine, NotNewer
<1>4. ASSUME cmd'.pc \in Downloaded PROVE NotNewer(cmd.got)'
  <2>1. cmd.got \in Content /\ NotNewer(cmd.got)
    BY <1>1, <1>2, <1>4 DEF UInv, Genuine, Types, InHand
  <2> QED
    BY <1>1, <2>1, <1>2, ChangesNotNewer DEF NotNewer
<1>5. Genuine'
  BY <1>2, <1>3, <1>4 DEF Genuine
<1> QED
  BY <1>2, <1>5 DEF Converging

\* What is served is not newer than the server.
LEMMA ServedNotNewer ==
    ASSUME IInv, NEW t, NEW c \in Served(t)
    PROVE  /\ NotNewer(c) /\ c.title = t
           /\ \A e \in Listing : e.title = t => c = ContentOf(e)
<1>1. TypeOK
  BY DEF IInv, Types
<1>2. PICK j \in Listed : /\ catalog[j].title = t
                          /\ c = [title |-> t, ver |-> catalog[j].ver,
                                  rev |-> catalog[j].rev]
  BY DEF Served
<1>3. j \in Ids /\ catalog[j] # None /\ catalog[j].rev \in Nat
  BY <1>1, <1>2, EntryAt DEF Listed
<1>4. \A i \in Ids : catalog[i] # None /\ catalog[i].title = t => i = j
  BY <1>2, <1>3 DEF IInv, TitlesApart
<1>5. NotNewer(c) /\ c.title = t
  BY <1>2, <1>3, <1>4 DEF NotNewer
<1>6. ASSUME NEW e \in Listing, e.title = t PROVE c = ContentOf(e)
  <2>1. /\ e.id \in Ids /\ catalog[e.id] # None /\ e.title = catalog[e.id].title
        /\ e.rev = catalog[e.id].rev /\ e.ver = catalog[e.id].ver
    BY <1>1, ListingEntry
  <2>2. e.id = j
    BY <1>4, <1>6, <2>1
  <2> QED
    BY <1>2, <1>6, <2>1, <2>2 DEF ContentOf
<1> QED
  BY <1>5, <1>6

LEMMA CommandGenuine ==
    ASSUME OneDigit, UInv,
           \/ \E kind \in Commands, sel \in SUBSET Dirs : Begin(kind, sel)
           \/ FetchList \/ (\E e \in Item : Pick(e)) \/ Finish \/ Exit
           \/ GetCampaign \/ FetchFile \/ Interrupt
    PROVE  Genuine' /\ Converging'
<1>1. UNCHANGED <<catalog, gone, disk>>
  BY DEF Begin, FetchList, Pick, Finish, Exit, GetCampaign, FetchFile, Interrupt
<1>2. TypeOK /\ Types /\ cmd \in Command /\ IInv
  BY DEF UInv, IInv, Types, TypeOK
<1>3. /\ Listing' = Listing
      /\ \A e : Has(e)' <=> Has(e)
      /\ \A c : NotNewer(c)' <=> NotNewer(c)
  BY <1>1 DEF Listing, Listed, Has, NotNewer
<1>4. Genuine <=> /\ \A d \in Dirs : disk[d] # None /\ disk[d].holds # None =>
                        disk[d].holds.title = d /\ NotNewer(disk[d].holds)
                  /\ cmd.pc \in Downloaded => NotNewer(cmd.got)
  BY DEF Genuine
<1>5. cmd'.pc \notin Downloaded => Genuine'
  BY <1>1, <1>4 DEF UInv, Genuine, NotNewer
<1>6. CASE cmd'.pc \in {"list", "idle", "hung"}
  BY <1>5, <1>6 DEF Converging, Handled, Downloaded
<1>7. ASSUME NEW kind \in Commands, NEW sel \in SUBSET Dirs, Begin(kind, sel)
      PROVE  cmd'.pc = "list"
  BY <1>7, IdleType DEF Begin, Command
<1>8. CASE Exit \/ Interrupt
  BY <1>6, <1>8, IdleType DEF Exit, Interrupt
<1>9. CASE Finish
  <2>1. /\ cmd.pc = "pick" /\ cmd.todo = {}
        /\ cmd'.pc = "end" /\ cmd'.kind = cmd.kind /\ cmd'.calm = cmd.calm
        /\ cmd'.sel = cmd.sel /\ cmd'.todo = cmd.todo
    BY <1>2, <1>9 DEF Finish, At, Goto, Command
  <2> QED
    BY <1>3, <1>5, <2>1 DEF UInv, Converging, Handled, Downloaded
<1>10. CASE FetchList
  <2>1. /\ cmd'.pc = "pick" /\ cmd'.todo = {e \in Listing : e.title \in cmd'.sel}
    BY <1>2, <1>10 DEF FetchList, Command
  <2> QED
    BY <1>3, <1>5, <2>1 DEF Converging, Handled, Downloaded
<1>11. ASSUME NEW e \in Item, Pick(e) PROVE Genuine' /\ Converging'
  <2>1. /\ cmd.pc = "pick" /\ e \in cmd.todo
        /\ cmd'.todo = cmd.todo \ {e} /\ cmd'.item = e
        /\ cmd'.kind = cmd.kind /\ cmd'.calm = cmd.calm /\ cmd'.sel = cmd.sel
        /\ cmd'.pc = IF cmd.kind = "remove" THEN "delete"
                     ELSE IF Wanted(e) THEN "redirect" ELSE "pick"
    BY <1>2, <1>11 DEF Pick, At, Command
  <2>2. Genuine'
    BY <1>5, <2>1 DEF Downloaded
  <2> SUFFICES ASSUME cmd.kind = "update", cmd.calm
               PROVE  Converging'
    BY <2>1, <2>2 DEF Converging
  <2>3. /\ cmd.todo \subseteq Listing
        /\ \A f \in Listing : f.title \in cmd.sel => f \in cmd.todo \/ Has(f)
    BY <2>1 DEF UInv, Converging, Handled, Downloaded
  <2>4. CASE Wanted(e)
    <3>1. cmd'.pc = "redirect"
      BY <2>1, <2>4
    <3> QED
      BY <1>3, <2>1, <2>3, <3>1 DEF Converging, Handled, Downloaded
  <2>5. CASE ~Wanted(e)
    <3>1. cmd'.pc = "pick"
      BY <2>1, <2>5
    <3>2. Has(e)
      BY <1>2, <2>1, <2>3, <2>5, UnwantedHas DEF UInv
    <3> QED
      BY <1>3, <2>1, <2>3, <3>1, <3>2 DEF Converging, Handled, Downloaded
  <2> QED
    BY <2>4, <2>5
<1>12. CASE GetCampaign
  <2>1. CASE cmd.item.id \in Listed
    <3>1. /\ cmd.pc = "redirect" /\ cmd'.pc = "fetch"
          /\ cmd'.kind = cmd.kind /\ cmd'.calm = cmd.calm /\ cmd'.sel = cmd.sel
          /\ cmd'.todo = cmd.todo /\ cmd'.item = cmd.item
      <4>1. /\ cmd.pc = "redirect"
            /\ cmd' = [cmd EXCEPT !.pc = "fetch", !.file = catalog[cmd.item.id].title]
        BY <1>12, <2>1 DEF GetCampaign, At
      <4> QED
        BY <1>2, <4>1 DEF Command
    <3> QED
      BY <1>3, <1>5, <3>1 DEF UInv, Converging, Handled, Downloaded
  <2>2. CASE cmd.item.id \notin Listed
    BY <1>2, <1>6, <1>12, <2>2 DEF GetCampaign, Goto, Command
  <2> QED
    BY <2>1, <2>2
<1>13. CASE FetchFile
  <2>1. CASE Served(cmd.file) = {}
    BY <1>2, <1>6, <1>13, <2>1 DEF FetchFile, Goto, Command
  <2>2. CASE Served(cmd.file) # {}
    <3>1. PICK c \in Served(cmd.file) : cmd' = [cmd EXCEPT !.pc = "clear", !.got = c]
      BY <1>13, <2>2 DEF FetchFile
    <3>2. /\ cmd.pc = "fetch" /\ cmd'.pc = "clear" /\ cmd'.got = c
          /\ cmd'.kind = cmd.kind /\ cmd'.calm = cmd.calm /\ cmd'.sel = cmd.sel
          /\ cmd'.todo = cmd.todo /\ cmd'.item = cmd.item
      BY <1>2, <1>13, <3>1 DEF FetchFile, At, Command
    <3>3. /\ NotNewer(c) /\ cmd.file = cmd.item.title
          /\ \A e \in Listing : e.title = cmd.file => c = ContentOf(e)
      BY <1>2, <3>2, ServedNotNewer DEF IInv, Selected
    <3>4. Genuine'
      BY <1>1, <3>2, <3>3 DEF UInv, Genuine, NotNewer
    <3>5. Converging'
      BY <1>3, <3>2, <3>3 DEF UInv, Converging, Handled, Downloaded
    <3> QED
      BY <3>4, <3>5
  <2> QED
    BY <2>1, <2>2
<1> QED
  BY <1>6, <1>7, <1>8, <1>9, <1>10, <1>11, <1>12, <1>13

LEMMA DeleteGenuine == ASSUME UInv, DeleteCampaign PROVE Genuine' /\ Converging'
<1>1. TypeOK /\ cmd \in Command /\ cmd.pc = "delete" /\ cmd.item.id \in Ids
  BY DEF DeleteCampaign, At, UInv, IInv, Types, TypeOK, InHand, Handled, Item
<1>2. /\ cmd'.pc = "pick" /\ cmd'.kind = cmd.kind /\ cmd'.calm = cmd.calm /\ disk' = disk
  BY <1>1 DEF DeleteCampaign, Goto, Command
<1>3. ~(cmd.kind = "update" /\ cmd.calm)
  BY <1>1 DEF UInv, Converging, Handled
<1>4. ASSUME NEW c, NotNewer(c) PROVE NotNewer(c)'
  <2>1. CASE Server!Delete(cmd.item.id) /\ Removed(cmd.item.id)
    <3>1. /\ catalog'[cmd.item.id] = None
          /\ \A k \in Ids \ {cmd.item.id} : catalog'[k] = catalog[k]
      BY <1>1, <2>1 DEF Server!Delete, TypeOK, Server!TypeOK
    <3>2. gone' = gone \cup {catalog[cmd.item.id].title}
      BY <2>1 DEF Removed
    <3> QED
      BY <1>4, <3>1, <3>2 DEF NotNewer
  <2>2. CASE UNCHANGED <<catalog, gone>>
    BY <1>4, <2>2 DEF NotNewer
  <2> QED
    BY <2>1, <2>2 DEF DeleteCampaign
<1>5. ASSUME NEW d \in Dirs, disk'[d] # None, disk'[d].holds # None
      PROVE  disk'[d].holds.title = d /\ NotNewer(disk[d].holds)'
  BY <1>2, <1>4, <1>5 DEF UInv, Genuine, NotNewer
<1>6. Genuine'
  BY <1>2, <1>5 DEF Genuine, Downloaded
<1> QED
  BY <1>2, <1>3, <1>6 DEF Converging

LEMMA DiskGenuine ==
    ASSUME NamedAlike, UInv, RemoveOld \/ MakeDir \/ UnpackDir \/ WriteInfo
    PROVE  Genuine' /\ Converging'
<1>1. Types /\ TypeOK /\ IInv
  BY DEF UInv, IInv, Types
<1>2. UNCHANGED <<catalog, gone>>
  BY DEF RemoveOld, MakeDir, UnpackDir, WriteInfo
<1>3. /\ cmd \in Command /\ cmd.pc \in Downloaded /\ cmd.item \in Item /\ cmd.got \in Content
      /\ disk \in [Dirs -> Directory \cup {None}]
  BY <1>1 DEF RemoveOld, MakeDir, UnpackDir, WriteInfo, At, Types, TypeOK,
     InHand, Handled, Downloaded
<1>4. /\ Target = cmd.got.title /\ cmd.got.title = cmd.item.title /\ Target \in Dirs
      /\ NotNewer(cmd.got)
  BY <1>1, <1>3, TargetType DEF NamedAlike, Target, IInv, Selected, UInv, Genuine, Content
<1>5. /\ cmd'.kind = cmd.kind /\ cmd'.calm = cmd.calm /\ cmd'.sel = cmd.sel
      /\ cmd'.todo = cmd.todo
      /\ cmd'.pc \in {"mkdir", "unpack", "info"} => cmd'.item = cmd.item /\ cmd'.got = cmd.got
      /\ cmd'.pc \in {"mkdir", "unpack", "info", "pick"}
      /\ ~WriteInfo => cmd'.pc # "pick"
  <2>1. CASE RemoveOld \/ MakeDir \/ UnpackDir
    BY <1>3, <2>1 DEF RemoveOld, MakeDir, UnpackDir, Goto, Command
  <2>2. CASE WriteInfo
    BY <1>3, <2>2 DEF WriteInfo, Command
  <2> QED
    BY <2>1, <2>2
<1>6. \A d \in Dirs : d # Target => disk'[d] = disk[d]
  BY <1>3 DEF RemoveOld, MakeDir, UnpackDir, WriteInfo
<1>7. WriteInfo => disk'[Target].holds = cmd.got /\ disk'[Target] # None
  <2> DEFINE old == [holds |-> cmd.got, info |-> None]
             new == [rev |-> cmd.item.rev, ver |-> cmd.item.ver]
  <2> SUFFICES ASSUME WriteInfo
               PROVE  disk'[Target].holds = cmd.got /\ disk'[Target] # None
    OBVIOUS
  <2>1. disk[Target] = old
    BY <1>1 DEF WriteInfo, At, Types, InHand
  <2>2. disk'[Target] = [disk[Target] EXCEPT !.info = new]
    BY <1>3, <1>4 DEF WriteInfo
  <2>3. [old EXCEPT !.info = new].holds = cmd.got
    OBVIOUS
  <2>4. [old EXCEPT !.info = new] # None
    <3>1. [old EXCEPT !.info = new] = [holds |-> cmd.got, info |-> new]
      OBVIOUS
    <3>2. [holds |-> cmd.got, info |-> new] \in Directory
      BY <1>3 DEF Directory, Info, Item
    <3> QED
      BY <3>1, <3>2
  <2> QED
    BY <2>1, <2>2, <2>3, <2>4
<1>8. disk'[Target] # None /\ disk'[Target].holds # None => disk'[Target].holds = cmd.got
  <2>1. CASE RemoveOld
    BY <1>3, <1>4, <2>1 DEF RemoveOld
  <2>2. CASE MakeDir
    BY <1>3, <1>4, <2>2 DEF MakeDir
  <2>3. CASE UnpackDir
    <3>1. cmd'.pc = "info" /\ cmd'.got = cmd.got
      BY <1>3, <2>3 DEF UnpackDir, Goto, Command
    <3>2. disk'[Target] = [holds |-> cmd.got, info |-> None]
      BY <1>1, <2>3, <3>1, DiskTypes DEF Types, InHand, Target
    <3> QED
      BY <3>2
  <2> QED
    BY <1>7, <2>1, <2>2, <2>3
<1>9. \A c : NotNewer(c)' <=> NotNewer(c)
  BY <1>2 DEF NotNewer
<1>10. Genuine'
  <2>1. ASSUME NEW d \in Dirs, disk'[d] # None, disk'[d].holds # None
        PROVE  disk'[d].holds.title = d /\ NotNewer(disk'[d].holds)
    <3>1. CASE d = Target
      BY <1>4, <1>8, <2>1, <3>1
    <3>2. CASE d # Target
      BY <1>6, <2>1, <3>2 DEF UInv, Genuine
    <3> QED
      BY <3>1, <3>2
  <2>2. cmd'.pc \in Downloaded => NotNewer(cmd'.got)
    BY <1>4, <1>5 DEF Downloaded
  <2> QED
    BY <1>2, <2>1, <2>2 DEF Genuine, NotNewer
<1>11. Converging'
  <2> SUFFICES ASSUME cmd.kind = "update", cmd.calm PROVE Converging'
    BY <1>5 DEF Converging
  <2>1. /\ cmd.todo \subseteq Listing /\ cmd.item \in Listing
        /\ cmd.got = ContentOf(cmd.item)
        /\ \A e \in Listing : e.title \in cmd.sel =>
              e \in cmd.todo \/ e = cmd.item \/ Has(e)
    BY <1>3 DEF UInv, Converging, Handled
  <2>2. Listing' = Listing
    BY <1>2 DEF Listing, Listed
  <2>3. \A e \in Listing : e.title = cmd.item.title => e = cmd.item
    <3>1. ASSUME NEW e \in Listing, e.title = cmd.item.title PROVE e = cmd.item
      <4>1. /\ e.id \in Ids /\ catalog[e.id] # None /\ e.title = catalog[e.id].title
            /\ e.rev = catalog[e.id].rev /\ e.ver = catalog[e.id].ver /\ e \in Item
        BY <1>1, ListingEntry
      <4>2. /\ cmd.item.id \in Ids /\ catalog[cmd.item.id] # None
            /\ cmd.item.title = catalog[cmd.item.id].title
            /\ cmd.item.rev = catalog[cmd.item.id].rev
            /\ cmd.item.ver = catalog[cmd.item.id].ver
        BY <1>1, <2>1, ListingEntry
      <4>3. catalog[e.id].title = catalog[cmd.item.id].title
        BY <3>1, <4>1, <4>2, Zenon
      <4>4. e.id = cmd.item.id
        BY <1>1, <4>1, <4>2, <4>3 DEF IInv, TitlesApart
      <4> QED
        BY <1>3, <4>1, <4>2, <4>4 DEF Item
    <3> QED
      BY <3>1
  <2>4. ASSUME NEW e \in Listing, e # cmd.item, Has(e) PROVE Has(e)'
    <3>1. e.title \in Dirs /\ e.title # Target
      BY <1>1, <1>4, <2>3, <2>4, ListingEntry DEF Item
    <3> QED
      BY <1>6, <2>4, <3>1 DEF Has
  <2>5. CASE WriteInfo
    <3>1. Has(cmd.item)'
      <4>1. /\ disk'[cmd.item.title] # None
            /\ disk'[cmd.item.title].holds = ContentOf(cmd.item)
        BY <1>4, <1>7, <2>1, <2>5
      <4>2. cmd'.item = cmd.item
        BY <1>3, <2>5 DEF WriteInfo, Command
      <4> QED
        BY <4>1, <4>2 DEF Has, ContentOf
    <3>2. cmd'.pc = "pick" /\ cmd'.item = cmd.item
      BY <1>3, <1>5, <2>5 DEF WriteInfo, Command
    <3>3. \A e \in Listing : e.title \in cmd.sel => e \in cmd.todo \/ Has(e)'
      BY <2>1, <2>4, <3>1, <3>2 DEF Has, ContentOf
    <3> QED
      BY <1>5, <2>1, <2>2, <3>2, <3>3 DEF Converging, Handled, Downloaded, Has
  <2>6. CASE ~WriteInfo
    <3>1. /\ cmd'.pc \in Downloaded /\ cmd'.pc \in {"mkdir", "unpack", "info"}
          /\ cmd'.item = cmd.item /\ cmd'.got = cmd.got
      BY <1>5, <2>6 DEF Downloaded
    <3>2. \A e \in Listing : e.title \in cmd.sel =>
             e \in cmd.todo \/ e = cmd.item \/ Has(e)'
      BY <2>1, <2>4
    <3> QED
      BY <1>5, <2>1, <2>2, <3>1, <3>2 DEF Converging, Handled, Has, ContentOf
  <2> QED
    BY <2>5, <2>6
<1> QED
  BY <1>10, <1>11

LEMMA InitUInv == StartApart /\ Init => UInv
BY InitIInv, IdleType DEF Init, UInv, Genuine, Converging, Handled, Downloaded, Idle

LEMMA NextUInv ==
    KeptWhileUsed /\ NoneAgain /\ OneDigit /\ NamedAlike /\ UInv /\ [Next]_vars => UInv'
<1> SUFFICES ASSUME KeptWhileUsed, NoneAgain, OneDigit, NamedAlike, UInv, [Next]_vars
             PROVE  UInv'
  OBVIOUS
<1>1. IInv'
  BY NextIInv DEF UInv
<1>2. CASE UNCHANGED vars
  <2>1. Genuine'
    BY <1>2 DEF vars, UInv, Genuine, NotNewer
  <2>2. Converging'
    <3>1. Listing' = Listing /\ cmd' = cmd /\ \A e : Has(e)' <=> Has(e)
      BY <1>2 DEF vars, Listing, Listed, Has
    <3> QED
      BY <3>1 DEF UInv, Converging
  <2> QED
    BY <1>1, <2>1, <2>2 DEF UInv
<1>3. CASE Next
  BY <1>1, <1>3, ServerGenuine, CommandGenuine, DeleteGenuine, DiskGenuine
     DEF UInv, Next, Script, User
<1> QED
  BY <1>2, <1>3

\* When an update ends and the server stayed as it was, every add-on that was
\* installed and is listed is the server's, after any number of interrupted
\* commands (wesnoth_addon_manager.py:343-394, campaignserver_client.py:263).
\* Add-ons that go and come again start over with revision 1, revisions of
\* several digits are compared as text, and an add-on published from a directory
\* of another name is not looked for there: with any of these it is not so.
THEOREM UpdateConvergesAlways ==
    ASSUME KeptWhileUsed, StartApart, NoneAgain, OneDigit, NamedAlike
    PROVE  Spec => []UpdateConverges
<1>1. Init => UInv
  BY InitUInv
<1>2. UInv /\ [Next]_vars => UInv'
  BY NextUInv
<1>3. UInv => UpdateConverges
  BY DEF UInv, Converging, UpdateConverges, At, Has, ContentOf, Handled, Downloaded
<1> QED
  BY <1>1, <1>2, <1>3, PTL DEF Spec

=============================================================================

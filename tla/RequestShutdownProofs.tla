------------------------ MODULE RequestShutdownProofs ------------------------
(***************************************************************************)
(* Proofs about the request and its end, and about the operators of the    *)
(* stack of output buffers that it is built from: what a write leaves      *)
(* behind, what it passes on, and that the text keeps its order.           *)
(***************************************************************************)
EXTENDS RequestShutdown, FiniteSetTheorems, SequenceTheorems, WellFoundedInduction, TLAPS

\* A set of natural numbers has a least element; what holds of 0 and of the next number
\* holds up to any bound.
LEMMA Least ==
    ASSUME NEW S \in SUBSET Nat, S # {}
    PROVE  \E x \in S : \A y \in S : x <= y
<1>1. PICK x \in S : \A y \in S : ~ (<<y, x>> \in OpToRel(<, Nat))
  BY NatLessThanWellFounded, WFMin, Zenon
<1>2. \A y \in S : ~ (y < x)
  BY <1>1 DEF OpToRel
<1>3. QED
  BY <1>2

LEMMA Upward ==
    ASSUME NEW n \in Nat, NEW S, 0 \in S, \A k \in 0..n : k < n /\ k \in S => k + 1 \in S
    PROVE  \A k \in 0..n : k \in S
<1> SUFFICES ASSUME ~ \A k \in 0..n : k \in S
             PROVE  FALSE
  OBVIOUS
<1>1. {k \in 0..n : k \notin S} \in SUBSET Nat /\ {k \in 0..n : k \notin S} # {}
  OBVIOUS
<1>2. PICK x \in {k \in 0..n : k \notin S} : \A y \in {k \in 0..n : k \notin S} : x <= y
  BY <1>1, Least
<1>3. x # 0 /\ x \in Nat /\ x - 1 \in 0..n /\ x - 1 < n /\ ~ (x <= x - 1) /\ (x - 1) + 1 = x
  BY <1>2
<1>4. x - 1 \in S
  BY <1>2, <1>3
<1>5. QED
  BY <1>2, <1>3, <1>4
-----------------------------------------------------------------------------
\* What a buffer passes on of what arrives at it, and the function that Arriving defines.
Passed(b, t) == LET all == b.text \o t
                IN IF b.chunk > 0 /\ Len(all) >= b.chunk THEN all ELSE <<>>
Chain(s, text, n, g) ==
    /\ g = [d \in 0..n |-> g[d]]
    /\ g[0] = text
    /\ \A d \in 1..n : g[d] = Passed(s[Len(s) - d + 1], g[d - 1])

LEMMA ChainExists ==
    ASSUME NEW s, NEW text, Len(s) \in Nat
    PROVE  \E g : Chain(s, text, Len(s), g)
<1> DEFINE S == {n \in 0..Len(s) : \E g : Chain(s, text, n, g)}
<1>1. 0 \in S
  <2>1. Chain(s, text, 0, [d \in 0..0 |-> text])
    BY DEF Chain
  <2>2. QED
    BY <2>1
<1>2. ASSUME NEW k \in 0..Len(s), k < Len(s), k \in S
      PROVE  k + 1 \in S
  <2>1. PICK g : Chain(s, text, k, g)
    BY <1>2
  <2>2. PICK t : t = Passed(s[Len(s) - (k + 1) + 1], g[k])
    OBVIOUS
  <2>3. PICK h : h = [d \in 0..(k + 1) |-> IF d = k + 1 THEN t ELSE g[d]]
    OBVIOUS
  <2>4. h = [d \in 0..(k + 1) |-> h[d]]
    BY <2>3
  <2>5. h[0] = text
    BY <2>1, <2>3 DEF Chain
  <2>6. ASSUME NEW d \in 1..(k + 1)
        PROVE  h[d] = Passed(s[Len(s) - d + 1], h[d - 1])
    <3>1. CASE d = k + 1
      <4>1. h[d] = t /\ h[d - 1] = g[k] /\ d - 1 = k
        BY <2>3, <3>1
      <4>2. QED
        BY <2>2, <3>1, <4>1
    <3>2. CASE d # k + 1
      <4>1. d \in 1..k /\ h[d] = g[d] /\ h[d - 1] = g[d - 1]
        BY <2>3, <3>2
      <4>2. QED
        BY <2>1, <4>1 DEF Chain
    <3>3. QED
      BY <3>1, <3>2
  <2>7. Chain(s, text, k + 1, h)
    BY <2>4, <2>5, <2>6 DEF Chain
  <2>8. QED
    BY <2>7, <1>2
<1> HIDE DEF S
<1>3. \A k \in 0..Len(s) : k \in S
  BY <1>1, <1>2, Upward
<1>4. QED
  BY <1>3 DEF S

LEMMA ArrivingChain ==
    ASSUME NEW s, NEW text, Len(s) \in Nat
    PROVE  Chain(s, text, Len(s), Arriving(s, text))
<1>1. PICK g : Chain(s, text, Len(s), g)
  BY ChainExists
<1>2. g = [d \in 0..Len(s) |->
            IF d = 0 THEN text
            ELSE LET b == s[Len(s) - d + 1]
                     all == b.text \o g[d - 1]
                 IN IF b.chunk > 0 /\ Len(all) >= b.chunk THEN all ELSE <<>>]
  BY <1>1 DEF Chain, Passed
<1>3. Arriving(s, text) = [d \in 0..Len(s) |->
            IF d = 0 THEN text
            ELSE LET b == s[Len(s) - d + 1]
                     all == b.text \o Arriving(s, text)[d - 1]
                 IN IF b.chunk > 0 /\ Len(all) >= b.chunk THEN all ELSE <<>>]
  BY <1>2, Zenon DEF Arriving
<1>4. QED
  <2>1. PICK f : f = Arriving(s, text)
    OBVIOUS
  <2>2. f = [d \in 0..Len(s) |->
            IF d = 0 THEN text
            ELSE LET b == s[Len(s) - d + 1]
                     all == b.text \o f[d - 1]
                 IN IF b.chunk > 0 /\ Len(all) >= b.chunk THEN all ELSE <<>>]
    BY <1>3, <2>1
  <2>3. Chain(s, text, Len(s), f)
    BY <2>2 DEF Chain, Passed
  <2>4. QED
    BY <2>1, <2>3
-----------------------------------------------------------------------------
\* FlattenSeq, by what it makes of the first i sequences.
FlatTo(g, ss, n) == g[0] = <<>> /\ \A i \in 1..n : g[i] = g[i - 1] \o ss[i]
IsFlat(g, ss) == FlatTo(g, ss, Len(ss))

LEMMA FlatExists ==
    ASSUME NEW ss, Len(ss) \in Nat
    PROVE  \E g : IsFlat(g, ss)
<1> DEFINE S == {n \in 0..Len(ss) : \E g : FlatTo(g, ss, n)}
<1>1. 0 \in S
  <2>1. FlatTo([i \in 0..0 |-> <<>>], ss, 0)
    BY DEF FlatTo
  <2>2. QED
    BY <2>1
<1>2. ASSUME NEW k \in 0..Len(ss), k < Len(ss), k \in S
      PROVE  k + 1 \in S
  <2>1. PICK g : FlatTo(g, ss, k)
    BY <1>2
  <2>2. PICK t : t = g[k] \o ss[k + 1]
    OBVIOUS
  <2>3. PICK h : h = [i \in 0..(k + 1) |-> IF i = k + 1 THEN t ELSE g[i]]
    OBVIOUS
  <2>4. h[0] = <<>>
    BY <2>1, <2>3 DEF FlatTo
  <2>5. ASSUME NEW i \in 1..(k + 1)
        PROVE  h[i] = h[i - 1] \o ss[i]
    <3>1. CASE i = k + 1
      <4>1. h[i] = t /\ h[i - 1] = g[k]
        BY <2>3, <3>1
      <4>2. QED
        BY <2>2, <3>1, <4>1
    <3>2. CASE i # k + 1
      <4>1. i \in 1..k /\ h[i] = g[i] /\ h[i - 1] = g[i - 1]
        BY <2>3, <3>2
      <4>2. QED
        BY <2>1, <4>1 DEF FlatTo
    <3>3. QED
      BY <3>1, <3>2
  <2>6. FlatTo(h, ss, k + 1)
    BY <2>4, <2>5 DEF FlatTo
  <2>7. QED
    BY <2>6, <1>2
<1> HIDE DEF S
<1>3. \A k \in 0..Len(ss) : k \in S
  BY <1>1, <1>2, Upward
<1>4. QED
  BY <1>3 DEF S, IsFlat

LEMMA FlatValue ==
    ASSUME NEW ss \in Seq(Seq(Nat)), NEW g, IsFlat(g, ss)
    PROVE  FlattenSeq(ss) = g[Len(ss)] /\ \A i \in 0..Len(ss) : g[i] \in Seq(Nat)
<1>1. Len(ss) \in Nat /\ \A i \in 1..Len(ss) : ss[i] \in Seq(Nat)
  OBVIOUS
<1>6. Len(ss) \in Nat
  OBVIOUS
<1>7. g[0] = <<>>
  BY DEF IsFlat, FlatTo
<1>0. \A k \in 0..Len(ss) : k < Len(ss) => g[k + 1] = g[k] \o ss[k + 1]
  <2>1. ASSUME NEW k \in 0..Len(ss), k < Len(ss)
        PROVE  g[k + 1] = g[k] \o ss[k + 1]
    <3>1. k + 1 \in 1..Len(ss) /\ (k + 1) - 1 = k
      BY <1>1, <2>1
    <3>2. g[k + 1] = g[(k + 1) - 1] \o ss[k + 1]
      BY <3>1 DEF IsFlat, FlatTo
    <3>3. QED
      BY <3>1, <3>2
  <2>2. QED
    BY <2>1
<1>2. \A i \in 0..Len(ss) : g[i] \in Seq(Nat)
  <2> DEFINE S == {i \in 0..Len(ss) : g[i] \in Seq(Nat)}
  <2>1. 0 \in S
    <3>1. <<>> \in Seq(Nat) /\ 0 \in 0..Len(ss)
      BY <1>6
    <3>2. g[0] \in Seq(Nat)
      BY <1>7, <3>1, Zenon
    <3>3. QED
      BY <3>1, <3>2, Zenon
  <2>2. ASSUME NEW k \in 0..Len(ss), k < Len(ss), k \in S
        PROVE  k + 1 \in S
    <3>1. g[k + 1] = g[k] \o ss[k + 1]
      BY <1>0, <2>2, Zenon
    <3>5. k + 1 \in 1..Len(ss) /\ k + 1 \in 0..Len(ss)
      BY <1>6, <2>2
    <3>2. g[k] \in Seq(Nat) /\ ss[k + 1] \in Seq(Nat)
      BY <1>1, <2>2, <3>5
    <3>3. g[k] \o ss[k + 1] \in Seq(Nat)
      BY <3>2
    <3>4. QED
      BY <3>1, <3>3, <3>5
  <2> HIDE DEF S
  <2>3. \A k \in 0..Len(ss) : k \in S
    BY <1>1, <2>1, <2>2, Upward
  <2>4. QED
    BY <2>3 DEF S
<1>3. CASE Len(ss) = 0
  <2>1. ss = <<>>
    BY <1>3
  <2>2. QED
    BY <1>2, <1>3, <1>7, <2>1 DEF FlattenSeq
<1>4. CASE Len(ss) # 0
  <2> DEFINE Eq(f) == f = [i \in 1..Len(ss) |-> IF i = 1 THEN ss[i] ELSE f[i - 1] \o ss[i]]
             flatten == CHOOSE f : Eq(f)
  <2>1. \E f : Eq(f)
    <3>1. PICK h : h = [i \in 1..Len(ss) |-> g[i]]
      OBVIOUS
    <3>2. ASSUME NEW i \in 1..Len(ss)
          PROVE  h[i] = IF i = 1 THEN ss[i] ELSE h[i - 1] \o ss[i]
      <4>1. CASE i = 1
        <5>5. 0 \in 0..Len(ss) /\ 0 < Len(ss)
          BY <1>4, <1>6
        <5>1. g[0 + 1] = <<>> \o ss[0 + 1]
          BY <1>0, <1>7, <5>5, Zenon
        <5>2. g[1] = <<>> \o ss[1]
          BY <5>1
        <5>3. <<>> \o ss[1] = ss[1]
          BY <1>1, <4>1
        <5>4. QED
          BY <3>1, <4>1, <5>2, <5>3
      <4>2. CASE i # 1
        <5>1. i - 1 \in 1..Len(ss)
          BY <1>1, <4>2
        <5>2. h[i] = g[i] /\ h[i - 1] = g[i - 1]
          BY <3>1, <5>1
        <5>3. i - 1 \in 0..Len(ss) /\ i - 1 < Len(ss) /\ (i - 1) + 1 = i
          BY <1>1, <4>2
        <5>4. g[i] = g[i - 1] \o ss[i]
          BY <1>0, <5>3
        <5>5. QED
          BY <4>2, <5>2, <5>4
      <4>3. QED
        BY <4>1, <4>2
    <3>3. Eq(h)
      BY <3>1, <3>2
    <3>4. QED
      BY <3>3
  <2>2. Eq(flatten)
    BY <2>1, Zenon
  <2>3. FlattenSeq(ss) = flatten[Len(ss)]
    BY <1>4, Zenon DEF FlattenSeq
  <2>4. PICK f : f = flatten /\ Eq(f)
    BY <2>2
  <2> DEFINE S == {i \in 0..Len(ss) : i = 0 \/ f[i] = g[i]}
  <2>5. 0 \in S
    BY <1>1
  <2>6. ASSUME NEW k \in 0..Len(ss), k < Len(ss), k \in S
        PROVE  k + 1 \in S
    <3>8. g[k + 1] = g[k] \o ss[k + 1]
      BY <1>0, <2>6, Zenon
    <3>1. k + 1 \in 1..Len(ss) /\ k + 1 \in 0..Len(ss) /\ g[k + 1] = g[k] \o ss[k + 1]
      BY <1>6, <2>6, <3>8
    <3>2. f[k + 1] = IF k + 1 = 1 THEN ss[k + 1] ELSE f[(k + 1) - 1] \o ss[k + 1]
      BY <2>4, <3>1
    <3>3. (k + 1) - 1 = k /\ (k + 1 = 1 <=> k = 0)
      OBVIOUS
    <3>4. f[k + 1] = IF k = 0 THEN ss[k + 1] ELSE f[k] \o ss[k + 1]
      BY <3>2, <3>3
    <3>5. <<>> \o ss[k + 1] = ss[k + 1]
      BY <1>1, <3>1
    <3>6. f[k + 1] = g[k + 1]
      BY <1>7, <2>6, <3>1, <3>4, <3>5
    <3>7. QED
      BY <3>1, <3>6
  <2> HIDE DEF S, Eq, flatten
  <2>7. \A k \in 0..Len(ss) : k \in S
    BY <1>1, <2>5, <2>6, Upward
  <2>8. Len(ss) \in 0..Len(ss)
    BY <1>1
  <2>9. f[Len(ss)] = g[Len(ss)]
    BY <1>4, <2>7, <2>8 DEF S
  <2>10. QED
    BY <1>2, <2>3, <2>4, <2>9
<1>5. QED
  BY <1>3, <1>4
-----------------------------------------------------------------------------
\* The buffers, and what they hold from the bottom to the active one.
Buffer == [text : Seq(Nat), status : BOOLEAN, chunk : 0..3, handler : BOOLEAN,
           erase : BOOLEAN, late : BOOLEAN]
Content(s) == FlattenSeq([k \in DOMAIN s |-> s[k].text])
Sums(g, s) ==
    /\ g[0] = <<>>
    /\ \A k \in 0..Len(s) : k < Len(s) => g[k + 1] = g[k] \o s[k + 1].text

LEMMA Texts ==
    ASSUME NEW s \in Seq(Buffer)
    PROVE  /\ Len(s) \in Nat
           /\ [k \in DOMAIN s |-> s[k].text] \in Seq(Seq(Nat))
           /\ Len([k \in DOMAIN s |-> s[k].text]) = Len(s)
           /\ \A k \in 1..Len(s) : s[k] \in Buffer /\ s[k].text \in Seq(Nat)
<1>1. Len(s) \in Nat /\ DOMAIN s = 1..Len(s) /\ \A k \in 1..Len(s) : s[k] \in Buffer
  OBVIOUS
<1>2. \A b \in Buffer : b.text \in Seq(Nat)
  BY DEF Buffer
<1>3. \A k \in 1..Len(s) : s[k].text \in Seq(Nat)
  BY <1>1, <1>2
<1>4. QED
  BY <1>1, <1>3

LEMMA SumsGive ==
    ASSUME NEW s \in Seq(Buffer), NEW g, Sums(g, s)
    PROVE  Content(s) = g[Len(s)] /\ \A k \in 0..Len(s) : g[k] \in Seq(Nat)
<1>1. PICK ss \in Seq(Seq(Nat)) : ss = [k \in DOMAIN s |-> s[k].text] /\ Len(ss) = Len(s)
  BY Texts
<1>2. ASSUME NEW i \in 1..Len(ss)
      PROVE  g[i] = g[i - 1] \o ss[i]
  <2>1. Len(s) \in Nat /\ i \in DOMAIN s
    BY <1>1, Texts
  <2>2. i - 1 \in 0..Len(s) /\ i - 1 < Len(s) /\ (i - 1) + 1 = i
    BY <1>1, <2>1
  <2>3. g[(i - 1) + 1] = g[i - 1] \o s[(i - 1) + 1].text
    BY <2>2, Zenon DEF Sums
  <2>4. ss[i] = s[i].text
    BY <1>1, <2>1
  <2>5. QED
    BY <2>2, <2>3, <2>4
<1>3. IsFlat(g, ss)
  BY <1>2 DEF IsFlat, FlatTo, Sums
<1>4. FlattenSeq(ss) = g[Len(ss)] /\ \A i \in 0..Len(ss) : g[i] \in Seq(Nat)
  BY <1>3, FlatValue
<1>5. QED
  BY <1>1, <1>4 DEF Content

LEMMA SumsExist ==
    ASSUME NEW s \in Seq(Buffer)
    PROVE  \E g : Sums(g, s)
<1>1. PICK ss \in Seq(Seq(Nat)) : ss = [k \in DOMAIN s |-> s[k].text] /\ Len(ss) = Len(s)
  BY Texts
<1>2. PICK g : IsFlat(g, ss)
  BY <1>1, Texts, FlatExists
<1>3. ASSUME NEW k \in 0..Len(s), k < Len(s)
      PROVE  g[k + 1] = g[k] \o s[k + 1].text
  <2>1. Len(s) \in Nat
    BY Texts
  <2>2. k + 1 \in 1..Len(ss) /\ (k + 1) - 1 = k /\ k + 1 \in DOMAIN s
    BY <1>1, <1>3, <2>1
  <2>3. g[k + 1] = g[(k + 1) - 1] \o ss[k + 1]
    BY <1>2, <2>2, Zenon DEF IsFlat, FlatTo
  <2>4. ss[k + 1] = s[k + 1].text
    BY <1>1, <2>2
  <2>5. QED
    BY <2>2, <2>3, <2>4
<1>4. Sums(g, s)
  BY <1>2, <1>3 DEF Sums, IsFlat, FlatTo
<1>5. QED
  BY <1>4

LEMMA ContentEmpty == Content(<<>>) = <<>>
<1>1. PICK s \in Seq(Buffer) : s = <<>> /\ Len(s) = 0
  BY EmptySeq, Zenon
<1>2. PICK g : Sums(g, s)
  BY SumsExist
<1>3. Content(s) = g[Len(s)] /\ g[0] = <<>>
  BY <1>2, SumsGive DEF Sums
<1>4. QED
  BY <1>1, <1>3

LEMMA ContentType == \A s \in Seq(Buffer) : Content(s) \in Seq(Nat)
<1> SUFFICES ASSUME NEW s \in Seq(Buffer)
             PROVE  Content(s) \in Seq(Nat)
  OBVIOUS
<1>1. PICK g : Sums(g, s)
  BY SumsExist
<1>2. Len(s) \in 0..Len(s)
  BY Texts
<1>3. QED
  BY <1>1, <1>2, SumsGive

LEMMA ContentAppend ==
    ASSUME NEW s \in Seq(Buffer), NEW b \in Buffer
    PROVE  Content(Append(s, b)) = Content(s) \o b.text
<1>1. PICK g : Sums(g, s)
  BY SumsExist
<1>2. Len(s) \in Nat /\ b.text \in Seq(Nat)
  BY Texts DEF Buffer
<1>3. PICK u \in Seq(Buffer) :
          /\ u = Append(s, b) /\ Len(u) = Len(s) + 1
          /\ \A k \in 1..Len(s) : u[k] = s[k]
          /\ u[Len(s) + 1] = b
  <2>1. /\ Append(s, b) \in Seq(Buffer) /\ Len(Append(s, b)) = Len(s) + 1
        /\ \A k \in 1..Len(s) : Append(s, b)[k] = s[k]
        /\ Append(s, b)[Len(s) + 1] = b
    BY AppendProperties
  <2>2. QED
    BY <2>1
<1>4. PICK h : h = [k \in 0..(Len(s) + 1) |-> IF k = Len(s) + 1 THEN g[Len(s)] \o b.text ELSE g[k]]
  OBVIOUS
<1>5. ASSUME NEW k \in 0..Len(u), k < Len(u)
      PROVE  h[k + 1] = h[k] \o u[k + 1].text
  <2>1. CASE k = Len(s)
    <3>1. k + 1 \in 0..(Len(s) + 1) /\ k \in 0..(Len(s) + 1) /\ k # Len(s) + 1
      BY <1>2, <2>1
    <3>2. h[k + 1] = g[Len(s)] \o b.text /\ h[k] = g[Len(s)]
      BY <1>4, <2>1, <3>1
    <3>3. u[k + 1].text = b.text
      BY <1>3, <2>1
    <3>4. QED
      BY <3>2, <3>3, Zenon
  <2>2. CASE k # Len(s)
    <3>1. k \in 0..Len(s) /\ k < Len(s) /\ k + 1 \in 1..Len(s) /\ k + 1 # Len(s) + 1
          /\ k # Len(s) + 1 /\ k + 1 \in 0..(Len(s) + 1) /\ k \in 0..(Len(s) + 1)
      BY <1>2, <1>3, <1>5, <2>2
    <3>2. h[k + 1] = g[k + 1] /\ h[k] = g[k] /\ u[k + 1] = s[k + 1]
      BY <1>3, <1>4, <3>1
    <3>3. g[k + 1] = g[k] \o s[k + 1].text
      BY <1>1, <3>1, Zenon DEF Sums
    <3>4. QED
      BY <3>2, <3>3, Zenon
  <2>3. QED
    BY <2>1, <2>2
<1>6. h[0] = <<>>
  BY <1>1, <1>2, <1>4 DEF Sums
<1>7. Sums(h, u)
  BY <1>5, <1>6 DEF Sums
<1>8. Content(u) = h[Len(u)] /\ Content(s) = g[Len(s)]
  BY <1>1, <1>7, SumsGive
<1>9. h[Len(u)] = g[Len(s)] \o b.text
  <2>1. Len(s) + 1 \in 0..(Len(s) + 1)
    BY <1>2
  <2>2. QED
    BY <1>3, <1>4, <2>1
<1>10. QED
  BY <1>3, <1>8, <1>9

\* A stack of buffers is the active one on top of the others.
LEMMA Stacked ==
    ASSUME NEW s \in Seq(Buffer), s # <<>>
    PROVE  /\ Front(s) \in Seq(Buffer) /\ Last(s) \in Buffer
           /\ Len(s) # 0 /\ Len(Front(s)) = Len(s) - 1
           /\ \A k \in 1..(Len(s) - 1) : Front(s)[k] = s[k]
           /\ s = Append(Front(s), Last(s))
           /\ Content(s) = Content(Front(s)) \o Last(s).text
<1>1. Len(s) \in Nat /\ Len(s) # 0 /\ \A k \in 1..Len(s) : s[k] \in Buffer
  OBVIOUS
<1>5. /\ Front(s) \in Seq(Buffer) /\ Len(Front(s)) = Len(s) - 1
      /\ \A k \in 1..(Len(s) - 1) : Front(s)[k] = s[k]
  <2>1. PICK m \in Int : m = 1
    OBVIOUS
  <2>2. PICK n \in Int : n = Len(s) - 1
    BY <1>1
  <2>3. \A k \in m..n : s[k] \in Buffer
    BY <1>1, <2>1, <2>2
  <2>4. /\ SubSeq(s, m, n) \in Seq(Buffer)
        /\ Len(SubSeq(s, m, n)) = IF m <= n THEN n - m + 1 ELSE 0
        /\ \A i \in 1..(n - m + 1) : SubSeq(s, m, n)[i] = s[m + i - 1]
    BY <2>3, SubSeqProperties
  <2>5. n - m + 1 = Len(s) - 1 /\ \A i \in 1..(Len(s) - 1) : m + i - 1 = i
    BY <1>1, <2>1, <2>2
  <2>6. Front(s) = SubSeq(s, m, n)
    BY <2>1, <2>2 DEF Front
  <2>7. Len(SubSeq(s, m, n)) = Len(s) - 1
    BY <1>1, <2>1, <2>2, <2>4
  <2>8. \A k \in 1..(Len(s) - 1) : SubSeq(s, m, n)[k] = s[k]
    BY <2>4, <2>5
  <2>9. QED
    BY <2>4, <2>6, <2>7, <2>8
<1>6. Last(s) \in Buffer
  BY <1>1 DEF Last
<1>7. s = Append(Front(s), Last(s))
  BY <1>1, <1>5, <1>6 DEF Last
<1>8. Content(Append(Front(s), Last(s))) = Content(Front(s)) \o Last(s).text
  BY <1>5, <1>6, ContentAppend
<1>9. QED
  BY <1>1, <1>5, <1>6, <1>7, <1>8
-----------------------------------------------------------------------------
\* A chunked buffer holds less than a chunk, and one with a handler has no chunks.
Fits(b) == (b.chunk > 0 => Len(b.text) < b.chunk) /\ (b.handler => b.chunk = 0)

LEMMA PassedShape ==
    ASSUME NEW b \in Buffer, NEW t \in Seq(Nat)
    PROVE  /\ b.text \in Seq(Nat) /\ b.text \o t \in Seq(Nat) /\ Passed(b, t) \in Seq(Nat)
           /\ Passed(b, t) # <<>> => Passed(b, t) = b.text \o t
           /\ Passed(b, t) = <<>> /\ b.chunk > 0 => Len(b.text \o t) < b.chunk
           /\ b.chunk = 0 => Passed(b, t) = <<>>
<1>1. b.text \in Seq(Nat) /\ b.chunk \in 0..3
  BY DEF Buffer
<1>2. PICK all \in Seq(Nat) : all = b.text \o t
  BY <1>1, ConcatProperties
<1>3. Passed(b, t) = IF b.chunk > 0 /\ Len(all) >= b.chunk THEN all ELSE <<>>
  BY <1>2 DEF Passed
<1>4. <<>> \in Seq(Nat)
  OBVIOUS
<1>5. CASE b.chunk > 0 /\ Len(all) >= b.chunk
  <2>1. Passed(b, t) = all /\ ~ (b.chunk = 0) /\ all # <<>>
    BY <1>1, <1>3, <1>5
  <2>2. QED
    BY <1>1, <1>2, <2>1, Zenon
<1>6. CASE ~ (b.chunk > 0 /\ Len(all) >= b.chunk)
  <2>1. Passed(b, t) = <<>>
    BY <1>3, <1>6
  <2>2. b.chunk > 0 => Len(all) < b.chunk
    BY <1>1, <1>6
  <2>3. QED
    BY <1>1, <1>2, <1>4, <2>1, <2>2, Zenon
<1>7. QED
  BY <1>5, <1>6

\* What php_body_write does to a buffer b, which becomes c: `into' arrives at it, and it
\* passes `out' on.
Moved(b, c, into, out) ==
    /\ c.late = b.late /\ c.handler = b.handler /\ c.chunk = b.chunk
    /\ \/ c.text = <<>> /\ out = b.text \o into
       \/ c.text = b.text \o into /\ out = <<>>
    /\ Fits(b) => Fits(c)
    /\ b.chunk = 0 => c.text = b.text \o into

LEMMA AppendedShape ==
    ASSUME NEW s \in Seq(Buffer), NEW text \in Seq(Nat), NEW A, A = Arriving(s, text)
    PROVE  /\ A[0] = text /\ \A d \in 0..Len(s) : A[d] \in Seq(Nat)
           /\ Appended(s, text) \in Seq(Buffer) /\ Len(Appended(s, text)) = Len(s)
           /\ \A k \in 1..Len(s) : Moved(s[k], Appended(s, text)[k], A[Len(s) - k], A[Len(s) - k + 1])
<1>1. PICK n \in Nat : n = Len(s)
  BY Texts
<1>2. \A k \in 1..n : s[k] \in Buffer
  BY <1>1, Texts
<1>3. A[0] = text /\ \A d \in 1..n : A[d] = Passed(s[n - d + 1], A[d - 1])
  <2>1. Chain(s, text, n, A) /\ Len(s) \in Nat
    BY <1>1, ArrivingChain
  <2>2. QED
    BY <1>1, <2>1, Zenon DEF Chain
<1>4. \A d \in 0..n : A[d] \in Seq(Nat)
  <2> DEFINE S == {d \in 0..n : A[d] \in Seq(Nat)}
  <2>1. 0 \in S
    <3>1. 0 \in 0..n
      OBVIOUS
    <3>2. QED
      BY <1>3, <3>1
  <2>2. ASSUME NEW k \in 0..n, k < n, k \in S
        PROVE  k + 1 \in S
    <3>1. k + 1 \in 1..n /\ k + 1 \in 0..n /\ (k + 1) - 1 = k /\ n - (k + 1) + 1 \in 1..n
      BY <2>2
    <3>2. A[k + 1] = Passed(s[n - (k + 1) + 1], A[k])
      BY <1>3, <3>1
    <3>3. s[n - (k + 1) + 1] \in Buffer
      BY <1>2, <3>1, Zenon
    <3>4. A[k + 1] \in Seq(Nat)
      BY <2>2, <3>2, <3>3, PassedShape
    <3>5. QED
      BY <3>1, <3>4
  <2> HIDE DEF S
  <2>3. \A k \in 0..n : k \in S
    BY <2>1, <2>2, Upward
  <2>4. QED
    BY <2>3 DEF S
<1>5. ASSUME NEW k \in 1..n
      PROVE  /\ n - k \in 0..n /\ n - k + 1 \in 1..n
             /\ A[n - k + 1] = Passed(s[k], A[n - k]) /\ A[n - k] \in Seq(Nat)
  <2>1. n - k \in 0..n /\ n - k + 1 \in 1..n /\ n - (n - k + 1) + 1 = k /\ (n - k + 1) - 1 = n - k
    OBVIOUS
  <2>2. A[n - k + 1] = Passed(s[n - (n - k + 1) + 1], A[(n - k + 1) - 1])
    BY <1>3, <2>1, Zenon
  <2>3. QED
    BY <1>4, <2>1, <2>2
<1>6. PICK t : t = Appended(s, text)
  OBVIOUS
<1>7. DOMAIN s = 1..n
  BY <1>1
<1>8. /\ t = [k \in 1..n |-> t[k]]
      /\ \A k \in 1..n : t[k] = IF A[n - k + 1] # <<>> THEN Emptied(s[k])
                              ELSE [s[k] EXCEPT !.text = s[k].text \o A[n - k]]
  BY <1>1, <1>6, <1>7 DEF Appended
<1>9. ASSUME NEW k \in 1..n
      PROVE  /\ t[k] \in Buffer
             /\ Moved(s[k], t[k], A[n - k], A[n - k + 1])
  <2>1. PICK b \in Buffer : b = s[k]
    BY <1>2
  <2>2. PICK u \in Seq(Nat) : u = A[n - k]
    BY <1>5
  <2>3. PICK v : v = A[n - k + 1] /\ v = Passed(b, u)
    BY <1>5, <2>1, <2>2
  <2>4. /\ b.text \in Seq(Nat) /\ b.text \o u \in Seq(Nat)
        /\ v # <<>> => v = b.text \o u
        /\ v = <<>> /\ b.chunk > 0 => Len(b.text \o u) < b.chunk
        /\ b.chunk = 0 => v = <<>>
    BY <2>3, PassedShape
  <2>5. t[k] = IF v # <<>> THEN Emptied(b) ELSE [b EXCEPT !.text = b.text \o u]
    BY <1>8, <2>1, <2>2, <2>3
  <2>6. b.chunk \in 0..3
    BY DEF Buffer
  <2>7. CASE v # <<>>
    <3>1. t[k] = Emptied(b) /\ <<>> \in Seq(Nat)
      BY <2>5, <2>7
    <3>2. t[k] \in Buffer /\ t[k].text = <<>> /\ t[k].late = b.late /\ t[k].handler = b.handler
          /\ t[k].chunk = b.chunk
      BY <3>1 DEF Emptied, Buffer
    <3>3. Fits(b) => Fits(t[k])
      BY <2>6, <3>2 DEF Fits
    <3>4. QED
      BY <2>1, <2>2, <2>3, <2>4, <2>7, <3>2, <3>3 DEF Moved
  <2>8. CASE v = <<>>
    <3>1. t[k] = [b EXCEPT !.text = b.text \o u]
      BY <2>5, <2>8
    <3>2. t[k] \in Buffer /\ t[k].text = b.text \o u /\ t[k].late = b.late
          /\ t[k].handler = b.handler /\ t[k].chunk = b.chunk
      BY <2>4, <3>1 DEF Buffer
    <3>3. Fits(b) => Fits(t[k])
      BY <2>4, <2>8, <3>2 DEF Fits
    <3>4. QED
      BY <2>1, <2>2, <2>3, <2>8, <3>2, <3>3 DEF Moved
  <2>9. QED
    BY <2>7, <2>8
<1>10. t \in Seq(Buffer) /\ Len(t) = n
  <2>1. \A k \in 1..n : t[k] \in Buffer
    BY <1>9, Zenon
  <2>2. t = [k \in 1..n |-> t[k]]
    BY <1>8, Zenon
  <2>3. QED
    BY <1>1, <2>1, <2>2
<1>11. QED
  BY <1>1, <1>3, <1>4, <1>6, <1>9, <1>10

Associates(u, v, w) == (u \o v) \o w = u \o (v \o w)

LEMMA Associative ==
    ASSUME NEW u \in Seq(Nat), NEW v \in Seq(Nat), NEW w \in Seq(Nat)
    PROVE  Associates(u, v, w)
BY DEF Associates

\* One more buffer, which held b and now holds c: y arrived below it, z above it.
PassesOn(x, y, z, b, c, before, after) ==
    /\ x \o after = before \o y
    /\ \/ c = <<>> /\ y = b \o z
       \/ c = b \o z /\ y = <<>>
    => x \o (after \o c) = (before \o b) \o z

LEMMA PassOn ==
    ASSUME NEW x \in Seq(Nat), NEW y \in Seq(Nat), NEW z \in Seq(Nat), NEW b \in Seq(Nat),
           NEW c \in Seq(Nat), NEW before \in Seq(Nat), NEW after \in Seq(Nat)
    PROVE  PassesOn(x, y, z, b, c, before, after)
<1>1. Associates(before, b, z) /\ Associates(x, after, c)
  BY Associative, Zenon
<1>2. after \o <<>> = after /\ before \o <<>> = before
  BY ConcatEmptySeq
<1>3. QED
  BY <1>1, <1>2, Zenon DEF Associates, PassesOn

\* Nothing is lost, repeated or overtaken: what is passed on to the client, with what is
\* left behind it in the buffers, is what they held, with the text behind it.
THEOREM Flow ==
    ASSUME NEW s \in Seq(Buffer), NEW text \in Seq(Nat)
    PROVE  /\ Arriving(s, text)[Len(s)] \in Seq(Nat)
           /\ Arriving(s, text)[Len(s)] \o Content(Appended(s, text)) = Content(s) \o text
<1>1. PICK n \in Nat : n = Len(s)
  BY Texts
<1>2. PICK A : A = Arriving(s, text)
  OBVIOUS
<1>3. PICK t \in Seq(Buffer) : t = Appended(s, text) /\ Len(t) = n
  <2>1. Appended(s, text) \in Seq(Buffer) /\ Len(Appended(s, text)) = Len(s)
    BY AppendedShape
  <2>2. QED
    BY <1>1, <2>1, Zenon
<1>4. \A d \in 0..n : A[d] \in Seq(Nat)
  BY <1>1, <1>2, AppendedShape, Zenon
<1>5. A[0] = text
  <2>1. Chain(s, text, Len(s), Arriving(s, text))
    BY <1>1, ArrivingChain
  <2>2. QED
    BY <1>2, <2>1, Zenon DEF Chain
<1>6. ASSUME NEW k \in 1..n
      PROVE  \/ t[k].text = <<>> /\ A[n - k + 1] = s[k].text \o A[n - k]
             \/ t[k].text = s[k].text \o A[n - k] /\ A[n - k + 1] = <<>>
  <2>1. \A i \in 1..Len(s) : Moved(s[i], Appended(s, text)[i], A[Len(s) - i], A[Len(s) - i + 1])
    BY <1>2, AppendedShape, Zenon
  <2>2. Moved(s[k], t[k], A[n - k], A[n - k + 1])
    BY <1>1, <1>3, <2>1, Zenon
  <2>3. QED
    BY <2>2, Zenon DEF Moved
<1>7. PICK g : Sums(g, s)
  BY SumsExist
<1>8. PICK h : Sums(h, t)
  BY SumsExist
<1>9. /\ Content(s) = g[n] /\ \A k \in 0..n : g[k] \in Seq(Nat)
      /\ Content(t) = h[n] /\ \A k \in 0..n : h[k] \in Seq(Nat)
  BY <1>1, <1>3, <1>7, <1>8, SumsGive
<1> DEFINE S == {k \in 0..n : A[n] \o h[k] = g[k] \o A[n - k]}
<1>10. 0 \in S
  <2>1. 0 \in 0..n /\ n \in 0..n /\ n - 0 = n
    OBVIOUS
  <2>2. g[0] = <<>> /\ h[0] = <<>>
    BY <1>7, <1>8 DEF Sums
  <2>3. A[n] \in Seq(Nat)
    BY <1>4, <2>1
  <2>4. A[n] \o <<>> = <<>> \o A[n]
    BY <2>3
  <2>5. QED
    BY <2>1, <2>2, <2>4
<1>11. ASSUME NEW k \in 0..n, k < n, k \in S
       PROVE  k + 1 \in S
  <2>1. k + 1 \in 1..n /\ k + 1 \in 0..n /\ n \in 0..n /\ n - k \in 0..n /\ n - (k + 1) \in 0..n
        /\ n - (k + 1) + 1 = n - k
    BY <1>11
  <2>2. PICK x \in Seq(Nat) : x = A[n]
    BY <1>4, <2>1
  <2>3. PICK y \in Seq(Nat) : y = A[n - k]
    BY <1>4, <2>1
  <2>4. PICK z \in Seq(Nat) : z = A[n - (k + 1)]
    BY <1>4, <2>1
  <2>5. PICK gk \in Seq(Nat) : gk = g[k]
    BY <1>9
  <2>6. PICK hk \in Seq(Nat) : hk = h[k]
    BY <1>9
  <2>7. PICK b \in Seq(Nat) : b = s[k + 1].text
    BY <1>1, <2>1, Texts
  <2>8. PICK c \in Seq(Nat) : c = t[k + 1].text
    BY <1>3, <2>1, Texts
  <2>9. x \o hk = gk \o y
    BY <1>11, <2>2, <2>3, <2>5, <2>6
  <2>10. g[k + 1] = gk \o b /\ h[k + 1] = hk \o c
    BY <1>1, <1>3, <1>7, <1>8, <1>11, <2>5, <2>6, <2>7, <2>8 DEF Sums
  <2>11. \/ c = <<>> /\ y = b \o z
         \/ c = b \o z /\ y = <<>>
    BY <1>6, <2>1, <2>3, <2>4, <2>7, <2>8
  <2>12. x \o (hk \o c) = (gk \o b) \o z
    <3>1. PassesOn(x, y, z, b, c, gk, hk)
      BY PassOn, Zenon
    <3>2. QED
      BY <2>9, <2>11, <3>1, Zenon DEF PassesOn
  <2>13. QED
    BY <2>1, <2>2, <2>4, <2>10, <2>12
<1> HIDE DEF S
<1>12. n \in S
  <2>1. \A k \in 0..n : k \in S
    BY <1>10, <1>11, Upward
  <2>2. QED
    BY <2>1
<1>13. A[n] \o h[n] = g[n] \o A[n - n] /\ n - n = 0 /\ n \in 0..n
  <2>1. A[n] \o h[n] = g[n] \o A[n - n]
    BY <1>12, Zenon DEF S
  <2>2. QED
    BY <2>1
<1>14. QED
  BY <1>1, <1>2, <1>3, <1>4, <1>5, <1>9, <1>13
-----------------------------------------------------------------------------
\* Texts as sets of pieces in an order.
Increasing(t) == \A j, k \in DOMAIN t : j < k => t[j] < t[k]
Precedes(t, u) == \A x \in ToSet(t), y \in ToSet(u) : x < y

LEMMA ConcatAt ==
    ASSUME NEW t \in Seq(Nat), NEW u \in Seq(Nat), NEW m \in Nat, NEW n \in Nat,
           m = Len(t), n = Len(u)
    PROVE  /\ DOMAIN (t \o u) = 1..(m + n)
           /\ \A i \in 1..(m + n) : i <= m => (t \o u)[i] = t[i]
           /\ \A i \in 1..(m + n) : ~ (i <= m) => (t \o u)[i] = u[i - m]
<1>1. t \o u \in Seq(Nat) /\ Len(t \o u) = m + n
  BY ConcatProperties
<1>2. DOMAIN (t \o u) = 1..(m + n)
  BY <1>1, LenProperties
<1>3. \A i \in 1..(m + n) : (t \o u)[i] = IF i <= m THEN t[i] ELSE u[i - m]
  BY ConcatProperties
<1>4. QED
  BY <1>2, <1>3

LEMMA ConcatElems ==
    ASSUME NEW t \in Seq(Nat), NEW u \in Seq(Nat)
    PROVE  ToSet(t \o u) = ToSet(t) \cup ToSet(u)
<1>1. PICK m \in Nat : m = Len(t) /\ DOMAIN t = 1..m
  OBVIOUS
<1>2. PICK n \in Nat : n = Len(u) /\ DOMAIN u = 1..n
  OBVIOUS
<1>0. PICK w : w = t \o u
  OBVIOUS
<1>3. /\ w = t \o u
      /\ DOMAIN w = 1..(m + n)
      /\ \A i \in 1..(m + n) : i <= m => w[i] = t[i]
      /\ \A i \in 1..(m + n) : ~ (i <= m) => w[i] = u[i - m]
  <2>1. /\ DOMAIN (t \o u) = 1..(m + n)
        /\ \A i \in 1..(m + n) : i <= m => (t \o u)[i] = t[i]
        /\ \A i \in 1..(m + n) : ~ (i <= m) => (t \o u)[i] = u[i - m]
    BY <1>1, <1>2, ConcatAt
  <2>2. QED
    BY <1>0, <2>1, Zenon
<1>4. ToSet(w) = {w[i] : i \in 1..(m + n)} /\ ToSet(t) = {t[i] : i \in 1..m}
      /\ ToSet(u) = {u[i] : i \in 1..n}
  BY <1>1, <1>2, <1>3, Zenon DEF ToSet
<1>5. ASSUME NEW i \in 1..(m + n)
      PROVE  w[i] \in ToSet(t) \cup ToSet(u)
  <2>1. CASE i <= m
    BY <1>3, <1>4, <2>1
  <2>2. CASE ~ (i <= m)
    <3>1. i - m \in 1..n
      BY <2>2
    <3>2. QED
      BY <1>3, <1>4, <2>2, <3>1
  <2>3. QED
    BY <2>1, <2>2
<1>6. ASSUME NEW i \in 1..m
      PROVE  t[i] \in ToSet(w)
  <2>1. i \in 1..(m + n) /\ i <= m
    OBVIOUS
  <2>2. w[i] = t[i]
    BY <1>3, <2>1
  <2>3. QED
    BY <1>4, <2>1, <2>2
<1>7. ASSUME NEW i \in 1..n
      PROVE  u[i] \in ToSet(w)
  <2>1. i + m \in 1..(m + n) /\ ~ (i + m <= m) /\ (i + m) - m = i
    OBVIOUS
  <2>2. w[i + m] = u[i]
    BY <1>3, <2>1
  <2>3. QED
    BY <1>4, <2>1, <2>2
<1>8. ToSet(w) = ToSet(t) \cup ToSet(u)
  <2>1. ToSet(w) \subseteq ToSet(t) \cup ToSet(u)
    BY <1>4, <1>5
  <2>2. ToSet(t) \subseteq ToSet(w) /\ ToSet(u) \subseteq ToSet(w)
    BY <1>4, <1>6, <1>7
  <2>3. QED
    BY <2>1, <2>2
<1>9. QED
  BY <1>0, <1>8

LEMMA ConcatIncreasing ==
    ASSUME NEW t \in Seq(Nat), NEW u \in Seq(Nat)
    PROVE  Increasing(t \o u) <=> Increasing(t) /\ Increasing(u) /\ Precedes(t, u)
<1>1. PICK m \in Nat : m = Len(t) /\ DOMAIN t = 1..m
  OBVIOUS
<1>2. PICK n \in Nat : n = Len(u) /\ DOMAIN u = 1..n
  OBVIOUS
<1>0. PICK w : w = t \o u
  OBVIOUS
<1>3. /\ w = t \o u
      /\ DOMAIN w = 1..(m + n)
      /\ \A i \in 1..(m + n) : i <= m => w[i] = t[i]
      /\ \A i \in 1..(m + n) : ~ (i <= m) => w[i] = u[i - m]
  <2>1. /\ DOMAIN (t \o u) = 1..(m + n)
        /\ \A i \in 1..(m + n) : i <= m => (t \o u)[i] = t[i]
        /\ \A i \in 1..(m + n) : ~ (i <= m) => (t \o u)[i] = u[i - m]
    BY <1>1, <1>2, ConcatAt
  <2>2. QED
    BY <1>0, <2>1, Zenon
<1>4. ToSet(t) = {t[i] : i \in 1..m} /\ ToSet(u) = {u[i] : i \in 1..n}
  BY <1>1, <1>2, Zenon DEF ToSet
<1>5. \A i \in 1..m : i \in 1..(m + n) /\ w[i] = t[i]
  <2>1. \A i \in 1..m : i \in 1..(m + n) /\ i <= m
    OBVIOUS
  <2>2. QED
    BY <1>3, <2>1, Zenon
<1>6. \A i \in 1..n : i + m \in 1..(m + n) /\ w[i + m] = u[i]
  <2>1. ASSUME NEW i \in 1..n
        PROVE  i + m \in 1..(m + n) /\ w[i + m] = u[i]
    <3>1. i + m \in 1..(m + n) /\ ~ (i + m <= m) /\ (i + m) - m = i
      OBVIOUS
    <3>2. QED
      BY <1>3, <3>1
  <2>2. QED
    BY <2>1
<1>7. ASSUME Increasing(w)
      PROVE  Increasing(t) /\ Increasing(u) /\ Precedes(t, u)
  <2>1. \A j, k \in 1..(m + n) : j < k => w[j] < w[k]
    BY <1>3, <1>7, Zenon DEF Increasing
  <2>2. Increasing(t)
    BY <1>1, <1>5, <2>1 DEF Increasing
  <2>3. ASSUME NEW j \in 1..n, NEW k \in 1..n, j < k
        PROVE  u[j] < u[k]
    <3>1. j + m < k + m
      BY <2>3
    <3>2. QED
      BY <1>6, <2>1, <3>1
  <2>4. Increasing(u)
    BY <1>2, <2>3 DEF Increasing
  <2>5. ASSUME NEW j \in 1..m, NEW k \in 1..n
        PROVE  t[j] < u[k]
    <3>1. j < k + m
      OBVIOUS
    <3>2. QED
      BY <1>5, <1>6, <2>1, <3>1
  <2>6. Precedes(t, u)
    BY <1>4, <2>5 DEF Precedes
  <2>7. QED
    BY <2>2, <2>4, <2>6
<1>8. ASSUME Increasing(t), Increasing(u), Precedes(t, u)
      PROVE  Increasing(w)
  <2>1. ASSUME NEW j \in 1..(m + n), NEW k \in 1..(m + n), j < k
        PROVE  w[j] < w[k]
    <3>1. CASE k <= m
      <4>1. j \in 1..m /\ k \in 1..m
        BY <2>1, <3>1
      <4>2. QED
        BY <1>1, <1>5, <1>8, <2>1, <4>1 DEF Increasing
    <3>2. CASE j <= m /\ ~ (k <= m)
      <4>1. j \in 1..m /\ k - m \in 1..n /\ w[k] = u[k - m] /\ w[j] = t[j]
        BY <1>3, <3>2, SMTT(60)
      <4>2. t[j] \in ToSet(t) /\ u[k - m] \in ToSet(u)
        BY <1>4, <4>1
      <4>3. QED
        BY <1>8, <4>1, <4>2, Zenon DEF Precedes
    <3>3. CASE ~ (j <= m)
      <4>1. j - m \in 1..n /\ k - m \in 1..n /\ j - m < k - m /\ w[k] = u[k - m] /\ w[j] = u[j - m]
        <5>1. j - m \in 1..n /\ k - m \in 1..n /\ j - m < k - m /\ ~ (k <= m)
          BY <2>1, <3>3
        <5>2. QED
          BY <1>3, <3>3, <5>1, Zenon
      <4>2. QED
        BY <1>2, <1>8, <4>1, Zenon DEF Increasing
    <3>4. QED
      BY <3>1, <3>2, <3>3
  <2>2. QED
    BY <1>3, <2>1 DEF Increasing
<1>9. QED
  BY <1>3, <1>7, <1>8
-----------------------------------------------------------------------------
\* Of n pieces of text those of t are left, in order, and the other ones are lost.
Kept(t, lost, n) ==
    /\ Increasing(t)
    /\ ToSet(t) \cup lost = 1..n
    /\ ToSet(t) \cap lost = {}

LEMMA KeptMore ==
    ASSUME NEW t \in Seq(Nat), NEW lost, NEW n \in Nat, Kept(t, lost, n)
    PROVE  Kept(t \o <<n + 1>>, lost, n + 1)
<1>1. PICK one \in Seq(Nat) : one = <<n + 1>> /\ Len(one) = 1 /\ one[1] = n + 1
  <2>1. PICK a \in Nat : a = n + 1
    OBVIOUS
  <2>2. <<a>> \in Seq(Nat) /\ Len(<<a>>) = 1 /\ <<a>>[1] = a
    OBVIOUS
  <2>3. QED
    BY <2>1, <2>2
<1>2. DOMAIN one = 1..1 /\ ToSet(one) = {n + 1}
  BY <1>1 DEF ToSet
<1>3. Increasing(one)
  BY <1>2 DEF Increasing
<1>4. ToSet(t) \subseteq 1..n /\ lost \subseteq 1..n
  BY Zenon DEF Kept
<1>5. Precedes(t, one)
  BY <1>2, <1>4 DEF Precedes
<1>6. Increasing(t \o one) /\ ToSet(t \o one) = ToSet(t) \cup {n + 1}
  <2>1. Increasing(t)
    BY Zenon DEF Kept
  <2>2. Increasing(t \o one)
    BY <1>3, <1>5, <2>1, ConcatIncreasing, Zenon
  <2>3. ToSet(t \o one) = ToSet(t) \cup ToSet(one)
    BY ConcatElems, Zenon
  <2>4. QED
    BY <1>2, <2>2, <2>3
<1>7. PICK A : A = ToSet(t)
  OBVIOUS
<1>8. (A \cup {n + 1}) \cup lost = 1..(n + 1) /\ (A \cup {n + 1}) \cap lost = {}
  <2>1. A \cup lost = 1..n /\ A \cap lost = {}
    BY <1>7 DEF Kept
  <2>2. 1..(n + 1) = (1..n) \cup {n + 1} /\ n + 1 \notin 1..n
    OBVIOUS
  <2>3. QED
    BY <2>1, <2>2
<1>9. QED
  BY <1>1, <1>6, <1>7, <1>8, Zenon DEF Kept

LEMMA KeptCut ==
    ASSUME NEW u \in Seq(Nat), NEW v \in Seq(Nat), NEW w \in Seq(Nat), NEW lost, NEW n \in Nat,
           Kept(u \o (v \o w), lost, n)
    PROVE  Kept(u \o v, lost \cup (ToSet(v \o w) \ ToSet(v)), n)
<1>1. v \o w \in Seq(Nat) /\ u \o v \in Seq(Nat)
  BY ConcatProperties
<1>2. PICK U, V, W : U = ToSet(u) /\ V = ToSet(v) /\ W = ToSet(w)
  OBVIOUS
<1>3. ToSet(v \o w) = V \cup W /\ ToSet(u \o v) = U \cup V
      /\ ToSet(u \o (v \o w)) = U \cup (V \cup W)
  <2>1. ToSet(v \o w) = ToSet(v) \cup ToSet(w) /\ ToSet(u \o v) = ToSet(u) \cup ToSet(v)
    BY ConcatElems, Zenon
  <2>2. PICK t \in Seq(Nat) : t = v \o w
    BY <1>1
  <2>3. ToSet(u \o t) = ToSet(u) \cup ToSet(t)
    BY ConcatElems, Zenon
  <2>4. QED
    BY <1>2, <2>1, <2>2, <2>3, Zenon
<1>4. /\ Increasing(u) /\ Increasing(v \o w) /\ Precedes(u, v \o w)
      /\ Increasing(v) /\ Precedes(v, w)
  <2>1. Increasing(u \o (v \o w))
    BY Zenon DEF Kept
  <2>2. Increasing(u) /\ Increasing(v \o w) /\ Precedes(u, v \o w)
    BY <1>1, <2>1, ConcatIncreasing, Zenon
  <2>3. QED
    BY <2>2, ConcatIncreasing, Zenon
<1>5. Increasing(u \o v)
  <2>1. Precedes(u, v)
    BY <1>2, <1>3, <1>4, Zenon DEF Precedes
  <2>2. QED
    BY <1>4, <2>1, ConcatIncreasing, Zenon
<1>6. /\ (U \cup (V \cup W)) \cup lost = 1..n
      /\ (U \cup (V \cup W)) \cap lost = {}
  BY <1>3, Zenon DEF Kept
<1>7. \A x \in U, y \in W : x < y
  BY <1>2, <1>3, <1>4, Zenon DEF Precedes
<1>8. U \subseteq Nat
  BY <1>6
<1>9. \A x \in U : x \notin W
  BY <1>7, <1>8
<1>10. PICK cut : cut = (V \cup W) \ V
  OBVIOUS
<1>11. (U \cup V) \cup (lost \cup cut) = 1..n /\ (U \cup V) \cap (lost \cup cut) = {}
  BY <1>6, <1>9, <1>10
<1>12. QED
  BY <1>2, <1>3, <1>5, <1>10, <1>11, Zenon DEF Kept
-----------------------------------------------------------------------------
\* The stack of buffers with what the client was given.
BuffersOK(s) == s \in Seq(Buffer) /\ \A k \in 1..Len(s) : Fits(s[k])
OutputInv ==
    /\ BuffersOK(obs)
    /\ client \in Seq(Nat)
    /\ printed \in Nat
    /\ Kept(client \o Content(obs), gone, printed)

\* No buffer is added, and each keeps what was noted when it was started.
SameBuffers(s, t) ==
    /\ Len(t) \in Nat /\ Len(t) <= Len(s)
    /\ \A k \in 1..Len(t) : t[k].late = s[k].late

LEMMA AppendedBuffers ==
    ASSUME NEW s, BuffersOK(s), NEW text \in Seq(Nat)
    PROVE  /\ BuffersOK(Appended(s, text)) /\ Len(Appended(s, text)) = Len(s)
           /\ SameBuffers(s, Appended(s, text))
           /\ s # <<>> /\ Last(s).handler =>
                 /\ Appended(s, text) # <<>>
                 /\ Last(Appended(s, text)).handler
                 /\ Last(Appended(s, text)).text = Last(s).text \o text
<1>1. s \in Seq(Buffer) /\ Len(s) \in Nat /\ \A k \in 1..Len(s) : Fits(s[k])
  BY DEF BuffersOK
<1>2. PICK A : A = Arriving(s, text)
  OBVIOUS
<1>3. PICK t : t = Appended(s, text)
  OBVIOUS
<1>4. t \in Seq(Buffer) /\ Len(t) = Len(s)
  BY <1>1, <1>3, AppendedShape
<1>5. \A k \in 1..Len(s) : Moved(s[k], t[k], A[Len(s) - k], A[Len(s) - k + 1])
  BY <1>1, <1>2, <1>3, AppendedShape, Zenon
<1>6. \A k \in 1..Len(s) : Fits(t[k]) /\ t[k].late = s[k].late
  BY <1>1, <1>5, Zenon DEF Moved
<1>7. BuffersOK(t) /\ SameBuffers(s, t)
  BY <1>1, <1>4, <1>6 DEF BuffersOK, SameBuffers
<1>8. ASSUME s # <<>>, Last(s).handler
      PROVE  t # <<>> /\ Last(t).handler /\ Last(t).text = Last(s).text \o text
  <2>1. PICK n \in Nat : n = Len(s) /\ n # 0
    BY <1>1, <1>8
  <2>2. n \in 1..n /\ n - n = 0
    BY <2>1
  <2>3. Last(s) = s[n] /\ Last(t) = t[n] /\ t # <<>>
    BY <1>4, <2>1 DEF Last
  <2>4. Moved(s[n], t[n], A[0], A[n - n + 1])
    BY <1>5, <2>1, <2>2, Zenon
  <2>5. A[0] = text
    <3>1. Chain(s, text, Len(s), A)
      BY <1>1, <1>2, ArrivingChain
    <3>2. QED
      BY <3>1, Zenon DEF Chain
  <2>6. s[n].chunk = 0
    BY <1>1, <1>8, <2>1, <2>2, <2>3, Zenon DEF Fits
  <2>7. t[n].handler = s[n].handler /\ t[n].text = s[n].text \o A[0]
    BY <2>4, <2>6, Zenon DEF Moved
  <2>8. QED
    BY <1>8, <2>3, <2>5, <2>7, Zenon
<1>9. QED
  BY <1>3, <1>4, <1>7, <1>8

LEMMA WrittenFlow ==
    ASSUME NEW s \in Seq(Buffer), NEW text \in Seq(Nat), client \in Seq(Nat)
    PROVE  /\ Written(s, text) \in Seq(Nat)
           /\ Written(s, text) \o Content(Appended(s, text)) = client \o (Content(s) \o text)
<1>1. PICK a \in Seq(Nat) : a = Arriving(s, text)[Len(s)]
  BY Flow
<1>2. PICK c \in Seq(Nat) : c = client
  OBVIOUS
<1>3. PICK d \in Seq(Nat) : d = Content(Appended(s, text))
  BY AppendedShape, ContentType
<1>4. a \o d = Content(s) \o text
  BY <1>1, <1>3, Flow, Zenon
<1>5. Associates(c, a, d)
  BY Associative, Zenon
<1>6. Written(s, text) = c \o a /\ c \o a \in Seq(Nat)
  BY <1>1, <1>2, ConcatProperties DEF Written
<1>7. QED
  BY <1>2, <1>3, <1>4, <1>5, <1>6, Zenon DEF Associates

\* The pieces of the buffers one by one and together.
LEMMA ContentElems ==
    ASSUME NEW s \in Seq(Buffer)
    PROVE  ToSet(Content(s)) = UNION {ToSet(s[k].text) : k \in DOMAIN s}
<1>1. PICK n \in Nat : n = Len(s) /\ DOMAIN s = 1..n
  OBVIOUS
<1>2. PICK g : Sums(g, s)
  BY SumsExist
<1>3. Content(s) = g[n] /\ \A k \in 0..n : g[k] \in Seq(Nat)
  BY <1>1, <1>2, SumsGive
<1> DEFINE S == {k \in 0..n : ToSet(g[k]) = UNION {ToSet(s[i].text) : i \in 1..k}}
<1>4. 0 \in S
  <2>1. g[0] = <<>> /\ ToSet(<<>>) = {} /\ {ToSet(s[i].text) : i \in 1..0} = {}
    BY <1>2 DEF Sums, ToSet
  <2>2. 0 \in 0..n /\ UNION {} = {}
    OBVIOUS
  <2>3. QED
    BY <2>1, <2>2
<1>5. ASSUME NEW k \in 0..n, k < n, k \in S
      PROVE  k + 1 \in S
  <2>1. k + 1 \in 0..n /\ k + 1 \in 1..n /\ 1..(k + 1) = (1..k) \cup {k + 1}
    BY <1>5
  <2>2. PICK b \in Seq(Nat) : b = s[k + 1].text
    BY <1>1, <2>1, Texts
  <2>3. PICK t \in Seq(Nat) : t = g[k]
    BY <1>3
  <2>4. g[k + 1] = t \o b
    BY <1>1, <1>2, <1>5, <2>2, <2>3 DEF Sums
  <2>5. ToSet(t \o b) = ToSet(t) \cup ToSet(b)
    BY ConcatElems, Zenon
  <2>6. ToSet(t) = UNION {ToSet(s[i].text) : i \in 1..k}
    BY <1>5, <2>3
  <2>7. UNION {ToSet(s[i].text) : i \in 1..(k + 1)} = ToSet(t) \cup ToSet(b)
    BY <2>1, <2>2, <2>6
  <2>8. QED
    BY <2>1, <2>4, <2>5, <2>7
<1> HIDE DEF S
<1>6. n \in S
  <2>1. \A k \in 0..n : k \in S
    BY <1>4, <1>5, Upward
  <2>2. QED
    BY <2>1
<1>7. QED
  BY <1>1, <1>3, <1>6 DEF S
-----------------------------------------------------------------------------
LEMMA StartOutput == OutputInit => OutputInv
<1> SUFFICES ASSUME OutputInit
             PROVE  OutputInv
  OBVIOUS
<1>1. obs = <<>> /\ client = <<>> /\ printed = 0 /\ gone = {}
  BY DEF OutputInit
<1>2. <<>> \in Seq(Buffer) /\ <<>> \in Seq(Nat) /\ Len(<<>>) = 0 /\ <<>> \o <<>> = <<>>
  OBVIOUS
<1>3. Increasing(<<>>) /\ ToSet(<<>>) = {}
  BY DEF Increasing, ToSet
<1>4. Kept(<<>>, {}, 0)
  BY <1>3 DEF Kept
<1>5. BuffersOK(<<>>)
  BY <1>2 DEF BuffersOK
<1>6. QED
  BY <1>1, <1>2, <1>4, <1>5, ContentEmpty, Zenon DEF OutputInv

\* php_body_write.  Text of an active buffer with a handler stays in it.
LEMMA WriteKeeps ==
    ASSUME OutputInv, WriteText
    PROVE  /\ OutputInv'
           /\ SameBuffers(obs, obs')
           /\ printed' = printed + 1
           /\ obs # <<>> /\ Active.handler =>
                 /\ obs' # <<>> /\ Active'.handler
                 /\ \E more \in Seq(Nat) : Active'.text = Active.text \o more
<1>1. PICK text \in Seq(Nat) : text = <<printed + 1>>
  <2>1. PICK a \in Nat : a = printed + 1
    BY DEF OutputInv
  <2>2. <<a>> \in Seq(Nat)
    OBVIOUS
  <2>3. QED
    BY <2>1, <2>2
<1>2. /\ obs' = Appended(obs, text) /\ client' = Written(obs, text)
      /\ printed' = printed + 1 /\ gone' = gone
  BY <1>1 DEF WriteText
<1>3. BuffersOK(obs) /\ obs \in Seq(Buffer) /\ client \in Seq(Nat) /\ printed \in Nat
  BY DEF OutputInv, BuffersOK
<1>4. BuffersOK(obs') /\ SameBuffers(obs, obs')
  BY <1>2, <1>3, AppendedBuffers, Zenon
<1>5. client' \in Seq(Nat) /\ client' \o Content(obs') = client \o (Content(obs) \o text)
  BY <1>2, <1>3, WrittenFlow, Zenon
<1>6. PICK t \in Seq(Nat) : t = client \o Content(obs)
  BY <1>3, ContentType, ConcatProperties
<1>7. client \o (Content(obs) \o text) = t \o text
  <2>1. PICK c \in Seq(Nat), d \in Seq(Nat) : c = client /\ d = Content(obs)
    BY <1>3, ContentType
  <2>2. Associates(c, d, text)
    BY Associative, Zenon
  <2>3. QED
    BY <1>6, <2>1, <2>2, Zenon DEF Associates
<1>8. Kept(t \o text, gone, printed + 1)
  <2>1. Kept(t, gone, printed)
    BY <1>6 DEF OutputInv
  <2>2. QED
    BY <1>1, <1>3, <2>1, KeptMore
<1>9. printed' \in Nat
  BY <1>2, <1>3
<1>10. OutputInv'
  <2>1. Kept(client' \o Content(obs'), gone', printed')
    BY <1>2, <1>5, <1>7, <1>8, Zenon
  <2>2. QED
    BY <1>4, <1>5, <1>9, <2>1, Zenon DEF OutputInv
<1>11. ASSUME obs # <<>>, Active.handler
       PROVE  /\ obs' # <<>> /\ Active'.handler
              /\ \E more \in Seq(Nat) : Active'.text = Active.text \o more
  <2>1. obs' # <<>> /\ Last(obs').handler /\ Last(obs').text = Last(obs).text \o text
    BY <1>2, <1>3, <1>11, AppendedBuffers, Zenon DEF Active
  <2>2. QED
    BY <2>1, Zenon DEF Active
<1>12. QED
  BY <1>2, <1>4, <1>10, <1>11

\* php_ob_init_named.
LEMMA StartKeeps ==
    ASSUME OutputInv, NEW k \in Kinds, NEW late \in BOOLEAN, StartBuffer(k, late)
    PROVE  /\ OutputInv'
           /\ Len(obs') = Len(obs) + 1 /\ obs'[Len(obs) + 1].late = late
           /\ \A i \in 1..Len(obs) : obs'[i] = obs[i]
<1>1. k \in [chunk : 0..3, handler : BOOLEAN, erase : BOOLEAN] /\ (k.handler => k.chunk = 0)
  BY KindsAssumption
<1>2. PICK b : b = [text |-> <<>>, status |-> FALSE, chunk |-> k.chunk,
                    handler |-> k.handler, erase |-> k.erase, late |-> late]
  OBVIOUS
<1>3. <<>> \in Seq(Nat) /\ Len(<<>>) = 0
  OBVIOUS
<1>4. b \in Buffer /\ b.text = <<>> /\ b.late = late
  BY <1>1, <1>2, <1>3 DEF Buffer
<1>5. Fits(b)
  BY <1>1, <1>2, <1>3 DEF Fits
<1>6. obs' = Append(obs, b) /\ UNCHANGED <<client, printed, gone>>
  BY <1>2 DEF StartBuffer
<1>7. obs \in Seq(Buffer) /\ Len(obs) \in Nat /\ \A i \in 1..Len(obs) : Fits(obs[i])
  BY DEF OutputInv, BuffersOK
<1>8. /\ obs' \in Seq(Buffer) /\ Len(obs') = Len(obs) + 1
      /\ \A i \in 1..Len(obs) : obs'[i] = obs[i]
      /\ obs'[Len(obs) + 1] = b
  BY <1>4, <1>6, <1>7, AppendProperties
<1>9. \A i \in 1..Len(obs') : Fits(obs'[i])
  <2>1. \A i \in 1..(Len(obs) + 1) : i \in 1..Len(obs) \/ i = Len(obs) + 1
    BY <1>7
  <2>2. QED
    BY <1>5, <1>7, <1>8, <2>1
<1>10. Content(obs') = Content(obs)
  <2>1. Content(Append(obs, b)) = Content(obs) \o <<>>
    BY <1>4, <1>7, ContentAppend
  <2>2. PICK c \in Seq(Nat) : c = Content(obs)
    BY <1>7, ContentType
  <2>3. c \o <<>> = c
    BY ConcatEmptySeq
  <2>4. QED
    BY <1>6, <2>1, <2>2, <2>3
<1>11. QED
  BY <1>4, <1>6, <1>8, <1>9, <1>10 DEF OutputInv, BuffersOK

\* php_start_ob_buffer inside a handler.
LEMMA StartLockedKeeps ==
    ASSUME OutputInv, StartLocked
    PROVE  OutputInv' /\ obs' = <<>> /\ printed' = printed + 1
<1>1. /\ obs' = <<>> /\ client' = Append(client, printed + 1) /\ printed' = printed + 1
      /\ gone' = gone \cup UNION {ToSet(obs[k].text) : k \in DOMAIN obs}
  BY DEF StartLocked
<1>2. obs \in Seq(Buffer) /\ client \in Seq(Nat) /\ printed \in Nat
  BY DEF OutputInv, BuffersOK
<1>3. PICK c \in Seq(Nat), d \in Seq(Nat), e \in Seq(Nat) :
          c = client /\ d = Content(obs) /\ e = <<>>
  <2>1. <<>> \in Seq(Nat) /\ Content(obs) \in Seq(Nat)
    BY <1>2, ContentType
  <2>2. QED
    BY <1>2, <2>1
<1>4. e \o d = d /\ c \o e = c /\ ToSet(e) = {}
  BY <1>3, ConcatEmptySeq DEF ToSet
<1>5. Kept(c \o (e \o d), gone, printed)
  BY <1>3, <1>4, Zenon DEF OutputInv
<1>6. Kept(c \o e, gone \cup (ToSet(e \o d) \ ToSet(e)), printed)
  BY <1>2, <1>5, KeptCut, Zenon
<1>7. ToSet(e \o d) \ ToSet(e) = UNION {ToSet(obs[k].text) : k \in DOMAIN obs}
  <2>1. ToSet(d) = UNION {ToSet(obs[k].text) : k \in DOMAIN obs}
    BY <1>2, <1>3, ContentElems
  <2>2. QED
    BY <1>4, <2>1
<1>8. Kept(c, gone', printed)
  BY <1>1, <1>4, <1>6, <1>7, Zenon
<1>9. Kept(c \o <<printed + 1>>, gone', printed + 1)
  BY <1>2, <1>8, KeptMore
<1>10. client' = c \o <<printed + 1>> /\ client' \in Seq(Nat) /\ printed' \in Nat
  BY <1>1, <1>2, <1>3, AppendIsConcat, AppendProperties
<1>11. client' \o Content(obs') = client'
  BY <1>1, <1>10, ContentEmpty, ConcatEmptySeq
<1>12. BuffersOK(obs')
  <2>1. <<>> \in Seq(Buffer) /\ Len(<<>>) = 0
    OBVIOUS
  <2>2. QED
    BY <1>1, <2>1 DEF BuffersOK
<1>13. Kept(client' \o Content(obs'), gone', printed')
  BY <1>1, <1>9, <1>10, <1>11, Zenon
<1>14. QED
  BY <1>1, <1>10, <1>12, <1>13, Zenon DEF OutputInv
-----------------------------------------------------------------------------
\* The rest of php_end_ob_buffer, with a text that is what the buffer holds up to some
\* point: its whole text, or what it held when its handler was called.
LEMMA FinishKeeps ==
    ASSUME OutputInv, obs # <<>>, NEW text \in Seq(Nat), NEW rest \in Seq(Nat),
           NEW send \in BOOLEAN, NEW just \in BOOLEAN,
           Active.text = text \o rest, Finish(text, send, just)
    PROVE  /\ OutputInv' /\ SameBuffers(obs, obs') /\ printed' = printed
           /\ ~ just => Len(obs') = Len(obs) - 1
<1>1. BuffersOK(obs) /\ obs \in Seq(Buffer) /\ client \in Seq(Nat) /\ printed \in Nat
  BY DEF OutputInv, BuffersOK
<1>2. /\ Below \in Seq(Buffer) /\ Active \in Buffer
      /\ Len(obs) \in Nat /\ Len(obs) # 0 /\ Len(Below) = Len(obs) - 1
      /\ \A k \in 1..(Len(obs) - 1) : Below[k] = obs[k]
      /\ Content(obs) = Content(Below) \o Active.text
  <2>1. /\ Front(obs) \in Seq(Buffer) /\ Last(obs) \in Buffer
        /\ Len(obs) # 0 /\ Len(Front(obs)) = Len(obs) - 1
        /\ \A k \in 1..(Len(obs) - 1) : Front(obs)[k] = obs[k]
        /\ Content(obs) = Content(Front(obs)) \o Last(obs).text
    BY <1>1, Stacked, Zenon
  <2>2. Len(obs) \in Nat
    BY <1>1
  <2>3. QED
    BY <2>1, <2>2, Zenon DEF Below, Active
<1>3. BuffersOK(Below)
  <2>1. \A k \in 1..(Len(obs) - 1) : k \in 1..Len(obs)
    BY <1>2
  <2>2. QED
    BY <1>1, <1>2, <2>1 DEF BuffersOK
<1>4. <<>> \in Seq(Nat) /\ text \o rest \in Seq(Nat)
  BY ConcatProperties
<1>5. PICK sent \in Seq(Nat) : sent = IF send THEN text ELSE <<>>
  BY <1>4
<1>6. PICK r \in Seq(Nat) : Active.text = sent \o r
  <2>1. CASE send
    BY <1>5, <2>1
  <2>2. CASE ~ send
    <3>1. sent \o (text \o rest) = text \o rest
      BY <1>4, <1>5, <2>2, ConcatEmptySeq
    <3>2. QED
      BY <1>4, <3>1
  <2>3. QED
    BY <2>1, <2>2
<1>7. PICK below : below = Appended(Below, sent)
  OBVIOUS
<1>8. /\ obs' = IF just THEN Append(below, Emptied(Active)) ELSE below
      /\ client' = Written(Below, sent)
      /\ gone' = gone \cup (ToSet(Active.text) \ ToSet(sent))
      /\ printed' = printed
  BY <1>5, <1>7 DEF Finish
<1>9. BuffersOK(below) /\ Len(below) = Len(Below) /\ SameBuffers(Below, below)
  BY <1>3, <1>7, AppendedBuffers, Zenon
<1>10. client' \in Seq(Nat) /\ client' \o Content(below) = client \o (Content(Below) \o sent)
  BY <1>1, <1>2, <1>7, <1>8, WrittenFlow, Zenon
<1>11. PICK c \in Seq(Nat), d \in Seq(Nat) : c = client /\ d = Content(Below)
  BY <1>1, <1>2, ContentType
<1>12. PICK u \in Seq(Nat) : u = c \o d
  BY ConcatProperties
<1>13. PICK held \in Seq(Nat) : held = sent \o r
  BY ConcatProperties
<1>14. Associates(c, d, sent) /\ Associates(c, d, held)
  BY Associative, Zenon
<1>15. Kept(u \o held, gone, printed)
  BY <1>2, <1>6, <1>11, <1>12, <1>13, <1>14, Zenon DEF OutputInv, Associates
<1>16. Kept(u \o sent, gone \cup (ToSet(sent \o r) \ ToSet(sent)), printed)
  BY <1>1, <1>13, <1>15, KeptCut, Zenon
<1>17. Kept(client' \o Content(below), gone', printed')
  BY <1>6, <1>8, <1>10, <1>11, <1>12, <1>14, <1>16, Zenon DEF Associates
<1>18. PICK n \in Nat : n = Len(below) /\ n = Len(obs) - 1 /\ n + 1 = Len(obs)
  BY <1>2, <1>9
<1>19. below \in Seq(Buffer) /\ (\A k \in 1..n : Fits(below[k]))
       /\ \A k \in 1..n : below[k].late = obs[k].late
  BY <1>2, <1>9, <1>18 DEF BuffersOK, SameBuffers
<1>20. CASE ~ just
  <2>1. obs' = below
    BY <1>8, <1>20
  <2>2. SameBuffers(obs, obs') /\ Len(obs') = Len(obs) - 1
    <3>1. n \in Nat /\ Len(obs') = n
      BY <1>18, <2>1, Zenon
    <3>4. n <= Len(obs)
      <4>1. n <= n + 1
        OBVIOUS
      <4>2. QED
        BY <1>18, <4>1
    <3>2. \A k \in 1..n : obs'[k].late = obs[k].late
      BY <1>19, <2>1
    <3>3. QED
      BY <1>18, <3>1, <3>2, <3>4, Zenon DEF SameBuffers
  <2>3. OutputInv'
    BY <1>1, <1>8, <1>9, <1>10, <1>17, <2>1, Zenon DEF OutputInv
  <2>4. QED
    BY <1>8, <2>2, <2>3
<1>21. CASE just
  <2>1. PICK e \in Buffer : e = Emptied(Active) /\ e.text = <<>> /\ e.late = Active.late /\ Fits(e)
    <3>1. Emptied(Active) \in Buffer
      BY <1>2, <1>4 DEF Emptied, Buffer
    <3>2. Emptied(Active).text = <<>> /\ Emptied(Active).late = Active.late
          /\ Emptied(Active).chunk = Active.chunk /\ Emptied(Active).handler = Active.handler
      BY <1>2 DEF Emptied, Buffer
    <3>3. Len(obs) \in 1..Len(obs) /\ Active = obs[Len(obs)]
      BY <1>2 DEF Active, Last
    <3>4. Fits(Active)
      BY <1>1, <3>3 DEF BuffersOK
    <3>5. Active.chunk \in 0..3 /\ Len(<<>>) = 0
      BY <1>2 DEF Buffer
    <3>6. Fits(Emptied(Active))
      BY <3>2, <3>4, <3>5 DEF Fits
    <3>7. QED
      BY <3>1, <3>2, <3>6
  <2>2. obs' = Append(below, e)
    BY <1>8, <1>21, <2>1
  <2>3. /\ obs' \in Seq(Buffer) /\ Len(obs') = n + 1
        /\ \A k \in 1..n : obs'[k] = below[k]
        /\ obs'[n + 1] = e
    <3>1. /\ Append(below, e) \in Seq(Buffer) /\ Len(Append(below, e)) = Len(below) + 1
          /\ \A k \in 1..Len(below) : Append(below, e)[k] = below[k]
          /\ Append(below, e)[Len(below) + 1] = e
      BY <1>19, AppendProperties
    <3>2. QED
      BY <1>18, <2>2, <3>1, Zenon
  <2>4. \A k \in 1..(n + 1) : k \in 1..n \/ k = n + 1
    OBVIOUS
  <2>5. e.late = obs[n + 1].late
    BY <1>18, <2>1 DEF Active, Last
  <2>6. BuffersOK(obs') /\ SameBuffers(obs, obs')
    <3>1. \A k \in 1..(n + 1) : Fits(obs'[k]) /\ obs'[k].late = obs[k].late
      BY <1>19, <2>1, <2>3, <2>4, <2>5
    <3>2. QED
      BY <1>18, <2>3, <3>1 DEF BuffersOK, SameBuffers
  <2>7. Content(obs') = Content(below)
    <3>1. Content(Append(below, e)) = Content(below) \o e.text
      BY <1>19, <2>1, ContentAppend
    <3>2. PICK t \in Seq(Nat) : t = Content(below)
      BY <1>19, ContentType
    <3>3. t \o <<>> = t
      BY ConcatEmptySeq
    <3>4. QED
      BY <2>1, <2>2, <3>1, <3>2, <3>3
  <2>8. OutputInv'
    BY <1>1, <1>8, <1>10, <1>17, <2>6, <2>7, Zenon DEF OutputInv
  <2>9. QED
    BY <1>8, <1>21, <2>6, <2>8
<1>22. QED
  BY <1>20, <1>21
-----------------------------------------------------------------------------
\* Lists whose ids grow, such as the list of resources and the symbol table.
HasIds(X) == \A x \in X : x.id \in Nat
Sorted(s, X) == s \in Seq(X) /\ \A j, k \in 1..Len(s) : j < k => s[j].id < s[k].id

LEMMA SortedFacts ==
    ASSUME NEW X, HasIds(X), NEW s, Sorted(s, X)
    PROVE  /\ Len(s) \in Nat /\ DOMAIN s = 1..Len(s)
           /\ ToSet(s) = {s[k] : k \in 1..Len(s)}
           /\ ToSet(s) \subseteq X
           /\ \A k \in 1..Len(s) : s[k] \in X /\ s[k].id \in Nat
           /\ \A x, y \in ToSet(s) : x.id = y.id => x = y
           /\ \A j, k \in 1..Len(s) : s[j] = s[k] => j = k
<1>1. s \in Seq(X) /\ \A j, k \in 1..Len(s) : j < k => s[j].id < s[k].id
  BY DEF Sorted
<1>2. PICK n \in Nat : n = Len(s) /\ DOMAIN s = 1..n /\ \A k \in 1..n : s[k] \in X
  BY <1>1
<1>3. \A k \in 1..n : s[k].id \in Nat
  BY <1>2 DEF HasIds
<1>4. ToSet(s) = {s[k] : k \in 1..n}
  BY <1>2, Zenon DEF ToSet
<1>5. \A j, k \in 1..n : s[j].id = s[k].id => j = k
  <2>1. ASSUME NEW j \in 1..n, NEW k \in 1..n, s[j].id = s[k].id, j # k
        PROVE  FALSE
    <3>1. j < k \/ k < j
      BY <2>1
    <3>2. s[j].id < s[k].id \/ s[k].id < s[j].id
      BY <1>1, <1>2, <3>1
    <3>3. QED
      BY <1>3, <2>1, <3>2
  <2>2. QED
    BY <2>1
<1>6. \A x, y \in ToSet(s) : x.id = y.id => x = y
  BY <1>4, <1>5
<1>7. ToSet(s) \subseteq X
  BY <1>2, <1>4
<1>8. QED
  BY <1>2, <1>3, <1>4, <1>5, <1>6, <1>7

LEMMA SortedAppend ==
    ASSUME NEW X, HasIds(X), NEW s, Sorted(s, X), NEW x \in X,
           \A y \in ToSet(s) : y.id < x.id
    PROVE  Sorted(Append(s, x), X) /\ ToSet(Append(s, x)) = ToSet(s) \cup {x}
<1>1. PICK n \in Nat : n = Len(s) /\ ToSet(s) = {s[k] : k \in 1..n}
  BY SortedFacts
<1>2. s \in Seq(X) /\ \A j, k \in 1..n : j < k => s[j].id < s[k].id
  BY <1>1 DEF Sorted
<1>3. PICK t \in Seq(X) : /\ t = Append(s, x) /\ Len(t) = n + 1
                          /\ \A k \in 1..n : t[k] = s[k]
                          /\ t[n + 1] = x
  <2>1. /\ Append(s, x) \in Seq(X) /\ Len(Append(s, x)) = Len(s) + 1
        /\ \A k \in 1..Len(s) : Append(s, x)[k] = s[k]
        /\ Append(s, x)[Len(s) + 1] = x
    BY <1>2, AppendProperties
  <2>2. QED
    BY <1>1, <2>1
<1>4. \A k \in 1..(n + 1) : k \in 1..n \/ k = n + 1
  OBVIOUS
<1>5. ASSUME NEW j \in 1..(n + 1), NEW k \in 1..(n + 1), j < k
      PROVE  t[j].id < t[k].id
  <2>1. j \in 1..n
    BY <1>5
  <2>2. CASE k \in 1..n
    BY <1>2, <1>3, <1>5, <2>1, <2>2
  <2>3. CASE k = n + 1
    BY <1>1, <1>3, <2>1, <2>3
  <2>4. QED
    BY <1>4, <2>2, <2>3
<1>6. Sorted(t, X)
  BY <1>3, <1>5 DEF Sorted
<1>7. ToSet(t) = {t[k] : k \in 1..(n + 1)}
  <2>1. DOMAIN t = 1..(n + 1)
    BY <1>3
  <2>2. QED
    BY <2>1, Zenon DEF ToSet
<1>8. ToSet(t) = ToSet(s) \cup {x}
  <2>1. 1..n \subseteq 1..(n + 1) /\ n + 1 \in 1..(n + 1)
    OBVIOUS
  <2>2. QED
    BY <1>1, <1>3, <1>4, <1>7, <2>1
<1>9. QED
  BY <1>3, <1>6, <1>8

LEMMA SortedWithout ==
    ASSUME NEW X, HasIds(X), NEW s, Sorted(s, X), NEW x \in ToSet(s)
    PROVE  Sorted(Without(s, x), X) /\ ToSet(Without(s, x)) = ToSet(s) \ {x}
<1>1. PICK n \in Nat : n = Len(s) /\ DOMAIN s = 1..n /\ ToSet(s) = {s[k] : k \in 1..n}
  BY SortedFacts
<1>2. s \in Seq(X) /\ (\A k \in 1..n : s[k] \in X)
      /\ \A j, k \in 1..n : j < k => s[j].id < s[k].id
  BY <1>1, SortedFacts DEF Sorted
<1>3. PICK p \in 1..n : p = (CHOOSE k \in DOMAIN s : s[k] = x) /\ s[p] = x
  <2>1. \E k \in 1..n : s[k] = x
    BY <1>1
  <2>2. QED
    BY <1>1, <2>1
<1>4. PICK a \in Int, b \in Int, c \in Int : a = 1 /\ b = p - 1 /\ c = p + 1
  OBVIOUS
<1>5. PICK u \in Seq(X) : u = SubSeq(s, a, b) /\ Len(u) = p - 1 /\ \A i \in 1..(p - 1) : u[i] = s[i]
  <2>1. \A i \in a..b : s[i] \in X
    BY <1>2, <1>4
  <2>2. /\ SubSeq(s, a, b) \in Seq(X)
        /\ Len(SubSeq(s, a, b)) = IF a <= b THEN b - a + 1 ELSE 0
        /\ \A i \in 1..(b - a + 1) : SubSeq(s, a, b)[i] = s[a + i - 1]
    BY <2>1, SubSeqProperties
  <2>3. b - a + 1 = p - 1 /\ (~ (a <= b) => p - 1 = 0) /\ \A i \in 1..(p - 1) : a + i - 1 = i
    BY <1>4
  <2>4. Len(SubSeq(s, a, b)) = p - 1
    BY <2>2, <2>3
  <2>5. \A i \in 1..(p - 1) : SubSeq(s, a, b)[i] = s[i]
    BY <2>2, <2>3
  <2>6. QED
    BY <2>2, <2>4, <2>5
<1>6. PICK w \in Seq(X) : w = SubSeq(s, c, n) /\ Len(w) = n - p /\ \A i \in 1..(n - p) : w[i] = s[p + i]
  <2>1. \A i \in c..n : s[i] \in X
    BY <1>2, <1>4
  <2>2. /\ SubSeq(s, c, n) \in Seq(X)
        /\ Len(SubSeq(s, c, n)) = IF c <= n THEN n - c + 1 ELSE 0
        /\ \A i \in 1..(n - c + 1) : SubSeq(s, c, n)[i] = s[c + i - 1]
    BY <2>1, SubSeqProperties
  <2>3. n - c + 1 = n - p /\ (~ (c <= n) => n - p = 0) /\ \A i \in 1..(n - p) : c + i - 1 = p + i
    BY <1>4
  <2>4. Len(SubSeq(s, c, n)) = n - p
    BY <2>2, <2>3
  <2>5. \A i \in 1..(n - p) : SubSeq(s, c, n)[i] = s[p + i]
    BY <2>2, <2>3
  <2>6. QED
    BY <2>2, <2>4, <2>5
<1>7. PICK t : t = Without(s, x)
  OBVIOUS
<1>8. t = u \o w
  <2>1. t = SubSeq(s, 1, p - 1) \o SubSeq(s, p + 1, Len(s))
    BY <1>3, <1>7, Zenon DEF Without, RemoveAt
  <2>2. QED
    BY <1>1, <1>4, <1>5, <1>6, <2>1
<1>9. /\ t \in Seq(X) /\ Len(t) = n - 1 /\ DOMAIN t = 1..(n - 1)
      /\ \A i \in 1..(n - 1) : t[i] = IF i < p THEN s[i] ELSE s[i + 1]
  <2>1. /\ u \o w \in Seq(X) /\ Len(u \o w) = Len(u) + Len(w)
        /\ \A i \in 1..Len(u) + Len(w) : (u \o w)[i] = IF i <= Len(u) THEN u[i] ELSE w[i - Len(u)]
    BY ConcatProperties
  <2>2. Len(u) + Len(w) = n - 1 /\ n - 1 \in Nat
    BY <1>5, <1>6
  <2>3. t \in Seq(X) /\ Len(t) = n - 1
    BY <1>8, <2>1, <2>2
  <2>4. ASSUME NEW i \in 1..(n - 1)
        PROVE  t[i] = IF i < p THEN s[i] ELSE s[i + 1]
    <3>1. t[i] = IF i <= p - 1 THEN u[i] ELSE w[i - (p - 1)]
      BY <1>5, <1>8, <2>1, <2>2
    <3>2. CASE i < p
      <4>1. i <= p - 1 /\ i \in 1..(p - 1)
        BY <3>2
      <4>2. QED
        BY <1>5, <3>1, <3>2, <4>1
    <3>3. CASE ~ (i < p)
      <4>1. ~ (i <= p - 1) /\ i - (p - 1) \in 1..(n - p) /\ p + (i - (p - 1)) = i + 1
        BY <3>3
      <4>2. w[i - (p - 1)] = s[i + 1]
        BY <1>6, <4>1
      <4>3. QED
        BY <3>1, <3>3, <4>1, <4>2
    <3>4. QED
      BY <3>2, <3>3
  <2>5. DOMAIN t = 1..(n - 1)
    BY <2>3, LenProperties
  <2>6. QED
    BY <2>3, <2>4, <2>5
<1>10. \A i \in 1..(n - 1) : i \in 1..n /\ i + 1 \in 1..n
  OBVIOUS
<1>11. ASSUME NEW j \in 1..(n - 1), NEW k \in 1..(n - 1), j < k
       PROVE  t[j].id < t[k].id
  <2>1. PICK g \in 1..n, h \in 1..n : t[j] = s[g] /\ t[k] = s[h] /\ g < h
    <3>1. CASE k < p
      <4>1. j < p /\ j \in 1..n /\ k \in 1..n
        BY <1>10, <1>11, <3>1
      <4>2. t[j] = s[j] /\ t[k] = s[k]
        BY <1>9, <3>1, <4>1
      <4>3. QED
        BY <1>11, <4>1, <4>2
    <3>2. CASE ~ (k < p) /\ j < p
      <4>1. j < k + 1
        BY <1>11
      <4>2. QED
        BY <1>9, <1>10, <3>2, <4>1
    <3>3. CASE ~ (j < p)
      <4>1. ~ (k < p) /\ j + 1 < k + 1
        BY <1>11, <3>3
      <4>2. QED
        BY <1>9, <1>10, <3>3, <4>1
    <3>4. QED
      BY <3>1, <3>2, <3>3
  <2>2. QED
    BY <1>2, <2>1
<1>12. Sorted(t, X)
  BY <1>9, <1>11 DEF Sorted
<1>13. ToSet(t) = {t[i] : i \in 1..(n - 1)}
  BY <1>9, Zenon DEF ToSet
<1>14. ToSet(t) \subseteq ToSet(s) \ {x}
  <2>1. ASSUME NEW i \in 1..(n - 1)
        PROVE  t[i] \in ToSet(s) \ {x}
    <3>1. PICK g \in 1..n : t[i] = s[g] /\ g # p
      <4>1. CASE i < p
        BY <1>9, <1>10, <4>1
      <4>2. CASE ~ (i < p)
        BY <1>9, <1>10, <4>2
      <4>3. QED
        BY <4>1, <4>2
    <3>2. s[g] # s[p]
      <4>1. \A j, k \in 1..n : s[j] = s[k] => j = k
        BY <1>1, SortedFacts, Zenon
      <4>2. QED
        BY <3>1, <4>1
    <3>3. QED
      BY <1>1, <1>3, <3>1, <3>2
  <2>2. QED
    BY <1>13, <2>1
<1>15. ToSet(s) \ {x} \subseteq ToSet(t)
  <2>1. ASSUME NEW k \in 1..n, k # p
        PROVE  s[k] \in ToSet(t)
    <3>1. CASE k < p
      <4>1. k \in 1..(n - 1) /\ t[k] = s[k]
        BY <1>9, <3>1
      <4>2. QED
        BY <1>13, <4>1
    <3>2. CASE ~ (k < p)
      <4>1. k - 1 \in 1..(n - 1) /\ ~ (k - 1 < p) /\ (k - 1) + 1 = k
        BY <2>1, <3>2
      <4>2. t[k - 1] = s[k]
        BY <1>9, <4>1
      <4>3. QED
        BY <1>13, <4>1, <4>2
    <3>3. QED
      BY <3>1, <3>2
  <2>2. QED
    BY <1>1, <1>3, <2>1
<1>16. QED
  BY <1>7, <1>12, <1>14, <1>15

LEMMA SortedFront ==
    ASSUME NEW X, HasIds(X), NEW s, Sorted(s, X), s # <<>>
    PROVE  /\ Sorted(Front(s), X) /\ ToSet(Front(s)) = ToSet(s) \ {Last(s)}
           /\ Last(s) \in ToSet(s) /\ \A y \in ToSet(s) : y.id <= Last(s).id
<1>1. PICK n \in Nat : n = Len(s) /\ ToSet(s) = {s[k] : k \in 1..n}
  BY SortedFacts
<1>2. /\ s \in Seq(X)
      /\ \A k \in 1..n : s[k] \in X /\ s[k].id \in Nat
      /\ \A j, k \in 1..n : j < k => s[j].id < s[k].id
      /\ \A j, k \in 1..n : s[j] = s[k] => j = k
  <2>1. s \in Seq(X) /\ \A j, k \in 1..n : j < k => s[j].id < s[k].id
    BY <1>1, Zenon DEF Sorted
  <2>2. \A k \in 1..n : s[k] \in X /\ s[k].id \in Nat
    BY <1>1, SortedFacts, Zenon
  <2>3. \A j, k \in 1..n : s[j] = s[k] => j = k
    BY <1>1, SortedFacts, Zenon
  <2>4. QED
    BY <2>1, <2>2, <2>3
<1>3. n # 0 /\ n \in 1..n
  BY <1>1, <1>2
<1>4. PICK l \in Int, h \in Int : l = 1 /\ h = n - 1
  OBVIOUS
<1>5. PICK t \in Seq(X) : /\ t = SubSeq(s, l, h) /\ Len(t) = n - 1
                          /\ \A k \in 1..(n - 1) : t[k] = s[k]
  <2>1. \A i \in l..h : s[i] \in X
    BY <1>2, <1>4
  <2>2. /\ SubSeq(s, l, h) \in Seq(X)
        /\ Len(SubSeq(s, l, h)) = IF l <= h THEN h - l + 1 ELSE 0
        /\ \A i \in 1..(h - l + 1) : SubSeq(s, l, h)[i] = s[l + i - 1]
    BY <2>1, SubSeqProperties
  <2>3. h - l + 1 = n - 1 /\ (~ (l <= h) => n - 1 = 0) /\ \A i \in 1..(n - 1) : l + i - 1 = i
    BY <1>3, <1>4
  <2>4. Len(SubSeq(s, l, h)) = n - 1
    BY <2>2, <2>3
  <2>5. \A i \in 1..(n - 1) : SubSeq(s, l, h)[i] = s[i]
    BY <2>2, <2>3
  <2>6. QED
    BY <2>2, <2>4, <2>5
<1>6. Front(s) = t /\ Last(s) = s[n]
  BY <1>1, <1>4, <1>5 DEF Front, Last
<1>7. \A k \in 1..n : k \in 1..(n - 1) \/ k = n
  OBVIOUS
<1>8. \A k \in 1..(n - 1) : k \in 1..n /\ k # n /\ k < n
  BY <1>3
<1>9. Sorted(t, X)
  <2>1. \A j, k \in 1..(n - 1) : j < k => t[j].id < t[k].id
    BY <1>2, <1>5, <1>8
  <2>2. QED
    BY <1>5, <2>1 DEF Sorted
<1>10. ToSet(t) = {t[k] : k \in 1..(n - 1)}
  <2>1. DOMAIN t = 1..(n - 1)
    BY <1>5
  <2>2. QED
    BY <2>1, Zenon DEF ToSet
<1>11. ToSet(t) = ToSet(s) \ {s[n]}
  <2>1. \A k \in 1..(n - 1) : t[k] \in ToSet(s) \ {s[n]}
    BY <1>1, <1>2, <1>3, <1>5, <1>8
  <2>2. \A k \in 1..n : s[k] # s[n] => s[k] \in ToSet(t)
    <3>1. ASSUME NEW k \in 1..n, s[k] # s[n]
          PROVE  s[k] \in ToSet(t)
      <4>1. k \in 1..(n - 1)
        BY <1>7, <3>1
      <4>2. QED
        BY <1>5, <1>10, <4>1
    <3>2. QED
      BY <3>1
  <2>3. QED
    BY <1>1, <1>10, <2>1, <2>2
<1>12. \A k \in 1..n : s[k].id <= s[n].id
  BY <1>2, <1>3
<1>13. QED
  BY <1>1, <1>3, <1>6, <1>9, <1>11, <1>12

\* Changing entries in place.
InPlace(s, t, X) ==
    /\ t = [k \in 1..Len(s) |-> t[k]]
    /\ \A k \in 1..Len(s) : t[k] \in X /\ t[k].id = s[k].id

LEMMA SortedMap ==
    ASSUME NEW X, HasIds(X), NEW s, Sorted(s, X), NEW t, InPlace(s, t, X)
    PROVE  Sorted(t, X) /\ Len(t) = Len(s) /\ ToSet(t) = {t[k] : k \in 1..Len(s)}
<1>1. PICK n \in Nat : n = Len(s)
  BY SortedFacts
<1>2. t \in Seq(X) /\ Len(t) = n /\ DOMAIN t = 1..n
  <2>1. t = [k \in 1..n |-> t[k]] /\ \A k \in 1..n : t[k] \in X
    BY <1>1, Zenon DEF InPlace
  <2>2. QED
    BY <2>1
<1>3. \A j, k \in 1..n : j < k => t[j].id < t[k].id
  BY <1>1 DEF Sorted, InPlace
<1>4. ToSet(t) = {t[k] : k \in 1..n}
  BY <1>2, Zenon DEF ToSet
<1>5. QED
  BY <1>1, <1>2, <1>3, <1>4 DEF Sorted

\* The elements of a sequence are finitely many.
LEMMA FiniteElems ==
    ASSUME NEW X, NEW s \in Seq(X)
    PROVE  IsFiniteSet(ToSet(s))
<1>1. Len(s) \in Nat /\ DOMAIN s = 1..Len(s)
  OBVIOUS
<1>2. PICK n \in Int : n = Len(s) /\ DOMAIN s = 1..n
  <2>1. PICK m \in Nat : m = Len(s)
    BY <1>1
  <2>2. m \in Int
    OBVIOUS
  <2>3. QED
    BY <1>1, <2>1, <2>2
<1>3. IsFiniteSet(1..n)
  <2>1. PICK a \in Int : a = 1
    OBVIOUS
  <2>2. IsFiniteSet(a..n)
    BY FS_Interval
  <2>3. QED
    BY <2>1, <2>2
<1>4. ToSet(s) = {s[k] : k \in 1..n}
  BY <1>2, Zenon DEF ToSet
<1>5. PICK f : f = [k \in 1..n |-> s[k]]
  OBVIOUS
<1>6. f \in Surjection(1..n, ToSet(s))
  BY <1>4, <1>5 DEF Surjection
<1>7. QED
  BY <1>3, <1>6, FS_Surjection
-----------------------------------------------------------------------------
\* Counting the references to a resource in a list of entries and in a symbol table.
UsersIn(L, i) == {r \in L : r.uses = i}
HoldersIn(T, i) == {b \in T : b.kind = "resource" /\ b.rsrc = i}
RefIn(L, i) == IF \E r \in L : r.id = i THEN (CHOOSE r \in L : r.id = i).ref ELSE 0
OneId(L) == \A x, y \in L : x.id = y.id => x = y
One(yes) == IF yes THEN 1 ELSE 0

LEMMA CountType ==
    ASSUME NEW L, IsFiniteSet(L), NEW i
    PROVE  /\ IsFiniteSet(UsersIn(L, i)) /\ Cardinality(UsersIn(L, i)) \in Nat
           /\ IsFiniteSet(HoldersIn(L, i)) /\ Cardinality(HoldersIn(L, i)) \in Nat
<1>1. UsersIn(L, i) \in SUBSET L /\ HoldersIn(L, i) \in SUBSET L
  BY DEF UsersIn, HoldersIn
<1>2. IsFiniteSet(UsersIn(L, i)) /\ IsFiniteSet(HoldersIn(L, i))
  BY <1>1, FS_Subset
<1>3. QED
  BY <1>2, FS_CardinalityType

CountsDrop(L, M, r, i) ==
    /\ Cardinality(UsersIn(M, i)) + One(r.uses = i) = Cardinality(UsersIn(L, i))
    /\ Cardinality(HoldersIn(M, i)) + One(r.kind = "resource" /\ r.rsrc = i)
           = Cardinality(HoldersIn(L, i))

LEMMA CountRemove ==
    ASSUME NEW L, IsFiniteSet(L), NEW r \in L, NEW M, M = L \ {r}, NEW i
    PROVE  CountsDrop(L, M, r, i)
<1>1. PICK A, B : A = UsersIn(L, i) /\ B = HoldersIn(L, i)
  OBVIOUS
<1>2. IsFiniteSet(A) /\ Cardinality(A) \in Nat /\ IsFiniteSet(B) /\ Cardinality(B) \in Nat
  BY <1>1, CountType
<1>3. UsersIn(L \ {r}, i) = A \ {r} /\ HoldersIn(L \ {r}, i) = B \ {r}
  BY <1>1 DEF UsersIn, HoldersIn
<1>4. (r \in A <=> r.uses = i) /\ (r \in B <=> r.kind = "resource" /\ r.rsrc = i)
  BY <1>1 DEF UsersIn, HoldersIn
<1>5. Cardinality(A \ {r}) = (IF r \in A THEN Cardinality(A) - 1 ELSE Cardinality(A))
      /\ Cardinality(B \ {r}) = (IF r \in B THEN Cardinality(B) - 1 ELSE Cardinality(B))
  BY <1>2, FS_RemoveElement
<1>6. Cardinality(A \ {r}) + One(r \in A) = Cardinality(A)
      /\ Cardinality(B \ {r}) + One(r \in B) = Cardinality(B)
  BY <1>2, <1>5 DEF One
<1>7. QED
  <2>1. Cardinality(UsersIn(M, i)) + One(r.uses = i) = Cardinality(UsersIn(L, i))
    BY <1>1, <1>3, <1>4, <1>6
  <2>2. Cardinality(HoldersIn(M, i)) + One(r.kind = "resource" /\ r.rsrc = i)
           = Cardinality(HoldersIn(L, i))
    BY <1>1, <1>3, <1>4, <1>6
  <2>3. QED
    BY <2>1, <2>2, Zenon DEF CountsDrop

LEMMA CountAdd ==
    ASSUME NEW L, IsFiniteSet(L), NEW r, r \notin L, NEW M, M = L \cup {r}, NEW i
    PROVE  CountsDrop(M, L, r, i) /\ IsFiniteSet(M)
<1>1. IsFiniteSet(M) /\ r \in M /\ L = M \ {r}
  BY FS_AddElement
<1>2. QED
  BY <1>1, CountRemove, Zenon

\* The count of an entry changes.
Swapped(L, r, q, N) == r \in L /\ q.id = r.id /\ q.uses = r.uses /\ N = (L \ {r}) \cup {q}

LEMMA CountReplace ==
    ASSUME NEW L, IsFiniteSet(L), OneId(L), NEW r, NEW q, NEW N, Swapped(L, r, q, N), NEW i
    PROVE  IsFiniteSet(N) /\ Cardinality(UsersIn(N, i)) = Cardinality(UsersIn(L, i))
<1>0. r \in L /\ q.id = r.id /\ q.uses = r.uses /\ N = (L \ {r}) \cup {q}
  BY DEF Swapped
<1>1. PICK M : M = L \ {r}
  OBVIOUS
<1>2. N = M \cup {q}
  BY <1>0, <1>1
<1>3. IsFiniteSet(M) /\ q \notin M
  BY <1>1, <1>0, FS_RemoveElement DEF OneId
<1>4. CountsDrop(N, M, q, i) /\ IsFiniteSet(N)
  BY <1>2, <1>3, CountAdd, Zenon
<1>5. CountsDrop(L, M, r, i)
  BY <1>0, <1>1, CountRemove, Zenon
<1>6. Cardinality(UsersIn(N, i)) = Cardinality(UsersIn(L, i))
  BY <1>0, <1>4, <1>5, Zenon DEF CountsDrop
<1>7. QED
  BY <1>1, <1>2, <1>4, <1>6, Zenon

LEMMA RefOf ==
    ASSUME NEW L, OneId(L), NEW r \in L
    PROVE  RefIn(L, r.id) = r.ref /\ r = (CHOOSE x \in L : x.id = r.id)
BY DEF RefIn, OneId

LEMMA RefNone ==
    ASSUME NEW L, NEW i, \A r \in L : r.id # i
    PROVE  RefIn(L, i) = 0
BY DEF RefIn

\* A list that differs in the entry r only.
LEMMA RefSame ==
    ASSUME NEW L, NEW M, OneId(L), OneId(M), NEW i,
           \A r \in L : r.id = i => r \in M, \A r \in M : r.id = i => r \in L
    PROVE  RefIn(M, i) = RefIn(L, i)
<1>1. CASE \E r \in L : r.id = i
  <2>1. PICK r \in L : r.id = i
    BY <1>1
  <2>2. RefIn(L, r.id) = r.ref
    BY RefOf
  <2>3. r \in M
    BY <2>1
  <2>4. RefIn(M, r.id) = r.ref
    BY <2>3, RefOf
  <2>5. QED
    BY <2>1, <2>2, <2>4
<1>2. CASE ~ \E r \in L : r.id = i
  <2>1. RefIn(L, i) = 0 /\ RefIn(M, i) = 0
    BY <1>2, RefNone
  <2>2. QED
    BY <2>1
<1>3. QED
  BY <1>1, <1>2
-----------------------------------------------------------------------------
\* The C stack.
Frames == [at : Labels, send : BOOLEAN, just : BOOLEAN, given : Seq(Nat), uses : Nat]

LEMMA FrameType ==
    /\ \A label \in Labels : Frame(label) \in Frames /\ Frame(label).at = label
                             /\ Frame(label).uses = 0
    /\ \A r : r.uses \in Nat => DtorFrame(r) \in Frames /\ DtorFrame(r).at = "dtor"
                                /\ DtorFrame(r).uses = r.uses
<1>1. <<>> \in Seq(Nat)
  OBVIOUS
<1>2. \A label \in Labels : Frame(label) \in Frames /\ Frame(label).at = label
                             /\ Frame(label).uses = 0
  BY <1>1 DEF Frame, Frames
<1>3. "dtor" \in Labels
  BY DEF Labels
<1>4. PICK f \in Frames : f = Frame("dtor") /\ f.at = "dtor"
  BY <1>2, <1>3
<1>5. ASSUME NEW r, r.uses \in Nat
      PROVE  DtorFrame(r) \in Frames /\ DtorFrame(r).at = "dtor" /\ DtorFrame(r).uses = r.uses
  <2>1. DtorFrame(r) = [f EXCEPT !.uses = r.uses]
    BY <1>4 DEF DtorFrame
  <2>2. QED
    BY <1>4, <1>5, <2>1 DEF Frames
<1>6. QED
  BY <1>2, <1>5

LEMMA Pushed ==
    ASSUME NEW f \in Frames, NEW s \in Seq(Frames)
    PROVE  /\ <<f>> \o s \in Seq(Frames) /\ <<f>> \o s # <<>>
           /\ Len(<<f>> \o s) = Len(s) + 1 /\ (<<f>> \o s)[1] = f
           /\ \A k \in 1..Len(s) : (<<f>> \o s)[k + 1] = s[k]
<1>1. PICK u \in Seq(Frames) : u = <<f>> /\ Len(u) = 1 /\ u[1] = f
  <2>1. <<f>> \in Seq(Frames) /\ Len(<<f>>) = 1 /\ <<f>>[1] = f
    OBVIOUS
  <2>2. QED
    BY <2>1, Zenon
<1>2. PICK n \in Nat : n = Len(s)
  OBVIOUS
<1>3. PICK t : t = u \o s
  OBVIOUS
<1>4. t \in Seq(Frames) /\ Len(t) = 1 + n
      /\ \A i \in 1..(1 + n) : t[i] = IF i <= 1 THEN u[i] ELSE s[i - 1]
  BY <1>1, <1>2, <1>3, ConcatProperties
<1>5. 1 \in 1..(1 + n) /\ \A k \in 1..n : k + 1 \in 1..(1 + n) /\ ~ (k + 1 <= 1) /\ (k + 1) - 1 = k
  OBVIOUS
<1>6. t[1] = f /\ \A k \in 1..n : t[k + 1] = s[k]
  BY <1>1, <1>4, <1>5
<1>7. t # <<>> /\ Len(t) = n + 1
  BY <1>4
<1>8. QED
  BY <1>1, <1>2, <1>3, <1>4, <1>6, <1>7

\* Does the destructor that is running delete the resource i when it returns?
Usage(s, i) == IF s # <<>> /\ s[1].at = "dtor" /\ s[1].uses = i THEN 1 ELSE 0
NoDtor(s) == s = <<>> \/ s[1].at # "dtor"
-----------------------------------------------------------------------------
\* The list of resources.
Entries == [id : Nat \ {0}, ref : Nat \ {0}, uses : Nat]
RegularInv ==
    /\ Sorted(regular, Entries)
    /\ \A r \in ToSet(regular) : r.uses < r.id /\ r.id <= opened
    /\ opened \in 0..MaxRsrc
    /\ destroyed \in [Rsrcs -> Nat]
    /\ \A id \in Rsrcs : destroyed[id] = IF id <= opened /\ id \notin Linked THEN 1 ELSE 0

UserCount(i) == Cardinality(UsersIn(ToSet(regular), i))
Ref(i) == RefIn(ToSet(regular), i)

LEMMA RegularFacts ==
    ASSUME RegularInv
    PROVE  /\ HasIds(Entries) /\ OneId(ToSet(regular)) /\ IsFiniteSet(ToSet(regular))
           /\ ToSet(regular) \subseteq Entries
           /\ \A r \in ToSet(regular) : r.id \in Rsrcs /\ r.uses \in 0..opened
           /\ opened \in Nat /\ MaxRsrc \in Nat
<1>1. HasIds(Entries)
  BY DEF HasIds, Entries
<1>2. Sorted(regular, Entries) /\ regular \in Seq(Entries)
  BY DEF RegularInv, Sorted
<1>3. OneId(ToSet(regular)) /\ ToSet(regular) \subseteq Entries
  BY <1>1, <1>2, SortedFacts DEF OneId
<1>4. IsFiniteSet(ToSet(regular))
  BY <1>2, FiniteElems
<1>5. MaxRsrc \in Nat /\ opened \in 0..MaxRsrc
  BY BoundsAssumption DEF RegularInv
<1>6. \A r \in ToSet(regular) : r.id \in Rsrcs /\ r.uses \in 0..opened
  BY <1>3, <1>5 DEF RegularInv, Rsrcs, Entries
<1>7. QED
  BY <1>1, <1>3, <1>4, <1>5, <1>6

LEMMA DestroyEffect ==
    ASSUME RegularInv, NEW r \in ToSet(regular), NEW rest \in Seq(Frames), NoDtor(rest),
           Destroy(r, rest), opened' = opened
    PROVE  /\ RegularInv'
           /\ stack' = <<DtorFrame(r)>> \o rest
           /\ \A i : UserCount(i)' + Usage(stack', i) = UserCount(i) + Usage(rest, i)
           /\ \A i : i # r.id => Ref(i)' = Ref(i)
           /\ Ref(r.id)' = 0
<1>1. /\ HasIds(Entries) /\ OneId(ToSet(regular)) /\ IsFiniteSet(ToSet(regular))
      /\ r \in Entries /\ r.id \in Rsrcs /\ r.uses \in 0..opened /\ r.id <= opened
      /\ Sorted(regular, Entries)
  BY RegularFacts DEF RegularInv
<1>2. /\ regular' = Without(regular, r)
      /\ destroyed' = [destroyed EXCEPT ![r.id] = destroyed[r.id] + 1]
      /\ stack' = <<DtorFrame(r)>> \o rest
  BY DEF Destroy
<1>3. PICK L, M : L = ToSet(regular) /\ M = ToSet(regular')
  OBVIOUS
<1>4. Sorted(regular', Entries) /\ M = L \ {r}
  BY <1>1, <1>2, <1>3, SortedWithout
<1>5. Linked = {q.id : q \in L} /\ Linked' = {q.id : q \in M}
  BY <1>3 DEF Linked
<1>6. Linked' = Linked \ {r.id} /\ r.id \in Linked
  BY <1>1, <1>3, <1>4, <1>5 DEF OneId
<1>7. RegularInv'
  <2>1. destroyed \in [Rsrcs -> Nat]
        /\ \A id \in Rsrcs : destroyed[id] = IF id <= opened /\ id \notin Linked THEN 1 ELSE 0
    BY DEF RegularInv
  <2>2. destroyed' \in [Rsrcs -> Nat]
    BY <1>1, <1>2, <2>1
  <2>3. \A id \in Rsrcs : destroyed'[id] = IF id <= opened /\ id \notin Linked' THEN 1 ELSE 0
    BY <1>1, <1>2, <1>6, <2>1
  <2>4. \A q \in M : q.uses < q.id /\ q.id <= opened
    BY <1>3, <1>4 DEF RegularInv
  <2>5. opened \in 0..MaxRsrc
    BY DEF RegularInv
  <2>6. QED
    BY <1>3, <1>4, <2>2, <2>3, <2>4, <2>5 DEF RegularInv
<1>8. ASSUME NEW i
      PROVE  UserCount(i)' + Usage(stack', i) = UserCount(i) + Usage(rest, i)
  <2>1. Cardinality(UsersIn(L \ {r}, i)) + One(r.uses = i) = Cardinality(UsersIn(L, i))
    <3>1. r \in L /\ IsFiniteSet(L)
      BY <1>1, <1>3
    <3>2. CountsDrop(L, L \ {r}, r, i)
      BY <3>1, CountRemove, Zenon
    <3>3. QED
      BY <3>2, Zenon DEF CountsDrop
  <2>2. UserCount(i) = Cardinality(UsersIn(L, i)) /\ UserCount(i)' = Cardinality(UsersIn(L \ {r}, i))
    BY <1>3, <1>4 DEF UserCount
  <2>3. Usage(rest, i) = 0
    BY DEF NoDtor, Usage
  <2>4. r.uses \in Nat
    BY <1>1, RegularFacts
  <2>5. PICK f \in Frames : f = DtorFrame(r) /\ f.at = "dtor" /\ f.uses = r.uses
    BY <2>4, FrameType, Zenon
  <2>6. stack' # <<>> /\ stack'[1] = f
    BY <1>2, <2>5, Pushed
  <2>7. Usage(stack', i) = IF r.uses = i THEN 1 ELSE 0
    BY <2>5, <2>6 DEF Usage
  <2>8. One(r.uses = i) = IF r.uses = i THEN 1 ELSE 0
    BY Zenon DEF One
  <2>9. Cardinality(UsersIn(L, i)) \in Nat
    BY <1>1, <1>3, CountType
  <2>10. Usage(stack', i) = One(r.uses = i)
    BY <2>7, <2>8, Zenon
  <2>11. UserCount(i) + 0 = UserCount(i)
    BY <2>2, <2>9
  <2>12. UserCount(i)' + Usage(stack', i) = UserCount(i)
    BY <2>1, <2>2, <2>10
  <2>13. QED
    BY <2>3, <2>11, <2>12
<1>9. OneId(M)
  BY <1>1, <1>3, <1>4 DEF OneId
<1>10. ASSUME NEW i, i # r.id
       PROVE  Ref(i)' = Ref(i)
  <2>1. RefIn(M, i) = RefIn(L, i)
    <3>1. (\A q \in L : q.id = i => q \in M) /\ (\A q \in M : q.id = i => q \in L)
      BY <1>4, <1>10
    <3>2. QED
      BY <1>1, <1>3, <1>9, <3>1, RefSame
  <2>2. QED
    BY <1>3, <2>1 DEF Ref
<1>11. Ref(r.id)' = 0
  <2>1. \A q \in M : q.id # r.id
    BY <1>1, <1>3, <1>4 DEF OneId
  <2>2. RefIn(M, r.id) = 0
    BY <2>1, RefNone
  <2>3. QED
    BY <1>3, <2>2 DEF Ref
<1>12. QED
  BY <1>2, <1>7, <1>8, <1>10, <1>11

\* Replacing an entry by one with another count.
Replaces(r, n, t) ==
    /\ Sorted(t, Entries) /\ Len(t) = Len(regular)
    /\ ToSet(t) = (ToSet(regular) \ {r}) \cup {[r EXCEPT !.ref = n]}
    /\ \A x \in ToSet(t) : x.uses < x.id /\ x.id <= opened
    /\ {x.id : x \in ToSet(t)} = Linked
    /\ \A i : Cardinality(UsersIn(ToSet(t), i)) = UserCount(i)
    /\ \A i : i # r.id => RefIn(ToSet(t), i) = Ref(i)
    /\ RefIn(ToSet(t), r.id) = n

Recounted(r, n) ==
    [k \in DOMAIN regular |-> IF regular[k] = r THEN [r EXCEPT !.ref = n] ELSE regular[k]]

LEMMA ReplaceEffect ==
    ASSUME RegularInv, NEW r \in ToSet(regular), NEW n \in Nat \ {0}, NEW t, t = Recounted(r, n)
    PROVE  Replaces(r, n, t)
<1>1. /\ HasIds(Entries) /\ OneId(ToSet(regular)) /\ IsFiniteSet(ToSet(regular))
      /\ r \in Entries
  BY RegularFacts
<1>2. PICK m \in Nat : m = Len(regular) /\ DOMAIN regular = 1..m
                      /\ ToSet(regular) = {regular[k] : k \in 1..m}
                      /\ \A k \in 1..m : regular[k] \in Entries
  BY <1>1, SortedFacts DEF RegularInv
<1>3. PICK q \in Entries : q = [r EXCEPT !.ref = n] /\ q.id = r.id /\ q.uses = r.uses /\ q.ref = n
  <2>1. [r EXCEPT !.ref = n] \in Entries
    BY <1>1 DEF Entries
  <2>2. [r EXCEPT !.ref = n].id = r.id /\ [r EXCEPT !.ref = n].uses = r.uses
        /\ [r EXCEPT !.ref = n].ref = n
    BY <1>1 DEF Entries
  <2>3. QED
    BY <2>1, <2>2
<1>4. t = [k \in 1..m |-> t[k]] /\ \A k \in 1..m : t[k] = IF regular[k] = r THEN q ELSE regular[k]
  BY <1>2, <1>3 DEF Recounted
<1>5. \A k \in 1..m : t[k] \in Entries /\ t[k].id = regular[k].id
  BY <1>2, <1>3, <1>4
<1>6. Sorted(t, Entries) /\ Len(t) = m /\ ToSet(t) = {t[k] : k \in 1..m}
  <2>1. Sorted(regular, Entries)
    BY Zenon DEF RegularInv
  <2>2. InPlace(regular, t, Entries)
    BY <1>2, <1>4, <1>5, Zenon DEF InPlace
  <2>3. Sorted(t, Entries) /\ Len(t) = Len(regular) /\ ToSet(t) = {t[k] : k \in 1..Len(regular)}
    BY <1>1, <2>1, <2>2, SortedMap
  <2>4. QED
    BY <1>2, <2>3, Zenon
<1>7. PICK L, M : L = ToSet(regular) /\ M = ToSet(t)
  OBVIOUS
<1>8. PICK p \in 1..m : regular[p] = r
  BY <1>2
<1>9. M = (L \ {r}) \cup {q}
  <2>1. \A k \in 1..m : t[k] \in (L \ {r}) \cup {q}
    BY <1>2, <1>4, <1>7
  <2>2. q \in M
    BY <1>4, <1>6, <1>7, <1>8
  <2>3. \A k \in 1..m : regular[k] # r => regular[k] \in M
    BY <1>4, <1>6, <1>7
  <2>4. L = {regular[k] : k \in 1..m} /\ M = {t[k] : k \in 1..m}
    BY <1>2, <1>6, <1>7, Zenon
  <2>5. M \subseteq (L \ {r}) \cup {q}
    BY <2>1, <2>4
  <2>6. L \ {r} \subseteq M
    BY <2>3, <2>4
  <2>7. QED
    BY <2>2, <2>5, <2>6
<1>10. r \in L /\ OneId(L) /\ IsFiniteSet(L)
  BY <1>1, <1>7
<1>11. OneId(M)
  <2>1. \A x, y \in ToSet(t) : x.id = y.id => x = y
    BY <1>1, <1>6, SortedFacts, Zenon
  <2>2. QED
    BY <1>7, <2>1, Zenon DEF OneId
<1>12. \A x \in M : x.uses < x.id /\ x.id <= opened
  <2>1. \A x \in L : x.uses < x.id /\ x.id <= opened
    BY <1>7 DEF RegularInv
  <2>2. QED
    BY <1>3, <1>9, <1>10, <2>1
<1>13. {x.id : x \in M} = Linked
  <2>1. Linked = {x.id : x \in L}
    BY <1>7 DEF Linked
  <2>2. QED
    BY <1>3, <1>9, <1>10, <2>1
<1>14. ASSUME NEW i
       PROVE  Cardinality(UsersIn(M, i)) = UserCount(i)
  <2>1. Cardinality(UsersIn(M, i)) = Cardinality(UsersIn(L, i))
    <3>1. Swapped(L, r, q, M)
      BY <1>3, <1>9, <1>10 DEF Swapped
    <3>2. QED
      BY <1>10, <3>1, CountReplace
  <2>2. QED
    BY <1>7, <1>9, <2>1 DEF UserCount
<1>15. ASSUME NEW i, i # r.id
       PROVE  RefIn(M, i) = Ref(i)
  <2>1. (\A x \in L : x.id = i => x \in M) /\ (\A x \in M : x.id = i => x \in L)
    BY <1>3, <1>9, <1>15
  <2>2. RefIn(M, i) = RefIn(L, i)
    BY <1>10, <1>11, <2>1, RefSame
  <2>3. QED
    BY <1>7, <2>2 DEF Ref
<1>16. RefIn(M, r.id) = n
  <2>1. q \in M
    BY <1>9
  <2>2. RefIn(M, q.id) = q.ref
    BY <1>11, <2>1, RefOf
  <2>3. QED
    BY <1>3, <2>2
<1>17. QED
  BY <1>2, <1>3, <1>6, <1>7, <1>9, <1>12, <1>13, <1>14, <1>15, <1>16, Zenon DEF Replaces

\* _zend_list_delete: a count is taken back, or the entry goes, and with its reference to
\* another entry the destructor's frame comes.
LEMMA DeleteEffect ==
    ASSUME RegularInv, NEW id \in Nat, NEW rest \in Seq(Frames), NoDtor(rest),
           Delete(id, rest), opened' = opened
    PROVE  /\ RegularInv'
           /\ stack' = rest \/ \E r \in ToSet(regular) : stack' = <<DtorFrame(r)>> \o rest
           /\ \A i : UserCount(i)' + Usage(stack', i) = UserCount(i) + Usage(rest, i)
           /\ \A i : i # id => Ref(i)' = Ref(i)
           /\ Ref(id) \in Nat /\ Ref(id)' \in Nat /\ Ref(id)' + 1 >= Ref(id)
<1>1. OneId(ToSet(regular)) /\ ToSet(regular) \subseteq Entries
  BY RegularFacts
<1>2. CASE id \notin Linked
  <2>1. stack' = rest /\ regular' = regular /\ destroyed' = destroyed
    BY <1>2, Zenon DEF Delete
  <2>2. RegularInv'
    BY <2>1 DEF RegularInv, Linked
  <2>3. \A i : UserCount(i)' = UserCount(i) /\ Ref(i)' = Ref(i)
    BY <2>1 DEF UserCount, Ref
  <2>4. Ref(id) = 0
    <3>1. \A r \in ToSet(regular) : r.id # id
      BY <1>2 DEF Linked
    <3>2. QED
      BY <3>1, RefNone DEF Ref
  <2>5. QED
    BY <2>1, <2>2, <2>3, <2>4
<1>3. CASE id \in Linked
  <2>1. PICK r \in ToSet(regular) : r = Entry(id) /\ r.id = id
    BY <1>3 DEF Entry, Linked
  <2>2. Ref(id) = r.ref /\ r.ref \in Nat \ {0}
    <3>1. RefIn(ToSet(regular), r.id) = r.ref
      BY <1>1, RefOf
    <3>2. QED
      BY <1>1, <2>1, <3>1 DEF Ref, Entries
  <2>3. CASE r.ref > 1
    <3>1. PICK n \in Nat \ {0} : n = r.ref - 1
      BY <2>2, <2>3
    <3>2. PICK t : t = Recounted(r, n)
      OBVIOUS
    <3>3. regular' = t /\ stack' = rest /\ destroyed' = destroyed
      BY <1>3, <2>1, <2>3, <3>1, <3>2 DEF Delete, Recounted
    <3>4. /\ Sorted(t, Entries)
          /\ \A x \in ToSet(t) : x.uses < x.id /\ x.id <= opened
          /\ {x.id : x \in ToSet(t)} = Linked
          /\ \A i : Cardinality(UsersIn(ToSet(t), i)) = UserCount(i)
          /\ \A i : i # r.id => RefIn(ToSet(t), i) = Ref(i)
          /\ RefIn(ToSet(t), r.id) = n
      <4>1. Replaces(r, n, t)
        BY <3>2, ReplaceEffect
      <4>2. QED
        BY <4>1, Zenon DEF Replaces
    <3>5. Linked' = Linked
      BY <3>3, <3>4 DEF Linked
    <3>6. RegularInv'
      <4>1. Sorted(regular', Entries) /\ \A x \in ToSet(regular') : x.uses < x.id /\ x.id <= opened'
        BY <3>3, <3>4
      <4>2. QED
        BY <3>3, <3>5, <4>1 DEF RegularInv
    <3>7. \A i : UserCount(i)' = UserCount(i)
      BY <3>3, <3>4 DEF UserCount
    <3>8. (\A i : i # id => Ref(i)' = Ref(i)) /\ Ref(id)' = n
      BY <2>1, <3>3, <3>4 DEF Ref
    <3>9. Ref(id)' \in Nat /\ Ref(id)' + 1 >= Ref(id)
      BY <2>2, <3>1, <3>8
    <3>10. QED
      BY <2>2, <3>3, <3>6, <3>7, <3>8, <3>9
  <2>4. CASE ~ (r.ref > 1)
    <3>1. Destroy(r, rest)
      BY <1>3, <2>1, <2>4, Zenon DEF Delete
    <3>2. /\ RegularInv'
          /\ stack' = <<DtorFrame(r)>> \o rest
          /\ \A i : UserCount(i)' + Usage(stack', i) = UserCount(i) + Usage(rest, i)
          /\ \A i : i # r.id => Ref(i)' = Ref(i)
          /\ Ref(r.id)' = 0
      BY <3>1, DestroyEffect, Zenon
    <3>3. Ref(id)' = 0 /\ Ref(id) = 1
      BY <2>1, <2>2, <2>4, <3>2
    <3>4. Ref(id) \in Nat /\ Ref(id)' \in Nat /\ Ref(id)' + 1 >= Ref(id)
      BY <3>3
    <3>5. QED
      BY <2>1, <3>2, <3>4, Zenon
  <2>5. QED
    BY <2>3, <2>4
<1>4. QED
  BY <1>2, <1>3

LEMMA Numbers ==
    ASSUME NEW s, Sorted(s, Entries)
    PROVE  \A i : Cardinality(UsersIn(ToSet(s), i)) \in Nat /\ RefIn(ToSet(s), i) \in Nat
<1>1. HasIds(Entries) /\ s \in Seq(Entries)
  BY DEF HasIds, Entries, Sorted
<1>2. ToSet(s) \subseteq Entries /\ OneId(ToSet(s))
  BY <1>1, SortedFacts DEF OneId
<1>3. IsFiniteSet(ToSet(s))
  BY <1>1, FiniteElems
<1>4. ASSUME NEW i
      PROVE  RefIn(ToSet(s), i) \in Nat
  <2>1. CASE \E r \in ToSet(s) : r.id = i
    <3>1. PICK r \in ToSet(s) : r.id = i
      BY <2>1
    <3>2. RefIn(ToSet(s), r.id) = r.ref
      BY <1>2, RefOf
    <3>3. r.ref \in Nat
      BY <1>2 DEF Entries
    <3>4. QED
      BY <3>1, <3>2, <3>3
  <2>2. CASE ~ \E r \in ToSet(s) : r.id = i
    BY <2>2, RefNone
  <2>3. QED
    BY <2>1, <2>2
<1>5. QED
  BY <1>3, <1>4, CountType
-----------------------------------------------------------------------------
\* The symbol table.
Buckets == [id : Nat \ {0}, var : Vars, kind : {"object", "spent", "resource"}, rsrc : Nat]
TableOK(t, o) ==
    /\ Sorted(t, Buckets)
    /\ \A a, b \in ToSet(t) : a.var = b.var => a = b
    /\ \A b \in ToSet(t) : b.kind = "resource" => b.rsrc \in 1..o
SameHolders(t, u) == \A i : HoldersIn(ToSet(t), i) = HoldersIn(ToSet(u), i)

LEMMA TableFacts ==
    ASSUME NEW t, NEW o, TableOK(t, o)
    PROVE  /\ HasIds(Buckets) /\ OneId(ToSet(t)) /\ IsFiniteSet(ToSet(t)) /\ ToSet(t) \subseteq Buckets
           /\ Len(t) \in Nat /\ DOMAIN t = 1..Len(t) /\ ToSet(t) = {t[k] : k \in 1..Len(t)}
           /\ \A k \in 1..Len(t) : t[k] \in Buckets
           /\ LastBucket(t) \in Nat /\ \A b \in ToSet(t) : b.id <= LastBucket(t)
<1>1. HasIds(Buckets)
  BY DEF HasIds, Buckets
<1>2. Sorted(t, Buckets) /\ t \in Seq(Buckets)
  BY DEF TableOK, Sorted
<1>3. /\ ToSet(t) \subseteq Buckets
      /\ Len(t) \in Nat /\ DOMAIN t = 1..Len(t) /\ ToSet(t) = {t[k] : k \in 1..Len(t)}
      /\ \A k \in 1..Len(t) : t[k] \in Buckets
  BY <1>1, <1>2, SortedFacts, Zenon
<1>4. OneId(ToSet(t))
  BY <1>1, <1>2, SortedFacts DEF OneId
<1>5. IsFiniteSet(ToSet(t))
  BY <1>2, FiniteElems
<1>6. LastBucket(t) \in Nat /\ \A b \in ToSet(t) : b.id <= LastBucket(t)
  <2>1. CASE t = <<>>
    <3>1. LastBucket(t) = 0 /\ ToSet(t) = {}
      BY <1>3, <2>1 DEF LastBucket
    <3>2. QED
      BY <3>1
  <2>2. CASE t # <<>>
    <3>1. Last(t) \in ToSet(t) /\ \A b \in ToSet(t) : b.id <= Last(t).id
      BY <1>1, <1>2, <2>2, SortedFront, Zenon
    <3>2. LastBucket(t) = Last(t).id
      BY <2>2 DEF LastBucket
    <3>3. Last(t).id \in Nat
      BY <1>3, <3>1 DEF Buckets
    <3>4. QED
      BY <3>1, <3>2, <3>3
  <2>3. QED
    BY <2>1, <2>2
<1>7. QED
  BY <1>1, <1>3, <1>4, <1>5, <1>6, Zenon

LEMMA TableMore ==
    ASSUME NEW t, NEW o \in Nat, TableOK(t, o)
    PROVE  TableOK(t, o + 1)
<1>1. \A x \in 1..o : x \in 1..(o + 1)
  OBVIOUS
<1>2. QED
  BY <1>1, Zenon DEF TableOK

LEMMA TableLess ==
    ASSUME NEW t, NEW o, TableOK(t, o), NEW u, Sorted(u, Buckets), ToSet(u) \subseteq ToSet(t)
    PROVE  TableOK(u, o)
BY Zenon DEF TableOK

LEMMA TableWithout ==
    ASSUME NEW t, NEW o, TableOK(t, o), NEW b \in ToSet(t)
    PROVE  TableOK(Without(t, b), o) /\ ToSet(Without(t, b)) = ToSet(t) \ {b}
<1>1. HasIds(Buckets) /\ Sorted(t, Buckets)
  BY TableFacts DEF TableOK
<1>2. PICK u : u = Without(t, b)
  OBVIOUS
<1>3. Sorted(u, Buckets) /\ ToSet(u) = ToSet(t) \ {b}
  BY <1>1, <1>2, SortedWithout
<1>4. TableOK(u, o)
  BY <1>3, TableLess
<1>5. QED
  BY <1>2, <1>3, <1>4

LEMMA TableFront ==
    ASSUME NEW t, NEW o, TableOK(t, o), t # <<>>
    PROVE  /\ TableOK(Front(t), o) /\ ToSet(Front(t)) = ToSet(t) \ {Last(t)}
           /\ Last(t) \in ToSet(t)
<1>1. HasIds(Buckets) /\ Sorted(t, Buckets)
  BY TableFacts DEF TableOK
<1>2. PICK u : u = Front(t)
  OBVIOUS
<1>3. Sorted(u, Buckets) /\ ToSet(u) = ToSet(t) \ {Last(t)} /\ Last(t) \in ToSet(t)
  BY <1>1, <1>2, SortedFront
<1>4. TableOK(u, o)
  BY <1>3, TableLess
<1>5. QED
  BY <1>2, <1>3, <1>4

\* Objects whose destructors need not be called any more.
SpentSome(t, u) ==
    /\ u = [k \in 1..Len(t) |-> u[k]]
    /\ \A k \in 1..Len(t) : \/ u[k] = t[k]
                            \/ t[k].kind = "object" /\ u[k] = [t[k] EXCEPT !.kind = "spent"]

LEMMA TableSpent ==
    ASSUME NEW t, NEW o, TableOK(t, o), NEW u, SpentSome(t, u)
    PROVE  TableOK(u, o) /\ SameHolders(t, u)
<1>1. /\ HasIds(Buckets) /\ ToSet(t) \subseteq Buckets
      /\ Len(t) \in Nat /\ ToSet(t) = {t[k] : k \in 1..Len(t)}
      /\ \A k \in 1..Len(t) : t[k] \in Buckets
  BY TableFacts, Zenon
<1>2. ASSUME NEW k \in 1..Len(t)
      PROVE  /\ u[k] \in Buckets /\ u[k].id = t[k].id /\ u[k].var = t[k].var
             /\ (u[k].kind = "resource" <=> t[k].kind = "resource")
             /\ (t[k].kind = "resource" => u[k] = t[k])
  <2>1. PICK b \in Buckets : b = t[k]
    BY <1>1
  <2>2. u[k] = b \/ (b.kind = "object" /\ u[k] = [b EXCEPT !.kind = "spent"])
    BY <2>1 DEF SpentSome
  <2>3. QED
    BY <2>1, <2>2 DEF Buckets
<1>3. InPlace(t, u, Buckets)
  BY <1>2 DEF InPlace, SpentSome
<1>4. Sorted(t, Buckets)
  BY DEF TableOK
<1>5. Sorted(u, Buckets) /\ ToSet(u) = {u[k] : k \in 1..Len(t)}
  BY <1>1, <1>3, <1>4, SortedMap
<1>6. \A j, k \in 1..Len(t) : u[j].var = u[k].var => u[j] = u[k]
  <2>1. ASSUME NEW j \in 1..Len(t), NEW k \in 1..Len(t), u[j].var = u[k].var
        PROVE  u[j] = u[k]
    <3>1. t[j].var = t[k].var /\ t[j] \in ToSet(t) /\ t[k] \in ToSet(t)
      BY <1>1, <1>2, <2>1
    <3>2. t[j] = t[k]
      BY <3>1, Zenon DEF TableOK
    <3>3. j = k
      BY <1>1, <1>4, <3>2, SortedFacts
    <3>4. QED
      BY <3>3
  <2>2. QED
    BY <2>1
<1>7. TableOK(u, o)
  <2>1. \A a, b \in ToSet(u) : a.var = b.var => a = b
    BY <1>5, <1>6
  <2>2. \A b \in ToSet(u) : b.kind = "resource" => b.rsrc \in 1..o
    <3>1. \A b \in ToSet(t) : b.kind = "resource" => b.rsrc \in 1..o
      BY Zenon DEF TableOK
    <3>2. QED
      BY <1>1, <1>2, <1>5, <3>1
  <2>3. QED
    BY <1>5, <2>1, <2>2, Zenon DEF TableOK
<1>8. ASSUME NEW i
      PROVE  HoldersIn(ToSet(t), i) = HoldersIn(ToSet(u), i)
  <2>1. \A b : b \in ToSet(t) /\ b.kind = "resource" <=> b \in ToSet(u) /\ b.kind = "resource"
    BY <1>1, <1>2, <1>5
  <2>2. QED
    BY <2>1 DEF HoldersIn
<1>9. QED
  BY <1>7, <1>8 DEF SameHolders

LEMMA MarkedSpent ==
    ASSUME NEW t, NEW o, TableOK(t, o)
    PROVE  SpentSome(t, Marked(t))
<1>1. DOMAIN t = 1..Len(t)
  BY TableFacts
<1>2. Marked(t) = [k \in 1..Len(t) |-> Marked(t)[k]]
  BY <1>1, Zenon DEF Marked
<1>3. ASSUME NEW k \in 1..Len(t)
      PROVE  \/ Marked(t)[k] = t[k]
             \/ t[k].kind = "object" /\ Marked(t)[k] = [t[k] EXCEPT !.kind = "spent"]
  <2>1. CASE t[k].kind = "object"
    <3>1. Marked(t)[k] = [t[k] EXCEPT !.kind = "spent"]
      BY <1>1, <2>1 DEF Marked
    <3>2. QED
      BY <2>1, <3>1, Zenon
  <2>2. CASE t[k].kind # "object"
    <3>1. Marked(t)[k] = t[k]
      BY <1>1, <2>2 DEF Marked
    <3>2. QED
      BY <3>1, Zenon
  <2>3. QED
    BY <2>1, <2>2, Zenon
<1>4. QED
  BY <1>2, <1>3, Zenon DEF SpentSome

Walks == [next : Nat, symbols : Nat, since : Nat]

\* The new bucket is the last one, and no walk has it for another.
LEMMA NewBucketLast ==
    ASSUME NEW o, TableOK(table, o), walk \in Walks, NEW v \in Vars,
           NEW kind \in {"object", "resource"}, NEW rsrc \in Nat, NEW b, b = NewBucket(v, kind, rsrc)
    PROVE  /\ b \in Buckets /\ b.var = v /\ b.kind = kind /\ b.rsrc = rsrc
           /\ \A x \in ToSet(table) : x.id < b.id
<1>1. PICK S : S = {x.id : x \in ToSet(table)} \cup {walk.next, walk.since}
  OBVIOUS
<1>2. walk.next \in Nat /\ walk.since \in Nat
  BY DEF Walks
<1>3. PICK l \in Nat : l = LastBucket(table) /\ \A x \in ToSet(table) : x.id <= l
  BY TableFacts
<1>4. S \subseteq Nat
  <2>1. ToSet(table) \subseteq Buckets
    BY TableFacts
  <2>2. QED
    BY <1>1, <1>2, <2>1 DEF Buckets
<1>5. PICK m \in S : \A y \in S : m >= y
  <2>1. CASE table = <<>>
    <3>1. ToSet(table) = {}
      BY <2>1 DEF ToSet
    <3>2. S = {walk.next, walk.since}
      BY <1>1, <3>1
    <3>3. walk.next >= walk.since \/ walk.since >= walk.next
      BY <1>2
    <3>4. QED
      BY <1>2, <3>2, <3>3
  <2>2. CASE table # <<>>
    <3>1. Last(table) \in ToSet(table) /\ l = Last(table).id
      BY <1>3, <2>2, TableFront DEF LastBucket
    <3>2. l \in S /\ \A y \in S : y <= l \/ y = walk.next \/ y = walk.since
      BY <1>1, <1>3, <3>1
    <3>3. CASE l >= walk.next /\ l >= walk.since
      BY <1>2, <1>3, <1>4, <3>2, <3>3
    <3>4. CASE walk.next >= l /\ walk.next >= walk.since
      <4>1. walk.next \in S
        BY <1>1
      <4>2. QED
        BY <1>2, <1>3, <1>4, <3>2, <3>4, <4>1
    <3>5. CASE walk.since >= l /\ walk.since >= walk.next
      <4>1. walk.since \in S
        BY <1>1
      <4>2. QED
        BY <1>2, <1>3, <1>4, <3>2, <3>5, <4>1
    <3>6. QED
      BY <1>2, <1>3, <3>3, <3>4, <3>5
  <2>3. QED
    BY <2>1, <2>2
<1>6. PICK n \in Nat : n = Max(S) /\ \A y \in S : n >= y
  <2>1. \E x \in S : \A y \in S : x >= y
    BY <1>5
  <2>2. Max(S) \in S /\ \A y \in S : Max(S) >= y
    BY <2>1 DEF Max
  <2>3. QED
    BY <1>4, <2>2
<1>7. b = [id |-> 1 + n, var |-> v, kind |-> kind, rsrc |-> rsrc]
  BY <1>1, <1>6 DEF NewBucket
<1>8. b \in Buckets /\ b.var = v /\ b.kind = kind /\ b.rsrc = rsrc /\ b.id = 1 + n
  BY <1>7 DEF Buckets
<1>9. \A x \in ToSet(table) : x.id \in S
  BY <1>1
<1>10. \A x \in ToSet(table) : x.id < b.id
  <2>1. \A y \in S : y < 1 + n
    BY <1>4, <1>6
  <2>2. QED
    BY <1>8, <1>9, <2>1
<1>11. QED
  BY <1>8, <1>10

LEMMA TableAppend ==
    ASSUME NEW t, NEW o, TableOK(t, o), NEW b \in Buckets,
           \A x \in ToSet(t) : x.id < b.id, \A x \in ToSet(t) : x.var # b.var,
           b.kind = "resource" => b.rsrc \in 1..o
    PROVE  /\ TableOK(Append(t, b), o) /\ ToSet(Append(t, b)) = ToSet(t) \cup {b}
           /\ b \notin ToSet(t)
<1>1. HasIds(Buckets) /\ Sorted(t, Buckets) /\ ToSet(t) \subseteq Buckets
  BY TableFacts DEF TableOK
<1>2. PICK u : u = Append(t, b)
  OBVIOUS
<1>3. Sorted(u, Buckets) /\ ToSet(u) = ToSet(t) \cup {b}
  BY <1>1, <1>2, SortedAppend
<1>4. TableOK(u, o)
  <2>1. \A x, y \in ToSet(t) : x.var = y.var => x = y
    BY Zenon DEF TableOK
  <2>2. \A x \in ToSet(t) : x.kind = "resource" => x.rsrc \in 1..o
    BY Zenon DEF TableOK
  <2>3. \A x, y \in ToSet(u) : x.var = y.var => x = y
    BY <1>3, <2>1
  <2>4. \A x \in ToSet(u) : x.kind = "resource" => x.rsrc \in 1..o
    BY <1>3, <2>2
  <2>5. QED
    BY <1>3, <2>3, <2>4, Zenon DEF TableOK
<1>5. QED
  BY <1>2, <1>3, <1>4
-----------------------------------------------------------------------------
\* Nothing runs on top of a resource's destructor, and nothing below what a module calls
\* at RSHUTDOWN; when the list of resources goes, no script runs any more, and then nothing
\* at all.
Suits(f, p) == (p = "resources" => f.at = "dtor") /\ (f.at = "rshutdown" => p = "modules")
StackOK(s, p, o) ==
    /\ s \in Seq(Frames)
    /\ \A k \in 1..Len(s) : s[k].uses \in 0..o
    /\ \A k \in 1..Len(s) : s[k].at = "dtor" => k = 1
    /\ \A k \in 1..Len(s) : s[k].at = "rshutdown" => k = Len(s)
    /\ \A k \in 1..Len(s) : Suits(s[k], p)
    /\ p \in {"ini", "over", "aborted"} => s = <<>>

LEMMA StackEmpty == \A p, o : StackOK(<<>>, p, o)
<1>1. <<>> \in Seq(Frames) /\ Len(<<>>) = 0
  OBVIOUS
<1>2. QED
  BY <1>1 DEF StackOK

LEMMA StackPush ==
    ASSUME NEW s, NEW p, NEW o, StackOK(s, p, o), NoDtor(s), NEW f \in Frames, f.uses \in 0..o,
           p \notin {"ini", "over", "aborted"}, Suits(f, p), f.at = "rshutdown" => s = <<>>
    PROVE  StackOK(<<f>> \o s, p, o)
<1>1. PICK n \in Nat : n = Len(s)
  BY DEF StackOK
<1>2. PICK t \in Seq(Frames) : /\ t = <<f>> \o s /\ Len(t) = n + 1 /\ t[1] = f
                               /\ \A k \in 1..n : t[k + 1] = s[k]
  <2>1. s \in Seq(Frames)
    BY DEF StackOK
  <2>2. /\ <<f>> \o s \in Seq(Frames) /\ Len(<<f>> \o s) = n + 1 /\ (<<f>> \o s)[1] = f
        /\ \A k \in 1..n : (<<f>> \o s)[k + 1] = s[k]
    BY <1>1, <2>1, Pushed
  <2>3. QED
    BY <2>2, Zenon
<1>3. /\ \A k \in 1..n : s[k].uses \in 0..o
      /\ \A k \in 1..n : s[k].at = "dtor" => k = 1
      /\ \A k \in 1..n : s[k].at = "rshutdown" => k = n
      /\ \A k \in 1..n : Suits(s[k], p)
  BY <1>1 DEF StackOK
<1>4. ASSUME NEW k \in 1..n
      PROVE  s[k].at # "dtor"
  <2>1. s # <<>> /\ 1 \in 1..n
    BY <1>1, <1>4
  <2>2. s[1].at # "dtor"
    BY <2>1 DEF NoDtor
  <2>3. QED
    BY <1>3, <2>2
<1>5. \A k \in 1..(n + 1) : k = 1 \/ (k - 1 \in 1..n /\ (k - 1) + 1 = k)
  OBVIOUS
<1>6. ASSUME NEW k \in 1..(n + 1)
      PROVE  /\ t[k].uses \in 0..o
             /\ t[k].at = "dtor" => k = 1
             /\ t[k].at = "rshutdown" => k = n + 1
             /\ Suits(t[k], p)
  <2>1. CASE k = 1
    <3>1. t[k] = f
      BY <1>2, <2>1
    <3>2. s = <<>> => n + 1 = 1
      BY <1>1
    <3>3. QED
      BY <2>1, <3>1, <3>2
  <2>2. CASE k # 1
    <3>1. k - 1 \in 1..n /\ t[k] = s[k - 1]
      BY <1>2, <1>5, <2>2
    <3>2. QED
      BY <1>3, <1>4, <3>1
  <2>3. QED
    BY <2>1, <2>2
<1>7. QED
  BY <1>2, <1>6 DEF StackOK

LEMMA StackPop ==
    ASSUME NEW s, NEW p, NEW o, StackOK(s, p, o), s # <<>>
    PROVE  StackOK(Tail(s), p, o) /\ NoDtor(Tail(s)) /\ Tail(s) \in Seq(Frames)
           /\ s[1] \in Frames /\ s[1].uses \in 0..o
<1>1. PICK n \in Nat : n = Len(s) /\ s \in Seq(Frames) /\ n # 0
  BY DEF StackOK
<1>2. PICK t \in Seq(Frames) : /\ t = Tail(s) /\ Len(t) = n - 1
                               /\ \A k \in 1..(n - 1) : t[k] = s[k + 1]
  <2>1. PICK t : t = Tail(s)
    OBVIOUS
  <2>2. s # <<>>
    BY <1>1
  <2>3. t \in Seq(Frames) /\ Len(t) = n - 1
    BY <1>1, <2>1, <2>2, HeadTailProperties
  <2>4. \A k \in 1..(n - 1) : t[k] = s[k + 1]
    BY <1>1, <2>1
  <2>5. QED
    BY <2>1, <2>3, <2>4, Zenon
<1>3. /\ \A k \in 1..n : s[k].uses \in 0..o
      /\ \A k \in 1..n : s[k].at = "dtor" => k = 1
      /\ \A k \in 1..n : s[k].at = "rshutdown" => k = n
      /\ \A k \in 1..n : Suits(s[k], p)
      /\ p \notin {"ini", "over", "aborted"}
  BY <1>1 DEF StackOK
<1>4. \A k \in 1..(n - 1) : k + 1 \in 1..n /\ k + 1 # 1
  OBVIOUS
<1>5. ASSUME NEW k \in 1..(n - 1)
      PROVE  /\ t[k].uses \in 0..o /\ t[k].at # "dtor"
             /\ t[k].at = "rshutdown" => k = n - 1
             /\ Suits(t[k], p)
  BY <1>2, <1>3, <1>4
<1>6. StackOK(t, p, o)
  BY <1>2, <1>3, <1>5 DEF StackOK
<1>7. NoDtor(t)
  <2>1. CASE t = <<>>
    BY <2>1 DEF NoDtor
  <2>2. CASE t # <<>>
    <3>1. 1 \in 1..(n - 1)
      BY <1>2, <2>2
    <3>2. QED
      BY <1>5, <3>1 DEF NoDtor
  <2>3. QED
    BY <2>1, <2>2
<1>8. 1 \in 1..n
  BY <1>1
<1>9. QED
  BY <1>1, <1>2, <1>3, <1>6, <1>7, <1>8

LEMMA StackMore ==
    ASSUME NEW s, NEW p, NEW o \in Nat, StackOK(s, p, o)
    PROVE  StackOK(s, p, o + 1)
<1>1. \A x \in 0..o : x \in 0..(o + 1)
  OBVIOUS
<1>2. QED
  BY <1>1, Zenon DEF StackOK
-----------------------------------------------------------------------------
\* The value of a bucket is destroyed.
DropsOne(b, i) == IF b.kind = "resource" /\ b.rsrc = i THEN 1 ELSE 0
NewFrame(f, o) == f \in Frames /\ f.uses \in 0..o /\ f.at \notin {"handler", "rshutdown"}
Runs(s, t, p, o) ==
    \/ t = s
    \/ \E f : NewFrame(f, o) /\ Suits(f, p) /\ t = <<f>> \o s

LEMMA KillEffect ==
    ASSUME RegularInv, NEW b \in Buckets, NEW rest \in Seq(Frames), NoDtor(rest),
           Kill(b, rest), opened' = opened, NEW p, p # "resources"
    PROVE  /\ RegularInv' /\ Runs(rest, stack', p, opened)
           /\ \A i : UserCount(i)' + Usage(stack', i) = UserCount(i)
           /\ \A i : Ref(i) \in Nat /\ Ref(i)' \in Nat /\ Ref(i)' + DropsOne(b, i) >= Ref(i)
<1>1. \A i : UserCount(i) \in Nat /\ Ref(i) \in Nat /\ Usage(rest, i) = 0
  <2>1. Sorted(regular, Entries)
    BY DEF RegularInv
  <2>2. \A i : UserCount(i) \in Nat /\ Ref(i) \in Nat
    BY <2>1, Numbers DEF UserCount, Ref
  <2>3. \A i : Usage(rest, i) = 0
    BY DEF NoDtor, Usage
  <2>4. QED
    BY <2>2, <2>3
<1>2. CASE b.kind = "resource"
  <2>1. Delete(b.rsrc, rest) /\ b.rsrc \in Nat
    BY <1>2 DEF Kill, Buckets
  <2>2. /\ RegularInv'
        /\ stack' = rest \/ \E r \in ToSet(regular) : stack' = <<DtorFrame(r)>> \o rest
        /\ \A i : UserCount(i)' + Usage(stack', i) = UserCount(i) + Usage(rest, i)
        /\ \A i : i # b.rsrc => Ref(i)' = Ref(i)
        /\ Ref(b.rsrc) \in Nat /\ Ref(b.rsrc)' \in Nat /\ Ref(b.rsrc)' + 1 >= Ref(b.rsrc)
    BY <2>1, DeleteEffect, Zenon
  <2>3. Runs(rest, stack', p, opened)
    <3>1. CASE stack' = rest
      BY <3>1 DEF Runs
    <3>2. CASE \E r \in ToSet(regular) : stack' = <<DtorFrame(r)>> \o rest
      <4>1. PICK r \in ToSet(regular) : stack' = <<DtorFrame(r)>> \o rest
        BY <3>2
      <4>2. r.uses \in 0..opened /\ r.uses \in Nat
        BY RegularFacts DEF Entries
      <4>3. DtorFrame(r) \in Frames /\ DtorFrame(r).at = "dtor" /\ DtorFrame(r).uses = r.uses
        BY <4>2, FrameType, Zenon
      <4>4. PICK f : f = DtorFrame(r) /\ f \in Frames /\ f.at = "dtor" /\ f.uses = r.uses
        BY <4>3
      <4>5. NewFrame(f, opened)
        BY <4>2, <4>4 DEF NewFrame
      <4>6. Suits(f, p)
        BY <4>4 DEF Suits
      <4>7. QED
        BY <4>1, <4>4, <4>5, <4>6, Zenon DEF Runs
    <3>3. QED
      BY <2>2, <3>1, <3>2
  <2>4. ASSUME NEW i
        PROVE  /\ UserCount(i)' + Usage(stack', i) = UserCount(i)
               /\ Ref(i) \in Nat /\ Ref(i)' \in Nat /\ Ref(i)' + DropsOne(b, i) >= Ref(i)
    <3>1. UserCount(i) + Usage(rest, i) = UserCount(i)
      BY <1>1
    <3>2. Ref(i) \in Nat /\ Ref(i)' \in Nat /\ Ref(i)' + DropsOne(b, i) >= Ref(i)
      <4>1. CASE i = b.rsrc
        <5>1. DropsOne(b, i) = 1
          BY <1>2, <4>1 DEF DropsOne
        <5>2. QED
          BY <2>2, <4>1, <5>1
      <4>2. CASE i # b.rsrc
        <5>1. DropsOne(b, i) = 0
          BY <4>2 DEF DropsOne
        <5>2. Ref(i)' = Ref(i)
          BY <2>2, <4>2
        <5>3. QED
          BY <1>1, <5>1, <5>2
      <4>3. QED
        BY <4>1, <4>2
    <3>3. QED
      BY <2>2, <3>1, <3>2
  <2>5. QED
    BY <2>2, <2>3, <2>4, Zenon
<1>3. CASE b.kind # "resource"
  <2>1. b.kind = "object" \/ b.kind = "spent"
    BY <1>3 DEF Buckets
  <2>2. regular' = regular /\ destroyed' = destroyed
    BY <2>1 DEF Kill
  <2>3. stack' = rest \/ stack' = <<Frame("destructor")>> \o rest
    BY <2>1 DEF Kill
  <2>4. RegularInv'
    BY <2>2 DEF RegularInv, Linked
  <2>5. PICK f : f = Frame("destructor") /\ f \in Frames /\ f.at = "destructor" /\ f.uses = 0
    BY FrameType DEF Labels, Bodies
  <2>6. NewFrame(f, opened)
    <3>1. 0 \in 0..opened
      BY RegularFacts
    <3>2. QED
      BY <2>5, <3>1 DEF NewFrame
  <2>7. Runs(rest, stack', p, opened)
    <3>1. Suits(f, p)
      BY <2>5 DEF Suits
    <3>2. QED
      BY <2>3, <2>5, <2>6, <3>1, Zenon DEF Runs
  <2>8. NoDtor(stack')
    <3>1. CASE stack' = rest
      BY <3>1
    <3>2. CASE stack' = <<Frame("destructor")>> \o rest
      <4>1. stack'[1] = f
        BY <2>5, <3>2, Pushed
      <4>2. QED
        BY <2>5, <4>1 DEF NoDtor
    <3>3. QED
      BY <2>3, <3>1, <3>2
  <2>9. ASSUME NEW i
        PROVE  /\ UserCount(i)' + Usage(stack', i) = UserCount(i)
               /\ Ref(i) \in Nat /\ Ref(i)' \in Nat /\ Ref(i)' + DropsOne(b, i) >= Ref(i)
    <3>1. Usage(stack', i) = 0
      BY <2>8 DEF NoDtor, Usage
    <3>2. UserCount(i)' = UserCount(i) /\ Ref(i)' = Ref(i)
      BY <2>2 DEF UserCount, Ref
    <3>3. DropsOne(b, i) = 0
      BY <1>3 DEF DropsOne
    <3>4. QED
      BY <1>1, <3>1, <3>2, <3>3
  <2>10. QED
    BY <2>4, <2>7, <2>9, Zenon
<1>4. QED
  BY <1>2, <1>3
-----------------------------------------------------------------------------
\* What the list of resources, the symbol table and the running destructor have to do
\* with each other: a resource that nothing has closed is referred to at most as often
\* as its entry counts, and not at all once the entry is gone.
CountsOK ==
    \A id \in (1..opened) \ closed :
        UserCount(id) + Cardinality(Holders(id)) + Usage(stack, id) <= Ref(id)
ListInv ==
    /\ RegularInv
    /\ TableOK(table, opened)
    /\ closed \subseteq 1..opened
    /\ CountsOK

Late == {"resources", "ini", "over", "aborted"}
FewerHolders(t, u) == \A i : HoldersIn(ToSet(u), i) \subseteq HoldersIn(ToSet(t), i)

LEMMA Held ==
    ASSUME NEW i
    PROVE  Holders(i) = IF phase \in Late THEN {} ELSE HoldersIn(ToSet(table), i)
BY DEF Holders, HoldersIn, Late

LEMMA CountNumbers ==
    ASSUME ListInv
    PROVE  \A i : /\ UserCount(i) \in Nat /\ Ref(i) \in Nat /\ Usage(stack, i) \in {0, 1}
                  /\ IsFiniteSet(Holders(i)) /\ Cardinality(Holders(i)) \in Nat
<1>1. Sorted(regular, Entries)
  BY DEF ListInv, RegularInv
<1>2. \A i : UserCount(i) \in Nat /\ Ref(i) \in Nat
  BY <1>1, Numbers DEF UserCount, Ref
<1>3. \A i : Usage(stack, i) \in {0, 1}
  BY DEF Usage
<1>4. ASSUME NEW i
      PROVE  IsFiniteSet(Holders(i)) /\ Cardinality(Holders(i)) \in Nat
  <2>1. TableOK(table, opened)
    BY DEF ListInv
  <2>2. IsFiniteSet(ToSet(table))
    BY <2>1, TableFacts
  <2>3. IsFiniteSet(HoldersIn(ToSet(table), i))
    BY <2>2, CountType
  <2>4. IsFiniteSet(Holders(i))
    BY <2>3, Held, FS_EmptySet
  <2>5. QED
    BY <2>4, FS_CardinalityType
<1>5. QED
  BY <1>2, <1>3, <1>4

LEMMA FewerHeld ==
    ASSUME ListInv, FewerHolders(table, table'), phase \in Late => phase' \in Late, NEW i
    PROVE  Cardinality(Holders(i)') <= Cardinality(Holders(i)) /\ Cardinality(Holders(i)') \in Nat
<1>1. Holders(i)' = IF phase' \in Late THEN {} ELSE HoldersIn(ToSet(table'), i)
  BY DEF Holders, HoldersIn, Late
<1>2. HoldersIn(ToSet(table'), i) \subseteq HoldersIn(ToSet(table), i)
  BY DEF FewerHolders
<1>3. Holders(i)' \in SUBSET Holders(i)
  BY <1>1, <1>2, Held
<1>4. IsFiniteSet(Holders(i))
  BY CountNumbers
<1>5. QED
  BY <1>3, <1>4, FS_Subset, FS_CardinalityType

\* A step that leaves the list of resources alone, and adds no holder.
LEMMA CalmList ==
    ASSUME ListInv, UNCHANGED resources,
           TableOK(table', opened), FewerHolders(table, table'),
           stack' = stack \/ NoDtor(stack'),
           phase \in Late => phase' \in Late
    PROVE  ListInv'
<1>1. regular' = regular /\ opened' = opened /\ destroyed' = destroyed /\ closed' = closed
  BY DEF resources
<1>2. RegularInv'
  BY <1>1 DEF ListInv, RegularInv, Linked
<1>3. TableOK(table', opened') /\ closed' \subseteq 1..opened'
  BY <1>1 DEF ListInv
<1>4. ASSUME NEW id \in (1..opened) \ closed
      PROVE  UserCount(id)' + Cardinality(Holders(id)') + Usage(stack', id) <= Ref(id)'
  <2>1. UserCount(id) + Cardinality(Holders(id)) + Usage(stack, id) <= Ref(id)
    BY <1>4 DEF ListInv, CountsOK
  <2>2. UserCount(id)' = UserCount(id) /\ Ref(id)' = Ref(id)
    BY <1>1 DEF UserCount, Ref
  <2>3. Cardinality(Holders(id)') <= Cardinality(Holders(id)) /\ Cardinality(Holders(id)') \in Nat
    BY FewerHeld
  <2>4. Usage(stack', id) \in {0, 1} /\ Usage(stack', id) <= Usage(stack, id)
    BY DEF Usage, NoDtor
  <2>5. /\ UserCount(id) \in Nat /\ Ref(id) \in Nat /\ Usage(stack, id) \in {0, 1}
        /\ Cardinality(Holders(id)) \in Nat
    BY CountNumbers
  <2>6. QED
    BY <2>1, <2>2, <2>3, <2>4, <2>5
<1>5. CountsOK'
  BY <1>1, <1>4 DEF CountsOK
<1>6. QED
  BY <1>2, <1>3, <1>5 DEF ListInv

\* The value of a bucket goes, and its reference with it.
LEMMA KillList ==
    ASSUME ListInv, stack \in Seq(Frames), NoDtor(stack), NEW b \in ToSet(table),
           TableOK(table', opened), ToSet(table') = ToSet(table) \ {b}, Kill(b, stack),
           opened' = opened, closed' = closed, phase \notin Late, phase' = phase
    PROVE  ListInv' /\ Runs(stack, stack', phase, opened)
<1>1. /\ RegularInv /\ TableOK(table, opened) /\ closed \subseteq 1..opened /\ CountsOK
      /\ b \in Buckets /\ IsFiniteSet(ToSet(table))
  BY TableFacts DEF ListInv
<1>2. phase # "resources"
  BY DEF Late
<1>3. /\ RegularInv' /\ Runs(stack, stack', phase, opened)
      /\ \A i : UserCount(i)' + Usage(stack', i) = UserCount(i)
      /\ \A i : Ref(i) \in Nat /\ Ref(i)' \in Nat /\ Ref(i)' + DropsOne(b, i) >= Ref(i)
  <2>1. stack \in Seq(Frames) /\ NoDtor(stack)
    OBVIOUS
  <2>2. QED
    BY <1>1, <1>2, <2>1, KillEffect, SMTT(60)
<1>4. ASSUME NEW i \in (1..opened) \ closed
      PROVE  UserCount(i)' + Cardinality(Holders(i)') + Usage(stack', i) <= Ref(i)'
  <2>1. UserCount(i) + Cardinality(Holders(i)) + Usage(stack, i) <= Ref(i)
    BY <1>1, <1>4 DEF CountsOK
  <2>2. Usage(stack, i) = 0
    BY DEF Usage, NoDtor
  <2>3. Holders(i) = HoldersIn(ToSet(table), i)
    BY Held
  <2>4. Holders(i)' = HoldersIn(ToSet(table'), i)
    BY DEF Holders, HoldersIn, Late
  <2>5. PICK T, U : T = ToSet(table) /\ U = ToSet(table') /\ U = T \ {b} /\ b \in T /\ IsFiniteSet(T)
    BY <1>1
  <2>6. CountsDrop(T, U, b, i)
    BY <2>5, CountRemove, Zenon
  <2>7. Cardinality(HoldersIn(U, i)) + One(b.kind = "resource" /\ b.rsrc = i)
           = Cardinality(HoldersIn(T, i))
    BY <2>6, Zenon DEF CountsDrop
  <2>8. One(b.kind = "resource" /\ b.rsrc = i) = DropsOne(b, i)
    BY Zenon DEF One, DropsOne
  <2>9. Cardinality(Holders(i)') + DropsOne(b, i) = Cardinality(Holders(i))
    BY <2>3, <2>4, <2>5, <2>7, <2>8
  <2>10. UserCount(i) \in Nat /\ Cardinality(Holders(i)) \in Nat
    BY CountNumbers
  <2>11. DropsOne(b, i) \in {0, 1}
    BY DEF DropsOne
  <2>12. IsFiniteSet(HoldersIn(U, i)) /\ Cardinality(HoldersIn(U, i)) \in Nat
    <3>1. IsFiniteSet(U)
      BY <2>5, FS_RemoveElement
    <3>2. QED
      BY <3>1, CountType
  <2>13. Cardinality(Holders(i)') \in Nat
    BY <2>4, <2>5, <2>12
  <2>14. Usage(stack', i) \in {0, 1}
    BY DEF Usage
  <2>15. UserCount(i)' \in Nat
    <3>1. Sorted(regular', Entries)
      BY <1>3 DEF RegularInv
    <3>2. QED
      BY <3>1, Numbers DEF UserCount
  <2>16. UserCount(i)' + Usage(stack', i) = UserCount(i)
         /\ Ref(i) \in Nat /\ Ref(i)' \in Nat /\ Ref(i)' + DropsOne(b, i) >= Ref(i)
    BY <1>3
  <2>17. QED
    BY <2>1, <2>2, <2>9, <2>10, <2>11, <2>13, <2>14, <2>15, <2>16, SMTT(60)
<1>5. CountsOK'
  BY <1>4 DEF CountsOK
<1>6. QED
  BY <1>1, <1>3, <1>5 DEF ListInv

\* An entry is deleted: the destructor that returns gives up its reference, or a
\* function of the script gives up one that it does not have.
LEMMA DeleteList ==
    ASSUME ListInv, StackOK(stack, phase, opened), NEW rest \in Seq(Frames), NoDtor(rest),
           NEW id \in Nat, Delete(id, rest), UNCHANGED <<table, opened, phase>>,
           \/ rest = stack /\ closed' = closed \cup {id} /\ id \in 1..opened
           \/ stack # <<>> /\ Top.at = "dtor" /\ Top.uses = id /\ closed' = closed
    PROVE  ListInv' /\ Runs(rest, stack', phase, opened)
<1>1. RegularInv /\ TableOK(table, opened) /\ closed \subseteq 1..opened /\ CountsOK
  BY DEF ListInv
<1>2. table' = table /\ opened' = opened /\ phase' = phase
  OBVIOUS
<1>3. /\ RegularInv'
      /\ stack' = rest \/ \E r \in ToSet(regular) : stack' = <<DtorFrame(r)>> \o rest
      /\ \A i : UserCount(i)' + Usage(stack', i) = UserCount(i) + Usage(rest, i)
      /\ \A i : i # id => Ref(i)' = Ref(i)
      /\ Ref(id) \in Nat /\ Ref(id)' \in Nat /\ Ref(id)' + 1 >= Ref(id)
  BY <1>1, <1>2, DeleteEffect, Zenon
<1>4. closed \subseteq closed' /\ closed' \subseteq 1..opened
  BY <1>1
<1>5. ASSUME NEW i \in (1..opened) \ closed'
      PROVE  UserCount(i)' + Cardinality(Holders(i)') + Usage(stack', i) <= Ref(i)'
  <2>1. UserCount(i) + Cardinality(Holders(i)) + Usage(stack, i) <= Ref(i)
    BY <1>1, <1>4, <1>5 DEF CountsOK
  <2>2. Usage(rest, i) = 0
    BY DEF Usage, NoDtor
  <2>3. Holders(i)' = Holders(i)
    BY <1>2 DEF Holders
  <2>4. /\ UserCount(i) \in Nat /\ Cardinality(Holders(i)) \in Nat /\ Ref(i) \in Nat
        /\ Usage(stack, i) \in {0, 1}
    BY CountNumbers
  <2>5. UserCount(i)' \in Nat
    <3>1. Sorted(regular', Entries)
      BY <1>3 DEF RegularInv
    <3>2. QED
      BY <3>1, Numbers DEF UserCount
  <2>6. Usage(stack', i) \in {0, 1}
    BY DEF Usage
  <2>7. UserCount(i)' + Usage(stack', i) = UserCount(i)
    <3>1. UserCount(i)' + Usage(stack', i) = UserCount(i) + Usage(rest, i)
      BY <1>3
    <3>2. UserCount(i) + 0 = UserCount(i)
      BY <2>4
    <3>3. QED
      BY <2>2, <3>1, <3>2
  <2>8. Ref(i)' \in Nat /\ Ref(i)' >= UserCount(i) + Cardinality(Holders(i))
    <3>1. CASE i # id
      <4>1. Ref(i)' = Ref(i)
        BY <1>3, <3>1
      <4>2. QED
        BY <2>1, <2>4, <4>1
    <3>2. CASE i = id
      <4>1. stack # <<>> /\ Top.at = "dtor" /\ Top.uses = id
        BY <1>5, <3>2
      <4>2. Usage(stack, i) = 1
        BY <3>2, <4>1 DEF Usage, Top
      <4>3. Ref(i)' \in Nat /\ Ref(i)' + 1 >= Ref(i)
        BY <1>3, <3>2
      <4>4. QED
        BY <2>1, <2>4, <4>2, <4>3
    <3>3. QED
      BY <3>1, <3>2
  <2>9. QED
    BY <2>3, <2>4, <2>5, <2>6, <2>7, <2>8
<1>6. CountsOK'
  BY <1>2, <1>5 DEF CountsOK
<1>7. Runs(rest, stack', phase, opened)
  <2>1. CASE stack' = rest
    BY <2>1 DEF Runs
  <2>2. CASE \E r \in ToSet(regular) : stack' = <<DtorFrame(r)>> \o rest
    <3>1. PICK r \in ToSet(regular) : stack' = <<DtorFrame(r)>> \o rest
      BY <2>2
    <3>2. r.uses \in 0..opened /\ r.uses \in Nat
      BY <1>1, RegularFacts DEF Entries
    <3>3. DtorFrame(r) \in Frames /\ DtorFrame(r).at = "dtor" /\ DtorFrame(r).uses = r.uses
      BY <3>2, FrameType, Zenon
    <3>4. PICK f : f = DtorFrame(r) /\ f \in Frames /\ f.at = "dtor" /\ f.uses = r.uses
      BY <3>3
    <3>5. NewFrame(f, opened) /\ Suits(f, phase)
      BY <3>2, <3>4 DEF NewFrame, Suits
    <3>6. QED
      BY <3>1, <3>4, <3>5, Zenon DEF Runs
  <2>3. QED
    BY <1>3, <2>1, <2>2
<1>8. QED
  BY <1>1, <1>2, <1>3, <1>4, <1>6, <1>7 DEF ListInv

\* The list is destroyed from its tail on, where the entries are that no other uses.
LEMMA DestroyList ==
    ASSUME ListInv, stack = <<>>, phase = "resources", regular # <<>>,
           Destroy(Last(regular), stack), UNCHANGED <<phase, table, opened, closed>>
    PROVE  ListInv' /\ Runs(stack, stack', phase, opened)
<1>1. RegularInv /\ TableOK(table, opened) /\ closed \subseteq 1..opened /\ CountsOK
  BY DEF ListInv
<1>2. table' = table /\ opened' = opened /\ phase' = phase /\ closed' = closed
  OBVIOUS
<1>3. HasIds(Entries) /\ Sorted(regular, Entries)
  BY <1>1, RegularFacts DEF RegularInv
<1>4. PICK r \in ToSet(regular) : r = Last(regular) /\ \A q \in ToSet(regular) : q.id <= r.id
  BY <1>3, SortedFront, Zenon
<1>5. stack \in Seq(Frames) /\ NoDtor(stack)
  BY DEF NoDtor
<1>6. Destroy(r, stack)
  BY <1>4
<1>7. /\ RegularInv'
      /\ stack' = <<DtorFrame(r)>> \o stack
      /\ \A i : UserCount(i)' + Usage(stack', i) = UserCount(i) + Usage(stack, i)
      /\ \A i : i # r.id => Ref(i)' = Ref(i)
      /\ Ref(r.id)' = 0
  BY <1>1, <1>2, <1>5, <1>6, DestroyEffect, Zenon
<1>8. UserCount(r.id) = 0
  <2>1. \A q \in ToSet(regular) : q.uses < q.id /\ q \in Entries
    BY <1>1, RegularFacts DEF RegularInv
  <2>2. \A q \in ToSet(regular) : q.uses # r.id
    <3>1. ASSUME NEW q \in ToSet(regular), q.uses = r.id
          PROVE  FALSE
      <4>1. q.uses < q.id /\ q.id <= r.id /\ q.id \in Nat /\ q.uses \in Nat
        BY <1>4, <2>1 DEF Entries
      <4>2. QED
        BY <3>1, <4>1
    <3>2. QED
      BY <3>1
  <2>3. UsersIn(ToSet(regular), r.id) = {}
    BY <2>2 DEF UsersIn
  <2>4. QED
    BY <2>3, FS_EmptySet DEF UserCount
<1>9. ASSUME NEW i \in (1..opened) \ closed
      PROVE  UserCount(i)' + Cardinality(Holders(i)') + Usage(stack', i) <= Ref(i)'
  <2>1. UserCount(i) + Cardinality(Holders(i)) + Usage(stack, i) <= Ref(i)
    BY <1>1, <1>9 DEF CountsOK
  <2>2. Usage(stack, i) = 0
    BY DEF Usage
  <2>3. Holders(i)' = {} /\ Cardinality(Holders(i)') = 0
    BY <1>2, FS_EmptySet DEF Holders
  <2>4. UserCount(i) \in Nat /\ Cardinality(Holders(i)) \in Nat /\ Ref(i) \in Nat
    BY CountNumbers
  <2>5. UserCount(i)' \in Nat
    <3>1. Sorted(regular', Entries)
      BY <1>7 DEF RegularInv
    <3>2. QED
      BY <3>1, Numbers DEF UserCount
  <2>6. Usage(stack', i) \in {0, 1}
    BY DEF Usage
  <2>7. UserCount(i)' + Usage(stack', i) = UserCount(i)
    <3>1. UserCount(i)' + Usage(stack', i) = UserCount(i) + Usage(stack, i)
      BY <1>7
    <3>2. UserCount(i) + 0 = UserCount(i)
      BY <2>4
    <3>3. QED
      BY <2>2, <3>1, <3>2
  <2>8. Ref(i)' \in Nat /\ Ref(i)' >= UserCount(i)
    <3>1. CASE i # r.id
      <4>1. Ref(i)' = Ref(i)
        BY <1>7, <3>1
      <4>2. QED
        BY <2>1, <2>2, <2>4, <4>1
    <3>2. CASE i = r.id
      BY <1>7, <1>8, <3>2
    <3>3. QED
      BY <3>1, <3>2
  <2>9. QED
    BY <2>3, <2>4, <2>5, <2>6, <2>7, <2>8
<1>10. CountsOK'
  BY <1>2, <1>9 DEF CountsOK
<1>11. Runs(stack, stack', phase, opened)
  <2>1. r.uses \in 0..opened /\ r.uses \in Nat
    BY <1>1, RegularFacts DEF Entries
  <2>2. DtorFrame(r) \in Frames /\ DtorFrame(r).at = "dtor" /\ DtorFrame(r).uses = r.uses
    BY <2>1, FrameType, Zenon
  <2>3. PICK f : f = DtorFrame(r) /\ f \in Frames /\ f.at = "dtor" /\ f.uses = r.uses
    BY <2>2
  <2>4. NewFrame(f, opened)
    BY <2>1, <2>3 DEF NewFrame
  <2>5. Suits(f, phase)
    BY <2>3 DEF Suits
  <2>6. QED
    BY <1>7, <2>3, <2>4, <2>5, Zenon DEF Runs
<1>12. QED
  BY <1>1, <1>2, <1>7, <1>10, <1>11 DEF ListInv

\* A resource is opened: the entry it uses, if any, counts one more.
Used(u) ==
    [k \in DOMAIN regular |->
        IF regular[k].id = u THEN [regular[k] EXCEPT !.ref = @ + 1] ELSE regular[k]]
UsedOnce(u, t) ==
    /\ Sorted(t, Entries)
    /\ \A x \in ToSet(t) : x.uses < x.id /\ x.id <= opened
    /\ {x.id : x \in ToSet(t)} = Linked
    /\ \A i : Cardinality(UsersIn(ToSet(t), i)) = UserCount(i)
    /\ \A i : i # u => RefIn(ToSet(t), i) = Ref(i)
    /\ u # 0 => RefIn(ToSet(t), u) = Ref(u) + 1

LEMMA UsedEffect ==
    ASSUME RegularInv, NEW u \in Linked \cup {0}
    PROVE  UsedOnce(u, Used(u))
<1>1. /\ HasIds(Entries) /\ OneId(ToSet(regular)) /\ ToSet(regular) \subseteq Entries
      /\ Sorted(regular, Entries) /\ \A x \in ToSet(regular) : x.uses < x.id /\ x.id <= opened
  BY RegularFacts DEF RegularInv
<1>2. PICK m \in Nat : m = Len(regular) /\ DOMAIN regular = 1..m
                      /\ ToSet(regular) = {regular[k] : k \in 1..m}
                      /\ \A k \in 1..m : regular[k] \in Entries
  BY <1>1, SortedFacts
<1>3. CASE u \in Linked
  <2>1. PICK r \in ToSet(regular) : r.id = u
    BY <1>3 DEF Linked
  <2>2. r \in Entries /\ r.ref + 1 \in Nat \ {0} /\ u # 0
    BY <1>1, <2>1 DEF Entries
  <2>3. Used(u) = Recounted(r, r.ref + 1)
    <3>1. ASSUME NEW k \in 1..m
          PROVE  regular[k].id = u <=> regular[k] = r
      BY <1>1, <1>2, <2>1, <3>1 DEF OneId
    <3>2. Used(u) = [k \in 1..m |-> IF regular[k].id = u
                                    THEN [regular[k] EXCEPT !.ref = regular[k].ref + 1] ELSE regular[k]]
      BY <1>2, Zenon DEF Used
    <3>3. Recounted(r, r.ref + 1)
            = [k \in 1..m |-> IF regular[k] = r THEN [r EXCEPT !.ref = r.ref + 1] ELSE regular[k]]
      BY <1>2, Zenon DEF Recounted
    <3>4. \A k \in 1..m : (IF regular[k].id = u
                           THEN [regular[k] EXCEPT !.ref = regular[k].ref + 1] ELSE regular[k])
               = IF regular[k] = r THEN [r EXCEPT !.ref = r.ref + 1] ELSE regular[k]
      BY <3>1
    <3>5. QED
      BY <3>2, <3>3, <3>4, Zenon
  <2>4. Replaces(r, r.ref + 1, Used(u))
    BY <2>2, <2>3, ReplaceEffect
  <2>5. PICK t : t = Used(u)
    OBVIOUS
  <2>6. /\ Sorted(t, Entries)
        /\ \A x \in ToSet(t) : x.uses < x.id /\ x.id <= opened
        /\ {x.id : x \in ToSet(t)} = Linked
        /\ \A i : Cardinality(UsersIn(ToSet(t), i)) = UserCount(i)
        /\ \A i : i # r.id => RefIn(ToSet(t), i) = Ref(i)
        /\ RefIn(ToSet(t), r.id) = r.ref + 1
    BY <2>4, <2>5, Zenon DEF Replaces
  <2>7. Ref(u) = r.ref
    BY <1>1, <2>1, RefOf DEF Ref
  <2>8. RefIn(ToSet(t), u) = Ref(u) + 1
    BY <2>1, <2>6, <2>7
  <2>9. QED
    BY <2>1, <2>5, <2>6, <2>8, Zenon DEF UsedOnce
<1>4. CASE u \notin Linked
  <2>1. u = 0
    BY <1>4
  <2>2. \A k \in 1..m : regular[k].id # u
    BY <1>2, <2>1 DEF Entries
  <2>3. Used(u) = regular
    <3>1. Used(u) = [k \in 1..m |-> IF regular[k].id = u
                                    THEN [regular[k] EXCEPT !.ref = regular[k].ref + 1] ELSE regular[k]]
      BY <1>2, Zenon DEF Used
    <3>2. regular = [k \in 1..m |-> regular[k]]
      BY <1>1, <1>2 DEF Sorted
    <3>3. \A k \in 1..m : (IF regular[k].id = u
                           THEN [regular[k] EXCEPT !.ref = regular[k].ref + 1] ELSE regular[k])
               = regular[k]
      BY <2>2
    <3>4. QED
      BY <3>1, <3>2, <3>3, Zenon
  <2>4. Linked = {x.id : x \in ToSet(regular)}
    BY Zenon DEF Linked
  <2>5. \A i : Cardinality(UsersIn(ToSet(regular), i)) = UserCount(i) /\ RefIn(ToSet(regular), i) = Ref(i)
    BY Zenon DEF UserCount, Ref
  <2>6. UsedOnce(u, regular)
    BY <1>1, <2>1, <2>4, <2>5, Zenon DEF UsedOnce
  <2>7. QED
    BY <2>3, <2>6
<1>5. QED
  BY <1>3, <1>4

LEMMA OpenEffect ==
    ASSUME RegularInv, opened < MaxRsrc, NEW u \in Linked \cup {0}, NEW n, n = opened + 1,
           NEW e, e = [id |-> opened + 1, ref |-> 1, uses |-> u],
           regular' = Append(Used(u), e), opened' = opened + 1, destroyed' = destroyed
    PROVE  /\ RegularInv'
           /\ \A i : UserCount(i)' = UserCount(i) + (IF i = u THEN 1 ELSE 0)
           /\ \A i : i # n /\ i # u => Ref(i)' = Ref(i)
           /\ u # 0 => Ref(u)' = Ref(u) + 1
           /\ UserCount(n)' = 0 /\ Ref(n)' = 1
<1>1. /\ HasIds(Entries) /\ opened \in Nat /\ MaxRsrc \in Nat
      /\ \A r \in ToSet(regular) : r.id \in Rsrcs /\ r.id <= opened
      /\ ToSet(regular) \subseteq Entries
  BY RegularFacts DEF RegularInv
<1>2. u \in 0..opened
  <2>1. \A i \in Linked : i \in 0..opened
    BY <1>1 DEF Linked, Entries
  <2>2. QED
    BY <1>1, <2>1
<1>3. e \in Entries /\ e.id = opened + 1 /\ e.ref = 1 /\ e.uses = u
  BY <1>1, <1>2 DEF Entries
<1>4. PICK t : t = Used(u)
  OBVIOUS
<1>5. UsedOnce(u, t)
  BY <1>4, UsedEffect
<1>6. /\ Sorted(t, Entries)
      /\ \A x \in ToSet(t) : x.uses < x.id /\ x.id <= opened
      /\ {x.id : x \in ToSet(t)} = Linked
      /\ \A i : Cardinality(UsersIn(ToSet(t), i)) = UserCount(i)
      /\ \A i : i # u => RefIn(ToSet(t), i) = Ref(i)
      /\ u # 0 => RefIn(ToSet(t), u) = Ref(u) + 1
  BY <1>5, Zenon DEF UsedOnce
<1>7. PICK T : T = ToSet(t) /\ T \subseteq Entries /\ IsFiniteSet(T) /\ OneId(T)
  <2>1. ToSet(t) \subseteq Entries /\ OneId(ToSet(t))
    BY <1>1, <1>6, SortedFacts DEF OneId
  <2>2. IsFiniteSet(ToSet(t))
    BY <1>6, FiniteElems DEF Sorted
  <2>3. QED
    BY <2>1, <2>2
<1>8. \A x \in T : x.id < e.id
  BY <1>1, <1>3, <1>6, <1>7 DEF Entries
<1>9. regular' = Append(t, e)
  BY <1>4
<1>10. Sorted(regular', Entries) /\ ToSet(regular') = T \cup {e}
  <2>1. \A x \in ToSet(t) : x.id < e.id
    BY <1>7, <1>8
  <2>2. PICK w : w = Append(t, e)
    OBVIOUS
  <2>3. Sorted(w, Entries) /\ ToSet(w) = ToSet(t) \cup {e}
    BY <1>1, <1>3, <1>6, <2>1, <2>2, SortedAppend
  <2>4. QED
    BY <1>7, <1>9, <2>2, <2>3
<1>11. PICK M : M = ToSet(regular') /\ M = T \cup {e} /\ e \notin T /\ OneId(M)
  <2>1. e \notin T
    BY <1>1, <1>3, <1>8
  <2>2. OneId(ToSet(regular'))
    BY <1>1, <1>10, SortedFacts DEF OneId
  <2>3. QED
    BY <1>10, <2>1, <2>2
<1>12. Linked' = Linked \cup {opened + 1}
  BY <1>3, <1>6, <1>7, <1>11 DEF Linked
<1>13. RegularInv'
  <2>1. /\ destroyed \in [Rsrcs -> Nat] /\ opened \in 0..MaxRsrc
        /\ \A id \in Rsrcs : destroyed[id] = IF id <= opened /\ id \notin Linked THEN 1 ELSE 0
    BY DEF RegularInv
  <2>2. opened' \in 0..MaxRsrc
    BY <1>1
  <2>3. ASSUME NEW id \in Rsrcs
        PROVE  destroyed[id] = IF id <= opened + 1 /\ id \notin Linked' THEN 1 ELSE 0
    <3>1. id \in Int
      BY <1>1 DEF Rsrcs
    <3>2. CASE id = opened + 1
      BY <1>1, <1>12, <2>1, <3>2
    <3>3. CASE id # opened + 1
      BY <1>1, <1>12, <2>1, <3>1, <3>3
    <3>4. QED
      BY <3>2, <3>3
  <2>4. \A x \in M : x.uses < x.id /\ x.id <= opened + 1
    <3>1. \A x \in T : x.uses < x.id /\ x.id <= opened + 1
      BY <1>1, <1>6, <1>7 DEF Entries
    <3>2. e.uses < e.id /\ e.id <= opened + 1
      BY <1>1, <1>2, <1>3
    <3>3. QED
      BY <1>11, <3>1, <3>2
  <2>5. \A x \in ToSet(regular') : x.uses < x.id /\ x.id <= opened'
    BY <1>11, <2>4
  <2>6. destroyed' \in [Rsrcs -> Nat]
    BY <2>1
  <2>7. \A id \in Rsrcs : destroyed'[id] = IF id <= opened' /\ id \notin Linked' THEN 1 ELSE 0
    BY <2>3
  <2>8. QED
    BY <1>10, <2>2, <2>5, <2>6, <2>7 DEF RegularInv
<1>14. ASSUME NEW i
       PROVE  UserCount(i)' = UserCount(i) + (IF i = u THEN 1 ELSE 0)
  <2>1. CountsDrop(M, T, e, i)
    BY <1>7, <1>11, CountAdd, Zenon
  <2>2. Cardinality(UsersIn(T, i)) + One(e.uses = i) = Cardinality(UsersIn(M, i))
    BY <2>1, Zenon DEF CountsDrop
  <2>3. One(e.uses = i) = IF i = u THEN 1 ELSE 0
    BY <1>3, Zenon DEF One
  <2>4. UserCount(i) = Cardinality(UsersIn(T, i)) /\ UserCount(i)' = Cardinality(UsersIn(M, i))
    BY <1>6, <1>7, <1>11 DEF UserCount
  <2>5. QED
    BY <2>2, <2>3, <2>4
<1>15. ASSUME NEW i, i # opened + 1
       PROVE  Ref(i)' = RefIn(T, i)
  <2>1. (\A x \in T : x.id = i => x \in M) /\ (\A x \in M : x.id = i => x \in T)
    BY <1>3, <1>11, <1>15
  <2>2. RefIn(M, i) = RefIn(T, i)
    BY <1>7, <1>11, <2>1, RefSame
  <2>3. QED
    BY <1>11, <2>2 DEF Ref
<1>16. \A i : i # opened + 1 /\ i # u => Ref(i)' = Ref(i)
  BY <1>6, <1>7, <1>15
<1>17. u # 0 => Ref(u)' = Ref(u) + 1
  <2>1. u # opened + 1
    BY <1>1, <1>2
  <2>2. QED
    BY <1>6, <1>7, <1>15, <2>1
<1>18. Ref(n)' = 1
  <2>1. e \in M
    BY <1>11
  <2>2. RefIn(M, e.id) = e.ref
    BY <1>11, <2>1, RefOf
  <2>3. QED
    BY <1>3, <1>11, <2>2 DEF Ref
<1>19. UserCount(n)' = 0
  <2>1. \A x \in M : x.uses # opened + 1
    <3>1. \A x \in T : x.uses # opened + 1
      <4>1. ASSUME NEW x \in T, x.uses = opened + 1
            PROVE  FALSE
        <5>1. x.uses < x.id /\ x.id <= opened /\ x.id \in Nat
          BY <1>6, <1>7 DEF Entries
        <5>2. QED
          BY <1>1, <4>1, <5>1
      <4>2. QED
        BY <4>1
    <3>2. e.uses # opened + 1
      BY <1>1, <1>2, <1>3
    <3>3. QED
      BY <1>11, <3>1, <3>2
  <2>2. UsersIn(M, opened + 1) = {}
    BY <2>1 DEF UsersIn
  <2>3. Cardinality(UsersIn(M, opened + 1)) = 0
    BY <2>2, FS_EmptySet
  <2>4. QED
    BY <1>11, <2>3 DEF UserCount
<1>20. QED
  BY <1>13, <1>14, <1>16, <1>17, <1>18, <1>19

LEMMA OpenList ==
    ASSUME ListInv, walk \in Walks, NoDtor(stack), NEW v \in Vars, v \notin Defined,
           NEW u \in Linked \cup {0}, NEW n, n = opened + 1, opened < MaxRsrc,
           opened' = opened + 1,
           regular' = Append(Used(u), [id |-> n, ref |-> 1, uses |-> u]),
           table' = Append(table, NewBucket(v, "resource", n)),
           UNCHANGED <<destroyed, closed, stack, phase>>
    PROVE  ListInv'
<1>1. /\ RegularInv /\ TableOK(table, opened) /\ closed \subseteq 1..opened /\ CountsOK
      /\ opened \in Nat /\ n \in Nat
  BY RegularFacts DEF ListInv
<1>2. destroyed' = destroyed /\ closed' = closed /\ stack' = stack /\ phase' = phase
  OBVIOUS
<1>3. /\ RegularInv'
      /\ \A i : UserCount(i)' = UserCount(i) + (IF i = u THEN 1 ELSE 0)
      /\ \A i : i # n /\ i # u => Ref(i)' = Ref(i)
      /\ u # 0 => Ref(u)' = Ref(u) + 1
      /\ UserCount(n)' = 0 /\ Ref(n)' = 1
  <2>1. PICK e : e = [id |-> opened + 1, ref |-> 1, uses |-> u]
    OBVIOUS
  <2>2. regular' = Append(Used(u), e)
    BY <2>1
  <2>3. QED
    BY <1>1, <1>2, <2>1, <2>2, OpenEffect
<1>4. PICK b : b = NewBucket(v, "resource", n)
  OBVIOUS
<1>5. /\ b \in Buckets /\ b.var = v /\ b.kind = "resource" /\ b.rsrc = n
      /\ \A x \in ToSet(table) : x.id < b.id
  BY <1>1, <1>4, NewBucketLast
<1>6. TableOK(table, opened + 1)
  BY <1>1, TableMore
<1>7. \A x \in ToSet(table) : x.var # b.var
  BY <1>5 DEF Defined
<1>8. n \in 1..(opened + 1)
  BY <1>1
<1>9. PICK T, U : /\ T = ToSet(table) /\ U = ToSet(table') /\ U = T \cup {b} /\ b \notin T
                  /\ TableOK(table', opened + 1)
  <2>1. /\ TableOK(Append(table, b), opened + 1)
        /\ ToSet(Append(table, b)) = ToSet(table) \cup {b} /\ b \notin ToSet(table)
    BY <1>5, <1>6, <1>7, <1>8, TableAppend
  <2>2. table' = Append(table, b)
    BY <1>4
  <2>3. QED
    BY <2>1, <2>2
<1>10. \A i : Usage(stack', i) = 0 /\ Usage(stack, i) = 0
  BY <1>2 DEF Usage, NoDtor
<1>11. ASSUME NEW i \in (1..(opened + 1)) \ closed
       PROVE  UserCount(i)' + Cardinality(Holders(i)') + Usage(stack', i) <= Ref(i)'
  <2>1. Holders(i)' = IF phase \in Late THEN {} ELSE HoldersIn(U, i)
    BY <1>2, <1>9 DEF Holders, HoldersIn, Late
  <2>2. CASE i = n
    <3>1. HoldersIn(T, i) = {}
      <4>1. \A x \in T : x.kind = "resource" => x.rsrc \in 1..opened
        BY <1>1, <1>9 DEF TableOK
      <4>2. \A x \in T : x.kind = "resource" => x.rsrc # n
        BY <1>1, <4>1
      <4>3. QED
        BY <2>2, <4>2 DEF HoldersIn
    <3>2. HoldersIn(U, i) = {b}
      BY <1>5, <1>9, <2>2, <3>1 DEF HoldersIn
    <3>3. Cardinality(Holders(i)') \in {0, 1}
      BY <2>1, <3>2, FS_EmptySet, FS_Singleton
    <3>4. QED
      BY <1>3, <1>10, <2>2, <3>3
  <2>3. CASE i # n
    <3>1. i \in (1..opened) \ closed
      BY <1>1, <2>3
    <3>2. UserCount(i) + Cardinality(Holders(i)) + Usage(stack, i) <= Ref(i)
      BY <1>1, <3>1 DEF CountsOK
    <3>3. HoldersIn(U, i) = HoldersIn(T, i)
      BY <1>5, <1>9, <2>3 DEF HoldersIn
    <3>4. Holders(i)' = Holders(i)
      BY <1>9, <2>1, <3>3, Held
    <3>5. UserCount(i) \in Nat /\ Cardinality(Holders(i)) \in Nat /\ Ref(i) \in Nat
      BY CountNumbers
    <3>6. UserCount(i)' = UserCount(i) + (IF i = u THEN 1 ELSE 0)
      BY <1>3
    <3>7. Ref(i)' = Ref(i) + (IF i = u THEN 1 ELSE 0)
      <4>1. CASE i = u
        <5>1. i # 0
          BY <3>1
        <5>2. QED
          BY <1>3, <4>1, <5>1
      <4>2. CASE i # u
        <5>1. Ref(i)' = Ref(i)
          BY <1>3, <2>3, <4>2
        <5>2. QED
          BY <3>5, <4>2, <5>1
      <4>3. QED
        BY <4>1, <4>2
    <3>8. QED
      BY <1>10, <3>2, <3>4, <3>5, <3>6, <3>7
  <2>4. QED
    BY <2>2, <2>3
<1>12. CountsOK'
  BY <1>2, <1>11 DEF CountsOK
<1>13. closed' \subseteq 1..opened'
  BY <1>1, <1>2
<1>14. QED
  BY <1>3, <1>9, <1>12, <1>13 DEF ListInv
-----------------------------------------------------------------------------
\* What runs when, and how often.
Reasons == {"no", "walked a freed bucket"}
ControlInv ==
    /\ phase \in Phases
    /\ steps \in 0..MaxSteps
    /\ functions \in 0..steps
    /\ printed \in 0..steps
    /\ walk \in Walks
    /\ ini \in {"original", "changed"}
    /\ {ob_lock, flushCut} \subseteq BOOLEAN
    /\ beyond \in Reasons
    /\ StackOK(stack, phase, opened)

\* What is still to be done in the last steps.
CleanInv ==
    /\ AfterFlush => \A k \in 1..Len(obs) : obs[k].late \/ flushCut
    /\ phase \in {"ini", "over"} => regular = <<>>
    /\ phase = "over" => ini = "original"

\* While a handler runs its buffer is the active one, with what the handler was given
\* and then what it has printed itself; and only one handler runs.
NoHandler(s) == \A k \in 1..Len(s) : s[k].at # "handler"
HandlerInv ==
    /\ ~ NoHandler(stack) => ob_lock /\ obs # <<>> /\ Active.handler
    /\ \A j, k \in 1..Len(stack) : stack[j].at = "handler" /\ stack[k].at = "handler" => j = k
    /\ \A k \in 1..Len(stack) : stack[k].at = "handler" =>
            \E rest \in Seq(Nat) : Active.text = stack[k].given \o rest

IInv == ControlInv /\ OutputInv /\ ListInv /\ CleanInv /\ HandlerInv

\* Script code runs in all steps but the last ones, and not from a resource's destructor.
LEMMA ScriptRuns ==
    ASSUME ControlInv, InScript
    PROVE  phase \notin Late /\ NoDtor(stack) /\ beyond = "no"
<1>1. StackOK(stack, phase, opened)
  BY DEF ControlInv
<1>2. CASE Quiet /\ phase = "script"
  BY <1>2 DEF Quiet, Late, NoDtor
<1>3. CASE \E label \in Bodies : At(label)
  <2>1. stack # <<>> /\ beyond = "no" /\ stack[1].at # "dtor"
    BY <1>3 DEF At, Bodies, Top
  <2>2. phase \notin {"ini", "over", "aborted"}
    BY <1>1, <2>1 DEF StackOK
  <2>3. 1 \in 1..Len(stack)
    BY <1>1, <2>1 DEF StackOK
  <2>4. phase # "resources"
    BY <1>1, <2>1, <2>3 DEF StackOK, Suits
  <2>5. QED
    BY <2>1, <2>2, <2>4 DEF Late, NoDtor
<1>4. QED
  BY <1>2, <1>3 DEF InScript

LEMMA StackRuns ==
    ASSUME NEW s, NEW t, NEW p, NEW o, StackOK(s, p, o), NoDtor(s), Runs(s, t, p, o),
           p \notin {"ini", "over", "aborted"}
    PROVE  StackOK(t, p, o)
<1>1. CASE t = s
  BY <1>1
<1>2. CASE \E f : NewFrame(f, o) /\ Suits(f, p) /\ t = <<f>> \o s
  <2>1. PICK f : NewFrame(f, o) /\ Suits(f, p) /\ t = <<f>> \o s
    BY <1>2
  <2>2. f \in Frames /\ f.uses \in 0..o /\ Suits(f, p) /\ f.at # "rshutdown"
    BY <2>1 DEF NewFrame
  <2>3. QED
    BY <2>1, <2>2, StackPush
<1>3. QED
  BY <1>1, <1>2 DEF Runs

\* The frames of handlers in t are frames of s, in their order.
Handlers(s, t) ==
    \E d \in Int : \A k \in 1..Len(t) :
        t[k].at = "handler" => k + d \in 1..Len(s) /\ t[k] = s[k + d]

LEMMA HandlersSame == \A s \in Seq(Frames) : Handlers(s, s)
<1> SUFFICES ASSUME NEW s \in Seq(Frames)
             PROVE  Handlers(s, s)
  OBVIOUS
<1>1. PICK n \in Nat : n = Len(s)
  OBVIOUS
<1>2. \A k \in 1..n : k + 0 = k
  OBVIOUS
<1>3. \A k \in 1..Len(s) : s[k].at = "handler" => k + 0 \in 1..Len(s) /\ s[k] = s[k + 0]
  BY <1>1, <1>2
<1>4. \E d \in Int : \A k \in 1..Len(s) : s[k].at = "handler" => k + d \in 1..Len(s) /\ s[k] = s[k + d]
  <2> WITNESS 0 \in Int
  <2> QED
    BY <1>3
<1>5. QED
  BY <1>4 DEF Handlers

LEMMA HandlersEmpty == \A s : Handlers(s, <<>>)
<1>1. Len(<<>>) = 0 /\ 0 \in Int
  OBVIOUS
<1>2. QED
  BY <1>1 DEF Handlers

LEMMA HandlersPush ==
    ASSUME NEW s \in Seq(Frames), NEW f \in Frames, f.at # "handler"
    PROVE  Handlers(s, <<f>> \o s)
<1>1. PICK n \in Nat : n = Len(s)
  OBVIOUS
<1>2. PICK t \in Seq(Frames) : /\ t = <<f>> \o s /\ Len(t) = n + 1 /\ t[1] = f
                               /\ \A k \in 1..n : t[k + 1] = s[k]
  <2>1. /\ <<f>> \o s \in Seq(Frames) /\ Len(<<f>> \o s) = n + 1 /\ (<<f>> \o s)[1] = f
        /\ \A k \in 1..n : (<<f>> \o s)[k + 1] = s[k]
    BY <1>1, Pushed
  <2>2. QED
    BY <2>1, Zenon
<1>3. ASSUME NEW k \in 1..(n + 1), t[k].at = "handler"
      PROVE  k + (-1) \in 1..n /\ t[k] = s[k + (-1)]
  <2>1. k # 1
    BY <1>2, <1>3
  <2>2. k + (-1) \in 1..n /\ (k + (-1)) + 1 = k
    BY <2>1
  <2>3. QED
    BY <1>2, <2>2
<1>4. -1 \in Int
  OBVIOUS
<1>5. Handlers(s, t)
  BY <1>1, <1>2, <1>3, <1>4 DEF Handlers
<1>6. QED
  BY <1>2, <1>5

LEMMA HandlersTail ==
    ASSUME NEW s \in Seq(Frames), s # <<>>
    PROVE  Handlers(s, Tail(s))
<1>1. PICK n \in Nat : n = Len(s)
  OBVIOUS
<1>2. PICK t : t = Tail(s)
  OBVIOUS
<1>3. Len(t) = n - 1 /\ \A k \in 1..(n - 1) : t[k] = s[k + 1]
  <2>1. Len(t) = n - 1
    BY <1>1, <1>2, HeadTailProperties
  <2>2. \A k \in 1..(n - 1) : t[k] = s[k + 1]
    BY <1>1, <1>2
  <2>3. QED
    BY <2>1, <2>2
<1>4. \A k \in 1..(n - 1) : k + 1 \in 1..n
  OBVIOUS
<1>5. Handlers(s, t)
  <2>1. 1 \in Int
    OBVIOUS
  <2>2. \A k \in 1..Len(t) : t[k].at = "handler" => k + 1 \in 1..Len(s) /\ t[k] = s[k + 1]
    BY <1>1, <1>3, <1>4, Zenon
  <2>3. QED
    BY <2>1, <2>2, Zenon DEF Handlers
<1>6. QED
  BY <1>2, <1>5

LEMMA HandlersTrans ==
    ASSUME NEW s, NEW t, NEW u, Len(t) \in Nat, Len(u) \in Nat, Handlers(s, t), Handlers(t, u)
    PROVE  Handlers(s, u)
<1>1. PICK d \in Int : \A k \in 1..Len(t) :
        t[k].at = "handler" => k + d \in 1..Len(s) /\ t[k] = s[k + d]
  BY DEF Handlers
<1>2. PICK e \in Int : \A k \in 1..Len(u) :
        u[k].at = "handler" => k + e \in 1..Len(t) /\ u[k] = t[k + e]
  BY DEF Handlers
<1>3. PICK f \in Int : f = e + d
  OBVIOUS
<1>4. ASSUME NEW k \in 1..Len(u), u[k].at = "handler"
      PROVE  k + f \in 1..Len(s) /\ u[k] = s[k + f]
  <2>1. k + e \in 1..Len(t) /\ u[k] = t[k + e]
    BY <1>2, <1>4
  <2>2. (k + e) + d \in 1..Len(s) /\ t[k + e] = s[(k + e) + d]
    BY <1>1, <1>4, <2>1
  <2>3. k \in Int /\ (k + e) + d = k + f
    BY <1>3
  <2>4. QED
    BY <2>1, <2>2, <2>3
<1>5. QED
  BY <1>4 DEF Handlers

LEMMA HandlersRuns ==
    ASSUME NEW s \in Seq(Frames), NEW t, NEW p, NEW o, Runs(s, t, p, o)
    PROVE  Handlers(s, t)
<1>1. CASE t = s
  BY <1>1, HandlersSame
<1>2. CASE \E f : NewFrame(f, o) /\ Suits(f, p) /\ t = <<f>> \o s
  <2>1. PICK f : NewFrame(f, o) /\ t = <<f>> \o s
    BY <1>2
  <2>2. QED
    BY <2>1, HandlersPush DEF NewFrame
<1>3. QED
  BY <1>1, <1>2 DEF Runs

LEMMA HandlerNone ==
    ASSUME NoHandler(stack')
    PROVE  HandlerInv'
BY DEF HandlerInv, NoHandler

\* The buffer of the handler that runs only gets more text.
LEMMA HandlerKept ==
    ASSUME HandlerInv, stack \in Seq(Frames), stack' \in Seq(Frames), Handlers(stack, stack'),
           ~ NoHandler(stack) =>
               /\ ob_lock' /\ obs' # <<>> /\ Active'.handler
               /\ \E more \in Seq(Nat) : Active'.text = Active.text \o more
    PROVE  HandlerInv'
<1>1. PICK d \in Int : \A k \in 1..Len(stack') :
        stack'[k].at = "handler" => k + d \in 1..Len(stack) /\ stack'[k] = stack[k + d]
  BY DEF Handlers
<1>2. \A j, k \in 1..Len(stack) : stack[j].at = "handler" /\ stack[k].at = "handler" => j = k
  BY DEF HandlerInv
<1>3. ASSUME NEW j \in 1..Len(stack'), NEW k \in 1..Len(stack'),
             stack'[j].at = "handler", stack'[k].at = "handler"
      PROVE  j = k
  <2>1. j + d = k + d
    BY <1>1, <1>2, <1>3
  <2>2. j \in Int /\ k \in Int
    OBVIOUS
  <2>3. QED
    BY <2>1, <2>2
<1>4. ASSUME NEW k \in 1..Len(stack'), stack'[k].at = "handler"
      PROVE  /\ ob_lock' /\ obs' # <<>> /\ Active'.handler
             /\ \E rest \in Seq(Nat) : Active'.text = stack'[k].given \o rest
  <2>1. PICK i \in 1..Len(stack) : stack'[k] = stack[i] /\ stack[i].at = "handler"
    BY <1>1, <1>4
  <2>2. ~ NoHandler(stack)
    BY <2>1 DEF NoHandler
  <2>3. PICK rest \in Seq(Nat) : Active.text = stack[i].given \o rest
    BY <2>1 DEF HandlerInv
  <2>4. PICK more \in Seq(Nat) : Active'.text = Active.text \o more
    BY <2>2
  <2>5. PICK given \in Seq(Nat) : given = stack[i].given
    <3>1. stack[i] \in Frames
      BY <2>1
    <3>2. stack[i].given \in Seq(Nat)
      BY <3>1 DEF Frames
    <3>3. QED
      BY <3>2
  <2>6. Associates(given, rest, more)
    BY Associative
  <2>7. Active'.text = given \o (rest \o more)
    BY <2>3, <2>4, <2>5, <2>6, Zenon DEF Associates
  <2>8. rest \o more \in Seq(Nat)
    OBVIOUS
  <2>9. \E more2 \in Seq(Nat) : Active'.text = stack'[k].given \o more2
    BY <2>1, <2>5, <2>7, <2>8, Zenon
  <2>10. QED
    BY <2>2, <2>9
<1>5. ~ NoHandler(stack') => ob_lock' /\ obs' # <<>> /\ Active'.handler
  BY <1>4, Zenon DEF NoHandler
<1>6. \A k \in 1..Len(stack') : stack'[k].at = "handler" =>
            \E rest \in Seq(Nat) : Active'.text = stack'[k].given \o rest
  BY <1>4, Zenon
<1>7. QED
  BY <1>3, <1>5, <1>6, Zenon DEF HandlerInv
-----------------------------------------------------------------------------
LEMMA OutputSame ==
    ASSUME OutputInv, UNCHANGED output
    PROVE  /\ OutputInv' /\ SameBuffers(obs, obs') /\ obs' = obs
           /\ ob_lock' = ob_lock /\ printed' = printed /\ Active' = Active
<1>1. obs' = obs /\ ob_lock' = ob_lock /\ client' = client /\ printed' = printed /\ gone' = gone
  BY DEF output
<1>2. OutputInv'
  BY <1>1, Zenon DEF OutputInv
<1>3. Len(obs) \in Nat
  BY DEF OutputInv, BuffersOK
<1>4. SameBuffers(obs, obs')
  BY <1>1, <1>3 DEF SameBuffers
<1>5. QED
  BY <1>1, <1>2, <1>4 DEF Active

LEMMA CleanKept ==
    ASSUME CleanInv, SameBuffers(obs, obs') \/ obs' = <<>>, flushCut => flushCut',
           AfterFlush' => AfterFlush \/ flushCut' \/ obs' = <<>>,
           phase' \in {"ini", "over"} => regular' = <<>>,
           phase' = "over" => ini' = "original"
    PROVE  CleanInv'
<1>1. ASSUME AfterFlush', NEW k \in 1..Len(obs')
      PROVE  obs'[k].late \/ flushCut'
  <2>1. obs' # <<>>
    BY <1>1
  <2>2. CASE flushCut'
    BY <2>2
  <2>3. CASE AfterFlush /\ ~ flushCut'
    <3>1. Len(obs') \in Nat /\ Len(obs') <= Len(obs) /\ obs'[k].late = obs[k].late
      BY <1>1, <2>1 DEF SameBuffers
    <3>2. k \in 1..Len(obs')
      BY <1>1
    <3>3. \A i \in 1..Len(obs) : obs[i].late \/ flushCut
      BY <2>3 DEF CleanInv
    <3>4. CASE k \in 1..Len(obs)
      BY <2>3, <3>1, <3>3, <3>4
    <3>5. CASE k \notin 1..Len(obs)
      BY <3>1, <3>2, <3>5
    <3>6. QED
      BY <3>4, <3>5
  <2>4. QED
    BY <1>1, <2>1, <2>2, <2>3
<1>2. QED
  BY <1>1 DEF CleanInv
-----------------------------------------------------------------------------
\* What every step does to the state of the control.
Control ==
    /\ phase' \in Phases
    /\ steps' \in steps..MaxSteps
    /\ functions' \in 0..steps'
    /\ walk' \in Walks
    /\ ini' \in {"original", "changed"}
    /\ flushCut' \in BOOLEAN /\ (flushCut => flushCut')
    /\ beyond' \in Reasons
    /\ StackOK(stack', phase', opened')
    /\ AfterFlush' => AfterFlush \/ flushCut' \/ obs' = <<>>
    /\ phase' \in {"ini", "over"} => regular' = <<>>
    /\ phase' = "over" => ini' = "original"

LEMMA Together ==
    ASSUME IInv, Control, ListInv', OutputInv', HandlerInv', CleanInv',
           ob_lock' \in BOOLEAN, printed' \in 0..steps'
    PROVE  IInv'
<1>1. steps' \in 0..MaxSteps
  BY DEF IInv, ControlInv, Control
<1>2. ControlInv'
  BY <1>1 DEF ControlInv, Control
<1>3. QED
  BY <1>2, Zenon DEF IInv

LEMMA OutputStep ==
    ASSUME IInv, Control, ListInv', OutputInv', HandlerInv',
           SameBuffers(obs, obs') \/ obs' = <<>>,
           ob_lock' \in BOOLEAN, printed' \in 0..steps'
    PROVE  IInv'
<1>1. CleanInv'
  BY CleanKept, Zenon DEF IInv, Control
<1>2. QED
  BY <1>1, Together

LEMMA ListStep ==
    ASSUME IInv, Control, UNCHANGED output, ListInv', Handlers(stack, stack')
    PROVE  IInv'
<1>1. OutputInv /\ HandlerInv /\ ControlInv
  BY DEF IInv
<1>2. /\ OutputInv' /\ SameBuffers(obs, obs') /\ obs' = obs
      /\ ob_lock' = ob_lock /\ printed' = printed /\ Active' = Active
  BY <1>1, OutputSame
<1>3. ob_lock' \in BOOLEAN /\ printed' \in 0..steps'
  <2>1. ob_lock \in BOOLEAN /\ printed \in 0..steps /\ steps \in Nat
    BY <1>1 DEF ControlInv
  <2>2. steps' \in steps..MaxSteps
    BY DEF Control
  <2>3. QED
    BY <1>2, <2>1, <2>2
<1>4. stack \in Seq(Frames) /\ stack' \in Seq(Frames)
  BY <1>1 DEF ControlInv, Control, StackOK
<1>5. HandlerInv'
  <2>1. CASE NoHandler(stack)
    <3>1. NoHandler(stack')
      BY <2>1 DEF Handlers, NoHandler
    <3>2. QED
      BY <3>1, HandlerNone
  <2>2. CASE ~ NoHandler(stack)
    <3>1. ob_lock' /\ obs' # <<>> /\ Active'.handler
      BY <1>1, <1>2, <2>2 DEF HandlerInv
    <3>2. Active.text \in Seq(Nat)
      <4>1. obs # <<>> /\ obs \in Seq(Buffer)
        BY <1>1, <2>2 DEF HandlerInv, OutputInv, BuffersOK
      <4>2. Len(obs) \in 1..Len(obs)
        BY <4>1
      <4>3. Active \in Buffer
        BY <4>1, <4>2 DEF Active, Last
      <4>4. QED
        BY <4>3 DEF Buffer
    <3>3. PICK text \in Seq(Nat) : text = Active.text
      BY <3>2
    <3>4. PICK none \in Seq(Nat) : none = <<>>
      <4>1. <<>> \in Seq(Nat)
        OBVIOUS
      <4>2. QED
        BY <4>1
    <3>5. text \o none = text
      BY <3>4
    <3>6. Active'.text = Active.text \o none
      BY <1>2, <3>3, <3>5, Zenon
    <3>7. QED
      BY <1>1, <1>4, <3>1, <3>6, HandlerKept
  <2>3. QED
    BY <2>1, <2>2
<1>6. QED
  BY <1>2, <1>3, <1>5, OutputStep

\* A step that leaves the list of resources alone, too.
LEMMA IdleStep ==
    ASSUME IInv, Control, UNCHANGED output, UNCHANGED resources, Handlers(stack, stack'),
           TableOK(table', opened), FewerHolders(table, table'),
           stack' = stack \/ NoDtor(stack'), phase \in Late => phase' \in Late
    PROVE  IInv'
<1>1. ListInv
  BY DEF IInv
<1>2. ListInv'
  BY <1>1, CalmList
<1>3. QED
  BY <1>2, ListStep

\* A step of the same phase.
LEMMA SamePhase ==
    ASSUME IInv, UNCHANGED <<phase, flushCut>>, UNCHANGED beyond \/ beyond' \in Reasons, steps' \in steps..MaxSteps, functions' \in 0..steps',
           walk' \in Walks, ini' \in {"original", "changed"},
           StackOK(stack', phase, opened'),
           phase \in {"ini", "over"} => UNCHANGED <<regular, ini>>
    PROVE  Control
<1>1. ControlInv /\ CleanInv
  BY DEF IInv
<1>2. phase' = phase /\ flushCut' = flushCut /\ beyond' \in Reasons
  BY <1>1 DEF ControlInv
<1>3. AfterFlush' => AfterFlush
  BY <1>2 DEF AfterFlush
<1>4. QED
  BY <1>1, <1>2, <1>3 DEF ControlInv, CleanInv, Control

\* The next step of php_request_shutdown.
LEMMA Entered ==
    ASSUME IInv, NEW p \in Phases, Enter(p), steps' \in steps..MaxSteps
    PROVE  phase' = p /\ walk' \in Walks /\ functions' \in 0..steps'
<1>1. ControlInv /\ TableOK(table, opened)
  BY DEF IInv, ListInv
<1>2. LastBucket(table) \in Nat /\ Len(table) \in Nat
  BY <1>1, TableFacts
<1>3. walk' \in Walks
  BY <1>2 DEF Enter, Walks
<1>4. functions \in 0..steps /\ steps \in Nat
  BY <1>1 DEF ControlInv
<1>5. functions' = 0 \/ functions' = functions
  BY DEF Enter
<1>6. QED
  BY <1>3, <1>4, <1>5 DEF Enter

LEMMA AdvanceStep ==
    ASSUME IInv, Advance, stack = <<>>, phase \notin {"ini", "over", "aborted"},
           phase = "flush" => obs = <<>>, phase = "resources" => regular = <<>>
    PROVE  IInv'
<1>1. ControlInv /\ ListInv
  BY DEF IInv
<1>2. /\ Enter(After(phase)) /\ UNCHANGED output /\ UNCHANGED resources
      /\ stack' = stack /\ steps' = steps /\ table' = table /\ ini' = ini
      /\ flushCut' = flushCut /\ beyond' = beyond /\ opened' = opened /\ regular' = regular
  BY DEF Advance, ghosts, resources
<1>3. phase \in Phases \ {"ini", "over", "aborted"}
  BY <1>1 DEF ControlInv
<1>4. /\ After(phase) \in Phases /\ After(phase) # "over"
      /\ After(phase) = "ini" => phase = "resources"
      /\ After(phase) \in {"modules", "symbols", "resources", "ini"}
            => phase \in {"flush", "modules", "symbols", "resources"}
      /\ phase = "resources" => After(phase) = "ini"
  BY <1>3 DEF After, Phases
<1>5. steps' \in steps..MaxSteps
  BY <1>1, <1>2 DEF ControlInv
<1>6. phase' = After(phase) /\ walk' \in Walks /\ functions' \in 0..steps'
  BY <1>2, <1>4, <1>5, Entered
<1>7. obs' = obs
  BY <1>2 DEF output
<1>8. AfterFlush' => AfterFlush \/ obs' = <<>>
  <2>1. AfterFlush' => phase' \in {"modules", "symbols", "resources", "ini"}
    <3>1. After(phase) \in Phases \ {"over", "aborted"}
      BY <1>3, <1>4 DEF After, Phases
    <3>2. QED
      BY <1>6, <3>1 DEF AfterFlush
  <2>2. QED
    BY <1>4, <1>6, <1>7, <2>1 DEF AfterFlush
<1>9. StackOK(stack', phase', opened')
  BY <1>2, StackEmpty, Zenon
<1>10. Control
  BY <1>1, <1>2, <1>4, <1>5, <1>6, <1>8, <1>9 DEF Control, ControlInv
<1>11. phase \in Late => phase' \in Late
  BY <1>3, <1>4, <1>6 DEF Late
<1>12. Handlers(stack, stack')
  BY <1>2, HandlersEmpty, Zenon
<1>13. TableOK(table', opened) /\ FewerHolders(table, table')
  BY <1>1, <1>2 DEF ListInv, FewerHolders
<1>14. QED
  BY <1>2, <1>10, <1>11, <1>12, <1>13, IdleStep

LEMMA Bails ==
    ASSUME IInv, Bail, phase \notin {"ini", "over", "aborted"}, UNCHANGED <<regular, ini>>,
           steps' \in steps..MaxSteps
    PROVE  Control /\ stack' = <<>> /\ (phase \in Late => phase' \in Late)
<1>1. ControlInv
  BY DEF IInv
<1>2. PICK p : p = IF phase = "resources" THEN "aborted"
                   ELSE IF phase = "destructors" THEN "flush" ELSE After(phase)
  OBVIOUS
<1>3. /\ stack' = <<>> /\ Enter(p) /\ flushCut' = (flushCut \/ phase = "flush")
      /\ beyond' = beyond /\ regular' = regular /\ ini' = ini
  BY <1>2 DEF Bail
<1>4. phase \in Phases \ {"ini", "over", "aborted"}
  BY <1>1 DEF ControlInv
<1>5. /\ p \in Phases \ {"ini", "over"} /\ (phase \in Late => p \in Late)
      /\ p \in {"modules", "symbols", "resources", "aborted"}
            => phase \in {"flush", "modules", "symbols", "resources"}
  BY <1>2, <1>4 DEF After, Phases, Late
<1>6. phase' = p /\ walk' \in Walks /\ functions' \in 0..steps'
  BY <1>3, <1>5, Entered
<1>7. AfterFlush' => AfterFlush \/ flushCut'
  <2>1. AfterFlush' => p \in {"modules", "symbols", "resources", "aborted"}
    BY <1>5, <1>6 DEF AfterFlush
  <2>2. QED
    BY <1>3, <1>5, <2>1 DEF AfterFlush
<1>8. StackOK(stack', phase', opened')
  BY <1>3, StackEmpty, Zenon
<1>9. flushCut' \in BOOLEAN
  BY <1>1, <1>3 DEF ControlInv
<1>10. Control
  BY <1>1, <1>3, <1>5, <1>6, <1>7, <1>8, <1>9 DEF Control, ControlInv
<1>11. QED
  BY <1>3, <1>5, <1>6, <1>10
-----------------------------------------------------------------------------
\* The statements of a script.
LEMMA StatementFacts ==
    ASSUME IInv, Statement
    PROVE  /\ steps' = steps + 1 /\ steps' \in steps..MaxSteps
           /\ phase \notin Late /\ NoDtor(stack)
           /\ StackOK(stack, phase, opened) /\ stack \in Seq(Frames)
           /\ functions \in 0..steps /\ functions \in 0..steps' /\ printed \in 0..steps
           /\ walk \in Walks /\ ini \in {"original", "changed"} /\ steps \in Nat
           /\ ListInv /\ TableOK(table, opened) /\ OutputInv /\ HandlerInv /\ CleanInv
<1>1. ControlInv /\ ListInv /\ OutputInv /\ HandlerInv /\ CleanInv
  BY DEF IInv
<1>2. InScript /\ steps < MaxSteps /\ steps' = steps + 1
  BY DEF Statement
<1>3. steps \in 0..MaxSteps /\ functions \in 0..steps /\ printed \in 0..steps
  BY <1>1 DEF ControlInv
<1>4. MaxSteps \in Nat
  BY BoundsAssumption
<1>5. steps' \in steps..MaxSteps /\ functions \in 0..steps' /\ steps \in Nat
  BY <1>2, <1>3, <1>4
<1>6. phase \notin Late /\ NoDtor(stack)
  BY <1>1, <1>2, ScriptRuns
<1>7. StackOK(stack, phase, opened) /\ stack \in Seq(Frames)
  BY <1>1 DEF ControlInv, StackOK
<1>8. walk \in Walks /\ ini \in {"original", "changed"} /\ TableOK(table, opened)
  BY <1>1 DEF ControlInv, ListInv
<1>9. QED
  BY <1>1, <1>2, <1>3, <1>5, <1>6, <1>7, <1>8

\* A statement that leaves the control, the table and the list of resources alone.
LEMMA PlainStatement ==
    ASSUME IInv, Statement, UNCHANGED <<flow, table, resources, functions, ini, ghosts>>
    PROVE  Control /\ ListInv' /\ Handlers(stack, stack') /\ stack' = stack
<1>1. /\ phase' = phase /\ stack' = stack /\ walk' = walk /\ table' = table
      /\ UNCHANGED resources /\ functions' = functions /\ ini' = ini /\ UNCHANGED ghosts
      /\ opened' = opened /\ regular' = regular
  BY DEF flow, resources
<1>2. Control
  BY <1>1, StatementFacts, SamePhase DEF ghosts
<1>3. TableOK(table', opened) /\ FewerHolders(table, table')
  BY <1>1, StatementFacts DEF FewerHolders
<1>4. ListInv'
  BY <1>1, <1>3, StatementFacts, CalmList
<1>5. Handlers(stack, stack')
  BY <1>1, StatementFacts, HandlersSame
<1>6. QED
  BY <1>1, <1>2, <1>4, <1>5

LEMMA WriteSafe ==
    ASSUME IInv, WriteText, steps' = steps + 1
    PROVE  /\ OutputInv' /\ SameBuffers(obs, obs') /\ ob_lock' \in BOOLEAN /\ printed' \in 0..steps'
           /\ ~ NoHandler(stack) =>
                /\ ob_lock' /\ obs' # <<>> /\ Active'.handler
                /\ \E more \in Seq(Nat) : Active'.text = Active.text \o more
<1>1. OutputInv /\ HandlerInv /\ ControlInv
  BY DEF IInv
<1>2. /\ OutputInv' /\ SameBuffers(obs, obs') /\ printed' = printed + 1
      /\ obs # <<>> /\ Active.handler =>
                 /\ obs' # <<>> /\ Active'.handler
                 /\ \E more \in Seq(Nat) : Active'.text = Active.text \o more
  BY <1>1, WriteKeeps
<1>3. ob_lock' = ob_lock
  BY Zenon DEF WriteText
<1>4. ob_lock \in BOOLEAN /\ printed \in 0..steps /\ steps \in Nat
  BY <1>1 DEF ControlInv
<1>5. printed' \in 0..steps'
  BY <1>2, <1>4
<1>6. ~ NoHandler(stack) => ob_lock /\ obs # <<>> /\ Active.handler
  BY <1>1 DEF HandlerInv
<1>7. QED
  BY <1>2, <1>3, <1>4, <1>5, <1>6, Zenon

LEMMA EchoStep == IInv /\ Echo => IInv'
<1> SUFFICES ASSUME IInv, Echo
             PROVE  IInv'
  OBVIOUS
<1>1. /\ Statement /\ WriteText /\ UNCHANGED <<flow, table, resources, functions, ini, ghosts>>
  BY Zenon DEF Echo
<1>2. Control /\ ListInv' /\ Handlers(stack, stack') /\ stack' = stack
  BY <1>1, PlainStatement
<1>3. steps' = steps + 1 /\ HandlerInv /\ stack \in Seq(Frames)
  BY <1>1, StatementFacts
<1>4. /\ OutputInv' /\ SameBuffers(obs, obs') /\ ob_lock' \in BOOLEAN /\ printed' \in 0..steps'
      /\ ~ NoHandler(stack) =>
           /\ ob_lock' /\ obs' # <<>> /\ Active'.handler
           /\ \E more \in Seq(Nat) : Active'.text = Active.text \o more
  BY <1>1, <1>3, WriteSafe, Zenon
<1>5. HandlerInv'
  BY <1>2, <1>3, <1>4, HandlerKept
<1>6. QED
  BY <1>2, <1>4, <1>5, OutputStep

LEMMA ObStartStep == \A k \in Kinds : IInv /\ ObStart(k) => IInv'
<1> SUFFICES ASSUME NEW k \in Kinds, IInv, ObStart(k)
             PROVE  IInv'
  OBVIOUS
<1>1. /\ Statement /\ ~ob_lock /\ StartBuffer(k, AfterFlush)
      /\ UNCHANGED <<flow, table, resources, functions, ini, ghosts>>
  BY Zenon DEF ObStart
<1>2. Control /\ ListInv' /\ stack' = stack
  BY <1>1, PlainStatement
<1>3. /\ OutputInv /\ HandlerInv /\ CleanInv /\ printed \in 0..steps /\ steps \in Nat
      /\ steps' = steps + 1
  BY <1>1, StatementFacts
<1>4. PICK late \in BOOLEAN : late = AfterFlush
  <2>1. AfterFlush \in BOOLEAN
    BY DEF AfterFlush
  <2>2. QED
    BY <2>1, Zenon
<1>5. /\ OutputInv'
      /\ Len(obs') = Len(obs) + 1 /\ obs'[Len(obs) + 1].late = late
      /\ \A i \in 1..Len(obs) : obs'[i] = obs[i]
  BY <1>1, <1>3, <1>4, StartKeeps
<1>6. ob_lock' = ob_lock /\ printed' = printed
  BY <1>1 DEF StartBuffer
<1>7. HandlerInv'
  <2>1. NoHandler(stack)
    BY <1>1, <1>3 DEF HandlerInv
  <2>2. NoHandler(stack')
    BY <1>2, <2>1
  <2>3. QED
    BY <2>2, HandlerNone
<1>8. phase' = phase /\ flushCut' = flushCut /\ regular' = regular /\ ini' = ini
  BY <1>1 DEF flow, resources, ghosts
<1>9. CleanInv'
  <2>1. AfterFlush' <=> AfterFlush
    BY <1>8 DEF AfterFlush
  <2>2. Len(obs) \in Nat
    BY <1>3 DEF OutputInv, BuffersOK
  <2>3. ASSUME AfterFlush, NEW i \in 1..Len(obs')
        PROVE  obs'[i].late \/ flushCut
    <3>1. CASE i = Len(obs) + 1
      BY <1>4, <1>5, <2>3, <3>1
    <3>2. CASE i # Len(obs) + 1
      <4>1. i \in 1..Len(obs)
        BY <1>5, <2>2, <3>2
      <4>2. obs[i].late \/ flushCut
        BY <1>3, <2>3, <4>1 DEF CleanInv
      <4>3. QED
        BY <1>5, <4>1, <4>2
    <3>3. QED
      BY <3>1, <3>2
  <2>4. QED
    BY <1>3, <1>8, <2>1, <2>3 DEF CleanInv
<1>10. ob_lock' \in BOOLEAN /\ printed' \in 0..steps'
  <2>1. ob_lock \in BOOLEAN
    BY DEF IInv, ControlInv
  <2>2. printed \in 0..(steps + 1)
    BY <1>3
  <2>3. QED
    BY <1>3, <1>6, <2>1, <2>2
<1>11. QED
  BY <1>2, <1>5, <1>7, <1>9, <1>10, Together

\* All objects are marked as destructed.
LEMMA MarkedTable ==
    ASSUME ListInv
    PROVE  TableOK(Marked(table), opened) /\ FewerHolders(table, Marked(table))
<1>1. TableOK(table, opened)
  BY DEF ListInv
<1>2. TableOK(Marked(table), opened) /\ SameHolders(table, Marked(table))
  BY <1>1, MarkedSpent, TableSpent
<1>3. QED
  BY <1>2 DEF SameHolders, FewerHolders

\* A bailout, whatever the table becomes.
LEMMA BailList ==
    ASSUME IInv, Bail, phase \notin {"ini", "over", "aborted"}, UNCHANGED <<resources, ini>>,
           steps' \in steps..MaxSteps,
           table' = table \/ table' = Marked(table)
    PROVE  Control /\ ListInv' /\ HandlerInv' /\ stack' = <<>> /\ Handlers(stack, stack')
<1>1. ListInv /\ regular' = regular /\ ini' = ini /\ UNCHANGED resources
  BY DEF IInv, resources
<1>2. Control /\ stack' = <<>> /\ (phase \in Late => phase' \in Late)
  BY <1>1, Bails
<1>3. TableOK(table', opened) /\ FewerHolders(table, table')
  <2>1. CASE table' = table
    BY <1>1, <2>1 DEF ListInv, FewerHolders
  <2>2. CASE table' = Marked(table)
    BY <1>1, <2>2, MarkedTable
  <2>3. QED
    BY <2>1, <2>2
<1>4. NoDtor(stack')
  BY <1>2 DEF NoDtor
<1>5. ListInv'
  BY <1>1, <1>2, <1>3, <1>4, CalmList
<1>6. NoHandler(stack')
  BY <1>2 DEF NoHandler
<1>7. Handlers(stack, stack')
  BY <1>2, HandlersEmpty, Zenon
<1>8. QED
  BY <1>2, <1>5, <1>6, <1>7, HandlerNone

LEMMA ObStartLockedStep == IInv /\ ObStartLocked => IInv'
<1> SUFFICES ASSUME IInv, ObStartLocked
             PROVE  IInv'
  OBVIOUS
<1>1. /\ Statement /\ ob_lock /\ StartLocked /\ table' = Marked(table) /\ Bail
      /\ UNCHANGED <<resources, ini>>
  BY Zenon DEF ObStartLocked
<1>2. /\ steps' = steps + 1 /\ steps' \in steps..MaxSteps /\ phase \notin Late
      /\ OutputInv /\ printed \in 0..steps /\ steps \in Nat
  BY <1>1, StatementFacts
<1>3. Control /\ ListInv' /\ HandlerInv'
  BY <1>1, <1>2, BailList DEF Late
<1>4. OutputInv' /\ obs' = <<>> /\ printed' = printed + 1
  BY <1>1, <1>2, StartLockedKeeps
<1>5. ob_lock' \in BOOLEAN /\ printed' \in 0..steps'
  <2>1. ob_lock' = ob_lock
    BY <1>1 DEF StartLocked
  <2>2. QED
    BY <1>1, <1>2, <1>4, <2>1
<1>6. QED
  BY <1>3, <1>4, <1>5, OutputStep

LEMMA ActiveText ==
    ASSUME OutputInv, obs # <<>>
    PROVE  Active \in Buffer /\ Active.text \in Seq(Nat)
<1>1. obs \in Seq(Buffer)
  BY DEF OutputInv, BuffersOK
<1>2. Len(obs) \in 1..Len(obs)
  BY <1>1
<1>3. Active \in Buffer
  BY <1>1, <1>2 DEF Active, Last
<1>4. QED
  BY <1>3 DEF Buffer

\* php_end_ob_buffer, with its handler still to come or without one.
LEMMA EndBufferKeeps ==
    ASSUME IInv, obs # <<>>, NoHandler(stack), NoDtor(stack), phase \notin Late,
           NEW send \in BOOLEAN, NEW just \in BOOLEAN, EndBuffer(send, just)
    PROVE  /\ OutputInv' /\ SameBuffers(obs, obs') /\ printed' = printed /\ ob_lock' \in BOOLEAN
           /\ StackOK(stack', phase, opened) /\ HandlerInv'
           /\ stack' = stack \/ NoDtor(stack')
<1>1. OutputInv /\ HandlerInv /\ ControlInv /\ ob_lock \in BOOLEAN
  BY DEF IInv, ControlInv
<1>2. StackOK(stack, phase, opened) /\ stack \in Seq(Frames)
  BY <1>1 DEF ControlInv, StackOK
<1>3. PICK text \in Seq(Nat) : text = Active.text
  BY <1>1, ActiveText
<1>4. PICK none \in Seq(Nat) : none = <<>>
  <2>1. <<>> \in Seq(Nat)
    OBVIOUS
  <2>2. QED
    BY <2>1
<1>5. Active.text = text \o none
  <2>1. text \o none = text
    BY <1>4
  <2>2. QED
    BY <1>3, <2>1, Zenon
<1>6. CASE EndPlain(send, just) /\ UNCHANGED stack
  <2>1. Finish(text, send, just) /\ ob_lock' = ob_lock /\ stack' = stack
    BY <1>3, <1>6, Zenon DEF EndPlain
  <2>2. OutputInv' /\ SameBuffers(obs, obs') /\ printed' = printed
    BY <1>1, <1>5, <2>1, FinishKeeps
  <2>3. HandlerInv'
    BY <2>1, HandlerNone
  <2>4. QED
    BY <1>1, <1>2, <2>1, <2>2, <2>3
<1>7. CASE CallHandler /\ Push(HandlerFrame(send, just))
  <2>1. /\ Active.handler /\ ob_lock' = TRUE /\ obs' = obs /\ client' = client /\ gone' = gone
        /\ printed' = printed /\ stack' = <<HandlerFrame(send, just)>> \o stack
    BY <1>7 DEF CallHandler, Push
  <2>2. OutputInv'
    BY <1>1, <2>1, Zenon DEF OutputInv
  <2>3. SameBuffers(obs, obs')
    BY <1>1, <2>1 DEF OutputInv, BuffersOK, SameBuffers
  <2>4. PICK f \in Frames : f = HandlerFrame(send, just) /\ f.at = "handler" /\ f.uses = 0
                            /\ f.given = text
    <3>1. PICK h \in Frames : h = Frame("handler") /\ h.at = "handler" /\ h.uses = 0
      <4>1. "handler" \in Labels
        BY DEF Labels, Bodies
      <4>2. QED
        BY <4>1, FrameType, Zenon
    <3>2. HandlerFrame(send, just) = [h EXCEPT !.send = send, !.just = just, !.given = text]
      BY <1>3, <3>1, Zenon DEF HandlerFrame
    <3>3. PICK g : g = [h EXCEPT !.send = send, !.just = just, !.given = text]
      OBVIOUS
    <3>4. g \in Frames /\ g.at = "handler" /\ g.uses = 0 /\ g.given = text
      BY <3>1, <3>3 DEF Frames
    <3>5. QED
      BY <3>2, <3>3, <3>4
  <2>5. PICK n \in Nat : n = Len(stack)
    BY <1>2
  <2>6. PICK t \in Seq(Frames) : /\ t = stack' /\ Len(t) = n + 1 /\ t[1] = f
                                 /\ \A k \in 1..n : t[k + 1] = stack[k]
    <3>1. /\ <<f>> \o stack \in Seq(Frames) /\ Len(<<f>> \o stack) = n + 1
          /\ (<<f>> \o stack)[1] = f
          /\ \A k \in 1..n : (<<f>> \o stack)[k + 1] = stack[k]
      BY <1>2, <2>5, Pushed
    <3>2. <<f>> \o stack = stack'
      BY <2>1, <2>4
    <3>3. QED
      BY <3>1, <3>2, Zenon
  <2>7. StackOK(stack', phase, opened)
    <3>1. f.uses \in 0..opened
      <4>1. opened \in Nat
        BY RegularFacts DEF IInv, ListInv
      <4>2. QED
        BY <2>4, <4>1
    <3>2. Suits(f, phase) /\ phase \notin {"ini", "over", "aborted"}
      BY <2>4 DEF Suits, Late
    <3>3. StackOK(<<f>> \o stack, phase, opened)
      <4>1. f.at # "rshutdown"
        BY <2>4
      <4>2. QED
        BY <1>2, <3>1, <3>2, <4>1, StackPush
    <3>4. QED
      BY <2>1, <2>4, <3>3
  <2>8. ASSUME NEW k \in 1..(n + 1), t[k].at = "handler"
        PROVE  k = 1
    <3>1. CASE k # 1
      <4>1. k - 1 \in 1..n /\ (k - 1) + 1 = k
        BY <3>1
      <4>2. t[k] = stack[k - 1]
        BY <2>6, <4>1
      <4>3. QED
        BY <2>5, <2>8, <4>1, <4>2 DEF NoHandler
    <3>2. QED
      BY <3>1
  <2>9. HandlerInv'
    <3>1. Active' = Active
      BY <2>1 DEF Active
    <3>2. \A j, k \in 1..Len(stack') : stack'[j].at = "handler" /\ stack'[k].at = "handler" => j = k
      BY <2>6, <2>8
    <3>3. ASSUME NEW k \in 1..Len(stack'), stack'[k].at = "handler"
          PROVE  \E rest \in Seq(Nat) : Active'.text = stack'[k].given \o rest
      <4>1. k = 1
        BY <2>6, <2>8, <3>3
      <4>2. stack'[k].given = text
        BY <2>4, <2>6, <4>1
      <4>3. QED
        BY <1>5, <3>1, <4>2, Zenon
    <3>4. ob_lock' /\ obs' # <<>> /\ Active'.handler
      BY <2>1, <3>1
    <3>5. QED
      BY <3>2, <3>3, <3>4, Zenon DEF HandlerInv
  <2>10. NoDtor(stack')
    BY <2>4, <2>6 DEF NoDtor
  <2>11. ob_lock' \in BOOLEAN
    BY <2>1
  <2>12. QED
    BY <2>1, <2>2, <2>3, <2>7, <2>9, <2>10, <2>11
<1>8. QED
  BY <1>6, <1>7 DEF EndBuffer

LEMMA ObEndStep == \A send, just \in BOOLEAN : IInv /\ ObEnd(send, just) => IInv'
<1> SUFFICES ASSUME NEW send \in BOOLEAN, NEW just \in BOOLEAN, IInv, ObEnd(send, just)
             PROVE  IInv'
  OBVIOUS
<1>1. /\ Statement /\ ~InHandler /\ obs # <<>> /\ EndBuffer(send, just)
      /\ UNCHANGED <<phase, walk, table, resources, functions, ini, ghosts>>
  BY Zenon DEF ObEnd, MayEnd
<1>2. /\ steps' = steps + 1 /\ steps' \in steps..MaxSteps /\ phase \notin Late /\ NoDtor(stack)
      /\ stack \in Seq(Frames) /\ functions \in 0..steps' /\ printed \in 0..steps /\ steps \in Nat
      /\ walk \in Walks /\ ini \in {"original", "changed"} /\ ListInv /\ TableOK(table, opened)
  BY <1>1, StatementFacts
<1>3. NoHandler(stack)
  BY <1>1, <1>2 DEF InHandler, NoHandler
<1>4. /\ OutputInv' /\ SameBuffers(obs, obs') /\ printed' = printed /\ ob_lock' \in BOOLEAN
      /\ StackOK(stack', phase, opened) /\ HandlerInv'
      /\ stack' = stack \/ NoDtor(stack')
  BY <1>1, <1>2, <1>3, EndBufferKeeps
<1>5. /\ phase' = phase /\ walk' = walk /\ table' = table /\ UNCHANGED resources
      /\ functions' = functions /\ ini' = ini /\ UNCHANGED ghosts
      /\ opened' = opened /\ regular' = regular
  BY <1>1 DEF resources
<1>6. Control
  BY <1>2, <1>4, <1>5, SamePhase DEF ghosts
<1>7. TableOK(table', opened) /\ FewerHolders(table, table')
  BY <1>2, <1>5 DEF FewerHolders
<1>8. ListInv'
  BY <1>2, <1>4, <1>5, <1>7, CalmList
<1>9. printed' \in 0..steps'
  BY <1>2, <1>4
<1>10. QED
  BY <1>4, <1>6, <1>8, <1>9, OutputStep

LEMMA NewObjectStep == \A v \in Vars : IInv /\ NewObject(v) => IInv'
<1> SUFFICES ASSUME NEW v \in Vars, IInv, NewObject(v)
             PROVE  IInv'
  OBVIOUS
<1>1. /\ Statement /\ v \notin Defined /\ table' = Append(table, NewBucket(v, "object", 0))
      /\ UNCHANGED <<output, flow, resources, functions, ini, ghosts>>
  BY Zenon DEF NewObject
<1>2. /\ steps' \in steps..MaxSteps /\ stack \in Seq(Frames) /\ StackOK(stack, phase, opened)
      /\ functions \in 0..steps' /\ walk \in Walks /\ ini \in {"original", "changed"}
      /\ TableOK(table, opened)
  BY <1>1, StatementFacts
<1>3. /\ phase' = phase /\ stack' = stack /\ walk' = walk /\ UNCHANGED output
      /\ UNCHANGED resources /\ functions' = functions /\ ini' = ini /\ UNCHANGED ghosts
      /\ opened' = opened /\ regular' = regular
  BY <1>1 DEF flow, resources
<1>4. Control
  BY <1>2, <1>3, SamePhase DEF ghosts
<1>5. PICK b : b = NewBucket(v, "object", 0)
  OBVIOUS
<1>6. /\ b \in Buckets /\ b.var = v /\ b.kind = "object"
      /\ \A x \in ToSet(table) : x.id < b.id
  <2>1. 0 \in Nat /\ "object" \in {"object", "resource"}
    OBVIOUS
  <2>2. QED
    BY <1>2, <1>5, <2>1, NewBucketLast
<1>7. \A x \in ToSet(table) : x.var # b.var
  BY <1>1, <1>6 DEF Defined
<1>8. TableOK(table', opened) /\ ToSet(table') = ToSet(table) \cup {b}
  <2>1. TableOK(Append(table, b), opened) /\ ToSet(Append(table, b)) = ToSet(table) \cup {b}
    BY <1>2, <1>6, <1>7, TableAppend
  <2>2. QED
    BY <1>1, <1>5, <2>1
<1>9. FewerHolders(table, table')
  BY <1>6, <1>8 DEF FewerHolders, HoldersIn
<1>10. Handlers(stack, stack')
  BY <1>2, <1>3, HandlersSame
<1>11. QED
  BY <1>3, <1>4, <1>8, <1>9, <1>10, IdleStep

LEMMA OpenStep == \A v \in Vars, uses \in Linked \cup {0} : IInv /\ Open(v, uses) => IInv'
<1> SUFFICES ASSUME NEW v \in Vars, NEW uses \in Linked \cup {0}, IInv, Open(v, uses)
             PROVE  IInv'
  OBVIOUS
<1>1. PICK n : n = opened + 1
  OBVIOUS
<1>2. /\ Statement /\ v \notin Defined /\ opened < MaxRsrc /\ opened' = opened + 1
      /\ regular' = Append(Used(uses), [id |-> n, ref |-> 1, uses |-> uses])
      /\ table' = Append(table, NewBucket(v, "resource", n))
      /\ UNCHANGED <<output, flow, functions, ini, destroyed, closed, ghosts>>
  BY <1>1, Zenon DEF Open, Used
<1>3. /\ steps' \in steps..MaxSteps /\ stack \in Seq(Frames) /\ StackOK(stack, phase, opened)
      /\ functions \in 0..steps' /\ walk \in Walks /\ ini \in {"original", "changed"}
      /\ ListInv /\ NoDtor(stack) /\ phase \notin Late
  BY <1>2, StatementFacts
<1>4. /\ phase' = phase /\ stack' = stack /\ walk' = walk /\ UNCHANGED output
      /\ destroyed' = destroyed /\ closed' = closed
      /\ functions' = functions /\ ini' = ini /\ UNCHANGED ghosts
  BY <1>2 DEF flow
<1>5. opened \in Nat
  BY <1>3, RegularFacts DEF ListInv
<1>6. StackOK(stack', phase, opened')
  BY <1>2, <1>3, <1>4, <1>5, StackMore
<1>7. Control
  BY <1>3, <1>4, <1>6, SamePhase DEF Late, ghosts
<1>8. ListInv'
  BY <1>1, <1>2, <1>3, <1>4, OpenList
<1>9. Handlers(stack, stack')
  BY <1>3, <1>4, HandlersSame
<1>10. QED
  BY <1>4, <1>7, <1>8, <1>9, ListStep

LEMMA BucketOf ==
    ASSUME NEW v \in Defined
    PROVE  Bucket(v) \in ToSet(table) /\ Bucket(v).var = v
<1>1. \E b \in ToSet(table) : b.var = v
  BY DEF Defined
<1>2. QED
  BY <1>1 DEF Bucket

LEMMA CloseStep == \A v \in Vars : IInv /\ Close(v) => IInv'
<1> SUFFICES ASSUME NEW v \in Vars, IInv, Close(v)
             PROVE  IInv'
  OBVIOUS
<1>1. PICK id : id = Bucket(v).rsrc
  OBVIOUS
<1>2. /\ Statement /\ v \in Defined /\ Bucket(v).kind = "resource"
      /\ Delete(id, stack) /\ closed' = closed \cup {id}
      /\ UNCHANGED <<output, phase, walk, table, opened, functions, ini, ghosts>>
  BY <1>1, Zenon DEF Close
<1>3. /\ steps' \in steps..MaxSteps /\ stack \in Seq(Frames) /\ StackOK(stack, phase, opened)
      /\ functions \in 0..steps' /\ walk \in Walks /\ ini \in {"original", "changed"}
      /\ ListInv /\ TableOK(table, opened) /\ NoDtor(stack) /\ phase \notin Late
  BY <1>2, StatementFacts
<1>4. /\ phase' = phase /\ walk' = walk /\ table' = table /\ opened' = opened
      /\ functions' = functions /\ ini' = ini /\ UNCHANGED ghosts /\ UNCHANGED output
  BY <1>2
<1>5. id \in 1..opened /\ id \in Nat
  <2>1. Bucket(v) \in ToSet(table) /\ Bucket(v).kind = "resource"
    BY <1>2, BucketOf
  <2>2. Bucket(v).rsrc \in 1..opened
    BY <1>3, <2>1 DEF TableOK
  <2>3. QED
    BY <1>1, <2>2
<1>6. ListInv' /\ Runs(stack, stack', phase, opened)
  BY <1>2, <1>3, <1>4, <1>5, DeleteList
<1>7. StackOK(stack', phase, opened')
  <2>1. StackOK(stack', phase, opened)
    BY <1>3, <1>6, StackRuns DEF Late
  <2>2. QED
    BY <1>4, <2>1
<1>8. Control
  BY <1>3, <1>4, <1>7, SamePhase DEF Late, ghosts
<1>9. Handlers(stack, stack')
  BY <1>3, <1>6, HandlersRuns
<1>10. QED
  BY <1>4, <1>6, <1>8, <1>9, ListStep

LEMMA UnsetStep == \A v \in Vars : IInv /\ Unset(v) => IInv'
<1> SUFFICES ASSUME NEW v \in Vars, IInv, Unset(v)
             PROVE  IInv'
  OBVIOUS
<1>1. /\ Statement /\ v \in Defined /\ table' = Without(table, Bucket(v))
      /\ Kill(Bucket(v), stack)
      /\ UNCHANGED <<output, phase, walk, opened, functions, ini, closed, ghosts>>
  BY Zenon DEF Unset
<1>2. /\ steps' \in steps..MaxSteps /\ stack \in Seq(Frames) /\ StackOK(stack, phase, opened)
      /\ functions \in 0..steps' /\ walk \in Walks /\ ini \in {"original", "changed"}
      /\ ListInv /\ TableOK(table, opened) /\ NoDtor(stack) /\ phase \notin Late
  BY <1>1, StatementFacts
<1>3. /\ phase' = phase /\ walk' = walk /\ opened' = opened /\ closed' = closed
      /\ functions' = functions /\ ini' = ini /\ UNCHANGED ghosts /\ UNCHANGED output
  BY <1>1
<1>4. PICK b \in ToSet(table) : b = Bucket(v)
  BY <1>1, BucketOf
<1>5. TableOK(table', opened) /\ ToSet(table') = ToSet(table) \ {b}
  BY <1>1, <1>2, <1>4, TableWithout
<1>6. ListInv' /\ Runs(stack, stack', phase, opened)
  BY <1>1, <1>2, <1>3, <1>4, <1>5, KillList
<1>7. StackOK(stack', phase, opened')
  <2>1. StackOK(stack', phase, opened)
    BY <1>2, <1>6, StackRuns DEF Late
  <2>2. QED
    BY <1>3, <2>1
<1>8. Control
  BY <1>2, <1>3, <1>7, SamePhase DEF Late, ghosts
<1>9. Handlers(stack, stack')
  BY <1>2, <1>6, HandlersRuns
<1>10. QED
  BY <1>3, <1>6, <1>8, <1>9, ListStep

LEMMA RegisterStep == IInv /\ RegisterShutdownFunction => IInv'
<1> SUFFICES ASSUME IInv, RegisterShutdownFunction
             PROVE  IInv'
  OBVIOUS
<1>1. /\ Statement /\ functions' = functions + 1
      /\ UNCHANGED <<output, flow, table, resources, ini, ghosts>>
  BY Zenon DEF RegisterShutdownFunction
<1>2. /\ steps' = steps + 1 /\ steps' \in steps..MaxSteps /\ stack \in Seq(Frames)
      /\ StackOK(stack, phase, opened) /\ steps \in Nat
      /\ functions \in 0..steps /\ walk \in Walks /\ ini \in {"original", "changed"}
      /\ TableOK(table, opened)
  BY <1>1, StatementFacts
<1>3. /\ phase' = phase /\ stack' = stack /\ walk' = walk /\ UNCHANGED output /\ table' = table
      /\ UNCHANGED resources /\ ini' = ini /\ UNCHANGED ghosts
      /\ opened' = opened /\ regular' = regular
  BY <1>1 DEF flow, resources
<1>4. functions' \in 0..steps'
  BY <1>1, <1>2
<1>5. Control
  BY <1>2, <1>3, <1>4, SamePhase DEF ghosts
<1>6. TableOK(table', opened) /\ FewerHolders(table, table')
  BY <1>2, <1>3 DEF FewerHolders
<1>7. Handlers(stack, stack')
  BY <1>2, <1>3, HandlersSame
<1>8. QED
  BY <1>3, <1>5, <1>6, <1>7, IdleStep

LEMMA SetIniStep == \A value \in {"original", "changed"} : IInv /\ SetIni(value) => IInv'
<1> SUFFICES ASSUME NEW value \in {"original", "changed"}, IInv, SetIni(value)
             PROVE  IInv'
  OBVIOUS
<1>1. /\ Statement /\ ini' = value
      /\ UNCHANGED <<output, flow, table, resources, functions, ghosts>>
  BY Zenon DEF SetIni
<1>2. /\ steps' \in steps..MaxSteps /\ stack \in Seq(Frames) /\ StackOK(stack, phase, opened)
      /\ functions \in 0..steps' /\ walk \in Walks /\ TableOK(table, opened) /\ phase \notin Late
  BY <1>1, StatementFacts
<1>3. /\ phase' = phase /\ stack' = stack /\ walk' = walk /\ UNCHANGED output /\ table' = table
      /\ UNCHANGED resources /\ functions' = functions /\ UNCHANGED ghosts
      /\ opened' = opened /\ regular' = regular
  BY <1>1 DEF flow, resources
<1>4. Control
  BY <1>1, <1>2, <1>3, SamePhase DEF Late, ghosts
<1>5. TableOK(table', opened) /\ FewerHolders(table, table')
  BY <1>2, <1>3 DEF FewerHolders
<1>6. Handlers(stack, stack')
  BY <1>2, <1>3, HandlersSame
<1>7. QED
  BY <1>3, <1>4, <1>5, <1>6, IdleStep

LEMMA ExitStep == IInv /\ Exit => IInv'
<1> SUFFICES ASSUME IInv, Exit
             PROVE  IInv'
  OBVIOUS
<1>1. /\ Statement /\ (table' = table \/ table' = Marked(table)) /\ Bail
      /\ UNCHANGED <<resources, ini>> /\ UNCHANGED output
  BY DEF Exit
<1>2. steps' \in steps..MaxSteps /\ phase \notin Late
  BY <1>1, StatementFacts
<1>3. Control /\ ListInv' /\ Handlers(stack, stack')
  BY <1>1, <1>2, BailList DEF Late
<1>4. QED
  BY <1>1, <1>3, ListStep

LEMMA FatalStep == IInv /\ Fatal => IInv'
<1> SUFFICES ASSUME IInv, Fatal
             PROVE  IInv'
  OBVIOUS
<1>1. /\ Statement \/ (At("dtor") /\ steps < MaxSteps /\ steps' = steps + 1)
      /\ WriteText /\ table' = Marked(table) /\ Bail /\ UNCHANGED <<resources, ini>>
  BY Zenon DEF Fatal
<1>2. steps' = steps + 1 /\ steps' \in steps..MaxSteps /\ phase \notin {"ini", "over", "aborted"}
  <2>1. CASE Statement
    BY <2>1, StatementFacts DEF Late
  <2>2. CASE At("dtor") /\ steps < MaxSteps /\ steps' = steps + 1
    <3>1. steps \in 0..MaxSteps /\ MaxSteps \in Nat /\ StackOK(stack, phase, opened)
      BY BoundsAssumption DEF IInv, ControlInv
    <3>2. stack # <<>>
      BY <2>2 DEF At
    <3>3. QED
      BY <2>2, <3>1, <3>2 DEF StackOK
  <2>3. QED
    BY <1>1, <2>1, <2>2
<1>3. Control /\ ListInv' /\ HandlerInv'
  BY <1>1, <1>2, BailList
<1>4. OutputInv' /\ SameBuffers(obs, obs') /\ ob_lock' \in BOOLEAN /\ printed' \in 0..steps'
  BY <1>1, <1>2, WriteSafe
<1>5. QED
  BY <1>3, <1>4, OutputStep

LEMMA ScriptPart == IInv /\ ScriptStep => IInv'
BY EchoStep, ObStartLockedStep, RegisterStep, ExitStep, FatalStep, ObStartStep, ObEndStep,
   NewObjectStep, CloseStep, UnsetStep, OpenStep, SetIniStep, Zenon DEF ScriptStep
-----------------------------------------------------------------------------
\* php_request_shutdown.
LEMMA SystemFacts ==
    ASSUME IInv, steps' = steps
    PROVE  /\ steps' \in steps..MaxSteps
           /\ StackOK(stack, phase, opened) /\ stack \in Seq(Frames) /\ phase \in Phases
           /\ functions \in 0..steps' /\ printed \in 0..steps' /\ walk \in Walks
           /\ ini \in {"original", "changed"} /\ opened \in Nat
           /\ ListInv /\ TableOK(table, opened) /\ OutputInv /\ HandlerInv /\ CleanInv
           /\ ControlInv
<1>1. ControlInv /\ ListInv /\ OutputInv /\ HandlerInv /\ CleanInv
  BY DEF IInv
<1>2. steps \in 0..MaxSteps /\ functions \in 0..steps /\ printed \in 0..steps /\ MaxSteps \in Nat
  BY <1>1, BoundsAssumption DEF ControlInv
<1>3. steps' \in steps..MaxSteps
  BY <1>2
<1>4. StackOK(stack, phase, opened) /\ stack \in Seq(Frames) /\ phase \in Phases
  BY <1>1 DEF ControlInv, StackOK
<1>5. walk \in Walks /\ ini \in {"original", "changed"} /\ TableOK(table, opened)
  BY <1>1 DEF ControlInv, ListInv
<1>6. opened \in Nat
  BY <1>1, RegularFacts DEF ListInv
<1>7. QED
  BY <1>1, <1>2, <1>3, <1>4, <1>5, <1>6

LEMMA AdvanceSteps ==
    IInv /\ (ScriptEnds \/ FunctionsDone \/ ObjectsDone \/ FlushDone \/ SymbolsDone \/ ResourcesDone)
        => IInv'
<1> SUFFICES ASSUME IInv,
                    ScriptEnds \/ FunctionsDone \/ ObjectsDone \/ FlushDone \/ SymbolsDone
                        \/ ResourcesDone
             PROVE  IInv'
  OBVIOUS
<1>1. /\ Advance /\ stack = <<>> /\ phase \notin {"ini", "over", "aborted"}
      /\ phase = "flush" => obs = <<>>
      /\ phase = "resources" => regular = <<>>
  <2>1. CASE ScriptEnds
    BY <2>1 DEF ScriptEnds, Quiet
  <2>2. CASE FunctionsDone
    BY <2>2 DEF FunctionsDone, Quiet
  <2>3. CASE ObjectsDone
    BY <2>3 DEF ObjectsDone, Quiet
  <2>4. CASE FlushDone
    BY <2>4 DEF FlushDone, Quiet
  <2>5. CASE SymbolsDone
    BY <2>5 DEF SymbolsDone, Quiet
  <2>6. CASE ResourcesDone
    BY <2>6 DEF ResourcesDone, Quiet
  <2>7. QED
    BY <2>1, <2>2, <2>3, <2>4, <2>5, <2>6
<1>2. QED
  BY <1>1, AdvanceStep

LEMMA BodyReturnsStep == IInv /\ BodyReturns => IInv'
<1> SUFFICES ASSUME IInv, BodyReturns
             PROVE  IInv'
  OBVIOUS
<1>1. /\ stack # <<>> /\ stack' = Tail(stack)
      /\ UNCHANGED <<output, phase, steps, table, walk, resources, functions, ini, ghosts>>
  BY DEF BodyReturns, At, Return
<1>2. /\ phase' = phase /\ steps' = steps /\ walk' = walk /\ UNCHANGED output /\ table' = table
      /\ UNCHANGED resources /\ functions' = functions /\ ini' = ini /\ UNCHANGED ghosts
      /\ opened' = opened /\ regular' = regular
  BY <1>1 DEF resources
<1>3. /\ steps' \in steps..MaxSteps /\ StackOK(stack, phase, opened) /\ stack \in Seq(Frames)
      /\ functions \in 0..steps' /\ walk \in Walks /\ ini \in {"original", "changed"}
      /\ TableOK(table, opened)
  BY <1>2, SystemFacts
<1>4. StackOK(stack', phase, opened) /\ NoDtor(stack')
  BY <1>1, <1>3, StackPop
<1>5. Control
  BY <1>2, <1>3, <1>4, SamePhase DEF ghosts
<1>6. TableOK(table', opened) /\ FewerHolders(table, table')
  BY <1>2, <1>3 DEF FewerHolders
<1>7. Handlers(stack, stack')
  BY <1>1, <1>3, HandlersTail
<1>8. QED
  BY <1>2, <1>4, <1>5, <1>6, <1>7, IdleStep

LEMMA HandlerDoneStep == IInv /\ HandlerDone => IInv'
<1> SUFFICES ASSUME IInv, HandlerDone
             PROVE  IInv'
  OBVIOUS
<1>1. /\ stack # <<>> /\ Top.at = "handler" /\ stack' = Tail(stack)
      /\ HandlerReturns(Top.given, Top.send, Top.just)
      /\ UNCHANGED <<phase, steps, table, walk, resources, functions, ini, ghosts>>
  BY DEF HandlerDone, At, Return
<1>2. /\ phase' = phase /\ steps' = steps /\ walk' = walk /\ table' = table
      /\ UNCHANGED resources /\ functions' = functions /\ ini' = ini /\ UNCHANGED ghosts
      /\ opened' = opened /\ regular' = regular
  BY <1>1 DEF resources
<1>3. /\ steps' \in steps..MaxSteps /\ StackOK(stack, phase, opened) /\ stack \in Seq(Frames)
      /\ functions \in 0..steps' /\ walk \in Walks /\ ini \in {"original", "changed"}
      /\ TableOK(table, opened) /\ ListInv /\ OutputInv /\ HandlerInv /\ printed \in 0..steps'
  BY <1>2, SystemFacts
<1>4. StackOK(stack', phase, opened) /\ NoDtor(stack')
  BY <1>1, <1>3, StackPop
<1>5. Control
  BY <1>2, <1>3, <1>4, SamePhase DEF ghosts
<1>6. ListInv'
  <2>1. TableOK(table', opened) /\ FewerHolders(table, table')
    BY <1>2, <1>3 DEF FewerHolders
  <2>2. QED
    BY <1>2, <1>3, <1>4, <2>1, CalmList
<1>7. PICK n \in Nat : n = Len(stack) /\ 1 \in 1..n
  <2>1. Len(stack) \in Nat /\ 1 \in 1..Len(stack)
    BY <1>1, <1>3
  <2>2. QED
    BY <2>1
<1>8. PICK f \in Frames : f = stack[1] /\ f = Top /\ f.at = "handler"
  BY <1>1, <1>3, <1>7 DEF Top
<1>9. PICK given \in Seq(Nat), send \in BOOLEAN, just \in BOOLEAN :
          given = f.given /\ send = f.send /\ just = f.just
  BY <1>8 DEF Frames
<1>10. obs # <<>> /\ \E rest \in Seq(Nat) : Active.text = given \o rest
  <2>1. ~ NoHandler(stack)
    BY <1>7, <1>8 DEF NoHandler
  <2>2. obs # <<>>
    BY <1>3, <2>1 DEF HandlerInv
  <2>3. \E rest \in Seq(Nat) : Active.text = stack[1].given \o rest
    BY <1>3, <1>7, <1>8 DEF HandlerInv
  <2>4. QED
    BY <1>8, <1>9, <2>2, <2>3, Zenon
<1>11. PICK text \in {given, Active.text} : Finish(text, send, just)
  BY <1>1, <1>8, <1>9 DEF HandlerReturns
<1>12. text \in Seq(Nat) /\ \E rest \in Seq(Nat) : Active.text = text \o rest
  <2>1. CASE text = given
    BY <1>10, <2>1, Zenon
  <2>2. CASE text = Active.text
    <3>1. Active.text \in Seq(Nat)
      BY <1>3, <1>10, ActiveText
    <3>2. PICK none \in Seq(Nat) : none = <<>>
      <4>1. <<>> \in Seq(Nat)
        OBVIOUS
      <4>2. QED
        BY <4>1
    <3>3. text \in Seq(Nat) /\ text \o none = text
      BY <2>2, <3>1, <3>2
    <3>4. QED
      BY <2>2, <3>3, Zenon
  <2>3. QED
    BY <2>1, <2>2
<1>13. PICK rest \in Seq(Nat) : Active.text = text \o rest
  BY <1>12, Zenon
<1>14. OutputInv' /\ SameBuffers(obs, obs') /\ printed' = printed
  BY <1>3, <1>10, <1>11, <1>12, <1>13, FinishKeeps
<1>15. HandlerInv'
  <2>1. PICK t : t = stack'
    OBVIOUS
  <2>2. Len(t) = n - 1 /\ \A k \in 1..(n - 1) : t[k] = stack[k + 1]
    <3>1. Len(t) = n - 1
      BY <1>1, <1>3, <1>7, <2>1, HeadTailProperties
    <3>2. \A k \in 1..(n - 1) : t[k] = stack[k + 1]
      BY <1>1, <1>3, <1>7, <2>1
    <3>3. QED
      BY <3>1, <3>2
  <2>3. \A j, k \in 1..n : stack[j].at = "handler" /\ stack[k].at = "handler" => j = k
    BY <1>3, <1>7 DEF HandlerInv
  <2>4. \A k \in 1..(n - 1) : k + 1 \in 1..n /\ k + 1 # 1
    OBVIOUS
  <2>5. ASSUME NEW k \in 1..(n - 1)
        PROVE  t[k].at # "handler"
    <3>1. t[k] = stack[k + 1] /\ k + 1 \in 1..n /\ k + 1 # 1
      BY <2>2, <2>4
    <3>2. stack[k + 1].at # "handler"
      BY <1>7, <1>8, <2>3, <3>1
    <3>3. QED
      BY <3>1, <3>2
  <2>6. NoHandler(stack')
    BY <2>1, <2>2, <2>5 DEF NoHandler
  <2>7. QED
    BY <2>6, HandlerNone
<1>16. ob_lock' \in BOOLEAN /\ printed' \in 0..steps'
  BY <1>1, <1>3, <1>14 DEF HandlerReturns
<1>17. QED
  BY <1>5, <1>6, <1>14, <1>15, <1>16, OutputStep

LEMMA DtorReturnsStep == IInv /\ DtorReturns => IInv'
<1> SUFFICES ASSUME IInv, DtorReturns
             PROVE  IInv'
  OBVIOUS
<1>1. PICK id, rest : id = Top.uses /\ rest = Tail(stack)
  OBVIOUS
<1>2. /\ stack # <<>> /\ Top.at = "dtor" /\ Delete(id, rest)
      /\ UNCHANGED <<output, phase, steps, table, walk, opened, functions, ini, closed, ghosts>>
  BY <1>1 DEF DtorReturns, At
<1>3. /\ phase' = phase /\ steps' = steps /\ walk' = walk /\ UNCHANGED output /\ table' = table
      /\ opened' = opened /\ closed' = closed /\ functions' = functions /\ ini' = ini
      /\ UNCHANGED ghosts
  BY <1>2
<1>4. /\ steps' \in steps..MaxSteps /\ StackOK(stack, phase, opened) /\ stack \in Seq(Frames)
      /\ functions \in 0..steps' /\ walk \in Walks /\ ini \in {"original", "changed"}
      /\ ListInv /\ opened \in Nat
  BY <1>3, SystemFacts
<1>5. StackOK(rest, phase, opened) /\ NoDtor(rest) /\ rest \in Seq(Frames) /\ id \in 0..opened
  BY <1>1, <1>2, <1>4, StackPop DEF Top
<1>6. ListInv' /\ Runs(rest, stack', phase, opened)
  <2>1. id \in Nat
    BY <1>4, <1>5
  <2>2. stack # <<>> /\ Top.at = "dtor" /\ Top.uses = id /\ closed' = closed
    BY <1>1, <1>2, <1>3
  <2>3. UNCHANGED <<table, opened, phase>>
    BY <1>3
  <2>4. QED
    BY <1>2, <1>4, <1>5, <2>1, <2>2, <2>3, DeleteList
<1>7. phase \notin {"ini", "over", "aborted"}
  BY <1>2, <1>4 DEF StackOK
<1>8. StackOK(stack', phase, opened')
  <2>1. StackOK(stack', phase, opened)
    BY <1>5, <1>6, <1>7, StackRuns
  <2>2. QED
    BY <1>3, <2>1
<1>9. Control
  BY <1>3, <1>4, <1>7, <1>8, SamePhase DEF ghosts
<1>10. Handlers(stack, stack')
  <2>1. Handlers(stack, rest) /\ Handlers(rest, stack')
    BY <1>1, <1>2, <1>4, <1>5, <1>6, HandlersTail, HandlersRuns
  <2>2. Len(rest) \in Nat /\ Len(stack') \in Nat
    BY <1>5, <1>8 DEF StackOK
  <2>3. QED
    BY <2>1, <2>2, HandlersTrans
<1>11. QED
  BY <1>3, <1>6, <1>9, <1>10, ListStep

LEMMA PushFacts ==
    ASSUME NEW label \in {"function", "destructor", "rshutdown"}, stack = <<>>,
           stack' = <<Frame(label)>> \o stack, phase \notin Late,
           label = "rshutdown" => phase = "modules", opened \in Nat
    PROVE  StackOK(stack', phase, opened) /\ NoDtor(stack') /\ Handlers(stack, stack')
<1>1. PICK f \in Frames : f = Frame(label) /\ f.at = label /\ f.uses = 0
  <2>1. label \in Labels
    BY DEF Labels, Bodies
  <2>2. QED
    BY <2>1, FrameType, Zenon
<1>2. stack' = <<f>> \o stack /\ stack \in Seq(Frames) /\ NoDtor(stack)
  BY <1>1 DEF NoDtor
<1>3. StackOK(stack, phase, opened)
  BY StackEmpty, Zenon
<1>4. f.uses \in 0..opened /\ Suits(f, phase) /\ f.at \notin {"handler", "dtor"}
  BY <1>1 DEF Suits, Late
<1>5. phase \notin {"ini", "over", "aborted"}
  BY DEF Late
<1>6. StackOK(stack', phase, opened)
  BY <1>2, <1>3, <1>4, <1>5, StackPush
<1>7. NoDtor(stack')
  <2>1. stack'[1] = f
    BY <1>2, Pushed
  <2>2. QED
    BY <1>4, <2>1 DEF NoDtor
<1>8. Handlers(stack, stack')
  <2>1. f.at # "handler"
    BY <1>4
  <2>2. QED
    BY <1>2, <2>1, HandlersPush
<1>9. QED
  BY <1>6, <1>7, <1>8

LEMMA CallFunctionStep == IInv /\ CallFunction => IInv'
<1> SUFFICES ASSUME IInv, CallFunction
             PROVE  IInv'
  OBVIOUS
<1>1. /\ stack = <<>> /\ phase = "functions" /\ functions > 0 /\ functions' = functions - 1
      /\ stack' = <<Frame("function")>> \o stack
      /\ UNCHANGED <<output, phase, steps, table, walk, resources, ini, ghosts>>
  BY DEF CallFunction, Quiet, Push
<1>2. /\ phase' = phase /\ steps' = steps /\ walk' = walk /\ UNCHANGED output /\ table' = table
      /\ UNCHANGED resources /\ ini' = ini /\ UNCHANGED ghosts
      /\ opened' = opened /\ regular' = regular
  BY <1>1 DEF resources
<1>3. /\ steps' \in steps..MaxSteps /\ functions \in 0..steps' /\ walk \in Walks
      /\ ini \in {"original", "changed"} /\ TableOK(table, opened) /\ opened \in Nat
  BY <1>2, SystemFacts
<1>4. StackOK(stack', phase, opened) /\ NoDtor(stack') /\ Handlers(stack, stack')
  BY <1>1, <1>3, PushFacts DEF Late
<1>5. functions' \in 0..steps'
  BY <1>1, <1>3
<1>6. Control
  BY <1>1, <1>2, <1>3, <1>4, <1>5, SamePhase DEF ghosts
<1>7. TableOK(table', opened) /\ FewerHolders(table, table')
  BY <1>2, <1>3 DEF FewerHolders
<1>8. QED
  BY <1>2, <1>4, <1>6, <1>7, IdleStep

LEMMA WalkSymbolsStep == IInv /\ WalkSymbols => IInv'
<1> SUFFICES ASSUME IInv, WalkSymbols
             PROVE  IInv'
  OBVIOUS
<1>1. /\ stack = <<>> /\ phase = "destructors"
      /\ UNCHANGED <<output, phase, steps, opened, functions, ini, closed, flushCut>>
  BY Zenon DEF WalkSymbols, Quiet
<1>2. /\ phase' = phase /\ steps' = steps /\ UNCHANGED output /\ functions' = functions
      /\ ini' = ini /\ opened' = opened /\ closed' = closed /\ flushCut' = flushCut
  BY <1>1
<1>3. /\ steps' \in steps..MaxSteps /\ StackOK(stack, phase, opened) /\ stack \in Seq(Frames)
      /\ functions \in 0..steps' /\ walk \in Walks /\ ini \in {"original", "changed"}
      /\ TableOK(table, opened) /\ ListInv /\ NoDtor(stack)
  BY <1>1, <1>2, SystemFacts DEF NoDtor
<1>4. CASE walk.next \notin {b.id : b \in ToSet(table)}
  <2>1. /\ beyond' \in Reasons
        /\ UNCHANGED <<table, walk, stack, regular, destroyed>>
    BY <1>4, Zenon DEF WalkSymbols, Reasons
  <2>2. /\ table' = table /\ walk' = walk /\ stack' = stack /\ UNCHANGED resources
        /\ regular' = regular
    BY <1>2, <2>1 DEF resources
  <2>3. Control
    BY <1>1, <1>2, <1>3, <2>1, <2>2, SamePhase
  <2>4. TableOK(table', opened) /\ FewerHolders(table, table')
    BY <1>3, <2>2 DEF FewerHolders
  <2>5. Handlers(stack, stack')
    BY <1>3, <2>2, HandlersSame
  <2>6. QED
    BY <1>2, <2>2, <2>3, <2>4, <2>5, IdleStep
<1>5. CASE walk.next \in {b.id : b \in ToSet(table)}
  <2>1. PICK k : k = Position(walk.next)
    OBVIOUS
  <2>2. PICK b : b = table[k]
    OBVIOUS
  <2>3. /\ walk' = [walk EXCEPT !.next = IF k = 1 THEN 0 ELSE table[k - 1].id]
        /\ beyond' = beyond
        /\ IF b.kind = "resource"
           THEN UNCHANGED <<table, stack, regular, destroyed>>
           ELSE table' = Without(table, b) /\ Kill(b, stack)
    BY <1>5, <2>1, <2>2, Zenon DEF WalkSymbols
  <2>4. PICK n \in Nat : /\ n = Len(table) /\ DOMAIN table = 1..n
                         /\ ToSet(table) = {table[i] : i \in 1..n}
                         /\ \A i \in 1..n : table[i] \in Buckets
    BY <1>3, TableFacts
  <2>5. k \in 1..n
    <3>1. \E i \in DOMAIN table : table[i].id = walk.next
      BY <1>5, <2>4
    <3>2. QED
      BY <2>1, <2>4, <3>1 DEF Position
  <2>6. b \in ToSet(table)
    BY <2>2, <2>4, <2>5
  <2>7. walk' \in Walks
    <3>1. PICK next \in Nat : next = IF k = 1 THEN 0 ELSE table[k - 1].id
      <4>1. k # 1 => k - 1 \in 1..n
        BY <2>4, <2>5
      <4>2. k # 1 => table[k - 1].id \in Nat
        BY <2>4, <4>1 DEF Buckets
      <4>3. QED
        BY <4>2
    <3>2. walk' = [walk EXCEPT !.next = next]
      BY <2>3, <3>1
    <3>3. QED
      BY <1>3, <3>2 DEF Walks
  <2>8. CASE b.kind = "resource"
    <3>1. /\ table' = table /\ stack' = stack /\ UNCHANGED resources /\ regular' = regular
      BY <1>2, <2>3, <2>8 DEF resources
    <3>2. Control
      BY <1>1, <1>2, <1>3, <2>3, <2>7, <3>1, SamePhase
    <3>3. TableOK(table', opened) /\ FewerHolders(table, table')
      BY <1>3, <3>1 DEF FewerHolders
    <3>4. Handlers(stack, stack')
      BY <1>3, <3>1, HandlersSame
    <3>5. QED
      BY <1>2, <3>1, <3>2, <3>3, <3>4, IdleStep
  <2>9. CASE b.kind # "resource"
    <3>1. table' = Without(table, b) /\ Kill(b, stack)
      BY <2>3, <2>9
    <3>2. TableOK(table', opened) /\ ToSet(table') = ToSet(table) \ {b}
      BY <1>3, <2>6, <3>1, TableWithout
    <3>3. phase \notin Late
      BY <1>1 DEF Late
    <3>4. ListInv' /\ Runs(stack, stack', phase, opened)
      BY <1>2, <1>3, <2>6, <3>1, <3>2, <3>3, KillList
    <3>5. StackOK(stack', phase, opened')
      <4>1. StackOK(stack', phase, opened)
        BY <1>3, <3>3, <3>4, StackRuns DEF Late
      <4>2. QED
        BY <1>2, <4>1
    <3>6. Control
      BY <1>1, <1>2, <1>3, <2>3, <2>7, <3>5, SamePhase
    <3>7. Handlers(stack, stack')
      BY <1>3, <3>4, HandlersRuns
    <3>8. QED
      BY <1>2, <3>4, <3>6, <3>7, ListStep
  <2>10. QED
    BY <2>8, <2>9
<1>6. QED
  BY <1>4, <1>5

LEMMA SymbolsWalkedStep == IInv /\ SymbolsWalked => IInv'
<1> SUFFICES ASSUME IInv, SymbolsWalked
             PROVE  IInv'
  OBVIOUS
<1>1. stack = <<>> /\ phase = "destructors"
  BY DEF SymbolsWalked, Quiet
<1>2. CASE Advance
  BY <1>1, <1>2, AdvanceStep
<1>3. CASE /\ walk' = [walk EXCEPT !.next = LastBucket(table), !.symbols = Len(table)]
           /\ UNCHANGED <<output, phase, stack, steps, table, resources, functions, ini, ghosts>>
  <2>1. /\ phase' = phase /\ steps' = steps /\ UNCHANGED output /\ table' = table
        /\ UNCHANGED resources /\ functions' = functions /\ ini' = ini /\ UNCHANGED ghosts
        /\ opened' = opened /\ regular' = regular /\ stack' = stack
    BY <1>3 DEF resources
  <2>2. /\ steps' \in steps..MaxSteps /\ StackOK(stack, phase, opened) /\ stack \in Seq(Frames)
        /\ functions \in 0..steps' /\ walk \in Walks /\ ini \in {"original", "changed"}
        /\ TableOK(table, opened)
    BY <2>1, SystemFacts
  <2>3. walk' \in Walks
    <3>1. PICK l \in Nat, m \in Nat : l = LastBucket(table) /\ m = Len(table)
      BY <2>2, TableFacts
    <3>2. walk' = [walk EXCEPT !.next = l, !.symbols = m]
      BY <1>3, <3>1
    <3>3. QED
      BY <2>2, <3>2 DEF Walks
  <2>4. Control
    BY <2>1, <2>2, <2>3, SamePhase DEF ghosts
  <2>5. TableOK(table', opened) /\ FewerHolders(table, table')
    BY <2>1, <2>2 DEF FewerHolders
  <2>6. Handlers(stack, stack')
    BY <2>1, <2>2, HandlersSame
  <2>7. QED
    BY <2>1, <2>4, <2>5, <2>6, IdleStep
<1>4. QED
  BY <1>2, <1>3 DEF SymbolsWalked

LEMMA CallDestructorStep == IInv /\ CallDestructor => IInv'
<1> SUFFICES ASSUME IInv, CallDestructor
             PROVE  IInv'
  OBVIOUS
<1>1. /\ stack = <<>> /\ phase = "objects" /\ stack' = <<Frame("destructor")>> \o stack
      /\ UNCHANGED <<output, phase, steps, walk, resources, functions, ini, ghosts>>
  BY DEF CallDestructor, Quiet, Push
<1>2. /\ phase' = phase /\ steps' = steps /\ walk' = walk /\ UNCHANGED output
      /\ UNCHANGED resources /\ functions' = functions /\ ini' = ini /\ UNCHANGED ghosts
      /\ opened' = opened /\ regular' = regular
  BY <1>1 DEF resources
<1>3. /\ steps' \in steps..MaxSteps /\ functions \in 0..steps' /\ walk \in Walks
      /\ ini \in {"original", "changed"} /\ TableOK(table, opened) /\ opened \in Nat
  BY <1>2, SystemFacts
<1>4. StackOK(stack', phase, opened) /\ NoDtor(stack') /\ Handlers(stack, stack')
  BY <1>1, <1>3, PushFacts DEF Late
<1>5. Control
  BY <1>1, <1>2, <1>3, <1>4, SamePhase DEF ghosts
<1>6. PICK k \in DOMAIN table : /\ table[k].kind = "object"
                                /\ table' = [table EXCEPT ![k].kind = "spent"]
  BY Zenon DEF CallDestructor
<1>7. SpentSome(table, table')
  <2>1. DOMAIN table = 1..Len(table)
    BY <1>3, TableFacts
  <2>2. PICK b, c : b = table[k] /\ c = [b EXCEPT !.kind = "spent"]
    OBVIOUS
  <2>3. table' = [table EXCEPT ![k] = c]
    BY <1>6, <2>2, Zenon
  <2>4. table' = [i \in 1..Len(table) |-> table'[i]]
    BY <2>1, <2>3
  <2>5. \A i \in 1..Len(table) : table'[i] = IF i = k THEN c ELSE table[i]
    BY <2>1, <2>3
  <2>6. ASSUME NEW i \in 1..Len(table)
        PROVE  \/ table'[i] = table[i]
               \/ table[i].kind = "object" /\ table'[i] = [table[i] EXCEPT !.kind = "spent"]
    <3>1. CASE i = k
      BY <1>6, <2>2, <2>5, <3>1, Zenon
    <3>2. CASE i # k
      BY <2>5, <3>2, Zenon
    <3>3. QED
      BY <3>1, <3>2
  <2>7. QED
    BY <2>4, <2>6, Zenon DEF SpentSome
<1>8. TableOK(table', opened) /\ FewerHolders(table, table')
  <2>1. TableOK(table', opened) /\ SameHolders(table, table')
    BY <1>3, <1>7, TableSpent
  <2>2. QED
    BY <2>1 DEF SameHolders, FewerHolders
<1>9. QED
  BY <1>2, <1>4, <1>5, <1>8, IdleStep

LEMMA FlushBufferStep == IInv /\ FlushBuffer => IInv'
<1> SUFFICES ASSUME IInv, FlushBuffer
             PROVE  IInv'
  OBVIOUS
<1>1. /\ stack = <<>> /\ phase = "flush" /\ obs # <<>> /\ EndBuffer(TRUE, FALSE)
      /\ UNCHANGED <<phase, steps, table, walk, resources, functions, ini, ghosts>>
  BY DEF FlushBuffer, Quiet
<1>2. /\ phase' = phase /\ steps' = steps /\ walk' = walk /\ table' = table
      /\ UNCHANGED resources /\ functions' = functions /\ ini' = ini /\ UNCHANGED ghosts
      /\ opened' = opened /\ regular' = regular
  BY <1>1 DEF resources
<1>3. /\ steps' \in steps..MaxSteps /\ functions \in 0..steps' /\ printed \in 0..steps'
      /\ walk \in Walks /\ ini \in {"original", "changed"} /\ TableOK(table, opened) /\ ListInv
  BY <1>2, SystemFacts
<1>4. NoHandler(stack) /\ NoDtor(stack) /\ phase \notin Late
  BY <1>1 DEF NoHandler, NoDtor, Late
<1>5. /\ OutputInv' /\ SameBuffers(obs, obs') /\ printed' = printed /\ ob_lock' \in BOOLEAN
      /\ StackOK(stack', phase, opened) /\ HandlerInv'
      /\ stack' = stack \/ NoDtor(stack')
  BY <1>1, <1>4, EndBufferKeeps
<1>6. Control
  BY <1>1, <1>2, <1>3, <1>5, SamePhase DEF ghosts
<1>7. TableOK(table', opened) /\ FewerHolders(table, table')
  BY <1>2, <1>3 DEF FewerHolders
<1>8. ListInv'
  BY <1>2, <1>3, <1>5, <1>7, CalmList
<1>9. printed' \in 0..steps'
  BY <1>3, <1>5
<1>10. QED
  BY <1>5, <1>6, <1>8, <1>9, OutputStep

LEMMA CallRshutdownStep == IInv /\ CallRshutdown => IInv'
<1> SUFFICES ASSUME IInv, CallRshutdown
             PROVE  IInv'
  OBVIOUS
<1>1. /\ stack = <<>> /\ phase = "modules" /\ stack' = <<Frame("rshutdown")>> \o stack
      /\ UNCHANGED <<output, phase, steps, table, walk, resources, functions, ini, ghosts>>
  BY DEF CallRshutdown, Quiet, Push
<1>2. /\ phase' = phase /\ steps' = steps /\ walk' = walk /\ UNCHANGED output /\ table' = table
      /\ UNCHANGED resources /\ functions' = functions /\ ini' = ini /\ UNCHANGED ghosts
      /\ opened' = opened /\ regular' = regular
  BY <1>1 DEF resources
<1>3. /\ steps' \in steps..MaxSteps /\ functions \in 0..steps' /\ walk \in Walks
      /\ ini \in {"original", "changed"} /\ TableOK(table, opened) /\ opened \in Nat
  BY <1>2, SystemFacts
<1>4. StackOK(stack', phase, opened) /\ NoDtor(stack') /\ Handlers(stack, stack')
  BY <1>1, <1>3, PushFacts DEF Late
<1>5. Control
  BY <1>1, <1>2, <1>3, <1>4, SamePhase DEF ghosts
<1>6. TableOK(table', opened) /\ FewerHolders(table, table')
  BY <1>2, <1>3 DEF FewerHolders
<1>7. QED
  BY <1>2, <1>4, <1>5, <1>6, IdleStep

LEMMA RshutdownReturnsStep == IInv /\ RshutdownReturns => IInv'
<1> SUFFICES ASSUME IInv, RshutdownReturns
             PROVE  IInv'
  OBVIOUS
<1>1. /\ stack # <<>> /\ stack[1].at = "rshutdown" /\ stack' = Tail(stack) /\ Enter("symbols")
      /\ UNCHANGED <<output, steps, table, resources, ini, ghosts>>
  BY DEF RshutdownReturns, At, Return, Top
<1>2. /\ steps' = steps /\ UNCHANGED output /\ table' = table
      /\ UNCHANGED resources /\ ini' = ini /\ UNCHANGED ghosts
      /\ opened' = opened /\ regular' = regular /\ flushCut' = flushCut /\ beyond' = beyond
  BY <1>1 DEF resources, ghosts
<1>3. /\ steps' \in steps..MaxSteps /\ StackOK(stack, phase, opened) /\ stack \in Seq(Frames)
      /\ ini \in {"original", "changed"} /\ TableOK(table, opened) /\ ControlInv
  BY <1>2, SystemFacts
<1>4. 1 \in 1..Len(stack)
  BY <1>1, <1>3
<1>5. phase = "modules" /\ Len(stack) = 1
  <2>1. Suits(stack[1], phase) /\ 1 = Len(stack)
    BY <1>1, <1>3, <1>4, Zenon DEF StackOK
  <2>2. QED
    BY <1>1, <2>1 DEF Suits
<1>6. stack' = <<>>
  BY <1>1, <1>3, <1>5
<1>7. phase' = "symbols" /\ walk' \in Walks /\ functions' \in 0..steps'
  <2>1. "symbols" \in Phases
    BY DEF Phases
  <2>2. QED
    BY <1>1, <1>3, <2>1, Entered
<1>8. StackOK(stack', phase', opened')
  BY <1>6, StackEmpty, Zenon
<1>9. phase' \in Phases /\ AfterFlush /\ phase' \notin {"ini", "over"} /\ phase \notin Late
  BY <1>5, <1>7 DEF Phases, AfterFlush, Late
<1>10. Control
  BY <1>2, <1>3, <1>7, <1>8, <1>9 DEF Control, ControlInv
<1>11. TableOK(table', opened) /\ FewerHolders(table, table')
  BY <1>2, <1>3 DEF FewerHolders
<1>12. Handlers(stack, stack') /\ NoDtor(stack')
  <2>1. Handlers(stack, stack')
    BY <1>6, HandlersEmpty, Zenon
  <2>2. QED
    BY <1>6, <2>1 DEF NoDtor
<1>13. QED
  BY <1>2, <1>9, <1>10, <1>11, <1>12, IdleStep

LEMMA DestroySymbolStep == IInv /\ DestroySymbol => IInv'
<1> SUFFICES ASSUME IInv, DestroySymbol
             PROVE  IInv'
  OBVIOUS
<1>1. /\ stack = <<>> /\ phase = "symbols" /\ table # <<>> /\ table' = Front(table)
      /\ Kill(Last(table), stack)
      /\ UNCHANGED <<output, phase, steps, walk, opened, functions, ini, closed, ghosts>>
  BY DEF DestroySymbol, Quiet
<1>2. /\ phase' = phase /\ steps' = steps /\ walk' = walk /\ UNCHANGED output
      /\ opened' = opened /\ closed' = closed /\ functions' = functions /\ ini' = ini
      /\ UNCHANGED ghosts
  BY <1>1
<1>3. /\ steps' \in steps..MaxSteps /\ StackOK(stack, phase, opened) /\ stack \in Seq(Frames)
      /\ functions \in 0..steps' /\ walk \in Walks /\ ini \in {"original", "changed"}
      /\ TableOK(table, opened) /\ ListInv
  BY <1>2, SystemFacts
<1>4. NoDtor(stack) /\ phase \notin Late
  BY <1>1 DEF NoDtor, Late
<1>5. PICK b \in ToSet(table) : /\ b = Last(table)
                                /\ TableOK(table', opened) /\ ToSet(table') = ToSet(table) \ {b}
  BY <1>1, <1>3, TableFront
<1>6. ListInv' /\ Runs(stack, stack', phase, opened)
  BY <1>1, <1>2, <1>3, <1>4, <1>5, KillList
<1>7. StackOK(stack', phase, opened')
  <2>1. StackOK(stack', phase, opened)
    BY <1>3, <1>4, <1>6, StackRuns DEF Late
  <2>2. QED
    BY <1>2, <2>1
<1>8. Control
  BY <1>1, <1>2, <1>3, <1>7, SamePhase DEF ghosts
<1>9. Handlers(stack, stack')
  BY <1>3, <1>6, HandlersRuns
<1>10. QED
  BY <1>2, <1>6, <1>8, <1>9, ListStep

LEMMA DestroyResourceStep == IInv /\ DestroyResource => IInv'
<1> SUFFICES ASSUME IInv, DestroyResource
             PROVE  IInv'
  OBVIOUS
<1>1. /\ stack = <<>> /\ phase = "resources" /\ regular # <<>>
      /\ Destroy(Last(regular), stack)
      /\ UNCHANGED <<output, phase, steps, table, walk, opened, functions, ini, closed, ghosts>>
  BY DEF DestroyResource, Quiet
<1>2. /\ phase' = phase /\ steps' = steps /\ walk' = walk /\ UNCHANGED output /\ table' = table
      /\ opened' = opened /\ closed' = closed /\ functions' = functions /\ ini' = ini
      /\ UNCHANGED ghosts
  BY <1>1
<1>3. /\ steps' \in steps..MaxSteps /\ StackOK(stack, phase, opened) /\ stack \in Seq(Frames)
      /\ functions \in 0..steps' /\ walk \in Walks /\ ini \in {"original", "changed"} /\ ListInv
  BY <1>2, SystemFacts
<1>4. ListInv' /\ Runs(stack, stack', phase, opened)
  BY <1>1, <1>2, <1>3, DestroyList
<1>5. StackOK(stack', phase, opened')
  <2>1. NoDtor(stack)
    BY <1>1 DEF NoDtor
  <2>2. StackOK(stack', phase, opened)
    BY <1>1, <1>3, <1>4, <2>1, StackRuns
  <2>3. QED
    BY <1>2, <2>2
<1>6. Control
  BY <1>1, <1>2, <1>3, <1>5, SamePhase DEF ghosts
<1>7. Handlers(stack, stack')
  BY <1>3, <1>4, HandlersRuns
<1>8. QED
  BY <1>2, <1>4, <1>6, <1>7, ListStep

LEMMA RestoreIniStep == IInv /\ RestoreIni => IInv'
<1> SUFFICES ASSUME IInv, RestoreIni
             PROVE  IInv'
  OBVIOUS
<1>1. /\ stack = <<>> /\ phase = "ini" /\ ini' = "original" /\ Enter("over")
      /\ UNCHANGED <<output, stack, steps, table, resources, ghosts>>
  BY DEF RestoreIni, Quiet
<1>2. /\ steps' = steps /\ UNCHANGED output /\ table' = table /\ stack' = stack
      /\ UNCHANGED resources /\ UNCHANGED ghosts
      /\ opened' = opened /\ regular' = regular /\ flushCut' = flushCut /\ beyond' = beyond
  BY <1>1 DEF resources, ghosts
<1>3. /\ steps' \in steps..MaxSteps /\ stack \in Seq(Frames) /\ CleanInv
      /\ TableOK(table, opened) /\ ControlInv
  BY <1>2, SystemFacts
<1>4. phase' = "over" /\ walk' \in Walks /\ functions' \in 0..steps'
  <2>1. "over" \in Phases
    BY DEF Phases
  <2>2. QED
    BY <1>1, <1>3, <2>1, Entered
<1>5. StackOK(stack', phase', opened')
  BY <1>1, <1>2, StackEmpty, Zenon
<1>6. regular' = <<>> /\ AfterFlush /\ phase' \in Late /\ phase' \in Phases
  BY <1>1, <1>2, <1>3, <1>4 DEF CleanInv, AfterFlush, Late, Phases
<1>7. Control
  BY <1>1, <1>2, <1>3, <1>4, <1>5, <1>6 DEF Control, ControlInv
<1>8. TableOK(table', opened) /\ FewerHolders(table, table')
  BY <1>2, <1>3 DEF FewerHolders
<1>9. Handlers(stack, stack')
  BY <1>2, <1>3, HandlersSame
<1>10. QED
  BY <1>2, <1>6, <1>7, <1>8, <1>9, IdleStep

LEMMA SystemPart == IInv /\ SystemStep => IInv'
BY AdvanceSteps, BodyReturnsStep, HandlerDoneStep, DtorReturnsStep, CallFunctionStep,
   WalkSymbolsStep, SymbolsWalkedStep, CallDestructorStep, FlushBufferStep, CallRshutdownStep,
   RshutdownReturnsStep, DestroySymbolStep, DestroyResourceStep, RestoreIniStep,
   Zenon DEF SystemStep
-----------------------------------------------------------------------------
LEMMA InitHolds == Init => IInv
<1> SUFFICES ASSUME Init
             PROVE  IInv
  OBVIOUS
<1>1. /\ OutputInit /\ phase = "script" /\ stack = <<>> /\ steps = 0 /\ table = <<>>
      /\ regular = <<>> /\ opened = 0 /\ functions = 0 /\ ini = "original"
      /\ closed = {} /\ flushCut = FALSE
      /\ walk = [next |-> 0, symbols |-> 0, since |-> 0]
      /\ destroyed = [id \in Rsrcs |-> 0]
  BY Zenon DEF Init
<1>2. OutputInv /\ obs = <<>> /\ ob_lock = FALSE /\ printed = 0
  BY <1>1, StartOutput DEF OutputInit
<1>3. MaxSteps \in Nat /\ MaxRsrc \in Nat
  BY BoundsAssumption
<1>4. ControlInv
  <2>1. StackOK(stack, phase, opened)
    BY <1>1, StackEmpty, Zenon
  <2>2. walk \in Walks
    BY <1>1 DEF Walks
  <2>3. beyond \in Reasons
    BY Zenon DEF Init, Reasons
  <2>4. phase \in Phases
    BY <1>1 DEF Phases
  <2>5. steps \in 0..MaxSteps /\ functions \in 0..steps /\ printed \in 0..steps
    BY <1>1, <1>2, <1>3
  <2>6. ini \in {"original", "changed"} /\ {ob_lock, flushCut} \subseteq BOOLEAN
    BY <1>1, <1>2
  <2>7. QED
    BY <2>1, <2>2, <2>3, <2>4, <2>5, <2>6, Zenon DEF ControlInv
<1>5. \A X : Sorted(<<>>, X) /\ ToSet(<<>>) = {}
  <2>1. Len(<<>>) = 0 /\ \A X : <<>> \in Seq(X)
    OBVIOUS
  <2>2. ToSet(<<>>) = {}
    BY DEF ToSet
  <2>3. QED
    BY <2>1, <2>2 DEF Sorted
<1>6. RegularInv
  <2>1. destroyed \in [Rsrcs -> Nat] /\ \A id \in Rsrcs : destroyed[id] = 0
    BY <1>1
  <2>2. \A id \in Rsrcs : ~ (id <= opened)
    BY <1>1, <1>3 DEF Rsrcs
  <2>3. opened \in 0..MaxRsrc
    BY <1>1, <1>3
  <2>4. \A r \in ToSet(regular) : r.uses < r.id /\ r.id <= opened
    BY <1>1, <1>5
  <2>5. Sorted(regular, Entries)
    BY <1>1, <1>5
  <2>6. QED
    BY <2>1, <2>2, <2>3, <2>4, <2>5 DEF RegularInv
<1>7. TableOK(table, opened)
  BY <1>1, <1>5 DEF TableOK
<1>8. ListInv
  <2>1. (1..opened) \ closed = {}
    BY <1>1
  <2>2. CountsOK
    BY <2>1 DEF CountsOK
  <2>3. closed \subseteq 1..opened
    BY <1>1
  <2>4. QED
    BY <1>6, <1>7, <2>2, <2>3 DEF ListInv
<1>9. CleanInv
  BY <1>1 DEF CleanInv, AfterFlush
<1>10. HandlerInv
  BY <1>1 DEF HandlerInv, NoHandler
<1>11. QED
  BY <1>2, <1>4, <1>8, <1>9, <1>10 DEF IInv

LEMMA StutterHolds == IInv /\ UNCHANGED vars => IInv'
<1> SUFFICES ASSUME IInv, UNCHANGED vars
             PROVE  IInv'
  OBVIOUS
<1>1. /\ phase' = phase /\ stack' = stack /\ steps' = steps /\ table' = table /\ walk' = walk
      /\ regular' = regular /\ opened' = opened /\ functions' = functions /\ ini' = ini
      /\ destroyed' = destroyed /\ closed' = closed /\ flushCut' = flushCut /\ beyond' = beyond
      /\ UNCHANGED output
  BY DEF vars, output
<1>2. /\ steps' \in steps..MaxSteps /\ StackOK(stack, phase, opened) /\ stack \in Seq(Frames)
      /\ functions \in 0..steps' /\ walk \in Walks /\ ini \in {"original", "changed"}
      /\ TableOK(table, opened)
  BY <1>1, SystemFacts
<1>3. UNCHANGED resources
  BY <1>1 DEF resources
<1>4. Control
  BY <1>1, <1>2, SamePhase
<1>5. TableOK(table', opened) /\ FewerHolders(table, table')
  BY <1>1, <1>2 DEF FewerHolders
<1>6. Handlers(stack, stack')
  BY <1>1, <1>2, HandlersSame
<1>7. QED
  BY <1>1, <1>3, <1>4, <1>5, <1>6, IdleStep

LEMMA NextHolds == IInv /\ [Next]_vars => IInv'
BY ScriptPart, SystemPart, StutterHolds, Zenon DEF Next

\* In every reachable state of a request: the C stack, the buffers, the list of resources
\* and the symbol table fit each other, whatever script code has run and wherever it has
\* bailed out.
THEOREM Invariance == Spec => []IInv
<1>1. Init => IInv
  BY InitHolds
<1>2. IInv /\ [Next]_vars => IInv'
  BY NextHolds
<1>3. QED
  BY <1>1, <1>2, PTL DEF Spec
-----------------------------------------------------------------------------
LEMMA OrderFromKept == IInv => InOrder
<1> SUFFICES ASSUME IInv
             PROVE  InOrder
  OBVIOUS
<1>1. PICK text : text = client \o Content(obs)
  OBVIOUS
<1>2. text = client \o Pending
  BY <1>1, Zenon DEF Content, Pending
<1>3. Kept(text, gone, printed)
  BY <1>1 DEF IInv, OutputInv
<1>4. /\ \A j, k \in DOMAIN text : j < k => text[j] < text[k]
      /\ ToSet(text) \cup gone = Pieces /\ ToSet(text) \cap gone = {}
  BY <1>3, Zenon DEF Kept, Increasing, Pieces
<1>5. QED
  BY <1>2, <1>4, Zenon DEF InOrder

\* No text is lost, repeated or overtaken in the buffers, whatever handlers run, do not
\* return or print, and wherever the request bails out (main/output.c).
THEOREM OutputInOrder == Spec => []InOrder
BY Invariance, OrderFromKept, PTL

LEMMA SoundFromList == IInv => ResourcesSound
<1> SUFFICES ASSUME IInv
             PROVE  ResourcesSound
  OBVIOUS
<1>1. ListInv /\ RegularInv /\ CountsOK
  BY DEF IInv, ListInv
<1>2. \A id \in Rsrcs : destroyed[id] = IF id <= opened /\ id \notin Linked THEN 1 ELSE 0
  BY <1>1 DEF RegularInv
<1>3. ASSUME NEW id \in (1..opened) \ closed
      PROVE  Cardinality(Users(id)) + Cardinality(Holders(id))
                 <= IF id \in Linked THEN Entry(id).ref ELSE 0
  <2>1. UserCount(id) + Cardinality(Holders(id)) + Usage(stack, id) <= Ref(id)
    BY <1>1, <1>3 DEF CountsOK
  <2>2. /\ UserCount(id) \in Nat /\ Ref(id) \in Nat /\ Usage(stack, id) \in {0, 1}
        /\ Cardinality(Holders(id)) \in Nat
    BY <1>1, CountNumbers
  <2>3. UserCount(id) = Cardinality(Users(id))
    BY Zenon DEF UserCount, UsersIn, Users
  <2>4. Ref(id) = IF id \in Linked THEN Entry(id).ref ELSE 0
    <3>1. id \in Linked <=> \E r \in ToSet(regular) : r.id = id
      BY DEF Linked
    <3>2. CASE id \in Linked
      BY <3>1, <3>2, Zenon DEF Ref, RefIn, Entry
    <3>3. CASE id \notin Linked
      BY <3>1, <3>3, Zenon DEF Ref, RefIn
    <3>4. QED
      BY <3>2, <3>3
  <2>5. UserCount(id) + Cardinality(Holders(id)) <= Ref(id)
    BY <2>1, <2>2
  <2>6. QED
    BY <2>3, <2>4, <2>5
<1>4. QED
  BY <1>2, <1>3, Zenon DEF ResourcesSound

\* A resource is destructed once, when nothing refers to it any more that a function has
\* not closed, also while the list of resources is destroyed (zend_list.c).
THEOREM ResourcesStaySound == Spec => []ResourcesSound
BY Invariance, SoundFromList, PTL

LEMMA CleanFromInv == IInv => CleanEnd
<1> SUFFICES ASSUME IInv, phase = "over"
             PROVE  (\A b \in ToSet(obs) : b.late \/ flushCut) /\ regular = <<>> /\ ini = "original"
  BY DEF CleanEnd
<1>1. CleanInv /\ OutputInv
  BY DEF IInv
<1>2. regular = <<>> /\ ini = "original" /\ \A k \in 1..Len(obs) : obs[k].late \/ flushCut
  BY <1>1 DEF CleanInv, AfterFlush
<1>3. ToSet(obs) = {obs[k] : k \in 1..Len(obs)}
  <2>1. DOMAIN obs = 1..Len(obs)
    <3>1. obs \in Seq(Buffer)
      BY <1>1 DEF OutputInv, BuffersOK
    <3>2. QED
      BY <3>1
  <2>2. QED
    BY <2>1, Zenon DEF ToSet
<1>4. QED
  BY <1>2, <1>3

\* When php_request_shutdown is through, the buffers are flushed, no resource is left and
\* the INI entry has its value again (main/main.c).
THEOREM EndsClean == Spec => []CleanEnd
BY Invariance, CleanFromInv, PTL

\* A sequence of numbers is one of the numbers that occur in it.
LEMMA SeqOver ==
    ASSUME NEW s \in Seq(Nat), NEW P, ToSet(s) \subseteq P
    PROVE  s \in Seq(P)
<1>1. PICK n \in Nat : n = Len(s) /\ DOMAIN s = 1..n
  OBVIOUS
<1>2. ToSet(s) = {s[k] : k \in 1..n}
  BY <1>1, Zenon DEF ToSet
<1>3. \A k \in 1..n : s[k] \in P
  BY <1>2
<1>4. PICK t : t = [k \in 1..n |-> s[k]]
  OBVIOUS
<1>5. t \in Seq(P)
  BY <1>3, <1>4
<1>6. t = s
  BY <1>1, <1>4
<1>7. QED
  BY <1>5, <1>6

LEMMA TypesFromInv == IInv => TypeOK
<1> SUFFICES ASSUME IInv
             PROVE  TypeOK
  OBVIOUS
<1>1. ControlInv /\ OutputInv /\ ListInv /\ RegularInv /\ TableOK(table, opened)
  BY DEF IInv, ListInv
<1>2. BuffersOK(obs) /\ obs \in Seq(Buffer) /\ client \in Seq(Nat) /\ printed \in Nat
  BY <1>1 DEF OutputInv, BuffersOK
<1>3. PICK n \in Nat : n = Len(obs) /\ DOMAIN obs = 1..n
  BY <1>2
<1>4. ToSet(client) \subseteq Pieces /\ gone \subseteq Pieces
      /\ \A k \in 1..n : ToSet(obs[k].text) \subseteq Pieces
  <2>1. PICK text : text = client \o Content(obs)
    OBVIOUS
  <2>2. ToSet(text) \cup gone = Pieces
    BY <1>1, <2>1, Zenon DEF OutputInv, Kept, Pieces
  <2>3. PICK held \in Seq(Nat) : held = Content(obs)
    BY <1>2, ContentType
  <2>4. ToSet(text) = ToSet(client) \cup ToSet(held)
    BY <1>2, <2>1, <2>3, ConcatElems
  <2>5. ToSet(held) = UNION {ToSet(obs[k].text) : k \in 1..n}
    BY <1>2, <1>3, <2>3, ContentElems
  <2>6. QED
    BY <2>2, <2>4, <2>5
<1>5. \A b \in ToSet(obs) : /\ b.text \in Seq(Pieces)
                            /\ {b.status, b.handler, b.erase, b.late} \subseteq BOOLEAN
                            /\ b.chunk > 0 => Len(b.text) < b.chunk
  <2>1. ASSUME NEW k \in 1..n
        PROVE  /\ obs[k].text \in Seq(Pieces)
               /\ {obs[k].status, obs[k].handler, obs[k].erase, obs[k].late} \subseteq BOOLEAN
               /\ obs[k].chunk > 0 => Len(obs[k].text) < obs[k].chunk
    <3>1. obs[k] \in Buffer
      BY <1>2, <1>3
    <3>2. obs[k].text \in Seq(Nat)
      BY <3>1 DEF Buffer
    <3>3. obs[k].text \in Seq(Pieces)
      BY <1>4, <3>2, SeqOver
    <3>4. {obs[k].status, obs[k].handler, obs[k].erase, obs[k].late} \subseteq BOOLEAN
      BY <3>1 DEF Buffer
    <3>5. obs[k].chunk > 0 => Len(obs[k].text) < obs[k].chunk
      BY <1>2, <1>3 DEF BuffersOK, Fits
    <3>6. QED
      BY <3>3, <3>4, <3>5
  <2>2. ToSet(obs) = {obs[k] : k \in 1..n}
    BY <1>3, Zenon DEF ToSet
  <2>3. QED
    BY <2>1, <2>2
<1>6. client \in Seq(Pieces)
  BY <1>2, <1>4, SeqOver
<1>7. \A f \in ToSet(stack) : f.at \in Labels /\ f.uses \in 0..opened
  <2>1. /\ stack \in Seq(Frames) /\ \A k \in 1..Len(stack) : stack[k].uses \in 0..opened
    BY <1>1 DEF ControlInv, StackOK
  <2>2. DOMAIN stack = 1..Len(stack)
    BY <2>1
  <2>3. ToSet(stack) = {stack[k] : k \in 1..Len(stack)}
    BY <2>2, Zenon DEF ToSet
  <2>4. \A k \in 1..Len(stack) : stack[k] \in Frames
    BY <2>1
  <2>5. \A k \in 1..Len(stack) : stack[k].at \in Labels
    BY <2>4 DEF Frames
  <2>6. QED
    BY <2>1, <2>3, <2>5
<1>8. \A j, k \in DOMAIN table : j < k => table[j].id < table[k].id /\ table[j].var # table[k].var
  <2>1. DOMAIN table = 1..Len(table) /\ \A k \in 1..Len(table) : table[k] \in Buckets
    BY <1>1, TableFacts
  <2>2. \A k \in 1..Len(table) : table[k] \in ToSet(table) /\ table[k].id \in Nat
    <3>1. ToSet(table) = {table[k] : k \in 1..Len(table)}
      BY <2>1, Zenon DEF ToSet
    <3>2. QED
      BY <2>1, <3>1 DEF Buckets
  <2>3. ASSUME NEW j \in 1..Len(table), NEW k \in 1..Len(table), j < k
        PROVE  table[j].id < table[k].id /\ table[j].var # table[k].var
    <3>1. table[j].id < table[k].id
      BY <1>1, <2>3 DEF TableOK, Sorted
    <3>2. table[j] # table[k]
      BY <2>2, <3>1
    <3>3. table[j].var # table[k].var
      BY <1>1, <2>2, <3>2, Zenon DEF TableOK
    <3>4. QED
      BY <3>1, <3>3
  <2>4. QED
    BY <2>1, <2>3
<1>9. \A j, k \in DOMAIN regular : j < k => regular[j].id < regular[k].id
  <2>1. Sorted(regular, Entries)
    BY <1>1 DEF RegularInv
  <2>2. DOMAIN regular = 1..Len(regular)
    BY <2>1 DEF Sorted
  <2>3. QED
    BY <2>1, <2>2 DEF Sorted
<1>10. \A r \in ToSet(regular) : r.ref > 0 /\ r.uses < r.id /\ r.id <= opened
  BY <1>1, RegularFacts DEF RegularInv, Entries
<1>11. opened \in 0..MaxRsrc /\ destroyed \in [Rsrcs -> Nat] /\ closed \subseteq 1..opened
  BY <1>1 DEF RegularInv, ListInv
<1>12. functions \in 0..MaxSteps /\ printed \in 0..MaxSteps /\ steps \in 0..MaxSteps
  <2>1. MaxSteps \in Nat
    BY BoundsAssumption
  <2>2. QED
    BY <1>1, <2>1 DEF ControlInv
<1>13. /\ phase \in Phases /\ ini \in {"original", "changed"}
       /\ ob_lock \in BOOLEAN /\ flushCut \in BOOLEAN
  BY <1>1 DEF ControlInv
<1>14. beyond \in {"no", "walked a freed bucket"}
  BY <1>1, Zenon DEF ControlInv, Reasons
<1>15. gone \subseteq Pieces
  BY <1>4
<1>16. QED
  BY <1>5, <1>6, <1>7, <1>8, <1>9, <1>10, <1>11, <1>12, <1>13, <1>14, <1>15, Zenon DEF TypeOK

\* The variables keep their types: among them, a listed resource has a positive count, and
\* a buffer with a chunk size never holds a whole chunk.
THEOREM TypeCorrect == Spec => []TypeOK
BY Invariance, TypesFromInv, PTL
=============================================================================

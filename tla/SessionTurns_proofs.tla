------------------------- MODULE SessionTurns_proofs -------------------------
(***************************************************************************)
(* What holds of every number of overlapping turns of one conversation,    *)
(* and, in the last sections, of the store that conversations meet in.     *)
(***************************************************************************)
EXTENDS SessionTurns, SessionStore, FiniteSetTheorems, SequenceTheorems, TLAPS

\* An answer is a sequence of items.
LEMMA ReturnedType ==
  ASSUME NEW t \in Turn, NEW r \in Reply
  PROVE  Returned(t, r.kinds) \in Seq(Item)
<1> DEFINE k == r.kinds
<1>1. k \in Seq({"message", "reasoning", "search"})  BY ReplyAssumption
<1>2. /\ Len(k) \in Nat
      /\ DOMAIN k = 1 .. Len(k)
      /\ \A i \in 1 .. Len(k) : k[i] \in {"message", "reasoning", "search"}
  BY <1>1, LenProperties, ElementOfSeq
<1>3. \A i \in 1 .. Len(k) :
        [kind |-> k[i], of |-> <<t, i>>] \in Item
  BY <1>2 DEF Item, Holdable
<1>4. QED  BY <1>2, <1>3 DEF Returned

\* The items a baseline accounts for can be counted.
LEMMA ConsumedType ==
  ASSUME NEW S, NEW b \in Seq(S)
  PROVE  Consumed(b) \in Nat
<1> DEFINE K == {i \in DOMAIN b : ~ServerOnly(b[i])}
<1>1. Len(b) \in Nat /\ DOMAIN b = 1 .. Len(b)  BY LenProperties
<1>2. IsFiniteSet(1 .. Len(b))  BY <1>1, FS_Interval
<1>3. K \subseteq 1 .. Len(b)  BY <1>1
<1>4. Cardinality(K) \in Nat  BY <1>2, <1>3, FS_Subset, FS_CardinalityType
<1>5. QED  BY <1>4 DEF Consumed, Kept

\* The reconciled conversation is a sequence of the same items.
LEMMA FullInputType ==
  ASSUME NEW S, NEW b \in Seq(S), NEW c \in Seq(S)
  PROVE  FullInput(b, c) \in Seq(S)
<1>1. Consumed(b) \in Nat  BY ConsumedType
<1>2. Len(c) \in Nat /\ \A i \in 1 .. Len(c) : c[i] \in S
  BY LenProperties, ElementOfSeq
<1>3. NewItems(b, c) \in Seq(S)
  <2>1. \A i \in (Consumed(b) + 1) .. Len(c) : c[i] \in S  BY <1>1, <1>2
  <2>2. Consumed(b) + 1 \in Int /\ Len(c) \in Int  BY <1>1, <1>2
  <2>3. QED  BY <2>1, <2>2, SubSeqProperties DEF NewItems
<1>4. Reconciled(b, c) \in Seq(S)  BY <1>3, ConcatProperties DEF Reconciled
<1>5. QED  BY <1>4 DEF FullInput

\* What a delta adds is a sequence of the same items, and put behind the
\* baseline it extends it is the candidate again.
LEMMA DeltaRestores ==
  ASSUME NEW S, NEW b \in Seq(S), NEW c \in Seq(S)
  PROVE  /\ Delta(b, c) \in Seq(S)
         /\ Extends(b, c) => b \o Delta(b, c) = c
<1>1. /\ Len(b) \in Nat /\ Len(c) \in Nat
      /\ \A i \in 1 .. Len(c) : c[i] \in S
  BY LenProperties, ElementOfSeq
<1>2. \A i \in (Len(b) + 1) .. Len(c) : c[i] \in S  BY <1>1
<1>3. /\ Delta(b, c) \in Seq(S)
      /\ Len(Delta(b, c)) = IF Len(b) + 1 <= Len(c) THEN Len(c) - Len(b) ELSE 0
      /\ \A i \in 1 .. (Len(c) - Len(b)) : Delta(b, c)[i] = c[Len(b) + i]
  <2>1. Len(b) + 1 \in Int /\ Len(c) \in Int  BY <1>1
  <2>2. /\ SubSeq(c, Len(b) + 1, Len(c)) \in Seq(S)
        /\ Len(SubSeq(c, Len(b) + 1, Len(c)))
             = IF Len(b) + 1 <= Len(c) THEN Len(c) - (Len(b) + 1) + 1 ELSE 0
        /\ \A i \in 1 .. (Len(c) - (Len(b) + 1) + 1) :
             SubSeq(c, Len(b) + 1, Len(c))[i] = c[(Len(b) + 1) + i - 1]
    BY ONLY <2>1, <1>2, SubSeqProperties
  <2>3. QED  BY <2>2, <1>1 DEF Delta
<1>4. ASSUME Extends(b, c)
      PROVE  b \o Delta(b, c) = c
  <2>1. Len(b) <= Len(c) /\ SubSeq(b, 1, Len(b)) = SubSeq(c, 1, Len(b))
    BY <1>4 DEF Extends, IsPrefix
  <2>2. \A i \in 1 .. Len(b) : b[i] = c[i]
    <3>1. \A i \in 1 .. Len(b) : SubSeq(b, 1, Len(b))[i] = b[i]
      BY <1>1, SubSeqFull
    <3>2. \A i \in 1 .. Len(b) : SubSeq(c, 1, Len(b))[i] = c[i]
      BY <1>1, <2>1
    <3>3. QED  BY <2>1, <3>1, <3>2
  <2>3. /\ b \o Delta(b, c) \in Seq(S)
        /\ Len(b \o Delta(b, c)) = Len(b) + Len(Delta(b, c))
        /\ \A i \in 1 .. Len(b) + Len(Delta(b, c)) : (b \o Delta(b, c))[i] =
             IF i <= Len(b) THEN b[i] ELSE Delta(b, c)[i - Len(b)]
    BY <1>3, ConcatProperties
  <2>4. Len(Delta(b, c)) = Len(c) - Len(b)  BY <1>1, <1>3, <2>1
  <2>5. Len(b \o Delta(b, c)) = Len(c)  BY <1>1, <2>3, <2>4
  <2>6. \A i \in 1 .. Len(c) : (b \o Delta(b, c))[i] = c[i]
    <3> TAKE i \in 1 .. Len(c)
    <3>1. CASE i <= Len(b)  BY <3>1, <1>1, <2>2, <2>3, <2>4
    <3>2. CASE i > Len(b)
      <4>1. i - Len(b) \in 1 .. (Len(c) - Len(b)) /\ Len(b) + (i - Len(b)) = i
        BY <3>2, <1>1
      <4>2. Delta(b, c)[i - Len(b)] = c[i]  BY <4>1, <1>3
      <4>3. QED  BY <3>2, <4>2, <1>1, <2>3, <2>4
    <3>3. i \in Int /\ Len(b) \in Int  BY <1>1
    <3>4. i <= Len(b) \/ i > Len(b)  BY ONLY <3>3
    <3>5. QED  BY ONLY <3>1, <3>2, <3>4
  <2>7. QED  BY <2>3, <2>5, <2>6, SeqEqual
<1>5. QED  BY <1>3, <1>4
-----------------------------------------------------------------------------
(***************************************************************************)
(* What the operators of Conversation compute, for every conversation.     *)
(***************************************************************************)

\* A set of numbers that holds 0, and the next of each it holds, holds them all:
\* were m missing, going on to the next number would put those of it below m into
\* those of them that are not 0, and they are one fewer.
LEMMA NatInduct ==
  ASSUME NEW S \in SUBSET Nat, 0 \in S, \A n \in S : n + 1 \in S
  PROVE  \A n \in Nat : n \in S
<1> SUFFICES ASSUME NEW m \in Nat, m \notin S
             PROVE  FALSE
  OBVIOUS
<1> DEFINE B == S \cap (0 .. m)
           f == [i \in B |-> i + 1]
<1>1. B \in SUBSET (0 .. m) /\ 0 \in B  OBVIOUS
<1>2. \A i \in B : i \in Nat /\ i + 1 \in B \ {0}
  <2> TAKE i \in B
  <2>1. i \in Nat /\ i \in S /\ i <= m /\ i # m  BY <1>1
  <2>2. i + 1 \in S /\ i + 1 <= m /\ i + 1 \in 0 .. m  BY <2>1
  <2>3. QED  BY <2>1, <2>2
<1> HIDE DEF B
<1>3. IsFiniteSet(0 .. m)  BY FS_Interval
<1>4. IsFiniteSet(B)  BY <1>1, <1>3, FS_Subset
<1>5. IsFiniteSet(B \ {0}) /\ Cardinality(B \ {0}) < Cardinality(B)
  <2>1. Cardinality(B) \in Nat  BY <1>4, FS_CardinalityType
  <2>2. IsFiniteSet(B \ {0}) /\ Cardinality(B \ {0}) = Cardinality(B) - 1
    BY <1>1, <1>4, FS_RemoveElement
  <2>3. QED  BY <2>1, <2>2
<1>6. f \in [B -> B \ {0}]  BY <1>2
<1>7. \E x, y \in B : x # y /\ f[x] = f[y]
  <2> HIDE DEF f
  <2>1. QED  BY <1>4, <1>5, <1>6, FS_PigeonHole
<1>8. QED  BY <1>2, <1>7

\* What Picked has of the first n items, from what it has of those before.
PickedStep(s, I, g, n) ==
  IF n = 0 THEN << >>
  ELSE IF n \in I THEN Append(g[n - 1], s[n]) ELSE g[n - 1]

\* The recursion Picked is defined by has a solution ...
LEMMA PickedExists ==
  ASSUME NEW S, NEW s \in Seq(S), NEW I
  PROVE  \E g : g = [n \in 0 .. Len(s) |-> PickedStep(s, I, g, n)]
<1> DEFINE Good(g, m) == g = [n \in 0 .. m |-> PickedStep(s, I, g, n)]
           M == {m \in Nat : \E g : Good(g, m)}
<1>1. 0 \in M
  <2> DEFINE g == [n \in 0 .. 0 |-> << >>]
  <2>1. Good(g, 0)  BY DEF PickedStep
  <2>2. QED  BY <2>1
<1>2. ASSUME NEW m \in M
      PROVE  m + 1 \in M
  <2>1. PICK g : Good(g, m)  OBVIOUS
  <2> DEFINE h == [n \in 0 .. m + 1 |->
                     IF n = m + 1 THEN PickedStep(s, I, g, n) ELSE g[n]]
  <2>2. m \in Nat  OBVIOUS
  <2>3. \A n \in 0 .. m : g[n] = PickedStep(s, I, g, n)  BY <2>1
  <2>4. \A n \in 0 .. m + 1 : h[n] = PickedStep(s, I, h, n)
    <3> TAKE n \in 0 .. m + 1
    <3>1. n = 0 \/ (n - 1 \in 0 .. m /\ h[n - 1] = g[n - 1])  BY <2>2
    <3>2. h[n] = PickedStep(s, I, g, n)  BY <2>2, <2>3
    <3>3. QED  BY <3>1, <3>2 DEF PickedStep
  <2>5. Good(h, m + 1)  BY <2>4
  <2>6. QED  BY <2>2, <2>5
<1> HIDE DEF M
<1>3. \A n \in Nat : n \in M
  <2>1. M \in SUBSET Nat  BY DEF M
  <2>2. QED  BY <1>1, <1>2, <2>1, NatInduct
<1>4. Len(s) \in Nat  BY LenProperties
<1>5. QED  BY <1>3, <1>4 DEF M

\* ... so that Picked is the last value of one.
LEMMA PickedIs ==
  ASSUME NEW S, NEW s \in Seq(S), NEW I
  PROVE  \E g : /\ g = [n \in 0 .. Len(s) |-> PickedStep(s, I, g, n)]
                /\ Picked(s, I) = g[Len(s)]
<1> DEFINE Body(g) == [n \in 0 .. Len(s) |->
                         IF n = 0 THEN << >>
                         ELSE IF n \in I THEN Append(g[n - 1], s[n])
                              ELSE g[n - 1]]
           G == CHOOSE g : g = Body(g)
<1>1. \A g : Body(g) = [n \in 0 .. Len(s) |-> PickedStep(s, I, g, n)]
  BY DEF PickedStep
<1>2. Picked(s, I) = G[Len(s)]  BY DEF Picked
<1>3. G = Body(G)
  <2>1. PICK h : h = [n \in 0 .. Len(s) |-> PickedStep(s, I, h, n)]
    BY PickedExists
  <2> HIDE DEF Body
  <2>2. h = Body(h)  BY <1>1, <2>1
  <2>3. QED  BY <2>2
<1> HIDE DEF Body, G
<1>4. QED  BY <1>1, <1>2, <1>3

\* It picks a sequence of what stands at the positions.
LEMMA PickedIsSeq ==
  ASSUME NEW S, NEW s \in Seq(S), NEW I,
         NEW T, \A i \in 1 .. Len(s) : i \in I => s[i] \in T
  PROVE  Picked(s, I) \in Seq(T)
<1>1. PICK g : /\ g = [n \in 0 .. Len(s) |-> PickedStep(s, I, g, n)]
               /\ Picked(s, I) = g[Len(s)]
  BY PickedIs
<1>2. Len(s) \in Nat  BY LenProperties
<1> DEFINE M == {m \in Nat : m <= Len(s) => g[m] \in Seq(T)}
<1>3. 0 \in M  BY <1>1, <1>2, EmptySeq DEF PickedStep
<1>4. ASSUME NEW m \in M
      PROVE  m + 1 \in M
  <2>1. m \in Nat  OBVIOUS
  <2>2. ASSUME m + 1 <= Len(s)
        PROVE  g[m + 1] \in Seq(T)
    <3>1. m + 1 \in 0 .. Len(s) /\ m + 1 # 0 /\ (m + 1) - 1 = m /\ m <= Len(s)
      BY <1>2, <2>1, <2>2
    <3>2. g[m] \in Seq(T)  BY <3>1
    <3>3. g[m + 1] = IF m + 1 \in I THEN Append(g[m], s[m + 1]) ELSE g[m]
      BY <1>1, <3>1 DEF PickedStep
    <3>4. m + 1 \in I => s[m + 1] \in T  BY <3>1, <1>2
    <3>5. QED  BY <3>2, <3>3, <3>4, AppendProperties
  <2>3. QED  BY <2>1, <2>2
<1> HIDE DEF M
<1>5. \A m \in Nat : m \in M
  <2>1. M \in SUBSET Nat  BY DEF M
  <2>2. QED  BY <1>3, <1>4, <2>1, NatInduct
<1>6. QED  BY <1>1, <1>2, <1>5 DEF M

\* An item put behind two sequences is behind the second.
Behind(S, a, b, e) ==
  a \in Seq(S) /\ b \in Seq(S) /\ e \in S => Append(a \o b, e) = a \o Append(b, e)

LEMMA AppendBehind == \A S, a, b, e : Behind(S, a, b, e)
BY DEF Behind

\* What is picked of two sequences in a row is picked of one, then of the other.
LEMMA PickedConcat ==
  ASSUME NEW S, NEW s \in Seq(S), NEW u \in Seq(S), NEW I, NEW J, NEW K,
         \A i \in 1 .. Len(s) : i \in K <=> i \in I,
         \A i \in 1 .. Len(u) : Len(s) + i \in K <=> i \in J
  PROVE  Picked(s \o u, K) = Picked(s, I) \o Picked(u, J)
<1> DEFINE w == s \o u
<1>1. /\ Len(s) \in Nat /\ Len(u) \in Nat
      /\ w \in Seq(S)
      /\ Len(w) = Len(s) + Len(u)
      /\ \A i \in 1 .. Len(s) : w[i] = s[i]
      /\ \A i \in 1 .. Len(u) : w[Len(s) + i] = u[i]
  BY LenProperties, ConcatProperties
<1> HIDE DEF w
<1>2. Len(s) \in Nat /\ Len(u) \in Nat /\ Len(w) = Len(s) + Len(u)  BY <1>1
<1>3. PICK f : /\ f = [n \in 0 .. Len(w) |-> PickedStep(w, K, f, n)]
               /\ Picked(w, K) = f[Len(w)]
  BY <1>1, PickedIs
<1>4. PICK g : /\ g = [n \in 0 .. Len(s) |-> PickedStep(s, I, g, n)]
               /\ Picked(s, I) = g[Len(s)]
  BY PickedIs
<1>5. PICK h : /\ h = [n \in 0 .. Len(u) |-> PickedStep(u, J, h, n)]
               /\ Picked(u, J) = h[Len(u)]
  BY PickedIs
<1>6. PICK whole \in Seq(S) : whole = g[Len(s)]
  BY <1>4, PickedIsSeq, ElementOfSeq
<1> DEFINE M == {m \in Nat : m <= Len(s) => f[m] = g[m]}
           L == {m \in Nat : m <= Len(u) => /\ h[m] \in Seq(S)
                                             /\ f[Len(s) + m] = whole \o h[m]}
<1>7. \A m \in Nat : m \in M
  <2>1. 0 \in M  BY <1>1, <1>3, <1>4 DEF PickedStep
  <2>2. ASSUME NEW m \in M
        PROVE  m + 1 \in M
    <3>1. m \in Nat  OBVIOUS
    <3>2. ASSUME m + 1 <= Len(s)
          PROVE  f[m + 1] = g[m + 1]
      <4>1. /\ m + 1 \in 1 .. Len(s) /\ m + 1 \in 0 .. Len(w) /\ m + 1 \in 0 .. Len(s)
            /\ m + 1 # 0 /\ (m + 1) - 1 = m /\ m <= Len(s)
        BY <1>1, <3>1, <3>2
      <4>2. f[m] = g[m]  BY <4>1
      <4>3. /\ f[m + 1] = IF m + 1 \in K THEN Append(f[m], w[m + 1]) ELSE f[m]
            /\ g[m + 1] = IF m + 1 \in I THEN Append(g[m], s[m + 1]) ELSE g[m]
        BY <1>3, <1>4, <4>1 DEF PickedStep
      <4>4. QED  BY <1>1, <4>1, <4>2, <4>3
    <3>3. QED  BY <3>1, <3>2
  <2> HIDE DEF M
  <2>3. M \in SUBSET Nat  BY DEF M
  <2>4. QED  BY <2>1, <2>2, <2>3, NatInduct
<1>8. f[Len(s)] = whole
  <2>1. Len(s) \in M  BY <1>1, <1>7
  <2>2. QED  BY <1>1, <1>6, <2>1
<1> HIDE DEF M
<1>9. \A b \in Seq(S), e \in S : Append(whole \o b, e) = whole \o Append(b, e)
  <2> TAKE b \in Seq(S), e \in S
  <2>1. Behind(S, whole, b, e)  BY AppendBehind
  <2>2. QED  BY <2>1, Zenon DEF Behind
<1>10. \A m \in Nat : m \in L
  <2>1. 0 \in L
    <3>1. h[0] = << >>  BY <1>1, <1>5 DEF PickedStep
    <3>2. whole \o << >> = whole  BY ConcatEmptySeq
    <3>3. << >> \in Seq(S)  BY EmptySeq
    <3>4. Len(s) + 0 = Len(s)  BY <1>1
    <3>5. h[0] \in Seq(S) /\ f[Len(s) + 0] = whole \o h[0]
      BY <1>8, <3>1, <3>2, <3>3, <3>4
    <3>6. QED  BY <3>5
  <2>2. ASSUME NEW m \in L
        PROVE  m + 1 \in L
    <3>1. /\ m \in Nat
          /\ m <= Len(u) => h[m] \in Seq(S) /\ f[Len(s) + m] = whole \o h[m]
      OBVIOUS
    <3>2. ASSUME m + 1 <= Len(u)
          PROVE  /\ h[m + 1] \in Seq(S)
                 /\ f[Len(s) + (m + 1)] = whole \o h[m + 1]
      <4> HIDE DEF L
      <4> DEFINE n == Len(s) + (m + 1)
      <4>1. /\ m + 1 \in 1 .. Len(u) /\ m + 1 \in 0 .. Len(u) /\ n \in 0 .. Len(w)
            /\ m + 1 # 0 /\ (m + 1) - 1 = m /\ m <= Len(u)
            /\ n # 0 /\ n - 1 = Len(s) + m
        BY ONLY <1>2, <3>1, <3>2
      <4>2. h[m] \in Seq(S) /\ f[Len(s) + m] = whole \o h[m]  BY <3>1, <4>1
      <4>3. /\ f[n] = IF n \in K THEN Append(f[Len(s) + m], w[n]) ELSE f[Len(s) + m]
            /\ h[m + 1] = IF m + 1 \in J THEN Append(h[m], u[m + 1]) ELSE h[m]
        BY <1>3, <1>5, <4>1 DEF PickedStep
      <4>4. (n \in K <=> m + 1 \in J) /\ w[n] = u[m + 1] /\ u[m + 1] \in S
        BY <1>1, <4>1, ElementOfSeq
      <4> HIDE DEF n
      <4>5. Append(whole \o h[m], u[m + 1]) = whole \o Append(h[m], u[m + 1])
        BY ONLY <1>9, <4>2, <4>4
      <4>6. h[m + 1] \in Seq(S)  BY <4>2, <4>3, <4>4, AppendProperties
      <4>7. f[n] = whole \o h[m + 1]  BY <4>2, <4>3, <4>4, <4>5
      <4>8. QED  BY <4>6, <4>7 DEF n
    <3>3. QED  BY <3>1, <3>2
  <2> HIDE DEF L
  <2>3. L \in SUBSET Nat  BY DEF L
  <2>4. QED  BY <2>1, <2>2, <2>3, NatInduct
<1>11. f[Len(s) + Len(u)] = whole \o h[Len(u)]
  <2>1. Len(u) \in L  BY <1>1, <1>10
  <2>2. QED  BY <1>1, <2>1
<1>12. QED  BY <1>1, <1>3, <1>4, <1>5, <1>6, <1>11 DEF w

\* It picks one item for each position, and everything when they are all there.
LEMMA PickedLen ==
  ASSUME NEW S, NEW s \in Seq(S), NEW I \in SUBSET (1 .. Len(s))
  PROVE  /\ Len(Picked(s, I)) = Cardinality(I)
         /\ Cardinality(I) \in Nat
         /\ I = 1 .. Len(s) => Picked(s, I) = s
<1>1. Len(s) \in Nat  BY LenProperties
<1>2. PICK g : /\ g = [n \in 0 .. Len(s) |-> PickedStep(s, I, g, n)]
               /\ Picked(s, I) = g[Len(s)]
  BY PickedIs
<1> DEFINE Upto(m) == I \cap (1 .. m)
           M == {m \in Nat : m <= Len(s) =>
                   /\ g[m] \in Seq(S)
                   /\ Len(g[m]) = Cardinality(Upto(m))
                   /\ IsFiniteSet(Upto(m))
                   /\ I = 1 .. Len(s) => g[m] = SubSeq(s, 1, m)}
<1>3. 0 \in M
  <2>1. g[0] = << >>  BY <1>1, <1>2 DEF PickedStep
  <2>2. Upto(0) = {}  OBVIOUS
  <2>3. IsFiniteSet({}) /\ Cardinality({}) = 0  BY FS_EmptySet
  <2>4. SubSeq(s, 1, 0) = << >>  BY SubSeqEmpty
  <2>5. << >> \in Seq(S) /\ Len(<< >>) = 0  BY EmptySeq
  <2> HIDE DEF Upto
  <2>6. QED  BY <2>1, <2>2, <2>3, <2>4, <2>5
<1>4. ASSUME NEW m \in M
      PROVE  m + 1 \in M
  <2>1. m \in Nat  OBVIOUS
  <2> SUFFICES ASSUME m + 1 <= Len(s)
               PROVE  /\ g[m + 1] \in Seq(S)
                      /\ Len(g[m + 1]) = Cardinality(Upto(m + 1))
                      /\ IsFiniteSet(Upto(m + 1))
                      /\ I = 1 .. Len(s) => g[m + 1] = SubSeq(s, 1, m + 1)
    BY <2>1
  <2>2. /\ m + 1 \in 0 .. Len(s) /\ m + 1 \in 1 .. Len(s)
        /\ m + 1 # 0 /\ (m + 1) - 1 = m /\ m <= Len(s)
    BY <1>1, <2>1
  <2>3. /\ g[m] \in Seq(S) /\ Len(g[m]) = Cardinality(Upto(m))
        /\ IsFiniteSet(Upto(m))
        /\ I = 1 .. Len(s) => g[m] = SubSeq(s, 1, m)
    BY <2>2
  <2>4. g[m + 1] = IF m + 1 \in I THEN Append(g[m], s[m + 1]) ELSE g[m]
    BY <1>2, <2>2 DEF PickedStep
  <2>5. s[m + 1] \in S  BY <2>2, ElementOfSeq
  <2>6. Upto(m + 1) = IF m + 1 \in I THEN Upto(m) \cup {m + 1} ELSE Upto(m)
    BY <2>1
  <2>7. m + 1 \notin Upto(m)  BY <2>1
  <2>8. SubSeq(s, 1, m + 1) = Append(SubSeq(s, 1, m), s[m + 1])
    <3>1. SubSeq(s, 1, m + 1) = SubSeq(s, 1, (m + 1) - 1) \o << s[m + 1] >>
      BY <1>1, <2>2, SubSeqRecursiveSecond
    <3>2. \A i \in 1 .. m : s[i] \in S  BY <1>1, <2>2, ElementOfSeq
    <3>3. SubSeq(s, 1, m) \in Seq(S)  BY <2>1, <3>2, SubSeqProperties
    <3>4. QED  BY <2>2, <2>5, <3>1, <3>3, AppendIsConcat
  <2> HIDE DEF Upto
  <2>9. CASE m + 1 \in I
    <3>1. Cardinality(Upto(m)) \in Nat  BY <2>3, FS_CardinalityType
    <3>2. IsFiniteSet(Upto(m + 1)) /\ Cardinality(Upto(m + 1)) = Cardinality(Upto(m)) + 1
      BY <2>3, <2>6, <2>7, <2>9, FS_AddElement
    <3>3. g[m + 1] = Append(g[m], s[m + 1])  BY <2>4, <2>9
    <3>4. g[m + 1] \in Seq(S) /\ Len(g[m + 1]) = Len(g[m]) + 1
      BY <2>3, <2>5, <3>3, AppendProperties
    <3>5. QED  BY <2>3, <2>8, <3>2, <3>3, <3>4
  <2>10. CASE m + 1 \notin I  BY <2>2, <2>3, <2>4, <2>6, <2>10
  <2>11. QED  BY <2>9, <2>10
<1> HIDE DEF M
<1>5. \A m \in Nat : m \in M
  <2>1. M \in SUBSET Nat  BY DEF M
  <2>2. QED  BY <1>3, <1>4, <2>1, NatInduct
<1>6. /\ Len(g[Len(s)]) = Cardinality(Upto(Len(s))) /\ IsFiniteSet(Upto(Len(s)))
      /\ I = 1 .. Len(s) => g[Len(s)] = SubSeq(s, 1, Len(s))
  <2>1. Len(s) \in M  BY <1>1, <1>5
  <2> HIDE DEF Upto
  <2>2. QED  BY <1>1, <2>1 DEF M
<1>7. Upto(Len(s)) = I  OBVIOUS
<1> HIDE DEF Upto
<1>8. QED  BY <1>2, <1>6, <1>7, FS_CardinalityType, SubSeqFull

\* None of these items is one the client is never shown.
Plain(c) == \A i \in 1 .. Len(c) : ~ServerOnly(c[i])

\* The replay of a conversation is as many of its items as reconciling passes
\* over, none of them one the client is never shown.
LEMMA ReplayableType ==
  ASSUME NEW S, NEW c \in Seq(S)
  PROVE  /\ Replayable(c) \in Seq(S)
         /\ Plain(Replayable(c))
         /\ Len(Replayable(c)) = Consumed(c)
         /\ Consumed(c) \in Nat
         /\ Plain(c) => Replayable(c) = c
<1> DEFINE T == {x \in S : ~ServerOnly(x)}
<1>1. Len(c) \in Nat /\ DOMAIN c = 1 .. Len(c)  BY LenProperties
<1>2. Kept(c) \in SUBSET (1 .. Len(c))  BY <1>1 DEF Kept
<1>3. \A i \in 1 .. Len(c) : i \in Kept(c) => c[i] \in T
  BY <1>1, ElementOfSeq DEF Kept
<1>4. Picked(c, Kept(c)) \in Seq(T)  BY <1>3, PickedIsSeq
<1>5. \A i \in 1 .. Len(Picked(c, Kept(c))) : Picked(c, Kept(c))[i] \in T
  BY <1>4, ElementOfSeq
<1>6. Picked(c, Kept(c)) \in Seq(S)  BY <1>4, SeqMonotonic
<1>7. /\ Len(Picked(c, Kept(c))) = Cardinality(Kept(c))
      /\ Cardinality(Kept(c)) \in Nat
      /\ Kept(c) = 1 .. Len(c) => Picked(c, Kept(c)) = c
  BY <1>2, PickedLen
<1>8. Plain(c) => Kept(c) = 1 .. Len(c)  BY <1>1 DEF Plain, Kept
<1>9. QED  BY <1>5, <1>6, <1>7, <1>8 DEF Replayable, Consumed, Plain

\* The replay of a conversation that goes on is the replay of both parts.
LEMMA ReplayableConcat ==
  ASSUME NEW S, NEW s \in Seq(S), NEW u \in Seq(S)
  PROVE  Replayable(s \o u) = Replayable(s) \o Replayable(u)
<1>1. /\ Len(s) \in Nat /\ DOMAIN s = 1 .. Len(s)
      /\ Len(u) \in Nat /\ DOMAIN u = 1 .. Len(u)
  BY LenProperties
<1>2. /\ DOMAIN (s \o u) = 1 .. Len(s) + Len(u)
      /\ \A i \in 1 .. Len(s) : (s \o u)[i] = s[i]
      /\ \A i \in 1 .. Len(u) : (s \o u)[Len(s) + i] = u[i]
  BY <1>1, ConcatProperties, LenProperties
<1>3. \A i \in 1 .. Len(s) : i \in Kept(s \o u) <=> i \in Kept(s)
  BY <1>1, <1>2 DEF Kept
<1>4. \A i \in 1 .. Len(u) : Len(s) + i \in Kept(s \o u) <=> i \in Kept(u)
  BY <1>1, <1>2 DEF Kept
<1> DEFINE I == Kept(s)
           J == Kept(u)
           K == Kept(s \o u)
<1>5. Picked(s \o u, K) = Picked(s, I) \o Picked(u, J)
  <2>1. /\ \A i \in 1 .. Len(s) : i \in K <=> i \in I
        /\ \A i \in 1 .. Len(u) : Len(s) + i \in K <=> i \in J
    BY <1>3, <1>4
  <2> HIDE DEF I, J, K
  <2>2. QED  BY <2>1, PickedConcat
<1>6. QED  BY <1>5 DEF Replayable

\* Two plain conversations in a row are one.
LEMMA PlainConcat ==
  ASSUME NEW S, NEW s \in Seq(S), NEW u \in Seq(S), Plain(s), Plain(u)
  PROVE  Plain(s \o u) /\ s \o u \in Seq(S)
<1>1. Len(s) \in Nat /\ Len(u) \in Nat  BY LenProperties
<1>2. /\ s \o u \in Seq(S) /\ Len(s \o u) = Len(s) + Len(u)
      /\ \A i \in 1 .. Len(s) + Len(u) :
           (s \o u)[i] = IF i <= Len(s) THEN s[i] ELSE u[i - Len(s)]
  BY ConcatProperties
<1>3. QED  BY <1>1, <1>2 DEF Plain

\* Whatever the baseline, the reconciled input replays as what the client sent.
LEMMA FullInputReplays ==
  ASSUME NEW S, NEW b \in Seq(S), NEW c \in Seq(S), Plain(c)
  PROVE  Replayable(FullInput(b, c)) = c
<1> DEFINE n == Consumed(b)
<1>1. Replayable(c) = c  BY ReplayableType
<1>2. CASE ~Reconciles(b, c)  BY <1>1, <1>2 DEF FullInput
<1>3. CASE Reconciles(b, c)
  <2>1. /\ n \in Nat /\ Len(Replayable(b)) = n /\ Replayable(b) \in Seq(S)
        /\ Len(c) \in Nat
    BY ReplayableType, LenProperties
  <2>2. n <= Len(c) /\ SubSeq(Replayable(b), 1, n) = SubSeq(c, 1, n)
    BY <1>3, <2>1 DEF Reconciles, IsPrefix
  <2>3. Replayable(b) = SubSeq(c, 1, n)  BY <2>1, <2>2, SubSeqFull
  <2> HIDE DEF n
  <2>4. \A i \in (n + 1) .. Len(c) : c[i] \in S  BY <2>1, ElementOfSeq
  <2>5. /\ SubSeq(c, n + 1, Len(c)) \in Seq(S)
        /\ Len(SubSeq(c, n + 1, Len(c)))
             = IF n + 1 <= Len(c) THEN Len(c) - (n + 1) + 1 ELSE 0
        /\ \A i \in 1 .. (Len(c) - (n + 1) + 1) :
             SubSeq(c, n + 1, Len(c))[i] = c[(n + 1) + i - 1]
    <3>1. n + 1 \in Int /\ Len(c) \in Int  BY <2>1
    <3>2. QED  BY ONLY <2>4, <3>1, SubSeqProperties
  <2>6. Plain(SubSeq(c, n + 1, Len(c)))
    <3>1. \A i \in 1 .. (Len(c) - (n + 1) + 1) : (n + 1) + i - 1 \in 1 .. Len(c)
      BY ONLY <2>1
    <3>2. 1 .. Len(SubSeq(c, n + 1, Len(c))) \subseteq 1 .. (Len(c) - (n + 1) + 1)
      BY <2>1, <2>5
    <3>3. QED  BY <2>5, <3>1, <3>2 DEF Plain
  <2>7. Replayable(SubSeq(c, n + 1, Len(c))) = SubSeq(c, n + 1, Len(c))
    BY <2>5, <2>6, ReplayableType
  <2>8. SubSeq(c, 1, n) \o SubSeq(c, n + 1, Len(c)) = c
    <3>1. /\ 1 \in 1 .. Len(c) + 1 /\ n \in 1 - 1 .. Len(c) /\ Len(c) \in n .. Len(c)
      BY ONLY <2>1, <2>2
    <3>2. SubSeq(c, 1, n) \o SubSeq(c, n + 1, Len(c)) = SubSeq(c, 1, Len(c))
      BY <3>1, ConcatAdjacentSubSeq
    <3>3. QED  BY <3>2, SubSeqFull
  <2>9. FullInput(b, c) = b \o SubSeq(c, n + 1, Len(c))
    BY <1>3 DEF FullInput, Reconciled, NewItems, n
  <2>10. QED  BY <2>3, <2>5, <2>7, <2>8, <2>9, ReplayableConcat
<1>4. QED  BY <1>2, <1>3
\* The sequence p is what stands in s at the positions I, in their order: its j-th
\* item stands at at[j].
InOrder(p, s, I, at) ==
  /\ at \in [1 .. Len(p) -> I]
  /\ \A j \in 1 .. Len(p) : p[j] = s[at[j]]
  /\ \A i, j \in 1 .. Len(p) : i < j => at[i] < at[j]
  /\ \A i \in I : \E j \in 1 .. Len(p) : at[j] = i

\* One more position, behind the others, is one more item at the end.
LEMMA OrderGrows ==
  ASSUME NEW S, NEW p \in Seq(S), NEW s, NEW m \in Nat, NEW J \in SUBSET (1 .. m),
         NEW at, InOrder(p, s, J, at), s[m + 1] \in S
  PROVE  \E bt : InOrder(Append(p, s[m + 1]), s, J \cup {m + 1}, bt)
<1> DEFINE n == Len(p)
           q == Append(p, s[m + 1])
           bt == [j \in 1 .. n + 1 |-> IF j = n + 1 THEN m + 1 ELSE at[j]]
<1>1. /\ n \in Nat /\ Len(q) = n + 1
      /\ \A j \in 1 .. n : q[j] = p[j]
      /\ q[n + 1] = s[m + 1]
  BY AppendProperties, LenProperties
<1>2. /\ \A j \in 1 .. n : at[j] \in J /\ at[j] \in 1 .. m
      /\ \A j \in 1 .. n : p[j] = s[at[j]]
      /\ \A i, j \in 1 .. n : i < j => at[i] < at[j]
      /\ \A i \in J : \E j \in 1 .. n : at[j] = i
  BY DEF InOrder
<1> HIDE DEF q, n
<1>3. \A j \in 1 .. n + 1 : j = n + 1 \/ j \in 1 .. n  BY <1>1
<1>4. /\ n + 1 \in 1 .. n + 1 /\ bt[n + 1] = m + 1
      /\ \A j \in 1 .. n : j \in 1 .. n + 1 /\ bt[j] = at[j]
  BY <1>1
<1>5. bt \in [1 .. n + 1 -> J \cup {m + 1}]  BY <1>2, <1>3
<1> HIDE DEF bt
<1>6. \A j \in 1 .. n + 1 : q[j] = s[bt[j]]  BY <1>1, <1>2, <1>3, <1>4
<1>7. \A i, j \in 1 .. n + 1 : i < j => bt[i] < bt[j]
  <2> TAKE i, j \in 1 .. n + 1
  <2> HAVE i < j
  <2>1. i \in 1 .. n /\ bt[i] = at[i]  BY <1>1, <1>4
  <2>2. CASE j = n + 1
    <3>1. at[i] \in 1 .. m  BY <1>2, <2>1
    <3>2. QED  BY <1>4, <2>1, <2>2, <3>1
  <2>3. CASE j \in 1 .. n  BY <1>2, <1>4, <2>1, <2>3
  <2>4. QED  BY <1>3, <2>2, <2>3
<1>8. \A i \in J \cup {m + 1} : \E j \in 1 .. n + 1 : bt[j] = i
  BY <1>2, <1>4
<1>9. InOrder(q, s, J \cup {m + 1}, bt)
  BY <1>1, <1>5, <1>6, <1>7, <1>8 DEF InOrder
<1>10. QED  BY <1>9 DEF q

\* What is picked stands in its old order, and nothing at the positions is missed.
LEMMA PickedOrder ==
  ASSUME NEW S, NEW s \in Seq(S), NEW I \in SUBSET (1 .. Len(s))
  PROVE  \E at : InOrder(Picked(s, I), s, I, at)
<1>1. Len(s) \in Nat  BY LenProperties
<1>2. PICK g : /\ g = [n \in 0 .. Len(s) |-> PickedStep(s, I, g, n)]
               /\ Picked(s, I) = g[Len(s)]
  BY PickedIs
<1> DEFINE Upto(m) == I \cap (1 .. m)
           Good(m) == g[m] \in Seq(S) /\ \E at : InOrder(g[m], s, Upto(m), at)
           M == {m \in Nat : m <= Len(s) => Good(m)}
<1>3. Good(0)
  <2>1. g[0] = << >>  BY <1>1, <1>2 DEF PickedStep
  <2>2. << >> \in Seq(S) /\ Len(<< >>) = 0  BY EmptySeq
  <2>3. Upto(0) = {}  OBVIOUS
  <2> HIDE DEF Upto
  <2>4. InOrder(<< >>, s, Upto(0), << >>)  BY <2>2, <2>3 DEF InOrder
  <2>5. QED  BY <2>1, <2>2, <2>4
<1>4. ASSUME NEW m \in Nat, m + 1 <= Len(s), Good(m)
      PROVE  Good(m + 1)
  <2>1. m + 1 \in 0 .. Len(s) /\ m + 1 \in 1 .. Len(s) /\ m + 1 # 0 /\ (m + 1) - 1 = m
    BY <1>1, <1>4
  <2>2. PICK at : g[m] \in Seq(S) /\ InOrder(g[m], s, Upto(m), at)  BY <1>4
  <2> HIDE DEF Good
  <2>3. g[m + 1] = IF m + 1 \in I THEN Append(g[m], s[m + 1]) ELSE g[m]
    BY <1>2, <2>1 DEF PickedStep
  <2>4. s[m + 1] \in S  BY <2>1, ElementOfSeq
  <2>5. /\ Upto(m) \in SUBSET (1 .. m)
        /\ m + 1 \in I => Upto(m + 1) = Upto(m) \cup {m + 1}
        /\ m + 1 \notin I => Upto(m + 1) = Upto(m)
    <3>1. \A i : i \in 1 .. m + 1 <=> i \in 1 .. m \/ i = m + 1  OBVIOUS
    <3>2. QED  BY <3>1
  <2> HIDE DEF Upto
  <2>6. CASE m + 1 \in I
    <3>1. \E bt : InOrder(Append(g[m], s[m + 1]), s, Upto(m) \cup {m + 1}, bt)
      BY <2>2, <2>4, <2>5, OrderGrows
    <3>2. Append(g[m], s[m + 1]) \in Seq(S)  BY <2>2, <2>4, AppendProperties
    <3>3. g[m + 1] = Append(g[m], s[m + 1])  BY <2>3, <2>6
    <3>4. QED  BY <2>5, <2>6, <3>1, <3>2, <3>3 DEF Good
  <2>7. CASE m + 1 \notin I
    <3>1. Upto(m + 1) = Upto(m) /\ g[m + 1] = g[m]  BY <2>3, <2>5, <2>7
    <3>2. QED  BY <2>2, <3>1 DEF Good
  <2>8. QED  BY <2>6, <2>7
<1> HIDE DEF Good
<1>5. \A m \in Nat : m \in M
  <2>1. M \in SUBSET Nat /\ 0 \in M  BY <1>3
  <2>2. \A m \in M : m + 1 \in M  BY <1>1, <1>4
  <2> HIDE DEF M
  <2>3. QED  BY <2>1, <2>2, NatInduct
<1>6. Good(Len(s))  BY <1>1, <1>5
<1>7. Upto(Len(s)) = I  OBVIOUS
<1> HIDE DEF Upto
<1>8. QED  BY <1>2, <1>6, <1>7 DEF Good

-----------------------------------------------------------------------------
(***************************************************************************)
(* Types.                                                                  *)
(***************************************************************************)

\* Where the items stand that a request can carry.
AtHeld(c) == {i \in DOMAIN c : c[i].kind # "search"}

\* What is held of a conversation is all of it that a request can carry.
LEMMA HeldType ==
  ASSUME NEW c \in Seq(Item)
  PROVE  Held(c) \in Seq(Holdable)
<1>1. DOMAIN c = 1 .. Len(c)  BY LenProperties
<1>2. \A i \in 1 .. Len(c) : i \in AtHeld(c) => c[i] \in Holdable
  <2> TAKE i \in 1 .. Len(c)
  <2>1. c[i] \in Item  BY ElementOfSeq
  <2>2. c[i].kind # "search" => c[i] \in Holdable  BY <2>1 DEF Item
  <2>3. QED  BY <2>2 DEF AtHeld
<1>3. Picked(c, AtHeld(c)) \in Seq(Holdable)  BY <1>2, PickedIsSeq
<1>4. QED  BY <1>3 DEF Held, AtHeld

\* A request is held whole.
LEMMA HeldWhole ==
  ASSUME NEW c \in Seq(Holdable)
  PROVE  Held(c) = c /\ c \in Seq(Item)
<1>1. DOMAIN c = 1 .. Len(c)  BY LenProperties
<1>2. \A i \in 1 .. Len(c) : c[i].kind # "search"
  <2> TAKE i \in 1 .. Len(c)
  <2>1. c[i] \in Holdable  BY ElementOfSeq
  <2>2. QED  BY <2>1 DEF Holdable
<1>3. AtHeld(c) = 1 .. Len(c)  BY <1>1, <1>2 DEF AtHeld
<1>4. Picked(c, AtHeld(c)) = c  BY <1>3, PickedLen
<1>5. c \in Seq(Item)  BY SeqMonotonic DEF Item
<1>6. QED  BY <1>4, <1>5 DEF Held, AtHeld

\* What is held of two conversations in a row is held of one, then of the other.
LEMMA HeldConcat ==
  ASSUME NEW s \in Seq(Item), NEW u \in Seq(Item)
  PROVE  Held(s \o u) = Held(s) \o Held(u)
<1>1. /\ Len(s) \in Nat /\ DOMAIN s = 1 .. Len(s)
      /\ Len(u) \in Nat /\ DOMAIN u = 1 .. Len(u)
  BY LenProperties
<1>2. /\ DOMAIN (s \o u) = 1 .. Len(s) + Len(u)
      /\ \A i \in 1 .. Len(s) : (s \o u)[i] = s[i]
      /\ \A i \in 1 .. Len(u) : (s \o u)[Len(s) + i] = u[i]
  BY <1>1, ConcatProperties, LenProperties
<1> DEFINE I == AtHeld(s)
           J == AtHeld(u)
           K == AtHeld(s \o u)
<1>3. \A i \in 1 .. Len(s) : i \in K <=> i \in I  BY <1>1, <1>2 DEF AtHeld
<1>4. \A i \in 1 .. Len(u) : Len(s) + i \in K <=> i \in J
  BY <1>1, <1>2 DEF AtHeld
<1>5. Picked(s \o u, K) = Picked(s, I) \o Picked(u, J)
  <2> HIDE DEF I, J, K
  <2>1. QED  BY <1>3, <1>4, PickedConcat
<1>6. QED  BY <1>5 DEF Held, AtHeld

\* A question is an item a request can carry.
LEMMA UserType ==
  ASSUME NEW u \in Said
  PROVE  [kind |-> "user", of |-> u] \in Holdable
BY DEF Holdable

\* What the backend holds behind a response is a sequence of items.
LEMMA ContextType ==
  ASSUME TypeOK, NEW r \in Turn
  PROVE  /\ Context(r) \in Seq(Item)
         /\ ~unheld[r] => Context(r) = heard[r] \o reply[r]
<1>1. Unheld(r) \in Seq(Item)  BY DEF Unheld, Item, Holdable
<1>2. << >> \in Seq(Item)  BY EmptySeq
<1>3. (IF unheld[r] THEN Unheld(r) ELSE << >>) \in Seq(Item)
  BY <1>1, <1>2
<1>4. heard[r] \in Seq(Item) /\ reply[r] \in Seq(Item)  BY DEF TypeOK
<1>5. heard[r] \o reply[r] \in Seq(Item)  BY <1>4, ConcatProperties
<1>6. Context(r) \in Seq(Item)  BY <1>3, <1>5, ConcatProperties DEF Context
<1>7. ~unheld[r] => Context(r) = heard[r] \o reply[r]
  BY <1>5, ConcatEmptySeq DEF Context
<1>8. QED  BY <1>6, <1>7

\* Every variable keeps its type, whatever the turns do.
LEMMA TypeStep == TypeOK /\ [Next]_vars => TypeOK'
<1> SUFFICES ASSUME TypeOK, [Next]_vars
             PROVE  TypeOK'
  OBVIOUS
<1> USE DEF TypeOK, Label
<1>1. ASSUME NEW t \in Turn, Open(t)
      PROVE  TypeOK'
  <2>1. PICK u \in Said, f \in Fields :
          /\ Ask(t, <<[kind |-> "user", of |-> u]>>, f)
          /\ baseline' = <<[kind |-> "user", of |-> u]>>
    BY <1>1 DEF Open
  <2>2. <<[kind |-> "user", of |-> u]>> \in Seq(Holdable)  BY UserType
  <2>3. QED  BY <1>1, <2>1, <2>2 DEF Open, Ask, Goto, conduit, outside
<1>2. ASSUME NEW t \in Turn, Join(t)
      PROVE  TypeOK'
  <2>1. PICK i \in Seq(Holdable), f \in Fields : Ask(t, i, f)
    BY <1>2 DEF Join
  <2>2. QED  BY <1>2, <2>1 DEF Join, Ask, Goto, session, conduit, outside
<1>3. ASSUME NEW t \in Turn, Snapshot(t)
      PROVE  TypeOK'
  <2>1. FullInput(baseline, input[t]) \in Seq(Holdable)  BY FullInputType
  <2>2. QED  BY <1>3, <2>1 DEF Snapshot, Goto, session, conduit, outside
<1>4. ASSUME NEW t \in Turn, Accept(t)
      PROVE  TypeOK'
  <2>1. \A r \in Turn : Context(r) \in Seq(Item)  BY ContextType
  <2>2. Delta(snap[t].baseline, sent[t]) \in Seq(Item) /\ sent[t] \in Seq(Item)
    BY DeltaRestores, HeldWhole
  <2>3. continues[t] # None =>
          Context(continues[t]) \o Delta(snap[t].baseline, sent[t]) \in Seq(Item)
    BY <2>1, <2>2, ConcatProperties
  <2>4. (IF continues[t] = None THEN sent[t]
         ELSE Context(continues[t]) \o Delta(snap[t].baseline, sent[t]))
          \in Seq(Item)
    BY <2>2, <2>3
  <2>5. QED  BY <1>4, <2>4 DEF Accept, Goto, session, local
<1>5. ASSUME NEW t \in Turn, AcceptHttp(t)
      PROVE  TypeOK'
  <2>1. sent[t] \in Seq(Item)  BY HeldWhole
  <2>2. QED  BY <1>5, <2>1 DEF AcceptHttp, Goto, session, conduit, local
<1>6. ASSUME NEW t \in Turn, Complete(t)
      PROVE  TypeOK'
  <2>1. PICK r \in Reply :
          /\ reply' = [reply EXCEPT ![t] = Returned(t, r.kinds)]
          /\ unheld' = [unheld EXCEPT ![t] = r.unheld]
    BY <1>6 DEF Complete
  <2>2. Returned(t, r.kinds) \in Seq(Item) /\ r.unheld \in BOOLEAN
    BY ReturnedType, ReplyAssumption
  <2>3. QED  BY <1>6, <2>1, <2>2 DEF Complete, Goto, session, conduit
<1>7. ASSUME NEW t \in Turn, EndUnfinished(t)
      PROVE  TypeOK'
  <2>1. PICK r \in Reply : reply' = [reply EXCEPT ![t] = Returned(t, r.kinds)]
    BY <1>7 DEF EndUnfinished
  <2>2. Returned(t, r.kinds) \in Seq(Item)  BY ReturnedType
  <2>3. QED  BY <1>7, <2>1, <2>2 DEF EndUnfinished, Goto, session, conduit
<1>8. ASSUME NEW t \in Turn, Close(t)
      PROVE  TypeOK'
  <2>1. sent[t] \o Held(reply[t]) \in Seq(Holdable)
    BY HeldType, ConcatProperties
  <2>2. QED  BY <1>8, <2>1 DEF Close, Goto, conduit, local, outside
<1>9. ASSUME NEW t \in Turn, CheckConfirmed(t)
      PROVE  TypeOK'
  BY <1>9 DEF CheckConfirmed, Goto, session, conduit, local, outside
<1>10. ASSUME NEW t \in Turn, Seed(t)
      PROVE  TypeOK'
  BY <1>10 DEF Seed, Goto, session, conduit, local, outside
<1>11. ASSUME NEW t \in Turn, TakeConnection(t)
      PROVE  TypeOK'
  BY <1>11 DEF TakeConnection, Goto, session, conduit, local, outside
<1>12. ASSUME NEW t \in Turn, RetryFresh(t)
      PROVE  TypeOK'
  BY <1>12 DEF RetryFresh, Goto, session, conduit, local, outside
<1>13. ASSUME NEW t \in Turn, FallBack(t)
      PROVE  TypeOK'
  BY <1>13 DEF FallBack, Goto, session, conduit, local, outside
<1>14. ASSUME NEW t \in Turn, RefuseTurn(t)
      PROVE  TypeOK'
  BY <1>14 DEF RefuseTurn, Goto, session, conduit, local, outside
<1>15. ASSUME NEW t \in Turn, Abandon(t)
      PROVE  TypeOK'
  BY <1>15 DEF Abandon, Goto, session, conduit, local, outside
<1>16. ASSUME NEW t \in Turn, Leave(t)
      PROVE  TypeOK'
  BY <1>16 DEF Leave, Goto, session, conduit, local, outside
<1>17. ASSUME NEW t \in Turn, Park(t)
      PROVE  TypeOK'
  BY <1>17 DEF Park, Goto, session, conduit, local, outside
<1>18. CASE UNCHANGED vars
  BY <1>18 DEF vars, session, conduit, local, outside
<1>19. QED
  BY <1>1, <1>2, <1>3, <1>4, <1>5, <1>6, <1>7, <1>8, <1>9, <1>10, <1>11, <1>12, <1>13,
     <1>14, <1>15, <1>16, <1>17, <1>18 DEF Next, Finished

LEMMA InitType == Init => TypeOK
<1>1. << >> \in Seq(Item) /\ << >> \in Seq(Holdable)  BY EmptySeq
<1> SUFFICES ASSUME Init PROVE TypeOK  OBVIOUS
<1>2. /\ baseline \in Seq(Holdable) /\ lastFields \in Fields \union {None}
      /\ lastResponse \in Turn \union {None}
      /\ confirmed \in BOOLEAN /\ latched \in BOOLEAN /\ clobbered \in BOOLEAN
      /\ slot \in Turn \union {None} /\ seen \in [Turn -> Turn \union {None}]
  BY <1>1 DEF Init
<1>3. /\ pc \in [Turn -> Label] /\ ended \in [Turn -> {"no", "completed", "unfinished"}]
      /\ fields \in [Turn -> Fields \union {None}]
      /\ conn \in [Turn -> Turn \union {None}]
      /\ continues \in [Turn -> Turn \union {None}]
  BY DEF Init, Label
<1>4. /\ input \in [Turn -> Seq(Holdable)] /\ sent \in [Turn -> Seq(Holdable)]
      /\ heard \in [Turn -> Seq(Item)] /\ reply \in [Turn -> Seq(Item)]
  BY <1>1 DEF Init
<1>5. snap \in [Turn -> [baseline : Seq(Holdable), fields : Fields \union {None},
                        response : Turn \union {None}]]
  BY <1>1 DEF Init
<1>6. /\ reused \in [Turn -> BOOLEAN] /\ gone \in [Turn -> BOOLEAN]
      /\ unheld \in [Turn -> BOOLEAN]
  BY DEF Init
<1>7. QED  BY <1>2, <1>3, <1>4, <1>5, <1>6 DEF TypeOK

\* Type correctness, for every number of turns (SessionTurns!TypeOK).
THEOREM TypeCorrect == Spec => []TypeOK
BY InitType, TypeStep, PTL DEF Spec
-----------------------------------------------------------------------------
(***************************************************************************)
(* A delta says what a full upload would have said.                        *)
(***************************************************************************)

\* What the backend holds behind a response that nothing touches stays.
LEMMA ContextStable ==
  ASSUME NEW r, heard'[r] = heard[r], reply'[r] = reply[r],
         unheld'[r] = unheld[r]
  PROVE  Context(r)' = Context(r)
BY DEF Context

\* A step that moves no baseline, asks nothing of the backend and takes a turn
\* on from where it is disturbs nothing but that turn's label.
LEMMA QuietStep ==
  ASSUME DeltaInv, TypeOK', NEW t \in Turn,
         UNCHANGED <<baseline, lastResponse, confirmed, clobbered, snap, sent,
                     heard, reply, unheld>>,
         pc[t] # "done",
         pc' = [pc EXCEPT ![t] = pc'[t]],
         heard[t] = << >> \/ pc'[t] \in {"parking", "closing", "done"},
         pc'[t] \in {"streaming", "parking", "closing"} =>
           pc[t] \in {"streaming", "parking", "closing"},
         ContinueInv'
  PROVE  DeltaInv'
<1> USE DEF DeltaInv, TypeOK
<1>1. \A r : Context(r)' = Context(r)  BY DEF Context
<1>2. HeardInv'  BY DEF HeardInv
<1>3. SessionInv'  BY <1>1 DEF SessionInv
<1>4. SnapInv'  BY <1>1 DEF SnapInv
<1>5. QED  BY <1>2, <1>3, <1>4

\* What a turn has read of the session stays true while what is over stays over.
LEMMA SnapStep ==
  ASSUME TypeOK, SnapInv, UNCHANGED <<snap, clobbered>>,
         \A r \in Turn : pc[r] = "done" =>
           pc'[r] = "done" /\ Context(r)' = Context(r)
  PROVE  SnapInv'
<1> SUFFICES ASSUME NEW t \in Turn, snap[t].response # None
             PROVE  /\ pc'[snap[t].response] = "done"
                    /\ ~clobbered => snap[t].baseline = Held(Context(snap[t].response)')
  BY DEF SnapInv
<1>1. snap[t].response \in Turn  BY DEF TypeOK
<1>2. /\ pc[snap[t].response] = "done"
      /\ ~clobbered => snap[t].baseline = Held(Context(snap[t].response))
  BY DEF SnapInv
<1>3. QED  BY <1>1, <1>2

LEMMA DeltaStep == DeltaInv /\ [Next]_vars => DeltaInv'
<1> SUFFICES ASSUME DeltaInv, [Next]_vars
             PROVE  DeltaInv'
  OBVIOUS
<1> USE DEF DeltaInv
<1>0. TypeOK /\ TypeOK'  BY TypeStep
<1>1. ASSUME NEW t \in Turn, CheckConfirmed(t)
      PROVE  DeltaInv'
  <2>1. ContinueInv'
    BY <1>0, <1>1 DEF CheckConfirmed, Goto, ContinueInv, TypeOK, conduit, local
  <2>2. /\ UNCHANGED <<baseline, lastResponse, confirmed, clobbered, snap, sent,
                       heard, reply, unheld>>
        /\ pc[t] # "done"
        /\ pc' = [pc EXCEPT ![t] = pc'[t]]
        /\ heard[t] = << >> \/ pc'[t] \in {"parking", "closing", "done"}
        /\ pc'[t] \in {"streaming", "parking", "closing"} =>
             pc[t] \in {"streaming", "parking", "closing"}
    BY <1>0, <1>1 DEF CheckConfirmed, Goto, HeardInv, TypeOK, session, conduit, local,
                       outside
  <2>3. QED  BY <1>0, <2>1, <2>2, QuietStep
<1>2. ASSUME NEW t \in Turn, RetryFresh(t)
      PROVE  DeltaInv'
  <2>1. ContinueInv'
    BY <1>0, <1>2 DEF RetryFresh, Goto, ContinueInv, TypeOK, conduit, local
  <2>2. /\ UNCHANGED <<baseline, lastResponse, confirmed, clobbered, snap, sent,
                       heard, reply, unheld>>
        /\ pc[t] # "done"
        /\ pc' = [pc EXCEPT ![t] = pc'[t]]
        /\ heard[t] = << >> \/ pc'[t] \in {"parking", "closing", "done"}
        /\ pc'[t] \in {"streaming", "parking", "closing"} =>
             pc[t] \in {"streaming", "parking", "closing"}
    BY <1>0, <1>2 DEF RetryFresh, Goto, HeardInv, TypeOK, session, conduit, local,
                       outside
  <2>3. QED  BY <1>0, <2>1, <2>2, QuietStep
<1>3. ASSUME NEW t \in Turn, FallBack(t)
      PROVE  DeltaInv'
  <2>1. ContinueInv'
    BY <1>0, <1>3 DEF FallBack, Goto, ContinueInv, TypeOK, conduit, local
  <2>2. /\ UNCHANGED <<baseline, lastResponse, confirmed, clobbered, snap, sent,
                       heard, reply, unheld>>
        /\ pc[t] # "done"
        /\ pc' = [pc EXCEPT ![t] = pc'[t]]
        /\ heard[t] = << >> \/ pc'[t] \in {"parking", "closing", "done"}
        /\ pc'[t] \in {"streaming", "parking", "closing"} =>
             pc[t] \in {"streaming", "parking", "closing"}
    BY <1>0, <1>3 DEF FallBack, Goto, HeardInv, TypeOK, session, conduit, local,
                       outside
  <2>3. QED  BY <1>0, <2>1, <2>2, QuietStep
<1>4. ASSUME NEW t \in Turn, RefuseTurn(t)
      PROVE  DeltaInv'
  <2>1. ContinueInv'
    BY <1>0, <1>4 DEF RefuseTurn, Goto, ContinueInv, TypeOK, conduit, local
  <2>2. /\ UNCHANGED <<baseline, lastResponse, confirmed, clobbered, snap, sent,
                       heard, reply, unheld>>
        /\ pc[t] # "done"
        /\ pc' = [pc EXCEPT ![t] = pc'[t]]
        /\ heard[t] = << >> \/ pc'[t] \in {"parking", "closing", "done"}
        /\ pc'[t] \in {"streaming", "parking", "closing"} =>
             pc[t] \in {"streaming", "parking", "closing"}
    BY <1>0, <1>4 DEF RefuseTurn, Goto, HeardInv, TypeOK, session, conduit, local,
                       outside
  <2>3. QED  BY <1>0, <2>1, <2>2, QuietStep
<1>5. ASSUME NEW t \in Turn, Abandon(t)
      PROVE  DeltaInv'
  <2>1. ContinueInv'
    BY <1>0, <1>5 DEF Abandon, Goto, ContinueInv, TypeOK, conduit, local
  <2>2. /\ UNCHANGED <<baseline, lastResponse, confirmed, clobbered, snap, sent,
                       heard, reply, unheld>>
        /\ pc[t] # "done"
        /\ pc' = [pc EXCEPT ![t] = pc'[t]]
        /\ heard[t] = << >> \/ pc'[t] \in {"parking", "closing", "done"}
        /\ pc'[t] \in {"streaming", "parking", "closing"} =>
             pc[t] \in {"streaming", "parking", "closing"}
    BY <1>0, <1>5 DEF Abandon, Goto, HeardInv, TypeOK, session, conduit, local,
                       outside
  <2>3. QED  BY <1>0, <2>1, <2>2, QuietStep
<1>6. ASSUME NEW t \in Turn, Leave(t)
      PROVE  DeltaInv'
  <2>1. ContinueInv'
    BY <1>0, <1>6 DEF Leave, Goto, ContinueInv, TypeOK, conduit, local
  <2>2. /\ UNCHANGED <<baseline, lastResponse, confirmed, clobbered, snap, sent,
                       heard, reply, unheld>>
        /\ pc[t] # "done"
        /\ pc' = [pc EXCEPT ![t] = pc'[t]]
        /\ heard[t] = << >> \/ pc'[t] \in {"parking", "closing", "done"}
        /\ pc'[t] \in {"streaming", "parking", "closing"} =>
             pc[t] \in {"streaming", "parking", "closing"}
    BY <1>0, <1>6 DEF Leave, Goto, HeardInv, TypeOK, session, conduit, local,
                       outside
  <2>3. QED  BY <1>0, <2>1, <2>2, QuietStep
<1>7. ASSUME NEW t \in Turn, Park(t)
      PROVE  DeltaInv'
  <2>1. ContinueInv'
    BY <1>0, <1>7 DEF Park, Goto, ContinueInv, TypeOK, conduit, local
  <2>2. /\ UNCHANGED <<baseline, lastResponse, confirmed, clobbered, snap, sent,
                       heard, reply, unheld>>
        /\ pc[t] # "done"
        /\ pc' = [pc EXCEPT ![t] = pc'[t]]
        /\ heard[t] = << >> \/ pc'[t] \in {"parking", "closing", "done"}
        /\ pc'[t] \in {"streaming", "parking", "closing"} =>
             pc[t] \in {"streaming", "parking", "closing"}
    BY <1>0, <1>7 DEF Park, Goto, HeardInv, TypeOK, session, conduit, local,
                       outside
  <2>3. QED  BY <1>0, <2>1, <2>2, QuietStep
<1>8. ASSUME NEW t \in Turn, Open(t)
      PROVE  DeltaInv'
  <2>1. lastResponse = None  BY <1>0, <1>8 DEF Open, SessionInv, TypeOK
  <2>2. \A r \in Turn : snap[r].response = None
    BY <1>0, <1>8 DEF Open, SnapInv, TypeOK
  <2>3. HeardInv'
    BY <1>0, <1>8 DEF Open, Ask, Goto, HeardInv, TypeOK, outside
  <2>4. SessionInv'  BY <1>8, <2>1 DEF Open, SessionInv
  <2>5. SnapInv'  BY <1>8, <2>2 DEF Open, SnapInv
  <2>6. ContinueInv'
    BY <1>0, <1>8 DEF Open, Ask, Goto, ContinueInv, TypeOK
  <2>7. QED  BY <1>0, <2>3, <2>4, <2>5, <2>6
<1>9. ASSUME NEW t \in Turn, Join(t)
      PROVE  DeltaInv'
  <2>1. pc' = [pc EXCEPT ![t] = "resolved"] /\ pc[t] = "idle"
    BY <1>9 DEF Join, Ask, Goto
  <2>2. ContinueInv'  BY <1>0, <1>9, <2>1 DEF Join, ContinueInv, TypeOK
  <2>3. QED
    BY <1>0, <1>9, <2>1, <2>2, QuietStep
       DEF Join, HeardInv, TypeOK, session, outside
<1>10. ASSUME NEW t \in Turn, Seed(t)
       PROVE  DeltaInv'
  <2>1. \A r : Context(r)' = Context(r)
    BY <1>10 DEF Seed, Context, outside
  <2>2. HeardInv'
    BY <1>0, <1>10 DEF Seed, Goto, HeardInv, TypeOK, outside, local
  <2>3. SessionInv'
    BY <1>0, <1>10, <2>1 DEF Seed, Goto, SessionInv, TypeOK
  <2>4. SnapInv'
    BY <1>0, <1>10, <2>1 DEF Seed, Goto, SnapInv, TypeOK, local
  <2>5. ContinueInv'
    BY <1>0, <1>10 DEF Seed, Goto, ContinueInv, TypeOK, local
  <2>6. QED  BY <1>0, <2>2, <2>3, <2>4, <2>5
<1>11. ASSUME NEW t \in Turn, Snapshot(t)
       PROVE  DeltaInv'
  <2>1. \A r : Context(r)' = Context(r)
    BY <1>11 DEF Snapshot, Context, outside
  <2>2. HeardInv'
    BY <1>0, <1>11 DEF Snapshot, Goto, HeardInv, TypeOK, outside
  <2>3. SessionInv'
    BY <1>0, <1>11, <2>1 DEF Snapshot, Goto, SessionInv, TypeOK, session
  <2>4. SnapInv'
    BY <1>0, <1>11, <2>1 DEF Snapshot, Goto, SnapInv, SessionInv, TypeOK
  <2>5. ContinueInv'
    BY <1>0, <1>11 DEF Snapshot, Goto, ContinueInv, TypeOK
  <2>6. QED  BY <1>0, <2>2, <2>3, <2>4, <2>5
<1>12. ASSUME NEW t \in Turn, TakeConnection(t)
       PROVE  DeltaInv'
  <2>1. ContinueInv'
    BY <1>0, <1>12 DEF TakeConnection, MayContinue, Goto, ContinueInv, TypeOK
  <2>2. QED
    BY <1>0, <1>12, <2>1, QuietStep
       DEF TakeConnection, Goto, HeardInv, TypeOK, session, outside
<1>13. ASSUME NEW t \in Turn, Accept(t)
       PROVE  DeltaInv'
  <2>1. ~clobbered => Held(heard'[t]) = sent[t]
    <3>0. sent[t] \in Seq(Holdable) /\ snap[t].baseline \in Seq(Holdable)
      BY <1>0 DEF TypeOK
    <3>1. CASE continues[t] = None
      <4>1. heard'[t] = sent[t]  BY <1>0, <1>13, <3>1 DEF Accept, TypeOK
      <4>2. QED  BY <3>0, <4>1, HeldWhole
    <3>2. CASE continues[t] # None
      <4> DEFINE c == Context(continues[t])
                 d == Delta(snap[t].baseline, sent[t])
      <4>1. /\ continues[t] = snap[t].response
            /\ Extends(snap[t].baseline, sent[t])
            /\ continues[t] \in Turn
        BY <1>0, <1>13, <3>2 DEF Accept, ContinueInv, TypeOK
      <4>2. ~clobbered => Held(c) = snap[t].baseline
        BY <3>2, <4>1 DEF SnapInv
      <4>3. snap[t].baseline \o d = sent[t] /\ d \in Seq(Holdable)
        BY <3>0, <4>1, DeltaRestores
      <4>4. heard'[t] = c \o d
        BY <1>0, <1>13, <3>2 DEF Accept, TypeOK
      <4>5. c \in Seq(Item)  BY <1>0, <4>1, ContextType
      <4> HIDE DEF c, d
      <4>6. Held(d) = d /\ d \in Seq(Item)  BY <4>3, HeldWhole
      <4>7. Held(c \o d) = Held(c) \o d  BY <4>5, <4>6, HeldConcat
      <4>8. QED  BY <4>2, <4>3, <4>4, <4>7
    <3>3. QED  BY <3>1, <3>2
  <2>2. \A r \in Turn : pc[r] = "done" => Context(r)' = Context(r)
    BY <1>0, <1>13, ContextStable DEF Accept, TypeOK
  <2>3. HeardInv'
    BY <1>0, <1>13, <2>1 DEF Accept, Goto, HeardInv, TypeOK, local
  <2>4. SessionInv'
    BY <1>0, <1>13, <2>2 DEF Accept, Goto, SessionInv, TypeOK, session
  <2>5. SnapInv'
    BY <1>0, <1>13, <2>2, SnapStep DEF Accept, Goto, TypeOK, local
  <2>6. ContinueInv'
    BY <1>0, <1>13 DEF Accept, Goto, ContinueInv, TypeOK, local
  <2>7. QED  BY <1>0, <2>3, <2>4, <2>5, <2>6
<1>14. ASSUME NEW t \in Turn, AcceptHttp(t)
       PROVE  DeltaInv'
  <2>1. Held(heard'[t]) = sent[t]
    <3>1. heard'[t] = sent[t] /\ sent[t] \in Seq(Holdable)
      BY <1>0, <1>14 DEF AcceptHttp, TypeOK
    <3>2. QED  BY <3>1, HeldWhole
  <2>2. \A r \in Turn : pc[r] = "done" => Context(r)' = Context(r)
    BY <1>0, <1>14, ContextStable DEF AcceptHttp, TypeOK
  <2>3. HeardInv'
    BY <1>0, <1>14, <2>1 DEF AcceptHttp, Goto, HeardInv, TypeOK, local
  <2>4. SessionInv'
    BY <1>0, <1>14, <2>2 DEF AcceptHttp, Goto, SessionInv, TypeOK, session
  <2>5. SnapInv'
    BY <1>0, <1>14, <2>2, SnapStep DEF AcceptHttp, Goto, TypeOK, local
  <2>6. ContinueInv'
    BY <1>0, <1>14 DEF AcceptHttp, Goto, ContinueInv, TypeOK, local
  <2>7. QED  BY <1>0, <2>3, <2>4, <2>5, <2>6
<1>15. ASSUME NEW t \in Turn, Complete(t)
       PROVE  DeltaInv'
  <2>1. \A r \in Turn : pc[r] = "done" => Context(r)' = Context(r)
    <3> SUFFICES ASSUME NEW r \in Turn, pc[r] = "done"
                 PROVE  Context(r)' = Context(r)
      OBVIOUS
    <3>1. r # t  BY <1>15 DEF Complete
    <3>2. heard'[r] = heard[r] /\ reply'[r] = reply[r] /\ unheld'[r] = unheld[r]
      BY <1>0, <1>15, <3>1 DEF Complete, TypeOK
    <3>3. QED  BY <3>2, ContextStable
  <2>2. HeardInv'
    BY <1>0, <1>15 DEF Complete, Goto, HeardInv, TypeOK
  <2>3. SessionInv'
    BY <1>0, <1>15, <2>1 DEF Complete, Goto, SessionInv, TypeOK, session
  <2>4. SnapInv'
    BY <1>0, <1>15, <2>1, SnapStep DEF Complete, Goto, TypeOK
  <2>5. ContinueInv'
    BY <1>0, <1>15 DEF Complete, Goto, ContinueInv, TypeOK
  <2>6. QED  BY <1>0, <2>2, <2>3, <2>4, <2>5
<1>16. ASSUME NEW t \in Turn, EndUnfinished(t)
       PROVE  DeltaInv'
  <2>1. \A r \in Turn : pc[r] = "done" => Context(r)' = Context(r)
    BY <1>0, <1>16, ContextStable DEF EndUnfinished, TypeOK
  <2>2. HeardInv'
    BY <1>0, <1>16 DEF EndUnfinished, Goto, HeardInv, TypeOK
  <2>3. SessionInv'
    BY <1>0, <1>16, <2>1 DEF EndUnfinished, Goto, SessionInv, TypeOK, session
  <2>4. SnapInv'
    BY <1>0, <1>16, <2>1, SnapStep DEF EndUnfinished, Goto, TypeOK
  <2>5. ContinueInv'
    BY <1>0, <1>16 DEF EndUnfinished, Goto, ContinueInv, TypeOK
  <2>6. QED  BY <1>0, <2>2, <2>3, <2>4, <2>5
<1>17. ASSUME NEW t \in Turn, Close(t)
       PROVE  DeltaInv'
  <2>1. \A r : Context(r)' = Context(r)
    BY <1>17 DEF Close, Context, outside
  <2>2. ~clobbered /\ ~unheld[t] => baseline' = Held(Context(t))
    <3>1. ~clobbered => Held(heard[t]) = sent[t]  BY <1>17 DEF Close, HeardInv
    <3>2. heard[t] \in Seq(Item) /\ reply[t] \in Seq(Item)
      BY <1>0 DEF TypeOK
    <3>3. Held(heard[t] \o reply[t]) = Held(heard[t]) \o Held(reply[t])
      BY <3>2, HeldConcat
    <3>4. ~unheld[t] => Context(t) = heard[t] \o reply[t]
      BY <1>0, ContextType
    <3>5. QED  BY <1>17, <3>1, <3>3, <3>4 DEF Close
  <2>3. HeardInv'
    BY <1>0, <1>17 DEF Close, Goto, HeardInv, TypeOK, local, outside
  <2>4. SessionInv'
    BY <1>0, <1>17, <2>1, <2>2 DEF Close, Goto, SessionInv, TypeOK
  <2>5. SnapInv'
    BY <1>0, <1>17, <2>1 DEF Close, Goto, SnapInv, TypeOK, local
  <2>6. ContinueInv'
    BY <1>0, <1>17 DEF Close, Goto, ContinueInv, TypeOK, local
  <2>7. QED  BY <1>0, <2>3, <2>4, <2>5, <2>6
<1>18. CASE UNCHANGED vars
  <2>1. \A r : Context(r)' = Context(r)
    BY <1>18 DEF vars, outside, Context
  <2>2. HeardInv'  BY <1>18 DEF HeardInv, vars, local, outside
  <2>3. SessionInv'  BY <1>18, <2>1 DEF SessionInv, vars, session
  <2>4. SnapInv'  BY <1>18, <2>1 DEF SnapInv, vars, local
  <2>5. ContinueInv'  BY <1>18 DEF ContinueInv, vars, local
  <2>6. QED  BY <1>0, <2>2, <2>3, <2>4, <2>5
<1>19. QED
  BY <1>1, <1>2, <1>3, <1>4, <1>5, <1>6, <1>7, <1>8, <1>9, <1>10, <1>11, <1>12,
     <1>13, <1>14, <1>15, <1>16, <1>17, <1>18 DEF Next, Finished

LEMMA InitDelta == Init => DeltaInv
<1> SUFFICES ASSUME Init PROVE DeltaInv  OBVIOUS
<1>1. TypeOK  BY InitType
<1>2. HeardInv /\ SessionInv /\ SnapInv /\ ContinueInv
  BY DEF Init, HeardInv, SessionInv, SnapInv, ContinueInv
<1>3. QED  BY <1>1, <1>2 DEF DeltaInv

\* However many turns of a conversation overlap, and wherever a connection
\* fails, what the backend takes a response's input to be is the conversation
\* the turn reconciled, but for the searches the backend ran itself, unless a
\* seed has overwritten a baseline a turn completed on (SessionTurns!DeltaIsExact).
THEOREM DeltaExact == Spec => []DeltaIsExact
<1>1. DeltaInv => DeltaIsExact  BY DEF DeltaInv, HeardInv, DeltaIsExact
<1>2. QED  BY <1>1, InitDelta, DeltaStep, PTL DEF Spec

-----------------------------------------------------------------------------
(* The connection the turns share, from one inductive invariant, SocketInv. *)

\* A step that leaves the connections alone, and takes a turn neither to nor
\* from holding one, disturbs nothing of what is known of them.
LEMMA SocketQuiet ==
  ASSUME SocketInv, TypeOK', NEW t \in Turn,
         UNCHANGED <<slot, latched, seen, conn, reused, continues, ended>>,
         pc' = [pc EXCEPT ![t] = pc'[t]],
         Undialled(t)' => Undialled(t),
         pc'[t] \in {"sending", "parking"} => pc[t] = pc'[t],
         pc'[t] = "streaming" => conn[t] = None,
         conn[t] # None => pc'[t] = pc[t]
  PROVE  SocketInv'
<1> USE DEF SocketInv
<1>1. pc \in [Turn -> Label] /\ \A o \in Turn \ {t} : pc'[o] = pc[o]
  BY DEF TypeOK
<1>2. SocketExclusive'  BY DEF SocketExclusive
<1>3. DialInv'
  <2>1. \A o \in Turn : Undialled(o)' => Undialled(o)
    BY <1>1 DEF Undialled
  <2>2. QED  BY <2>1 DEF DialInv
<1>4. HoldInv'  BY <1>1 DEF HoldInv
<1>5. NamedInv'  BY <1>1 DEF NamedInv
<1>6. ContinuesHeldResponse'  BY <1>1 DEF ContinuesHeldResponse
<1>7. ParkedIsQuiet'  BY DEF ParkedIsQuiet
<1>8. QED  BY <1>2, <1>3, <1>4, <1>5, <1>6, <1>7

LEMMA SocketStep == SocketInv /\ [Next]_vars => SocketInv'
<1> SUFFICES ASSUME SocketInv, [Next]_vars
             PROVE  SocketInv'
  OBVIOUS
<1> USE DEF SocketInv
<1>0. TypeOK /\ TypeOK'  BY TypeStep
<1>a. /\ slot \in Turn \union {None}
      /\ \A o \in Turn : conn[o] \in Turn \union {None} /\ seen[o] \in Turn \union {None}
  BY <1>0 DEF TypeOK
<1>1. ASSUME NEW t \in Turn, Open(t)
      PROVE  SocketInv'
  <2>1. /\ UNCHANGED <<slot, latched, seen, conn, reused, continues, ended>>
        /\ pc' = [pc EXCEPT ![t] = pc'[t]]
        /\ Undialled(t)' => Undialled(t)
        /\ pc'[t] \in {"sending", "parking"} => pc[t] = pc'[t]
        /\ pc'[t] = "streaming" => conn[t] = None
        /\ conn[t] # None => pc'[t] = pc[t]
    BY <1>0, <1>1 DEF Open, Ask, Goto, conduit, TypeOK, Undialled, HoldInv
  <2>2. QED  BY <1>0, <2>1, SocketQuiet
<1>2. ASSUME NEW t \in Turn, Join(t)
      PROVE  SocketInv'
  <2>1. /\ UNCHANGED <<slot, latched, seen, conn, reused, continues, ended>>
        /\ pc' = [pc EXCEPT ![t] = pc'[t]]
        /\ Undialled(t)' => Undialled(t)
        /\ pc'[t] \in {"sending", "parking"} => pc[t] = pc'[t]
        /\ pc'[t] = "streaming" => conn[t] = None
        /\ conn[t] # None => pc'[t] = pc[t]
    BY <1>0, <1>2 DEF Join, Ask, Goto, conduit, TypeOK, Undialled, HoldInv
  <2>2. QED  BY <1>0, <2>1, SocketQuiet
<1>3. ASSUME NEW t \in Turn, Snapshot(t)
      PROVE  SocketInv'
  <2>1. /\ UNCHANGED <<slot, latched, seen, conn, reused, continues, ended>>
        /\ pc' = [pc EXCEPT ![t] = pc'[t]]
        /\ Undialled(t)' => Undialled(t)
        /\ pc'[t] \in {"sending", "parking"} => pc[t] = pc'[t]
        /\ pc'[t] = "streaming" => conn[t] = None
        /\ conn[t] # None => pc'[t] = pc[t]
    BY <1>0, <1>3 DEF Snapshot, Goto, conduit, TypeOK, Undialled, HoldInv
  <2>2. QED  BY <1>0, <2>1, SocketQuiet
<1>4. ASSUME NEW t \in Turn, CheckConfirmed(t)
      PROVE  SocketInv'
  <2>1. /\ UNCHANGED <<slot, latched, seen, conn, reused, continues, ended>>
        /\ pc' = [pc EXCEPT ![t] = pc'[t]]
        /\ Undialled(t)' => Undialled(t)
        /\ pc'[t] \in {"sending", "parking"} => pc[t] = pc'[t]
        /\ pc'[t] = "streaming" => conn[t] = None
        /\ conn[t] # None => pc'[t] = pc[t]
    BY <1>0, <1>4 DEF CheckConfirmed, Goto, conduit, local, TypeOK, Undialled, HoldInv
  <2>2. QED  BY <1>0, <2>1, SocketQuiet
<1>5. ASSUME NEW t \in Turn, Seed(t)
      PROVE  SocketInv'
  <2>1. /\ UNCHANGED <<slot, latched, seen, conn, reused, continues, ended>>
        /\ pc' = [pc EXCEPT ![t] = pc'[t]]
        /\ Undialled(t)' => Undialled(t)
        /\ pc'[t] \in {"sending", "parking"} => pc[t] = pc'[t]
        /\ pc'[t] = "streaming" => conn[t] = None
        /\ conn[t] # None => pc'[t] = pc[t]
    BY <1>0, <1>5 DEF Seed, Goto, conduit, local, TypeOK, Undialled, HoldInv
  <2>2. QED  BY <1>0, <2>1, SocketQuiet
<1>6. ASSUME NEW t \in Turn, AcceptHttp(t)
      PROVE  SocketInv'
  <2>1. /\ UNCHANGED <<slot, latched, seen, conn, reused, continues, ended>>
        /\ pc' = [pc EXCEPT ![t] = pc'[t]]
        /\ Undialled(t)' => Undialled(t)
        /\ pc'[t] \in {"sending", "parking"} => pc[t] = pc'[t]
        /\ pc'[t] = "streaming" => conn[t] = None
        /\ conn[t] # None => pc'[t] = pc[t]
    BY <1>0, <1>6 DEF AcceptHttp, Goto, conduit, local, TypeOK, Undialled, HoldInv
  <2>2. QED  BY <1>0, <2>1, SocketQuiet
<1>7. ASSUME NEW t \in Turn, Leave(t)
      PROVE  SocketInv'
  <2>1. /\ UNCHANGED <<slot, latched, seen, conn, reused, continues, ended>>
        /\ pc' = [pc EXCEPT ![t] = pc'[t]]
        /\ Undialled(t)' => Undialled(t)
        /\ pc'[t] \in {"sending", "parking"} => pc[t] = pc'[t]
        /\ pc'[t] = "streaming" => conn[t] = None
        /\ conn[t] # None => pc'[t] = pc[t]
    BY <1>0, <1>7 DEF Leave, Goto, conduit, TypeOK, Undialled, HoldInv
  <2>2. QED  BY <1>0, <2>1, SocketQuiet
<1>8. ASSUME NEW t \in Turn, Close(t)
      PROVE  SocketInv'
  <2>1. /\ UNCHANGED <<slot, latched, seen, conn, reused, continues, ended>>
        /\ pc' = [pc EXCEPT ![t] = pc'[t]]
        /\ Undialled(t)' => Undialled(t)
        /\ pc'[t] \in {"sending", "parking"} => pc[t] = pc'[t]
        /\ pc'[t] = "streaming" => conn[t] = None
        /\ conn[t] # None => pc'[t] = pc[t]
    BY <1>0, <1>8 DEF Close, Goto, conduit, local, TypeOK, Undialled, HoldInv
  <2>2. QED  BY <1>0, <2>1, SocketQuiet
<1>9. ASSUME NEW t \in Turn, TakeConnection(t)
      PROVE  SocketInv'
  <2>1. /\ pc[t] = "ready" /\ ~latched /\ slot' = None
        /\ UNCHANGED <<latched, seen, ended>>
        /\ conn'[t] = IF slot = None THEN t ELSE slot
        /\ pc'[t] = "sending" /\ (reused'[t] <=> slot # None)
        /\ continues'[t] # None => slot # None /\ seen[slot] = continues'[t]
    BY <1>0, <1>9 DEF TakeConnection, Goto, MayContinue, TypeOK
  <2>2. \A o \in Turn \ {t} : /\ pc'[o] = pc[o] /\ conn'[o] = conn[o]
                              /\ reused'[o] = reused[o]
                              /\ continues'[o] = continues[o]
                              /\ ended'[o] = ended[o]
    BY <1>0, <1>9 DEF TakeConnection, Goto, MayContinue, TypeOK
  <2>3. SocketExclusive'
    BY <1>a, <2>1, <2>2, NoneAssumption DEF SocketExclusive, DialInv, Undialled, HoldInv
  <2>4. DialInv'
    BY <1>a, <2>1, <2>2, NoneAssumption DEF DialInv, Undialled, HoldInv, SocketExclusive
  <2>5. HoldInv'
    BY <1>a, <2>1, <2>2, NoneAssumption DEF HoldInv
  <2>6. NamedInv'
    BY <1>a, <2>1, <2>2, NoneAssumption DEF NamedInv, HoldInv, SocketExclusive
  <2>7. ContinuesHeldResponse'
    BY <1>a, <2>1, <2>2, NoneAssumption DEF ContinuesHeldResponse, HoldInv, SocketExclusive
  <2>8. ParkedIsQuiet'
    BY <1>a, <2>1, <2>2, NoneAssumption DEF ParkedIsQuiet, NamedInv, HoldInv, SocketExclusive
  <2>9. QED  BY <1>0, <2>3, <2>4, <2>5, <2>6, <2>7, <2>8
<1>10. ASSUME NEW t \in Turn, Accept(t)
      PROVE  SocketInv'
  <2>1. /\ pc[t] = "sending" /\ pc'[t] = "streaming" /\ conn[t] \in Turn
        /\ UNCHANGED <<slot, latched, conn, reused, continues, ended>>
        /\ seen'[conn[t]] = t
        /\ \A c \in Turn \ {conn[t]} : seen'[c] = seen[c]
    BY <1>0, <1>10 DEF Accept, Goto, local, HoldInv, TypeOK
  <2>2. \A o \in Turn \ {t} : /\ pc'[o] = pc[o] /\ conn'[o] = conn[o]
                              /\ reused'[o] = reused[o]
                              /\ continues'[o] = continues[o]
                              /\ ended'[o] = ended[o]
    BY <1>0, <1>10 DEF Accept, Goto, local, TypeOK
  <2>3. SocketExclusive'
    BY <1>a, <2>1, <2>2, NoneAssumption DEF SocketExclusive, DialInv, Undialled, HoldInv
  <2>4. DialInv'
    BY <1>a, <2>1, <2>2, NoneAssumption DEF DialInv, Undialled, HoldInv, SocketExclusive
  <2>5. HoldInv'
    BY <1>a, <2>1, <2>2, NoneAssumption DEF HoldInv
  <2>6. NamedInv'
    BY <1>a, <2>1, <2>2, NoneAssumption DEF NamedInv, HoldInv, SocketExclusive
  <2>7. ContinuesHeldResponse'
    BY <1>a, <2>1, <2>2, NoneAssumption DEF ContinuesHeldResponse, HoldInv, SocketExclusive
  <2>8. ParkedIsQuiet'
    BY <1>a, <2>1, <2>2, NoneAssumption DEF ParkedIsQuiet, NamedInv, HoldInv, SocketExclusive
  <2>9. QED  BY <1>0, <2>3, <2>4, <2>5, <2>6, <2>7, <2>8
<1>11. ASSUME NEW t \in Turn, RetryFresh(t)
      PROVE  SocketInv'
  <2>1. /\ pc[t] = "sending" /\ reused[t]
        /\ UNCHANGED <<slot, latched, seen, ended>>
        /\ pc'[t] = pc[t]
        /\ conn'[t] = t /\ ~reused'[t] /\ continues'[t] = None
    BY <1>0, <1>11 DEF RetryFresh, Goto, conduit, TypeOK
  <2>2. \A o \in Turn \ {t} : /\ pc'[o] = pc[o] /\ conn'[o] = conn[o]
                              /\ reused'[o] = reused[o]
                              /\ continues'[o] = continues[o]
                              /\ ended'[o] = ended[o]
    BY <1>0, <1>11 DEF RetryFresh, Goto, conduit, TypeOK
  <2>3. SocketExclusive'
    BY <1>a, <2>1, <2>2, NoneAssumption DEF SocketExclusive, DialInv, Undialled, HoldInv
  <2>4. DialInv'
    BY <1>a, <2>1, <2>2, NoneAssumption DEF DialInv, Undialled, HoldInv, SocketExclusive
  <2>5. HoldInv'
    BY <1>a, <2>1, <2>2, NoneAssumption DEF HoldInv
  <2>6. NamedInv'
    BY <1>a, <2>1, <2>2, NoneAssumption DEF NamedInv, HoldInv, SocketExclusive
  <2>7. ContinuesHeldResponse'
    BY <1>a, <2>1, <2>2, NoneAssumption DEF ContinuesHeldResponse, HoldInv, SocketExclusive
  <2>8. ParkedIsQuiet'
    BY <1>a, <2>1, <2>2, NoneAssumption DEF ParkedIsQuiet, NamedInv, HoldInv, SocketExclusive
  <2>9. QED  BY <1>0, <2>3, <2>4, <2>5, <2>6, <2>7, <2>8
<1>12. ASSUME NEW t \in Turn, FallBack(t)
      PROVE  SocketInv'
  <2>1. /\ pc[t] = "sending" /\ latched'
        /\ UNCHANGED <<slot, seen, ended>>
        /\ pc'[t] = "ready" /\ conn'[t] = None
    BY <1>0, <1>12 DEF FallBack, Goto, TypeOK
  <2>2. \A o \in Turn \ {t} : /\ pc'[o] = pc[o] /\ conn'[o] = conn[o]
                              /\ reused'[o] = reused[o]
                              /\ continues'[o] = continues[o]
                              /\ ended'[o] = ended[o]
    BY <1>0, <1>12 DEF FallBack, Goto, TypeOK
  <2>3. SocketExclusive'
    BY <1>a, <2>1, <2>2, NoneAssumption DEF SocketExclusive, DialInv, Undialled, HoldInv
  <2>4. DialInv'
    BY <1>a, <2>1, <2>2, NoneAssumption DEF DialInv, Undialled, HoldInv, SocketExclusive
  <2>5. HoldInv'
    BY <1>a, <2>1, <2>2, NoneAssumption DEF HoldInv
  <2>6. NamedInv'
    BY <1>a, <2>1, <2>2, NoneAssumption DEF NamedInv, HoldInv, SocketExclusive
  <2>7. ContinuesHeldResponse'
    BY <1>a, <2>1, <2>2, NoneAssumption DEF ContinuesHeldResponse, HoldInv, SocketExclusive
  <2>8. ParkedIsQuiet'
    BY <1>a, <2>1, <2>2, NoneAssumption DEF ParkedIsQuiet, NamedInv, HoldInv, SocketExclusive
  <2>9. QED  BY <1>0, <2>3, <2>4, <2>5, <2>6, <2>7, <2>8
<1>13. ASSUME NEW t \in Turn, RefuseTurn(t)
      PROVE  SocketInv'
  <2>1. /\ UNCHANGED <<slot, latched, seen, ended>>
        /\ pc'[t] = "done" /\ conn'[t] = None
    BY <1>0, <1>13 DEF RefuseTurn, Goto, conduit, TypeOK
  <2>2. \A o \in Turn \ {t} : /\ pc'[o] = pc[o] /\ conn'[o] = conn[o]
                              /\ reused'[o] = reused[o]
                              /\ continues'[o] = continues[o]
                              /\ ended'[o] = ended[o]
    BY <1>0, <1>13 DEF RefuseTurn, Goto, conduit, TypeOK
  <2>3. SocketExclusive'
    BY <1>a, <2>1, <2>2, NoneAssumption DEF SocketExclusive, DialInv, Undialled, HoldInv
  <2>4. DialInv'
    BY <1>a, <2>1, <2>2, NoneAssumption DEF DialInv, Undialled, HoldInv, SocketExclusive
  <2>5. HoldInv'
    BY <1>a, <2>1, <2>2, NoneAssumption DEF HoldInv
  <2>6. NamedInv'
    BY <1>a, <2>1, <2>2, NoneAssumption DEF NamedInv, HoldInv, SocketExclusive
  <2>7. ContinuesHeldResponse'
    BY <1>a, <2>1, <2>2, NoneAssumption DEF ContinuesHeldResponse, HoldInv, SocketExclusive
  <2>8. ParkedIsQuiet'
    BY <1>a, <2>1, <2>2, NoneAssumption DEF ParkedIsQuiet, NamedInv, HoldInv, SocketExclusive
  <2>9. QED  BY <1>0, <2>3, <2>4, <2>5, <2>6, <2>7, <2>8
<1>14. ASSUME NEW t \in Turn, Complete(t)
      PROVE  SocketInv'
  <2>1. /\ pc[t] = "streaming"
        /\ UNCHANGED <<slot, latched, seen, conn, reused, continues>>
        /\ ended'[t] # "no"
        /\ pc'[t] = IF conn[t] = None THEN "closing" ELSE "parking"
    BY <1>0, <1>14 DEF Complete, Goto, conduit, TypeOK
  <2>2. \A o \in Turn \ {t} : /\ pc'[o] = pc[o] /\ conn'[o] = conn[o]
                              /\ reused'[o] = reused[o]
                              /\ continues'[o] = continues[o]
                              /\ ended'[o] = ended[o]
    BY <1>0, <1>14 DEF Complete, Goto, conduit, TypeOK
  <2>3. SocketExclusive'
    BY <1>a, <2>1, <2>2, NoneAssumption DEF SocketExclusive, DialInv, Undialled, HoldInv
  <2>4. DialInv'
    BY <1>a, <2>1, <2>2, NoneAssumption DEF DialInv, Undialled, HoldInv, SocketExclusive
  <2>5. HoldInv'
    BY <1>a, <2>1, <2>2, NoneAssumption DEF HoldInv
  <2>6. NamedInv'
    BY <1>a, <2>1, <2>2, NoneAssumption DEF NamedInv, HoldInv, SocketExclusive
  <2>7. ContinuesHeldResponse'
    BY <1>a, <2>1, <2>2, NoneAssumption DEF ContinuesHeldResponse, HoldInv, SocketExclusive
  <2>8. ParkedIsQuiet'
    BY <1>a, <2>1, <2>2, NoneAssumption DEF ParkedIsQuiet, NamedInv, HoldInv, SocketExclusive
  <2>9. QED  BY <1>0, <2>3, <2>4, <2>5, <2>6, <2>7, <2>8
<1>15. ASSUME NEW t \in Turn, EndUnfinished(t)
      PROVE  SocketInv'
  <2>1. /\ pc[t] = "streaming"
        /\ UNCHANGED <<slot, latched, seen, conn, reused, continues>>
        /\ ended'[t] # "no"
        /\ pc'[t] = IF conn[t] = None THEN "done" ELSE "parking"
    BY <1>0, <1>15 DEF EndUnfinished, Goto, conduit, TypeOK
  <2>2. \A o \in Turn \ {t} : /\ pc'[o] = pc[o] /\ conn'[o] = conn[o]
                              /\ reused'[o] = reused[o]
                              /\ continues'[o] = continues[o]
                              /\ ended'[o] = ended[o]
    BY <1>0, <1>15 DEF EndUnfinished, Goto, conduit, TypeOK
  <2>3. SocketExclusive'
    BY <1>a, <2>1, <2>2, NoneAssumption DEF SocketExclusive, DialInv, Undialled, HoldInv
  <2>4. DialInv'
    BY <1>a, <2>1, <2>2, NoneAssumption DEF DialInv, Undialled, HoldInv, SocketExclusive
  <2>5. HoldInv'
    BY <1>a, <2>1, <2>2, NoneAssumption DEF HoldInv
  <2>6. NamedInv'
    BY <1>a, <2>1, <2>2, NoneAssumption DEF NamedInv, HoldInv, SocketExclusive
  <2>7. ContinuesHeldResponse'
    BY <1>a, <2>1, <2>2, NoneAssumption DEF ContinuesHeldResponse, HoldInv, SocketExclusive
  <2>8. ParkedIsQuiet'
    BY <1>a, <2>1, <2>2, NoneAssumption DEF ParkedIsQuiet, NamedInv, HoldInv, SocketExclusive
  <2>9. QED  BY <1>0, <2>3, <2>4, <2>5, <2>6, <2>7, <2>8
<1>16. ASSUME NEW t \in Turn, Abandon(t)
      PROVE  SocketInv'
  <2>1. /\ UNCHANGED <<slot, latched, seen, ended>>
        /\ pc'[t] = "done" /\ conn'[t] = None
    BY <1>0, <1>16 DEF Abandon, Goto, conduit, TypeOK
  <2>2. \A o \in Turn \ {t} : /\ pc'[o] = pc[o] /\ conn'[o] = conn[o]
                              /\ reused'[o] = reused[o]
                              /\ continues'[o] = continues[o]
                              /\ ended'[o] = ended[o]
    BY <1>0, <1>16 DEF Abandon, Goto, conduit, TypeOK
  <2>3. SocketExclusive'
    BY <1>a, <2>1, <2>2, NoneAssumption DEF SocketExclusive, DialInv, Undialled, HoldInv
  <2>4. DialInv'
    BY <1>a, <2>1, <2>2, NoneAssumption DEF DialInv, Undialled, HoldInv, SocketExclusive
  <2>5. HoldInv'
    BY <1>a, <2>1, <2>2, NoneAssumption DEF HoldInv
  <2>6. NamedInv'
    BY <1>a, <2>1, <2>2, NoneAssumption DEF NamedInv, HoldInv, SocketExclusive
  <2>7. ContinuesHeldResponse'
    BY <1>a, <2>1, <2>2, NoneAssumption DEF ContinuesHeldResponse, HoldInv, SocketExclusive
  <2>8. ParkedIsQuiet'
    BY <1>a, <2>1, <2>2, NoneAssumption DEF ParkedIsQuiet, NamedInv, HoldInv, SocketExclusive
  <2>9. QED  BY <1>0, <2>3, <2>4, <2>5, <2>6, <2>7, <2>8
<1>17. ASSUME NEW t \in Turn, Park(t)
      PROVE  SocketInv'
  <2>1. /\ pc[t] = "parking" /\ conn[t] \in Turn
        /\ slot' = IF slot = None THEN conn[t] ELSE slot
        /\ UNCHANGED <<latched, seen, ended>>
        /\ pc'[t] \in {"closing", "done"} /\ conn'[t] = None
    BY <1>0, <1>17 DEF Park, Goto, HoldInv, TypeOK
  <2>2. \A o \in Turn \ {t} : /\ pc'[o] = pc[o] /\ conn'[o] = conn[o]
                              /\ reused'[o] = reused[o]
                              /\ continues'[o] = continues[o]
                              /\ ended'[o] = ended[o]
    BY <1>0, <1>17 DEF Park, Goto, TypeOK
  <2>3. SocketExclusive'
    BY <1>a, <2>1, <2>2, NoneAssumption DEF SocketExclusive, DialInv, Undialled, HoldInv
  <2>4. DialInv'
    BY <1>a, <2>1, <2>2, NoneAssumption DEF DialInv, Undialled, HoldInv, SocketExclusive
  <2>5. HoldInv'
    BY <1>a, <2>1, <2>2, NoneAssumption DEF HoldInv
  <2>6. NamedInv'
    BY <1>a, <2>1, <2>2, NoneAssumption DEF NamedInv, HoldInv, SocketExclusive
  <2>7. ContinuesHeldResponse'
    BY <1>a, <2>1, <2>2, NoneAssumption DEF ContinuesHeldResponse, HoldInv, SocketExclusive
  <2>8. ParkedIsQuiet'
    BY <1>a, <2>1, <2>2, NoneAssumption DEF ParkedIsQuiet, NamedInv, HoldInv, SocketExclusive
  <2>9. QED  BY <1>0, <2>3, <2>4, <2>5, <2>6, <2>7, <2>8
<1>18. CASE UNCHANGED vars
  BY <1>0, <1>18 DEF vars, conduit, local, SocketExclusive, DialInv, Undialled,
     HoldInv, NamedInv, ContinuesHeldResponse, ParkedIsQuiet
<1>19. QED
  BY <1>1, <1>2, <1>3, <1>4, <1>5, <1>6, <1>7, <1>8, <1>9, <1>10, <1>11, <1>12, <1>13,
     <1>14, <1>15, <1>16, <1>17, <1>18 DEF Next, Finished

LEMMA InitSocket == Init => SocketInv
<1> SUFFICES ASSUME Init PROVE SocketInv  OBVIOUS
<1>1. TypeOK  BY InitType
<1>2. SocketExclusive /\ DialInv /\ HoldInv /\ NamedInv
  BY <1>1, NoneAssumption
     DEF Init, SocketExclusive, DialInv, HoldInv, NamedInv
<1>3. ContinuesHeldResponse /\ ParkedIsQuiet
  BY DEF Init, ContinuesHeldResponse, ParkedIsQuiet
<1>4. QED  BY <1>1, <1>2, <1>3 DEF SocketInv

\* A connection is in the slot or in one turn's hands and nowhere else, however
\* many turns overlap, fail over and park (SessionTurns!SocketExclusive).
THEOREM SocketsExclusive == Spec => []SocketExclusive
<1>1. SocketInv => SocketExclusive  BY DEF SocketInv
<1>2. QED  BY <1>1, InitSocket, SocketStep, PTL DEF Spec

\* A response is continued only over the connection that named it, and named
\* nothing since (SessionTurns!ContinuesHeldResponse).
THEOREM ContinuesHeld == Spec => []ContinuesHeldResponse
<1>1. SocketInv => ContinuesHeldResponse  BY DEF SocketInv
<1>2. QED  BY <1>1, InitSocket, SocketStep, PTL DEF Spec

\* What the session pools has finished the response it carried
\* (SessionTurns!ParkedIsQuiet).
THEOREM ParkedQuiet == Spec => []ParkedIsQuiet
<1>1. SocketInv => ParkedIsQuiet  BY DEF SocketInv
<1>2. QED  BY <1>1, InitSocket, SocketStep, PTL DEF Spec
-----------------------------------------------------------------------------
(***************************************************************************)
(* What a delta leaves out is what the request it continues said.          *)
(***************************************************************************)

\* A turn that goes on with what it has read, and continues nothing new, leaves
\* every request's fields and what the others have of them.
LEMMA FieldsQuiet ==
  ASSUME FieldsInv, TypeOK, TypeOK', NEW t \in Turn,
         UNCHANGED <<lastFields, lastResponse, fields, snap>>,
         \A o \in Turn : continues'[o] \in {continues[o], None},
         pc[t] # "done", pc'[t] \notin {"idle", "resolved"},
         \A o \in Turn \ {t} : pc'[o] = pc[o]
  PROVE  FieldsInv'
<1>1. SessionFields'  BY DEF FieldsInv, SessionFields, TypeOK
<1>2. SnapFields'
  <2> SUFFICES ASSUME NEW o \in Turn, snap[o].response # None
               PROVE  /\ pc'[o] \notin {"idle", "resolved"}
                      /\ pc'[snap[o].response] = "done"
                      /\ snap[o].fields = fields[snap[o].response]
    BY DEF SnapFields
  <2>1. snap[o].response \in Turn  BY DEF TypeOK
  <2>2. QED  BY <2>1 DEF FieldsInv, SnapFields
<1>3. ContinueFields'  BY DEF FieldsInv, ContinueFields
<1>4. QED  BY <1>1, <1>2, <1>3 DEF FieldsInv

LEMMA FieldsStep == TypeOK /\ FieldsInv /\ [Next]_vars => FieldsInv'
<1> SUFFICES ASSUME TypeOK, FieldsInv, [Next]_vars
             PROVE  FieldsInv'
  OBVIOUS
<1>0. TypeOK /\ TypeOK'  BY TypeStep
<1>1. ASSUME NEW t \in Turn, CheckConfirmed(t)
      PROVE  FieldsInv'
  BY <1>0, <1>1, FieldsQuiet DEF CheckConfirmed, Goto, session, local, TypeOK
<1>2. ASSUME NEW t \in Turn, Seed(t)
      PROVE  FieldsInv'
  BY <1>0, <1>2, FieldsQuiet DEF Seed, Goto, local, TypeOK
<1>3. ASSUME NEW t \in Turn, RetryFresh(t)
      PROVE  FieldsInv'
  BY <1>0, <1>3, FieldsQuiet DEF RetryFresh, session, TypeOK
<1>4. ASSUME NEW t \in Turn, FallBack(t)
      PROVE  FieldsInv'
  BY <1>0, <1>4, FieldsQuiet DEF FallBack, Goto, session, TypeOK
<1>5. ASSUME NEW t \in Turn, Accept(t)
      PROVE  FieldsInv'
  BY <1>0, <1>5, FieldsQuiet DEF Accept, Goto, session, local, TypeOK
<1>6. ASSUME NEW t \in Turn, AcceptHttp(t)
      PROVE  FieldsInv'
  BY <1>0, <1>6, FieldsQuiet DEF AcceptHttp, Goto, session, local, TypeOK
<1>7. ASSUME NEW t \in Turn, RefuseTurn(t)
      PROVE  FieldsInv'
  BY <1>0, <1>7, FieldsQuiet DEF RefuseTurn, Goto, session, TypeOK
<1>8. ASSUME NEW t \in Turn, Complete(t)
      PROVE  FieldsInv'
  BY <1>0, <1>8, FieldsQuiet DEF Complete, Goto, session, TypeOK
<1>9. ASSUME NEW t \in Turn, EndUnfinished(t)
      PROVE  FieldsInv'
  BY <1>0, <1>9, FieldsQuiet DEF EndUnfinished, Goto, session, TypeOK
<1>10. ASSUME NEW t \in Turn, Abandon(t)
      PROVE  FieldsInv'
  BY <1>0, <1>10, FieldsQuiet DEF Abandon, Goto, session, TypeOK
<1>11. ASSUME NEW t \in Turn, Leave(t)
      PROVE  FieldsInv'
  BY <1>0, <1>11, FieldsQuiet DEF Leave, Goto, session, TypeOK
<1>12. ASSUME NEW t \in Turn, Park(t)
      PROVE  FieldsInv'
  BY <1>0, <1>12, FieldsQuiet DEF Park, Goto, session, TypeOK
<1>13. ASSUME NEW t \in Turn, Open(t)
       PROVE  FieldsInv'
  <2>1. lastResponse = None /\ \A o \in Turn : snap[o].response = None
    BY <1>0, <1>13 DEF Open, FieldsInv, SessionFields, SnapFields, TypeOK
  <2>2. \A o \in Turn : continues[o] = None
    BY <2>1 DEF FieldsInv, ContinueFields
  <2>3. QED
    BY <1>13, <2>1, <2>2
       DEF Open, FieldsInv, SessionFields, SnapFields, ContinueFields
<1>14. ASSUME NEW t \in Turn, Join(t)
       PROVE  FieldsInv'
  <2>0. \A o \in Turn : snap[o].response \in Turn \union {None}  BY <1>0 DEF TypeOK
  <2>1. PICK f \in Fields : fields' = [fields EXCEPT ![t] = f]
    BY <1>14 DEF Join, Ask
  <2>2. /\ pc[t] = "idle" /\ \A o \in Turn \ {t} : pc'[o] = pc[o]
        /\ UNCHANGED <<lastFields, lastResponse, snap, continues>>
    BY <1>0, <1>14 DEF Join, Ask, Goto, session, TypeOK
  <2>3. snap[t].response = None /\ continues[t] = None
    BY <1>0, <2>2 DEF FieldsInv, SnapFields, ContinueFields, TypeOK
  <2>4. \A o \in Turn \ {t} : fields'[o] = fields[o]  BY <1>0, <2>1 DEF TypeOK
  <2>5. SessionFields'
    BY <1>0, <2>2, <2>3, <2>4 DEF FieldsInv, SessionFields, TypeOK
  <2>6. SnapFields'
    BY <2>0, <2>2, <2>3, <2>4 DEF FieldsInv, SessionFields, SnapFields
  <2>7. ContinueFields'
    BY <2>2, <2>3, <2>4 DEF FieldsInv, ContinueFields
  <2>8. QED  BY <2>5, <2>6, <2>7 DEF FieldsInv
<1>15. ASSUME NEW t \in Turn, Snapshot(t)
       PROVE  FieldsInv'
  <2>0. \A o \in Turn : snap[o].response \in Turn \union {None}  BY <1>0 DEF TypeOK
  <2>1. /\ pc[t] = "resolved" /\ pc'[t] = "snapped"
        /\ \A o \in Turn \ {t} : pc'[o] = pc[o] /\ snap'[o] = snap[o]
        /\ snap'[t].response = lastResponse /\ snap'[t].fields = lastFields
        /\ UNCHANGED <<lastFields, lastResponse, fields, continues>>
    BY <1>0, <1>15 DEF Snapshot, Goto, session, TypeOK
  <2>2. continues[t] = None
    BY <1>0, <2>1 DEF FieldsInv, SnapFields, ContinueFields, TypeOK
  <2>3. SessionFields'
    BY <1>0, <2>1, <2>2 DEF FieldsInv, SessionFields, TypeOK
  <2>4. SnapFields'
    <3> SUFFICES ASSUME NEW o \in Turn, snap'[o].response # None
                 PROVE  /\ pc'[o] \notin {"idle", "resolved"}
                        /\ pc'[snap'[o].response] = "done"
                        /\ snap'[o].fields = fields'[snap'[o].response]
      BY DEF SnapFields
    <3>1. lastResponse \in Turn \union {None}  BY <1>0 DEF TypeOK
    <3>2. CASE o = t
      BY <2>1, <3>1, <3>2 DEF FieldsInv, SessionFields
    <3>3. CASE o # t
      BY <2>0, <2>1, <3>3 DEF FieldsInv, SnapFields
    <3>4. QED  BY <3>2, <3>3
  <2>5. ContinueFields'
    BY <2>1, <2>2 DEF FieldsInv, ContinueFields
  <2>6. QED  BY <2>3, <2>4, <2>5 DEF FieldsInv
<1>16. ASSUME NEW t \in Turn, TakeConnection(t)
       PROVE  FieldsInv'
  <2>0. \A o \in Turn : snap[o].response \in Turn \union {None}  BY <1>0 DEF TypeOK
  <2>1. /\ pc[t] = "ready" /\ pc'[t] = "sending"
        /\ \A o \in Turn \ {t} : pc'[o] = pc[o] /\ continues'[o] = continues[o]
        /\ continues'[t] # None =>
             continues'[t] = snap[t].response /\ snap[t].fields = fields[t]
        /\ UNCHANGED <<lastFields, lastResponse, fields, snap>>
    BY <1>0, <1>16 DEF TakeConnection, MayContinue, Goto, session, TypeOK
  <2>2. SessionFields'
    BY <1>0, <2>1 DEF FieldsInv, SessionFields, TypeOK
  <2>3. SnapFields'
    BY <2>0, <2>1 DEF FieldsInv, SessionFields, SnapFields
  <2>4. ContinueFields'
    BY <2>1 DEF FieldsInv, ContinueFields
  <2>5. QED  BY <2>2, <2>3, <2>4 DEF FieldsInv
<1>17. ASSUME NEW t \in Turn, Close(t)
       PROVE  FieldsInv'
  <2>0. \A o \in Turn : snap[o].response \in Turn \union {None}  BY <1>0 DEF TypeOK
  <2>1. /\ pc[t] = "closing" /\ pc'[t] = "done"
        /\ \A o \in Turn \ {t} : pc'[o] = pc[o]
        /\ lastResponse' \in {t, None} /\ lastFields' = fields[t]
        /\ UNCHANGED <<fields, snap, continues>>
    BY <1>0, <1>17 DEF Close, Goto, local, TypeOK
  <2>2. SessionFields'
    BY <1>0, <2>1 DEF FieldsInv, SessionFields, TypeOK
  <2>3. SnapFields'
    BY <2>0, <2>1 DEF FieldsInv, SessionFields, SnapFields
  <2>4. ContinueFields'
    BY <2>1 DEF FieldsInv, ContinueFields
  <2>5. QED  BY <2>2, <2>3, <2>4 DEF FieldsInv
<1>18. CASE UNCHANGED vars
  BY <1>18 DEF vars, session, local, FieldsInv, SessionFields, SnapFields,
                 ContinueFields
<1>19. QED
  BY <1>1, <1>2, <1>3, <1>4, <1>5, <1>6, <1>7, <1>8, <1>9, <1>10, <1>11, <1>12, <1>13,
     <1>14, <1>15, <1>16, <1>17, <1>18 DEF Next, Finished

LEMMA InitFields == Init => FieldsInv
BY DEF Init, FieldsInv, SessionFields, SnapFields, ContinueFields

\* A delta is sent only for a request that changes nothing but the input of the
\* one it continues (SessionTurns!DeltaChangesOnlyInput).
THEOREM DeltaOnlyInput == Spec => []DeltaChangesOnlyInput
<1>1. TypeOK /\ FieldsInv => DeltaChangesOnlyInput
  BY DEF TypeOK, FieldsInv, SnapFields, ContinueFields, DeltaChangesOnlyInput
<1>2. QED
  BY <1>1, InitType, TypeStep, InitFields, FieldsStep, PTL DEF Spec

\* The session's baseline and fields are those of the response a delta would
\* continue, as the backend holds them but for its own searches (SessionTurns!BaselineIsContext).
THEOREM BaselineContext == Spec => []BaselineIsContext
<1>1. DeltaInv /\ FieldsInv => BaselineIsContext
  BY DEF DeltaInv, SessionInv, FieldsInv, SessionFields, BaselineIsContext
<1>2. DeltaInv => TypeOK  BY DEF DeltaInv
<1>3. QED
  BY <1>1, <1>2, InitDelta, DeltaStep, InitFields, FieldsStep, PTL DEF Spec
-----------------------------------------------------------------------------
(***************************************************************************)
(* What the backend hears is what the client said.                         *)
(***************************************************************************)

\* A client that has read an answer can replay nothing it was not shown.
LEMMA ShownPlain ==
  ASSUME TypeOK, SaidInv, NEW o \in Turn
  PROVE  /\ Plain(input[o]) /\ input[o] \in Seq(Holdable)
         /\ Plain(Shown(o)) /\ Shown(o) \in Seq(Holdable)
<1>1. input[o] \in Seq(Holdable) /\ reply[o] \in Seq(Item)  BY DEF TypeOK
<1>2. Len(input[o]) \in Nat /\ DOMAIN input[o] = 1 .. Len(input[o])
  BY <1>1, LenProperties
<1>3. Plain(input[o])  BY <1>2 DEF SaidInv, Kept, Plain
<1> DEFINE answer == reply[o] \o (IF unheld[o] THEN Unheld(o) ELSE << >>)
<1>4. answer \in Seq(Item)
  <2>1. Unheld(o) \in Seq(Item) /\ << >> \in Seq(Item)
    BY EmptySeq DEF Unheld, Item, Holdable
  <2>2. QED  BY <1>1, <2>1, ConcatProperties
<1> HIDE DEF answer
<1>5. Held(answer) \in Seq(Holdable)  BY <1>4, HeldType
<1>6. Replayable(Held(answer)) \in Seq(Holdable) /\ Plain(Replayable(Held(answer)))
  BY <1>5, ReplayableType
<1>7. Shown(o) = input[o] \o Replayable(Held(answer))  BY DEF Shown, answer
<1>8. QED  BY <1>1, <1>3, <1>6, <1>7, PlainConcat

\* A step that asks nothing and moves one turn that has sent its input on.
LEMMA SaidQuiet ==
  ASSUME SaidInv, TypeOK, NEW t \in Turn, UNCHANGED <<input, sent>>,
         pc[t] \notin {"idle", "resolved"},
         \A o \in Turn \ {t} : pc'[o] = pc[o]
  PROVE  SaidInv'
BY DEF SaidInv

\* A step of Next keeps what has been said what is heard.
LEMMA SaidStep == TypeOK /\ SaidInv /\ [Next]_vars => SaidInv'
<1> SUFFICES ASSUME TypeOK, SaidInv, [Next]_vars
             PROVE  SaidInv'
  OBVIOUS
<1>1. ASSUME NEW t \in Turn, NEW i \in Seq(Holdable), Plain(i),
             input' = [input EXCEPT ![t] = i], sent' = sent,
             pc' = [pc EXCEPT ![t] = "resolved"]
      PROVE  SaidInv'
  <2>1. Kept(i) = DOMAIN i  BY <1>1, LenProperties DEF Plain, Kept
  <2>2. QED  BY <1>1, <2>1 DEF SaidInv, TypeOK
<1>2. ASSUME NEW t \in Turn, Open(t)
      PROVE  SaidInv'
  <2>1. PICK u \in Said, f \in Fields :
          Ask(t, <<[kind |-> "user", of |-> u]>>, f)
    BY <1>2 DEF Open
  <2>2. <<[kind |-> "user", of |-> u]>> \in Seq(Holdable)  BY UserType
  <2>3. Plain(<<[kind |-> "user", of |-> u]>>)  BY DEF Plain, ServerOnly
  <2>4. QED  BY <1>1, <1>2, <2>1, <2>2, <2>3 DEF Open, Ask, Goto
<1>3. ASSUME NEW t \in Turn, Join(t)
      PROVE  SaidInv'
  <2>1. PICK o \in Turn, u \in Said, f \in Fields :
          \E past \in {input[o], Shown(o)} :
            Ask(t, Append(past, [kind |-> "user", of |-> u]), f)
    BY <1>3 DEF Join
  <2>2. PICK past \in {input[o], Shown(o)} :
          Ask(t, Append(past, [kind |-> "user", of |-> u]), f)
    BY <2>1
  <2> DEFINE x == [kind |-> "user", of |-> u]
  <2>3. past \in Seq(Holdable) /\ Plain(past)  BY ShownPlain
  <2>4. x \in Holdable /\ ~ServerOnly(x)  BY UserType DEF ServerOnly
  <2>5. <<x>> \in Seq(Holdable) /\ Plain(<<x>>)  BY <2>4 DEF Plain
  <2>6. Append(past, x) = past \o <<x>>  BY <2>3, <2>4, AppendIsConcat
  <2>7. Append(past, x) \in Seq(Holdable) /\ Plain(Append(past, x))
    BY <2>3, <2>5, <2>6, PlainConcat
  <2>8. QED  BY <1>1, <1>3, <2>2, <2>7 DEF Join, Ask, Goto
<1>4. ASSUME NEW t \in Turn, Snapshot(t)
      PROVE  SaidInv'
  <2>1. Replayable(FullInput(baseline, input[t])) = input[t]
    BY ShownPlain, FullInputReplays DEF TypeOK
  <2>2. QED  BY <1>4, <2>1 DEF Snapshot, Goto, SaidInv, TypeOK
<1>5. ASSUME NEW t \in Turn,
             \/ CheckConfirmed(t) \/ Seed(t) \/ TakeConnection(t) \/ Accept(t)
             \/ RetryFresh(t) \/ FallBack(t) \/ AcceptHttp(t) \/ RefuseTurn(t)
      PROVE  SaidInv'
  BY <1>5, SaidQuiet
     DEF CheckConfirmed, Seed, TakeConnection, Accept, RetryFresh, FallBack,
         AcceptHttp, RefuseTurn, Goto, local, TypeOK
<1>6. ASSUME NEW t \in Turn,
             \/ Complete(t) \/ EndUnfinished(t) \/ Abandon(t) \/ Leave(t)
             \/ Park(t) \/ Close(t)
      PROVE  SaidInv'
  BY <1>6, SaidQuiet
     DEF Complete, EndUnfinished, Abandon, Leave, Park, Close, Goto, local, TypeOK
<1>7. CASE UNCHANGED vars
  BY <1>7 DEF vars, local, SaidInv
<1>8. QED
  BY <1>2, <1>3, <1>4, <1>5, <1>6, <1>7 DEF Next, Finished

\* Nothing has been said at first.
LEMMA InitSaid == Init => SaidInv
BY DEF Init, SaidInv, Kept

\* Whichever turns of a conversation overlap and whatever they did, the backend
\* hears each question a client put once, in its place, and nothing the server
\* returned and never showed (SessionTurns!HeardAsSaid, Session::reconcile).
THEOREM HeardSaid == Spec => []HeardAsSaid
<1>1. DeltaInv /\ SaidInv => HeardAsSaid
  BY DEF DeltaInv, HeardInv, SaidInv, HeardAsSaid, TypeOK
<1>2. DeltaInv => TypeOK  BY DEF DeltaInv
<1>3. QED
  BY <1>1, <1>2, InitDelta, DeltaStep, InitSaid, SaidStep, PTL DEF Spec

-----------------------------------------------------------------------------
(***************************************************************************)
(* The store of sessions, SessionStore, whatever its clients, its capacity *)
(* and the number of requests.                                             *)
(***************************************************************************)

\* No more is picked than there is.
LEMMA PickedShort ==
  ASSUME NEW S, NEW s \in Seq(S), NEW I \in SUBSET (1 .. Len(s))
  PROVE  /\ Len(Picked(s, I)) \in Nat /\ Len(Picked(s, I)) <= Len(s)
         /\ \A i \in (1 .. Len(s)) \ I : Len(Picked(s, I)) < Len(s)
<1>1. Len(s) \in Nat  BY LenProperties
<1>2. IsFiniteSet(1 .. Len(s)) /\ Cardinality(1 .. Len(s)) = Len(s)
  <2>1. 1 \in Int /\ Len(s) \in Int  BY <1>1
  <2>2. /\ IsFiniteSet(1 .. Len(s))
        /\ Cardinality(1 .. Len(s)) = IF 1 > Len(s) THEN 0 ELSE Len(s) - 1 + 1
    BY ONLY <2>1, FS_Interval
  <2>3. QED  BY <1>1, <2>2
<1>3. /\ Len(Picked(s, I)) = Cardinality(I) /\ Cardinality(I) \in Nat
  BY PickedLen
<1>4. /\ Cardinality(I) <= Cardinality(1 .. Len(s))
      /\ Cardinality(1 .. Len(s)) = Cardinality(I) => 1 .. Len(s) = I
  BY <1>2, FS_Subset
<1>5. QED  BY <1>1, <1>2, <1>3, <1>4

\* What is picked of a sequence without repetition has none, and holds exactly
\* what stands at the positions.
LEMMA PickedInjective ==
  ASSUME NEW S, NEW s \in Seq(S), NEW I \in SUBSET (1 .. Len(s)),
         \A i, j \in 1 .. Len(s) : s[i] = s[j] => i = j
  PROVE  /\ Picked(s, I) \in Seq({s[i] : i \in I})
         /\ \A i, j \in 1 .. Len(Picked(s, I)) :
              Picked(s, I)[i] = Picked(s, I)[j] => i = j
<1>1. Len(s) \in Nat  BY LenProperties
<1>2. PICK at : InOrder(Picked(s, I), s, I, at)  BY PickedOrder
<1> DEFINE p == Picked(s, I)
<1>3. \A j \in 1 .. Len(p) : at[j] \in I /\ at[j] \in Int /\ p[j] = s[at[j]]
  BY <1>1, <1>2 DEF InOrder
<1>4. \A i, j \in 1 .. Len(p) : p[i] = p[j] => at[i] = at[j]  BY <1>3
<1>5. Len(p) \in Nat  BY PickedShort
<1>6. \A i, j \in 1 .. Len(p) : at[i] = at[j] => i = j
  <2> SUFFICES ASSUME NEW i \in 1 .. Len(p), NEW j \in 1 .. Len(p), i < j
               PROVE  at[i] # at[j]
    BY <1>5
  <2>1. at[i] < at[j]  BY <1>2 DEF InOrder
  <2>2. QED  BY <1>3, <2>1
<1>7. p \in Seq({s[i] : i \in I})  BY PickedIsSeq
<1>8. QED  BY <1>4, <1>6, <1>7

\* The store starts empty, with nothing of the wrong type.
LEMMA StoreInitType == InitStore => StoreTypeOK
<1> SUFFICES ASSUME InitStore
             PROVE  StoreTypeOK
  OBVIOUS
<1> USE CapacityAssumption, BoundsAssumption
    DEF InitStore, StoreTypeOK, Nobody, NoSession
<1>1. << >> \in Seq(Sessions) /\ << >> \in Seq(Items)  BY EmptySeq
<1>2. DOMAIN sessions = {} /\ sessions = << >> /\ store = << >>  OBVIOUS
<1>3. store \in Seq(DOMAIN sessions) /\ IsInjective(store) /\ Len(store) = 0
  BY <1>2, EmptySeq DEF IsInjective
<1>4. client \in [Clients -> Positions]
  BY <1>1, <1>2 DEF Positions
<1>5. QED  BY <1>1, <1>2, <1>3, <1>4

\* A function of finitely many numbers has a largest value.
LEMMA Largest ==
  ASSUME NEW n \in Nat, NEW T \in SUBSET (1 .. n), T # {}, NEW f,
         \A i \in T : f[i] \in Nat
  PROVE  \E m \in T : \A i \in T : f[i] <= f[m]
<1> DEFINE Has(U) == \E m \in U : \A i \in U : f[i] <= f[m]
           M == {k \in Nat : \A U \in SUBSET T :
                               U \subseteq 1 .. k /\ U # {} => Has(U)}
<1>1. 0 \in M
  <2>1. 1 .. 0 = {}  OBVIOUS
  <2>2. \A U : U \subseteq 1 .. 0 => U = {}  BY <2>1
  <2> HIDE DEF Has
  <2>3. QED  BY <2>2
<1>2. ASSUME NEW k \in M
      PROVE  k + 1 \in M
  <2> SUFFICES ASSUME NEW U \in SUBSET T, U \subseteq 1 .. k + 1, U # {}
               PROVE  Has(U)
    OBVIOUS
  <2> DEFINE R == U \ {k + 1}
  <2>1. R \in SUBSET T /\ R \subseteq 1 .. k  OBVIOUS
  <2>2. CASE R = {}
    <3>1. \A i \in U : i = k + 1  BY <2>2
    <3>2. k + 1 \in U  BY <3>1
    <3>3. f[k + 1] <= f[k + 1]  BY <3>2
    <3>4. QED  BY <3>1, <3>2, <3>3
  <2>3. CASE R # {}
    <3>1. Has(R)  BY <2>1, <2>3
    <3>2. PICK m \in R : \A i \in R : f[i] <= f[m]  BY <3>1
    <3>3. CASE k + 1 \notin U
      <4>1. R = U  BY <3>3
      <4>2. QED  BY <3>1, <4>1
    <3>4. CASE k + 1 \in U /\ f[k + 1] <= f[m]
      <4>1. \A i \in U : f[i] <= f[m]  BY <3>2, <3>4
      <4>2. m \in U  OBVIOUS
      <4>3. QED  BY <4>1, <4>2
    <3>5. CASE k + 1 \in U /\ ~(f[k + 1] <= f[m])
      <4>1. f[m] \in Nat /\ f[k + 1] \in Nat  BY <2>1, <3>5
      <4>2. \A i \in R : f[i] <= f[k + 1]
        <5> TAKE i \in R
        <5>1. f[i] \in Nat /\ f[i] <= f[m]  BY <2>1, <3>2
        <5>2. QED  BY <3>5, <4>1, <5>1
      <4>3. \A i \in U : f[i] <= f[k + 1]  BY <4>1, <4>2
      <4>4. QED  BY <3>5, <4>3
    <3>6. QED  BY <3>3, <3>4, <3>5
  <2>4. QED  BY <2>2, <2>3
<1>3. T \subseteq 1 .. n  OBVIOUS
<1> HIDE DEF M, Has
<1>4. n \in M
  <2>1. M \in SUBSET Nat  BY DEF M
  <2>2. QED  BY <1>1, <1>2, <2>1, NatInduct
<1>5. Has(T)  BY <1>3, <1>4 DEF M
<1>6. QED  BY <1>5 DEF Has

\* The longest of the sessions a request was matched to is one of them.
LEMMA LongestMatched ==
  ASSUME StoreTypeOK, lock.matched # {}
  PROVE  /\ Longest(lock.matched) \in lock.matched
         /\ \A o \in lock.matched :
              \/ Len(sessions[o].baseline) < Len(sessions[Longest(lock.matched)].baseline)
              \/ Len(sessions[o].baseline) = Len(sessions[Longest(lock.matched)].baseline)
<1> USE DEF StoreTypeOK
<1> DEFINE T == lock.matched
           n == Len(sessions)
           length == [s \in T |-> Len(sessions[s].baseline)]
           place == [s \in T |-> Position(s)]
           Best(s) ==
             \A o \in T :
               \/ Len(sessions[o].baseline) < Len(sessions[s].baseline)
               \/ /\ Len(sessions[o].baseline) = Len(sessions[s].baseline)
                  /\ Position(o) <= Position(s)
<1>1. n \in Nat /\ DOMAIN sessions = 1 .. n /\ \A s \in 1 .. n : sessions[s] \in Sessions
  BY LenProperties, ElementOfSeq
<1>2. Len(store) \in Nat /\ DOMAIN store = 1 .. Len(store)
  BY LenProperties
<1>3. \A i \in 1 .. Len(store) : store[i] \in 1 .. n  BY <1>1, <1>2, ElementOfSeq
<1>4. T \in SUBSET (1 .. n)
  BY <1>2, <1>3 DEF ToSet
<1>5. \A s \in T : length[s] \in Nat
  <2> TAKE s \in T
  <2>1. sessions[s].baseline \in Seq(Items)
    BY <1>1, <1>4 DEF Sessions
  <2>2. QED  BY <2>1, LenProperties
<1>6. \A s \in T : place[s] \in Nat
  <2> TAKE s \in T
  <2>1. \E i \in DOMAIN store : store[i] = s  BY DEF ToSet
  <2>2. Position(s) \in DOMAIN store  BY <2>1 DEF Position
  <2>3. QED  BY <1>2, <2>2
<1> HIDE DEF T, n
<1>7. T # {}  BY DEF T
<1>8. PICK a \in T : \A i \in T : length[i] <= length[a]
  <2> HIDE DEF length
  <2>1. QED  BY <1>1, <1>4, <1>5, <1>7, Largest
<1> DEFINE U == {s \in T : length[s] = length[a]}
<1>9. PICK m \in U : \A i \in U : place[i] <= place[m]
  <2>1. U \in SUBSET (1 .. n) /\ a \in U /\ \A i \in U : place[i] \in Nat
    BY <1>4, <1>6
  <2> HIDE DEF place, U
  <2>2. QED  BY <1>1, <2>1, Largest
<1>10. Best(m)
  <2> SUFFICES ASSUME NEW o \in T
               PROVE  \/ Len(sessions[o].baseline) < Len(sessions[m].baseline)
                      \/ /\ Len(sessions[o].baseline) = Len(sessions[m].baseline)
                         /\ Position(o) <= Position(m)
    OBVIOUS
  <2>1. m \in T /\ length[m] = length[a] /\ length[o] <= length[m]
    BY <1>8, <1>9
  <2>2. length[o] \in Nat /\ length[m] \in Nat  BY <1>5, <2>1
  <2>3. CASE length[o] = length[m]
    <3>1. place[o] <= place[m]  BY <1>9, <2>1, <2>3
    <3>2. QED  BY <2>1, <2>3, <3>1
  <2>4. CASE length[o] # length[m]
    <3>1. length[o] < length[m]  BY <2>1, <2>2, <2>4
    <3>2. QED  BY <2>1, <3>1
  <2>5. QED  BY <2>3, <2>4
<1>11. Longest(T) = CHOOSE s \in T : Best(s)  BY DEF Longest
<1> HIDE DEF Best
<1>12. Longest(T) \in T /\ Best(Longest(T))  BY <1>9, <1>10, <1>11
<1>13. \A o \in T : \/ Len(sessions[o].baseline) < Len(sessions[Longest(T)].baseline)
                    \/ Len(sessions[o].baseline) = Len(sessions[Longest(T)].baseline)
  BY <1>12 DEF Best
<1>14. QED  BY <1>12, <1>13 DEF T

\* What a client asks is its history and one thing more.
LEMMA RequestType ==
  ASSUME StoreTypeOK, NEW k \in Clients
  PROVE  Request(k) \in Seq(Items)
<1>1. client[k].history \in Seq(Items)  BY DEF StoreTypeOK, Positions
<1>2. Len(client[k].history) \in Nat  BY <1>1, LenProperties
<1>3. ItemOf("message", IF client[k].history = <<>> THEN Opener[k] ELSE k,
                 Len(client[k].history), "asked") \in Items
  BY <1>2 DEF ItemOf, Items
<1>4. << ItemOf("message", IF client[k].history = <<>> THEN Opener[k] ELSE k,
                    Len(client[k].history), "asked") >> \in Seq(Items)
  BY <1>3
<1>5. QED  BY <1>1, <1>4, ConcatProperties DEF Request

\* What is kept of the store has no session twice, and none that was not there.
LEMMA KeptOfStore ==
  ASSUME StoreTypeOK, NEW I \in SUBSET (DOMAIN store)
  PROVE  /\ Picked(store, I) \in Seq(DOMAIN sessions)
         /\ IsInjective(Picked(store, I))
         /\ Len(Picked(store, I)) \in Nat
         /\ Len(Picked(store, I)) <= Len(store)
         /\ \A i \in DOMAIN store \ I : Len(Picked(store, I)) < Len(store)
         /\ ToSet(Picked(store, I)) = {store[i] : i \in I}
<1>1. store \in Seq(DOMAIN sessions) /\ IsInjective(store)  BY DEF StoreTypeOK
<1>2. Len(store) \in Nat /\ DOMAIN store = 1 .. Len(store)  BY <1>1, LenProperties
<1>3. I \in SUBSET (1 .. Len(store))  BY <1>2
<1>4. \A i, j \in 1 .. Len(store) : store[i] = store[j] => i = j
  BY <1>1, <1>2 DEF IsInjective
<1> DEFINE p == Picked(store, I)
<1>5. /\ p \in Seq({store[i] : i \in I})
      /\ \A i, j \in 1 .. Len(p) : p[i] = p[j] => i = j
  BY <1>1, <1>3, <1>4, PickedInjective
<1>6. Len(p) \in Nat /\ DOMAIN p = 1 .. Len(p)  BY <1>5, LenProperties
<1>7. /\ Len(p) <= Len(store)
      /\ \A i \in (1 .. Len(store)) \ I : Len(p) < Len(store)
  BY <1>1, <1>3, PickedShort
<1>8. {store[i] : i \in I} \subseteq DOMAIN sessions
  BY <1>1, <1>2, ElementOfSeq
<1>9. PICK at : InOrder(p, store, I, at)  BY <1>1, <1>3, PickedOrder
<1>10. {p[j] : j \in DOMAIN p} = {store[i] : i \in I}
  <2>1. \A j \in 1 .. Len(p) : p[j] \in {store[i] : i \in I}
    BY <1>5, ElementOfSeq
  <2>2. \A i \in I : \E j \in 1 .. Len(p) : p[j] = store[i]
    BY <1>9 DEF InOrder
  <2> HIDE DEF p
  <2>3. QED  BY <1>6, <2>1, <2>2
<1>11. Picked(store, I) = p  OBVIOUS
<1> HIDE DEF p
<1>12. p \in Seq(DOMAIN sessions)  BY <1>5, <1>8, SeqMonotonic
<1>13. IsInjective(p)  BY <1>5, <1>6 DEF IsInjective
<1>14. ToSet(p) = {store[i] : i \in I}  BY <1>10 DEF ToSet
<1>15. QED  BY <1>2, <1>6, <1>7, <1>11, <1>12, <1>13, <1>14

\* resolve, its first half: what has been idle for an hour goes, the rest is matched.
LEMMA StoreFilterType ==
  ASSUME StoreTypeOK, NEW k \in Clients, Filter(k)
  PROVE  StoreTypeOK'
<1> DEFINE I == {i \in DOMAIN store : sessions[store[i]].used > horizon}
<1>1. Recent = Picked(store, I)  BY DEF Recent
<1>2. /\ Recent \in Seq(DOMAIN sessions)
      /\ IsInjective(Recent)
      /\ Len(Recent) \in Nat /\ Len(Recent) <= Len(store)
  <2>1. I \in SUBSET (DOMAIN store)  OBVIOUS
  <2> HIDE DEF I
  <2>2. QED  BY <1>1, <2>1, KeptOfStore
<1>3. Len(store) \in Nat /\ Capacity \in Nat
  BY LenProperties, CapacityAssumption DEF StoreTypeOK
<1>4. Request(k) \in Seq(Items)  BY RequestType
<1>5. /\ store' = Recent
      /\ lock' \in [by : Clients \cup {"nobody"}, matched : SUBSET ToSet(Recent),
                    moved : BOOLEAN]
      /\ client' = [client EXCEPT ![k].phase = "resolving", ![k].input = Request(k)]
      /\ UNCHANGED <<sessions, clock, horizon, sweeps>>
  BY DEF Filter
<1>6. client' \in [Clients -> Positions']
  <2>1. client \in [Clients -> Positions]  BY DEF StoreTypeOK
  <2>2. Positions' = Positions  BY <1>5 DEF Positions
  <2>3. client' \in [Clients -> Positions]
    BY <1>4, <1>5, <2>1 DEF Positions
  <2>4. QED  BY <2>2, <2>3
<1>7. ToSet(Recent) = ToSet(store)'
  BY <1>5 DEF ToSet
<1>8. Len(Recent) <= Capacity  BY <1>2, <1>3 DEF StoreTypeOK
<1>9. QED  BY <1>2, <1>5, <1>6, <1>7, <1>8 DEF StoreTypeOK, IsInjective

\* One session of those made is changed, into a session.
LEMMA SessionChanged ==
  ASSUME sessions \in Seq(Sessions), NEW s \in DOMAIN sessions,
         NEW r \in Sessions, sessions' = [sessions EXCEPT ![s] = r]
  PROVE  /\ sessions' \in Seq(Sessions)
         /\ DOMAIN sessions' = DOMAIN sessions
         /\ \A o \in DOMAIN sessions : sessions'[o] = IF o = s THEN r ELSE sessions[o]
<1>1. Len(sessions) \in Nat /\ DOMAIN sessions = 1 .. Len(sessions)
  BY LenProperties
<1>2. [sessions EXCEPT ![s] = r] \in Seq(Sessions)  BY <1>1, ExceptSeq
<1>3. QED  BY <1>2

\* What one client holds is changed, and no session goes.
LEMMA ClientTyped ==
  ASSUME client \in [Clients -> Positions], NEW k \in Clients, NEW c,
         client' = [client EXCEPT ![k] = c], c \in Positions',
         DOMAIN sessions \subseteq DOMAIN sessions'
  PROVE  client' \in [Clients -> Positions']
<1>1. Positions \subseteq Positions'  BY DEF Positions
<1>2. QED  BY <1>1

\* resolve, its second half: the session taken moves to the front.
LEMMA StoreJoinType ==
  ASSUME StoreTypeOK, NEW k \in Clients, Reuse(k)
  PROVE  StoreTypeOK'
<1> DEFINE s == Longest(lock.matched)
           I == {i \in DOMAIN store : store[i] # s}
           p == Picked(store, I)
<1>1. s \in lock.matched  BY LongestMatched DEF Reuse
<1>2. PICK q \in DOMAIN store : store[q] = s  BY <1>1 DEF StoreTypeOK, ToSet
<1>3. /\ store \in Seq(DOMAIN sessions) /\ sessions \in Seq(Sessions)
      /\ client \in [Clients -> Positions] /\ clock \in Nat /\ horizon \in 0 .. clock
      /\ \A o \in DOMAIN sessions : sessions[o].used \in 1 .. clock
      /\ Len(store) <= Capacity
  BY DEF StoreTypeOK
<1>4. Len(store) \in Nat /\ DOMAIN store = 1 .. Len(store)  BY <1>3, LenProperties
<1>5. s \in DOMAIN sessions  BY <1>2, <1>3, <1>4, ElementOfSeq
<1>6. /\ p \in Seq(DOMAIN sessions) /\ IsInjective(p)
      /\ Len(p) \in Nat /\ Len(p) < Len(store)
      /\ ToSet(p) = {store[i] : i \in I}
  <2>1. I \in SUBSET (DOMAIN store) /\ q \in DOMAIN store \ I  BY <1>2
  <2> HIDE DEF I
  <2>2. QED  BY <2>1, KeptOfStore
<1>7. /\ store' = <<s>> \o p
      /\ sessions' = [sessions EXCEPT ![s].used = clock + 1]
      /\ client' = [client EXCEPT ![k].phase = "resolved", ![k].home = s]
      /\ clock' = clock + 1 /\ lock' = Nobody
      /\ UNCHANGED <<horizon, sweeps>>
  BY DEF Reuse, Use
<1>8. s \notin ToSet(p)  BY <1>6
<1>9. DOMAIN p = 1 .. Len(p) /\ \A i \in 1 .. Len(p) : p[i] \in ToSet(p)
  BY <1>6, LenProperties DEF ToSet
<1> HIDE DEF s, I, p
<1>10. /\ sessions' \in Seq(Sessions) /\ DOMAIN sessions' = DOMAIN sessions
       /\ \A o \in DOMAIN sessions :
            sessions'[o].used = IF o = s THEN clock + 1 ELSE sessions[o].used
  <2> DEFINE r == [sessions[s] EXCEPT !.used = clock + 1]
  <2>1. sessions[s] \in Sessions
    BY <1>3, <1>5, LenProperties, ElementOfSeq
  <2>2. r \in Sessions /\ r.used = clock + 1
    <3>1. clock + 1 \in Nat  BY <1>3
    <3>2. QED  BY ONLY <2>1, <3>1 DEF Sessions
  <2>3. sessions' = [sessions EXCEPT ![s] = r]  BY <1>7
  <2> HIDE DEF r
  <2>4. QED  BY <1>3, <1>5, <2>2, <2>3, SessionChanged
<1>11. client' \in [Clients -> Positions']
  <2>1. Positions' = Positions  BY <1>10 DEF Positions
  <2>2. client' \in [Clients -> Positions]
    BY <1>3, <1>5, <1>7 DEF Positions
  <2>3. QED  BY <2>1, <2>2
<1>12. /\ store' \in Seq(DOMAIN sessions) /\ Len(store') = Len(p) + 1
       /\ store'[1] = s
       /\ \A i \in 1 .. Len(p) : store'[i + 1] = p[i]
  BY <1>5, <1>6, <1>7
<1>13. IsInjective(store')
  <2>1. DOMAIN store' = 1 .. Len(p) + 1  BY <1>12, LenProperties
  <2> SUFFICES ASSUME NEW i \in 1 .. Len(p) + 1, NEW j \in 1 .. Len(p) + 1,
                      i < j, store'[i] = store'[j]
               PROVE  FALSE
    BY <1>6, <2>1 DEF IsInjective
  <2>2. j - 1 \in 1 .. Len(p) /\ store'[j] = p[j - 1]
    <3>1. j - 1 \in 1 .. Len(p) /\ (j - 1) + 1 = j  BY <1>6
    <3>2. QED  BY <1>12, <3>1
  <2>3. CASE i = 1  BY <1>8, <1>9, <1>12, <2>2, <2>3
  <2>4. CASE i # 1
    <3>1. i - 1 \in 1 .. Len(p) /\ (i - 1) + 1 = i  BY <1>6, <2>4
    <3>2. store'[i] = p[i - 1]  BY <1>12, <3>1
    <3>3. i - 1 = j - 1  BY <1>6, <1>9, <2>2, <3>1, <3>2 DEF IsInjective
    <3>4. QED  BY <3>3
  <2>5. QED  BY <2>3, <2>4
<1>14. Len(store') <= Capacity /\ Capacity \in Nat
  BY <1>3, <1>4, <1>6, <1>12, CapacityAssumption
<1>15. \A o \in DOMAIN sessions' : sessions'[o].used \in 1 .. clock'
  BY <1>3, <1>7, <1>10
<1>16. clock' \in Nat /\ horizon' \in 0 .. clock'  BY <1>3, <1>7
<1>17. lock' \in [by : Clients \cup {"nobody"}, matched : SUBSET ToSet(store)',
                   moved : BOOLEAN]
  BY <1>7 DEF Nobody
<1>18. sweeps' \in 0 .. MaxSweeps  BY <1>7 DEF StoreTypeOK
<1>19. QED
  BY <1>10, <1>11, <1>12, <1>13, <1>14, <1>15, <1>16, <1>17, <1>18
     DEF StoreTypeOK, IsInjective

\* The first n items of a sequence.
LEMMA Firsts ==
  ASSUME NEW S, NEW w, NEW n \in Nat, \A i \in 1 .. n : w[i] \in S
  PROVE  /\ SubSeq(w, 1, n) \in Seq(S) /\ Len(SubSeq(w, 1, n)) = n
         /\ \A i \in 1 .. n : SubSeq(w, 1, n)[i] = w[i]
<1>1. SubSeq(w, 1, n) \in Seq(S)  BY SubSeqProperties
<1>2. Len(SubSeq(w, 1, n)) = IF 1 <= n THEN n - 1 + 1 ELSE 0 BY SubSeqProperties
<1>3. \A i \in 1 .. n - 1 + 1 : SubSeq(w, 1, n)[i] = w[1 + i - 1] BY SubSeqProperties
<1>4. Len(SubSeq(w, 1, n)) = n BY <1>2
<1>5. \A i \in 1 .. n : SubSeq(w, 1, n)[i] = w[i] BY <1>3
<1>6. QED BY <1>1, <1>4, <1>5

\* A conversation whose first item the client was shown replays with that item first.
LEMMA HeadShown ==
  ASSUME NEW S, NEW c \in Seq(S), c # <<>>, ~ServerOnly(c[1])
  PROVE  Len(Replayable(c)) >= 1 /\ Replayable(c)[1] = c[1]
<1>1. Len(c) \in Nat /\ Len(c) # 0 /\ DOMAIN c = 1 .. Len(c)  BY LenProperties, EmptySeq
<1>2. Kept(c) \in SUBSET (1 .. Len(c)) /\ 1 \in Kept(c)  BY <1>1 DEF Kept
<1> DEFINE p == Replayable(c)
<1>3. PICK at : InOrder(p, c, Kept(c), at)  BY <1>2, PickedOrder DEF Replayable
<1>4. Len(p) \in Nat  BY ReplayableType
<1> HIDE DEF p
<1>5. PICK j \in 1 .. Len(p) : at[j] = 1  BY <1>2, <1>3 DEF InOrder
<1>6. 1 \in 1 .. Len(p) /\ Len(p) >= 1  BY <1>4
<1>7. at[1] \in 1 .. Len(c) /\ p[1] = c[at[1]]  BY <1>2, <1>3, <1>6 DEF InOrder
<1>8. j = 1
  <2> SUFFICES ASSUME 1 < j
               PROVE  FALSE
    OBVIOUS
  <2>1. at[1] < at[j]  BY <1>3, <1>6 DEF InOrder
  <2>2. QED  BY <1>5, <1>7, <2>1
<1>9. QED  BY <1>5, <1>6, <1>7, <1>8 DEF p

\* A replay that lines up with a conversation begins as it does.
LEMMA HeadMatched ==
  ASSUME NEW S, NEW b \in Seq(S), NEW c \in Seq(S), b # <<>>, ~ServerOnly(b[1]),
         Reconciles(b, c)
  PROVE  c[1] = b[1]
<1> DEFINE p == Replayable(b)
<1>1. p \in Seq(S) /\ Len(p) \in Nat /\ Len(c) \in Nat  BY ReplayableType, LenProperties
<1>2. Len(p) >= 1 /\ p[1] = b[1]  BY HeadShown
<1>3. Len(p) <= Len(c) /\ SubSeq(p, 1, Len(p)) = SubSeq(c, 1, Len(p))
  BY DEF Reconciles, IsPrefix
<1> HIDE DEF p
<1>4. \A i \in 1 .. Len(p) : p[i] \in S /\ c[i] \in S
  <2>1. \A i \in 1 .. Len(p) : i \in 1 .. Len(c)  BY <1>1, <1>3
  <2>2. QED  BY <1>1, <2>1, ElementOfSeq
<1>5. \A i \in 1 .. Len(p) - 1 + 1 : /\ SubSeq(p, 1, Len(p))[i] = p[1 + i - 1]
                                     /\ SubSeq(c, 1, Len(p))[i] = c[1 + i - 1]
  BY <1>1, <1>4, SubSeqProperties
<1>6. 1 \in 1 .. Len(p) - 1 + 1 /\ 1 + 1 - 1 = 1  BY <1>1, <1>2
<1>7. QED  BY <1>2, <1>3, <1>5, <1>6

\* What a request sends in full begins as the conversation does, or as the replay.
LEMMA HeadOfFull ==
  ASSUME NEW S, NEW b \in Seq(S), NEW c \in Seq(S), b # <<>>, c # <<>>
  PROVE  /\ FullInput(b, c) \in Seq(S) /\ FullInput(b, c) # <<>>
         /\ FullInput(b, c)[1] \in {b[1], c[1]}
<1>1. FullInput(b, c) \in Seq(S)  BY FullInputType
<1>2. CASE ~Reconciles(b, c)  BY <1>1, <1>2 DEF FullInput
<1>3. CASE Reconciles(b, c)
  <2> DEFINE n == NewItems(b, c)
  <2>1. FullInput(b, c) = b \o n  BY <1>3 DEF FullInput, Reconciled
  <2>2. n \in Seq(S)
    <3>1. Len(c) \in Nat /\ Consumed(b) \in Nat  BY LenProperties, ReplayableType
    <3>2. \A i \in Consumed(b) + 1 .. Len(c) : c[i] \in S
      <4>1. \A i \in Consumed(b) + 1 .. Len(c) : i \in 1 .. Len(c)  BY <3>1
      <4>2. QED  BY <4>1, ElementOfSeq
    <3>3. Consumed(b) + 1 \in Int /\ Len(c) \in Int  BY <3>1
    <3>4. QED  BY <3>2, <3>3, SubSeqProperties DEF NewItems
  <2> HIDE DEF n
  <2>3. Len(b) \in Nat /\ Len(n) \in Nat /\ Len(b) # 0  BY <2>2, LenProperties, EmptySeq
  <2>4. 1 \in 1 .. Len(b) + Len(n) /\ 1 <= Len(b)  BY <2>3
  <2>5. (b \o n)[1] = b[1] /\ Len(b \o n) = Len(b) + Len(n)
    BY <2>2, <2>4, ConcatProperties
  <2>6. b \o n # <<>>  BY <2>3, <2>5, EmptySeq
  <2>7. QED  BY <1>1, <2>1, <2>5, <2>6
<1>4. QED  BY <1>2, <1>3

\* A session is put in front of a store, and the last dropped when there is no room.
InFront(s, q, c) == SubSeq(<<s>> \o q, 1, Min({c, Len(q) + 1}))

\* The store r is q with s in front, or as much of it as there is room for.
Fronted(r, s, q, c) ==
  /\ Len(r) \in 1 .. c /\ Len(r) <= Len(q) + 1
  /\ r[1] = s
  /\ \A i \in 1 .. Len(r) : i # 1 => i - 1 \in 1 .. Len(q) /\ r[i] = q[i - 1]
  /\ Len(r) = c \/ Len(r) = Len(q) + 1

\* So it is done.
LEMMA PutInFront ==
  ASSUME NEW S, NEW q \in Seq(S), NEW s \in S, NEW c \in Nat \ {0}
  PROVE  InFront(s, q, c) \in Seq(S) /\ Fronted(InFront(s, q, c), s, q, c)
<1> DEFINE r == InFront(s, q, c)
<1>1. Len(q) \in Nat  BY LenProperties
<1> DEFINE n == Min({c, Len(q) + 1})
           w == <<s>> \o q
<1>2. n \in {c, Len(q) + 1} /\ n <= c /\ n <= Len(q) + 1
  <2> DEFINE M == {c, Len(q) + 1}
  <2>1. \E x \in M : \A y \in M : x <= y
    <3>1. CASE c <= Len(q) + 1  BY <1>1, <3>1
    <3>2. CASE ~(c <= Len(q) + 1)  BY <1>1, <3>2
    <3>3. QED  BY <3>1, <3>2
  <2>2. n = CHOOSE x \in M : \A y \in M : x <= y  BY DEF Min
  <2>3. QED  BY <2>1, <2>2
<1>3. /\ w \in Seq(S) /\ Len(w) = Len(q) + 1
      /\ w[1] = s /\ \A i \in 1 .. Len(q) : w[i + 1] = q[i]
  BY <1>1
<1>4. r = SubSeq(w, 1, n)  BY DEF InFront
<1> HIDE DEF n, w, r
<1>5. n \in Nat /\ n >= 1  BY <1>1, <1>2
<1>6. \A i \in 1 .. n : w[i] \in S
  <2>1. \A i \in 1 .. n : i \in 1 .. Len(w)  BY <1>1, <1>2, <1>3, <1>5
  <2>2. QED  BY <1>3, <2>1, ElementOfSeq
<1>7. /\ r \in Seq(S) /\ Len(r) = n
      /\ \A i \in 1 .. n : r[i] = w[i]
  <2>1. /\ SubSeq(w, 1, n) \in Seq(S) /\ Len(SubSeq(w, 1, n)) = n
        /\ \A i \in 1 .. n : SubSeq(w, 1, n)[i] = w[i]
    BY <1>5, <1>6, Firsts
  <2>2. QED  BY ONLY <1>4, <2>1
<1>8. \A i \in 1 .. n : i # 1 => i - 1 \in 1 .. Len(q) /\ w[i] = q[i - 1]
  <2> TAKE i \in 1 .. n
  <2> HAVE i # 1
  <2>1. i - 1 \in 1 .. Len(q) /\ (i - 1) + 1 = i  BY <1>1, <1>2, <1>5
  <2>2. QED  BY <1>3, <2>1
<1>9. 1 \in 1 .. n /\ n \in 1 .. c  BY <1>2, <1>5
<1>10. /\ r \in Seq(S) /\ Len(r) \in 1 .. c /\ Len(r) <= Len(q) + 1
       /\ r[1] = s
       /\ \A i \in 1 .. Len(r) : i # 1 => i - 1 \in 1 .. Len(q) /\ r[i] = q[i - 1]
       /\ Len(r) = c \/ Len(r) = Len(q) + 1
  BY <1>2, <1>3, <1>7, <1>8, <1>9
<1>11. QED  BY ONLY <1>10 DEF r, Fronted

\* The store's invariant: its types, and whose words begin what.
StoreInv == StoreTypeOK /\ OriginInv

\* resolve, its second half: a new session goes to the front.
LEMMA StoreCreateType ==
  ASSUME StoreTypeOK, NEW k \in Clients, Create(k)
  PROVE  StoreTypeOK'
<1> DEFINE s == Len(sessions) + 1
           r == [baseline |-> client[k].input, confirmed |-> FALSE,
                 scope |-> Scope[k], used |-> clock + 1, by |-> k]
<1>1. /\ store \in Seq(DOMAIN sessions) /\ sessions \in Seq(Sessions)
      /\ client \in [Clients -> Positions] /\ clock \in Nat /\ horizon \in 0 .. clock
      /\ \A o \in DOMAIN sessions : sessions[o].used \in 1 .. clock
      /\ IsInjective(store)
  BY DEF StoreTypeOK
<1>2. /\ Len(store) \in Nat /\ DOMAIN store = 1 .. Len(store)
      /\ Len(sessions) \in Nat /\ DOMAIN sessions = 1 .. Len(sessions)
  BY <1>1, LenProperties
<1>3. /\ sessions' = Append(sessions, r)
      /\ store' = SubSeq(<<s>> \o store, 1, Min({Capacity, Len(store) + 1}))
      /\ client' = [client EXCEPT ![k].phase = "resolved", ![k].home = s]
      /\ clock' = clock + 1 /\ lock' = Nobody
      /\ UNCHANGED <<horizon, sweeps>>
  BY DEF Create, Use
<1>4. r \in Sessions /\ r.used = clock + 1
  <2>1. client[k].input \in Seq(Items) /\ clock + 1 \in Nat
    BY <1>1 DEF Positions
  <2>2. QED  BY ONLY <2>1, k \in Clients DEF Sessions
<1> HIDE DEF r
<1>5. /\ sessions' \in Seq(Sessions) /\ DOMAIN sessions' = 1 .. s
      /\ \A o \in DOMAIN sessions : sessions'[o] = sessions[o]
      /\ sessions'[s] = r
  <2>1. /\ sessions' \in Seq(Sessions) /\ Len(sessions') = Len(sessions) + 1
        /\ \A o \in 1 .. Len(sessions) : sessions'[o] = sessions[o]
        /\ sessions'[Len(sessions) + 1] = r
    BY <1>1, <1>3, <1>4, AppendProperties
  <2>2. DOMAIN sessions' = 1 .. Len(sessions')  BY <2>1, LenProperties
  <2>3. QED  BY <1>2, <2>1, <2>2
<1>6. s \in 1 .. s /\ s \notin DOMAIN sessions /\ DOMAIN sessions \subseteq 1 .. s
      /\ \A o \in 1 .. s : o = s \/ o \in DOMAIN sessions
  BY <1>2
<1> HIDE DEF s
<1>7. client' \in [Clients -> Positions']
  <2> DEFINE c == [client[k] EXCEPT !.phase = "resolved", !.home = s]
  <2>1. client[k] \in Positions  BY <1>1
  <2>2. Positions \subseteq Positions'
    BY <1>5, <1>6 DEF Positions
  <2>3. client[k] \in Positions' /\ s \in DOMAIN sessions'  BY <1>5, <1>6, <2>1, <2>2
  <2>4. c \in Positions'  BY <2>3 DEF Positions
  <2>5. client' = [client EXCEPT ![k] = c]  BY <1>1, <1>3
  <2> HIDE DEF c
  <2>6. QED  BY <1>1, <1>5, <1>6, <2>4, <2>5, ClientTyped
<1>8. store \in Seq(1 .. s) /\ Capacity \in Nat \ {0}
  BY <1>1, <1>6, SeqMonotonic, CapacityAssumption
<1>9. /\ store' \in Seq(1 .. s) /\ Len(store') \in 1 .. Capacity
      /\ store'[1] = s
      /\ \A i \in 1 .. Len(store') :
           i # 1 => i - 1 \in 1 .. Len(store) /\ store'[i] = store[i - 1]
  <2>1. store' = InFront(s, store, Capacity)  BY <1>3 DEF InFront
  <2>2. store' \in Seq(1 .. s) /\ Fronted(store', s, store, Capacity)
    BY <1>6, <1>8, <2>1, PutInFront
  <2>3. QED  BY ONLY <2>2 DEF Fronted
<1>10. DOMAIN store' = 1 .. Len(store')  BY <1>9, LenProperties
<1>11. IsInjective(store')
  <2> SUFFICES ASSUME NEW i \in 1 .. Len(store'), NEW j \in 1 .. Len(store'),
                      i < j, store'[i] = store'[j]
               PROVE  FALSE
    BY <1>9, <1>10 DEF IsInjective
  <2>1. j - 1 \in 1 .. Len(store) /\ store'[j] = store[j - 1]  BY <1>9
  <2>2. store[j - 1] \in DOMAIN sessions  BY <1>1, <2>1, ElementOfSeq
  <2>3. CASE i = 1  BY <1>6, <1>9, <2>1, <2>2, <2>3
  <2>4. CASE i # 1
    <3>1. i - 1 \in 1 .. Len(store) /\ store'[i] = store[i - 1]  BY <1>9, <2>4
    <3>2. i - 1 = j - 1  BY <1>1, <1>2, <2>1, <3>1 DEF IsInjective
    <3>3. QED  BY <3>2
  <2>5. QED  BY <2>3, <2>4
<1>12. \A o \in DOMAIN sessions' : sessions'[o].used \in 1 .. clock'
  <2> TAKE o \in DOMAIN sessions'
  <2>1. CASE o = s  BY <1>1, <1>3, <1>4, <1>5, <2>1
  <2>2. CASE o \in DOMAIN sessions  BY <1>1, <1>3, <1>5, <2>2
  <2>3. QED  BY <1>5, <1>6, <2>1, <2>2
<1>13. clock' \in Nat /\ horizon' \in 0 .. clock'  BY <1>1, <1>3
<1>14. lock' \in [by : Clients \cup {"nobody"}, matched : SUBSET ToSet(store)',
                   moved : BOOLEAN]
  BY <1>3 DEF Nobody
<1>15. sweeps' \in 0 .. MaxSweeps  BY <1>3 DEF StoreTypeOK
<1>16. QED
  BY <1>5, <1>7, <1>9, <1>11, <1>12, <1>13, <1>14, <1>15
     DEF StoreTypeOK, IsInjective

\* A session written, outside the store's lock, is marked if a request is
\* being matched to it.
LEMMA WrittenType ==
  ASSUME lock \in [by : Clients \cup {"nobody"}, matched : SUBSET ToSet(store),
                   moved : BOOLEAN],
         NEW s, Written(s)
  PROVE  /\ lock' \in [by : Clients \cup {"nobody"}, matched : SUBSET ToSet(store),
                       moved : BOOLEAN]
         /\ lock'.by = lock.by /\ lock'.matched = lock.matched
<1> DEFINE b == lock.moved \/ s \in lock.matched
<1>1. b \in BOOLEAN  OBVIOUS
<1>2. lock' = [lock EXCEPT !.moved = b]  BY DEF Written
<1> HIDE DEF b
<1>3. QED  BY <1>1, <1>2

\* One session is written and one client goes on: the types stay.
LEMMA SessionWritten ==
  ASSUME StoreTypeOK, NEW s \in DOMAIN sessions, NEW r \in Sessions,
         r.used = sessions[s].used, sessions' = [sessions EXCEPT ![s] = r],
         UNCHANGED <<store, clock, horizon, sweeps>>,
         Written(s) \/ UNCHANGED lock,
         NEW k \in Clients, NEW c \in Positions,
         client' = [client EXCEPT ![k] = c]
  PROVE  StoreTypeOK'
<1>1. /\ sessions \in Seq(Sessions)
      /\ client \in [Clients -> Positions]
      /\ lock \in [by : Clients \cup {"nobody"}, matched : SUBSET ToSet(store),
                   moved : BOOLEAN]
      /\ \A o \in DOMAIN sessions : sessions[o].used \in 1 .. clock
  BY DEF StoreTypeOK
<1>2. /\ sessions' \in Seq(Sessions)
      /\ DOMAIN sessions' = DOMAIN sessions
      /\ \A o \in DOMAIN sessions : sessions'[o] = IF o = s THEN r ELSE sessions[o]
  BY <1>1, SessionChanged
<1>3. \A o \in DOMAIN sessions' : sessions'[o].used \in 1 .. clock'
  BY <1>1, <1>2
<1>4. client' \in [Clients -> Positions']
  <2>1. Positions' = Positions  BY <1>2 DEF Positions
  <2>2. QED  BY <1>1, <2>1
<1>5. lock' \in [by : Clients \cup {"nobody"}, matched : SUBSET ToSet(store)',
                 moved : BOOLEAN]
  <2>1. ToSet(store)' = ToSet(store)  BY DEF ToSet
  <2>2. QED  BY <1>1, <2>1, WrittenType
<1>6. QED  BY <1>2, <1>3, <1>4, <1>5 DEF StoreTypeOK, IsInjective

\* What a client has a turn on is a session, and its conversation an opened one.
LEMMA HomeOf ==
  ASSUME StoreInv, NEW k \in Clients, client[k].phase \in {"resolved", "sent"}
  PROVE  /\ client[k].home \in DOMAIN sessions
         /\ Begins(sessions[client[k].home].baseline, k)
         /\ sessions[client[k].home] \in Sessions
         /\ sessions[client[k].home].baseline \in Seq(Items)
         /\ client[k].input \in Seq(Items)
         /\ client[k].history \in Seq(Items)
         /\ Begins(client[k].input, k)
<1>1. /\ sessions \in Seq(Sessions) /\ client[k] \in Positions
  BY DEF StoreInv, StoreTypeOK
<1>2. /\ client[k].home # NoSession /\ client[k].phase # "idle"
      /\ Begins(sessions[client[k].home].baseline, k)
      /\ Begins(client[k].input, k)
  BY DEF StoreInv, OriginInv, Belongs
<1>3. client[k].home \in DOMAIN sessions
  BY <1>1, <1>2 DEF Positions
<1>4. sessions[client[k].home] \in Sessions
  BY <1>1, <1>3, LenProperties, ElementOfSeq
<1>5. QED  BY <1>1, <1>2, <1>3, <1>4 DEF Positions, Sessions

\* A request is sent: what goes with it begins with the client's words.
LEMMA ClaimInput ==
  ASSUME StoreInv, NEW k \in Clients, client[k].phase = "resolved"
  PROVE  LET b == sessions[client[k].home].baseline
         IN  /\ FullInput(b, client[k].input) \in Seq(Items)
             /\ Begins(FullInput(b, client[k].input), k)
<1> DEFINE b == sessions[client[k].home].baseline
           c == client[k].input
<1>1. /\ b \in Seq(Items) /\ c \in Seq(Items)
      /\ Begins(b, k) /\ Begins(c, k)
  BY HomeOf
<1> HIDE DEF b, c
<1>2. /\ b # <<>> /\ c # <<>>
      /\ b[1] = c[1] /\ b[1] = ItemOf("message", Opener[k], 0, "asked")
  BY <1>1 DEF Begins
<1>3. FullInput(b, c) \in Seq(Items) /\ FullInput(b, c) # <<>>
      /\ FullInput(b, c)[1] \in {b[1], c[1]}
  BY <1>1, <1>2, HeadOfFull
<1>4. Begins(FullInput(b, c), k)  BY <1>2, <1>3 DEF Begins
<1>5. QED  BY <1>3, <1>4 DEF b, c

\* A turn's answer, behind a request, makes a conversation that begins as it did.
LEMMA AnswerWhole ==
  ASSUME NEW S, NEW c \in Seq(S), c # <<>>, NEW a \in Seq(S), ~ServerOnly(c[1])
  PROVE  /\ c \o a \in Seq(S) /\ c \o a # <<>> /\ (c \o a)[1] = c[1]
         /\ Replayable(c \o a) \in Seq(S) /\ Replayable(c \o a) # <<>>
         /\ Replayable(c \o a)[1] = c[1]
<1>1. Len(c) \in Nat /\ Len(a) \in Nat /\ Len(c) # 0  BY LenProperties, EmptySeq
<1>2. 1 \in 1 .. Len(c) + Len(a) /\ 1 <= Len(c)  BY <1>1
<1>3. c \o a \in Seq(S) /\ Len(c \o a) = Len(c) + Len(a) /\ (c \o a)[1] = c[1]
  BY <1>2, ConcatProperties
<1>4. c \o a # <<>>  BY <1>1, <1>3, EmptySeq
<1> DEFINE w == c \o a
<1>5. w \in Seq(S) /\ w # <<>> /\ ~ServerOnly(w[1])  BY <1>3, <1>4
<1> HIDE DEF w
<1>6. /\ Replayable(w) \in Seq(S)
      /\ Len(Replayable(w)) >= 1 /\ Replayable(w)[1] = w[1]
  BY <1>5, HeadShown, ReplayableType
<1>7. Replayable(w) # <<>>  BY <1>6, EmptySeq
<1>8. QED  BY <1>3, <1>4, <1>6, <1>7 DEF w

\* A client goes on with its turn, on the session it has: r is what becomes of
\* the session, c of what the client holds.
GoesOn(k, r, c) ==
  LET s == client[k].home
  IN  /\ client[k].phase \in {"resolved", "sent"}
      /\ r \in Sessions /\ r.used = sessions[s].used
      /\ r.scope = sessions[s].scope /\ Begins(r.baseline, k)
      /\ sessions' = [sessions EXCEPT ![s] = r]
      /\ UNCHANGED <<store, clock, horizon, sweeps>>
      /\ Written(s) \/ UNCHANGED lock
      /\ c \in Positions /\ client' = [client EXCEPT ![k] = c]
      /\ c.home = s /\ c.phase \in {"idle", "sent"}
      /\ c.history # <<>> => Begins(c.history, k)
      /\ c.phase # "idle" => Begins(c.input, k)

\* Two clients whose words begin one conversation begin every other alike.
LEMMA SameWords ==
  ASSUME NEW b, NEW d, NEW j, NEW k,
         Begins(b, j), Begins(b, k), Begins(d, k)
  PROVE  Begins(d, j)
BY DEF Begins

\* A session of those in ss belongs to a client's conversation.
BelongsIn(ss, o, j) == Begins(ss[o].baseline, j) /\ ss[o].scope = Scope[j]

\* A turn that goes on keeps the invariant.
LEMMA GoesOnStep ==
  ASSUME StoreInv, NEW k \in Clients, NEW r, NEW c, GoesOn(k, r, c)
  PROVE  StoreInv'
<1> DEFINE s == client[k].home
<1>1. /\ s \in DOMAIN sessions /\ Begins(sessions[s].baseline, k)
  BY HomeOf DEF GoesOn
<1>2. StoreTypeOK'
  BY <1>1, SessionWritten DEF GoesOn, StoreInv
<1>3. /\ sessions \in Seq(Sessions)
      /\ client \in [Clients -> Positions]
      /\ lock \in [by : Clients \cup {"nobody"}, matched : SUBSET ToSet(store),
                   moved : BOOLEAN]
      /\ store \in Seq(DOMAIN sessions)
  BY DEF StoreInv, StoreTypeOK
<1>4. /\ DOMAIN sessions' = DOMAIN sessions
      /\ \A o \in DOMAIN sessions : sessions'[o] = IF o = s THEN r ELSE sessions[o]
  BY <1>1, <1>3, SessionChanged DEF GoesOn
<1>5. /\ r.scope = sessions[s].scope /\ Begins(r.baseline, k)
      /\ client' = [client EXCEPT ![k] = c]
      /\ client[k].phase \in {"resolved", "sent"}
      /\ c.home = s /\ c.phase \in {"idle", "sent"}
      /\ c.history # <<>> => Begins(c.history, k)
      /\ c.phase # "idle" => Begins(c.input, k)
  BY DEF GoesOn
<1>6. lock'.by = lock.by /\ lock'.matched = lock.matched
  BY <1>3, WrittenType DEF GoesOn
<1> HIDE DEF s
<1>7. ASSUME NEW o \in DOMAIN sessions, NEW j \in Clients, BelongsIn(sessions, o, j)
      PROVE  BelongsIn(sessions', o, j)
  <2>1. Begins(sessions[o].baseline, j) /\ sessions[o].scope = Scope[j]
    BY <1>7 DEF BelongsIn
  <2>2. CASE o = s
    <3>1. Begins(r.baseline, j)  BY <1>1, <1>5, <2>1, <2>2, SameWords
    <3>2. sessions'[o] = r  BY <1>4, <2>2
    <3>3. QED  BY <1>5, <2>1, <2>2, <3>1, <3>2 DEF BelongsIn
  <2>3. CASE o # s
    <3>1. sessions'[o] = sessions[o]  BY <1>4, <2>3
    <3>2. QED  BY <2>1, <3>1 DEF BelongsIn
  <2>4. QED  BY <2>2, <2>3
<1>8. \A o \in DOMAIN sessions' : \E j \in Clients : Begins(sessions'[o].baseline, j)
  <2> TAKE o \in DOMAIN sessions'
  <2>1. CASE o = s  BY <1>4, <1>5, <2>1
  <2>2. CASE o # s
    <3>1. sessions'[o] = sessions[o]  BY <1>4, <2>2
    <3>2. \E j \in Clients : Begins(sessions[o].baseline, j)
      BY <1>4 DEF StoreInv, OriginInv
    <3>3. QED  BY <3>1, <3>2
  <2>3. QED  BY <2>1, <2>2
<1>9. ASSUME NEW j \in Clients
      PROVE  /\ client'[j].history # <<>> => Begins(client'[j].history, j)
             /\ client'[j].phase # "idle" => Begins(client'[j].input, j)
             /\ client'[j].phase \in {"resolved", "sent"} => client'[j].home # NoSession
             /\ client'[j].home # NoSession => BelongsIn(sessions', client'[j].home, j)
  <2>1. /\ client[j].history # <<>> => Begins(client[j].history, j)
        /\ client[j].phase # "idle" => Begins(client[j].input, j)
        /\ client[j].phase \in {"resolved", "sent"} => client[j].home # NoSession
        /\ client[j].home # NoSession => BelongsIn(sessions, client[j].home, j)
        /\ client[j].home \in DOMAIN sessions \cup {NoSession}
    BY <1>3 DEF StoreInv, OriginInv, Positions, Belongs, BelongsIn
  <2>2. client'[j].home = client[j].home  BY <1>3, <1>5 DEF s
  <2>3. client[j].home # NoSession => BelongsIn(sessions', client[j].home, j)
    BY <1>7, <2>1
  <2>4. client'[j].home # NoSession => BelongsIn(sessions', client'[j].home, j)
    BY <2>2, <2>3
  <2>5. CASE j = k
    <3>1. client'[j] = c  BY <1>3, <1>5, <2>5
    <3>2. client[j].home # NoSession  BY <1>5, <2>1, <2>5
    <3>3. QED  BY <1>5, <2>2, <2>4, <2>5, <3>1, <3>2
  <2>6. CASE j # k
    <3>1. client'[j] = client[j]  BY <1>3, <1>5, <2>6
    <3>2. QED  BY <2>1, <2>4, <3>1
  <2>7. QED  BY <2>5, <2>6
<1>10. ASSUME lock'.by # "nobody"
       PROVE  /\ client'[lock'.by].phase = "resolving"
              /\ \A o \in lock'.matched : BelongsIn(sessions', o, lock'.by)
  <2>1. /\ lock.by \in Clients
        /\ client[lock.by].phase = "resolving"
        /\ \A o \in lock.matched : BelongsIn(sessions, o, lock.by)
    BY <1>3, <1>6, <1>10 DEF StoreInv, OriginInv, Belongs, BelongsIn
  <2>2. client'[lock.by] = client[lock.by]
    <3>1. lock.by # k  BY <1>5, <2>1
    <3>2. QED  BY <1>3, <1>5, <2>1, <3>1
  <2>3. lock.matched \subseteq DOMAIN sessions
    <3>1. DOMAIN store = 1 .. Len(store) /\ \A i \in 1 .. Len(store) : store[i] \in DOMAIN sessions
      BY <1>3, LenProperties, ElementOfSeq
    <3>2. ToSet(store) \subseteq DOMAIN sessions  BY <3>1 DEF ToSet
    <3>3. QED  BY <1>3, <3>2
  <2>4. \A o \in lock.matched : BelongsIn(sessions', o, lock.by)
    BY <1>7, <2>1, <2>3
  <2>5. QED  BY <1>6, <2>1, <2>2, <2>4
<1>11. OriginInv'
  BY <1>8, <1>9, <1>10
     DEF OriginInv, Belongs, Begins, ItemOf, NoSession, BelongsIn
<1>12. QED  BY <1>2, <1>11 DEF StoreInv

\* What begins with a client's words begins with something said to be heard.
LEMMA Opened ==
  ASSUME NEW x, NEW k, Begins(x, k)
  PROVE  /\ x # <<>> /\ ~ServerOnly(x[1])
         /\ x[1] = ItemOf("message", Opener[k], 0, "asked")
BY DEF Begins, ItemOf, ServerOnly

\* A request is sent on the session it was matched to.
LEMMA ClaimGoesOn ==
  ASSUME StoreInv, NEW k \in Clients, Claim(k)
  PROVE  \E r, c : GoesOn(k, r, c)
<1> DEFINE s == client[k].home
           i == FullInput(sessions[s].baseline, client[k].input)
           c == [client[k] EXCEPT !.phase = "sent", !.input = i]
           q == [sessions[s] EXCEPT !.baseline = i, !.by = k]
           r == IF sessions[s].confirmed THEN sessions[s] ELSE q
<1>1. client[k].phase = "resolved"  BY DEF Claim
<1>2. /\ s \in DOMAIN sessions /\ Begins(sessions[s].baseline, k)
      /\ sessions[s] \in Sessions
      /\ client[k].history \in Seq(Items)
  BY <1>1, HomeOf
<1>3. i \in Seq(Items) /\ Begins(i, k)  BY <1>1, ClaimInput
<1>4. /\ client[k] \in Positions /\ client \in [Clients -> Positions]
      /\ sessions \in Seq(Sessions)
  BY DEF StoreInv, StoreTypeOK
<1>5. /\ client' = [client EXCEPT ![k].phase = "sent", ![k].input = i]
      /\ IF sessions[s].confirmed THEN UNCHANGED <<sessions, lock>>
         ELSE /\ sessions' = [sessions EXCEPT ![s].baseline = i, ![s].by = k]
              /\ Written(s)
      /\ UNCHANGED <<store, clock, horizon, sweeps>>
  BY DEF Claim
<1>6. client[k].history # <<>> => Begins(client[k].history, k)
  BY DEF StoreInv, OriginInv
<1> HIDE DEF i
<1>7. /\ q \in Sessions /\ q.used = sessions[s].used
      /\ q.scope = sessions[s].scope /\ q.baseline = i
  BY <1>2, <1>3 DEF Sessions
<1>8. /\ r \in Sessions /\ r.used = sessions[s].used
      /\ r.scope = sessions[s].scope /\ Begins(r.baseline, k)
  <2> HIDE DEF q
  <2>1. CASE sessions[s].confirmed  BY <1>2, <2>1
  <2>2. CASE ~sessions[s].confirmed  BY <1>3, <1>7, <2>2
  <2>3. QED  BY <2>1, <2>2
<1>9. /\ sessions' = [sessions EXCEPT ![s] = r]
      /\ Written(s) \/ UNCHANGED lock
  <2>1. CASE sessions[s].confirmed
    <3>1. r = sessions[s] /\ sessions' = sessions /\ UNCHANGED lock  BY <1>5, <2>1
    <3>2. sessions = [sessions EXCEPT ![s] = sessions[s]]
      BY <1>2, <1>4, LenProperties
    <3>3. QED  BY <3>1, <3>2
  <2>2. CASE ~sessions[s].confirmed
    <3>1. r = q  BY <2>2
    <3>2. sessions' = [sessions EXCEPT ![s] = q] /\ Written(s)
      BY <1>2, <1>4, <1>5, <2>2, LenProperties
    <3>3. QED  BY <3>1, <3>2
  <2>3. QED  BY <2>1, <2>2
<1>10. /\ c \in Positions /\ client' = [client EXCEPT ![k] = c]
       /\ c.home = s /\ c.phase = "sent" /\ c.history = client[k].history /\ c.input = i
  BY <1>3, <1>4, <1>5 DEF Positions
<1> HIDE DEF r, c, q
<1>11. GoesOn(k, r, c)
  BY <1>1, <1>3, <1>5, <1>6, <1>8, <1>9, <1>10 DEF GoesOn
<1>12. QED  BY <1>11

\* A turn is answered, and the session is what was sent and the answer.
LEMMA AnswerGoesOn ==
  ASSUME StoreInv, NEW k \in Clients, Answer(k)
  PROVE  \E r, c : GoesOn(k, r, c)
<1> DEFINE s == client[k].home
           at(kind) == <<ItemOf(kind, k, Len(client[k].history), "answered")>>
           a(thought) == (IF thought THEN at("reasoning") ELSE <<>>) \o at("message")
<1>1. client[k].phase = "sent"  BY DEF Answer
<1>2. PICK thought \in BOOLEAN :
        LET whole == client[k].input
                       \o (IF thought THEN at("reasoning") ELSE <<>>) \o at("message")
        IN  /\ sessions' = [sessions EXCEPT ![s].baseline = whole,
                                            ![s].confirmed = TRUE, ![s].by = k]
            /\ client' = [client EXCEPT ![k].phase = "idle", ![k].input = <<>>,
                                        ![k].history = Replayable(whole)]
  BY DEF Answer
<1> DEFINE half == IF thought THEN at("reasoning") ELSE <<>>
           begun == client[k].input \o half
           w == begun \o at("message")
           h == Replayable(w)
           c == [client[k] EXCEPT !.phase = "idle", !.input = <<>>, !.history = h]
           r == [sessions[s] EXCEPT !.baseline = w, !.confirmed = TRUE, !.by = k]
<1>3. /\ s \in DOMAIN sessions /\ sessions[s] \in Sessions
      /\ client[k].input \in Seq(Items) /\ Begins(client[k].input, k)
      /\ client[k].history \in Seq(Items)
  BY <1>1, HomeOf
<1>4. /\ client[k] \in Positions /\ client \in [Clients -> Positions]
      /\ sessions \in Seq(Sessions)
  BY DEF StoreInv, StoreTypeOK
<1>5. at("message") \in Seq(Items) /\ half \in Seq(Items)
  <2>1. Len(client[k].history) \in Nat  BY <1>3, LenProperties
  <2>2. /\ ItemOf("message", k, Len(client[k].history), "answered") \in Items
        /\ ItemOf("reasoning", k, Len(client[k].history), "answered") \in Items
    BY <2>1 DEF ItemOf, Items
  <2>3. at("message") \in Seq(Items) /\ at("reasoning") \in Seq(Items)
    BY <2>2
  <2> HIDE DEF at
  <2>4. << >> \in Seq(Items)  BY EmptySeq
  <2>5. QED  BY <2>3, <2>4
<1>6. /\ sessions' = [sessions EXCEPT ![s].baseline = w, ![s].confirmed = TRUE, ![s].by = k]
      /\ client' = [client EXCEPT ![k].phase = "idle", ![k].input = <<>>, ![k].history = h]
  BY <1>2
<1> HIDE DEF half, at
<1>7. /\ client[k].input # <<>> /\ ~ServerOnly(client[k].input[1])
      /\ client[k].input[1] = ItemOf("message", Opener[k], 0, "asked")
  BY <1>3, Opened
<1>8. /\ begun \in Seq(Items) /\ begun # <<>> /\ begun[1] = client[k].input[1]
  BY <1>3, <1>5, <1>7, AnswerWhole
<1> HIDE DEF begun
<1>9. /\ w \in Seq(Items) /\ Begins(w, k)
      /\ h \in Seq(Items) /\ Begins(h, k)
  <2>1. h = Replayable(w)  OBVIOUS
  <2>2. /\ w \in Seq(Items) /\ w # <<>> /\ w[1] = begun[1]
        /\ Replayable(w) \in Seq(Items) /\ Replayable(w) # <<>>
        /\ Replayable(w)[1] = begun[1]
    BY <1>5, <1>7, <1>8, AnswerWhole
  <2> HIDE DEF w, h
  <2>3. QED  BY <1>7, <1>8, <2>1, <2>2 DEF Begins
<1> HIDE DEF w, h
<1>10. /\ r \in Sessions /\ r.used = sessions[s].used
       /\ r.scope = sessions[s].scope /\ r.baseline = w
  BY <1>3, <1>9 DEF Sessions
<1>11. sessions' = [sessions EXCEPT ![s] = r]
  BY <1>3, <1>4, <1>6, LenProperties
<1>12. << >> \in Seq(Items)  BY EmptySeq
<1>13. /\ c \in Positions /\ client' = [client EXCEPT ![k] = c]
       /\ c.home = s /\ c.phase = "idle" /\ c.history = h
  BY <1>4, <1>6, <1>9, <1>12 DEF Positions
<1>14. Written(s) /\ UNCHANGED <<store, clock, horizon, sweeps>>
  BY DEF Answer
<1> HIDE DEF r, c
<1>15. GoesOn(k, r, c)
  BY <1>1, <1>9, <1>10, <1>11, <1>13, <1>14 DEF GoesOn
<1>16. QED  BY <1>15

\* A turn fails: its session stays, and the client keeps what it had or goes on
\* from what it saw.
LEMMA FailGoesOn ==
  ASSUME StoreInv, NEW k \in Clients, Fail(k)
  PROVE  \E r, c : GoesOn(k, r, c)
<1> DEFINE s == client[k].home
           e == ItemOf("message", k, Len(client[k].history), "cut off")
           u == Replayable(client[k].input)
           told == Append(u, e)
<1>1. client[k].phase = "sent"  BY DEF Fail
<1>2. PICK kept \in {client[k].history, told} :
        client' = [client EXCEPT ![k].phase = "idle", ![k].input = <<>>, ![k].history = kept]
  BY DEF Fail
<1> DEFINE c == [client[k] EXCEPT !.phase = "idle", !.input = <<>>, !.history = kept]
<1>3. /\ s \in DOMAIN sessions /\ sessions[s] \in Sessions
      /\ Begins(sessions[s].baseline, k)
      /\ client[k].input \in Seq(Items) /\ Begins(client[k].input, k)
      /\ client[k].history \in Seq(Items)
  BY <1>1, HomeOf
<1>4. /\ client[k] \in Positions /\ client \in [Clients -> Positions]
      /\ sessions \in Seq(Sessions)
  BY DEF StoreInv, StoreTypeOK
<1>5. e \in Items
  <2>1. Len(client[k].history) \in Nat  BY <1>3, LenProperties
  <2>2. QED  BY <2>1 DEF ItemOf, Items
<1>6. /\ client[k].input # <<>> /\ ~ServerOnly(client[k].input[1])
      /\ client[k].input[1] = ItemOf("message", Opener[k], 0, "asked")
  BY <1>3, Opened
<1>7. u = Replayable(client[k].input)  OBVIOUS
<1>8. /\ u \in Seq(Items) /\ Len(u) >= 1 /\ u[1] = client[k].input[1]
  <2>1. /\ Replayable(client[k].input) \in Seq(Items)
        /\ Len(Replayable(client[k].input)) >= 1
        /\ Replayable(client[k].input)[1] = client[k].input[1]
    <3> HIDE DEF u
    <3>1. QED  BY <1>3, <1>6, HeadShown, ReplayableType
  <2>2. QED  BY <1>7, <2>1
<1> HIDE DEF u, e
<1>9. told \in Seq(Items) /\ Begins(told, k)
  <2>1. /\ told \in Seq(Items) /\ told # <<>>
        /\ \A i \in 1 .. Len(u) : told[i] = u[i]
    BY <1>5, <1>8, AppendProperties
  <2>2. 1 \in 1 .. Len(u)  BY <1>8, LenProperties
  <2> HIDE DEF told
  <2>3. QED  BY <1>6, <1>8, <2>1, <2>2 DEF Begins
<1>10. kept \in Seq(Items) /\ (kept # <<>> => Begins(kept, k))
  <2>1. client[k].history # <<>> => Begins(client[k].history, k)
    BY DEF StoreInv, OriginInv
  <2> HIDE DEF told
  <2>2. CASE kept = told  BY <1>9, <2>2
  <2>3. CASE kept = client[k].history  BY <1>3, <2>1, <2>3
  <2>4. QED  BY <2>2, <2>3
<1>11. << >> \in Seq(Items)  BY EmptySeq
<1> HIDE DEF told
<1>12. /\ c \in Positions /\ client' = [client EXCEPT ![k] = c]
       /\ c.home = s /\ c.phase = "idle" /\ c.history = kept
  BY <1>2, <1>4, <1>10, <1>11 DEF Positions
<1>13. sessions' = [sessions EXCEPT ![s] = sessions[s]]
  <2>1. sessions = [sessions EXCEPT ![s] = sessions[s]]
    BY <1>3, <1>4, LenProperties
  <2>2. sessions' = sessions  BY DEF Fail
  <2>3. QED  BY <2>1, <2>2
<1>14. UNCHANGED <<store, clock, horizon, lock, sweeps>>  BY DEF Fail
<1> HIDE DEF c
<1>15. GoesOn(k, sessions[s], c)
  BY <1>1, <1>3, <1>10, <1>12, <1>13, <1>14 DEF GoesOn
<1>16. QED  BY <1>15

\* The first request of a client is its opening words, and so begins every other.
LEMMA RequestBegins ==
  ASSUME StoreInv, NEW k \in Clients
  PROVE  Begins(Request(k), k)
<1> DEFINE h == client[k].history
           a == << ItemOf("message", IF h = <<>> THEN Opener[k] ELSE k, Len(h), "asked") >>
<1>1. h \in Seq(Items)  BY DEF StoreInv, StoreTypeOK, Positions
<1>2. Request(k) = h \o a  BY DEF Request
<1>3. CASE h = <<>>
  <2>1. a = << ItemOf("message", Opener[k], 0, "asked") >>  BY <1>3, EmptySeq
  <2>2. h \o a = a  BY <1>3, <2>1
  <2> HIDE DEF a, h
  <2>3. a # <<>> /\ a[1] = ItemOf("message", Opener[k], 0, "asked")  BY <2>1
  <2>4. QED  BY <1>2, <2>2, <2>3 DEF Begins
<1>4. CASE h # <<>>
  <2>1. Begins(h, k)  BY <1>4 DEF StoreInv, OriginInv
  <2>2. a \in Seq(Items)
    <3>1. Len(h) \in Nat  BY <1>1, LenProperties
    <3>2. ItemOf("message", IF h = <<>> THEN Opener[k] ELSE k, Len(h), "asked") \in Items
      BY <3>1 DEF ItemOf, Items
    <3>3. QED  BY <3>2
  <2> HIDE DEF a, h
  <2>3. h # <<>> /\ ~ServerOnly(h[1]) /\ h[1] = ItemOf("message", Opener[k], 0, "asked")
    BY <2>1, Opened
  <2>4. h \o a # <<>> /\ (h \o a)[1] = h[1]
    BY <1>1, <2>2, <2>3, AnswerWhole
  <2>5. QED  BY <1>2, <2>3, <2>4 DEF Begins
<1>5. QED  BY <1>3, <1>4

\* A session that a request continues began with the words of the one who asks.
LEMMA MatchedBelongs ==
  ASSUME StoreInv, NEW k \in Clients, NEW s \in DOMAIN sessions,
         sessions[s].scope = Scope[k],
         Reconciles(sessions[s].baseline, Request(k))
  PROVE  BelongsIn(sessions, s, k)
<1> DEFINE b == sessions[s].baseline
           c == Request(k)
<1>1. b \in Seq(Items)
  <2>1. sessions \in Seq(Sessions)  BY DEF StoreInv, StoreTypeOK
  <2>2. sessions[s] \in Sessions  BY <2>1, LenProperties, ElementOfSeq
  <2>3. QED  BY <2>2 DEF Sessions
<1>2. c \in Seq(Items) /\ Begins(c, k)
  BY RequestType, RequestBegins DEF StoreInv
<1>3. PICK j \in Clients : Begins(b, j)  BY DEF StoreInv, OriginInv
<1>4. Reconciles(b, c)  OBVIOUS
<1> HIDE DEF b, c
<1>5. b # <<>> /\ ~ServerOnly(b[1])  BY <1>3, Opened
<1>6. c[1] = b[1]  BY <1>1, <1>2, <1>4, <1>5, HeadMatched
<1>7. Begins(b, k)  BY <1>2, <1>5, <1>6 DEF Begins
<1>8. QED  BY <1>7 DEF BelongsIn, b

\* What the store holds was made.
LEMMA HeldWasMade ==
  ASSUME StoreTypeOK
  PROVE  ToSet(store) \subseteq DOMAIN sessions
<1>1. store \in Seq(DOMAIN sessions)  BY DEF StoreTypeOK
<1>2. DOMAIN store = 1 .. Len(store) /\ \A i \in 1 .. Len(store) : store[i] \in DOMAIN sessions
  BY <1>1, LenProperties, ElementOfSeq
<1>3. QED  BY <1>2 DEF ToSet

\* The sessions a request is matched to begin with its client's words.
LEMMA FilterOrigin ==
  ASSUME StoreInv, NEW k \in Clients, Filter(k)
  PROVE  OriginInv'
<1> DEFINE c == Request(k)
           M == {s \in ToSet(Recent) :
                   /\ sessions[s].scope = Scope[k]
                   /\ Reconciles(sessions[s].baseline, Request(k))}
<1>1. /\ lock' = [by |-> k, moved |-> FALSE, matched |-> M]
      /\ client' = [client EXCEPT ![k].phase = "resolving", ![k].input = c]
      /\ UNCHANGED sessions
  BY DEF Filter
<1>2. client \in [Clients -> Positions]  BY DEF StoreInv, StoreTypeOK
<1>3. Begins(c, k)  BY RequestBegins
<1>4. \A s \in M : BelongsIn(sessions, s, k)
  <2> TAKE s \in M
  <2>1. s \in DOMAIN sessions
    <3> DEFINE I == {i \in DOMAIN store : sessions[store[i]].used > horizon}
    <3>1. Recent = Picked(store, I)  BY DEF Recent
    <3>2. ToSet(Recent) = {store[i] : i \in I}
      <4>1. I \in SUBSET (DOMAIN store)  OBVIOUS
      <4> HIDE DEF I
      <4>2. QED  BY <3>1, <4>1, KeptOfStore DEF StoreInv
    <3>3. ToSet(Recent) \subseteq ToSet(store)
      BY <3>2 DEF ToSet
    <3>4. QED  BY <3>3, HeldWasMade DEF StoreInv
  <2>2. QED  BY <2>1, MatchedBelongs
<1> HIDE DEF c, M
<1>5. ASSUME NEW j \in Clients
      PROVE  /\ client'[j].history # <<>> => Begins(client'[j].history, j)
             /\ client'[j].phase # "idle" => Begins(client'[j].input, j)
             /\ client'[j].phase \in {"resolved", "sent"} => client'[j].home # NoSession
             /\ client'[j].home # NoSession => BelongsIn(sessions', client'[j].home, j)
  <2>1. /\ client[j].history # <<>> => Begins(client[j].history, j)
        /\ client[j].phase # "idle" => Begins(client[j].input, j)
        /\ client[j].phase \in {"resolved", "sent"} => client[j].home # NoSession
        /\ client[j].home # NoSession => BelongsIn(sessions, client[j].home, j)
    BY DEF StoreInv, OriginInv, Belongs, BelongsIn
  <2>2. CASE j = k
    <3>1. /\ client'[j].history = client[j].history /\ client'[j].home = client[j].home
          /\ client'[j].phase = "resolving" /\ client'[j].input = c
      BY <1>1, <1>2, <2>2 DEF Positions
    <3>2. QED  BY <1>1, <1>3, <2>1, <2>2, <3>1
  <2>3. CASE j # k
    <3>1. client'[j] = client[j]  BY <1>1, <1>2, <2>3
    <3>2. QED  BY <1>1, <2>1, <3>1
  <2>4. QED  BY <2>2, <2>3
<1>6. \A o \in DOMAIN sessions' : \E j \in Clients : Begins(sessions'[o].baseline, j)
  BY <1>1 DEF StoreInv, OriginInv
<1>7. /\ client'[lock'.by].phase = "resolving"
      /\ \A o \in lock'.matched : BelongsIn(sessions', o, lock'.by)
  <2>1. lock'.by = k /\ lock'.matched = M  BY <1>1
  <2>2. client'[k].phase = "resolving"  BY <1>1, <1>2 DEF Positions
  <2>3. QED  BY <1>1, <1>4, <2>1, <2>2
<1>8. QED
  BY <1>5, <1>6, <1>7
     DEF OriginInv, Belongs, Begins, ItemOf, NoSession, BelongsIn

\* The store lets go of a request, with the session s that is the request's.
LEMMA SettledOrigin ==
  ASSUME StoreInv, NEW k \in Clients, NEW s \in DOMAIN sessions',
         s # NoSession, BelongsIn(sessions', s, k), lock' = Nobody,
         client' = [client EXCEPT ![k].phase = "resolved", ![k].home = s],
         client[k].phase = "resolving", DOMAIN sessions \subseteq DOMAIN sessions',
         \A o \in DOMAIN sessions : /\ sessions'[o].baseline = sessions[o].baseline
                                    /\ sessions'[o].scope = sessions[o].scope,
         \A o \in DOMAIN sessions' : o = s \/ o \in DOMAIN sessions
  PROVE  OriginInv'
<1>1. client \in [Clients -> Positions]  BY DEF StoreInv, StoreTypeOK
<1>2. ASSUME NEW j \in Clients
      PROVE  /\ client'[j].history # <<>> => Begins(client'[j].history, j)
             /\ client'[j].phase # "idle" => Begins(client'[j].input, j)
             /\ client'[j].phase \in {"resolved", "sent"} => client'[j].home # NoSession
             /\ client'[j].home # NoSession => BelongsIn(sessions', client'[j].home, j)
  <2>1. /\ client[j].history # <<>> => Begins(client[j].history, j)
        /\ client[j].phase # "idle" => Begins(client[j].input, j)
        /\ client[j].phase \in {"resolved", "sent"} => client[j].home # NoSession
        /\ client[j].home # NoSession => BelongsIn(sessions, client[j].home, j)
    BY DEF StoreInv, OriginInv, Belongs, BelongsIn
  <2>2. CASE j = k
    <3>1. /\ client'[j].history = client[j].history /\ client'[j].home = s
          /\ client'[j].phase = "resolved" /\ client'[j].input = client[j].input
      BY <1>1, <2>2 DEF Positions
    <3>2. QED  BY <2>1, <2>2, <3>1
  <2>3. CASE j # k
    <3>1. client'[j] = client[j]  BY <1>1, <2>3
    <3>2. client[j].home \in DOMAIN sessions \cup {NoSession}
      BY <1>1 DEF Positions
    <3>3. client[j].home # NoSession => BelongsIn(sessions', client[j].home, j)
      BY <2>1, <3>2 DEF BelongsIn
    <3>4. QED  BY <2>1, <3>1, <3>3
  <2>4. QED  BY <2>2, <2>3
<1>3. \A o \in DOMAIN sessions' : \E j \in Clients : Begins(sessions'[o].baseline, j)
  <2> TAKE o \in DOMAIN sessions'
  <2>1. CASE o = s  BY <2>1 DEF BelongsIn
  <2>2. CASE o \in DOMAIN sessions
    <3>1. \E j \in Clients : Begins(sessions[o].baseline, j)
      BY <2>2 DEF StoreInv, OriginInv
    <3>2. QED  BY <2>2, <3>1
  <2>3. QED  BY <2>1, <2>2
<1>4. lock'.by = "nobody"  BY DEF Nobody
<1>5. QED
  BY <1>2, <1>3, <1>4
     DEF OriginInv, Belongs, Begins, ItemOf, NoSession, BelongsIn

\* The client whose request holds the store is one that asks.
LEMMA HoldsStore ==
  ASSUME StoreInv, NEW k \in Clients, lock.by = k
  PROVE  /\ client[k].phase = "resolving"
         /\ \A s \in lock.matched : BelongsIn(sessions, s, k)
         /\ Begins(client[k].input, k)
<1>1. lock.by # "nobody"  BY NobodyAssumption
<1>2. /\ client[lock.by].phase = "resolving"
      /\ \A s \in lock.matched : BelongsIn(sessions, s, lock.by)
  BY <1>1 DEF StoreInv, OriginInv, Belongs, BelongsIn
<1>3. client[k].phase # "idle" => Begins(client[k].input, k)
  BY DEF StoreInv, OriginInv
<1>4. QED  BY <1>2, <1>3

\* So does the session it is given,
LEMMA JoinOrigin ==
  ASSUME StoreInv, NEW k \in Clients, Reuse(k)
  PROVE  OriginInv'
<1> DEFINE s == Longest(lock.matched)
<1>1. /\ lock.by = k /\ lock.matched # {}
      /\ sessions' = [sessions EXCEPT ![s].used = clock + 1]
      /\ client' = [client EXCEPT ![k].phase = "resolved", ![k].home = s]
      /\ lock' = Nobody
  BY DEF Reuse, Use
<1>2. s \in lock.matched  BY <1>1, LongestMatched DEF StoreInv
<1>3. client[k].phase = "resolving" /\ BelongsIn(sessions, s, k)
  BY <1>1, <1>2, HoldsStore
<1>4. s \in DOMAIN sessions
  <2>1. lock.matched \subseteq ToSet(store)  BY DEF StoreInv, StoreTypeOK
  <2>2. QED  BY <1>2, <2>1, HeldWasMade DEF StoreInv
<1>5. sessions \in Seq(Sessions)  BY DEF StoreInv, StoreTypeOK
<1>6. /\ DOMAIN sessions = 1 .. Len(sessions)
      /\ \A o \in DOMAIN sessions : sessions[o] \in Sessions
  BY <1>5, LenProperties, ElementOfSeq
<1> HIDE DEF s
<1>7. /\ DOMAIN sessions' = DOMAIN sessions
      /\ \A o \in DOMAIN sessions : /\ sessions'[o].baseline = sessions[o].baseline
                                    /\ sessions'[o].scope = sessions[o].scope
  BY <1>1, <1>5, <1>6 DEF Sessions
<1>8. s # NoSession  BY <1>4, <1>6 DEF NoSession
<1>9. BelongsIn(sessions', s, k)  BY <1>3, <1>4, <1>7 DEF BelongsIn
<1>10. QED  BY <1>1, <1>3, <1>4, <1>7, <1>8, <1>9, SettledOrigin

\* and the one made for it.
LEMMA CreateOrigin ==
  ASSUME StoreInv, NEW k \in Clients, Create(k)
  PROVE  OriginInv'
<1> DEFINE s == Len(sessions) + 1
           r == [baseline |-> client[k].input, confirmed |-> FALSE,
                 scope |-> Scope[k], used |-> clock + 1, by |-> k]
<1>1. /\ lock.by = k
      /\ sessions' = Append(sessions, r)
      /\ client' = [client EXCEPT ![k].phase = "resolved", ![k].home = s]
      /\ lock' = Nobody
  BY DEF Create, Use
<1>2. client[k].phase = "resolving" /\ Begins(client[k].input, k)
  BY <1>1, HoldsStore
<1>3. sessions \in Seq(Sessions) /\ client[k] \in Positions /\ clock \in Nat
  BY DEF StoreInv, StoreTypeOK
<1>4. r \in Sessions
  <2>1. client[k].input \in Seq(Items) /\ clock + 1 \in Nat
    BY <1>3 DEF Positions
  <2>2. QED  BY ONLY <2>1, k \in Clients DEF Sessions
<1>5. r.baseline = client[k].input /\ r.scope = Scope[k]  OBVIOUS
<1> HIDE DEF r
<1>6. /\ sessions' \in Seq(Sessions) /\ Len(sessions') = Len(sessions) + 1
      /\ \A o \in 1 .. Len(sessions) : sessions'[o] = sessions[o]
      /\ sessions'[Len(sessions) + 1] = r
  BY <1>1, <1>3, <1>4, AppendProperties
<1>7. /\ Len(sessions) \in Nat /\ DOMAIN sessions = 1 .. Len(sessions)
      /\ DOMAIN sessions' = 1 .. Len(sessions')
  BY <1>3, <1>6, LenProperties
<1>8. /\ s \in DOMAIN sessions' /\ s # NoSession
      /\ DOMAIN sessions \subseteq DOMAIN sessions'
      /\ \A o \in DOMAIN sessions' : o = s \/ o \in DOMAIN sessions
  BY <1>6, <1>7 DEF NoSession
<1>9. /\ sessions'[s] = r
      /\ \A o \in DOMAIN sessions : /\ sessions'[o].baseline = sessions[o].baseline
                                    /\ sessions'[o].scope = sessions[o].scope
  BY <1>6, <1>7
<1> HIDE DEF s
<1>10. BelongsIn(sessions', s, k)  BY <1>2, <1>5, <1>9 DEF BelongsIn
<1>11. QED  BY <1>1, <1>2, <1>8, <1>9, <1>10, SettledOrigin

\* Time passes, or everything is forgotten: no conversation changes.
LEMMA SweepInv ==
  ASSUME StoreInv, Hour \/ Clear
  PROVE  StoreInv'
<1>1. UNCHANGED <<sessions, lock, client, clock>> /\ lock = Nobody
  BY DEF Hour, Clear
<1>2. OriginInv'
  BY <1>1
     DEF StoreInv, OriginInv, Belongs, Begins, ItemOf, NoSession
<1>3. sweeps' \in 0 .. MaxSweeps
  BY BoundsAssumption DEF StoreInv, StoreTypeOK, Hour, Clear
<1>4. CASE Hour
  <2>1. clock \in Nat /\ horizon \in 0 .. clock  BY DEF StoreInv, StoreTypeOK
  <2>2. PICK t \in (horizon + 1) .. clock : horizon' = t  BY <1>4 DEF Hour
  <2>3. horizon' \in 0 .. clock'  BY <1>1, <2>1, <2>2
  <2>4. UNCHANGED store  BY <1>4 DEF Hour
  <2>5. StoreTypeOK'
    BY <1>1, <1>3, <2>3, <2>4
       DEF StoreInv, StoreTypeOK, Positions, ToSet, IsInjective
  <2>6. QED  BY <1>2, <2>5 DEF StoreInv
<1>5. CASE Clear
  <2>1. store' = <<>> /\ UNCHANGED horizon  BY <1>5 DEF Clear
  <2>2. /\ store' \in Seq(DOMAIN sessions) /\ IsInjective(store') /\ Len(store') = 0
    BY <2>1, EmptySeq DEF IsInjective
  <2>3. Len(store') <= Capacity  BY <2>2, CapacityAssumption
  <2>4. lock' \in [by : Clients \cup {"nobody"}, matched : SUBSET ToSet(store)',
                   moved : BOOLEAN]
    BY <1>1 DEF Nobody
  <2>5. StoreTypeOK'
    BY <1>1, <1>3, <2>1, <2>2, <2>3, <2>4
       DEF StoreInv, StoreTypeOK, Positions, IsInjective
  <2>6. QED  BY <1>2, <2>5 DEF StoreInv
<1>6. QED  BY <1>4, <1>5

\* A step of the store keeps its invariant, which holds at first.
LEMMA StoreStep == StoreInv /\ [NextStore]_storeVars => StoreInv'
<1> SUFFICES ASSUME StoreInv, [NextStore]_storeVars
             PROVE  StoreInv'
  OBVIOUS
<1>1. ASSUME NEW k \in Clients, Filter(k)
      PROVE  StoreInv'
  BY <1>1, StoreFilterType, FilterOrigin DEF StoreInv
<1>2. ASSUME NEW k \in Clients, Reuse(k)
      PROVE  StoreInv'
  BY <1>2, StoreJoinType, JoinOrigin DEF StoreInv
<1>3. ASSUME NEW k \in Clients, Create(k)
      PROVE  StoreInv'
  BY <1>3, StoreCreateType, CreateOrigin DEF StoreInv
<1>4. ASSUME NEW k \in Clients, Claim(k)
      PROVE  StoreInv'
  BY <1>4, ClaimGoesOn, GoesOnStep
<1>5. ASSUME NEW k \in Clients, Answer(k)
      PROVE  StoreInv'
  BY <1>5, AnswerGoesOn, GoesOnStep
<1>6. ASSUME NEW k \in Clients, Fail(k)
      PROVE  StoreInv'
  BY <1>6, FailGoesOn, GoesOnStep
<1>7. CASE Hour \/ Clear  BY <1>7, SweepInv
<1>8. CASE UNCHANGED storeVars
  <2>1. UNCHANGED <<store, sessions, clock, horizon, lock, client, sweeps>>
    BY <1>8 DEF storeVars
  <2>2. StoreTypeOK'
    BY <2>1 DEF StoreInv, StoreTypeOK, Positions, ToSet, IsInjective
  <2>3. OriginInv'
    BY <2>1
       DEF StoreInv, OriginInv, Belongs, Begins, ItemOf, NoSession
  <2>4. QED  BY <2>2, <2>3 DEF StoreInv
<1>9. QED  BY <1>1, <1>2, <1>3, <1>4, <1>5, <1>6, <1>7, <1>8 DEF NextStore

\* The invariant holds at first.
LEMMA StoreInit == InitStore => StoreInv
<1> SUFFICES ASSUME InitStore
             PROVE  StoreInv
  OBVIOUS
<1>1. StoreTypeOK  BY StoreInitType
<1>2. OriginInv
  BY DEF InitStore, OriginInv, NoSession, Nobody
<1>3. QED  BY <1>1, <1>2 DEF StoreInv

\* The store's invariant holds throughout.
LEMMA StoreKeeps == StoreSpec => []StoreInv
<1>1. InitStore => StoreInv  BY StoreInit
<1>2. StoreInv /\ [NextStore]_storeVars => StoreInv'  BY StoreStep
<1>3. QED  BY <1>1, <1>2, PTL DEF StoreSpec

\* The store's types: what it holds are sessions made, none of them twice, no more
\* than its capacity, and none used later than the last resolve (session.rs,
\* SessionStore).
THEOREM StoreType == StoreSpec => []StoreTypeOK
<1>1. StoreInv => StoreTypeOK  BY DEF StoreInv
<1>2. QED  BY <1>1, StoreKeeps, PTL

\* No two conversations share a session, however many clients ask, in whatever
\* order their turns overlap, fail and are matched, and whatever the store forgets
\* in between (SessionStore!NeverJoined: session.rs, resolve and best_match).
THEOREM ConversationsApart == StoreSpec => []NeverJoined
<1>1. StoreInv => NeverJoined
  <2> SUFFICES ASSUME StoreInv, NEW j \in Clients, NEW k \in Clients,
                      client[j].home = client[k].home, client[k].home # NoSession
               PROVE  Opener[j] = Opener[k] /\ Scope[j] = Scope[k]
    BY DEF NeverJoined
  <2> DEFINE s == client[k].home
  <2>1. BelongsIn(sessions, s, j) /\ BelongsIn(sessions, s, k)
    BY DEF StoreInv, OriginInv, Belongs, BelongsIn
  <2>2. Scope[j] = Scope[k]  BY <2>1 DEF BelongsIn
  <2>3. ItemOf("message", Opener[j], 0, "asked") = ItemOf("message", Opener[k], 0, "asked")
    BY <2>1 DEF BelongsIn, Begins
  <2>4. Opener[j] = Opener[k]  BY <2>3 DEF ItemOf
  <2>5. QED  BY <2>2, <2>4
<1>2. QED  BY <1>1, StoreKeeps, PTL

\* The store s is in order of use: nothing is in front of what was used later.
ByUse(s, ss) == \A i, j \in DOMAIN s : i < j => ss[s[i]].used > ss[s[j]].used

\* What is left of a store in order of use is in order of use.
LEMMA PickedByUse ==
  ASSUME StoreTypeOK, NEW I \in SUBSET (DOMAIN store), ByUse(store, sessions)
  PROVE  ByUse(Picked(store, I), sessions)
<1> DEFINE p == Picked(store, I)
<1>1. store \in Seq(DOMAIN sessions) /\ Len(store) \in Nat /\ DOMAIN store = 1 .. Len(store)
  BY LenProperties DEF StoreTypeOK
<1>2. p \in Seq(DOMAIN sessions) /\ DOMAIN p = 1 .. Len(p)
  BY KeptOfStore, LenProperties
<1>3. p = Picked(store, I)  OBVIOUS
<1>4. PICK at : InOrder(p, store, I, at)  BY <1>1, <1>3, PickedOrder
<1> HIDE DEF p
<1>5. SUFFICES ASSUME NEW i \in 1 .. Len(p), NEW j \in 1 .. Len(p), i < j
               PROVE  sessions[p[i]].used > sessions[p[j]].used
  BY <1>2 DEF ByUse, p
<1>6. /\ at[i] \in DOMAIN store /\ at[j] \in DOMAIN store /\ at[i] < at[j]
      /\ p[i] = store[at[i]] /\ p[j] = store[at[j]]
  BY <1>4, <1>5 DEF InOrder
<1>7. QED  BY <1>6 DEF ByUse

\* The store r is q with s in front, used at n + 1 by uu, as the others were by ss.
UsedNow(q, ss, r, uu, s, n) ==
  /\ Len(q) \in Nat /\ DOMAIN q = 1 .. Len(q)
  /\ Len(r) \in Nat /\ DOMAIN r = 1 .. Len(r)
  /\ r[1] = s /\ uu[s].used = n + 1
  /\ \A i \in 1 .. Len(r) : i # 1 => i - 1 \in 1 .. Len(q) /\ r[i] = q[i - 1]
  /\ \A i \in 1 .. Len(q) : /\ uu[q[i]].used = ss[q[i]].used
                             /\ ss[q[i]].used \in 1 .. n
  /\ ByUse(q, ss)

\* A session just used may stand in front.
LEMMA FrontByUse ==
  ASSUME NEW q, NEW ss, NEW r, NEW uu, NEW s, NEW n \in Nat, UsedNow(q, ss, r, uu, s, n)
  PROVE  ByUse(r, uu)
<1> USE DEF UsedNow
<1> SUFFICES ASSUME NEW i \in 1 .. Len(r), NEW j \in 1 .. Len(r), i < j
             PROVE  uu[r[i]].used > uu[r[j]].used
  BY DEF ByUse
<1>1. j - 1 \in 1 .. Len(q) /\ r[j] = q[j - 1]  OBVIOUS
<1>2. uu[r[j]].used = ss[q[j - 1]].used /\ ss[q[j - 1]].used \in 1 .. n  BY <1>1
<1>3. CASE i = 1  BY <1>2, <1>3
<1>4. CASE i # 1
  <2>1. i - 1 \in 1 .. Len(q) /\ r[i] = q[i - 1] /\ i - 1 < j - 1  BY <1>4
  <2>2. uu[r[i]].used = ss[q[i - 1]].used  BY <2>1
  <2>3. ss[q[i - 1]].used > ss[q[j - 1]].used  BY <1>1, <2>1 DEF ByUse
  <2>4. QED  BY <1>2, <2>2, <2>3
<1>5. QED  BY <1>3, <1>4

\* What the store holds was used, and by now.
LEMMA UsedBefore ==
  ASSUME StoreTypeOK
  PROVE  /\ clock \in Nat /\ Len(store) \in Nat /\ DOMAIN store = 1 .. Len(store)
         /\ \A i \in 1 .. Len(store) : /\ store[i] \in DOMAIN sessions
                                       /\ sessions[store[i]].used \in 1 .. clock
<1>1. store \in Seq(DOMAIN sessions)  BY DEF StoreTypeOK
<1>2. Len(store) \in Nat /\ DOMAIN store = 1 .. Len(store)
  BY <1>1, LenProperties
<1>3. \A i \in 1 .. Len(store) : store[i] \in DOMAIN sessions
  BY <1>1, <1>2, ElementOfSeq
<1>4. QED  BY <1>2, <1>3 DEF StoreTypeOK

\* What goes for having been idle was used before what stays.
LEMMA FilterByUse ==
  ASSUME StoreInv, ByUse(store, sessions), NEW k \in Clients, Filter(k)
  PROVE  ByUse(store', sessions') /\ DropsLeastRecent
<1> DEFINE I == {i \in DOMAIN store : sessions[store[i]].used > horizon}
<1>1. store' = Picked(store, I) /\ sessions' = sessions
  BY DEF Filter, Recent
<1>2. I \in SUBSET (DOMAIN store)  OBVIOUS
<1>3. /\ clock \in Nat /\ horizon \in Nat /\ DOMAIN store = 1 .. Len(store)
      /\ \A i \in 1 .. Len(store) : sessions[store[i]].used \in 1 .. clock
  BY UsedBefore DEF StoreInv, StoreTypeOK
<1>4. \A i \in DOMAIN store : i \in I <=> sessions[store[i]].used > horizon  OBVIOUS
<1> HIDE DEF I
<1>5. ByUse(store', sessions')
  BY <1>1, <1>2, PickedByUse DEF StoreInv
<1>6. ToSet(store') = {store[i] : i \in I}
  BY <1>1, <1>2, KeptOfStore DEF StoreInv
<1>7. ASSUME NEW d \in ToSet(store) \ ToSet(store'), NEW e \in ToSet(store')
      PROVE  sessions[d].used < sessions'[e].used
  <2>1. PICK i \in DOMAIN store : store[i] = d  BY DEF ToSet
  <2>2. PICK j \in I : store[j] = e  BY <1>6
  <2>3. i \notin I  BY <1>6, <2>1
  <2>4. ~(sessions[d].used > horizon) /\ sessions[e].used > horizon
    BY <1>2, <1>4, <2>1, <2>2, <2>3
  <2>5. sessions[d].used \in Nat /\ sessions[e].used \in Nat
    BY <1>2, <1>3, <2>1, <2>2
  <2>6. QED  BY <1>1, <1>3, <2>4, <2>5
<1>8. DropsLeastRecent
  <2>1. ToSet(store)' = ToSet(store')  BY DEF ToSet
  <2>2. QED  BY <1>7, <2>1 DEF DropsLeastRecent
<1>9. QED  BY <1>5, <1>8

\* Joining a session drops none.
LEMMA JoinByUse ==
  ASSUME StoreInv, ByUse(store, sessions), NEW k \in Clients, Reuse(k)
  PROVE  ByUse(store', sessions') /\ DropsLeastRecent
<1> DEFINE s == Longest(lock.matched)
           I == {i \in DOMAIN store : store[i] # s}
           p == Picked(store, I)
<1>1. /\ store' = <<s>> \o p
      /\ sessions' = [sessions EXCEPT ![s].used = clock + 1]
      /\ lock.matched # {}
  BY DEF Reuse
<1>2. s \in ToSet(store) /\ s \in DOMAIN sessions
  <2>1. s \in lock.matched  BY <1>1, LongestMatched DEF StoreInv
  <2>2. lock.matched \subseteq ToSet(store)  BY DEF StoreInv, StoreTypeOK
  <2>3. QED  BY <2>1, <2>2, HeldWasMade DEF StoreInv
<1>3. I \in SUBSET (DOMAIN store)  OBVIOUS
<1>4. /\ clock \in Nat /\ DOMAIN store = 1 .. Len(store)
      /\ \A i \in 1 .. Len(store) : /\ store[i] \in DOMAIN sessions
                                    /\ sessions[store[i]].used \in 1 .. clock
  BY UsedBefore DEF StoreInv
<1>5. \A i \in DOMAIN store : i \in I <=> store[i] # s  OBVIOUS
<1> HIDE DEF I
<1>6. /\ p \in Seq(DOMAIN sessions) /\ Len(p) \in Nat
      /\ ToSet(p) = {store[i] : i \in I}
      /\ ByUse(p, sessions)
  BY <1>3, KeptOfStore, PickedByUse DEF StoreInv
<1>7. DOMAIN p = 1 .. Len(p) /\ \A i \in 1 .. Len(p) : p[i] \in ToSet(p)
  BY <1>6, LenProperties DEF ToSet
<1>8. \A i \in 1 .. Len(p) : /\ p[i] # s /\ p[i] \in DOMAIN sessions
                             /\ sessions[p[i]].used \in 1 .. clock
  BY <1>3, <1>4, <1>5, <1>6, <1>7
<1> HIDE DEF p, s
<1>9. sessions \in Seq(Sessions) /\ sessions[s] \in Sessions
  <2>1. sessions \in Seq(Sessions)  BY DEF StoreInv, StoreTypeOK
  <2>2. QED  BY <1>2, <2>1, LenProperties, ElementOfSeq
<1>10. /\ sessions'[s].used = clock + 1
       /\ \A o \in DOMAIN sessions : o # s => sessions'[o] = sessions[o]
  BY <1>1, <1>2, <1>9, LenProperties DEF Sessions
<1>11. /\ store' \in Seq(DOMAIN sessions) /\ Len(store') = Len(p) + 1
       /\ store'[1] = s /\ \A i \in 1 .. Len(p) : store'[i + 1] = p[i]
  BY <1>1, <1>2, <1>6
<1>12. Len(store') \in Nat /\ DOMAIN store' = 1 .. Len(store')
  BY <1>11, LenProperties
<1>13. \A i \in 1 .. Len(store') : i # 1 => i - 1 \in 1 .. Len(p) /\ store'[i] = p[i - 1]
  <2> TAKE i \in 1 .. Len(store')
  <2> HAVE i # 1
  <2>1. i - 1 \in 1 .. Len(p) /\ (i - 1) + 1 = i  BY <1>6, <1>11
  <2>2. QED  BY <1>11, <2>1
<1>14. ByUse(store', sessions')
  <2>1. \A i \in 1 .. Len(p) : /\ p[i] # s
                               /\ sessions'[p[i]].used = sessions[p[i]].used
                               /\ sessions[p[i]].used \in 1 .. clock
    BY <1>8, <1>10
  <2>2. UsedNow(p, sessions, store', sessions', s, clock)
    BY <1>6, <1>7, <1>10, <1>11, <1>12, <1>13, <2>1 DEF UsedNow
  <2>3. QED  BY <1>4, <2>2, FrontByUse
<1>15. ToSet(store) \subseteq ToSet(store')
  <2> SUFFICES ASSUME NEW i \in DOMAIN store
               PROVE  \E j \in DOMAIN store' : store'[j] = store[i]
    BY DEF ToSet
  <2>1. CASE store[i] = s
    <3>1. 1 \in DOMAIN store'  BY <1>6, <1>11, <1>12
    <3>2. QED  BY <1>11, <2>1, <3>1
  <2>2. CASE store[i] # s
    <3>1. store[i] \in ToSet(p)  BY <1>5, <1>6, <2>2
    <3>2. PICK j \in 1 .. Len(p) : p[j] = store[i]  BY <1>7, <3>1 DEF ToSet
    <3>3. j + 1 \in 1 .. Len(store')  BY <1>6, <1>11
    <3>4. QED  BY <1>11, <1>12, <3>2, <3>3
  <2>3. QED  BY <2>1, <2>2
<1>16. DropsLeastRecent
  <2>1. ToSet(store)' = ToSet(store')  BY DEF ToSet
  <2>2. QED  BY <1>15, <2>1 DEF DropsLeastRecent
<1>17. QED  BY <1>14, <1>16

\* What goes to make room was used before what stays.
LEMMA CreateByUse ==
  ASSUME StoreInv, ByUse(store, sessions), NEW k \in Clients, Create(k)
  PROVE  ByUse(store', sessions') /\ DropsLeastRecent
<1> DEFINE s == Len(sessions) + 1
           r == [baseline |-> client[k].input, confirmed |-> FALSE,
                 scope |-> Scope[k], used |-> clock + 1, by |-> k]
<1>1. /\ sessions' = Append(sessions, r)
      /\ store' = InFront(s, store, Capacity)
  BY DEF Create, InFront
<1>2. /\ clock \in Nat /\ Len(store) \in Nat /\ DOMAIN store = 1 .. Len(store)
      /\ \A i \in 1 .. Len(store) : /\ store[i] \in DOMAIN sessions
                                    /\ sessions[store[i]].used \in 1 .. clock
  BY UsedBefore DEF StoreInv
<1>3. /\ sessions \in Seq(Sessions) /\ client[k] \in Positions
      /\ store \in Seq(DOMAIN sessions)
  BY DEF StoreInv, StoreTypeOK
<1>4. Len(sessions) \in Nat /\ DOMAIN sessions = 1 .. Len(sessions)  BY <1>3, LenProperties
<1>5. r \in Sessions
  <2>1. client[k].input \in Seq(Items) /\ clock + 1 \in Nat
    BY <1>2, <1>3 DEF Positions
  <2>2. QED  BY ONLY <2>1, k \in Clients DEF Sessions
<1>6. r.used = clock + 1  OBVIOUS
<1> HIDE DEF r
<1>7. /\ \A o \in 1 .. Len(sessions) : sessions'[o] = sessions[o]
      /\ sessions'[Len(sessions) + 1] = r
  BY <1>1, <1>3, <1>5, AppendProperties
<1>8. s \in 1 .. s /\ s \notin DOMAIN sessions /\ DOMAIN sessions \subseteq 1 .. s
  BY <1>4
<1>9. sessions'[s].used = clock + 1 /\ \A o \in DOMAIN sessions : sessions'[o] = sessions[o]
  BY <1>4, <1>6, <1>7
<1> HIDE DEF s
<1>10. store \in Seq(1 .. s) /\ Capacity \in Nat \ {0}
  BY <1>3, <1>8, SeqMonotonic, CapacityAssumption
<1>11. store' \in Seq(1 .. s) /\ Fronted(store', s, store, Capacity)
  BY <1>1, <1>8, <1>10, PutInFront
<1>12. /\ Len(store') \in 1 .. Capacity /\ Len(store') <= Len(store) + 1
       /\ store'[1] = s
       /\ \A i \in 1 .. Len(store') :
            i # 1 => i - 1 \in 1 .. Len(store) /\ store'[i] = store[i - 1]
  BY ONLY <1>11 DEF Fronted
<1>13. Len(store') \in Nat /\ DOMAIN store' = 1 .. Len(store')  BY <1>11, LenProperties
<1>14. \A i \in 1 .. Len(store) : /\ store[i] # s
                                  /\ sessions'[store[i]].used = sessions[store[i]].used
                                  /\ sessions[store[i]].used \in 1 .. clock
  BY <1>2, <1>8, <1>9
<1>15. ByUse(store', sessions')
  <2>1. UsedNow(store, sessions, store', sessions', s, clock)
    BY <1>2, <1>9, <1>12, <1>13, <1>14 DEF UsedNow
  <2>2. QED  BY <1>2, <2>1, FrontByUse
<1>16. ASSUME NEW d \in ToSet(store) \ ToSet(store'), NEW e \in ToSet(store')
       PROVE  sessions[d].used < sessions'[e].used
  <2>1. PICK i \in 1 .. Len(store) : store[i] = d  BY <1>2 DEF ToSet
  <2>2. PICK j \in 1 .. Len(store') : store'[j] = e  BY <1>13 DEF ToSet
  <2>3. ~(i + 1 \in 1 .. Len(store'))
    <3> SUFFICES ASSUME i + 1 \in 1 .. Len(store')
                 PROVE  FALSE
      OBVIOUS
    <3>1. i + 1 # 1 /\ (i + 1) - 1 = i  OBVIOUS
    <3>2. store'[i + 1] = d  BY <1>12, <2>1, <3>1
    <3>3. QED  BY <1>13, <3>2 DEF ToSet
  <2>4. i + 1 > Len(store')  BY <1>13, <2>3
  <2>5. CASE j = 1  BY <1>2, <1>9, <1>12, <2>1, <2>2, <2>5
  <2>6. CASE j # 1
    <3>1. j - 1 \in 1 .. Len(store) /\ store'[j] = store[j - 1]  BY <1>12, <2>6
    <3>2. j - 1 < i  BY <1>13, <2>4
    <3>3. sessions[store[j - 1]].used > sessions[store[i]].used
      BY <1>2, <3>1, <3>2 DEF ByUse
    <3>4. sessions'[e].used = sessions[store[j - 1]].used  BY <1>14, <2>2, <3>1
    <3>5. QED  BY <1>2, <2>1, <3>1, <3>3, <3>4
  <2>7. QED  BY <2>5, <2>6
<1>17. DropsLeastRecent
  <2>1. ToSet(store)' = ToSet(store')  BY DEF ToSet
  <2>2. QED  BY <1>16, <2>1 DEF DropsLeastRecent
<1>18. QED  BY <1>15, <1>17

\* A session's use is written by nothing but the request that is given it.
LEMMA GoesOnByUse ==
  ASSUME StoreInv, ByUse(store, sessions), NEW k \in Clients, NEW r, NEW c, GoesOn(k, r, c)
  PROVE  ByUse(store', sessions') /\ DropsLeastRecent
<1> DEFINE s == client[k].home
<1>1. s \in DOMAIN sessions  BY HomeOf DEF GoesOn
<1>2. /\ r \in Sessions /\ r.used = sessions[s].used
      /\ sessions' = [sessions EXCEPT ![s] = r] /\ store' = store
  BY DEF GoesOn
<1>3. sessions \in Seq(Sessions)  BY DEF StoreInv, StoreTypeOK
<1> HIDE DEF s
<1>4. \A o \in DOMAIN sessions : sessions'[o].used = sessions[o].used
  BY <1>1, <1>2, <1>3, SessionChanged
<1>5. DOMAIN store = 1 .. Len(store) /\ \A i \in 1 .. Len(store) : store[i] \in DOMAIN sessions
  BY UsedBefore DEF StoreInv
<1>6. ByUse(store', sessions')  BY <1>2, <1>4, <1>5 DEF ByUse
<1>7. DropsLeastRecent
  BY <1>2 DEF DropsLeastRecent, ToSet
<1>8. QED  BY <1>6, <1>7

\* The store's invariant and the order it is kept in.
UseInv == StoreInv /\ ByUse(store, sessions)

\* A step keeps the order, and drops from the end of it;
LEMMA UseStep ==
  ASSUME UseInv, [NextStore]_storeVars
  PROVE  UseInv' /\ [DropsLeastRecent]_storeVars
<1> USE DEF UseInv
<1> SUFFICES ByUse(store', sessions') /\ [DropsLeastRecent]_storeVars
  BY StoreStep
<1>1. ASSUME NEW k \in Clients, Filter(k)
      PROVE  ByUse(store', sessions') /\ DropsLeastRecent
  BY <1>1, FilterByUse
<1>2. ASSUME NEW k \in Clients, Reuse(k)
      PROVE  ByUse(store', sessions') /\ DropsLeastRecent
  BY <1>2, JoinByUse
<1>3. ASSUME NEW k \in Clients, Create(k)
      PROVE  ByUse(store', sessions') /\ DropsLeastRecent
  BY <1>3, CreateByUse
<1>4. ASSUME NEW k \in Clients, Claim(k) \/ Answer(k) \/ Fail(k)
      PROVE  ByUse(store', sessions') /\ DropsLeastRecent
  <2>1. PICK r, c : GoesOn(k, r, c)  BY <1>4, ClaimGoesOn, AnswerGoesOn, FailGoesOn
  <2>2. QED  BY <2>1, GoesOnByUse
<1>5. CASE Hour \/ Clear
  <2>1. sessions' = sessions /\ (store' = store \/ store' = <<>>)
    BY <1>5 DEF Hour, Clear
  <2>2. ByUse(<<>>, sessions)  BY DEF ByUse
  <2>3. DropsLeastRecent  BY <2>1 DEF DropsLeastRecent, ToSet
  <2>4. QED  BY <2>1, <2>2, <2>3
<1>6. CASE UNCHANGED storeVars
  <2>1. UNCHANGED <<store, sessions>>  BY <1>6 DEF storeVars
  <2>2. QED  BY <1>6, <2>1
<1>7. QED  BY <1>1, <1>2, <1>3, <1>4, <1>5, <1>6 DEF NextStore

\* and so do all.
LEMMA StoreUse ==
  StoreSpec => []UseInv /\ [][DropsLeastRecent]_storeVars
<1>1. InitStore => UseInv
  <2>1. InitStore => ByUse(store, sessions)  BY DEF InitStore, ByUse
  <2>2. QED  BY <2>1, StoreInit DEF UseInv
<1>2. UseInv /\ [NextStore]_storeVars => UseInv' /\ [DropsLeastRecent]_storeVars
  BY UseStep
<1>3. QED  BY <1>1, <1>2, PTL DEF StoreSpec

\* What the store forgets, to make room or for having been idle, is what was
\* asked for least recently, which the order it is kept in shows: the half of
\* SessionKeepsItsSession that is about what is dropped (session.rs, resolve).
THEOREM ForgetsLeastRecent ==
  StoreSpec => []RecentFirst /\ [][DropsLeastRecent]_storeVars
<1>1. UseInv => RecentFirst  BY DEF UseInv, ByUse, RecentFirst
<1>2. QED  BY <1>1, StoreUse, PTL

-----------------------------------------------------------------------------
(***************************************************************************)
(* Whom a request comes back to: ReturnInv, by which the session a client  *)
(* was the last to speak in is the longest its next request continues.     *)
(***************************************************************************)

\* A prefix is as much of a sequence, item by item.
LEMMA PrefixIs ==
  ASSUME NEW S, NEW p \in Seq(S), NEW q \in Seq(S)
  PROVE  IsPrefix(p, q) <=> /\ Len(p) <= Len(q)
                            /\ \A i \in 1 .. Len(p) : p[i] = q[i]
<1>1. Len(p) \in Nat /\ Len(q) \in Nat  BY LenProperties
<1>2. SUFFICES ASSUME Len(p) <= Len(q)
               PROVE  SubSeq(p, 1, Len(p)) = SubSeq(q, 1, Len(p))
                        <=> \A i \in 1 .. Len(p) : p[i] = q[i]
  BY DEF IsPrefix
<1>3. \A i \in 1 .. Len(p) : p[i] \in S /\ q[i] \in S
  <2>1. \A i \in 1 .. Len(p) : i \in 1 .. Len(q)  BY <1>1, <1>2
  <2>2. QED  BY <2>1, ElementOfSeq
<1> DEFINE a == SubSeq(p, 1, Len(p))
           b == SubSeq(q, 1, Len(p))
<1>4. /\ a \in Seq(S) /\ Len(a) = Len(p) /\ \A i \in 1 .. Len(p) : a[i] = p[i]
      /\ b \in Seq(S) /\ Len(b) = Len(p) /\ \A i \in 1 .. Len(p) : b[i] = q[i]
  BY <1>1, <1>3, Firsts
<1> HIDE DEF a, b
<1>5. a = b <=> \A i \in 1 .. Len(p) : a[i] = b[i]
  BY <1>4, SeqEqual
<1>6. QED  BY <1>4, <1>5 DEF a, b

\* What a prefix is a prefix of may grow.
LEMMA PrefixGrows ==
  ASSUME NEW S, NEW p \in Seq(S), NEW q \in Seq(S), NEW r \in Seq(S),
         IsPrefix(p, q), IsPrefix(q, r)
  PROVE  IsPrefix(p, r)
<1>1. Len(p) \in Nat /\ Len(q) \in Nat /\ Len(r) \in Nat  BY LenProperties
<1>2. /\ Len(p) <= Len(q) /\ \A i \in 1 .. Len(p) : p[i] = q[i]
      /\ Len(q) <= Len(r) /\ \A i \in 1 .. Len(q) : q[i] = r[i]
  BY PrefixIs
<1>3. Len(p) <= Len(r) /\ \A i \in 1 .. Len(p) : p[i] = r[i]  BY <1>1, <1>2
<1>4. QED  BY <1>3, PrefixIs

\* What is put behind a sequence leaves it a prefix.
LEMMA PrefixConcat ==
  ASSUME NEW S, NEW p \in Seq(S), NEW u \in Seq(S)
  PROVE  IsPrefix(p, p \o u) /\ p \o u \in Seq(S)
<1>1. Len(p) \in Nat /\ Len(u) \in Nat  BY LenProperties
<1>2. /\ p \o u \in Seq(S) /\ Len(p \o u) = Len(p) + Len(u)
      /\ \A i \in 1 .. Len(p) + Len(u) :
           (p \o u)[i] = IF i <= Len(p) THEN p[i] ELSE u[i - Len(p)]
  BY ConcatProperties
<1>3. Len(p) <= Len(p \o u) /\ \A i \in 1 .. Len(p) : p[i] = (p \o u)[i]
  BY <1>1, <1>2
<1>4. QED  BY <1>2, <1>3, PrefixIs

\* Every item was heard, and those past the first the client said or was told.
Own(h, k) ==
  \A i \in 1 .. Len(h) : ~ServerOnly(h[i]) /\ (i > 1 => h[i].who = k)

\* A conversation that is the client's own is plain.
LEMMA OwnPlain ==
  ASSUME NEW h, NEW k, Own(h, k)
  PROVE  Plain(h)
BY DEF Own, Plain

\* One more item of the client's own.
LEMMA OwnGrows ==
  ASSUME NEW S, NEW h \in Seq(S), NEW k, Own(h, k), NEW e \in S, ~ServerOnly(e),
         h = <<>> \/ e.who = k
  PROVE  /\ Own(h \o <<e>>, k) /\ h \o <<e>> \in Seq(S)
         /\ IsPrefix(h, h \o <<e>>) /\ Len(h \o <<e>>) = Len(h) + 1
<1>1. Len(h) \in Nat /\ <<e>> \in Seq(S) /\ Len(<<e>>) = 1 /\ <<e>>[1] = e
  BY LenProperties
<1>2. h = <<>> => Len(h) = 0  BY EmptySeq
<1> DEFINE w == h \o <<e>>
<1>3. /\ w \in Seq(S) /\ Len(w) = Len(h) + 1
      /\ \A i \in 1 .. Len(h) : w[i] = h[i]
      /\ w[Len(h) + 1] = e
  BY <1>1
<1> HIDE DEF w
<1>4. Own(w, k)
  <2> SUFFICES ASSUME NEW i \in 1 .. Len(w)
               PROVE  ~ServerOnly(w[i]) /\ (i > 1 => w[i].who = k)
    BY DEF Own
  <2>1. CASE i \in 1 .. Len(h)  BY <1>3, <2>1 DEF Own
  <2>2. CASE i = Len(h) + 1  BY <1>1, <1>2, <1>3, <2>2
  <2>3. QED  BY <1>1, <1>3, <2>1, <2>2
<1>5. IsPrefix(h, h \o <<e>>)  BY <1>1, PrefixConcat
<1>6. QED  BY <1>3, <1>4, <1>5 DEF w

\* A conversation a client continues, and in which more than the opening words
\* was said, was last the client's.
LEMMA LastSaid ==
  ASSUME NEW S, NEW b \in Seq(S), NEW q \in Seq(S), NEW j, NEW k,
         ~ServerOnly(b[1]), Len(b) > 1, Speaks(b, j), Reconciles(b, q), Own(q, k)
  PROVE  j = k
<1> DEFINE p == Replayable(b)
           n == Len(b)
<1>1. n \in Nat /\ DOMAIN b = 1 .. n /\ 1 \in 1 .. n /\ n \in 1 .. n
  BY LenProperties
<1>2. ~ServerOnly(b[n]) /\ b[n].who = j  BY DEF Speaks
<1>3. Kept(b) \in SUBSET (1 .. n) /\ 1 \in Kept(b) /\ n \in Kept(b)
  BY <1>1, <1>2 DEF Kept
<1>4. p = Picked(b, Kept(b)) /\ p \in Seq(S) /\ Len(p) \in Nat
  BY ReplayableType, LenProperties DEF Replayable
<1>5. PICK at : InOrder(p, b, Kept(b), at)  BY <1>3, <1>4, PickedOrder
<1>6. IsPrefix(p, q)  BY DEF Reconciles
<1> HIDE DEF p, n
<1>7. PICK x \in 1 .. Len(p), y \in 1 .. Len(p) : at[x] = 1 /\ at[y] = n
  BY <1>3, <1>5 DEF InOrder
<1>8. x < y
  <2>1. x # y  BY <1>7 DEF n
  <2>2. ~(y < x)
    <3> SUFFICES ASSUME y < x
                 PROVE  FALSE
      OBVIOUS
    <3>1. at[y] < at[x]  BY <1>5 DEF InOrder
    <3>2. QED  BY <1>1, <1>7, <3>1
  <2>3. QED  BY <1>4, <2>1, <2>2
<1>9. p[y] = b[n]  BY <1>5, <1>7 DEF InOrder
<1>10. Len(p) <= Len(q) /\ p[y] = q[y]  BY <1>4, <1>6, PrefixIs
<1>11. Len(q) \in Nat  BY LenProperties
<1>12. y \in 1 .. Len(q) /\ y > 1  BY <1>4, <1>8, <1>10, <1>11
<1>13. q[y].who = k  BY <1>12 DEF Own
<1>14. QED  BY <1>2, <1>9, <1>10, <1>13

\* What a request sends in full ends with what the client said, when there is
\* more in it than the opening words.
LEMMA FullSpeaks ==
  ASSUME NEW S, NEW b \in Seq(S), NEW q \in Seq(S), NEW j, NEW k,
         b # <<>>, ~ServerOnly(b[1]), Speaks(b, j), Own(q, k)
  PROVE  Speaks(FullInput(b, q), k)
<1>1. Len(b) \in Nat /\ Len(q) \in Nat /\ Len(b) # 0  BY LenProperties, EmptySeq
<1>2. CASE ~Reconciles(b, q)
  <2>1. FullInput(b, q) = q  BY <1>2 DEF FullInput
  <2>2. Len(q) > 1 => Len(q) \in 1 .. Len(q)  BY <1>1
  <2>3. QED  BY <2>1, <2>2 DEF Own, Speaks
<1>3. CASE Reconciles(b, q)
  <2> DEFINE m == Consumed(b)
             u == SubSeq(q, m + 1, Len(q))
             w == b \o u
  <2>1. m \in Nat /\ m >= 1
    BY <1>1, ReplayableType, HeadShown
  <2>2. FullInput(b, q) = w  BY <1>3 DEF FullInput, Reconciled, NewItems
  <2> HIDE DEF m
  <2>3. \A i \in (m + 1) .. Len(q) : q[i] \in S
    <3>1. \A i \in (m + 1) .. Len(q) : i \in 1 .. Len(q)  BY <1>1, <2>1
    <3>2. QED  BY <3>1, ElementOfSeq
  <2>4. /\ u \in Seq(S)
        /\ Len(u) = IF m + 1 <= Len(q) THEN Len(q) - (m + 1) + 1 ELSE 0
        /\ \A i \in 1 .. (Len(q) - (m + 1) + 1) : u[i] = q[(m + 1) + i - 1]
    <3>1. m + 1 \in Int /\ Len(q) \in Int  BY <1>1, <2>1
    <3>2. QED  BY ONLY <2>3, <3>1, SubSeqProperties
  <2> HIDE DEF u
  <2>5. /\ w \in Seq(S) /\ Len(w) = Len(b) + Len(u)
        /\ \A i \in 1 .. Len(b) + Len(u) :
             w[i] = IF i <= Len(b) THEN b[i] ELSE u[i - Len(b)]
    BY <2>4, ConcatProperties
  <2> HIDE DEF w
  <2>6. CASE m + 1 <= Len(q)
    <3>1. Len(u) = Len(q) - m /\ Len(u) \in 1 .. (Len(q) - (m + 1) + 1)
      BY <1>1, <2>1, <2>4, <2>6
    <3>2. u[Len(u)] = q[Len(q)]
      <4>1. (m + 1) + Len(u) - 1 = Len(q)  BY <1>1, <2>1, <3>1
      <4>2. QED  BY <2>4, <3>1, <4>1
    <3>3. w[Len(w)] = q[Len(q)]
      <4>1. Len(w) \in 1 .. Len(b) + Len(u) /\ ~(Len(w) <= Len(b)) /\ Len(w) - Len(b) = Len(u)
        BY <1>1, <2>1, <2>5, <3>1
      <4>2. QED  BY <2>5, <3>2, <4>1
    <3>4. Len(q) \in 1 .. Len(q) /\ Len(q) > 1  BY <1>1, <2>1, <2>6
    <3>5. QED  BY <2>2, <3>3, <3>4 DEF Own, Speaks
  <2>7. CASE ~(m + 1 <= Len(q))
    <3>1. Len(u) = 0 /\ u = <<>>  BY <2>4, <2>7, EmptySeq
    <3>2. w = b  BY <3>1, ConcatEmptySeq DEF w
    <3>3. Len(b) > 1 => j = k  BY <1>3, LastSaid
    <3>4. QED  BY <2>2, <3>2, <3>3 DEF Speaks
  <2>8. QED  BY <2>6, <2>7
<1>4. QED  BY <1>2, <1>3

\* What a client that holds c asks next.
Asks(c, k) ==
  c.history \o << ItemOf("message", IF c.history = <<>> THEN Opener[k] ELSE k,
                         Len(c.history), "asked") >>

\* The invariant's parts: what a client holds, ...
TurnIs(c, k) ==
  /\ Own(c.history, k)
  /\ c.phase \in {"resolving", "resolved"} => c.input = Asks(c, k)
  /\ c.phase = "sent" => Replayable(c.input) = Asks(c, k) /\ Speaks(c.input, k)

\* ... a session, to the client that was the last to speak in it, ...
Follows(r, cl) ==
  /\ IsPrefix(Replayable(r.baseline), Asks(cl[r.by], r.by))
  /\ Speaks(r.baseline, r.by)
  /\ r.scope = Scope[r.by]

\* ... and what the request that resolves has matched.
LockIs(l, st, ss, cl) ==
  l.by # "nobody" =>
    /\ \A s \in ToSet(st) : ss[s].by = l.by => s \in l.matched
    /\ ~l.moved => \A s \in l.matched : Reconciles(ss[s].baseline, Asks(cl[l.by], l.by))

\* The invariant gives its parts,
LEMMA ReturnGives ==
  ASSUME StoreTypeOK, ReturnInv
  PROVE  /\ \A k \in Clients : TurnIs(client[k], k)
         /\ \A s \in DOMAIN sessions : Follows(sessions[s], client)
         /\ LockIs(lock, store, sessions, client)
<1>1. ASSUME NEW k \in Clients
      PROVE  TurnIs(client[k], k)
  <2>1. client[k].history \in Seq(Items)  BY DEF StoreTypeOK, Positions
  <2>2. DOMAIN client[k].history = 1 .. Len(client[k].history)  BY <2>1, LenProperties
  <2>3. QED  BY <2>2 DEF ReturnInv, TurnIs, Own, Asks, Request
<1>2. \A s \in DOMAIN sessions : Follows(sessions[s], client)
  BY DEF ReturnInv, Follows, Asks, Request
<1>3. LockIs(lock, store, sessions, client)
  BY DEF ReturnInv, LockIs, Asks, Request
<1>4. QED  BY <1>1, <1>2, <1>3

\* and holds when they do.
LEMMA ReturnTakes ==
  ASSUME StoreTypeOK', \A k \in Clients : TurnIs(client'[k], k),
         \A s \in DOMAIN sessions' : Follows(sessions'[s], client'),
         LockIs(lock', store', sessions', client')
  PROVE  ReturnInv'
<1>1. ASSUME NEW k \in Clients
      PROVE  /\ \A i \in DOMAIN client'[k].history :
                  /\ ~ServerOnly(client'[k].history[i])
                  /\ i > 1 => client'[k].history[i].who = k
             /\ client'[k].phase \in {"resolving", "resolved"} => client'[k].input = Request(k)'
             /\ client'[k].phase = "sent" => /\ Replayable(client'[k].input) = Request(k)'
                                             /\ Speaks(client'[k].input, k)
  <2>1. client'[k].history \in Seq(Items)  BY DEF StoreTypeOK, Positions
  <2>2. DOMAIN client'[k].history = 1 .. Len(client'[k].history)  BY <2>1, LenProperties
  <2>3. TurnIs(client'[k], k)  OBVIOUS
  <2>4. Request(k)' = Asks(client'[k], k)  BY DEF Request, Asks
  <2>5. QED  BY <2>2, <2>3, <2>4 DEF TurnIs, Own
<1>2. ASSUME NEW s \in DOMAIN sessions'
      PROVE  LET k == sessions'[s].by
             IN /\ IsPrefix(Replayable(sessions'[s].baseline), Asks(client'[k], k))
                /\ Speaks(sessions'[s].baseline, k)
                /\ sessions'[s].scope = Scope[k]
  BY DEF Follows
<1>3. ASSUME lock'.by # "nobody"
      PROVE  /\ \A s \in ToSet(store') : sessions'[s].by = lock'.by => s \in lock'.matched
             /\ ~lock'.moved => \A s \in lock'.matched :
                  Reconciles(sessions'[s].baseline, Asks(client'[lock'.by], lock'.by))
  BY <1>3 DEF LockIs
<1>4. QED
  BY <1>1, <1>2, <1>3
     DEF ReturnInv, Request, Asks, Speaks, Reconciles, ServerOnly, ItemOf, ToSet

\* A request is the client's own.
LEMMA AskedOwn ==
  ASSUME NEW k \in Clients, NEW c, c.history \in Seq(Items), Own(c.history, k)
  PROVE  /\ Asks(c, k) \in Seq(Items) /\ Own(Asks(c, k), k)
         /\ IsPrefix(c.history, Asks(c, k)) /\ Asks(c, k) # <<>>
<1> DEFINE h == c.history
           e == ItemOf("message", IF h = <<>> THEN Opener[k] ELSE k, Len(h), "asked")
<1>1. Len(h) \in Nat  BY LenProperties
<1>2. e \in Items  BY <1>1 DEF ItemOf, Items
<1>3. ~ServerOnly(e) /\ (h = <<>> \/ e.who = k)  BY DEF ItemOf, ServerOnly
<1>4. Asks(c, k) = h \o <<e>>  BY DEF Asks
<1>5. h \in Seq(Items) /\ Own(h, k)  OBVIOUS
<1> HIDE DEF e, h
<1>6. /\ Own(h \o <<e>>, k) /\ h \o <<e>> \in Seq(Items)
      /\ IsPrefix(h, h \o <<e>>) /\ Len(h \o <<e>>) = Len(h) + 1
  BY <1>2, <1>3, <1>5, OwnGrows
<1>7. h \o <<e>> # <<>>  BY <1>1, <1>6, EmptySeq DEF h
<1>8. QED  BY <1>4, <1>6, <1>7 DEF h

\* One client goes on, its next request continues the last, and a session is as it
\* was or what that client made of it.
LEMMA ReturnKept ==
  ASSUME StoreTypeOK, StoreTypeOK', ReturnInv, NEW k \in Clients, NEW c,
         client' = [client EXCEPT ![k] = c], TurnIs(c, k),
         IsPrefix(Asks(client[k], k), Asks(c, k)),
         \A s \in DOMAIN sessions' :
            \/ /\ s \in DOMAIN sessions
               /\ sessions'[s].baseline = sessions[s].baseline
               /\ sessions'[s].by = sessions[s].by
               /\ sessions'[s].scope = sessions[s].scope
            \/ sessions'[s].by = k /\ Follows(sessions'[s], client'),
         LockIs(lock', store', sessions', client')
  PROVE  ReturnInv'
<1>1. client \in [Clients -> Positions] /\ client' \in [Clients -> Positions']
      /\ sessions \in Seq(Sessions)
  BY DEF StoreTypeOK
<1>2. client'[k] = c /\ \A j \in Clients \ {k} : client'[j] = client[j]  BY <1>1
<1>3. \A j \in Clients : TurnIs(client'[j], j)  BY <1>2, ReturnGives
<1>4. \A j \in Clients : IsPrefix(Asks(client[j], j), Asks(client'[j], j))
  <2> TAKE j \in Clients
  <2>1. CASE j = k  BY <1>2, <2>1
  <2>2. CASE j # k
    <3>1. client[j].history \in Seq(Items) /\ Own(client[j].history, j)
      BY <1>1, ReturnGives DEF Positions, TurnIs
    <3>2. Asks(client[j], j) \in Seq(Items)  BY <3>1, AskedOwn
    <3>3. IsPrefix(Asks(client[j], j), Asks(client[j], j))
      BY <3>2, PrefixIs, LenProperties
    <3>4. QED  BY <1>2, <2>2, <3>3
  <2>3. QED  BY <2>1, <2>2
<1>5. \A j \in Clients : /\ Asks(client[j], j) \in Seq(Items)
                         /\ Asks(client'[j], j) \in Seq(Items)
  <2> TAKE j \in Clients
  <2>1. client[j].history \in Seq(Items) /\ client'[j].history \in Seq(Items)
    BY <1>1 DEF Positions
  <2>2. Own(client[j].history, j) /\ Own(client'[j].history, j)
    BY <1>3, ReturnGives DEF TurnIs
  <2>3. QED  BY <2>1, <2>2, AskedOwn
<1>6. \A s \in DOMAIN sessions' : Follows(sessions'[s], client')
  <2> SUFFICES ASSUME NEW s \in DOMAIN sessions, s \in DOMAIN sessions',
                      sessions'[s].baseline = sessions[s].baseline,
                      sessions'[s].by = sessions[s].by,
                      sessions'[s].scope = sessions[s].scope
               PROVE  Follows(sessions'[s], client')
    OBVIOUS
  <2> DEFINE j == sessions[s].by
             p == Replayable(sessions[s].baseline)
  <2>1. sessions[s] \in Sessions  BY <1>1, LenProperties, ElementOfSeq
  <2>2. j \in Clients /\ sessions[s].baseline \in Seq(Items)  BY <2>1 DEF Sessions
  <2>3. p \in Seq(Items)  BY <2>2, ReplayableType
  <2>4. Follows(sessions[s], client)  BY ReturnGives
  <2>5. IsPrefix(p, Asks(client[j], j))  BY <2>4 DEF Follows
  <2> HIDE DEF j, p
  <2>6. IsPrefix(p, Asks(client'[j], j))
    BY <1>4, <1>5, <2>2, <2>3, <2>5, PrefixGrows
  <2>7. QED  BY <2>4, <2>6 DEF Follows, j, p
<1>7. QED  BY <1>3, <1>6, ReturnTakes

\* A turn that goes on keeps the invariant, when its session is left alone or
\* written by the client with what it goes on from.
LEMMA GoesOnReturn ==
  ASSUME StoreInv, ReturnInv, NEW k \in Clients, NEW r, NEW c, GoesOn(k, r, c),
         TurnIs(c, k), IsPrefix(Asks(client[k], k), Asks(c, k)),
         \/ r = sessions[client[k].home] /\ UNCHANGED lock
         \/ Written(client[k].home) /\ r.by = k /\ Follows(r, client')
  PROVE  ReturnInv'
<1> DEFINE s == client[k].home
<1>1. StoreTypeOK /\ StoreTypeOK'  BY GoesOnStep DEF StoreInv
<1>2. s \in DOMAIN sessions  BY HomeOf DEF GoesOn
<1>3. /\ sessions \in Seq(Sessions) /\ client \in [Clients -> Positions]
      /\ lock \in [by : Clients \cup {"nobody"}, matched : SUBSET ToSet(store),
                   moved : BOOLEAN]
  BY DEF StoreInv, StoreTypeOK
<1>4. /\ r \in Sessions /\ sessions' = [sessions EXCEPT ![s] = r]
      /\ client' = [client EXCEPT ![k] = c] /\ store' = store
      /\ client[k].phase \in {"resolved", "sent"}
  BY DEF GoesOn
<1>5. \/ r = sessions[s] /\ UNCHANGED lock
      \/ Written(s) /\ r.by = k /\ Follows(r, client')
  OBVIOUS
<1> HIDE DEF s
<1>6. /\ DOMAIN sessions' = DOMAIN sessions
      /\ \A o \in DOMAIN sessions : sessions'[o] = IF o = s THEN r ELSE sessions[o]
  BY <1>2, <1>3, <1>4, SessionChanged
<1>7. LockIs(lock', store', sessions', client')
  <2> SUFFICES ASSUME lock'.by # "nobody"
               PROVE  /\ \A o \in ToSet(store') : sessions'[o].by = lock'.by => o \in lock'.matched
                      /\ ~lock'.moved => \A o \in lock'.matched :
                           Reconciles(sessions'[o].baseline, Asks(client'[lock'.by], lock'.by))
    BY DEF LockIs
  <2>1. lock'.by = lock.by /\ lock'.matched = lock.matched
    BY <1>3, <1>5, WrittenType
  <2>2. lock.by \in Clients /\ lock.by # "nobody"  BY <1>3, <2>1
  <2>3. client[lock.by].phase = "resolving"  BY <2>2, HoldsStore
  <2>4. lock.by # k /\ client'[lock.by] = client[lock.by]
    BY <1>3, <1>4, <2>2, <2>3
  <2>5. /\ \A o \in ToSet(store) : sessions[o].by = lock.by => o \in lock.matched
        /\ ~lock.moved => \A o \in lock.matched :
                            Reconciles(sessions[o].baseline, Asks(client[lock.by], lock.by))
    BY <1>1, <2>2, ReturnGives DEF LockIs
  <2>6. ToSet(store) \subseteq DOMAIN sessions /\ lock.matched \subseteq ToSet(store)
    BY <1>1, <1>3, HeldWasMade
  <2>7. ASSUME NEW o \in ToSet(store'), sessions'[o].by = lock'.by
        PROVE  o \in lock'.matched
    <3>1. o \in ToSet(store) /\ o \in DOMAIN sessions  BY <1>4, <2>6
    <3>2. CASE sessions'[o] = sessions[o]  BY <2>1, <2>5, <2>7, <3>1, <3>2
    <3>3. CASE sessions'[o] # sessions[o]
      <4>1. sessions'[o].by = k  BY <1>5, <1>6, <3>1, <3>3
      <4>2. QED  BY <2>1, <2>4, <2>7, <4>1
    <3>4. QED  BY <3>2, <3>3
  <2>8. ASSUME ~lock'.moved, NEW o \in lock'.matched
        PROVE  Reconciles(sessions'[o].baseline, Asks(client'[lock'.by], lock'.by))
    <3>1. o \in lock.matched /\ o \in DOMAIN sessions  BY <2>1, <2>6
    <3>2. ~lock.moved /\ sessions'[o] = sessions[o]
      <4>1. CASE r = sessions[s] /\ UNCHANGED lock  BY <1>6, <2>8, <3>1, <4>1
      <4>2. CASE Written(s)
        <5>1. lock'.moved = (lock.moved \/ s \in lock.matched)
          BY <1>3, <4>2 DEF Written
        <5>2. ~lock.moved /\ s \notin lock.matched  BY <2>8, <5>1
        <5>3. QED  BY <1>6, <3>1, <5>2
      <4>3. QED  BY <1>5, <4>1, <4>2
    <3>3. QED  BY <2>1, <2>4, <2>5, <3>1, <3>2
  <2>9. QED  BY <2>7, <2>8
<1>8. ASSUME NEW o \in DOMAIN sessions'
      PROVE  \/ /\ o \in DOMAIN sessions
                /\ sessions'[o].baseline = sessions[o].baseline
                /\ sessions'[o].by = sessions[o].by
                /\ sessions'[o].scope = sessions[o].scope
             \/ sessions'[o].by = k /\ Follows(sessions'[o], client')
  <2>1. CASE o = s /\ r.by = k /\ Follows(r, client')
    <3>1. sessions'[o] = r  BY <1>6, <2>1
    <3>2. QED  BY <2>1, <3>1
  <2>2. CASE ~(o = s /\ r.by = k /\ Follows(r, client'))
    <3>1. o \in DOMAIN sessions /\ sessions'[o] = sessions[o]  BY <1>5, <1>6, <2>2
    <3>2. QED  BY <3>1
  <2>3. QED  BY <2>1, <2>2
<1>9. QED  BY <1>1, <1>4, <1>7, <1>8, ReturnKept

\* What the client's own conversation is: what it holds, and its request.
LEMMA TurnOf ==
  ASSUME StoreInv, ReturnInv, NEW k \in Clients
  PROVE  /\ TurnIs(client[k], k) /\ client[k] \in Positions
         /\ client[k].history \in Seq(Items) /\ client[k].input \in Seq(Items)
         /\ Asks(client[k], k) \in Seq(Items) /\ Own(Asks(client[k], k), k)
         /\ Plain(Asks(client[k], k)) /\ Asks(client[k], k) # <<>>
         /\ IsPrefix(Asks(client[k], k), Asks(client[k], k))
<1>1. TurnIs(client[k], k)  BY ReturnGives DEF StoreInv
<1>2. client[k] \in Positions  BY DEF StoreInv, StoreTypeOK
<1>3. client[k].history \in Seq(Items) /\ client[k].input \in Seq(Items)
  BY <1>2 DEF Positions
<1>4. /\ Asks(client[k], k) \in Seq(Items) /\ Own(Asks(client[k], k), k)
      /\ Asks(client[k], k) # <<>>
  BY <1>1, <1>3, AskedOwn DEF TurnIs
<1>5. Plain(Asks(client[k], k))  BY <1>4, OwnPlain
<1>6. IsPrefix(Asks(client[k], k), Asks(client[k], k))
  BY <1>4, PrefixIs, LenProperties
<1>7. QED  BY <1>1, <1>2, <1>3, <1>4, <1>5, <1>6

\* A session that a client has, and who was the last to speak in it.
LEMMA HomeSpeaks ==
  ASSUME StoreInv, ReturnInv, NEW s \in DOMAIN sessions
  PROVE  /\ sessions[s] \in Sessions /\ sessions[s].by \in Clients
         /\ sessions[s].baseline \in Seq(Items)
         /\ sessions[s].baseline # <<>> /\ ~ServerOnly(sessions[s].baseline[1])
         /\ Speaks(sessions[s].baseline, sessions[s].by)
         /\ Follows(sessions[s], client)
<1>1. sessions \in Seq(Sessions)  BY DEF StoreInv, StoreTypeOK
<1>2. sessions[s] \in Sessions  BY <1>1, LenProperties, ElementOfSeq
<1>3. sessions[s].by \in Clients /\ sessions[s].baseline \in Seq(Items)
  BY <1>2 DEF Sessions
<1>4. Follows(sessions[s], client)  BY ReturnGives DEF StoreInv
<1>5. PICK j \in Clients : Begins(sessions[s].baseline, j)
  BY DEF StoreInv, OriginInv
<1>6. sessions[s].baseline # <<>> /\ ~ServerOnly(sessions[s].baseline[1])
  BY <1>5, Opened
<1>7. QED  BY <1>2, <1>3, <1>4, <1>6 DEF Follows

\* What a client holds asks by what it heard, wherever its turn is.
LEMMA AsksHistory ==
  ASSUME NEW c, NEW d, NEW k, c.history = d.history
  PROVE  Asks(c, k) = Asks(d, k)
BY DEF Asks

\* A request is sent.
LEMMA ClaimReturns ==
  ASSUME StoreInv, ReturnInv, NEW k \in Clients, Claim(k)
  PROVE  ReturnInv'
<1> DEFINE s == client[k].home
           q == Asks(client[k], k)
           b == sessions[s].baseline
           i == FullInput(b, q)
<1>1. PICK r, c : GoesOn(k, r, c)  BY ClaimGoesOn
<1>2. client[k].phase = "resolved"  BY DEF Claim
<1>3. /\ TurnIs(client[k], k) /\ client[k] \in Positions
      /\ q \in Seq(Items) /\ Own(q, k) /\ Plain(q) /\ IsPrefix(q, q)
  BY TurnOf
<1>4. client[k].input = q  BY <1>2, <1>3 DEF TurnIs
<1>5. s \in DOMAIN sessions  BY <1>2, HomeOf
<1>6. /\ b \in Seq(Items) /\ b # <<>> /\ ~ServerOnly(b[1])
      /\ Speaks(b, sessions[s].by) /\ sessions[s] \in Sessions
  BY <1>5, HomeSpeaks
<1>7. /\ client' = [client EXCEPT ![k].phase = "sent", ![k].input = i]
      /\ IF sessions[s].confirmed THEN UNCHANGED <<sessions, lock>>
         ELSE /\ sessions' = [sessions EXCEPT ![s].baseline = i, ![s].by = k]
              /\ Written(s)
  BY <1>4 DEF Claim
<1>8. sessions[s].scope = Scope[k]
  BY <1>2 DEF StoreInv, OriginInv, Belongs
<1>9. client \in [Clients -> Positions] /\ sessions \in Seq(Sessions)
  BY DEF StoreInv, StoreTypeOK
<1>10. /\ client' = [client EXCEPT ![k] = c]
       /\ sessions' = [sessions EXCEPT ![s] = r]
  BY <1>1 DEF GoesOn
<1>11. client'[k] = c /\ sessions'[s] = r
  BY <1>5, <1>9, <1>10, LenProperties
<1>12. Replayable(i) = q /\ Speaks(i, k)
  BY <1>3, <1>6, FullInputReplays, FullSpeaks
<1> HIDE DEF i, b, q
<1>13. c.phase = "sent" /\ c.input = i /\ c.history = client[k].history
  BY <1>3, <1>7, <1>9, <1>11 DEF Positions
<1>14. Asks(c, k) = q  BY <1>13, AsksHistory DEF q
<1>15. TurnIs(c, k)  BY <1>3, <1>12, <1>13, <1>14 DEF TurnIs
<1>16. CASE sessions[s].confirmed
  <2>1. r = sessions[s] /\ UNCHANGED lock  BY <1>7, <1>11, <1>16
  <2>2. QED  BY <1>1, <1>3, <1>14, <1>15, <2>1, GoesOnReturn DEF q
<1>17. CASE ~sessions[s].confirmed
  <2>1. r.baseline = i /\ r.by = k /\ r.scope = Scope[k] /\ Written(s)
    <3>1. s \in 1 .. Len(sessions) /\ DOMAIN sessions = 1 .. Len(sessions)
      BY <1>5, <1>9, LenProperties
    <3>2. sessions'[s] = [sessions[s] EXCEPT !.baseline = i, !.by = k] /\ Written(s)
      BY <1>5, <1>7, <1>9, <1>17, <3>1
    <3>3. r = [sessions[s] EXCEPT !.baseline = i, !.by = k]  BY <1>11, <3>2
    <3>4. r.baseline = i /\ r.by = k /\ r.scope = sessions[s].scope
      BY ONLY <1>6, <3>3 DEF Sessions
    <3>5. QED  BY <1>8, <3>2, <3>4
  <2>2. Follows(r, client')
    BY <1>3, <1>11, <1>12, <1>14, <2>1 DEF Follows
  <2>3. QED  BY <1>1, <1>3, <1>14, <1>15, <2>1, <2>2, GoesOnReturn DEF q
<1>18. QED  BY <1>16, <1>17

\* Nothing of what a client is never shown is replayed.
LEMMA NoneShown ==
  ASSUME NEW S, NEW u \in Seq(S), \A i \in 1 .. Len(u) : ServerOnly(u[i])
  PROVE  Replayable(u) = <<>>
<1>1. Kept(u) = {}  BY LenProperties DEF Kept
<1>2. Len(Replayable(u)) = 0 /\ Replayable(u) \in Seq(S)
  BY <1>1, ReplayableType, FS_EmptySet DEF Consumed
<1>3. QED  BY <1>2, EmptySeq

\* An answer: the request i, which replays as q, reasoning the client is not shown
\* or none, u, and what it is told, e.
AnswerOf(S, i, q, u, e, k) ==
  /\ i \in Seq(S) /\ q \in Seq(S) /\ u \in Seq(S) /\ e \in S
  /\ Replayable(i) = q /\ Own(q, k) /\ q # <<>>
  /\ \A m \in 1 .. Len(u) : ServerOnly(u[m])
  /\ ~ServerOnly(e) /\ e.who = k

\* The conversation w, answered, replays as r, in which the client's request goes on.
AnsweredAs(S, w, q, r, k) ==
  /\ w \in Seq(S) /\ Replayable(w) = r /\ Speaks(w, k)
  /\ Own(r, k) /\ IsPrefix(q, r) /\ r \in Seq(S)

\* What is answered is the client's own.
LEMMA AnswerIsOwn ==
  ASSUME NEW S, NEW i, NEW q, NEW k, NEW u, NEW e, AnswerOf(S, i, q, u, e, k)
  PROVE  AnsweredAs(S, (i \o u) \o <<e>>, q, q \o <<e>>, k)
<1> USE DEF AnswerOf
<1> DEFINE a == <<e>>
           w == i \o u
<1>1. a \in Seq(S) /\ Len(a) = 1 /\ a[1] = e  OBVIOUS
<1>2. w \in Seq(S)  BY ConcatProperties
<1>3. Replayable(w) = q
  <2>1. Replayable(w) = Replayable(i) \o Replayable(u)  BY ReplayableConcat
  <2>2. Replayable(u) = <<>>  BY NoneShown
  <2>3. QED  BY <2>1, <2>2, ConcatEmptySeq
<1> HIDE DEF a, w
<1>4. Plain(a)  BY <1>1 DEF Plain
<1>5. Replayable(a) = a  BY <1>1, <1>4, ReplayableType
<1>6. Replayable(w \o a) = q \o a  BY <1>1, <1>2, <1>3, <1>5, ReplayableConcat
<1>7. Len(w) \in Nat  BY <1>2, LenProperties
<1>8. /\ w \o a \in Seq(S) /\ Len(w \o a) = Len(w) + 1
      /\ \A n \in 1 .. Len(w) + 1 : (w \o a)[n] = IF n <= Len(w) THEN w[n] ELSE a[n - Len(w)]
  <2>1. /\ w \o a \in Seq(S) /\ Len(w \o a) = Len(w) + Len(a)
        /\ \A n \in 1 .. Len(w) + Len(a) :
             (w \o a)[n] = IF n <= Len(w) THEN w[n] ELSE a[n - Len(w)]
    BY <1>1, <1>2, ConcatProperties
  <2>2. QED  BY <1>1, <2>1
<1>9. (w \o a)[Len(w \o a)] = e
  <2>1. Len(w) + 1 \in 1 .. Len(w) + 1 /\ ~(Len(w) + 1 <= Len(w)) /\ (Len(w) + 1) - Len(w) = 1
    BY <1>7
  <2>2. QED  BY <1>1, <1>8, <2>1
<1>10. Speaks(w \o a, k)  BY <1>9 DEF Speaks
<1>11. Own(q \o a, k) /\ IsPrefix(q, q \o a) /\ q \o a \in Seq(S)
  BY OwnGrows DEF a
<1>12. QED  BY <1>6, <1>8, <1>10, <1>11 DEF AnsweredAs, a, w

\* A client that holds what it heard last asks for more than it did.
LEMMA AsksOn ==
  ASSUME NEW k \in Clients, NEW c, NEW q \in Seq(Items), c.history \in Seq(Items),
         Own(c.history, k), IsPrefix(q, c.history)
  PROVE  IsPrefix(q, Asks(c, k)) /\ IsPrefix(c.history, Asks(c, k))
<1>1. Asks(c, k) \in Seq(Items) /\ IsPrefix(c.history, Asks(c, k))  BY AskedOwn
<1>2. QED  BY <1>1, PrefixGrows

\* A turn is answered.
LEMMA AnswerReturns ==
  ASSUME StoreInv, ReturnInv, NEW k \in Clients, Answer(k)
  PROVE  ReturnInv'
<1> DEFINE s == client[k].home
           q == Asks(client[k], k)
           n == Len(client[k].history)
           at(kind) == <<ItemOf(kind, k, n, "answered")>>
           e == ItemOf("message", k, n, "answered")
<1>1. PICK r, c : GoesOn(k, r, c)  BY AnswerGoesOn
<1>2. client[k].phase = "sent" /\ Written(s)  BY DEF Answer
<1>3. /\ TurnIs(client[k], k) /\ client[k] \in Positions
      /\ client[k].input \in Seq(Items) /\ client[k].history \in Seq(Items)
      /\ q \in Seq(Items) /\ Own(q, k) /\ q # <<>>
  BY TurnOf
<1>4. PICK thought \in BOOLEAN :
        LET whole == client[k].input
                       \o (IF thought THEN at("reasoning") ELSE <<>>) \o at("message")
        IN  /\ sessions' = [sessions EXCEPT ![s].baseline = whole,
                                            ![s].confirmed = TRUE, ![s].by = k]
            /\ client' = [client EXCEPT ![k].phase = "idle", ![k].input = <<>>,
                                        ![k].history = Replayable(whole)]
  BY DEF Answer
<1> DEFINE u == IF thought THEN at("reasoning") ELSE <<>>
           w == (client[k].input \o u) \o <<e>>
<1>5. /\ sessions' = [sessions EXCEPT ![s].baseline = w,
                                      ![s].confirmed = TRUE, ![s].by = k]
      /\ client' = [client EXCEPT ![k].phase = "idle", ![k].input = <<>>,
                                  ![k].history = Replayable(w)]
  BY <1>4
<1>6. e \in Items /\ ~ServerOnly(e) /\ e.who = k
  <2>1. n \in Nat  BY <1>3, LenProperties
  <2>2. QED  BY <2>1 DEF ItemOf, Items, ServerOnly
<1>7. u \in Seq(Items) /\ \A m \in 1 .. Len(u) : ServerOnly(u[m])
  <2>1. n \in Nat  BY <1>3, LenProperties
  <2>2. ItemOf("reasoning", k, n, "answered") \in Items
    BY <2>1 DEF ItemOf, Items
  <2>3. /\ at("reasoning") \in Seq(Items) /\ Len(at("reasoning")) = 1
        /\ at("reasoning")[1] = ItemOf("reasoning", k, n, "answered")
    BY <2>2
  <2>4. ServerOnly(ItemOf("reasoning", k, n, "answered"))  BY DEF ItemOf, ServerOnly
  <2> HIDE DEF at
  <2>5. CASE thought
    <3>1. u = at("reasoning")  BY <2>5
    <3> HIDE DEF u
    <3>2. Len(u) = 1  BY <2>3, <3>1
    <3>3. QED  BY <2>3, <2>4, <3>1, <3>2
  <2>6. CASE ~thought
    <3>1. u = <<>>  BY <2>6
    <3> HIDE DEF u
    <3>2. << >> \in Seq(Items) /\ Len(<< >>) = 0  BY EmptySeq
    <3>3. u \in Seq(Items) /\ Len(u) = 0  BY <3>1, <3>2
    <3>4. QED  BY <3>3
  <2>7. QED  BY <2>5, <2>6
<1>8. Replayable(client[k].input) = q  BY <1>2, <1>3 DEF TurnIs
<1> HIDE DEF u, e, at
<1>9. /\ w \in Seq(Items) /\ Replayable(w) = q \o <<e>> /\ Speaks(w, k)
      /\ Own(q \o <<e>>, k) /\ IsPrefix(q, q \o <<e>>) /\ q \o <<e>> \in Seq(Items)
  <2> HIDE DEF q
  <2>1. AnswerOf(Items, client[k].input, q, u, e, k)
    BY <1>3, <1>6, <1>7, <1>8 DEF AnswerOf
  <2>2. AnsweredAs(Items, w, q, q \o <<e>>, k)  BY ONLY <2>1, AnswerIsOwn
  <2>3. QED  BY ONLY <2>2 DEF AnsweredAs
<1> HIDE DEF w, q, n
<1>10. /\ client' = [client EXCEPT ![k] = c]
       /\ sessions' = [sessions EXCEPT ![s] = r]
  BY <1>1 DEF GoesOn
<1>11. /\ client \in [Clients -> Positions] /\ sessions \in Seq(Sessions)
  BY DEF StoreInv, StoreTypeOK
<1>12. s \in DOMAIN sessions /\ sessions[s] \in Sessions  BY <1>2, HomeOf
<1>13. DOMAIN sessions = 1 .. Len(sessions)  BY <1>11, LenProperties
<1>14. sessions[s].scope = Scope[k]
  BY <1>2 DEF StoreInv, OriginInv, Belongs
<1> HIDE DEF s
<1>15. client'[k] = c /\ sessions'[s] = r  BY <1>10, <1>11, <1>12, <1>13
<1>16. c.phase = "idle" /\ c.history = q \o <<e>>
  BY <1>3, <1>5, <1>9, <1>11, <1>15 DEF Positions
<1>17. TurnIs(c, k)  BY <1>9, <1>16 DEF TurnIs
<1>18. IsPrefix(q, Asks(c, k)) /\ IsPrefix(q \o <<e>>, Asks(c, k))
  BY <1>3, <1>9, <1>16, AsksOn
<1>19. r.baseline = w /\ r.by = k /\ r.scope = Scope[k]
  <2>1. sessions'[s] = [sessions[s] EXCEPT !.baseline = w, !.confirmed = TRUE, !.by = k]
    BY <1>5, <1>11, <1>12, <1>13
  <2>2. r = [sessions[s] EXCEPT !.baseline = w, !.confirmed = TRUE, !.by = k]
    BY <1>15, <2>1
  <2>3. r.baseline = w /\ r.by = k /\ r.scope = sessions[s].scope
    BY ONLY <1>12, <2>2 DEF Sessions
  <2>4. QED  BY <1>14, <2>3
<1>20. Follows(r, client')  BY <1>9, <1>15, <1>18, <1>19 DEF Follows
<1>21. QED
  BY <1>1, <1>2, <1>17, <1>18, <1>19, <1>20, GoesOnReturn DEF s, q

\* A turn fails.
LEMMA FailReturns ==
  ASSUME StoreInv, ReturnInv, NEW k \in Clients, Fail(k)
  PROVE  ReturnInv'
<1> DEFINE s == client[k].home
           q == Asks(client[k], k)
           e == ItemOf("message", k, Len(client[k].history), "cut off")
<1>1. PICK r, c : GoesOn(k, r, c)  BY FailGoesOn
<1>2. client[k].phase = "sent" /\ UNCHANGED <<sessions, lock>>  BY DEF Fail
<1>3. /\ TurnIs(client[k], k) /\ client[k] \in Positions
      /\ client[k].history \in Seq(Items)
      /\ q \in Seq(Items) /\ Own(q, k) /\ q # <<>> /\ IsPrefix(q, q)
  BY TurnOf
<1>4. Replayable(client[k].input) = q  BY <1>2, <1>3 DEF TurnIs
<1>5. PICK kept \in {client[k].history, Append(q, e)} :
        client' = [client EXCEPT ![k].phase = "idle", ![k].input = <<>>, ![k].history = kept]
  BY <1>4 DEF Fail
<1>6. e \in Items /\ ~ServerOnly(e) /\ e.who = k
  <2>1. Len(client[k].history) \in Nat  BY <1>3, LenProperties
  <2>2. QED  BY <2>1 DEF ItemOf, Items, ServerOnly
<1>7. client \in [Clients -> Positions] /\ sessions \in Seq(Sessions)
  BY DEF StoreInv, StoreTypeOK
<1>8. s \in DOMAIN sessions  BY <1>2, HomeOf
<1>9. /\ client' = [client EXCEPT ![k] = c]
      /\ sessions' = [sessions EXCEPT ![s] = r]
  BY <1>1 DEF GoesOn
<1> HIDE DEF e, q
<1>10. client'[k] = c /\ r = sessions[s]
  BY <1>2, <1>7, <1>8, <1>9, LenProperties
<1>11. c.phase = "idle" /\ c.history = kept
  BY <1>3, <1>5, <1>7, <1>10 DEF Positions
<1>12. Own(kept, k) /\ IsPrefix(q, Asks(c, k))
  <2>1. CASE kept = client[k].history
    <3>1. Asks(c, k) = q  BY <1>11, <2>1, AsksHistory DEF q
    <3>2. QED  BY <1>3, <2>1, <3>1 DEF TurnIs
  <2>2. CASE kept = Append(q, e)
    <3>1. Append(q, e) = q \o <<e>>  BY <1>3, <1>6, AppendIsConcat
    <3>2. Own(q \o <<e>>, k) /\ q \o <<e>> \in Seq(Items) /\ IsPrefix(q, q \o <<e>>)
      BY <1>3, <1>6, OwnGrows
    <3>3. IsPrefix(q, Asks(c, k))  BY <1>3, <1>11, <2>2, <3>1, <3>2, AsksOn
    <3>4. QED  BY <2>2, <3>1, <3>2, <3>3
  <2>3. QED  BY <1>5, <2>1, <2>2
<1>13. TurnIs(c, k)  BY <1>11, <1>12 DEF TurnIs
<1>14. UNCHANGED lock  BY <1>2
<1>15. QED  BY <1>1, <1>10, <1>12, <1>13, <1>14, GoesOnReturn DEF q

\* A request comes in: of the sessions that are held, those its client was the last
\* to speak in are matched.
LEMMA FilterReturns ==
  ASSUME StoreInv, ReturnInv, NEW k \in Clients, Filter(k)
  PROVE  ReturnInv'
<1> DEFINE c == [client[k] EXCEPT !.phase = "resolving", !.input = Request(k)]
           M == {s \in ToSet(Recent) :
                   /\ sessions[s].scope = Scope[k]
                   /\ Reconciles(sessions[s].baseline, Request(k))}
<1>1. /\ lock' = [by |-> k, moved |-> FALSE, matched |-> M]
      /\ client' = [client EXCEPT ![k].phase = "resolving", ![k].input = Request(k)]
      /\ store' = Recent /\ UNCHANGED sessions
  BY DEF Filter
<1>2. client \in [Clients -> Positions] /\ StoreTypeOK /\ StoreTypeOK'
  BY StoreFilterType DEF StoreInv, StoreTypeOK
<1>3. TurnIs(client[k], k) /\ client[k] \in Positions
      /\ IsPrefix(Asks(client[k], k), Asks(client[k], k))
  BY TurnOf
<1>4. Request(k) = Asks(client[k], k)  BY DEF Request, Asks
<1>5. /\ client' = [client EXCEPT ![k] = c]
      /\ c.phase = "resolving" /\ c.input = Request(k) /\ c.history = client[k].history
  BY <1>1, <1>2, <1>3 DEF Positions
<1> HIDE DEF c
<1>6. Asks(c, k) = Asks(client[k], k)  BY <1>5, AsksHistory
<1>7. TurnIs(c, k)  BY <1>3, <1>4, <1>5, <1>6 DEF TurnIs
<1>8. client'[k] = c  BY <1>2, <1>5
<1>9. \A s \in ToSet(store') : s \in DOMAIN sessions
  <2> DEFINE I == {i \in DOMAIN store : sessions[store[i]].used > horizon}
  <2>1. store' = Picked(store, I) /\ I \in SUBSET (DOMAIN store)
    BY <1>1 DEF Recent
  <2> HIDE DEF I
  <2>2. ToSet(store') = {store[i] : i \in I}  BY <1>2, <2>1, KeptOfStore
  <2>3. ToSet(store') \subseteq ToSet(store)  BY <2>1, <2>2 DEF ToSet
  <2>4. QED  BY <1>2, <2>3, HeldWasMade
<1>10. ASSUME NEW s \in ToSet(store'), sessions'[s].by = k
       PROVE  s \in M
  <2>1. s \in DOMAIN sessions /\ sessions[s].by = k  BY <1>1, <1>9, <1>10
  <2>2. Follows(sessions[s], client)  BY <2>1, HomeSpeaks
  <2>3. sessions[s].scope = Scope[k] /\ Reconciles(sessions[s].baseline, Request(k))
    BY <1>4, <2>1, <2>2 DEF Follows, Reconciles
  <2>4. QED  BY <1>1, <2>3
<1>11. \A s \in M : Reconciles(sessions'[s].baseline, Asks(client'[k], k))
  BY <1>1, <1>4, <1>6, <1>8
<1>12. LockIs(lock', store', sessions', client')
  <2>1. lock'.by = k /\ lock'.matched = M  BY <1>1
  <2> HIDE DEF M
  <2>2. QED  BY <1>10, <1>11, <2>1 DEF LockIs
<1>13. \A s \in DOMAIN sessions' : /\ s \in DOMAIN sessions
                                   /\ sessions'[s] = sessions[s]
  BY <1>1
<1>14. QED
  BY <1>2, <1>3, <1>5, <1>6, <1>7, <1>12, <1>13, ReturnKept DEF StoreInv

\* It is given a session,
LEMMA JoinReturns ==
  ASSUME StoreInv, ReturnInv, NEW k \in Clients, Reuse(k)
  PROVE  ReturnInv'
<1> DEFINE t == Longest(lock.matched)
           c == [client[k] EXCEPT !.phase = "resolved", !.home = t]
<1>1. /\ sessions' = [sessions EXCEPT ![t].used = clock + 1]
      /\ client' = [client EXCEPT ![k].phase = "resolved", ![k].home = t]
      /\ lock' = Nobody /\ lock.by = k
  BY DEF Reuse, Use
<1>2. client \in [Clients -> Positions] /\ sessions \in Seq(Sessions)
      /\ StoreTypeOK /\ StoreTypeOK'
  BY StoreJoinType DEF StoreInv, StoreTypeOK
<1>3. TurnIs(client[k], k) /\ client[k] \in Positions
      /\ IsPrefix(Asks(client[k], k), Asks(client[k], k))
  BY TurnOf
<1>4. client[k].phase = "resolving"  BY <1>1, HoldsStore
<1>5. /\ client' = [client EXCEPT ![k] = c]
      /\ c.phase = "resolved" /\ c.input = client[k].input /\ c.history = client[k].history
  BY <1>1, <1>2, <1>3 DEF Positions
<1> HIDE DEF c, t
<1>6. Asks(c, k) = Asks(client[k], k)  BY <1>5, AsksHistory
<1>7. TurnIs(c, k)  BY <1>3, <1>4, <1>5, <1>6 DEF TurnIs
<1>8. LockIs(lock', store', sessions', client')  BY <1>1 DEF LockIs, Nobody
<1>9. ASSUME NEW s \in DOMAIN sessions'
      PROVE  /\ s \in DOMAIN sessions
             /\ sessions'[s].baseline = sessions[s].baseline
             /\ sessions'[s].by = sessions[s].by
             /\ sessions'[s].scope = sessions[s].scope
  <2>1. DOMAIN sessions = 1 .. Len(sessions)  BY <1>2, LenProperties
  <2>2. s \in DOMAIN sessions  BY <1>1, <2>1
  <2>3. sessions[s] \in Sessions  BY <1>2, <2>1, <2>2, ElementOfSeq
  <2>4. sessions'[s] = IF s = t THEN [sessions[s] EXCEPT !.used = clock + 1] ELSE sessions[s]
    BY <1>1, <1>2, <2>1, <2>2
  <2>5. QED  BY ONLY <2>2, <2>3, <2>4 DEF Sessions
<1>10. QED
  BY <1>2, <1>3, <1>5, <1>6, <1>7, <1>8, <1>9, ReturnKept

\* or one is made for it.
LEMMA CreateReturns ==
  ASSUME StoreInv, ReturnInv, NEW k \in Clients, Create(k)
  PROVE  ReturnInv'
<1> DEFINE t == Len(sessions) + 1
           c == [client[k] EXCEPT !.phase = "resolved", !.home = t]
           r == [baseline |-> client[k].input, confirmed |-> FALSE,
                 scope |-> Scope[k], used |-> clock + 1, by |-> k]
           q == Asks(client[k], k)
<1>1. /\ sessions' = Append(sessions, r)
      /\ client' = [client EXCEPT ![k].phase = "resolved", ![k].home = t]
      /\ lock' = Nobody /\ lock.by = k
  BY DEF Create, Use
<1>2. /\ client \in [Clients -> Positions] /\ sessions \in Seq(Sessions)
      /\ StoreTypeOK /\ StoreTypeOK' /\ clock \in Nat
  BY StoreCreateType DEF StoreInv, StoreTypeOK
<1>3. /\ TurnIs(client[k], k) /\ client[k] \in Positions
      /\ client[k].input \in Seq(Items) /\ q \in Seq(Items)
      /\ IsPrefix(q, q) /\ Own(q, k) /\ Plain(q)
  BY TurnOf
<1>4. client[k].phase = "resolving"  BY <1>1, HoldsStore
<1>5. client[k].input = q  BY <1>3, <1>4 DEF TurnIs
<1>6. /\ client' = [client EXCEPT ![k] = c]
      /\ c.phase = "resolved" /\ c.input = client[k].input /\ c.history = client[k].history
  BY <1>1, <1>2, <1>3 DEF Positions
<1>7. /\ r \in Sessions /\ r.baseline = client[k].input /\ r.by = k /\ r.scope = Scope[k]
  <2>1. clock + 1 \in Nat  BY <1>2
  <2>2. QED  BY ONLY <1>3, <2>1, k \in Clients DEF Sessions
<1> HIDE DEF c, t, r
<1>8. Asks(c, k) = q  BY <1>6, AsksHistory
<1>9. TurnIs(c, k)  BY <1>3, <1>4, <1>5, <1>6, <1>8 DEF TurnIs
<1>10. LockIs(lock', store', sessions', client')  BY <1>1 DEF LockIs, Nobody
<1>11. client'[k] = c  BY <1>2, <1>6
<1>12. Follows(r, client')
  <2>1. Replayable(q) = q  BY <1>3, ReplayableType
  <2>2. Speaks(q, k)
    <3>1. Len(q) > 1 => Len(q) \in 1 .. Len(q)  BY <1>3, LenProperties
    <3>2. QED  BY <1>3, <3>1 DEF Own, Speaks
  <2>3. QED  BY <1>3, <1>5, <1>7, <1>8, <1>11, <2>1, <2>2 DEF Follows
<1>13. /\ Len(sessions') = Len(sessions) + 1 /\ sessions' \in Seq(Sessions)
       /\ \A o \in 1 .. Len(sessions) : sessions'[o] = sessions[o]
       /\ sessions'[Len(sessions) + 1] = r
  BY <1>1, <1>2, <1>7, AppendProperties
<1>14. ASSUME NEW s \in DOMAIN sessions'
       PROVE  \/ s \in DOMAIN sessions /\ sessions'[s] = sessions[s]
              \/ sessions'[s].by = k /\ Follows(sessions'[s], client')
  <2>1. /\ Len(sessions) \in Nat /\ DOMAIN sessions = 1 .. Len(sessions)
        /\ s \in 1 .. Len(sessions) + 1
    BY <1>2, <1>13, LenProperties
  <2>2. CASE s \in 1 .. Len(sessions)  BY <1>13, <2>1, <2>2
  <2>3. CASE s = Len(sessions) + 1
    <3>1. sessions'[s] = r  BY <1>13, <2>3
    <3>2. QED  BY <1>7, <1>12, <3>1
  <2>4. QED  BY <2>1, <2>2, <2>3
<1>15. IsPrefix(Asks(client[k], k), Asks(c, k))  BY <1>3, <1>8
<1>16. QED
  BY <1>2, <1>6, <1>9, <1>10, <1>14, <1>15, ReturnKept

\* Time passes, or everything is forgotten, or nothing changes.
LEMMA SweepReturns ==
  ASSUME StoreInv, StoreInv', ReturnInv,
         UNCHANGED <<sessions, client, lock>>, lock = Nobody \/ UNCHANGED store
  PROVE  ReturnInv'
<1>1. /\ \A k \in Clients : TurnIs(client'[k], k)
      /\ \A s \in DOMAIN sessions' : Follows(sessions'[s], client')
  BY ReturnGives DEF StoreInv
<1>2. LockIs(lock', store', sessions', client')
  <2>1. CASE lock = Nobody  BY <2>1 DEF LockIs, Nobody
  <2>2. CASE UNCHANGED store  BY <2>2, ReturnGives DEF StoreInv
  <2>3. QED  BY <2>1, <2>2
<1>3. QED  BY <1>1, <1>2, ReturnTakes DEF StoreInv

\* A step of the store keeps what a client comes back by.
LEMMA ReturnStep ==
  ASSUME StoreInv, ReturnInv, [NextStore]_storeVars
  PROVE  ReturnInv'
<1>1. StoreInv'  BY StoreStep
<1>2. ASSUME NEW k \in Clients,
             Filter(k) \/ Reuse(k) \/ Create(k) \/ Claim(k) \/ Answer(k) \/ Fail(k)
      PROVE  ReturnInv'
  BY <1>2, FilterReturns, JoinReturns, CreateReturns, ClaimReturns, AnswerReturns, FailReturns
<1>3. CASE Hour \/ Clear
  <2>1. UNCHANGED <<sessions, client, lock>> /\ lock = Nobody
    BY <1>3 DEF Hour, Clear
  <2>2. QED  BY <1>1, <2>1, SweepReturns
<1>4. CASE UNCHANGED storeVars
  <2>1. UNCHANGED <<sessions, client, lock, store>>  BY <1>4 DEF storeVars
  <2>2. QED  BY <1>1, <2>1, SweepReturns
<1>5. QED  BY <1>2, <1>3, <1>4 DEF NextStore

\* The session a client was the last to speak in is the longest it continues.
LEMMA JoinComesBack ==
  ASSUME StoreInv, ReturnInv, NEW k \in Clients, Reuse(k), ~lock.moved,
         client[k].home \in ToSet(store), sessions[client[k].home].by = k,
         \A o \in ToSet(store) : sessions[o].by = k => o = client[k].home,
         Len(sessions[client[k].home].baseline) > 1
  PROVE  client'[k].home = client[k].home
<1> DEFINE h == client[k].home
           t == Longest(lock.matched)
<1>1. /\ client' = [client EXCEPT ![k].phase = "resolved", ![k].home = t]
      /\ lock.by = k /\ lock.matched # {}
  BY DEF Reuse, Use
<1>2. /\ client \in [Clients -> Positions] /\ StoreTypeOK
      /\ lock.matched \subseteq ToSet(store) /\ ToSet(store) \subseteq DOMAIN sessions
  BY HeldWasMade DEF StoreInv, StoreTypeOK
<1>3. /\ \A s \in ToSet(store) : sessions[s].by = k => s \in lock.matched
      /\ \A s \in lock.matched : Reconciles(sessions[s].baseline, Asks(client[k], k))
  <2>1. LockIs(lock, store, sessions, client)  BY <1>2, ReturnGives
  <2>2. lock.by # "nobody"  BY <1>1, NobodyAssumption
  <2>3. QED  BY <1>1, <2>1, <2>2 DEF LockIs
<1>4. h \in lock.matched  BY <1>3
<1>5. /\ t \in lock.matched
      /\ \/ Len(sessions[h].baseline) < Len(sessions[t].baseline)
         \/ Len(sessions[h].baseline) = Len(sessions[t].baseline)
  BY <1>1, <1>2, <1>4, LongestMatched
<1> DEFINE b == sessions[t].baseline
<1>6. /\ b \in Seq(Items) /\ ~ServerOnly(b[1]) /\ Speaks(b, sessions[t].by)
      /\ Reconciles(b, Asks(client[k], k))
  BY <1>2, <1>3, <1>5, HomeSpeaks
<1>7. Len(b) \in Nat /\ Len(sessions[h].baseline) \in Nat
  BY <1>2, <1>4, <1>5, HomeSpeaks, LenProperties
<1>8. Len(b) > 1  BY <1>5, <1>7
<1>9. Asks(client[k], k) \in Seq(Items) /\ Own(Asks(client[k], k), k)  BY TurnOf
<1>10. sessions[t].by = k
  <2> HIDE DEF b, t
  <2>1. QED  BY <1>6, <1>8, <1>9, LastSaid
<1>11. t = h  BY <1>2, <1>5, <1>10
<1>12. client'[k].home = t
  <2> HIDE DEF t
  <2>1. client[k] \in Positions  BY <1>2
  <2>2. QED  BY <1>1, <1>2, <2>1 DEF Positions
<1>13. QED  BY <1>11, <1>12

\* A step takes no client from its session.
LEMMA ReturnComesBack ==
  ASSUME StoreInv, ReturnInv, NextStore
  PROVE  ComesBack
<1> SUFFICES ASSUME NEW k \in Clients,
                    client[k].phase = "resolving", client'[k].phase = "resolved",
                    ~lock.moved, client[k].home \in ToSet(store),
                    sessions[client[k].home].by = k,
                    \A o \in ToSet(store) : sessions[o].by = k => o = client[k].home,
                    Len(sessions[client[k].home].baseline) > 1
             PROVE  client'[k].home = client[k].home
  BY DEF ComesBack
<1>1. client \in [Clients -> Positions]  BY DEF StoreInv, StoreTypeOK
<1>2. client' # client  OBVIOUS
<1>3. ~Hour /\ ~Clear  BY <1>2 DEF Hour, Clear
<1>4. PICK j \in Clients :
        Filter(j) \/ Reuse(j) \/ Create(j) \/ Claim(j) \/ Answer(j) \/ Fail(j)
  BY <1>3 DEF NextStore
<1>5. ~Filter(j)
  <2> SUFFICES ASSUME Filter(j)
               PROVE  FALSE
    OBVIOUS
  <2>1. client' = [client EXCEPT ![j].phase = "resolving", ![j].input = Request(j)]
    BY DEF Filter
  <2>2. CASE j = k
    <3>1. client[k] \in Positions  BY <1>1
    <3>2. client'[k].phase = "resolving"  BY <1>1, <2>1, <2>2, <3>1 DEF Positions
    <3>3. QED  BY <3>2
  <2>3. CASE j # k
    <3>1. client'[k] = client[k]  BY <1>1, <2>1, <2>3
    <3>2. QED  BY <3>1
  <2>4. QED  BY <2>2, <2>3
<1>6. ~(Claim(j) \/ Answer(j) \/ Fail(j))
  <2> SUFFICES ASSUME NEW r, NEW c, GoesOn(j, r, c)
               PROVE  FALSE
    BY ClaimGoesOn, AnswerGoesOn, FailGoesOn
  <2>1. /\ client[j].phase \in {"resolved", "sent"}
        /\ client' = [client EXCEPT ![j] = c]
    BY DEF GoesOn
  <2>2. j # k  BY <2>1
  <2>3. client'[k] = client[k]  BY <1>1, <2>1, <2>2
  <2>4. QED  BY <2>3
<1>7. j = k
  <2>1. \E t : client' = [client EXCEPT ![j].phase = "resolved", ![j].home = t]
    BY <1>4, <1>5, <1>6 DEF Reuse, Create, Use
  <2>2. j # k => client'[k] = client[k]  BY <1>1, <2>1
  <2>3. QED  BY <2>2
<1>8. CASE Reuse(k)  BY <1>8, JoinComesBack
<1>9. CASE Create(k)
  <2>1. lock.by = k /\ lock.matched = {}  BY <1>9 DEF Create
  <2>2. LockIs(lock, store, sessions, client)  BY ReturnGives DEF StoreInv
  <2>3. client[k].home \in lock.matched
    BY <2>1, <2>2, NobodyAssumption DEF LockIs
  <2>4. QED  BY <2>1, <2>3
<1>10. QED  BY <1>4, <1>5, <1>6, <1>7, <1>8, <1>9

\* Nobody has spoken at first.
LEMMA ReturnInit == InitStore => ReturnInv
<1> SUFFICES ASSUME InitStore
             PROVE  ReturnInv
  OBVIOUS
<1>1. sessions = <<>> /\ lock.by = "nobody"  BY DEF InitStore, Nobody
<1>2. ASSUME NEW k \in Clients
      PROVE  client[k].phase = "idle" /\ client[k].history = <<>>
  BY DEF InitStore
<1>3. QED  BY <1>1, <1>2 DEF ReturnInv

\* What a client comes back by, and the order the store is kept in.
WholeInv == UseInv /\ ReturnInv

\* A conversation is not split, however many clients ask, in whatever order their
\* turns overlap, fail and are matched, and whatever the store forgets in between:
\* it comes back to its session while that is held, and it is dropped only for ones
\* asked for later (SessionKeepsItsSession: session.rs, resolve and best_match).
THEOREM NotSplit == StoreSpec => KeepsItsSession
<1>1. InitStore => WholeInv
  <2>1. InitStore => ByUse(store, sessions)  BY DEF InitStore, ByUse
  <2>2. QED  BY <2>1, StoreInit, ReturnInit DEF UseInv, WholeInv
<1>2. WholeInv /\ [NextStore]_storeVars
        => WholeInv' /\ [ComesBack /\ DropsLeastRecent]_storeVars
  <2> SUFFICES ASSUME WholeInv, [NextStore]_storeVars
               PROVE  WholeInv' /\ [ComesBack /\ DropsLeastRecent]_storeVars
    OBVIOUS
  <2>1. UseInv /\ StoreInv /\ ReturnInv  BY DEF WholeInv, UseInv
  <2>2. UseInv' /\ [DropsLeastRecent]_storeVars  BY <2>1, UseStep
  <2>3. ReturnInv'  BY <2>1, ReturnStep
  <2>4. NextStore => ComesBack  BY <2>1, ReturnComesBack
  <2>5. QED  BY <2>2, <2>3, <2>4 DEF WholeInv
<1>3. QED  BY <1>1, <1>2, PTL DEF StoreSpec, KeepsItsSession
=============================================================================

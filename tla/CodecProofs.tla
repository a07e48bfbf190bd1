---------------------------- MODULE CodecProofs ----------------------------
(***************************************************************************)
(* The two codecs of the test contract, proved for every argument and for  *)
(* every slice the specification reaches, whatever the sizes of a number,  *)
(* an index and a base: decoding undoes encoding, what verification        *)
(* accepts can be read, what strict verification accepts is what the       *)
(* builder writes, and what the builder writes is accepted and read back.  *)
(***************************************************************************)
EXTENDS MCCodecs, InductionProofs

-----------------------------------------------------------------------------
(* EscapeEncoding *)

Octets == 0 .. 255

(* Each byte is written as bytes that are not zero, and the second byte of *)
(* an escape is one less than what it stands for.                          *)
LEMMA EncodedByteIs ==
    ASSUME NEW x \in Octets
    PROVE  /\ EncodedByte(x) \in Seq(1 .. 255) /\ Len(EncodedByte(x)) \in {1, 2}
           /\ \/ /\ Len(EncodedByte(x)) = 1 /\ EncodedByte(x)[1] = x /\ x # Escape /\ x # 0
              \/ /\ Len(EncodedByte(x)) = 2 /\ EncodedByte(x)[1] = Escape
                 /\ EncodedByte(x)[2] # 0 /\ Wrap(EncodedByte(x)[2] + 1) = x
  <1>1. ASSUME NEW y \in 1 .. 255
        PROVE  /\ <<254, y>> \in Seq(1 .. 255) /\ Len(<<254, y>>) = 2
               /\ <<254, y>>[1] = 254 /\ <<254, y>>[2] = y
    OBVIOUS
  <1>2. ASSUME NEW y \in 1 .. 255, EncodedByte(x) = <<254, y>>, Wrap(y + 1) = x
        PROVE  /\ EncodedByte(x) \in Seq(1 .. 255) /\ Len(EncodedByte(x)) = 2
               /\ EncodedByte(x)[1] = Escape /\ EncodedByte(x)[2] # 0
               /\ Wrap(EncodedByte(x)[2] + 1) = x
    <2> DEFINE e == <<254, y>>
    <2>1. y # 0
      OBVIOUS
    <2>2. e \in Seq(1 .. 255) /\ Len(e) = 2 /\ e[1] = 254 /\ e[2] = y
      BY <1>1
    <2>3. EncodedByte(x) = e
      BY <1>2
    <2> HIDE DEF e
    <2> QED BY <1>2, <2>1, <2>2, <2>3, Zenon DEF Escape
  <1>3. CASE x = 0
    <2>1. Wrap(0 - 1) = 255
      <3>1. ASSUME NEW y \in Int
            PROVE  \E q \in Int, r \in 0 .. 255 : r = Wrap(y) /\ y = (256 * q) + r
        <4>1. y \div 256 \in Int /\ Wrap(y) \in 0 .. 255 /\ y = (256 * (y \div 256)) + Wrap(y)
          BY DEF Wrap
        <4> QED BY <4>1
      <3> HIDE DEF Wrap
      <3>2. PICK q \in Int, r \in 0 .. 255 : r = Wrap(0 - 1) /\ 0 - 1 = (256 * q) + r
        BY <3>1
      <3> QED BY <3>2
    <2>2. EncodedByte(x) = <<254, 255>>
      BY <1>3, <2>1, Zenon DEF EncodedByte, NeedsEscape, Escape
    <2>3. Wrap(255 + 1) = x
      BY <1>3 DEF Wrap
    <2> QED BY <1>2, <2>2, <2>3
  <1>4. CASE x = 254
    <2>1. (254 - 1) % 256 = 253 /\ Wrap(253 + 1) = 254
      BY DEF Wrap
    <2>2. EncodedByte(x) = <<254, 253>>
      BY <1>4, <2>1, Zenon DEF EncodedByte, NeedsEscape, Wrap, Escape
    <2> QED BY <1>2, <1>4, <2>1, <2>2
  <1>5. CASE x # 0 /\ x # 254
    <2>1. EncodedByte(x) = <<x>>
      BY <1>5 DEF EncodedByte, NeedsEscape, Escape
    <2>2. x \in 1 .. 255
      BY <1>5 DEF Octets
    <2>3. <<x>> \in Seq(1 .. 255) /\ Len(<<x>>) = 1 /\ <<x>>[1] = x
      BY <2>2
    <2> QED BY <1>5, <2>1, <2>3, Zenon DEF Escape
  <1> QED BY <1>3, <1>4, <1>5

LEMMA EncodedIs ==
    ASSUME NEW src \in Seq(Octets)
    PROVE  /\ EncodedBytes(src) \in [0 .. Len(src) -> Seq(1 .. 255)]
           /\ EncodedBytes(src)[0] = <<>>
           /\ \A n \in 1 .. Len(src) : EncodedBytes(src)[n] = EncodedBytes(src)[n - 1] \o EncodedByte(src[n])
  <1> DEFINE m == Len(src)
             X == Seq(1 .. 255)
             F == [n \in 1 .. m |-> [s \in X |-> s \o EncodedByte(src[n])]]
             P(h) == h = [n \in 0 .. m |-> IF n = 0 THEN <<>> ELSE h[n - 1] \o EncodedByte(src[n])]
  <1>0. m \in Nat /\ \A n \in 1 .. m : EncodedByte(src[n]) \in X
    BY EncodedByteIs
  <1>1. <<>> \in X /\ F \in [1 .. m -> [X -> X]]
    <2>1. \A n \in 1 .. m : \A s \in X : s \o EncodedByte(src[n]) \in X
      BY <1>0
    <2>2. <<>> \in X
      OBVIOUS
    <2>3. \A n \in 1 .. m : F[n] \in [X -> X]
      <3> HIDE DEF X, m
      <3> QED BY <2>1
    <2>4. F = [n \in 1 .. m |-> F[n]]
      OBVIOUS
    <2> HIDE DEF X, m, F
    <2> QED BY <2>2, <2>3, <2>4
  <1>2. PICK g \in [0 .. m -> X] : g[0] = <<>> /\ \A n \in 1 .. m : g[n] = F[n][g[n - 1]]
    <2> DEFINE e == <<>>
    <2>1. e \in X /\ F \in [1 .. m -> [X -> X]] /\ m \in Nat
      BY <1>0, <1>1
    <2> HIDE DEF X, m, F, e
    <2>2. \E g : RecursionUpto(m, g, X, e, F)
      BY <2>1, IteratesUpto
    <2> QED BY <2>2 DEF e, RecursionUpto
  <1> HIDE DEF m
  <1>3. ASSUME NEW h \in [0 .. m -> X], h[0] = <<>>, \A n \in 1 .. m : h[n] = h[n - 1] \o EncodedByte(src[n])
        PROVE  P(h)
    <2>1. \A n \in 0 .. m : h[n] = IF n = 0 THEN <<>> ELSE h[n - 1] \o EncodedByte(src[n])
      <3>1. \A n \in 0 .. m : n = 0 \/ n \in 1 .. m
        BY <1>0
      <3> QED BY <1>3, <3>1
    <2>2. h = [n \in 0 .. m |-> h[n]]
      BY <1>3
    <2> HIDE DEF X
    <2> QED BY <2>1, <2>2
  <1>4. P(g)
    <2>1. ASSUME NEW n \in 1 .. m PROVE g[n] = g[n - 1] \o EncodedByte(src[n])
      <3>1. n - 1 \in 0 .. m
        BY <1>0
      <3>2. F[n][g[n - 1]] = g[n - 1] \o EncodedByte(src[n])
        <4> HIDE DEF X
        <4> QED BY <3>1
      <3> QED BY <1>2, <3>2
    <2> HIDE DEF P, F, X
    <2> QED BY <1>2, <1>3, <2>1
  <1>5. P(CHOOSE h : P(h))
    <2> HIDE DEF P
    <2> QED BY <1>4, Zenon
  <1>6. P(EncodedBytes(src))
    BY <1>5, Zenon DEF EncodedBytes, m
  <1> DEFINE E == EncodedBytes(src)
  <1> HIDE DEF E
  <1>7. E[0] = <<>> /\ \A n \in 1 .. m : E[n] = E[n - 1] \o EncodedByte(src[n])
    <2>1. P(E)
      BY <1>6 DEF E
    <2>2. 0 \in 0 .. m /\ \A n \in 1 .. m : n \in 0 .. m /\ n # 0
      BY <1>0
    <2> QED BY <2>1, <2>2
  <1>8. E \in [0 .. m -> X]
    <2> DEFINE S == {n \in Nat : n <= m => E[n] \in X}
    <2>1. 0 \in S
      BY <1>1, <1>7
    <2>2. ASSUME NEW n \in Nat, n \in S PROVE n + 1 \in S
      <3> SUFFICES ASSUME n + 1 <= m PROVE E[n + 1] \in X
        OBVIOUS
      <3>1. n + 1 \in 1 .. m /\ (n + 1) - 1 = n /\ E[n] \in X
        BY <1>0, <2>2
      <3>2. E[n + 1] = E[n] \o EncodedByte(src[n + 1])
        BY <1>7, <3>1
      <3> QED BY <1>0, <3>1, <3>2
    <2>3. Nat \subseteq S
      <3> HIDE DEF S
      <3> QED BY <2>1, <2>2, Induct
    <2>4. \A n \in 0 .. m : E[n] \in X
      BY <1>0, <2>3
    <2>5. E = [n \in 0 .. m |-> E[n]]
      BY <1>6 DEF E
    <2> HIDE DEF X
    <2> QED BY <2>4, <2>5
  <1> QED BY <1>7, <1>8 DEF E, m

(* How much is written for the first k bytes. *)
Width(src, k) == Len(EncodedBytes(src)[k])

(* What byte n adds to what is written for the p before it. *)
Grown(src, p, n) ==
    /\ Width(src, p) \in Nat /\ Width(src, n) = Width(src, p) + Len(EncodedByte(src[n]))
    /\ \A i \in 1 .. Width(src, p) : EncodedBytes(src)[n][i] = EncodedBytes(src)[p][i]
    /\ \A i \in 1 .. Len(EncodedByte(src[n])) :
          EncodedBytes(src)[n][Width(src, p) + i] = EncodedByte(src[n])[i]

LEMMA EncodedStep ==
    ASSUME NEW src \in Seq(Octets), NEW n \in 1 .. Len(src), NEW p, p = n - 1
    PROVE  Grown(src, p, n)
  <1> DEFINE b == EncodedByte(src[n])
             e == EncodedBytes(src)[p]
             X == Seq(1 .. 255)
  <1>1. e \in X /\ EncodedBytes(src)[n] = e \o b
    <2>1. p \in 0 .. Len(src)
      OBVIOUS
    <2> HIDE DEF X, b
    <2> QED BY <2>1, EncodedIs DEF X, b
  <1>2. b \in X
    BY EncodedByteIs
  <1> HIDE DEF b, e
  <1>3. /\ Len(e) \in Nat /\ Len(e \o b) = Len(e) + Len(b)
        /\ \A i \in 1 .. Len(e) : (e \o b)[i] = e[i]
        /\ \A i \in 1 .. Len(b) : (e \o b)[Len(e) + i] = b[i]
    <2>1. /\ Len(e) \in Nat /\ Len(b) \in Nat /\ Len(e \o b) = Len(e) + Len(b)
          /\ \A i \in 1 .. Len(e) + Len(b) :
                (e \o b)[i] = IF i <= Len(e) THEN e[i] ELSE b[i - Len(e)]
      BY <1>1, <1>2, ConcatProperties
    <2>2. ASSUME NEW i \in 1 .. Len(b) PROVE (e \o b)[Len(e) + i] = b[i]
      <3>1. Len(e) + i \in 1 .. Len(e) + Len(b) /\ ~(Len(e) + i <= Len(e)) /\ (Len(e) + i) - Len(e) = i
        BY <2>1
      <3> QED BY <2>1, <3>1
    <2> QED BY <2>1, <2>2
  <1> QED BY <1>1, <1>3, Zenon DEF Grown, Width, e, b

LEMMA WidthIs ==
    ASSUME NEW src \in Seq(Octets), NEW n \in 0 .. Len(src)
    PROVE  Width(src, n) \in Nat /\ n <= Width(src, n) /\ Width(src, n) <= 2 * n
  <1> DEFINE S == {k \in Nat : k <= Len(src) =>
                      Width(src, k) \in Nat /\ k <= Width(src, k) /\ Width(src, k) <= 2 * k}
  <1>1. 0 \in S
    <2>1. Width(src, 0) = 0
      <3>1. EncodedBytes(src)[0] = <<>>
        BY EncodedIs
      <3>2. Len(<<>>) = 0
        OBVIOUS
      <3> QED BY <3>1, <3>2, Zenon DEF Width
    <2> QED BY <2>1
  <1>2. ASSUME NEW k \in Nat, k \in S PROVE k + 1 \in S
    <2> SUFFICES ASSUME k + 1 <= Len(src)
                 PROVE  Width(src, k + 1) \in Nat /\ k + 1 <= Width(src, k + 1)
                        /\ Width(src, k + 1) <= 2 * (k + 1)
      OBVIOUS
    <2>1. k + 1 \in 1 .. Len(src) /\ k = (k + 1) - 1
      OBVIOUS
    <2>2. Len(EncodedByte(src[k + 1])) \in {1, 2}
      BY <2>1, EncodedByteIs
    <2>3. Width(src, k + 1) = Width(src, k) + Len(EncodedByte(src[k + 1]))
      <3>1. Grown(src, k, k + 1)
        BY <2>1, EncodedStep, Zenon
      <3> QED BY <3>1, Zenon DEF Grown
    <2>4. Width(src, k) \in Nat /\ k <= Width(src, k) /\ Width(src, k) <= 2 * k
      BY <1>2
    <2>5. ASSUME NEW w, NEW v \in Nat, NEW l \in {1, 2}, w = v + l, k <= v, v <= 2 * k
          PROVE  w \in Nat /\ k + 1 <= w /\ w <= 2 * (k + 1)
      BY ONLY k \in Nat, <2>5
    <2> HIDE DEF S
    <2> QED BY <2>2, <2>3, <2>4, <2>5, Zenon
  <1>3. Nat \subseteq S
    <2> HIDE DEF S
    <2> QED BY <1>1, <1>2, Induct
  <1> QED BY <1>3

(* Where the bytes of a longer encoding are. *)
LEMMA EncodedLayout ==
    ASSUME NEW src \in Seq(Octets), NEW n \in 0 .. Len(src), NEW k \in 1 .. n
    PROVE  /\ Width(src, k) <= Width(src, n)
           /\ \A i \in 1 .. Len(EncodedByte(src[k])) :
                 EncodedBytes(src)[n][Width(src, k - 1) + i] = EncodedByte(src[k])[i]
  <1> DEFINE b == EncodedByte(src[k])
             w == Width(src, k - 1)
             S == {j \in Nat : k <= j /\ j <= Len(src) =>
                      /\ w + Len(b) <= Width(src, j)
                      /\ \A i \in 1 .. Len(b) : EncodedBytes(src)[j][w + i] = b[i]}
  <1>1. k \in 1 .. Len(src) /\ w \in Nat /\ Len(b) \in {1, 2}
    <2>1. k \in 1 .. Len(src) /\ k - 1 \in 0 .. Len(src)
      OBVIOUS
    <2> QED BY <2>1, WidthIs, EncodedByteIs
  <1>2. Width(src, k) = w + Len(b) /\ \A i \in 1 .. Len(b) : EncodedBytes(src)[k][w + i] = b[i]
    <2>1. Grown(src, k - 1, k)
      BY <1>1, EncodedStep, Zenon
    <2> QED BY <2>1, Zenon DEF Grown
  <1> HIDE DEF b, w
  <1>3. 0 \in S
    OBVIOUS
  <1>4. ASSUME NEW j \in Nat, j \in S PROVE j + 1 \in S
    <2> SUFFICES ASSUME k <= j + 1, j + 1 <= Len(src)
                 PROVE  /\ w + Len(b) <= Width(src, j + 1)
                        /\ \A i \in 1 .. Len(b) : EncodedBytes(src)[j + 1][w + i] = b[i]
      OBVIOUS
    <2>1. CASE k = j + 1
      BY <1>1, <1>2, <2>1
    <2>2. CASE k <= j
      <3>1. j + 1 \in 1 .. Len(src) /\ j = (j + 1) - 1 /\ j \in 0 .. Len(src)
        OBVIOUS
      <3>2. w + Len(b) <= Width(src, j) /\ \A i \in 1 .. Len(b) : EncodedBytes(src)[j][w + i] = b[i]
        BY <1>4, <2>2, <3>1
      <3>3. /\ Width(src, j) \in Nat /\ Width(src, j + 1) \in Nat /\ Width(src, j) <= Width(src, j + 1)
            /\ \A i \in 1 .. Width(src, j) : EncodedBytes(src)[j + 1][i] = EncodedBytes(src)[j][i]
        <4>1. Len(EncodedByte(src[j + 1])) \in {1, 2}
          BY <3>1, EncodedByteIs
        <4>2. /\ Width(src, j) \in Nat /\ Width(src, j + 1) = Width(src, j) + Len(EncodedByte(src[j + 1]))
              /\ \A i \in 1 .. Width(src, j) : EncodedBytes(src)[j + 1][i] = EncodedBytes(src)[j][i]
          <5>1. Grown(src, j, j + 1)
            BY <3>1, EncodedStep, Zenon
          <5> QED BY <5>1, Zenon DEF Grown
        <4> QED BY <4>1, <4>2
      <3>4. \A i \in 1 .. Len(b) : w + i \in 1 .. Width(src, j)
        BY <1>1, <3>2, <3>3
      <3> QED BY <1>1, <3>2, <3>3, <3>4
    <2> QED BY <2>1, <2>2
  <1>5. Nat \subseteq S
    <2> HIDE DEF S
    <2> QED BY <1>3, <1>4, Induct
  <1>6. w + Len(b) <= Width(src, n) /\ \A i \in 1 .. Len(b) : EncodedBytes(src)[n][w + i] = b[i]
    BY <1>5
  <1> QED BY <1>2, <1>6 DEF w, b

-----------------------------------------------------------------------------
(* Decoding what was encoded *)

(* The buffer once the first k of the m encoded bytes are decoded: they    *)
(* have replaced what was there, and the rest is still to be read.         *)
Buffer(src, m, k) ==
    [j \in 1 .. Width(src, m) + 1 |->
        IF j <= k THEN src[j] ELSE Append(EncodedBytes(src)[m], 0)[j]]
Decoded(src, m, k) ==
    [buf |-> Buffer(src, m, k), ss |-> Width(src, k), ds |-> k, error |-> FALSE]

(* What is still to be read has not been written over. *)
LEMMA BufferIs ==
    ASSUME NEW src \in Seq(Octets), NEW m \in 0 .. Len(src), NEW k \in 0 .. m
    PROVE  /\ Width(src, k) \in Nat /\ Width(src, m) \in Nat /\ k <= Width(src, k)
           /\ \A j \in 1 .. Width(src, m) : j > k => Buffer(src, m, k)[j] = EncodedBytes(src)[m][j]
           /\ Buffer(src, m, k)[Width(src, m) + 1] = 0
           /\ k <= Width(src, m)
  <1> DEFINE e == EncodedBytes(src)[m]
             N == Width(src, m)
  <1>1. k \in 0 .. Len(src)
    OBVIOUS
  <1>2. Width(src, k) \in Nat /\ N \in Nat /\ k <= Width(src, k) /\ k <= N
    <2>1. Width(src, k) \in Nat /\ k <= Width(src, k)
      BY <1>1, WidthIs
    <2>2. N \in Nat /\ m <= N
      BY WidthIs
    <2> QED BY <2>1, <2>2
  <1>3. e \in Seq(Nat) /\ Len(e) = N
    <2>1. e \in Seq(1 .. 255)
      BY EncodedIs
    <2>2. 1 .. 255 \subseteq Nat
      OBVIOUS
    <2> HIDE DEF e
    <2>3. e \in Seq(Nat)
      BY <2>1, <2>2, Widened
    <2> QED BY <2>3 DEF Width, e
  <1> HIDE DEF e
  <1> DEFINE a == Append(e, 0)
  <1>4. (\A j \in 1 .. N : a[j] = e[j]) /\ a[N + 1] = 0
    BY <1>3, AppendProperties
  <1>5. \A j \in 1 .. N + 1 : Buffer(src, m, k)[j] = IF j <= k THEN src[j] ELSE a[j]
    BY Zenon DEF Buffer, e
  <1> HIDE DEF N, a
  <1>6. \A j \in 1 .. N : j > k => Buffer(src, m, k)[j] = e[j]
    BY <1>2, <1>4, <1>5
  <1>7. Buffer(src, m, k)[N + 1] = 0
    BY <1>2, <1>4, <1>5
  <1> QED BY <1>2, <1>6, <1>7 DEF e, N

(* One round decodes one byte. *)
LEMMA DecodeOne ==
    ASSUME NEW src \in Seq(Octets), NEW m \in 0 .. Len(src), NEW k \in 0 .. m - 1
    PROVE  DecodeRound(Decoded(src, m, k)) = Decoded(src, m, k + 1)
  <1> DEFINE b == EncodedByte(src[k + 1])
             B == Buffer(src, m, k)
             w == Width(src, k)
             N == Width(src, m)
  <1>1. k + 1 \in 1 .. m /\ k + 1 \in 1 .. Len(src) /\ k \in 0 .. m /\ k = (k + 1) - 1
    OBVIOUS
  <1>2. Width(src, k + 1) = w + Len(b)
    <2>1. Grown(src, k, k + 1)
      BY <1>1, EncodedStep, Zenon
    <2> QED BY <2>1, Zenon DEF Grown
  <1>3. w + Len(b) <= N /\ \A i \in 1 .. Len(b) : EncodedBytes(src)[m][w + i] = b[i]
    <2>1. /\ Width(src, k + 1) <= N
          /\ \A i \in 1 .. Len(b) : EncodedBytes(src)[m][Width(src, (k + 1) - 1) + i] = b[i]
      BY <1>1, EncodedLayout
    <2> QED BY <1>1, <1>2, <2>1
  <1>4. /\ Len(b) \in {1, 2}
        /\ \/ Len(b) = 1 /\ b[1] = src[k + 1] /\ src[k + 1] # Escape /\ src[k + 1] # 0
           \/ Len(b) = 2 /\ b[1] = Escape /\ b[2] # 0 /\ Wrap(b[2] + 1) = src[k + 1]
    BY <1>1, EncodedByteIs
  <1>5. /\ w \in Nat /\ N \in Nat /\ k <= w /\ k <= N
        /\ \A j \in 1 .. N : j > k => B[j] = EncodedBytes(src)[m][j]
    BY <1>1, BufferIs
  <1>6. [B EXCEPT ![k + 1] = src[k + 1]] = Buffer(src, m, k + 1)
    <2>1. k + 1 \in 1 .. N + 1
      BY <1>1, <1>5
    <2>2. ASSUME NEW a
          PROVE  [[j \in 1 .. N + 1 |-> IF j <= k THEN src[j] ELSE a[j]] EXCEPT ![k + 1] = src[k + 1]]
                   = [j \in 1 .. N + 1 |-> IF j <= k + 1 THEN src[j] ELSE a[j]]
      <3>1. N \in Nat /\ k \in Nat
        BY <1>5
      <3> DEFINE f == [j \in 1 .. N + 1 |-> IF j <= k THEN src[j] ELSE a[j]]
      <3>2. ASSUME NEW j \in 1 .. N + 1
            PROVE  [f EXCEPT ![k + 1] = src[k + 1]][j] = IF j <= k + 1 THEN src[j] ELSE a[j]
        <4> HIDE DEF N
        <4>1. CASE j = k + 1
          <5>1. k + 1 <= k + 1
            BY <3>1
          <5> QED BY <2>1, <4>1, <5>1
        <4>2. CASE j # k + 1
          <5>1. j <= k + 1 <=> j <= k
            BY <3>1, <4>2
          <5>2. [f EXCEPT ![k + 1] = src[k + 1]][j] = f[j]
            BY <4>2
          <5> QED BY <5>1, <5>2
        <4> QED BY <4>1, <4>2
      <3>3. [f EXCEPT ![k + 1] = src[k + 1]] = [j \in 1 .. N + 1 |-> [f EXCEPT ![k + 1] = src[k + 1]][j]]
        <4> HIDE DEF N
        <4> QED OBVIOUS
      <3> HIDE DEF f, N
      <3>4. [f EXCEPT ![k + 1] = src[k + 1]] = [j \in 1 .. N + 1 |-> IF j <= k + 1 THEN src[j] ELSE a[j]]
        BY <3>2, <3>3, Zenon
      <3> QED BY <3>4 DEF f
    <2> HIDE DEF N, w, b
    <2> QED BY <2>2 DEF Buffer, N
  <1> HIDE DEF b, B, w, N
  <1>7. \A i \in 1 .. Len(b) : B[w + i] = b[i]
    <2>1. \A i \in 1 .. Len(b) : w + i \in 1 .. N /\ w + i > k
      BY <1>3, <1>4, <1>5
    <2> QED BY <1>3, <1>5, <2>1
  <1> DEFINE o == [buf |-> B, ss |-> w, ds |-> k, error |-> FALSE]
  <1>8. Decoded(src, m, k) = o /\ o.buf = B /\ o.ss = w /\ o.ds = k /\ o.error = FALSE
    BY DEF Decoded, B, w
  <1>9. Decoded(src, m, k + 1)
          = [buf |-> [B EXCEPT ![k + 1] = src[k + 1]], ss |-> w + Len(b), ds |-> k + 1, error |-> FALSE]
    BY <1>2, <1>6, Zenon DEF Decoded
  <1>10. CASE Len(b) = 1
    <2>1. B[w + 1] = src[k + 1] /\ src[k + 1] # Escape /\ src[k + 1] # 0
      BY <1>4, <1>7, <1>10
    <2>2. DecodeRound(o) = Decode(o, src[k + 1], 1)
      BY <1>8, <2>1, Zenon DEF DecodeRound
    <2> HIDE DEF o
    <2>3. DecodeRound(o)
            = [buf |-> [B EXCEPT ![k + 1] = src[k + 1]], ss |-> w + 1, ds |-> k + 1, error |-> FALSE]
      BY <1>8, <2>2, Zenon DEF Decode
    <2> QED BY <1>8, <1>9, <1>10, <2>3, Zenon
  <1>11. CASE Len(b) = 2
    <2>1. B[w + 1] = Escape /\ Escape # 0 /\ B[w + 2] # 0 /\ Wrap(B[w + 2] + 1) = src[k + 1]
      BY <1>4, <1>7, <1>11 DEF Escape
    <2>2. DecodeRound(o) = Decode(o, src[k + 1], 2)
      BY <1>8, <2>1, Zenon DEF DecodeRound
    <2> HIDE DEF o
    <2>3. DecodeRound(o)
            = [buf |-> [B EXCEPT ![k + 1] = src[k + 1]], ss |-> w + 2, ds |-> k + 1, error |-> FALSE]
      BY <1>8, <2>2, Zenon DEF Decode
    <2> QED BY <1>8, <1>9, <1>11, <2>3, Zenon
  <1> QED BY <1>4, <1>10, <1>11

(* At the terminator the loop has ended. *)
LEMMA DecodeEnd ==
    ASSUME NEW src \in Seq(Octets), NEW m \in 0 .. Len(src)
    PROVE  DecodeRound(Decoded(src, m, m)) = Decoded(src, m, m)
  <1> DEFINE o == Decoded(src, m, m)
  <1>1. o.buf[o.ss + 1] = 0
    <2>1. o.buf = Buffer(src, m, m) /\ o.ss = Width(src, m)
      BY DEF Decoded
    <2>2. m \in 0 .. m
      OBVIOUS
    <2>3. Buffer(src, m, m)[Width(src, m) + 1] = 0
      BY <2>2, BufferIs
    <2> HIDE DEF o
    <2> QED BY <2>1, <2>3
  <1> HIDE DEF o
  <1>2. DecodeRound(o) = o
    BY <1>1, Zenon DEF DecodeRound
  <1> QED BY <1>2 DEF o

LEMMA PrefixEqual ==
    ASSUME NEW T, NEW s \in Seq(T), NEW t \in Seq(T), NEW m \in Nat, m <= Len(s), m <= Len(t),
           \A j \in 1 .. m : s[j] = t[j]
    PROVE  SubSeq(s, 1, m) = SubSeq(t, 1, m)
  <1>1. SubSeq(s, 1, m) \in Seq(T) /\ SubSeq(t, 1, m) \in Seq(T)
        /\ Len(SubSeq(s, 1, m)) = m /\ Len(SubSeq(t, 1, m)) = m
        /\ \A j \in 1 .. m : SubSeq(s, 1, m)[j] = s[j] /\ SubSeq(t, 1, m)[j] = t[j]
    BY SubSeqProperties
  <1> QED BY <1>1, SeqEqual

(* Decoding m encoded bytes gives them back, and never fails. *)
LEMMA DecodesPrefix ==
    ASSUME NEW src \in Seq(Octets), NEW m \in 0 .. Len(src)
    PROVE  LET d == ee_decode_char_string_in_place(EncodedBytes(src)[m])
           IN  ~d.error /\ d.bytes = SubSeq(src, 1, m)
  <1> DEFINE string == EncodedBytes(src)[m]
             N == Len(string)
             lesser(n) == IF n <= m THEN n ELSE m
             first == [buf |-> Append(string, 0), ss |-> 0, ds |-> 0, error |-> FALSE]
             P(h) == h = [n \in 0 .. N |-> IF n = 0 THEN {first} ELSE {DecodeRound(o) : o \in h[n - 1]}]
             g == [n \in 0 .. N |-> {Decoded(src, m, lesser(n))}]
  <1>1. N \in Nat /\ m <= N /\ m \in Nat /\ N = Width(src, m)
    BY WidthIs DEF Width
  <1>2. first = Decoded(src, m, 0)
    <2>1. string \in Seq(Nat)
      <3>1. string \in Seq(1 .. 255)
        BY EncodedIs
      <3>2. 1 .. 255 \subseteq Nat
        OBVIOUS
      <3> HIDE DEF string
      <3> QED BY <3>1, <3>2, Widened
    <2>2. Width(src, 0) = 0
      <3>1. 0 \in 0 .. Len(src)
        OBVIOUS
      <3> QED BY <3>1, WidthIs
    <2>3. Append(string, 0) = Buffer(src, m, 0)
      <3> DEFINE a == Append(string, 0)
      <3>1. a = [j \in 1 .. N + 1 |-> a[j]]
        <4>1. a \in Seq(Nat) /\ Len(a) = N + 1
          <5> HIDE DEF string
          <5> QED BY <2>1, AppendProperties
        <4> HIDE DEF a, N
        <4> QED BY <4>1, LenProperties
      <3>2. \A j \in 1 .. N + 1 : a[j] = IF j <= 0 THEN src[j] ELSE a[j]
        <4> HIDE DEF a
        <4> QED BY <1>1
      <3>3. Buffer(src, m, 0) = [j \in 1 .. N + 1 |-> IF j <= 0 THEN src[j] ELSE a[j]]
        BY <1>1, Zenon DEF Buffer
      <3> HIDE DEF a, N
      <3>4. a = Buffer(src, m, 0)
        BY <3>1, <3>2, <3>3, Zenon
      <3> QED BY <3>4 DEF a
    <2> QED BY <2>2, <2>3, Zenon DEF Decoded
  <1>3. ASSUME NEW n \in 1 .. N
        PROVE  DecodeRound(Decoded(src, m, lesser(n - 1))) = Decoded(src, m, lesser(n))
    <2>1. CASE n <= m
      <3>1. lesser(n - 1) = n - 1 /\ n - 1 \in 0 .. m - 1 /\ (n - 1) + 1 = n /\ lesser(n) = n
        BY <1>1, <2>1
      <3> HIDE DEF lesser
      <3> QED BY <3>1, DecodeOne
    <2>2. CASE ~(n <= m)
      <3>1. lesser(n - 1) = m /\ lesser(n) = m
        BY <1>1, <2>2
      <3> HIDE DEF lesser
      <3> QED BY <3>1, DecodeEnd
    <2> QED BY <2>1, <2>2
  <1>4. lesser(0) = 0 /\ lesser(N) = m
    BY <1>1
  <1> HIDE DEF N, first, lesser
  <1>5. P(g)
    <2>1. ASSUME NEW n \in 0 .. N
          PROVE  {Decoded(src, m, lesser(n))}
                   = IF n = 0 THEN {first} ELSE {DecodeRound(o) : o \in g[n - 1]}
      <3>1. CASE n = 0
        BY <1>2, <1>4, <3>1
      <3>2. CASE n # 0
        <4>1. n \in 1 .. N /\ n - 1 \in 0 .. N
          BY <1>1, <3>2
        <4>2. g[n - 1] = {Decoded(src, m, lesser(n - 1))}
          BY <4>1
        <4> QED BY <1>3, <3>2, <4>1, <4>2
      <3> QED BY <3>1, <3>2
    <2> QED BY <2>1, Zenon
  <1>6. P(CHOOSE h : P(h))
    <2> HIDE DEF P
    <2> QED BY <1>5, Zenon
  <1> DEFINE R == DecodeRounds(string)
  <1>7. P(R)
    BY <1>6, Zenon DEF DecodeRounds, N, first
  <1> HIDE DEF R, string
  <1>8. \A n \in 0 .. N : R[n] = {Decoded(src, m, lesser(n))}
    <2> DEFINE S == {n \in Nat : n <= N => R[n] = {Decoded(src, m, lesser(n))}}
    <2>1. 0 \in S
      <3>1. 0 \in 0 .. N
        BY <1>1
      <3>2. R[0] = {first}
        BY <1>7, <3>1
      <3> QED BY <1>2, <1>4, <3>2
    <2>2. ASSUME NEW n \in Nat, n \in S PROVE n + 1 \in S
      <3> SUFFICES ASSUME n + 1 <= N PROVE R[n + 1] = {Decoded(src, m, lesser(n + 1))}
        OBVIOUS
      <3>1. n + 1 \in 0 .. N /\ n + 1 \in 1 .. N /\ n + 1 # 0 /\ (n + 1) - 1 = n /\ n <= N
        BY <1>1
      <3>2. R[n + 1] = {DecodeRound(o) : o \in R[n]}
        <4>1. R[n + 1] = {DecodeRound(o) : o \in R[(n + 1) - 1]}
          BY <1>7, <3>1
        <4> QED BY <3>1, <4>1
      <3>3. R[n] = {Decoded(src, m, lesser(n))}
        BY <2>2, <3>1
      <3>4. DecodeRound(Decoded(src, m, lesser(n))) = Decoded(src, m, lesser(n + 1))
        BY <1>3, <3>1
      <3> QED BY <3>2, <3>3, <3>4, Zenon
    <2>3. Nat \subseteq S
      <3> HIDE DEF S
      <3> QED BY <2>1, <2>2, Induct
    <2> QED BY <1>1, <2>3
  <1> DEFINE last == Decoded(src, m, m)
  <1>9. R[N] = {last}
    BY <1>1, <1>4, <1>8
  <1>10. (CHOOSE o \in R[N] : TRUE) = last
    <2> HIDE DEF last
    <2> QED BY <1>9
  <1>11. SubSeq(Buffer(src, m, m), 1, m) = SubSeq(src, 1, m)
    <2> DEFINE b == Buffer(src, m, m)
               a == Append(string, 0)
    <2>1. b = [j \in 1 .. N + 1 |-> IF j <= m THEN src[j] ELSE a[j]]
      BY <1>1, Zenon DEF Buffer, string
    <2>2. ASSUME NEW j \in 1 .. m PROVE b[j] = src[j]
      <3>1. j \in 1 .. N + 1 /\ j <= m
        BY <1>1
      <3> HIDE DEF b, a
      <3> QED BY <2>1, <3>1
    <2>3. b \in Seq({b[j] : j \in 1 .. N + 1} \cup Octets) /\ Len(b) = N + 1
      <3> HIDE DEF a
      <3>1. b = [j \in 1 .. N + 1 |-> b[j]]
        BY <2>1
      <3> HIDE DEF b
      <3>2. b \in [1 .. N + 1 -> {b[j] : j \in 1 .. N + 1} \cup Octets]
        BY <3>1
      <3>3. N + 1 \in Nat
        BY <1>1
      <3> HIDE DEF b
      <3> QED BY <3>2, <3>3, ListOf
    <2>4. src \in Seq({b[j] : j \in 1 .. N + 1} \cup Octets)
      <3> HIDE DEF b
      <3> QED BY Widened
    <2> DEFINE T == {b[j] : j \in 1 .. N + 1} \cup Octets
    <2>5. m <= Len(b) /\ m <= Len(src) /\ b \in Seq(T) /\ src \in Seq(T)
      <3> HIDE DEF b
      <3> QED BY <1>1, <2>3, <2>4
    <2>6. \A j \in 1 .. m : b[j] = src[j]
      BY <2>2
    <2> HIDE DEF b, T
    <2>7. SubSeq(b, 1, m) = SubSeq(src, 1, m)
      BY <1>1, <2>5, <2>6, PrefixEqual, Zenon
    <2> QED BY <2>7 DEF b
  <1>12. ee_decode_char_string_in_place(string) = [error |-> FALSE, bytes |-> SubSeq(src, 1, m)]
    <2>1. last.error = FALSE /\ last.buf = Buffer(src, m, m) /\ last.ds = m
      BY DEF Decoded
    <2> HIDE DEF last
    <2> QED BY <1>10, <1>11, <2>1, Zenon DEF ee_decode_char_string_in_place, R, N
  <1> QED BY <1>12 DEF string

(* ee_encode stops after as many bytes as there is room for. *)
LEMMA EncodesPrefix ==
    ASSUME NEW src \in Seq(Octets), NEW dl \in Nat
    PROVE  /\ ee_encode(src, dl).ss \in 0 .. Len(src)
           /\ ee_encode(src, dl).dst = EncodedBytes(src)[ee_encode(src, dl).ss]
           /\ Len(ee_encode(src, dl).dst) <= dl
           /\ Width(src, Len(src)) <= dl => ee_encode(src, dl).ss = Len(src)
  <1> DEFINE S == {n \in 0 .. Len(src) : HasRoom(EncodedBytes(src)[n], dl)}
             ss == Max(S)
  <1>1. Len(src) \in Nat /\ S \in SUBSET (0 .. Len(src))
    OBVIOUS
  <1>2. 0 \in S
    <2>1. 0 \in 0 .. Len(src)
      OBVIOUS
    <2>2. Width(src, 0) \in Nat /\ Width(src, 0) <= 2 * 0
      BY <2>1, WidthIs
    <2>3. Width(src, 0) <= dl
      BY <2>2
    <2> QED BY <2>1, <2>3 DEF HasRoom, Width
  <1>3. ss \in S /\ \A y \in S : ss >= y
    <2>1. \E x \in S : \A y \in S : x >= y
      <3> HIDE DEF S
      <3> QED BY <1>1, <1>2, GreatestOf
    <2> HIDE DEF S
    <2> QED BY <2>1, Zenon DEF Max
  <1>4. ee_encode(src, dl) = [dst |-> EncodedBytes(src)[ss], ss |-> ss]
    BY Zenon DEF ee_encode
  <1> DEFINE e == ee_encode(src, dl)
  <1> HIDE DEF ss, e
  <1>5. e.ss = ss /\ e.dst = EncodedBytes(src)[ss]
    BY <1>4 DEF e
  <1>6. Len(EncodedBytes(src)[ss]) <= dl
    BY <1>3 DEF HasRoom
  <1>7. Width(src, Len(src)) <= dl => ss = Len(src)
    <2>1. ss \in 0 .. Len(src)
      BY <1>3
    <2>2. Width(src, Len(src)) <= dl => Len(src) \in S
      BY <1>1 DEF HasRoom, Width
    <2> QED BY <1>1, <1>3, <2>1, <2>2
  <1> QED BY <1>3, <1>5, <1>6, <1>7 DEF e

(* An encoding holds no zero: it passes through load_c_string whole. *)
LEMMA PassesWhole ==
    ASSUME NEW s \in Seq(1 .. 255)
    PROVE  load_c_string(Append(s, 0)) = s
  <1> DEFINE a == Append(s, 0)
             zeros == {i \in DOMAIN a : a[i] = 0}
             N == Len(s)
  <1>1. s \in Seq(Nat) /\ N \in Nat
    <2>1. 1 .. 255 \subseteq Nat
      OBVIOUS
    <2>2. s \in Seq(Nat)
      BY <2>1, Widened
    <2> QED BY <2>2
  <1>2. /\ a \in Seq(Nat) /\ Len(a) = N + 1 /\ DOMAIN a = 1 .. N + 1
        /\ \A i \in 1 .. N : a[i] = s[i]
        /\ a[N + 1] = 0
    <2>1. /\ a \in Seq(Nat) /\ Len(a) = N + 1
          /\ \A i \in 1 .. N : a[i] = s[i]
          /\ a[N + 1] = 0
      BY <1>1, AppendProperties
    <2> HIDE DEF a
    <2> QED BY <2>1, LenProperties
  <1>3. \A i \in 1 .. N : s[i] # 0
    <2>1. s \in [1 .. N -> 1 .. 255]
      BY LenProperties
    <2>2. \A x \in 1 .. 255 : x # 0
      OBVIOUS
    <2> HIDE DEF N
    <2> QED BY ONLY <2>1, <2>2
  <1> HIDE DEF a, N
  <1>4. zeros = {N + 1}
    BY <1>1, <1>2, <1>3
  <1> DEFINE end == CHOOSE i \in zeros : \A j \in zeros : i <= j
  <1>5. end = N + 1
    <2>1. N + 1 <= N + 1
      BY <1>1
    <2> HIDE DEF zeros
    <2>2. end \in zeros
      BY <1>4, <2>1, Zenon
    <2> HIDE DEF end
    <2> QED BY <1>4, <2>2
  <1>6. load_c_string(a) = SubSeq(a, 1, end - 1)
    BY Zenon DEF load_c_string
  <1>7. end - 1 = N
    <2> HIDE DEF end
    <2> QED BY <1>1, <1>5
  <1>8. SubSeq(a, 1, N) = SubSeq(s, 1, N)
    <2>1. N <= Len(a) /\ N <= Len(s) /\ N \in Nat /\ s \in Seq(Nat) /\ a \in Seq(Nat)
      BY <1>1, <1>2 DEF N
    <2> QED BY <1>2, <2>1, PrefixEqual
  <1>9. SubSeq(s, 1, N) = s
    BY <1>1, SubSeqFull DEF N
  <1> QED BY <1>6, <1>7, <1>8, <1>9 DEF a

-----------------------------------------------------------------------------
(* The properties of EscapeEncoding *)

SourceTyped == source \in Seq(Octets)

LEMMA SourceInvariant == CodecsSpec => []SourceTyped
  <1>1. CodecsInit => SourceTyped
    BY DEF CodecsInit, SourceTyped
  <1>2. SourceTyped /\ [CodecsNext]_codec_vars => SourceTyped'
    <2> SUFFICES ASSUME SourceTyped, [CodecsNext]_codec_vars PROVE SourceTyped'
      OBVIOUS
    <2>1. ASSUME NEW x \in Byte, longer(x) PROVE SourceTyped'
      <3>1. x \in Octets
        BY CodecsAssumption DEF Octets
      <3>2. source' = Append(source, x) /\ source \in Seq(Octets)
        BY <2>1 DEF longer, SourceTyped
      <3> QED BY <3>1, <3>2, AppendProperties DEF SourceTyped
    <2>2. CASE source' = source
      BY <2>2 DEF SourceTyped
    <2>3. ASSUME NEW s, Edited(s) PROVE source' = source
      BY <2>3 DEF Edited
    <2> QED BY <2>1, <2>2, <2>3 DEF CodecsNext, change, insert, leave_out, codec_vars
  <1> QED BY <1>1, <1>2, PTL DEF CodecsSpec

(* Whatever the bytes, they come through an argument of the spawned VM as  *)
(* they were: ee_encode into the room that ee_maximum_encoding_length      *)
(* gives, load_c_string up to the first zero, and                          *)
(* ee_decode_char_string_in_place over the same buffer.                    *)
THEOREM ArgvRoundTripHolds == CodecsSpec => []ArgvRoundTrip
  <1>1. SourceTyped => ArgvRoundTrip
    <2> SUFFICES ASSUME SourceTyped PROVE ArgvRoundTrip
      OBVIOUS
    <2> DEFINE m == Len(source)
               room == ee_maximum_encoding_length(m)
               e == ee_encode(source, room)
               d == ee_decode_char_string_in_place(e.dst)
    <2>0. source \in Seq(Octets)
      BY DEF SourceTyped
    <2>1. m \in 0 .. Len(source) /\ room \in Nat /\ Width(source, m) <= room
      <3>1. m \in 0 .. Len(source) /\ room = 2 * m /\ m \in Nat
        BY <2>0 DEF ee_maximum_encoding_length
      <3> HIDE DEF room
      <3>2. Width(source, m) \in Nat /\ Width(source, m) <= 2 * m
        BY <2>0, <3>1, WidthIs
      <3> QED BY <3>1, <3>2
    <2> HIDE DEF room
    <2>2. e.ss = m /\ e.dst = EncodedBytes(source)[m]
      BY <2>0, <2>1, EncodesPrefix
    <2> HIDE DEF e
    <2>3. ~d.error /\ d.bytes = source
      <3>1. ~d.error /\ d.bytes = SubSeq(source, 1, m)
        BY <2>0, <2>1, <2>2, DecodesPrefix
      <3>2. SubSeq(source, 1, m) = source
        BY <2>0, SubSeqFull
      <3> HIDE DEF d
      <3> QED BY <3>1, <3>2
    <2>4. load_c_string(Append(e.dst, 0)) = e.dst
      <3>1. e.dst \in Seq(1 .. 255)
        <4>1. EncodedBytes(source) \in [0 .. m -> Seq(1 .. 255)]
          BY <2>0, EncodedIs
        <4> QED BY <2>1, <2>2, <4>1
      <3> QED BY <3>1, PassesWhole
    <2> QED BY <2>2, <2>3, <2>4, Zenon DEF ArgvRoundTrip, e, room
  <1> QED BY <1>1, SourceInvariant, PTL

(* A buffer of any smaller size gets whole escapes only, none of them past *)
(* its end, and what is in it decodes to a prefix of the source.           *)
THEOREM ShortBufferIsPrefixHolds == CodecsSpec => []ShortBufferIsPrefix
  <1>1. SourceTyped => ShortBufferIsPrefix
    <2> SUFFICES ASSUME SourceTyped, NEW dl \in 0 .. ee_maximum_encoding_length(Len(source))
                 PROVE  LET e == ee_encode(source, dl)
                            d == ee_decode_char_string_in_place(e.dst)
                        IN  /\ Len(e.dst) <= dl
                            /\ ~d.error /\ d.bytes = SubSeq(source, 1, e.ss)
      BY Zenon DEF ShortBufferIsPrefix
    <2> DEFINE e == ee_encode(source, dl)
    <2>1. source \in Seq(Octets) /\ dl \in Nat
      BY DEF SourceTyped, ee_maximum_encoding_length
    <2>2. Len(e.dst) <= dl /\ e.ss \in 0 .. Len(source) /\ e.dst = EncodedBytes(source)[e.ss]
      BY <2>1, EncodesPrefix
    <2> HIDE DEF e
    <2>3. LET d == ee_decode_char_string_in_place(EncodedBytes(source)[e.ss])
          IN  ~d.error /\ d.bytes = SubSeq(source, 1, e.ss)
      BY <2>1, <2>2, DecodesPrefix
    <2> QED BY <2>2, <2>3, Zenon DEF e
  <1> QED BY <1>1, SourceInvariant, PTL

-----------------------------------------------------------------------------
(* Molecule: numbers and slices *)

LEMMA Sizes == NUMBER_SIZE \in Nat /\ NUMBER_SIZE >= 1 /\ Base \in Nat /\ Base >= 2
               /\ IndexSize \in Nat /\ IndexSize >= 1
  BY MoleculeAssumption

(* What unpack_number reads, from its last byte on. *)
Unpacking(h, s, at) ==
    /\ h \in [0 .. NUMBER_SIZE -> Int] /\ h[0] = 0 /\ unpack_number(s, at) = h[NUMBER_SIZE]
    /\ \A k \in 1 .. NUMBER_SIZE : h[k] = h[k - 1] * Base + s[at + NUMBER_SIZE + 1 - k]

LEMMA UnpackIs ==
    ASSUME NEW s, NEW at, \A k \in 1 .. NUMBER_SIZE : s[at + NUMBER_SIZE + 1 - k] \in Int
    PROVE  \E h : Unpacking(h, s, at)
  <1> DEFINE m == NUMBER_SIZE
             d(n) == s[at + NUMBER_SIZE + 1 - n]
             F == [n \in 1 .. m |-> [x \in Int |-> x * Base + d(n)]]
             P(h) == h = [n \in 0 .. m |-> IF n = 0 THEN 0 ELSE h[n - 1] * Base + d(n)]
  <1>0. m \in Nat /\ Base \in Int /\ m \in 0 .. m
    BY Sizes
  <1>1. \A n \in 1 .. m : d(n) \in Int
    OBVIOUS
  <1> HIDE DEF m, d
  <1>2. F \in [1 .. m -> [Int -> Int]]
    <2>1. \A n \in 1 .. m : \A x \in Int : x * Base + d(n) \in Int
      BY <1>0, <1>1
    <2>2. \A n \in 1 .. m : [x \in Int |-> x * Base + d(n)] \in [Int -> Int]
      BY <2>1, Zenon
    <2> QED BY <2>2, Zenon
  <1>3. PICK g : RecursionUpto(m, g, Int, 0, F)
    <2> DEFINE X == Int
               z == 0
    <2>1. m \in Nat /\ z \in X /\ F \in [1 .. m -> [X -> X]]
      <3> HIDE DEF F
      <3> QED BY <1>0, <1>2
    <2> HIDE DEF F, X, z
    <2>2. \E g : RecursionUpto(m, g, X, z, F)
      BY <2>1, IteratesUpto
    <2> QED BY <2>2 DEF X, z
  <1>4. /\ g \in [0 .. m -> Int] /\ g[0] = 0
        /\ \A n \in 1 .. m : g[n] = g[n - 1] * Base + d(n)
    <2>1. g \in [0 .. m -> Int] /\ g[0] = 0 /\ \A n \in 1 .. m : g[n] = F[n][g[n - 1]]
      <3> HIDE DEF F
      <3> QED BY <1>3 DEF RecursionUpto
    <2>2. ASSUME NEW n \in 1 .. m PROVE F[n][g[n - 1]] = g[n - 1] * Base + d(n)
      <3>1. n - 1 \in 0 .. m
        BY <1>0
      <3>2. g[n - 1] \in Int
        <4> HIDE DEF F
        <4> QED BY <2>1, <3>1
      <3> QED BY <3>2
    <2> HIDE DEF F
    <2> QED BY <2>1, <2>2
  <1>5. P(g)
    <2>1. \A n \in 0 .. m : g[n] = IF n = 0 THEN 0 ELSE g[n - 1] * Base + d(n)
      <3>1. \A n \in 0 .. m : n = 0 \/ n \in 1 .. m
        BY <1>0
      <3> HIDE DEF F
      <3> QED BY <1>4, <3>1
    <2>2. g = [n \in 0 .. m |-> g[n]]
      BY <1>4
    <2> QED BY <2>1, <2>2, Zenon
  <1>6. P(CHOOSE h : P(h))
    <2> HIDE DEF P
    <2> QED BY <1>5, Zenon
  <1> DEFINE h == CHOOSE h : P(h)
  <1>7. unpack_number(s, at) = h[NUMBER_SIZE]
    BY Zenon DEF unpack_number, m, d
  <1> HIDE DEF h
  <1>8. P(h)
    BY <1>6, Zenon DEF h
  <1>9. h[0] = 0 /\ \A n \in 1 .. m : h[n] = h[n - 1] * Base + d(n)
    <2>1. 0 \in 0 .. m /\ \A n \in 1 .. m : n \in 0 .. m /\ n # 0
      BY <1>0
    <2> QED BY <1>8, <2>1
  <1>10. h \in [0 .. m -> Int]
    <2> DEFINE S == {n \in Nat : n <= m => h[n] \in Int}
    <2>1. 0 \in S
      BY <1>9
    <2>2. ASSUME NEW n \in Nat, n \in S PROVE n + 1 \in S
      <3> SUFFICES ASSUME n + 1 <= m PROVE h[n + 1] \in Int
        OBVIOUS
      <3>1. n + 1 \in 1 .. m /\ (n + 1) - 1 = n /\ h[n] \in Int
        BY <1>0, <2>2
      <3>2. h[n + 1] = h[n] * Base + d(n + 1)
        BY <1>9, <3>1
      <3>3. d(n + 1) \in Int
        BY <1>1, <3>1
      <3> QED BY <1>0, <3>1, <3>2, <3>3
    <2>3. Nat \subseteq S
      <3> HIDE DEF S
      <3> QED BY <2>1, <2>2, Induct
    <2>4. \A n \in 0 .. m : h[n] \in Int
      BY <1>0, <2>3
    <2>5. h = [n \in 0 .. m |-> h[n]]
      BY <1>8
    <2> QED BY <2>4, <2>5
  <1> QED BY <1>7, <1>9, <1>10, Zenon DEF Unpacking, m, d

LEMMA UnpackInt ==
    ASSUME NEW s \in Seq(Int), NEW at \in Nat, at + NUMBER_SIZE <= Len(s)
    PROVE  unpack_number(s, at) \in Int
  <1>1. ASSUME NEW k \in 1 .. NUMBER_SIZE PROVE s[at + NUMBER_SIZE + 1 - k] \in Int
    <2>1. at + NUMBER_SIZE + 1 - k \in 1 .. Len(s)
      BY Sizes
    <2> QED BY <2>1
  <1>2. PICK h : Unpacking(h, s, at)
    BY <1>1, UnpackIs
  <1>3. NUMBER_SIZE \in 0 .. NUMBER_SIZE
    BY Sizes
  <1> QED BY <1>2, <1>3 DEF Unpacking

-----------------------------------------------------------------------------
(* What verification says of a slice, and why it can then be read *)

LEMMA DivMod ==
    ASSUME NEW x \in Int, NEW n \in Nat \ {0}
    PROVE  x \div n \in Int /\ x % n \in 0 .. n - 1 /\ x = n * (x \div n) + (x % n)
  OBVIOUS

LEMMA Times ==
    ASSUME NEW a \in Nat, NEW b \in Nat, a <= b
    PROVE  /\ NUMBER_SIZE * a \in Nat /\ NUMBER_SIZE * a <= NUMBER_SIZE * b
           /\ NUMBER_SIZE * (a + 1) = NUMBER_SIZE * a + NUMBER_SIZE
  BY Sizes

(* The header of a dynvec with items, or of a table: there are c parts,    *)
(* each begins where its offset says, and ends where the next one begins   *)
(* or with the slice.                                                      *)
Headed(s, c) ==
    /\ c \in Nat \ {0} /\ Count(s) = c /\ ItemCount(s) = c
    /\ NUMBER_SIZE * (c + 1) <= Len(s) /\ Len(s) # NUMBER_SIZE
    /\ \A i \in 1 .. c : unpack_number(s, NUMBER_SIZE * i) = offsets(s)[i]
    /\ \A i \in 1 .. c + 1 : offsets(s)[i] \in Nat /\ offsets(s)[i] <= Len(s)
    /\ offsets(s)[1] = NUMBER_SIZE * (c + 1) /\ offsets(s)[c + 1] = Len(s)
    /\ \A i \in 1 .. c : offsets(s)[i] <= offsets(s)[i + 1]
    /\ \A i \in 1 .. c : Part(s, i) \in Seq(Int)

LEMMA HeadedIs ==
    ASSUME NEW s \in Seq(Int), SizeOk(s), HeaderOk(s), Rising(s)
    PROVE  Headed(s, Count(s))
  <1> DEFINE c == Count(s)
             of == OffsetFirst(s)
             N == NUMBER_SIZE
             q == of \div N
             un(i) == unpack_number(s, NUMBER_SIZE * i)
             L == Len(s)
  <1>0. L \in Nat /\ N \in Nat /\ N >= 1
    BY Sizes
  <1>1. of \in Int /\ of >= N * 2 /\ of % N = 0 /\ L >= of
    <2>1. N + N <= L
      BY <1>0 DEF HeaderOk
    <2> QED BY <1>0, <2>1, UnpackInt DEF OffsetFirst, HeaderOk
  <1>2. c \in Nat /\ c >= 1 /\ of = N * (c + 1)
    <2>1. q \in Int /\ of = N * q
      <3> HIDE DEF of, N
      <3>1. N \in Nat \ {0}
        BY <1>0
      <3>2. q \in Int /\ of % N \in 0 .. N - 1 /\ of = N * q + (of % N)
        BY <1>1, <3>1, DivMod, Zenon
      <3>3. N * q \in Int
        <4> HIDE DEF q
        <4> QED BY <1>0, <3>2
      <3> HIDE DEF q
      <3> QED BY <1>0, <1>1, <3>2, <3>3
    <2>2. q >= 2
      <3> HIDE DEF q, of, N
      <3> QED BY <1>0, <1>1, <2>1
    <2>3. c = q - 1
      BY DEF Count
    <2> HIDE DEF q, of, c, N
    <2> QED BY <2>1, <2>2, <2>3
  <1>3. N * (c + 1) <= L /\ L # N
    <2> HIDE DEF of, c, N
    <2> QED BY <1>0, <1>1, <1>2
  <1>4. ItemCount(s) = c
    <2>1. unpack_number(s, 0) = L
      BY DEF SizeOk
    <2> QED BY <1>3, <2>1 DEF ItemCount
  <1>5. \A i \in 1 .. c : un(i) \in Int
    <2> SUFFICES ASSUME NEW i \in 1 .. c PROVE un(i) \in Int
      OBVIOUS
    <2>1. i \in Nat /\ i + 1 \in Nat /\ c + 1 \in Nat /\ i + 1 <= c + 1
      BY <1>2
    <2>2. N * i \in Nat /\ N * (i + 1) = N * i + N /\ N * (i + 1) <= N * (c + 1)
      <3>1. i <= i + 1
        BY <2>1
      <3> HIDE DEF c
      <3> QED BY <2>1, <3>1, Times
    <2>3. N * i + N <= L
      <3> HIDE DEF c, N
      <3>1. N * (c + 1) \in Int /\ N * i \in Int
        BY <1>0, <2>1
      <3> QED BY <1>0, <1>3, <2>2, <3>1
    <2> QED BY <2>2, <2>3, UnpackInt
  <1> DEFINE o == offsets(s)
             t == [i \in 1 .. c |-> un(i)]
  <1>6. (\A i \in 1 .. c : o[i] = un(i)) /\ o[c + 1] = L
    <2>1. o = Append(t, L)
      BY Zenon DEF offsets
    <2> HIDE DEF o, c, un, L
    <2>2. t \in Seq(Int) /\ Len(t) = c /\ \A i \in 1 .. c : t[i] = un(i)
      <3>1. t \in [1 .. c -> Int]
        BY <1>5
      <3>2. \A i \in 1 .. c : t[i] = un(i)
        OBVIOUS
      <3> HIDE DEF t
      <3> QED BY <1>2, <3>1, <3>2, ListOf
    <2> HIDE DEF t
    <2>3. L \in Int
      BY <1>0
    <2> QED BY <2>1, <2>2, <2>3, AppendProperties
  <1>7. \A i \in 1 .. c : o[i] <= o[i + 1]
    BY DEF Rising
  <1>8. o[1] \in Nat /\ o[1] = N * (c + 1)
    <2>1. N * 1 = N
      BY <1>0
    <2>2. un(1) = of
      BY <2>1 DEF OffsetFirst
    <2>3. 1 \in 1 .. c
      BY <1>2
    <2>4. o[1] = of
      <3> HIDE DEF un, of, o, c
      <3> QED BY <1>6, <2>2, <2>3
    <2> HIDE DEF o, of, N, c
    <2> QED BY <1>0, <1>1, <1>2, <2>4
  <1>9. \A i \in 1 .. c + 1 : o[i] \in Int
    <2> HIDE DEF o, c, un
    <2>1. \A i \in 1 .. c + 1 : i \in 1 .. c \/ i = c + 1
      BY <1>2
    <2> QED BY <1>0, <1>5, <1>6, <2>1
  <1>10. \A i \in 1 .. c + 1 : o[i] \in Nat
    <2> HIDE DEF o, c, un
    <2> DEFINE S == {i \in Nat : i + 1 <= c + 1 => o[i + 1] \in Nat}
    <2>1. 0 \in S
      BY <1>8
    <2>2. ASSUME NEW i \in Nat, i \in S PROVE i + 1 \in S
      <3> SUFFICES ASSUME (i + 1) + 1 <= c + 1 PROVE o[(i + 1) + 1] \in Nat
        OBVIOUS
      <3>1. i + 1 \in 1 .. c /\ (i + 1) + 1 \in 1 .. c + 1 /\ o[i + 1] \in Nat
        BY <1>2, <2>2
      <3>2. o[i + 1] <= o[(i + 1) + 1] /\ o[(i + 1) + 1] \in Int
        BY <1>7, <1>9, <3>1
      <3> QED BY <3>1, <3>2
    <2>3. Nat \subseteq S
      <3> HIDE DEF S
      <3> QED BY <2>1, <2>2, Induct
    <2>4. \A i \in 1 .. c + 1 : i - 1 \in Nat /\ (i - 1) + 1 = i /\ i <= c + 1
      BY <1>2
    <2> QED BY <2>3, <2>4
  <1>11. \A i \in 1 .. c + 1 : o[i] <= L
    <2> HIDE DEF o, c, un, L
    <2> DEFINE S == {j \in Nat : j <= c => o[(c + 1) - j] <= L}
    <2>1. 0 \in S
      <3>1. (c + 1) - 0 = c + 1
        BY <1>2
      <3> QED BY <1>0, <1>6, <3>1
    <2>2. ASSUME NEW j \in Nat, j \in S PROVE j + 1 \in S
      <3> SUFFICES ASSUME j + 1 <= c PROVE o[(c + 1) - (j + 1)] <= L
        OBVIOUS
      <3>1. /\ (c + 1) - (j + 1) \in 1 .. c /\ ((c + 1) - (j + 1)) + 1 = (c + 1) - j
            /\ (c + 1) - j \in 1 .. c + 1 /\ (c + 1) - (j + 1) \in 1 .. c + 1
        BY <1>2
      <3>2. o[(c + 1) - (j + 1)] <= o[(c + 1) - j]
        BY <1>7, <3>1
      <3>3. o[(c + 1) - j] <= L
        BY <1>2, <2>2
      <3>4. o[(c + 1) - j] \in Int /\ o[(c + 1) - (j + 1)] \in Int
        BY <1>9, <3>1
      <3> QED BY <1>0, <3>2, <3>3, <3>4
    <2>3. Nat \subseteq S
      <3> HIDE DEF S
      <3> QED BY <2>1, <2>2, Induct
    <2>4. \A i \in 1 .. c + 1 : (c + 1) - i \in Nat /\ (c + 1) - i <= c /\ (c + 1) - ((c + 1) - i) = i
      BY <1>2
    <2> QED BY <2>3, <2>4
  <1>12. ASSUME NEW i \in 1 .. c PROVE Part(s, i) \in Seq(Int)
    <2>1. i \in 1 .. c + 1 /\ i + 1 \in 1 .. c + 1
      BY <1>2
    <2>2. o[i] \in Nat /\ o[i + 1] \in Nat /\ o[i + 1] <= L
      BY <1>10, <1>11, <2>1
    <2>3. SubSeq(s, o[i] + 1, o[i + 1]) \in Seq(Int)
      <3> HIDE DEF o
      <3>1. \A j \in o[i] + 1 .. o[i + 1] : j \in 1 .. Len(s)
        BY <2>2
      <3>2. \A j \in o[i] + 1 .. o[i + 1] : s[j] \in Int
        BY <3>1
      <3>3. o[i] + 1 \in Int /\ o[i + 1] \in Int
        BY <2>2
      <3> QED BY <3>2, <3>3, SubSeqProperties
    <2> QED BY <2>3 DEF Part, Slice
  <1>13. /\ c \in Nat \ {0} /\ \A i \in 1 .. c : un(i) = o[i]
         /\ \A i \in 1 .. c + 1 : o[i] \in Nat /\ o[i] <= L
    <2>1. c \in Nat \ {0}
      BY <1>2
    <2> HIDE DEF c, o, un, L
    <2> QED BY <1>6, <1>10, <1>11, <2>1
  <1> HIDE DEF c
  <1>14. Headed(s, c)
    BY <1>3, <1>4, <1>6, <1>7, <1>8, <1>12, <1>13, Zenon DEF Headed, c
  <1> QED BY <1>14 DEF c

(* A verified table: its accessors return its parts. *)
LEMMA TableIs ==
    ASSUME NEW s \in Seq(Int), NEW f \in Nat \ {0}, TableOk(s, f, TRUE)
    PROVE  /\ TableSafe(s, f)
           /\ \A i \in 1 .. f : field(s, f, i) = Part(s, i) /\ Part(s, i) \in Seq(Int)
  <1> DEFINE c == Count(s)
             N == NUMBER_SIZE
             o == offsets(s)
             L == Len(s)
  <1>0. Headed(s, c)
    BY HeadedIs DEF TableOk
  <1>1. c \in Nat /\ f <= c /\ L \in Nat
    BY <1>0 DEF TableOk, FieldsOk, Headed
  <1>2. /\ ItemCount(s) = c /\ N * (c + 1) <= L
        /\ \A i \in 1 .. c : unpack_number(s, N * i) = o[i]
        /\ \A i \in 1 .. c + 1 : o[i] \in Nat /\ o[i] <= L
        /\ o[c + 1] = L
        /\ \A i \in 1 .. c : o[i] <= o[i + 1]
        /\ \A i \in 1 .. c : Part(s, i) \in Seq(Int)
    BY <1>0, Zenon DEF Headed
  <1> HIDE DEF c, o, L
  <1>3. ASSUME NEW i \in 1 .. f PROVE FieldEnd(s, f, i) = o[i + 1]
    <2>1. CASE i < f \/ ItemCount(s) # f
      <3>1. i + 1 \in 1 .. c
        BY <1>1, <1>2, <2>1
      <3> QED BY <1>2, <2>1, <3>1, Zenon DEF FieldEnd
    <2>2. CASE ~(i < f \/ ItemCount(s) # f)
      <3>1. i + 1 = c + 1
        BY <1>1, <1>2, <2>2
      <3> QED BY <1>2, <2>2, <3>1, Zenon DEF FieldEnd, L
    <2> QED BY <2>1, <2>2
  <1>4. ASSUME NEW i \in 1 .. f
        PROVE  /\ field(s, f, i) = Part(s, i) /\ Part(s, i) \in Seq(Int)
               /\ InRange(s, unpack_number(s, N * i), FieldEnd(s, f, i))
    <2>1. i \in 1 .. c /\ i \in 1 .. c + 1 /\ i + 1 \in 1 .. c + 1
      BY <1>1
    <2>2. unpack_number(s, N * i) = o[i] /\ FieldEnd(s, f, i) = o[i + 1]
      BY <1>2, <1>3, <2>1
    <2>3. field(s, f, i) = Part(s, i)
      BY <2>2, Zenon DEF field, Part, o
    <2> QED BY <1>2, <2>1, <2>2, <2>3 DEF InRange, L
  <1>5. CanUnpack(s, N * f) /\ (ItemCount(s) # f => CanUnpack(s, N * (f + 1)))
    <2>1. ASSUME NEW i \in Nat, i <= c PROVE CanUnpack(s, N * i)
      <3>1. i + 1 <= c + 1 /\ i + 1 \in Nat /\ c + 1 \in Nat /\ i <= i + 1
        BY <1>1, <2>1
      <3>2. N * (i + 1) <= N * (c + 1) /\ N * (i + 1) = N * i + N
        BY <3>1, Times
      <3>3. N * (i + 1) \in Int /\ N * (c + 1) \in Int
        BY <3>1, Sizes
      <3> HIDE DEF N
      <3>4. N * i + N <= L
        BY <1>1, <1>2, <3>2, <3>3
      <3> QED BY <3>4 DEF CanUnpack, L, N
    <2>2. f \in Nat /\ (c # f => f + 1 <= c /\ f + 1 \in Nat)
      BY <1>1
    <2> QED BY <1>1, <1>2, <2>1, <2>2
  <1> QED BY <1>4, <1>5, Zenon DEF TableSafe

(* A verified dynvec: its items are its parts, those that were verified. *)
LEMMA DynvecIs ==
    ASSUME NEW s \in Seq(Int), DynvecOk(s)
    PROVE  /\ DynvecSafe(s)
           /\ \A i \in DOMAIN AllItems(s) :
                 /\ AllItems(s)[i] = Part(s, i)
                 /\ AllItems(s)[i] \in Items(s) /\ AllItems(s)[i] \in Seq(Int)
  <1> DEFINE c == Count(s)
             N == NUMBER_SIZE
             o == offsets(s)
             L == Len(s)
  <1>0. L \in Nat /\ N \in Nat /\ N >= 1 /\ L >= N /\ unpack_number(s, 0) = L
    BY Sizes DEF DynvecOk, SizeOk
  <1>1. CASE L = N
    <2>1. ItemCount(s) = 0
      BY <1>0, <1>1 DEF ItemCount
    <2>2. DOMAIN AllItems(s) = {}
      BY <2>1 DEF AllItems
    <2>3. DynvecSafe(s)
      <3>1. 0 + N <= L /\ N * 0 = 0
        BY <1>0
      <3>2. \A i \in 0 .. 0 - 1 : FALSE
        OBVIOUS
      <3> QED BY <1>0, <1>1, <2>1, <3>1, <3>2 DEF DynvecSafe, CanUnpack
    <2> QED BY <2>2, <2>3
  <1>2. CASE L # N
    <2>0. Headed(s, c)
      BY <1>2, HeadedIs DEF DynvecOk
    <2>2. /\ c \in Nat /\ c >= 1 /\ ItemCount(s) = c /\ N * (c + 1) <= L
          /\ \A i \in 1 .. c : unpack_number(s, N * i) = o[i]
          /\ \A i \in 1 .. c + 1 : o[i] \in Nat /\ o[i] <= L
          /\ o[c + 1] = L
          /\ \A i \in 1 .. c : o[i] <= o[i + 1]
          /\ \A i \in 1 .. c : Part(s, i) \in Seq(Int)
      <3>1. c \in Nat /\ c >= 1
        BY <2>0 DEF Headed
      <3> QED BY <2>0, <3>1, Zenon DEF Headed
    <2>3. Items(s) = {Part(s, i) : i \in 1 .. c}
      BY <1>2, Zenon DEF Items
    <2> HIDE DEF c, o, L
    <2>4. ASSUME NEW i \in 0 .. c - 1
          PROVE  /\ unpack_number(s, N * (1 + i)) = o[i + 1] /\ ItemEnd(s, i) = o[(i + 1) + 1]
                 /\ InRange(s, unpack_number(s, N * (1 + i)), ItemEnd(s, i))
                 /\ get_unchecked(s, i) = Part(s, i + 1)
      <3>1. 1 + i = i + 1 /\ i + 1 \in 1 .. c /\ i + 1 \in 1 .. c + 1 /\ (i + 1) + 1 \in 1 .. c + 1
        BY <2>2
      <3>2. unpack_number(s, N * (1 + i)) = o[i + 1]
        <4>1. unpack_number(s, N * (i + 1)) = o[i + 1]
          BY <2>2, <3>1
        <4> QED BY <3>1, <4>1
      <3>3. ItemEnd(s, i) = o[(i + 1) + 1]
        <4>1. CASE i = c - 1
          <5>1. (i + 1) + 1 = c + 1
            BY <2>2, <4>1
          <5>2. ItemEnd(s, i) = L
            BY <2>2, <4>1, Zenon DEF ItemEnd, L
          <5> QED BY <2>2, <5>1, <5>2
        <4>2. CASE i # c - 1
          <5>1. (i + 1) + 1 \in 1 .. c /\ 2 + i = (i + 1) + 1
            BY <2>2, <4>2
          <5>2. ItemEnd(s, i) = unpack_number(s, N * (2 + i))
            BY <2>2, <4>2, Zenon DEF ItemEnd
          <5>3. unpack_number(s, N * ((i + 1) + 1)) = o[(i + 1) + 1]
            BY <2>2, <5>1
          <5> QED BY <5>1, <5>2, <5>3
        <4> QED BY <4>1, <4>2
      <3>4. get_unchecked(s, i) = Part(s, i + 1)
        BY <3>2, <3>3, Zenon DEF get_unchecked, Part, o
      <3>5. o[i + 1] <= o[(i + 1) + 1] /\ o[(i + 1) + 1] <= L
        BY <2>2, <3>1
      <3> QED BY <3>2, <3>3, <3>4, <3>5, Zenon DEF InRange, L
    <2>5. DynvecSafe(s)
      <3>1. c <= c /\ N * (c + 1) = N * c + N /\ N * c \in Int /\ N * 1 = N /\ N * c >= N * 1
        BY <2>2, Sizes, Times
      <3>2. 0 + N <= L /\ N * c + N <= L /\ N + N <= L
        <4>1. ASSUME NEW n \in Nat, NEW l \in Nat, NEW x \in Int, x + n <= l, x >= n
              PROVE  0 + n <= l /\ x + n <= l /\ n + n <= l
          BY ONLY <4>1
        <4>2. N * c + N <= L /\ N * c >= N
          BY <2>2, <3>1, Zenon
        <4> HIDE DEF N
        <4> QED BY <1>0, <3>1, <4>1, <4>2
      <3> HIDE DEF N
      <3>3. CanUnpack(s, 0) /\ CanUnpack(s, N) /\ CanUnpack(s, N * c)
        BY <3>2, Zenon DEF CanUnpack, N, L
      <3> QED BY <2>2, <2>4, <3>3, Zenon DEF DynvecSafe, N
    <2>6. ASSUME NEW i \in DOMAIN AllItems(s)
          PROVE  /\ AllItems(s)[i] = Part(s, i)
                 /\ AllItems(s)[i] \in Items(s) /\ AllItems(s)[i] \in Seq(Int)
      <3>1. i \in 1 .. c /\ AllItems(s)[i] = get_unchecked(s, i - 1)
        BY <2>2, <2>6 DEF AllItems
      <3>2. i - 1 \in 0 .. c - 1 /\ (i - 1) + 1 = i
        BY <2>2, <3>1
      <3>3. AllItems(s)[i] = Part(s, i)
        BY <2>4, <3>1, <3>2
      <3> QED BY <2>2, <2>3, <3>1, <3>3, Zenon
    <2> QED BY <2>5, <2>6
  <1> QED BY <1>1, <1>2

LEMMA FixvecIs ==
    ASSUME NEW s \in Seq(Int), NEW size, FixvecOk(s, size)
    PROVE  FixvecSafe(s, size)
  <1>1. Len(s) \in Nat /\ NUMBER_SIZE <= Len(s) /\ Len(s) = NUMBER_SIZE + size * unpack_number(s, 0)
    BY Sizes DEF FixvecOk
  <1>2. 0 + NUMBER_SIZE <= Len(s) /\ 0 <= Len(s) /\ Len(s) <= Len(s)
    BY <1>1, Sizes
  <1>3. CanUnpack(s, 0)
    BY <1>2 DEF CanUnpack
  <1>4. InRange(s, 0, Len(s))
    BY <1>2 DEF InRange
  <1> QED BY <1>1, <1>3, <1>4, Zenon DEF FixvecSafe

LEMMA SpawnIsSafe == ASSUME NEW s \in Seq(Int), Spawn_verify(s, TRUE) PROVE SpawnSafe(s)
  <1>1. TableOk(s, 3, TRUE) /\ Len(Part(s, 1)) = IndexSize /\ Len(Part(s, 2)) = IndexSize
        /\ FixvecOk(Part(s, 3), IndexSize)
    BY DEF Spawn_verify, VmIndex_verify, PipeIndices_verify
  <1>2. TableSafe(s, 3) /\ \A i \in 1 .. 3 : field(s, 3, i) = Part(s, i) /\ Part(s, i) \in Seq(Int)
    <2>1. 3 \in Nat \ {0}
      OBVIOUS
    <2> QED BY <1>1, <2>1, TableIs, Zenon
  <1>3. 1 \in 1 .. 3 /\ 2 \in 1 .. 3 /\ 3 \in 1 .. 3
    OBVIOUS
  <1>4. FixvecSafe(field(s, 3, 3), IndexSize)
    BY <1>1, <1>2, <1>3, FixvecIs
  <1>5. Indices(s, 3, {1, 2})
    BY <1>1, <1>2, <1>3 DEF Indices, IndexSafe
  <1> QED BY <1>2, <1>4, <1>5 DEF SpawnSafe

LEMMA PipeIsSafe == ASSUME NEW s \in Seq(Int), Pipe_verify(s, TRUE) PROVE PipeSafe(s)
  <1>1. TableOk(s, 3, TRUE) /\ Len(Part(s, 1)) = IndexSize /\ Len(Part(s, 2)) = IndexSize
        /\ Len(Part(s, 3)) = IndexSize
    BY DEF Pipe_verify, VmIndex_verify, PipeIndex_verify
  <1>2. TableSafe(s, 3) /\ \A i \in 1 .. 3 : field(s, 3, i) = Part(s, i) /\ Part(s, i) \in Seq(Int)
    <2>1. 3 \in Nat \ {0}
      OBVIOUS
    <2> QED BY <1>1, <2>1, TableIs, Zenon
  <1>3. 1 \in 1 .. 3 /\ 2 \in 1 .. 3 /\ 3 \in 1 .. 3
    OBVIOUS
  <1>4. Indices(s, 3, {1, 2, 3})
    BY <1>1, <1>2, <1>3 DEF Indices, IndexSafe
  <1> QED BY <1>2, <1>4 DEF PipeSafe

LEMMA WriteIsSafe == ASSUME NEW s \in Seq(Int), Write_verify(s, TRUE) PROVE WriteSafe(s)
  <1>1. TableOk(s, 5, TRUE) /\ Len(Part(s, 1)) = IndexSize /\ Len(Part(s, 2)) = IndexSize
        /\ Len(Part(s, 3)) = IndexSize /\ Len(Part(s, 4)) = IndexSize
        /\ FixvecOk(Part(s, 5), 1)
    BY DEF Write_verify, VmIndex_verify, PipeIndex_verify, Bytes_verify
  <1>2. TableSafe(s, 5) /\ \A i \in 1 .. 5 : field(s, 5, i) = Part(s, i) /\ Part(s, i) \in Seq(Int)
    <2>1. 5 \in Nat \ {0}
      OBVIOUS
    <2> QED BY <1>1, <2>1, TableIs, Zenon
  <1>3. 5 \in 1 .. 5 /\ \A i \in 1 .. 4 : i \in 1 .. 5 /\ i \in {1, 2, 3, 4}
    OBVIOUS
  <1>4. FixvecSafe(field(s, 5, 5), 1)
    BY <1>1, <1>2, <1>3, FixvecIs
  <1>5. Indices(s, 5, 1 .. 4)
    <2>1. \A i \in {1, 2, 3, 4} : Len(Part(s, i)) = IndexSize
      BY <1>1
    <2> QED BY <1>2, <1>3, <2>1 DEF Indices, IndexSafe
  <1> QED BY <1>2, <1>4, <1>5 DEF WriteSafe

(* The witness a transaction brings can be anything.  One that compatible  *)
(* verification accepts can be read to its last field.                     *)
THEOREM DataIsSafe == ASSUME NEW s \in Seq(Int), Data_verify(s, TRUE) PROVE DataSafe(s)
  <1>1. /\ TableOk(s, 3, TRUE) /\ Spawns_verify(Part(s, 1), TRUE)
        /\ Pipes_verify(Part(s, 2), TRUE) /\ Writes_verify(Part(s, 3), TRUE)
    BY DEF Data_verify
  <1>2. TableSafe(s, 3) /\ \A i \in 1 .. 3 : field(s, 3, i) = Part(s, i) /\ Part(s, i) \in Seq(Int)
    <2>1. 3 \in Nat \ {0}
      OBVIOUS
    <2> QED BY <1>1, <2>1, TableIs, Zenon
  <1>3. /\ field(s, 3, 1) = Part(s, 1) /\ Part(s, 1) \in Seq(Int)
        /\ field(s, 3, 2) = Part(s, 2) /\ Part(s, 2) \in Seq(Int)
        /\ field(s, 3, 3) = Part(s, 3) /\ Part(s, 3) \in Seq(Int)
    BY <1>2
  <1>4. ASSUME NEW t \in Seq(Int), Spawns_verify(t, TRUE) PROVE EachItem(t, SpawnSafe)
    <2>1. DynvecOk(t) /\ \A x \in Items(t) : Spawn_verify(x, TRUE)
      BY <1>4 DEF Spawns_verify
    <2> QED BY <2>1, DynvecIs, SpawnIsSafe DEF EachItem
  <1>5. ASSUME NEW t \in Seq(Int), Pipes_verify(t, TRUE) PROVE EachItem(t, PipeSafe)
    <2>1. DynvecOk(t) /\ \A x \in Items(t) : Pipe_verify(x, TRUE)
      BY <1>5 DEF Pipes_verify
    <2> QED BY <2>1, DynvecIs, PipeIsSafe DEF EachItem
  <1>6. ASSUME NEW t \in Seq(Int), Writes_verify(t, TRUE) PROVE EachItem(t, WriteSafe)
    <2>1. DynvecOk(t) /\ \A x \in Items(t) : Write_verify(x, TRUE)
      BY <1>6 DEF Writes_verify
    <2> QED BY <2>1, DynvecIs, WriteIsSafe DEF EachItem
  <1> QED BY <1>1, <1>2, <1>3, <1>4, <1>5, <1>6 DEF DataSafe

-----------------------------------------------------------------------------
(* What is written: numbers and concatenations *)

Digits == 0 .. Base - 1

Packing(r, n) ==
    /\ r \in [0 .. NUMBER_SIZE -> Int] /\ r[0] = n
    /\ \A k \in 1 .. NUMBER_SIZE : r[k] = r[k - 1] \div Base
    /\ pack_number(n) = [k \in 1 .. NUMBER_SIZE |-> r[k - 1] % Base]

LEMMA PackIs ==
    ASSUME NEW v \in Int
    PROVE  \E r : Packing(r, v)
  <1> DEFINE m == NUMBER_SIZE
             X == Int
             F == [n \in 1 .. m |-> [x \in X |-> x \div Base]]
             P(h) == h = [n \in 0 .. m |-> IF n = 0 THEN v ELSE h[n - 1] \div Base]
  <1>0. m \in Nat /\ Base \in Nat \ {0}
    BY Sizes
  <1>1. \A x \in X : x \div Base \in X
    BY <1>0
  <1> HIDE DEF m, X
  <1>2. F \in [1 .. m -> [X -> X]]
    <2>1. [x \in X |-> x \div Base] \in [X -> X]
      BY <1>1, Zenon
    <2> QED BY <2>1, Zenon
  <1>3. PICK g : RecursionUpto(m, g, X, v, F)
    <2>1. v \in X
      BY DEF X
    <2> HIDE DEF F
    <2> QED BY <1>0, <1>2, <2>1, IteratesUpto
  <1>4. /\ g \in [0 .. m -> X] /\ g[0] = v
        /\ \A n \in 1 .. m : g[n] = g[n - 1] \div Base
    <2>1. g \in [0 .. m -> X] /\ g[0] = v /\ \A n \in 1 .. m : g[n] = F[n][g[n - 1]]
      <3> HIDE DEF F
      <3> QED BY <1>3 DEF RecursionUpto
    <2>2. ASSUME NEW n \in 1 .. m PROVE F[n][g[n - 1]] = g[n - 1] \div Base
      <3>1. n - 1 \in 0 .. m
        BY <1>0
      <3>2. g[n - 1] \in X
        <4> HIDE DEF F
        <4> QED BY <2>1, <3>1
      <3> QED BY <3>2, Zenon
    <2> HIDE DEF F
    <2> QED BY <2>1, <2>2
  <1>5. P(g)
    <2>1. \A n \in 0 .. m : g[n] = IF n = 0 THEN v ELSE g[n - 1] \div Base
      <3>1. \A n \in 0 .. m : n = 0 \/ n \in 1 .. m
        BY <1>0
      <3> HIDE DEF F
      <3> QED BY <1>4, <3>1
    <2>2. g = [n \in 0 .. m |-> g[n]]
      BY <1>4
    <2> QED BY <2>1, <2>2, Zenon
  <1>6. P(CHOOSE h : P(h))
    <2> HIDE DEF P
    <2> QED BY <1>5, Zenon
  <1> DEFINE h == CHOOSE h : P(h)
  <1>7. pack_number(v) = [k \in 1 .. m |-> h[k - 1] % Base]
    BY Zenon DEF pack_number, m
  <1> HIDE DEF h
  <1>8. P(h)
    BY <1>6, Zenon DEF h
  <1>9. h[0] = v /\ \A n \in 1 .. m : h[n] = h[n - 1] \div Base
    <2>1. 0 \in 0 .. m /\ \A n \in 1 .. m : n \in 0 .. m /\ n # 0
      BY <1>0
    <2> QED BY <1>8, <2>1
  <1>10. h \in [0 .. m -> X]
    <2> DEFINE S == {n \in Nat : n <= m => h[n] \in X}
    <2>1. 0 \in S
      BY <1>9 DEF X
    <2>2. ASSUME NEW n \in Nat, n \in S PROVE n + 1 \in S
      <3> SUFFICES ASSUME n + 1 <= m PROVE h[n + 1] \in X
        OBVIOUS
      <3>1. n + 1 \in 1 .. m /\ (n + 1) - 1 = n /\ h[n] \in X
        BY <1>0, <2>2
      <3>2. h[n + 1] = h[n] \div Base
        <4>1. h[n + 1] = h[(n + 1) - 1] \div Base
          BY <1>9, <3>1, Zenon
        <4> QED BY <3>1, <4>1, Zenon
      <3> QED BY <1>1, <3>1, <3>2, Zenon
    <2>3. Nat \subseteq S
      <3> HIDE DEF S
      <3> QED BY <2>1, <2>2, Induct
    <2>4. \A n \in 0 .. m : h[n] \in X
      BY <1>0, <2>3
    <2>5. h = [n \in 0 .. m |-> h[n]]
      BY <1>8
    <2> QED BY <2>4, <2>5
  <1> QED BY <1>7, <1>9, <1>10, Zenon DEF Packing, m, X

LEMMA PackTyped ==
    ASSUME NEW v \in Int
    PROVE  pack_number(v) \in Seq(Digits) /\ Len(pack_number(v)) = NUMBER_SIZE
  <1>1. PICK r : Packing(r, v)
    BY PackIs
  <1> DEFINE p == [k \in 1 .. NUMBER_SIZE |-> r[k - 1] % Base]
  <1>2. ASSUME NEW k \in 1 .. NUMBER_SIZE PROVE r[k - 1] % Base \in Digits
    <2>1. k - 1 \in 0 .. NUMBER_SIZE
      BY Sizes
    <2>2. r[k - 1] \in Int
      BY <1>1, <2>1 DEF Packing
    <2>3. Base \in Nat \ {0}
      BY Sizes
    <2> QED BY <2>2, <2>3, DivMod DEF Digits
  <1>3. p \in [1 .. NUMBER_SIZE -> Digits]
    BY <1>2, Zenon
  <1>4. pack_number(v) = p
    BY <1>1, Zenon DEF Packing
  <1> HIDE DEF p
  <1>5. NUMBER_SIZE \in Nat
    BY Sizes
  <1> QED BY <1>3, <1>4, <1>5, ListOf

LEMMA DigitOf ==
    ASSUME NEW a \in Int, NEW d \in Digits
    PROVE  (a * Base + d) \div Base = a /\ (a * Base + d) % Base = d
  <1> DEFINE x == a * Base + d
             q == x \div Base
             r == x % Base
  <1>1. Base \in Nat \ {0}
    BY Sizes
  <1>2. d \in Int /\ 0 <= d /\ d < Base /\ x \in Int
    BY <1>1 DEF Digits
  <1> HIDE DEF x
  <1>3. q \in Int /\ r \in 0 .. Base - 1 /\ x = Base * q + r
    BY <1>1, <1>2, DivMod, Zenon
  <1> HIDE DEF q, r
  <1>4. Base * (q - a) = d - r
    BY <1>1, <1>2, <1>3 DEF x
  <1>5. q - a \in Int /\ d - r < Base /\ d - r > 0 - Base
    BY <1>1, <1>2, <1>3
  <1>6. q - a = 0
    <2>1. CASE q - a >= 1
      <3>1. Base * (q - a) >= Base
        <4> DEFINE y == q - a
        <4>1. y \in Int /\ y >= 1
          BY <1>5, <2>1
        <4> HIDE DEF y
        <4> QED BY <1>1, <4>1 DEF y
      <3> QED BY <1>1, <1>2, <1>3, <1>4, <1>5, <3>1
    <2>2. CASE q - a <= 0 - 1
      <3>1. Base * (q - a) <= 0 - Base
        <4> DEFINE y == q - a
        <4>1. y \in Int /\ y <= 0 - 1
          BY <1>5, <2>2
        <4> HIDE DEF y
        <4> QED BY <1>1, <4>1 DEF y
      <3> QED BY <1>1, <1>2, <1>3, <1>4, <1>5, <3>1
    <2> QED BY <1>5, <2>1, <2>2
  <1>7. q = a /\ r = d
    BY <1>1, <1>2, <1>3, <1>4, <1>6
  <1> QED BY <1>7 DEF q, r, x

(* SubSeq with positions counted from 0, as Slice has them. *)
LEMMA SliceIs ==
    ASSUME NEW T, NEW s \in Seq(T), NEW x \in Nat, NEW y \in Nat, x <= y, y <= Len(s)
    PROVE  /\ SubSeq(s, x + 1, y) \in Seq(T) /\ Len(SubSeq(s, x + 1, y)) = y - x
           /\ \A i \in 1 .. y - x : SubSeq(s, x + 1, y)[i] = s[x + i]
  <1> DEFINE m == x + 1
             b == SubSeq(s, m, y)
  <1>1. m \in Int /\ y \in Int
    OBVIOUS
  <1>2. \A i \in m .. y : s[i] \in T
    <2>1. \A i \in m .. y : i \in 1 .. Len(s)
      OBVIOUS
    <2> QED BY <2>1
  <1> HIDE DEF m
  <1>3. b \in Seq(T) /\ Len(b) = (IF m <= y THEN y - m + 1 ELSE 0)
        /\ \A i \in 1 .. y - m + 1 : b[i] = s[m + i - 1]
    BY <1>1, <1>2, SubSeqProperties
  <1>4. /\ y - m + 1 = y - x /\ (IF m <= y THEN y - m + 1 ELSE 0) = y - x
        /\ \A i \in 1 .. y - x : m + i - 1 = x + i
    BY DEF m
  <1> HIDE DEF b
  <1>5. b \in Seq(T) /\ Len(b) = y - x /\ \A i \in 1 .. y - x : b[i] = s[x + i]
    BY <1>3, <1>4
  <1> QED BY <1>5 DEF b, m

(* A number is written as the bytes it was read from. *)
LEMMA PackUnpack ==
    ASSUME NEW s \in Seq(Digits), NEW at \in Nat, at + NUMBER_SIZE <= Len(s)
    PROVE  pack_number(unpack_number(s, at)) = SubSeq(s, at + 1, at + NUMBER_SIZE)
  <1> DEFINE N == NUMBER_SIZE
             v == unpack_number(s, at)
  <1>0. N \in Nat /\ N >= 1 /\ Len(s) \in Nat
    BY Sizes
  <1>1. ASSUME NEW k \in 1 .. N PROVE s[at + k] \in Digits
    <2>1. at + k \in 1 .. Len(s)
      BY <1>0
    <2> QED BY <2>1
  <1>2. \A d \in Digits : d \in Int
    BY Sizes DEF Digits
  <1>3. ASSUME NEW k \in 1 .. N PROVE s[at + N + 1 - k] \in Digits
    <2>1. (N + 1) - k \in 1 .. N /\ at + ((N + 1) - k) = at + N + 1 - k
      BY <1>0
    <2> QED BY <1>1, <2>1
  <1>4. PICK h : Unpacking(h, s, at)
    BY <1>2, <1>3, UnpackIs
  <1> HIDE DEF N
  <1>5. /\ h \in [0 .. N -> Int] /\ v = h[N]
        /\ \A k \in 1 .. N : h[k] = h[k - 1] * Base + s[at + N + 1 - k]
    BY <1>4, Zenon DEF Unpacking, N
  <1>6. v \in Int
    <2>1. N \in 0 .. N
      BY <1>0
    <2> QED BY <1>5, <2>1
  <1> HIDE DEF v
  <1>7. PICK r : Packing(r, v)
    BY <1>6, PackIs
  <1>8. r[0] = v /\ (\A k \in 1 .. N : r[k] = r[k - 1] \div Base)
        /\ pack_number(v) = [k \in 1 .. N |-> r[k - 1] % Base]
    BY <1>7, Zenon DEF Packing, N
  <1>9. ASSUME NEW k \in Nat, k + 1 <= N, r[k] = h[N - k]
        PROVE  r[k] \div Base = h[N - (k + 1)] /\ r[k] % Base = s[at + (k + 1)]
    <2>1. /\ N - k \in 1 .. N /\ (N - k) - 1 = N - (k + 1) /\ at + N + 1 - (N - k) = at + (k + 1)
          /\ N - (k + 1) \in 0 .. N /\ k + 1 \in 1 .. N
      BY <1>0, <1>9
    <2>2. h[N - k] = h[N - (k + 1)] * Base + s[at + (k + 1)]
      <3>1. h[N - k] = h[(N - k) - 1] * Base + s[at + N + 1 - (N - k)]
        BY <1>5, <2>1, Zenon
      <3> QED BY <2>1, <3>1, Zenon
    <2>3. h[N - (k + 1)] \in Int /\ s[at + (k + 1)] \in Digits
      BY <1>1, <1>5, <2>1 DEF N
    <2> QED BY <1>9, <2>2, <2>3, DigitOf, Zenon
  <1>10. \A k \in Nat : k <= N => r[k] = h[N - k]
    <2> DEFINE S == {k \in Nat : k <= N => r[k] = h[N - k]}
    <2>1. 0 \in S
      <3>1. N - 0 = N
        BY <1>0
      <3> QED BY <1>5, <1>8, <3>1
    <2>2. ASSUME NEW k \in Nat, k \in S PROVE k + 1 \in S
      <3> SUFFICES ASSUME k + 1 <= N PROVE r[k + 1] = h[N - (k + 1)]
        OBVIOUS
      <3>1. r[k] = h[N - k] /\ k + 1 \in 1 .. N /\ (k + 1) - 1 = k
        BY <1>0, <2>2
      <3>2. r[k + 1] = r[k] \div Base
        <4>1. r[k + 1] = r[(k + 1) - 1] \div Base
          BY <1>8, <3>1, Zenon
        <4> QED BY <3>1, <4>1, Zenon
      <3> QED BY <1>9, <3>1, <3>2
    <2>3. Nat \subseteq S
      <3> HIDE DEF S
      <3> QED BY <2>1, <2>2, Induct
    <2> QED BY <2>3
  <1>11. \A k \in 1 .. N : r[k - 1] % Base = s[at + k]
    <2> SUFFICES ASSUME NEW k \in 1 .. N PROVE r[k - 1] % Base = s[at + k]
      OBVIOUS
    <2>1. k - 1 \in Nat /\ k - 1 <= N /\ (k - 1) + 1 <= N /\ (k - 1) + 1 = k
      BY <1>0
    <2>2. r[k - 1] = h[N - (k - 1)]
      BY <1>10, <2>1
    <2>3. r[k - 1] % Base = s[at + ((k - 1) + 1)]
      BY <1>9, <2>1, <2>2, Zenon
    <2> QED BY <2>1, <2>3, Zenon
  <1>12. pack_number(v) = [k \in 1 .. N |-> s[at + k]]
    BY <1>8, <1>11, Zenon
  <1> DEFINE b == SubSeq(s, at + 1, at + N)
             f == [k \in 1 .. N |-> s[at + k]]
  <1>13. b \in Seq(Digits) /\ Len(b) = N /\ \A k \in 1 .. N : b[k] = s[at + k]
    <2>1. at + N \in Nat /\ at <= at + N /\ at + N <= Len(s) /\ (at + N) - at = N
      BY <1>0 DEF N
    <2> QED BY <2>1, SliceIs
  <1>14. f \in Seq(Digits) /\ Len(f) = N /\ \A k \in 1 .. N : f[k] = s[at + k]
    <2>1. f \in [1 .. N -> Digits] /\ \A k \in 1 .. N : f[k] = s[at + k]
      BY <1>1, Zenon DEF N
    <2> HIDE DEF f
    <2> QED BY <1>0, <2>1, ListOf
  <1>15. f = b
    <2> HIDE DEF f, b
    <2> QED BY <1>13, <1>14, SeqEqual
  <1> QED BY <1>12, <1>15, Zenon DEF v, N

(* Two slices, one after the other. *)
LEMMA Adjoin ==
    ASSUME NEW T, NEW s \in Seq(T), NEW a \in Nat, NEW b \in Nat, NEW c \in Nat,
           a <= b, b <= c, c <= Len(s)
    PROVE  /\ SubSeq(s, a + 1, b) \in Seq(T) /\ Len(SubSeq(s, a + 1, b)) = b - a
           /\ SubSeq(s, a + 1, b) \o SubSeq(s, b + 1, c) = SubSeq(s, a + 1, c)
  <1> DEFINE p == SubSeq(s, a + 1, b)
             q == SubSeq(s, b + 1, c)
             t == SubSeq(s, a + 1, c)
  <1>2. /\ p \in Seq(T) /\ Len(p) = b - a /\ \A i \in 1 .. b - a : p[i] = s[a + i]
        /\ q \in Seq(T) /\ Len(q) = c - b /\ \A i \in 1 .. c - b : q[i] = s[b + i]
        /\ t \in Seq(T) /\ Len(t) = c - a /\ \A i \in 1 .. c - a : t[i] = s[a + i]
    <2>1. b <= Len(s) /\ a <= c
      OBVIOUS
    <2> QED BY <2>1, SliceIs, Zenon
  <1> HIDE DEF p, q, t
  <1> DEFINE u == p \o q
  <1>3. u \in Seq(T) /\ Len(u) = Len(p) + Len(q)
        /\ \A i \in 1 .. Len(p) + Len(q) : u[i] = IF i <= Len(p) THEN p[i] ELSE q[i - Len(p)]
    BY <1>2, ConcatProperties
  <1> HIDE DEF u
  <1>4. Len(u) = Len(t)
    BY <1>2, <1>3
  <1>5. ASSUME NEW i \in 1 .. Len(u) PROVE u[i] = t[i]
    <2>1. i \in 1 .. c - a /\ i \in 1 .. Len(p) + Len(q) /\ t[i] = s[a + i]
      <3>1. Len(u) = c - a
        BY <1>2, <1>4
      <3> QED BY <1>2, <1>3, <3>1, Zenon
    <2>2. CASE i <= Len(p)
      <3>1. i \in 1 .. b - a
        BY <1>2, <2>1, <2>2
      <3> QED BY <1>2, <1>3, <2>1, <2>2, <3>1, Zenon
    <2>3. CASE ~(i <= Len(p))
      <3>1. i - Len(p) \in 1 .. c - b /\ b + (i - Len(p)) = a + i
        BY <1>2, <2>1, <2>3
      <3> QED BY <1>2, <1>3, <2>1, <2>3, <3>1, Zenon
    <2> QED BY <2>2, <2>3
  <1>6. u = t
    BY <1>2, <1>3, <1>4, <1>5, SeqEqual
  <1> QED BY <1>2, <1>6 DEF u, p, q, t

-----------------------------------------------------------------------------
(* Concatenations *)

(* h[k] is what the first k sequences of p make. *)
Joining(h, p, T) ==
    /\ h \in [0 .. Len(p) -> Seq(T)] /\ h[0] = <<>>
    /\ \A k \in 1 .. Len(p) : h[k] = h[k - 1] \o p[k]

LEMMA JoiningIs ==
    ASSUME NEW T, NEW p \in Seq(Seq(T))
    PROVE  \E h : Joining(h, p, T) /\ FlattenSeq(p) = h[Len(p)]
  <1> DEFINE m == Len(p)
             X == Seq(T)
             F == [n \in 1 .. m |-> [x \in X |-> x \o p[n]]]
             P(f) == f = [n \in 1 .. m |-> IF n = 1 THEN p[n] ELSE f[n - 1] \o p[n]]
             e == <<>>
  <1>0. m \in Nat /\ \A n \in 1 .. m : p[n] \in X
    OBVIOUS
  <1>1. \A x \in X, y \in X : x \o y \in X
    OBVIOUS
  <1>2. e \in X /\ \A x \in X : e \o x = x
    BY ConcatEmptySeq
  <1>3. FlattenSeq(p) = IF m = 0 THEN p ELSE (CHOOSE f : P(f))[m]
    BY Zenon DEF FlattenSeq
  <1>4. m = 0 => p = e
    BY EmptySeq
  <1> HIDE DEF m, X, e
  <1>5. F \in [1 .. m -> [X -> X]]
    <2>1. \A n \in 1 .. m : [x \in X |-> x \o p[n]] \in [X -> X]
      BY <1>0, <1>1, Zenon
    <2> QED BY <2>1, Zenon
  <1>6. PICK g : RecursionUpto(m, g, X, e, F)
    <2> HIDE DEF F
    <2> QED BY <1>0, <1>2, <1>5, IteratesUpto
  <1>7. /\ g \in [0 .. m -> X] /\ g[0] = e
        /\ \A n \in 1 .. m : g[n] = g[n - 1] \o p[n]
    <2>1. g \in [0 .. m -> X] /\ g[0] = e /\ \A n \in 1 .. m : g[n] = F[n][g[n - 1]]
      <3> HIDE DEF F
      <3> QED BY <1>6 DEF RecursionUpto
    <2>2. ASSUME NEW n \in 1 .. m PROVE F[n][g[n - 1]] = g[n - 1] \o p[n]
      <3>1. n - 1 \in 0 .. m
        BY <1>0
      <3>2. g[n - 1] \in X
        <4> HIDE DEF F
        <4> QED BY <2>1, <3>1
      <3> QED BY <3>2, Zenon
    <2> HIDE DEF F
    <2> QED BY <2>1, <2>2
  <1> HIDE DEF F
  <1> DEFINE f0 == [n \in 1 .. m |-> g[n]]
  <1>8. P(f0)
    <2>1. ASSUME NEW n \in 1 .. m PROVE g[n] = IF n = 1 THEN p[n] ELSE f0[n - 1] \o p[n]
      <3>1. CASE n = 1
        <4>1. g[n] = g[0] \o p[n]
          <5>1. n - 1 = 0
            BY <3>1
          <5> QED BY <1>7, <5>1
        <4> QED BY <1>0, <1>2, <1>7, <3>1, <4>1
      <3>2. CASE n # 1
        <4>1. n - 1 \in 1 .. m
          BY <1>0, <3>2
        <4>2. f0[n - 1] = g[n - 1]
          BY <4>1
        <4> QED BY <1>7, <3>2, <4>2
      <3> QED BY <3>1, <3>2
    <2> QED BY <2>1, Zenon
  <1>9. P(CHOOSE f : P(f))
    <2> HIDE DEF P
    <2> QED BY <1>8, Zenon
  <1> DEFINE f == CHOOSE f : P(f)
  <1>10. FlattenSeq(p) = IF m = 0 THEN p ELSE f[m]
    BY <1>3, Zenon
  <1> HIDE DEF f
  <1>11. P(f)
    BY <1>9, Zenon DEF f
  <1>12. \A n \in Nat : n + 1 <= m => f[n + 1] = g[n + 1]
    <2> DEFINE S == {n \in Nat : n + 1 <= m => f[n + 1] = g[n + 1]}
    <2>0. ASSUME NEW n \in 1 .. m PROVE f[n] = IF n = 1 THEN p[n] ELSE f[n - 1] \o p[n]
      BY <1>11, <2>0, Zenon
    <2>0a. ASSUME NEW n \in 1 .. m PROVE f0[n] = g[n] /\ f0[n] = IF n = 1 THEN p[n] ELSE f0[n - 1] \o p[n]
      <3>1. f0[n] = g[n]
        BY Zenon
      <3> HIDE DEF f0
      <3> QED BY <1>8, <2>0a, <3>1, Zenon
    <2> HIDE DEF P, f0
    <2>1. 0 \in S
      <3> SUFFICES ASSUME 0 + 1 <= m PROVE f[0 + 1] = g[0 + 1]
        OBVIOUS
      <3>1. 1 \in 1 .. m /\ 0 + 1 = 1
        BY <1>0
      <3> QED BY <2>0, <2>0a, <3>1
    <2>2. ASSUME NEW n \in Nat, n \in S PROVE n + 1 \in S
      <3> SUFFICES ASSUME (n + 1) + 1 <= m PROVE f[(n + 1) + 1] = g[(n + 1) + 1]
        OBVIOUS
      <3> DEFINE k == (n + 1) + 1
      <3>1. k \in 1 .. m /\ k # 1 /\ k - 1 = n + 1 /\ n + 1 \in 1 .. m /\ f[n + 1] = g[n + 1]
        BY <1>0, <2>2
      <3> HIDE DEF k
      <3>2. f[k] = f[n + 1] \o p[k] /\ g[k] = f0[n + 1] \o p[k] /\ f0[n + 1] = g[n + 1]
        BY <2>0, <2>0a, <3>1
      <3>3. f[k] = g[k]
        BY <3>1, <3>2, Zenon
      <3> QED BY <3>3 DEF k
    <2>3. Nat \subseteq S
      <3> HIDE DEF S
      <3> QED BY <2>1, <2>2, Induct
    <2> QED BY <2>3
  <1>13. FlattenSeq(p) = g[m]
    <2>1. CASE m = 0
      BY <1>4, <1>7, <1>10, <2>1
    <2>2. CASE m # 0
      <3>1. m - 1 \in Nat /\ (m - 1) + 1 <= m /\ (m - 1) + 1 = m
        BY <1>0, <2>2
      <3>2. f[m] = g[m]
        BY <1>12, <3>1
      <3> QED BY <1>10, <2>2, <3>2
    <2> QED BY <2>1, <2>2
  <1>14. Joining(g, p, T)
    BY <1>7, Zenon DEF Joining, m, X, e
  <1> QED BY <1>13, <1>14, Zenon DEF m

(* The pieces of p tile s, between the bounds b. *)
Tiled(p, s, b) ==
    /\ b \in [0 .. Len(p) -> Nat]
    /\ \A k \in 1 .. Len(p) : /\ b[k - 1] <= b[k] /\ b[k] <= Len(s)
                              /\ p[k] = SubSeq(s, b[k - 1] + 1, b[k])
    /\ b[0] <= Len(s)

LEMMA TilesJoin ==
    ASSUME NEW T, NEW s \in Seq(T), NEW p \in Seq(Seq(T)), NEW b, Tiled(p, s, b)
    PROVE  FlattenSeq(p) = SubSeq(s, b[0] + 1, b[Len(p)])
  <1> DEFINE m == Len(p)
  <1>0. m \in Nat /\ Len(s) \in Nat
    OBVIOUS
  <1>1. PICK h : Joining(h, p, T) /\ FlattenSeq(p) = h[m]
    BY JoiningIs
  <1>2. h[0] = <<>> /\ \A k \in 1 .. m : h[k] = h[k - 1] \o p[k]
    BY <1>1 DEF Joining
  <1>3. /\ b \in [0 .. m -> Nat] /\ b[0] <= Len(s)
        /\ \A k \in 1 .. m : /\ b[k - 1] <= b[k] /\ b[k] <= Len(s)
                             /\ p[k] = SubSeq(s, b[k - 1] + 1, b[k])
    BY DEF Tiled
  <1> HIDE DEF m
  <1> DEFINE S == {k \in Nat : k <= m => b[0] <= b[k] /\ h[k] = SubSeq(s, b[0] + 1, b[k])}
  <1>4. 0 \in S
    <2>1. b[0] \in Nat
      BY <1>0, <1>3
    <2>2. \A x \in Nat : x + 1 \in Int /\ x \in Int /\ x < x + 1 /\ x <= x
      OBVIOUS
    <2>3. \A x \in Nat : SubSeq(s, x + 1, x) = <<>>
      BY <2>2, SubSeqEmpty
    <2>4. b[0] <= b[0] /\ SubSeq(s, b[0] + 1, b[0]) = <<>>
      BY <2>1, <2>2, <2>3, Zenon
    <2> QED BY <1>2, <2>4
  <1>5. ASSUME NEW k \in Nat, k \in S PROVE k + 1 \in S
    <2> SUFFICES ASSUME k + 1 <= m PROVE b[0] <= b[k + 1] /\ h[k + 1] = SubSeq(s, b[0] + 1, b[k + 1])
      OBVIOUS
    <2>1. k + 1 \in 1 .. m /\ (k + 1) - 1 = k /\ k \in 0 .. m /\ k + 1 \in 0 .. m /\ 0 \in 0 .. m
      BY <1>0
    <2>2. b[0] <= b[k] /\ h[k] = SubSeq(s, b[0] + 1, b[k])
      BY <1>5, <2>1
    <2>3. h[k + 1] = h[k] \o p[k + 1] /\ p[k + 1] = SubSeq(s, b[k] + 1, b[k + 1])
          /\ b[k] <= b[k + 1] /\ b[k + 1] <= Len(s)
      <3>1. h[k + 1] = h[(k + 1) - 1] \o p[k + 1] /\ p[k + 1] = SubSeq(s, b[(k + 1) - 1] + 1, b[k + 1])
            /\ b[(k + 1) - 1] <= b[k + 1] /\ b[k + 1] <= Len(s)
        BY <1>2, <1>3, <2>1, Zenon
      <3> QED BY <2>1, <3>1, Zenon
    <2>4. b[0] \in Nat /\ b[k] \in Nat /\ b[k + 1] \in Nat
      BY <1>3, <2>1
    <2>5. SubSeq(s, b[0] + 1, b[k]) \o SubSeq(s, b[k] + 1, b[k + 1]) = SubSeq(s, b[0] + 1, b[k + 1])
      <3>1. \A x \in Nat, y \in Nat, z \in Nat : x <= y /\ y <= z /\ z <= Len(s) =>
               SubSeq(s, x + 1, y) \o SubSeq(s, y + 1, z) = SubSeq(s, x + 1, z)
        BY Adjoin
      <3> QED BY <2>2, <2>3, <2>4, <3>1, Zenon
    <2>6. b[0] <= b[k + 1]
      BY <2>2, <2>3, <2>4
    <2> QED BY <2>2, <2>3, <2>5, <2>6, Zenon
  <1>6. Nat \subseteq S
    <2> HIDE DEF S
    <2> QED BY <1>4, <1>5, Induct
  <1>7. m <= m
    BY <1>0
  <1>8. h[m] = SubSeq(s, b[0] + 1, b[m])
    BY <1>0, <1>6, <1>7
  <1> QED BY <1>1, <1>8, Zenon DEF m

LEMMA JoinTyped ==
    ASSUME NEW T, NEW p \in Seq(Seq(T))
    PROVE  FlattenSeq(p) \in Seq(T)
  <1>1. PICK h : Joining(h, p, T) /\ FlattenSeq(p) = h[Len(p)]
    BY JoiningIs
  <1>2. h \in [0 .. Len(p) -> Seq(T)]
    BY <1>1 DEF Joining
  <1>3. Len(p) \in 0 .. Len(p)
    OBVIOUS
  <1> QED BY <1>1, <1>2, <1>3

LEMMA TiledPrefix ==
    ASSUME NEW T, NEW s \in Seq(T), NEW p \in Seq(Seq(T)), NEW b, Tiled(p, s, b),
           NEW k \in 0 .. Len(p)
    PROVE  Len(FlattenSeq(SubSeq(p, 1, k))) = b[k] - b[0]
  <1> DEFINE q == SubSeq(p, 1, k)
             d == [j \in 0 .. k |-> b[j]]
             X == Seq(T)
  <1>1. q \in Seq(X) /\ Len(q) = k /\ \A j \in 1 .. k : q[j] = p[j]
    <2>1. 0 <= k /\ k <= Len(p) /\ 0 \in Nat /\ k \in Nat /\ 0 + 1 = 1 /\ k - 0 = k
          /\ \A j \in 1 .. k : 0 + j = j
      OBVIOUS
    <2>2. p \in Seq(X)
      OBVIOUS
    <2> HIDE DEF X
    <2>3. \A x \in Nat, y \in Nat : x <= y /\ y <= Len(p) =>
             /\ SubSeq(p, x + 1, y) \in Seq(X) /\ Len(SubSeq(p, x + 1, y)) = y - x
             /\ \A j \in 1 .. y - x : SubSeq(p, x + 1, y)[j] = p[x + j]
      BY <2>2, SliceIs
    <2>4. /\ SubSeq(p, 0 + 1, k) \in Seq(X) /\ Len(SubSeq(p, 0 + 1, k)) = k - 0
          /\ \A j \in 1 .. k - 0 : SubSeq(p, 0 + 1, k)[j] = p[0 + j]
      BY <2>1, <2>3, Zenon
    <2> QED BY <2>1, <2>4, Zenon
  <1>2. /\ b \in [0 .. Len(p) -> Nat] /\ b[0] <= Len(s)
        /\ \A j \in 1 .. Len(p) : /\ b[j - 1] <= b[j] /\ b[j] <= Len(s)
                                  /\ p[j] = SubSeq(s, b[j - 1] + 1, b[j])
    BY DEF Tiled
  <1>3. d \in [0 .. k -> Nat] /\ \A j \in 0 .. k : d[j] = b[j]
    <2>1. \A j \in 0 .. k : j \in 0 .. Len(p)
      OBVIOUS
    <2> QED BY <1>2, <2>1, Zenon
  <1> HIDE DEF q, d
  <1>4. Tiled(q, s, d)
    <2>1. ASSUME NEW j \in 1 .. k
          PROVE  d[j - 1] <= d[j] /\ d[j] <= Len(s) /\ q[j] = SubSeq(s, d[j - 1] + 1, d[j])
      <3>1. j \in 1 .. Len(p) /\ j - 1 \in 0 .. k /\ j \in 0 .. k
        OBVIOUS
      <3>2. d[j - 1] = b[j - 1] /\ d[j] = b[j] /\ q[j] = p[j]
        BY <1>1, <1>3, <3>1
      <3> QED BY <1>2, <3>1, <3>2, Zenon
    <2>2. d[0] <= Len(s)
      <3>1. 0 \in 0 .. k
        OBVIOUS
      <3>2. d[0] = b[0]
        BY <1>3, <3>1
      <3> QED BY <1>2, <3>2
    <2> QED BY <1>1, <1>3, <2>1, <2>2, Zenon DEF Tiled
  <1>5. FlattenSeq(q) = SubSeq(s, d[0] + 1, d[k])
    <2>1. q \in Seq(Seq(T))
      BY <1>1
    <2>2. FlattenSeq(q) = SubSeq(s, d[0] + 1, d[Len(q)])
      BY <1>4, <2>1, TilesJoin
    <2> QED BY <1>1, <2>2, Zenon
  <1>6. d[0] = b[0] /\ d[k] = b[k] /\ b[0] \in Nat /\ b[k] \in Nat
    BY <1>2, <1>3
  <1>7. b[0] <= b[k]
    <2> DEFINE S == {j \in Nat : j <= Len(p) => b[0] <= b[j]}
    <2>0. Len(p) \in Nat /\ k <= Len(p)
      OBVIOUS
    <2>1. 0 \in S
      BY <1>6
    <2>2. ASSUME NEW j \in Nat, j \in S PROVE j + 1 \in S
      <3> SUFFICES ASSUME j + 1 <= Len(p) PROVE b[0] <= b[j + 1]
        OBVIOUS
      <3>1. j + 1 \in 1 .. Len(p) /\ (j + 1) - 1 = j /\ j \in 0 .. Len(p) /\ j + 1 \in 0 .. Len(p) /\ j <= Len(p)
        OBVIOUS
      <3>2. b[j] <= b[j + 1] /\ b[0] <= b[j] /\ b[j] \in Nat /\ b[j + 1] \in Nat
        <4>1. b[(j + 1) - 1] <= b[j + 1]
          BY <1>2, <3>1, Zenon
        <4> QED BY <1>2, <2>2, <3>1, <4>1
      <3> QED BY <1>6, <3>2
    <2>3. Nat \subseteq S
      <3> HIDE DEF S
      <3> QED BY <2>1, <2>2, Induct
    <2> QED BY <2>3
  <1>8. b[k] <= Len(s)
    <2>1. CASE k = 0
      BY <1>2, <2>1
    <2>2. CASE k # 0
      <3>1. k \in 1 .. Len(p)
        BY <2>2
      <3> QED BY <1>2, <3>1
    <2> QED BY <2>1, <2>2
  <1>9. \A x \in Nat, y \in Nat : x <= y /\ y <= Len(s) => Len(SubSeq(s, x + 1, y)) = y - x
    BY SliceIs
  <1>10. Len(SubSeq(s, b[0] + 1, b[k])) = b[k] - b[0]
    BY <1>6, <1>7, <1>8, <1>9, Zenon
  <1> QED BY <1>5, <1>6, <1>10, Zenon DEF q

-----------------------------------------------------------------------------
(* What is read is written as it was *)

LEMMA DigitsAreInt == ASSUME NEW s \in Seq(Digits) PROVE s \in Seq(Int)
  <1>1. Digits \subseteq Int
    BY Sizes DEF Digits
  <1> QED BY <1>1, Widened

Parts(s) == [i \in 1 .. Count(s) |-> Part(s, i)]

LEMMA PartsIs ==
    ASSUME NEW s \in Seq(Digits), Headed(s, Count(s))
    PROVE  /\ Parts(s) \in Seq(Seq(Digits)) /\ Len(Parts(s)) = Count(s)
           /\ \A i \in 1 .. Count(s) : Parts(s)[i] = Part(s, i) /\ Part(s, i) \in Seq(Digits)
  <1> DEFINE c == Count(s)
             o == offsets(s)
             X == Seq(Digits)
  <1>1. /\ c \in Nat /\ \A i \in 1 .. c + 1 : o[i] \in Nat /\ o[i] <= Len(s)
        /\ \A i \in 1 .. c : o[i] <= o[i + 1]
    <2>1. c \in Nat
      BY DEF Headed
    <2> QED BY <2>1, Zenon DEF Headed
  <1>2. \A i \in 1 .. c : Part(s, i) \in X
    <2> SUFFICES ASSUME NEW i \in 1 .. c PROVE Part(s, i) \in X
      OBVIOUS
    <2>1. i \in 1 .. c + 1 /\ i + 1 \in 1 .. c + 1
      BY <1>1
    <2>2. o[i] \in Nat /\ o[i + 1] \in Nat /\ o[i] <= o[i + 1] /\ o[i + 1] <= Len(s)
      BY <1>1, <2>1
    <2>3. \A x \in Nat, y \in Nat : x <= y /\ y <= Len(s) => SubSeq(s, x + 1, y) \in X
      BY SliceIs
    <2> QED BY <2>2, <2>3, Zenon DEF Part, Slice
  <1> HIDE DEF X, c
  <1> DEFINE p == Parts(s)
  <1>3. p \in [1 .. c -> X] /\ \A i \in 1 .. c : p[i] = Part(s, i)
    BY <1>2, Zenon DEF Parts, c
  <1> HIDE DEF p
  <1>4. p \in Seq(X) /\ Len(p) = c
    BY <1>1, <1>3, ListOf
  <1> QED BY <1>2, <1>3, <1>4 DEF p, c, X

(* The parts of a verified slice, written again with its header, make it. *)
LEMMA TableCanonical ==
    ASSUME NEW s \in Seq(Digits), SizeOk(s), HeaderOk(s), Rising(s)
    PROVE  table_write(Parts(s)) = s
  <1> DEFINE c == Count(s)
             N == NUMBER_SIZE
             o == offsets(s)
             L == Len(s)
             p == Parts(s)
             X == Seq(Digits)
  <1>0. Headed(s, c)
    BY DigitsAreInt, HeadedIs
  <1>1. c \in Nat /\ c >= 1 /\ L \in Nat /\ N \in Nat /\ N >= 1
    BY <1>0, Sizes DEF Headed
  <1>2. /\ N * (c + 1) <= L /\ o[1] = N * (c + 1) /\ o[c + 1] = L
        /\ \A i \in 1 .. c : unpack_number(s, N * i) = o[i]
        /\ \A i \in 1 .. c + 1 : o[i] \in Nat /\ o[i] <= L
        /\ \A i \in 1 .. c : o[i] <= o[i + 1]
    BY <1>0, Zenon DEF Headed
  <1>3. p \in Seq(X) /\ Len(p) = c /\ \A i \in 1 .. c : p[i] = SubSeq(s, o[i] + 1, o[i + 1])
    BY <1>0, PartsIs, Zenon DEF Part, Slice
  <1>4. unpack_number(s, 0) = L
    BY DEF SizeOk
  <1> HIDE DEF c, o, L, p, N, X
  <1> DEFINE b == [k \in 0 .. c |-> o[k + 1]]
  <1>5. \A k \in 0 .. c : k + 1 \in 1 .. c + 1
    BY <1>1
  <1>6. b \in [0 .. c -> Nat] /\ \A k \in 0 .. c : b[k] = o[k + 1]
    BY <1>2, <1>5, Zenon
  <1> HIDE DEF b
  <1>7. b[0] = N * (c + 1) /\ b[c] = L /\ b[0] <= L
    <2>1. 0 \in 0 .. c /\ c \in 0 .. c /\ 0 + 1 = 1
      BY <1>1
    <2> QED BY <1>2, <1>6, <2>1
  <1>8. Tiled(p, s, b)
    <2>1. ASSUME NEW k \in 1 .. c
          PROVE  b[k - 1] <= b[k] /\ b[k] <= L /\ p[k] = SubSeq(s, b[k - 1] + 1, b[k])
      <3>1. k - 1 \in 0 .. c /\ k \in 0 .. c /\ (k - 1) + 1 = k /\ k + 1 \in 1 .. c + 1
        BY <1>1
      <3>2. b[k - 1] = o[k] /\ b[k] = o[k + 1]
        BY <1>6, <3>1
      <3> QED BY <1>2, <1>3, <3>1, <3>2, Zenon
    <2> QED BY <1>3, <1>6, <1>7, <2>1, Zenon DEF Tiled, L
  <1>9. FlattenSeq(p) = SubSeq(s, N * (c + 1) + 1, L)
    <2>1. p \in Seq(Seq(Digits))
      BY <1>3 DEF X
    <2>2. FlattenSeq(p) = SubSeq(s, b[0] + 1, b[Len(p)])
      BY <1>8, <2>1, TilesJoin
    <2> QED BY <1>3, <1>7, <2>2, Zenon
  <1>10. \A i \in 1 .. c + 1 : Offset(p, i) = o[i]
    <2> SUFFICES ASSUME NEW i \in 1 .. c + 1 PROVE Offset(p, i) = o[i]
      OBVIOUS
    <2>1. i - 1 \in 0 .. c /\ (i - 1) + 1 = i
      BY <1>1
    <2>2. Len(FlattenSeq(SubSeq(p, 1, i - 1))) = b[i - 1] - b[0]
      <3>1. p \in Seq(Seq(Digits)) /\ i - 1 \in 0 .. Len(p)
        BY <1>3, <2>1 DEF X
      <3> QED BY <1>8, <3>1, TiledPrefix
    <2>3. b[i - 1] = o[i]
      BY <1>6, <2>1
    <2>4. Offset(p, i) = N * (c + 1) + (o[i] - N * (c + 1))
      BY <1>3, <1>7, <2>2, <2>3, Zenon DEF Offset, N
    <2>5. N * (c + 1) \in Int /\ o[i] \in Int
      BY <1>1, <1>2
    <2> QED BY <2>4, <2>5
  <1> DEFINE hp == [i \in 1 .. c |-> pack_number(o[i])]
             d == [k \in 0 .. c |-> N * (k + 1)]
  <1>11. \A k \in 0 .. c : N * (k + 1) \in Nat /\ N * (k + 1) <= L /\ N * (k + 1) <= N * (c + 1)
    <2> SUFFICES ASSUME NEW k \in 0 .. c PROVE N * (k + 1) \in Nat /\ N * (k + 1) <= L /\ N * (k + 1) <= N * (c + 1)
      OBVIOUS
    <2>1. k + 1 \in Nat /\ c + 1 \in Nat /\ k + 1 <= c + 1
      BY <1>1
    <2>2. N * (k + 1) \in Nat /\ N * (k + 1) <= N * (c + 1)
      BY <2>1, Times DEF N
    <2>3. N * (c + 1) \in Nat
      BY <1>1
    <2>4. \A x \in Nat, y \in Nat, z \in Nat : x <= y /\ y <= z => x <= z
      OBVIOUS
    <2> QED BY <1>1, <1>2, <2>2, <2>3, <2>4, Zenon
  <1>12. ASSUME NEW i \in 1 .. c
         PROVE  /\ pack_number(o[i]) = SubSeq(s, N * i + 1, N * (i + 1))
                /\ N * i <= N * (i + 1) /\ N * (i + 1) <= L
                /\ pack_number(o[i]) \in X
    <2>1. i \in Nat /\ i <= i + 1 /\ i + 1 \in Nat /\ i \in 0 .. c
      BY <1>1
    <2>2. N * i \in Nat /\ N * i <= N * (i + 1) /\ N * (i + 1) = N * i + N
      BY <2>1, Times DEF N
    <2>3. N * (i + 1) <= L
      BY <1>11, <2>1
    <2>4. pack_number(unpack_number(s, N * i)) = SubSeq(s, N * i + 1, N * i + N)
      <3>1. \A at \in Nat : at + N <= L =>
              pack_number(unpack_number(s, at)) = SubSeq(s, at + 1, at + N)
        BY PackUnpack DEF N, L
      <3>2. N * i + N <= L
        BY <2>2, <2>3, Zenon
      <3> QED BY <2>2, <3>1, <3>2, Zenon
    <2>5. o[i] \in Int
      <3>1. i \in 1 .. c + 1
        BY <1>1
      <3> QED BY <1>2, <3>1
    <2>6. pack_number(o[i]) \in X
      BY <2>5, PackTyped DEF X
    <2> QED BY <1>2, <2>2, <2>3, <2>4, <2>6, Zenon
  <1>13. hp \in Seq(X) /\ Len(hp) = c /\ \A i \in 1 .. c : hp[i] = pack_number(o[i])
    <2>1. hp \in [1 .. c -> X] /\ \A i \in 1 .. c : hp[i] = pack_number(o[i])
      BY <1>12, Zenon
    <2> HIDE DEF hp
    <2> QED BY <1>1, <2>1, ListOf
  <1>14. d \in [0 .. c -> Nat] /\ \A k \in 0 .. c : d[k] = N * (k + 1)
    BY <1>11, Zenon
  <1> HIDE DEF hp, d
  <1>15. d[0] = N /\ d[c] = N * (c + 1) /\ d[0] <= L
    <2>1. 0 \in 0 .. c /\ c \in 0 .. c /\ N * (0 + 1) = N
      BY <1>1
    <2> QED BY <1>11, <1>14, <2>1
  <1>16. FlattenSeq(hp) = SubSeq(s, N + 1, N * (c + 1))
    <2>1. ASSUME NEW k \in 1 .. c
          PROVE  d[k - 1] <= d[k] /\ d[k] <= L /\ hp[k] = SubSeq(s, d[k - 1] + 1, d[k])
      <3>1. k - 1 \in 0 .. c /\ k \in 0 .. c /\ (k - 1) + 1 = k
        BY <1>1
      <3>2. d[k - 1] = N * k /\ d[k] = N * (k + 1)
        BY <1>14, <3>1
      <3> QED BY <1>12, <1>13, <3>2, Zenon
    <2>2. Tiled(hp, s, d)
      BY <1>13, <1>14, <1>15, <2>1, Zenon DEF Tiled, L
    <2>3. hp \in Seq(Seq(Digits))
      BY <1>13 DEF X
    <2>4. FlattenSeq(hp) = SubSeq(s, d[0] + 1, d[Len(hp)])
      BY <2>2, <2>3, TilesJoin
    <2> QED BY <1>13, <1>15, <2>4, Zenon
  <1>17. pack_number(L) = SubSeq(s, 1, N)
    <2>1. 0 + N <= L /\ 0 \in Nat /\ 0 + 1 = 1 /\ 0 + N = N
      BY <1>1, <1>15
    <2>2. pack_number(unpack_number(s, 0)) = SubSeq(s, 0 + 1, 0 + N)
      BY <2>1, PackUnpack DEF N, L
    <2> QED BY <1>4, <2>1, <2>2
  <1>18. table_write(p) = (pack_number(L) \o FlattenSeq(hp)) \o FlattenSeq(p)
    <2>1. c + 1 \in 1 .. c + 1
      BY <1>1
    <2>2. Offset(p, Len(p) + 1) = L
      BY <1>2, <1>3, <1>10, <2>1
    <2>3. DOMAIN p = 1 .. c
      BY <1>3, LenProperties
    <2>4. [i \in DOMAIN p |-> pack_number(Offset(p, i))] = hp
      <3>1. \A i \in 1 .. c : i \in 1 .. c + 1
        BY <1>1
      <3>2. \A i \in 1 .. c : pack_number(Offset(p, i)) = pack_number(o[i])
        BY <1>10, <3>1, Zenon
      <3> QED BY <2>3, <3>2, Zenon DEF hp
    <2> QED BY <2>2, <2>4, Zenon DEF table_write
  <1>19. /\ SubSeq(s, 1, N) \o SubSeq(s, N + 1, N * (c + 1)) = SubSeq(s, 1, N * (c + 1))
         /\ SubSeq(s, 1, N * (c + 1)) \o SubSeq(s, N * (c + 1) + 1, L) = SubSeq(s, 1, L)
    <2>1. \A x \in Nat, y \in Nat, z \in Nat : x <= y /\ y <= z /\ z <= L =>
            SubSeq(s, x + 1, y) \o SubSeq(s, y + 1, z) = SubSeq(s, x + 1, z)
      BY Adjoin DEF L
    <2>2. 0 \in Nat /\ 0 + 1 = 1 /\ 0 <= N /\ L <= L
      BY <1>1
    <2>3. N * (c + 1) \in Nat /\ N <= N * (c + 1) /\ 0 <= N * (c + 1)
      BY <1>1, <1>15
    <2>4. \A y \in Nat, z \in Nat : 0 <= y /\ y <= z /\ z <= L =>
            SubSeq(s, 1, y) \o SubSeq(s, y + 1, z) = SubSeq(s, 1, z)
      BY <2>1, <2>2
    <2> QED BY <1>1, <1>2, <2>2, <2>3, <2>4, Zenon
  <1>20. SubSeq(s, 1, L) = s
    BY SubSeqFull DEF L
  <1> QED BY <1>9, <1>16, <1>17, <1>18, <1>19, <1>20, Zenon DEF p

(* A verified vector of items of one size is written as it was. *)
LEMMA FixvecCanonical ==
    ASSUME NEW s \in Seq(Digits), NEW size \in Nat \ {0}, FixvecOk(s, size)
    PROVE  LET n == unpack_number(s, 0) IN
           /\ n \in Nat /\ AllFixed(s, size) \in Seq(Seq(Digits)) /\ Len(AllFixed(s, size)) = n
           /\ Len(s) = NUMBER_SIZE + size * n
           /\ FlattenSeq(AllFixed(s, size)) = SubSeq(s, NUMBER_SIZE + 1, Len(s))
           /\ fixvec_write(AllFixed(s, size)) = s
  <1> DEFINE n == unpack_number(s, 0)
             N == NUMBER_SIZE
             L == Len(s)
             X == Seq(Digits)
             p == AllFixed(s, size)
             at(k) == N + size * k
  <1>1. N \in Nat /\ N >= 1 /\ L \in Nat /\ N <= L /\ L = N + size * n
    BY Sizes DEF FixvecOk
  <1>2. n \in Int
    <2>1. s \in Seq(Int) /\ 0 + N <= L /\ 0 \in Nat
      BY <1>1, DigitsAreInt
    <2> QED BY <2>1, UnpackInt
  <1>3. n \in Nat
    <2> HIDE DEF n, L, N
    <2>1. size * n >= 0 /\ size \in Nat /\ size >= 1
      <3>1. size * n \in Int
        BY <1>2
      <3> QED BY <1>1, <3>1
    <2>2. CASE n < 0
      <3>1. size * n < 0
        BY <1>2, <2>1, <2>2
      <3>2. size * n \in Int
        BY <1>2
      <3> QED BY <2>1, <3>1, <3>2
    <2> QED BY <1>2, <2>2
  <1>4. \A k \in 0 .. n : at(k) \in Nat /\ at(k) <= L
    <2> SUFFICES ASSUME NEW k \in 0 .. n PROVE at(k) \in Nat /\ at(k) <= L
      OBVIOUS
    <2> HIDE DEF n, L, N
    <2>1. k \in Nat /\ k <= n /\ size \in Nat
      BY <1>3
    <2>2. size * k \in Nat /\ size * n \in Nat /\ size * k <= size * n
      BY <1>3, <2>1
    <2>3. \A x \in Nat, y \in Nat : x <= y => N + x \in Nat /\ N + x <= N + y
      BY <1>1
    <2> QED BY <1>1, <2>2, <2>3, Zenon
  <1>5. \A k \in 1 .. n : p[k] = SubSeq(s, at(k - 1) + 1, at(k))
    <2> SUFFICES ASSUME NEW k \in 1 .. n PROVE p[k] = SubSeq(s, at(k - 1) + 1, at(k))
      OBVIOUS
    <2>1. (k - 1) + 1 = k
      BY <1>3
    <2>2. p[k] = get_fixed(s, size, k - 1)
      BY Zenon DEF AllFixed
    <2> QED BY <2>1, <2>2, Zenon DEF get_fixed, Slice
  <1>6. \A k \in 1 .. n : at(k - 1) <= at(k) /\ k - 1 \in 0 .. n /\ k \in 0 .. n
    <2> SUFFICES ASSUME NEW k \in 1 .. n PROVE at(k - 1) <= at(k) /\ k - 1 \in 0 .. n /\ k \in 0 .. n
      OBVIOUS
    <2> HIDE DEF n, N
    <2>1. k - 1 \in Nat /\ k \in Nat /\ size * k = size * (k - 1) + size /\ size * (k - 1) \in Nat
      BY <1>3
    <2>2. k - 1 \in 0 .. n /\ k \in 0 .. n
      BY <1>3
    <2> QED BY <1>1, <2>1, <2>2
  <1>7. p \in Seq(X) /\ Len(p) = n
    <2>1. \A x \in Nat, y \in Nat : x <= y /\ y <= L => SubSeq(s, x + 1, y) \in X
      BY SliceIs
    <2> HIDE DEF at, X, L, n
    <2>2. \A k \in 1 .. n : p[k] \in X
      BY <1>4, <1>5, <1>6, <2>1, Zenon
    <2>3. p = [k \in 1 .. n |-> p[k]]
      BY Zenon DEF AllFixed, n
    <2> HIDE DEF p
    <2>4. p \in [1 .. n -> X]
      BY <2>2, <2>3, Zenon
    <2> QED BY <1>3, <2>4, ListOf
  <1> DEFINE b == [k \in 0 .. n |-> at(k)]
  <1> HIDE DEF at, n, L, p, X
  <1>8. b \in [0 .. n -> Nat] /\ \A k \in 0 .. n : b[k] = at(k)
    BY <1>4, Zenon
  <1>9. b[0] = N /\ b[n] = L
    <2>1. 0 \in 0 .. n /\ n \in 0 .. n /\ at(0) = N /\ at(n) = L
      BY <1>1, <1>3 DEF at
    <2> QED BY <1>8, <2>1
  <1> HIDE DEF b
  <1>10. Tiled(p, s, b)
    <2>1. \A k \in 1 .. n : b[k - 1] <= b[k] /\ b[k] <= L /\ p[k] = SubSeq(s, b[k - 1] + 1, b[k])
      BY <1>4, <1>5, <1>6, <1>8, Zenon
    <2>2. b[0] <= L
      BY <1>1, <1>9
    <2> QED BY <1>7, <1>8, <2>1, <2>2, Zenon DEF Tiled, L
  <1>11. FlattenSeq(p) = SubSeq(s, N + 1, L)
    <2>1. p \in Seq(Seq(Digits))
      BY <1>7 DEF X
    <2>2. FlattenSeq(p) = SubSeq(s, b[0] + 1, b[Len(p)])
      BY <1>10, <2>1, TilesJoin
    <2> QED BY <1>7, <1>9, <2>2, Zenon
  <1>12. pack_number(n) = SubSeq(s, 1, N)
    <2>1. 0 + N <= L /\ 0 \in Nat /\ 0 + 1 = 1 /\ 0 + N = N
      BY <1>1
    <2>2. pack_number(unpack_number(s, 0)) = SubSeq(s, 0 + 1, 0 + N)
      BY <2>1, PackUnpack DEF L
    <2> QED BY <2>1, <2>2 DEF n
  <1>13. SubSeq(s, 1, N) \o SubSeq(s, N + 1, L) = SubSeq(s, 1, L)
    <2>1. \A x \in Nat, y \in Nat, z \in Nat : x <= y /\ y <= z /\ z <= L =>
            SubSeq(s, x + 1, y) \o SubSeq(s, y + 1, z) = SubSeq(s, x + 1, z)
      BY Adjoin DEF L
    <2>2. 0 \in Nat /\ 0 + 1 = 1 /\ 0 <= N /\ L <= L /\ N <= L
      BY <1>1
    <2>3. SubSeq(s, 0 + 1, N) \o SubSeq(s, N + 1, L) = SubSeq(s, 0 + 1, L)
      BY <1>1, <2>1, <2>2, Zenon
    <2> QED BY <2>2, <2>3
  <1>14. SubSeq(s, 1, L) = s
    BY SubSeqFull DEF L
  <1>15. fixvec_write(p) = s
    BY <1>7, <1>11, <1>12, <1>13, <1>14, Zenon DEF fixvec_write
  <1> QED BY <1>1, <1>3, <1>7, <1>11, <1>15, Zenon DEF n, L, p, X

LEMMA BytesCanonical ==
    ASSUME NEW s \in Seq(Digits), Bytes_verify(s)
    PROVE  Bytes_write(Bytes_read(s)) = s
  <1> DEFINE n == unpack_number(s, 0)
             N == NUMBER_SIZE
             L == Len(s)
             X == Seq(Digits)
             p == AllFixed(s, 1)
             v == FlattenSeq(p)
  <1>1. /\ n \in Nat /\ p \in Seq(X) /\ Len(p) = n /\ L = N + 1 * n
        /\ v = SubSeq(s, N + 1, L) /\ fixvec_write(p) = s
    <2>1. FixvecOk(s, 1) /\ 1 \in Nat \ {0}
      BY DEF Bytes_verify
    <2> QED BY <2>1, FixvecCanonical, Zenon
  <1>2. N \in Nat /\ N >= 1 /\ L \in Nat /\ L = N + n
    BY <1>1, Sizes
  <1>3. v \in X /\ Len(v) = n /\ \A i \in 1 .. n : v[i] = s[N + i]
    <2>1. N <= L /\ L <= L /\ L - N = n
      <3>1. n \in Nat
        BY <1>1, Zenon
      <3> HIDE DEF n, L, N
      <3> QED BY <1>2, <3>1
    <2> DEFINE w == SubSeq(s, N + 1, L)
    <2>2. w \in X /\ Len(w) = L - N /\ \A i \in 1 .. L - N : w[i] = s[N + i]
      BY <1>2, <2>1, SliceIs
    <2> HIDE DEF w, v, n, L
    <2>3. v = w
      BY <1>1 DEF w
    <2> QED BY <2>1, <2>2, <2>3, Zenon
  <1>4. DOMAIN v = 1 .. n /\ DOMAIN p = 1 .. n
    <2> HIDE DEF v, p
    <2> QED BY <1>1, <1>3, LenProperties
  <1>5. \A i \in 1 .. n : p[i] = <<v[i]>>
    <2> SUFFICES ASSUME NEW i \in 1 .. n PROVE p[i] = <<v[i]>>
      OBVIOUS
    <2> DEFINE x == N + 1 * (i - 1)
               y == N + 1 * ((i - 1) + 1)
               w == SubSeq(s, x + 1, y)
    <2>1. p[i] = w
      BY Zenon DEF AllFixed, get_fixed, Slice
    <2>2. x \in Nat /\ y \in Nat /\ x <= y /\ y <= L /\ y - x = 1 /\ x + 1 = N + i
      <3> HIDE DEF n, L
      <3> QED BY <1>1, <1>2
    <2> HIDE DEF x, y
    <2>3. w \in X /\ Len(w) = y - x /\ \A j \in 1 .. y - x : w[j] = s[x + j]
      BY <2>2, SliceIs
    <2> HIDE DEF w
    <2>4. Len(w) = 1 /\ w[1] = s[N + i] /\ w[1] \in Digits
      BY <2>2, <2>3
    <2>5. w = <<w[1]>>
      <3>1. <<w[1]>> \in Seq(Digits) /\ Len(<<w[1]>>) = 1 /\ <<w[1]>>[1] = w[1]
        BY <2>4
      <3>2. \A j \in 1 .. Len(w) : j = 1
        BY <2>4
      <3> QED BY <2>3, <2>4, <3>1, <3>2, SeqEqual
    <2>6. v[i] = w[1]
      BY <1>3, <2>4
    <2> HIDE DEF v, p
    <2> QED BY <2>1, <2>5, <2>6, Zenon
  <1>6. [i \in DOMAIN v |-> <<v[i]>>] = p
    <2>1. p = [i \in 1 .. n |-> p[i]]
      BY Zenon DEF AllFixed
    <2> HIDE DEF v, p, n
    <2> QED BY <1>4, <1>5, <2>1, Zenon
  <1> QED BY <1>1, <1>6, Zenon DEF Bytes_write, Bytes_read

LEMMA PipeIndicesCanonical ==
    ASSUME NEW s \in Seq(Digits), PipeIndices_verify(s)
    PROVE  PipeIndices_write(PipeIndices_read(s)) = s
  <1> DEFINE p == AllFixed(s, IndexSize)
             D == DOMAIN p
  <1>1. fixvec_write(p) = s
    <2>1. FixvecOk(s, IndexSize) /\ IndexSize \in Nat \ {0}
      BY Sizes DEF PipeIndices_verify
    <2> QED BY <2>1, FixvecCanonical, Zenon
  <1>2. p = [i \in D |-> p[i]]
    BY Zenon DEF AllFixed
  <1>3. PipeIndices_read(s) = [i \in D |-> p[i]]
    BY Zenon DEF PipeIndices_read, PipeIndex_read
  <1> HIDE DEF p
  <1>4. PipeIndices_write(p) = fixvec_write([i \in D |-> p[i]])
    BY Zenon DEF PipeIndices_write, PipeIndex_write
  <1> QED BY <1>1, <1>2, <1>3, <1>4, Zenon

(* A verified dynvec is written as it was, with or without items. *)
LEMMA DynvecCanonical ==
    ASSUME NEW s \in Seq(Digits), DynvecOk(s)
    PROVE  /\ dynvec_write(AllItems(s)) = s
           /\ AllItems(s) = [i \in DOMAIN AllItems(s) |-> AllItems(s)[i]]
           /\ \A i \in DOMAIN AllItems(s) :
                 AllItems(s)[i] \in Items(s) /\ AllItems(s)[i] \in Seq(Digits)
  <1> DEFINE p == AllItems(s)
             N == NUMBER_SIZE
             L == Len(s)
  <1>0. L \in Nat /\ N \in Nat /\ N >= 1 /\ L >= N /\ unpack_number(s, 0) = L
    BY Sizes DEF DynvecOk, SizeOk
  <1>1. p = [i \in DOMAIN p |-> p[i]]
    BY Zenon DEF AllItems
  <1>2. CASE L = N
    <2>1. ItemCount(s) = 0
      BY <1>0, <1>2 DEF ItemCount
    <2>2. DOMAIN p = {}
      BY <2>1 DEF AllItems
    <2> DEFINE e == <<>>
    <2>3. p = e
      <3>1. p \in [1 .. 0 -> Digits]
        <4> HIDE DEF p
        <4> QED BY <1>1, <2>2
      <3> HIDE DEF p
      <3>2. p \in Seq(Digits) /\ Len(p) = 0
        BY <3>1, ListOf
      <3> QED BY <3>2, EmptySeq
    <2>4. /\ FlattenSeq(e) = e /\ Len(e) = 0 /\ DOMAIN e = {} /\ SubSeq(e, 1, 0) = e
          /\ e \in Seq(Digits)
      <3>1. Len(e) = 0 /\ DOMAIN e = {} /\ SubSeq(e, 1, 0) = e /\ e \in Seq(Digits)
        OBVIOUS
      <3> HIDE DEF e
      <3>2. FlattenSeq(e) = e
        BY <3>1, Zenon DEF FlattenSeq
      <3> QED BY <3>1, <3>2
    <2>5. pack_number(L) = s
      <3>1. 0 + N <= L /\ 0 \in Nat /\ 0 + 1 = 1 /\ 0 + N = L
        BY <1>0, <1>2
      <3>2. pack_number(unpack_number(s, 0)) = SubSeq(s, 0 + 1, 0 + N)
        BY <3>1, PackUnpack
      <3>3. SubSeq(s, 1, L) = s
        BY SubSeqFull
      <3> QED BY <1>0, <3>1, <3>2, <3>3
    <2>6. Offset(e, 1) = L /\ 0 + 1 = 1 /\ 1 - 1 = 0
      <3>1. N * (0 + 1) + 0 = N /\ 1 - 1 = 0 /\ 0 + 1 = 1
        BY <1>0
      <3> HIDE DEF e
      <3>2. Offset(e, 1) = N * (0 + 1) + 0
        BY <2>4, <3>1, Zenon DEF Offset
      <3> QED BY <1>2, <3>1, <3>2
    <2>7. [i \in DOMAIN e |-> pack_number(Offset(e, i))] = e
      <3>1. e = [i \in DOMAIN e |-> e[i]]
        OBVIOUS
      <3> HIDE DEF e
      <3> QED BY <2>4, <3>1
    <2>8. s \o e = s
      BY ConcatEmptySeq
    <2> HIDE DEF e, p
    <2>9. table_write(e) = (pack_number(Offset(e, 0 + 1)) \o e) \o e
      BY <2>4, <2>7, Zenon DEF table_write
    <2>10. table_write(e) = s
      BY <2>5, <2>6, <2>8, <2>9
    <2> QED BY <1>1, <2>2, <2>3, <2>10, Zenon DEF dynvec_write, p
  <1>3. CASE L # N
    <2>0. SizeOk(s) /\ HeaderOk(s) /\ Rising(s)
      BY <1>3 DEF DynvecOk
    <2>1. s \in Seq(Int)
      BY DigitsAreInt
    <2>2. Headed(s, Count(s))
      BY <2>0, <2>1, HeadedIs
    <2>3. ItemCount(s) = Count(s)
      BY <2>2 DEF Headed
    <2>4. DOMAIN p = 1 .. Count(s) /\ Items(s) = {Part(s, i) : i \in 1 .. Count(s)}
      BY <1>3, <2>3, Zenon DEF AllItems, Items
    <2>5. \A i \in 1 .. Count(s) : p[i] = Part(s, i)
      BY <2>1, <2>4, DynvecIs
    <2>6. p = Parts(s)
      BY <1>1, <2>4, <2>5, Zenon DEF Parts
    <2>7. table_write(Parts(s)) = s
      BY <2>0, TableCanonical
    <2>8. \A i \in 1 .. Count(s) : Part(s, i) \in Seq(Digits)
      BY <2>2, PartsIs
    <2> HIDE DEF p
    <2> QED BY <1>1, <2>4, <2>5, <2>6, <2>7, <2>8, Zenon DEF dynvec_write, p
  <1> QED BY <1>2, <1>3

(* Spawn, Pipe and Write: what strict verification accepts. *)
LEMMA Compatible == ASSUME NEW s, NEW f, TableOk(s, f, FALSE) PROVE TableOk(s, f, TRUE) /\ Count(s) = f
  BY DEF TableOk, FieldsOk

LEMMA StrictTable ==
    ASSUME NEW s \in Seq(Digits), NEW f \in Nat \ {0}, TableOk(s, f, FALSE)
    PROVE  /\ \A i \in 1 .. f : field(s, f, i) = Part(s, i) /\ Part(s, i) \in Seq(Digits)
           /\ table_write([i \in 1 .. f |-> Part(s, i)]) = s
  <1>1. TableOk(s, f, TRUE) /\ Count(s) = f /\ SizeOk(s) /\ HeaderOk(s) /\ Rising(s)
    BY Compatible DEF TableOk
  <1>2. s \in Seq(Int)
    BY DigitsAreInt
  <1>3. \A i \in 1 .. f : field(s, f, i) = Part(s, i)
    BY <1>1, <1>2, TableIs
  <1>4. Headed(s, f)
    BY <1>1, <1>2, HeadedIs
  <1>5. \A i \in 1 .. f : Part(s, i) \in Seq(Digits)
    BY <1>1, <1>4, PartsIs
  <1>6. table_write(Parts(s)) = s
    BY <1>1, TableCanonical
  <1> QED BY <1>1, <1>3, <1>5, <1>6, Zenon DEF Parts

LEMMA Tuples ==
    /\ \A f : f = [i \in 1 .. 3 |-> f[i]] => f = <<f[1], f[2], f[3]>>
    /\ \A f : f = [i \in 1 .. 5 |-> f[i]] => f = <<f[1], f[2], f[3], f[4], f[5]>>
  OBVIOUS

LEMMA StrictFields ==
    ASSUME NEW s \in Seq(Digits)
    PROVE  /\ TableOk(s, 3, FALSE) =>
                /\ \A i \in {1, 2, 3} : field(s, 3, i) = Part(s, i) /\ Part(s, i) \in Seq(Digits)
                /\ table_write(<<Part(s, 1), Part(s, 2), Part(s, 3)>>) = s
           /\ TableOk(s, 5, FALSE) =>
                /\ \A i \in {1, 2, 3, 4, 5} :
                      field(s, 5, i) = Part(s, i) /\ Part(s, i) \in Seq(Digits)
                /\ table_write(<<Part(s, 1), Part(s, 2), Part(s, 3), Part(s, 4), Part(s, 5)>>) = s
  <1>1. 3 \in Nat \ {0} /\ 5 \in Nat \ {0}
    OBVIOUS
  <1>2. ASSUME TableOk(s, 3, FALSE)
        PROVE  /\ \A i \in {1, 2, 3} : field(s, 3, i) = Part(s, i) /\ Part(s, i) \in Seq(Digits)
               /\ table_write(<<Part(s, 1), Part(s, 2), Part(s, 3)>>) = s
    <2> DEFINE p == [i \in 1 .. 3 |-> Part(s, i)]
    <2>1. /\ \A i \in 1 .. 3 : field(s, 3, i) = Part(s, i) /\ Part(s, i) \in Seq(Digits)
          /\ table_write(p) = s
      BY <1>1, <1>2, StrictTable, Zenon
    <2>2. p = <<p[1], p[2], p[3]>>
      <3>1. p = [i \in 1 .. 3 |-> p[i]]
        BY Zenon
      <3> HIDE DEF p
      <3> QED BY <3>1, Tuples, Zenon
    <2>3. \A i \in {1, 2, 3} : i \in 1 .. 3
      OBVIOUS
    <2>4. p[1] = Part(s, 1) /\ p[2] = Part(s, 2) /\ p[3] = Part(s, 3)
      OBVIOUS
    <2> HIDE DEF p
    <2> QED BY <2>1, <2>2, <2>3, <2>4, Zenon
  <1>3. ASSUME TableOk(s, 5, FALSE)
        PROVE  /\ \A i \in {1, 2, 3, 4, 5} :
                     field(s, 5, i) = Part(s, i) /\ Part(s, i) \in Seq(Digits)
               /\ table_write(<<Part(s, 1), Part(s, 2), Part(s, 3), Part(s, 4), Part(s, 5)>>) = s
    <2> DEFINE p == [i \in 1 .. 5 |-> Part(s, i)]
    <2>1. /\ \A i \in 1 .. 5 : field(s, 5, i) = Part(s, i) /\ Part(s, i) \in Seq(Digits)
          /\ table_write(p) = s
      BY <1>1, <1>3, StrictTable, Zenon
    <2>2. p = <<p[1], p[2], p[3], p[4], p[5]>>
      <3>1. p = [i \in 1 .. 5 |-> p[i]]
        BY Zenon
      <3> HIDE DEF p
      <3> QED BY <3>1, Tuples, Zenon
    <2>3. \A i \in {1, 2, 3, 4, 5} : i \in 1 .. 5
      OBVIOUS
    <2>4. /\ p[1] = Part(s, 1) /\ p[2] = Part(s, 2) /\ p[3] = Part(s, 3) /\ p[4] = Part(s, 4)
          /\ p[5] = Part(s, 5)
      OBVIOUS
    <2> HIDE DEF p
    <2> QED BY <2>1, <2>2, <2>3, <2>4, Zenon
  <1> QED BY <1>2, <1>3

LEMMA SpawnCanonical ==
    ASSUME NEW s \in Seq(Digits), Spawn_verify(s, FALSE)
    PROVE  Spawn_write(Spawn_read(s)) = s
  <1>1. TableOk(s, 3, FALSE) /\ PipeIndices_verify(Part(s, 3))
    BY DEF Spawn_verify
  <1>2. /\ field(s, 3, 1) = Part(s, 1) /\ field(s, 3, 2) = Part(s, 2) /\ field(s, 3, 3) = Part(s, 3)
        /\ Part(s, 3) \in Seq(Digits)
        /\ table_write(<<Part(s, 1), Part(s, 2), Part(s, 3)>>) = s
    BY <1>1, StrictFields
  <1>3. PipeIndices_write(PipeIndices_read(Part(s, 3))) = Part(s, 3)
    BY <1>1, <1>2, PipeIndicesCanonical
  <1>4. /\ Spawn_read(s).from = Part(s, 1) /\ Spawn_read(s).child = Part(s, 2)
        /\ Spawn_read(s).pipes = PipeIndices_read(Part(s, 3))
    BY <1>2 DEF Spawn_read, VmIndex_read
  <1> QED BY <1>2, <1>3, <1>4, Zenon DEF Spawn_write, VmIndex_write

LEMMA PipeCanonical ==
    ASSUME NEW s \in Seq(Digits), Pipe_verify(s, FALSE)
    PROVE  Pipe_write(Pipe_read(s)) = s
  <1>1. TableOk(s, 3, FALSE)
    BY DEF Pipe_verify
  <1>2. /\ field(s, 3, 1) = Part(s, 1) /\ field(s, 3, 2) = Part(s, 2) /\ field(s, 3, 3) = Part(s, 3)
        /\ table_write(<<Part(s, 1), Part(s, 2), Part(s, 3)>>) = s
    BY <1>1, StrictFields
  <1>3. /\ Pipe_read(s).vm = Part(s, 1) /\ Pipe_read(s).read_pipe = Part(s, 2)
        /\ Pipe_read(s).write_pipe = Part(s, 3)
    BY <1>2 DEF Pipe_read, VmIndex_read, PipeIndex_read
  <1> QED BY <1>2, <1>3, Zenon DEF Pipe_write, VmIndex_write, PipeIndex_write

LEMMA WriteCanonical ==
    ASSUME NEW s \in Seq(Digits), Write_verify(s, FALSE)
    PROVE  Write_write(Write_read(s)) = s
  <1>1. TableOk(s, 5, FALSE) /\ Bytes_verify(Part(s, 5))
    BY DEF Write_verify
  <1>2. /\ field(s, 5, 1) = Part(s, 1) /\ field(s, 5, 2) = Part(s, 2) /\ field(s, 5, 3) = Part(s, 3)
        /\ field(s, 5, 4) = Part(s, 4) /\ field(s, 5, 5) = Part(s, 5) /\ Part(s, 5) \in Seq(Digits)
        /\ table_write(<<Part(s, 1), Part(s, 2), Part(s, 3), Part(s, 4), Part(s, 5)>>) = s
    BY <1>1, StrictFields
  <1>3. Bytes_write(Bytes_read(Part(s, 5))) = Part(s, 5)
    BY <1>1, <1>2, BytesCanonical
  <1>4. /\ Write_read(s).from = Part(s, 1) /\ Write_read(s).from_pipe = Part(s, 2)
        /\ Write_read(s).to = Part(s, 3) /\ Write_read(s).to_pipe = Part(s, 4)
        /\ Write_read(s).data = Bytes_read(Part(s, 5))
    BY <1>2 DEF Write_read, VmIndex_read, PipeIndex_read
  <1> QED BY <1>2, <1>3, <1>4, Zenon DEF Write_write, VmIndex_write, PipeIndex_write

LEMMA SpawnsCanonical ==
    ASSUME NEW s \in Seq(Digits), Spawns_verify(s, FALSE)
    PROVE  Spawns_write(Spawns_read(s)) = s
  <1> DEFINE p == AllItems(s)
             v == Spawns_read(s)
  <1>1. DynvecOk(s) /\ \A x \in Items(s) : Spawn_verify(x, FALSE)
    BY DEF Spawns_verify
  <1>2. /\ dynvec_write(p) = s /\ p = [i \in DOMAIN p |-> p[i]]
        /\ \A i \in DOMAIN p : p[i] \in Items(s) /\ p[i] \in Seq(Digits)
    BY <1>1, DynvecCanonical, Zenon
  <1>3. v = [i \in DOMAIN p |-> Spawn_read(p[i])]
    BY Zenon DEF Spawns_read
  <1> HIDE DEF p, v
  <1>4. DOMAIN v = DOMAIN p /\ \A i \in DOMAIN p : v[i] = Spawn_read(p[i])
    BY <1>3, Zenon
  <1>5. \A i \in DOMAIN p : Spawn_write(v[i]) = p[i]
    BY <1>1, <1>2, <1>4, SpawnCanonical
  <1>6. [i \in DOMAIN v |-> Spawn_write(v[i])] = p
    BY <1>2, <1>4, <1>5, Zenon
  <1> QED BY <1>2, <1>6, Zenon DEF Spawns_write, v

LEMMA PipesCanonical ==
    ASSUME NEW s \in Seq(Digits), Pipes_verify(s, FALSE)
    PROVE  Pipes_write(Pipes_read(s)) = s
  <1> DEFINE p == AllItems(s)
             v == Pipes_read(s)
  <1>1. DynvecOk(s) /\ \A x \in Items(s) : Pipe_verify(x, FALSE)
    BY DEF Pipes_verify
  <1>2. /\ dynvec_write(p) = s /\ p = [i \in DOMAIN p |-> p[i]]
        /\ \A i \in DOMAIN p : p[i] \in Items(s) /\ p[i] \in Seq(Digits)
    BY <1>1, DynvecCanonical, Zenon
  <1>3. v = [i \in DOMAIN p |-> Pipe_read(p[i])]
    BY Zenon DEF Pipes_read
  <1> HIDE DEF p, v
  <1>4. DOMAIN v = DOMAIN p /\ \A i \in DOMAIN p : v[i] = Pipe_read(p[i])
    BY <1>3, Zenon
  <1>5. \A i \in DOMAIN p : Pipe_write(v[i]) = p[i]
    BY <1>1, <1>2, <1>4, PipeCanonical
  <1>6. [i \in DOMAIN v |-> Pipe_write(v[i])] = p
    BY <1>2, <1>4, <1>5, Zenon
  <1> QED BY <1>2, <1>6, Zenon DEF Pipes_write, v

LEMMA WritesCanonical ==
    ASSUME NEW s \in Seq(Digits), Writes_verify(s, FALSE)
    PROVE  Writes_write(Writes_read(s)) = s
  <1> DEFINE p == AllItems(s)
             v == Writes_read(s)
  <1>1. DynvecOk(s) /\ \A x \in Items(s) : Write_verify(x, FALSE)
    BY DEF Writes_verify
  <1>2. /\ dynvec_write(p) = s /\ p = [i \in DOMAIN p |-> p[i]]
        /\ \A i \in DOMAIN p : p[i] \in Items(s) /\ p[i] \in Seq(Digits)
    BY <1>1, DynvecCanonical, Zenon
  <1>3. v = [i \in DOMAIN p |-> Write_read(p[i])]
    BY Zenon DEF Writes_read
  <1> HIDE DEF p, v
  <1>4. DOMAIN v = DOMAIN p /\ \A i \in DOMAIN p : v[i] = Write_read(p[i])
    BY <1>3, Zenon
  <1>5. \A i \in DOMAIN p : Write_write(v[i]) = p[i]
    BY <1>1, <1>2, <1>4, WriteCanonical
  <1>6. [i \in DOMAIN v |-> Write_write(v[i])] = p
    BY <1>2, <1>4, <1>5, Zenon
  <1> QED BY <1>2, <1>6, Zenon DEF Writes_write, v

(* A slice that strict verification accepts is the one the builder writes *)
(* for the value that is read from it.                                    *)
THEOREM DataCanonical ==
    ASSUME NEW s \in Seq(Digits), Data_verify(s, FALSE)
    PROVE  Data_write(Data_read(s)) = s
  <1>1. /\ TableOk(s, 3, FALSE) /\ Spawns_verify(Part(s, 1), FALSE)
        /\ Pipes_verify(Part(s, 2), FALSE) /\ Writes_verify(Part(s, 3), FALSE)
    BY DEF Data_verify
  <1>2. /\ field(s, 3, 1) = Part(s, 1) /\ field(s, 3, 2) = Part(s, 2) /\ field(s, 3, 3) = Part(s, 3)
        /\ Part(s, 1) \in Seq(Digits) /\ Part(s, 2) \in Seq(Digits) /\ Part(s, 3) \in Seq(Digits)
        /\ table_write(<<Part(s, 1), Part(s, 2), Part(s, 3)>>) = s
    BY <1>1, StrictFields
  <1>3. /\ Spawns_write(Spawns_read(Part(s, 1))) = Part(s, 1)
        /\ Pipes_write(Pipes_read(Part(s, 2))) = Part(s, 2)
        /\ Writes_write(Writes_read(Part(s, 3))) = Part(s, 3)
    BY <1>1, <1>2, SpawnsCanonical, PipesCanonical, WritesCanonical
  <1>4. /\ Data_read(s).spawns = Spawns_read(Part(s, 1)) /\ Data_read(s).pipes = Pipes_read(Part(s, 2))
        /\ Data_read(s).writes = Writes_read(Part(s, 3))
    BY <1>2 DEF Data_read
  <1> QED BY <1>2, <1>3, <1>4, Zenon DEF Data_write

-----------------------------------------------------------------------------
(* The slices of the specification are made of bytes *)

LEMMA TableTyped ==
    ASSUME NEW p \in Seq(Seq(Digits))
    PROVE  table_write(p) \in Seq(Digits)
  <1> DEFINE X == Seq(Digits)
             m == Len(p)
             hp == [i \in DOMAIN p |-> pack_number(Offset(p, i))]
  <1>1. m \in Nat /\ DOMAIN p = 1 .. m
    BY LenProperties
  <1>2. ASSUME NEW i \in 1 .. m + 1 PROVE Offset(p, i) \in Int
    <2> DEFINE q == SubSeq(p, 1, i - 1)
    <2>1. q \in Seq(X)
      <3>1. 1 \in Int /\ i - 1 \in Int
        BY <1>1
      <3>2. \A j \in 1 .. i - 1 : p[j] \in X
        BY <1>1
      <3> HIDE DEF X
      <3> QED BY <3>1, <3>2, SubSeqProperties
    <2>2. FlattenSeq(q) \in Seq(Digits)
      BY <2>1, JoinTyped
    <2>3. Len(FlattenSeq(q)) \in Nat
      <3> DEFINE t == FlattenSeq(q)
      <3>1. t \in Seq(Digits)
        BY <2>2
      <3> HIDE DEF t
      <3>2. Len(t) \in Nat
        BY <3>1, LenProperties
      <3> QED BY <3>2 DEF t
    <2>4. NUMBER_SIZE * (m + 1) \in Int
      BY <1>1, Sizes
    <2> DEFINE l == Len(FlattenSeq(q))
    <2>5. Offset(p, i) = NUMBER_SIZE * (m + 1) + l
      BY Zenon DEF Offset
    <2> HIDE DEF l, m
    <2>6. l \in Nat
      BY <2>3 DEF l
    <2> QED BY <2>4, <2>5, <2>6
  <1>3. hp \in Seq(X)
    <2>1. \A i \in 1 .. m : i \in 1 .. m + 1
      BY <1>1
    <2>2. \A i \in 1 .. m : pack_number(Offset(p, i)) \in X
      BY <1>2, <2>1, PackTyped
    <2> HIDE DEF X
    <2>3. hp \in [1 .. m -> X]
      BY <1>1, <2>2, Zenon
    <2> HIDE DEF hp
    <2> QED BY <1>1, <2>3, ListOf
  <1>4. FlattenSeq(hp) \in X
    <2> HIDE DEF hp
    <2> QED BY <1>3, JoinTyped
  <1>5. FlattenSeq(p) \in X
    BY JoinTyped
  <1>6. pack_number(Offset(p, m + 1)) \in X
    <2>1. m + 1 \in 1 .. m + 1
      BY <1>1
    <2> QED BY <1>2, <2>1, PackTyped
  <1>7. \A x \in X, y \in X, z \in X : (x \o y) \o z \in X
    OBVIOUS
  <1> HIDE DEF X, hp
  <1>8. table_write(p) = (pack_number(Offset(p, m + 1)) \o FlattenSeq(hp)) \o FlattenSeq(p)
    BY Zenon DEF table_write, hp
  <1> QED BY <1>4, <1>5, <1>6, <1>7, <1>8, Zenon DEF X

LEMMA FixvecTyped ==
    ASSUME NEW p \in Seq(Seq(Digits))
    PROVE  fixvec_write(p) \in Seq(Digits)
  <1> DEFINE X == Seq(Digits)
  <1>1. pack_number(Len(p)) \in X
    BY PackTyped
  <1>2. FlattenSeq(p) \in X
    BY JoinTyped
  <1>3. \A x \in X, y \in X : x \o y \in X
    OBVIOUS
  <1> HIDE DEF X
  <1> QED BY <1>1, <1>2, <1>3, Zenon DEF fixvec_write, X

(* The values that can be written. *)
Index == {x \in Seq(Digits) : Len(x) = IndexSize}
SpawnValue == [from : Index, child : Index, pipes : Seq(Index)]
PipeValue == [vm : Index, read_pipe : Index, write_pipe : Index]
WriteValue == [from : Index, from_pipe : Index, to : Index, to_pipe : Index, data : Seq(Digits)]
DataValue == [spawns : Seq(SpawnValue), pipes : Seq(PipeValue), writes : Seq(WriteValue)]

LEMMA SpawnTyped == ASSUME NEW v \in SpawnValue PROVE Spawn_write(v) \in Seq(Digits)
  <1>1. v.from \in Seq(Digits) /\ v.child \in Seq(Digits) /\ v.pipes \in Seq(Seq(Digits))
    <2>1. v.from \in Index /\ v.child \in Index /\ v.pipes \in Seq(Index)
      BY DEF SpawnValue
    <2>2. v.pipes \in Seq(Seq(Digits))
      <3>1. Index \subseteq Seq(Digits)
        BY DEF Index
      <3> QED BY <2>1, <3>1, Widened
    <2> QED BY <2>1, <2>2 DEF Index
  <1>2. PipeIndices_write(v.pipes) \in Seq(Digits)
    <2> DEFINE X == Seq(Digits)
               p == v.pipes
    <2>1. p \in Seq(X)
      BY <1>1
    <2> HIDE DEF p, X
    <2>2. [i \in DOMAIN p |-> p[i]] = p
      BY <2>1, LenProperties
    <2>3. PipeIndices_write(p) = fixvec_write(p)
      BY <2>2, Zenon DEF PipeIndices_write, PipeIndex_write
    <2>4. fixvec_write(p) \in Seq(Digits)
      BY <2>1, FixvecTyped DEF X
    <2> QED BY <2>3, <2>4 DEF p
  <1>3. \A a \in Seq(Digits), b \in Seq(Digits), c \in Seq(Digits) : <<a, b, c>> \in Seq(Seq(Digits))
    OBVIOUS
  <1>4. <<v.from, v.child, PipeIndices_write(v.pipes)>> \in Seq(Seq(Digits))
    BY <1>1, <1>2, <1>3, Zenon
  <1> QED BY <1>4, TableTyped, Zenon DEF Spawn_write, VmIndex_write

LEMMA PipeTyped == ASSUME NEW v \in PipeValue PROVE Pipe_write(v) \in Seq(Digits)
  <1>1. v.vm \in Seq(Digits) /\ v.read_pipe \in Seq(Digits) /\ v.write_pipe \in Seq(Digits)
    <2>1. v.vm \in Index /\ v.read_pipe \in Index /\ v.write_pipe \in Index
      BY DEF PipeValue
    <2> QED BY <2>1 DEF Index
  <1>2. \A a \in Seq(Digits), b \in Seq(Digits), c \in Seq(Digits) : <<a, b, c>> \in Seq(Seq(Digits))
    OBVIOUS
  <1>3. <<v.vm, v.read_pipe, v.write_pipe>> \in Seq(Seq(Digits))
    BY <1>1, <1>2, Zenon
  <1> QED BY <1>3, TableTyped, Zenon DEF Pipe_write, VmIndex_write, PipeIndex_write

LEMMA WriteTyped == ASSUME NEW v \in WriteValue PROVE Write_write(v) \in Seq(Digits)
  <1>1. /\ v.from \in Seq(Digits) /\ v.from_pipe \in Seq(Digits) /\ v.to \in Seq(Digits)
        /\ v.to_pipe \in Seq(Digits) /\ v.data \in Seq(Digits)
    <2>1. /\ v.from \in Index /\ v.from_pipe \in Index /\ v.to \in Index /\ v.to_pipe \in Index
          /\ v.data \in Seq(Digits)
      BY DEF WriteValue
    <2> QED BY <2>1 DEF Index
  <1>2. Bytes_write(v.data) \in Seq(Digits)
    <2> DEFINE d == v.data
               p == [i \in DOMAIN d |-> <<d[i]>>]
               X == Seq(Digits)
    <2>1. \A x \in Digits : <<x>> \in X
      OBVIOUS
    <2>2. d \in Seq(Digits)
      BY <1>1
    <2> HIDE DEF d, X
    <2>3. Len(d) \in Nat /\ DOMAIN d = 1 .. Len(d) /\ \A i \in 1 .. Len(d) : d[i] \in Digits
      BY <2>2, LenProperties
    <2>4. p \in [1 .. Len(d) -> X]
      BY <2>1, <2>3, Zenon
    <2> HIDE DEF p
    <2>5. p \in Seq(X)
      BY <2>3, <2>4, ListOf
    <2>6. fixvec_write(p) \in Seq(Digits)
      BY <2>5, FixvecTyped DEF X
    <2> QED BY <2>6, Zenon DEF Bytes_write, p, d
  <1>3. \A a \in Seq(Digits), b \in Seq(Digits), c \in Seq(Digits), d \in Seq(Digits), e \in Seq(Digits) :
           <<a, b, c, d, e>> \in Seq(Seq(Digits))
    OBVIOUS
  <1>4. <<v.from, v.from_pipe, v.to, v.to_pipe, Bytes_write(v.data)>> \in Seq(Seq(Digits))
    BY <1>1, <1>2, <1>3, Zenon
  <1> QED BY <1>4, TableTyped, Zenon DEF Write_write, VmIndex_write, PipeIndex_write

LEMMA DataTyped ==
    ASSUME NEW v \in DataValue
    PROVE  /\ Spawns_write(v.spawns) \in Seq(Digits) /\ Pipes_write(v.pipes) \in Seq(Digits)
           /\ Writes_write(v.writes) \in Seq(Digits)
           /\ Data_write(v) \in Seq(Digits) /\ NewerWrite(v) \in Seq(Digits)
  <1> DEFINE X == Seq(Digits)
  <1>1. /\ v.spawns \in Seq(SpawnValue) /\ v.pipes \in Seq(PipeValue)
        /\ v.writes \in Seq(WriteValue)
    BY DEF DataValue
  <1>2. ASSUME NEW u \in Seq(SpawnValue) PROVE Spawns_write(u) \in X
    <2> DEFINE p == [i \in DOMAIN u |-> Spawn_write(u[i])]
    <2>1. Len(u) \in Nat /\ DOMAIN u = 1 .. Len(u) /\ \A i \in 1 .. Len(u) : u[i] \in SpawnValue
      BY LenProperties
    <2>2. \A i \in 1 .. Len(u) : Spawn_write(u[i]) \in X
      BY <2>1, SpawnTyped
    <2> HIDE DEF X
    <2>3. p \in [1 .. Len(u) -> X]
      BY <2>1, <2>2, Zenon
    <2> HIDE DEF p
    <2>4. p \in Seq(X)
      BY <2>1, <2>3, ListOf
    <2>5. table_write(p) \in Seq(Digits)
      BY <2>4, TableTyped DEF X
    <2> QED BY <2>5, Zenon DEF Spawns_write, dynvec_write, p, X
  <1>3. ASSUME NEW u \in Seq(PipeValue) PROVE Pipes_write(u) \in X
    <2> DEFINE p == [i \in DOMAIN u |-> Pipe_write(u[i])]
    <2>1. Len(u) \in Nat /\ DOMAIN u = 1 .. Len(u) /\ \A i \in 1 .. Len(u) : u[i] \in PipeValue
      BY LenProperties
    <2>2. \A i \in 1 .. Len(u) : Pipe_write(u[i]) \in X
      BY <2>1, PipeTyped
    <2> HIDE DEF X
    <2>3. p \in [1 .. Len(u) -> X]
      BY <2>1, <2>2, Zenon
    <2> HIDE DEF p
    <2>4. p \in Seq(X)
      BY <2>1, <2>3, ListOf
    <2>5. table_write(p) \in Seq(Digits)
      BY <2>4, TableTyped DEF X
    <2> QED BY <2>5, Zenon DEF Pipes_write, dynvec_write, p, X
  <1>4. ASSUME NEW u \in Seq(WriteValue) PROVE Writes_write(u) \in X
    <2> DEFINE p == [i \in DOMAIN u |-> Write_write(u[i])]
    <2>1. Len(u) \in Nat /\ DOMAIN u = 1 .. Len(u) /\ \A i \in 1 .. Len(u) : u[i] \in WriteValue
      BY LenProperties
    <2>2. \A i \in 1 .. Len(u) : Write_write(u[i]) \in X
      BY <2>1, WriteTyped
    <2> HIDE DEF X
    <2>3. p \in [1 .. Len(u) -> X]
      BY <2>1, <2>2, Zenon
    <2> HIDE DEF p
    <2>4. p \in Seq(X)
      BY <2>1, <2>3, ListOf
    <2>5. table_write(p) \in Seq(Digits)
      BY <2>4, TableTyped DEF X
    <2> QED BY <2>5, Zenon DEF Writes_write, dynvec_write, p, X
  <1>5. <<1>> \in X
    <2>1. 1 \in Digits
      BY Sizes DEF Digits
    <2> QED BY <2>1
  <1>6. /\ \A a \in X, b \in X, c \in X : <<a, b, c>> \in Seq(X)
        /\ \A a \in X, b \in X, c \in X, d \in X : <<a, b, c, d>> \in Seq(X)
    <2> HIDE DEF X
    <2> QED OBVIOUS
  <1>7. \A p \in Seq(X) : table_write(p) \in X
    BY TableTyped
  <1>8. Spawns_write(v.spawns) \in X /\ Pipes_write(v.pipes) \in X /\ Writes_write(v.writes) \in X
    BY <1>1, <1>2, <1>3, <1>4, Zenon
  <1> HIDE DEF X
  <1>9. Data_write(v) \in X /\ NewerWrite(v) \in X
    BY <1>5, <1>6, <1>7, <1>8, Zenon DEF Data_write, NewerWrite
  <1> QED BY <1>8, <1>9 DEF X

LEMMA ValuesTyped == Values \subseteq DataValue
  <1>1. {0, 1, 2, 3} \subseteq Digits
    BY CodecsAssumption, MoleculeAssumption DEF Digits
  <1> DEFINE X == Index
  <1>2. \A n \in {0, 1, 2, 3} : Ix(n) \in X
    <2> SUFFICES ASSUME NEW n \in {0, 1, 2, 3} PROVE Ix(n) \in X
      OBVIOUS
    <2>1. n \in Digits /\ 0 \in Digits
      BY <1>1
    <2>2. Ix(n) \in [1 .. IndexSize -> Digits]
      BY <2>1 DEF Ix
    <2>3. IndexSize \in Nat
      BY Sizes
    <2>4. Ix(n) \in Seq(Digits) /\ Len(Ix(n)) = IndexSize
      BY <2>2, <2>3, ListOf
    <2> QED BY <2>4 DEF Index
  <1>3. Ix(0) \in X /\ Ix(1) \in X /\ Ix(2) \in X /\ Ix(3) \in X
    BY <1>2
  <1>4. <<1>> \in Seq(Digits)
    BY <1>1
  <1> HIDE DEF X
  <1>5. \A a \in X, b \in X : <<>> \in Seq(X) /\ <<a>> \in Seq(X) /\ <<a, b>> \in Seq(X)
    OBVIOUS
  <1>6. \A f \in X, c \in X, p \in Seq(X) : [from |-> f, child |-> c, pipes |-> p] \in SpawnValue
    BY DEF SpawnValue, X
  <1>7. \A f \in X, r \in X, w \in X : [vm |-> f, read_pipe |-> r, write_pipe |-> w] \in PipeValue
    BY DEF PipeValue, X
  <1>8. \A f \in X, g \in X, t \in X, u \in X, d \in Seq(Digits) :
           [from |-> f, from_pipe |-> g, to |-> t, to_pipe |-> u, data |-> d] \in WriteValue
    BY DEF WriteValue, X
  <1>9. \A s \in Seq(SpawnValue), p \in Seq(PipeValue), w \in Seq(WriteValue) :
           [spawns |-> s, pipes |-> p, writes |-> w] \in DataValue
    BY DEF DataValue
  <1>10. /\ \A a \in SpawnValue, b \in SpawnValue :
               <<>> \in Seq(SpawnValue) /\ <<a>> \in Seq(SpawnValue) /\ <<a, b>> \in Seq(SpawnValue)
         /\ \A a \in PipeValue : <<>> \in Seq(PipeValue) /\ <<a>> \in Seq(PipeValue)
         /\ \A a \in WriteValue : <<>> \in Seq(WriteValue) /\ <<a>> \in Seq(WriteValue)
         /\ <<>> \in Seq(PipeValue) /\ <<>> \in Seq(WriteValue) /\ <<>> \in Seq(SpawnValue)
    <2> HIDE DEF SpawnValue, PipeValue, WriteValue
    <2> QED OBVIOUS
  <1> HIDE DEF SpawnValue, PipeValue, WriteValue, DataValue
  <1>11. Nodes \in DataValue
    <2>1. <<Ix(2), Ix(3)>> \in Seq(X)
      BY <1>3, <1>5, Zenon
    <2>2. [from |-> Ix(0), child |-> Ix(1), pipes |-> <<Ix(2), Ix(3)>>] \in SpawnValue
      BY <1>3, <1>6, <2>1, Zenon
    <2> QED BY <1>9, <1>10, <2>2, Zenon DEF Nodes
  <1>12. Small \in DataValue
    <2>1. [vm |-> Ix(0), read_pipe |-> Ix(2), write_pipe |-> Ix(3)] \in PipeValue
      BY <1>3, <1>7, Zenon
    <2>2. [from |-> Ix(0), from_pipe |-> Ix(3), to |-> Ix(1), to_pipe |-> Ix(2), data |-> <<1>>] \in WriteValue
      BY <1>3, <1>4, <1>8, Zenon
    <2> QED BY <1>9, <1>10, <2>1, <2>2, Zenon DEF Small
  <1>13. Many \in DataValue
    <2>0. <<>> \in Seq(X) /\ <<Ix(1)>> \in Seq(X)
      BY <1>3, <1>5, Zenon
    <2>1. [from |-> Ix(0), child |-> Ix(1), pipes |-> <<>>] \in SpawnValue
      BY <1>3, <1>6, <2>0, Zenon
    <2>2. [from |-> Ix(1), child |-> Ix(2), pipes |-> <<Ix(1)>>] \in SpawnValue
      BY <1>3, <1>6, <2>0, Zenon
    <2>3. [vm |-> Ix(0), read_pipe |-> Ix(0), write_pipe |-> Ix(1)] \in PipeValue
      BY <1>3, <1>7, Zenon
    <2> QED BY <1>9, <1>10, <2>1, <2>2, <2>3, Zenon DEF Many
  <1> QED BY <1>11, <1>12, <1>13, Zenon DEF Values

SliceTyped == slice \in Seq(Digits)

LEMMA SliceInvariant == CodecsSpec => []SliceTyped
  <1>1. CodecsInit => SliceTyped
    <2> SUFFICES ASSUME CodecsInit PROVE SliceTyped
      OBVIOUS
    <2>1. value \in DataValue /\ slice = IF newer THEN NewerWrite(value) ELSE Data_write(value)
      BY ValuesTyped DEF CodecsInit
    <2>2. Data_write(value) \in Seq(Digits) /\ NewerWrite(value) \in Seq(Digits)
      BY <2>1, DataTyped
    <2> QED BY <2>1, <2>2, Zenon DEF SliceTyped
  <1>2. SliceTyped /\ [CodecsNext]_codec_vars => SliceTyped'
    <2> SUFFICES ASSUME SliceTyped, [CodecsNext]_codec_vars PROVE SliceTyped'
      OBVIOUS
    <2>0. slice \in Seq(Digits) /\ Len(slice) \in Nat /\ DOMAIN slice = 1 .. Len(slice)
      BY LenProperties DEF SliceTyped
    <2>1. ASSUME NEW i \in DOMAIN slice, NEW d, change(i, d) PROVE SliceTyped'
      <3>1. slice[i] + d \in Digits /\ slice' = [slice EXCEPT ![i] = slice[i] + d]
        BY <2>1 DEF change, Edited, Digits
      <3>2. slice \in [1 .. Len(slice) -> Digits]
        BY <2>0, LenProperties
      <3>3. slice' \in [1 .. Len(slice) -> Digits]
        BY <3>1, <3>2
      <3> QED BY <2>0, <3>3, ListOf DEF SliceTyped
    <2>2. ASSUME NEW i \in DOMAIN slice PROVE SubSeq(slice, 1, i - 1) \in Seq(Digits)
      <3>1. \A j \in 1 .. i - 1 : slice[j] \in Digits
        BY <2>0
      <3>2. 1 \in Int /\ i - 1 \in Int
        BY <2>0
      <3> QED BY <3>1, <3>2, SubSeqProperties
    <2>3. ASSUME NEW i \in 1 .. Len(slice) + 1 PROVE SubSeq(slice, i, Len(slice)) \in Seq(Digits)
      <3>1. \A j \in i .. Len(slice) : slice[j] \in Digits
        BY <2>0
      <3>2. i \in Int /\ Len(slice) \in Int
        BY <2>0
      <3> QED BY <3>1, <3>2, SubSeqProperties
    <2>4. <<0>> \in Seq(Digits)
      <3>1. 0 \in Digits
        BY Sizes DEF Digits
      <3> QED BY <3>1
    <2>5. ASSUME NEW i \in DOMAIN slice, insert(i) PROVE SliceTyped'
      <3>1. i \in 1 .. Len(slice) + 1
        BY <2>0
      <3>2. slice' = (SubSeq(slice, 1, i - 1) \o <<0>>) \o SubSeq(slice, i, Len(slice))
        BY <2>5, Zenon DEF insert, Edited, InsertAt
      <3>3. \A x \in Seq(Digits), y \in Seq(Digits), z \in Seq(Digits) : (x \o y) \o z \in Seq(Digits)
        OBVIOUS
      <3> QED BY <2>2, <2>3, <2>4, <3>1, <3>2, <3>3, Zenon DEF SliceTyped
    <2>6. ASSUME NEW i \in DOMAIN slice, leave_out(i) PROVE SliceTyped'
      <3>1. i + 1 \in 1 .. Len(slice) + 1
        BY <2>0
      <3>2. slice' = SubSeq(slice, 1, i - 1) \o SubSeq(slice, i + 1, Len(slice))
        BY <2>6, Zenon DEF leave_out, Edited, RemoveAt
      <3>3. \A x \in Seq(Digits), y \in Seq(Digits) : x \o y \in Seq(Digits)
        OBVIOUS
      <3> QED BY <2>2, <2>3, <3>1, <3>2, <3>3, Zenon DEF SliceTyped
    <2>7. CASE slice' = slice
      BY <2>7 DEF SliceTyped
    <2>8. ASSUME NEW x, longer(x) PROVE slice' = slice
      BY <2>8 DEF longer
    <2> QED BY <2>1, <2>5, <2>6, <2>7, <2>8 DEF CodecsNext, codec_vars
  <1> QED BY <1>1, <1>2, PTL DEF CodecsSpec

(* Whatever bytes are changed, inserted or left out of an encoding: what   *)
(* compatible verification accepts, every accessor can read.               *)
THEOREM VerifiedIsReadableHolds == CodecsSpec => []VerifiedIsReadable
  <1>1. SliceTyped => VerifiedIsReadable
    <2> SUFFICES ASSUME SliceTyped, Data_verify(slice, TRUE) PROVE DataSafe(slice)
      BY Zenon DEF VerifiedIsReadable
    <2>1. slice \in Seq(Int)
      BY DigitsAreInt DEF SliceTyped
    <2> QED BY <2>1, DataIsSafe
  <1> QED BY <1>1, SliceInvariant, PTL

(* And what strict verification accepts is the one encoding of the value   *)
(* the accessors return: builder and reader agree on every byte, in the    *)
(* headers as in the items, whatever the sizes of a number and an index.   *)
THEOREM StrictIsCanonicalHolds == CodecsSpec => []StrictIsCanonical
  <1>1. SliceTyped => StrictIsCanonical
    BY DataCanonical, Zenon DEF StrictIsCanonical, SliceTyped
  <1> QED BY <1>1, SliceInvariant, PTL

-----------------------------------------------------------------------------
(* What the builders write is read as it was built *)

(* How many numbers there are: the base, once for every byte of a number. *)
LEMMA NumbersIs ==
    \E c : /\ c \in [0 .. NUMBER_SIZE -> Nat] /\ c[0] = 1 /\ Numbers = c[NUMBER_SIZE]
           /\ \A k \in 1 .. NUMBER_SIZE : c[k] = c[k - 1] * Base
  <1> DEFINE m == NUMBER_SIZE
             X == Nat
             F == [n \in 1 .. m |-> [x \in X |-> x * Base]]
             P(h) == h = [n \in 0 .. m |-> IF n = 0 THEN 1 ELSE h[n - 1] * Base]
  <1>0. m \in Nat /\ Base \in Nat \ {0}
    BY Sizes
  <1>1. \A x \in X : x * Base \in X
    BY <1>0
  <1> HIDE DEF m, X
  <1>2. F \in [1 .. m -> [X -> X]]
    <2>1. [x \in X |-> x * Base] \in [X -> X]
      BY <1>1, Zenon
    <2> QED BY <2>1, Zenon
  <1>3. PICK g : RecursionUpto(m, g, X, 1, F)
    <2>1. 1 \in X
      BY DEF X
    <2> HIDE DEF F
    <2> QED BY <1>0, <1>2, <2>1, IteratesUpto
  <1>4. /\ g \in [0 .. m -> X] /\ g[0] = 1
        /\ \A n \in 1 .. m : g[n] = g[n - 1] * Base
    <2>1. g \in [0 .. m -> X] /\ g[0] = 1 /\ \A n \in 1 .. m : g[n] = F[n][g[n - 1]]
      <3> HIDE DEF F
      <3> QED BY <1>3 DEF RecursionUpto
    <2>2. ASSUME NEW n \in 1 .. m PROVE F[n][g[n - 1]] = g[n - 1] * Base
      <3>1. n - 1 \in 0 .. m
        BY <1>0
      <3>2. g[n - 1] \in X
        <4> HIDE DEF F
        <4> QED BY <2>1, <3>1
      <3> QED BY <3>2, Zenon
    <2> HIDE DEF F
    <2> QED BY <2>1, <2>2
  <1>5. P(g)
    <2>1. \A n \in 0 .. m : g[n] = IF n = 0 THEN 1 ELSE g[n - 1] * Base
      <3>1. \A n \in 0 .. m : n = 0 \/ n \in 1 .. m
        BY <1>0
      <3> HIDE DEF F
      <3> QED BY <1>4, <3>1
    <2>2. g = [n \in 0 .. m |-> g[n]]
      BY <1>4
    <2> QED BY <2>1, <2>2, Zenon
  <1>6. P(CHOOSE h : P(h))
    <2> HIDE DEF P
    <2> QED BY <1>5, Zenon
  <1> DEFINE h == CHOOSE h : P(h)
  <1>7. Numbers = h[m]
    BY Zenon DEF Numbers, m
  <1> HIDE DEF h
  <1>8. P(h)
    BY <1>6, Zenon DEF h
  <1>9. h[0] = 1 /\ \A n \in 1 .. m : h[n] = h[n - 1] * Base
    <2>1. 0 \in 0 .. m /\ \A n \in 1 .. m : n \in 0 .. m /\ n # 0
      BY <1>0
    <2> QED BY <1>8, <2>1
  <1>10. h \in [0 .. m -> X]
    <2> DEFINE S == {n \in Nat : n <= m => h[n] \in X}
    <2>1. 0 \in S
      BY <1>9 DEF X
    <2>2. ASSUME NEW n \in Nat, n \in S PROVE n + 1 \in S
      <3> SUFFICES ASSUME n + 1 <= m PROVE h[n + 1] \in X
        OBVIOUS
      <3>1. n + 1 \in 1 .. m /\ (n + 1) - 1 = n /\ h[n] \in X
        BY <1>0, <2>2
      <3>2. h[n + 1] = h[n] * Base
        <4>1. h[n + 1] = h[(n + 1) - 1] * Base
          BY <1>9, <3>1, Zenon
        <4> QED BY <3>1, <4>1, Zenon
      <3> QED BY <1>1, <3>1, <3>2, Zenon
    <2>3. Nat \subseteq S
      <3> HIDE DEF S
      <3> QED BY <2>1, <2>2, Induct
    <2>4. \A n \in 0 .. m : h[n] \in X
      BY <1>0, <2>3
    <2>5. h = [n \in 0 .. m |-> h[n]]
      BY <1>8
    <2> QED BY <2>4, <2>5, Zenon
  <1> QED BY <1>7, <1>9, <1>10, Zenon DEF m, X

LEMMA NumbersNat == Numbers \in Nat
  <1>1. PICK n : n \in [0 .. NUMBER_SIZE -> Nat] /\ Numbers = n[NUMBER_SIZE]
    BY NumbersIs
  <1>2. NUMBER_SIZE \in 0 .. NUMBER_SIZE
    BY Sizes
  <1> QED BY <1>1, <1>2

LEMMA Quotient ==
    ASSUME NEW a \in Nat, NEW c \in Nat, a < c * Base
    PROVE  a \div Base \in Nat /\ a \div Base < c /\ (a \div Base) * Base + (a % Base) = a
  <1> DEFINE q == a \div Base
             r == a % Base
  <1>0. Base \in Nat \ {0}
    BY Sizes
  <1>1. q \in Int /\ r \in 0 .. Base - 1 /\ a = Base * q + r
    BY <1>0, DivMod
  <1> HIDE DEF q, r
  <1>2. q >= 0
    BY <1>0, <1>1
  <1>3. q < c
    BY <1>0, <1>1, <1>2
  <1>4. q * Base + r = a
    BY <1>0, <1>1
  <1>5. q \in Nat
    BY <1>1, <1>2
  <1> QED BY <1>3, <1>4, <1>5, Zenon DEF q, r

(* A number that fits is read as it was written. *)
LEMMA UnpackPack ==
    ASSUME NEW n \in Nat, n < Numbers, NEW s \in Seq(Int), NEW at \in Nat,
           at + NUMBER_SIZE <= Len(s), SubSeq(s, at + 1, at + NUMBER_SIZE) = pack_number(n)
    PROVE  unpack_number(s, at) = n
  <1> DEFINE N == NUMBER_SIZE
  <1>0. N \in Nat /\ N >= 1 /\ Len(s) \in Nat
    BY Sizes
  <1>1. PICK c : /\ c \in [0 .. N -> Nat] /\ c[0] = 1 /\ Numbers = c[N]
                 /\ \A k \in 1 .. N : c[k] = c[k - 1] * Base
    BY NumbersIs, Zenon
  <1>2. PICK r : Packing(r, n)
    BY PackIs
  <1>3. /\ r \in [0 .. N -> Int] /\ r[0] = n
        /\ \A k \in 1 .. N : r[k] = r[k - 1] \div Base
        /\ pack_number(n) = [k \in 1 .. N |-> r[k - 1] % Base]
    BY <1>2, Zenon DEF Packing
  <1>4. ASSUME NEW k \in 1 .. N PROVE s[at + k] = r[k - 1] % Base /\ s[at + k] \in Int
    <2> DEFINE b == SubSeq(s, at + 1, at + N)
    <2>1. at + N \in Nat /\ at <= at + N /\ at + N <= Len(s) /\ (at + N) - at = N
      BY <1>0
    <2>2. \A i \in 1 .. N : b[i] = s[at + i]
      <3>1. \A y \in Nat : at <= y /\ y <= Len(s) =>
               \A i \in 1 .. y - at : SubSeq(s, at + 1, y)[i] = s[at + i]
        BY SliceIs
      <3>2. \A i \in 1 .. (at + N) - at : SubSeq(s, at + 1, at + N)[i] = s[at + i]
        BY <2>1, <3>1, Zenon
      <3> QED BY <2>1, <3>2, Zenon
    <2>3. b = [i \in 1 .. N |-> r[i - 1] % Base]
      BY <1>3, Zenon
    <2>4. b[k] = r[k - 1] % Base
      <3> HIDE DEF b
      <3> QED BY <2>3
    <2>5. at + k \in 1 .. Len(s)
      BY <1>0
    <2> HIDE DEF b
    <2> QED BY <2>2, <2>4, <2>5
  <1>5. PICK h : Unpacking(h, s, at)
    <2>1. ASSUME NEW k \in 1 .. N PROVE s[at + N + 1 - k] \in Int
      <3>1. (N + 1) - k \in 1 .. N /\ at + ((N + 1) - k) = at + N + 1 - k
        BY <1>0
      <3> QED BY <1>4, <3>1
    <2> QED BY <2>1, UnpackIs
  <1>6. /\ h \in [0 .. N -> Int] /\ h[0] = 0 /\ unpack_number(s, at) = h[N]
        /\ \A k \in 1 .. N : h[k] = h[k - 1] * Base + s[at + N + 1 - k]
    BY <1>5, Zenon DEF Unpacking
  <1> HIDE DEF N
  <1>7. \A k \in Nat : k <= N => r[k] \in Nat /\ r[k] < c[N - k]
    <2> DEFINE S == {k \in Nat : k <= N => r[k] \in Nat /\ r[k] < c[N - k]}
    <2>1. 0 \in S
      <3>1. N - 0 = N
        BY <1>0
      <3> QED BY <1>1, <1>3, <3>1
    <2>2. ASSUME NEW k \in Nat, k \in S PROVE k + 1 \in S
      <3> SUFFICES ASSUME k + 1 <= N PROVE r[k + 1] \in Nat /\ r[k + 1] < c[N - (k + 1)]
        OBVIOUS
      <3>1. /\ k + 1 \in 1 .. N /\ (k + 1) - 1 = k /\ r[k] \in Nat /\ r[k] < c[N - k]
            /\ N - k \in 1 .. N /\ (N - k) - 1 = N - (k + 1) /\ N - (k + 1) \in 0 .. N
        BY <1>0, <2>2
      <3>2. r[k + 1] = r[k] \div Base /\ c[N - k] = c[N - (k + 1)] * Base
        <4>1. r[k + 1] = r[(k + 1) - 1] \div Base /\ c[N - k] = c[(N - k) - 1] * Base
          BY <1>1, <1>3, <3>1, Zenon
        <4> QED BY <3>1, <4>1, Zenon
      <3>3. c[N - (k + 1)] \in Nat
        BY <1>1, <3>1
      <3>4. \A x \in Nat, y \in Nat : x < y * Base => x \div Base \in Nat /\ x \div Base < y
        BY Quotient
      <3> QED BY <3>1, <3>2, <3>3, <3>4, Zenon
    <2>3. Nat \subseteq S
      <3> HIDE DEF S
      <3> QED BY <2>1, <2>2, Induct
    <2> QED BY <2>3
  <1>8. r[N] = 0
    <2>1. N <= N /\ N - N = 0
      BY <1>0
    <2>2. r[N] \in Nat /\ r[N] < c[0]
      BY <1>0, <1>7, <2>1
    <2> QED BY <1>1, <2>2
  <1>9. ASSUME NEW k \in 1 .. N PROVE r[k - 1] = r[k] * Base + (r[k - 1] % Base)
    <2>1. k - 1 \in 0 .. N /\ k - 1 \in Nat /\ k - 1 <= N /\ N - (k - 1) \in 1 .. N
      BY <1>0
    <2>2. r[k - 1] \in Nat
      BY <1>7, <2>1
    <2>3. \A x \in Nat : x = (x \div Base) * Base + (x % Base)
      <3> SUFFICES ASSUME NEW x \in Nat PROVE x = (x \div Base) * Base + (x % Base)
        OBVIOUS
      <3>1. x + 1 \in Nat /\ x < (x + 1) * Base
        <4>1. \A b \in Nat : b >= 2 => x < (x + 1) * b
          OBVIOUS
        <4>2. x + 1 \in Nat
          OBVIOUS
        <4> QED BY <4>1, <4>2, Sizes, Zenon
      <3> QED BY <3>1, Quotient
    <2>4. r[k] = r[k - 1] \div Base
      BY <1>3
    <2> QED BY <2>2, <2>3, <2>4, Zenon
  <1>10. \A k \in Nat : k <= N => h[k] = r[N - k]
    <2> DEFINE S == {k \in Nat : k <= N => h[k] = r[N - k]}
    <2>1. 0 \in S
      <3>1. N - 0 = N
        BY <1>0
      <3> QED BY <1>6, <1>8, <3>1
    <2>2. ASSUME NEW k \in Nat, k \in S PROVE k + 1 \in S
      <3> SUFFICES ASSUME k + 1 <= N PROVE h[k + 1] = r[N - (k + 1)]
        OBVIOUS
      <3>1. /\ k + 1 \in 1 .. N /\ (k + 1) - 1 = k /\ h[k] = r[N - k]
            /\ N - k \in 1 .. N /\ (N - k) - 1 = N - (k + 1)
            /\ at + N + 1 - (k + 1) = at + (N - k)
        BY <1>0, <2>2
      <3>2. h[k + 1] = h[k] * Base + s[at + (N - k)]
        <4>1. h[k + 1] = h[(k + 1) - 1] * Base + s[at + N + 1 - (k + 1)]
          BY <1>6, <3>1, Zenon
        <4> QED BY <3>1, <4>1, Zenon
      <3>3. s[at + (N - k)] = r[N - (k + 1)] % Base
        <4>1. s[at + (N - k)] = r[(N - k) - 1] % Base
          BY <1>4, <3>1, Zenon
        <4> QED BY <3>1, <4>1, Zenon
      <3>4. r[N - (k + 1)] = r[N - k] * Base + (r[N - (k + 1)] % Base)
        <4>1. r[(N - k) - 1] = r[N - k] * Base + (r[(N - k) - 1] % Base)
          BY <1>9, <3>1, Zenon
        <4> QED BY <3>1, <4>1, Zenon
      <3> QED BY <3>1, <3>2, <3>3, <3>4, Zenon
    <2>3. Nat \subseteq S
      <3> HIDE DEF S
      <3> QED BY <2>1, <2>2, Induct
    <2> QED BY <2>3
  <1>11. N <= N /\ N - N = 0
    BY <1>0
  <1> QED BY <1>0, <1>3, <1>6, <1>10, <1>11

(* t is what s holds from x to y, and z is x followed by y. *)
Cut(t, s, x, y, T) ==
    t \in Seq(T) /\ Len(t) = y - x /\ \A i \in 1 .. y - x : t[i] = s[x + i]

LEMMA Cuts ==
    ASSUME NEW T
    PROVE  \A s \in Seq(T), x \in Nat, y \in Nat :
              x <= y /\ y <= Len(s) => Cut(SubSeq(s, x + 1, y), s, x, y, T)
  BY SliceIs DEF Cut

Paste(z, x, y, T) ==
    /\ z \in Seq(T) /\ Len(z) = Len(x) + Len(y)
    /\ \A i \in 1 .. Len(x) + Len(y) : z[i] = IF i <= Len(x) THEN x[i] ELSE y[i - Len(x)]

LEMMA Pastes ==
    ASSUME NEW T
    PROVE  \A x \in Seq(T), y \in Seq(T) : Paste(x \o y, x, y, T)
  BY ConcatProperties DEF Paste

(* Slices of the first and of the second of two sequences. *)
LEMMA SliceFirst ==
    ASSUME NEW T, NEW x \in Seq(T), NEW y \in Seq(T), NEW a \in Nat, NEW b \in Nat, a <= b, b <= Len(x)
    PROVE  SubSeq(x \o y, a + 1, b) = SubSeq(x, a + 1, b)
  <1> DEFINE z == x \o y
             p == SubSeq(z, a + 1, b)
             q == SubSeq(x, a + 1, b)
  <1>1. z \in Seq(T) /\ Len(z) = Len(x) + Len(y)
        /\ \A i \in 1 .. Len(x) + Len(y) : z[i] = IF i <= Len(x) THEN x[i] ELSE y[i - Len(x)]
    BY ConcatProperties
  <1> HIDE DEF z
  <1>2. Len(x) \in Nat /\ Len(y) \in Nat /\ b <= Len(z)
    BY <1>1
  <1>3. /\ p \in Seq(T) /\ Len(p) = b - a /\ \A i \in 1 .. b - a : p[i] = z[a + i]
        /\ q \in Seq(T) /\ Len(q) = b - a /\ \A i \in 1 .. b - a : q[i] = x[a + i]
    <2>1. Cut(p, z, a, b, T) /\ Cut(q, x, a, b, T)
      BY <1>1, <1>2, Cuts, Zenon
    <2> QED BY <2>1, Zenon DEF Cut
  <1> HIDE DEF p, q
  <1>4. ASSUME NEW i \in 1 .. b - a PROVE p[i] = q[i]
    <2>1. a + i \in 1 .. Len(x) + Len(y) /\ a + i <= Len(x)
      BY <1>2
    <2> QED BY <1>1, <1>3, <2>1
  <1>5. p = q
    BY <1>3, <1>4, SeqEqual
  <1> QED BY <1>5, Zenon DEF p, q, z

LEMMA SliceSecond ==
    ASSUME NEW T, NEW x \in Seq(T), NEW y \in Seq(T), NEW a \in Nat, NEW b \in Nat, a <= b, b <= Len(y)
    PROVE  SubSeq(x \o y, (Len(x) + a) + 1, Len(x) + b) = SubSeq(y, a + 1, b)
  <1> DEFINE z == x \o y
             c == Len(x) + a
             d == Len(x) + b
             p == SubSeq(z, c + 1, d)
             q == SubSeq(y, a + 1, b)
  <1>1. z \in Seq(T) /\ Len(z) = Len(x) + Len(y)
        /\ \A i \in 1 .. Len(x) + Len(y) : z[i] = IF i <= Len(x) THEN x[i] ELSE y[i - Len(x)]
    BY ConcatProperties
  <1> HIDE DEF z
  <1>2. Len(x) \in Nat /\ Len(y) \in Nat /\ c \in Nat /\ d \in Nat /\ c <= d /\ d <= Len(z) /\ d - c = b - a
    BY <1>1
  <1>3. /\ p \in Seq(T) /\ Len(p) = d - c /\ \A i \in 1 .. d - c : p[i] = z[c + i]
        /\ q \in Seq(T) /\ Len(q) = b - a /\ \A i \in 1 .. b - a : q[i] = y[a + i]
    <2> HIDE DEF c, d
    <2>1. Cut(p, z, c, d, T) /\ Cut(q, y, a, b, T)
      BY <1>1, <1>2, Cuts, Zenon
    <2> QED BY <2>1, Zenon DEF Cut
  <1> HIDE DEF p, q
  <1>4. ASSUME NEW i \in 1 .. b - a PROVE p[i] = q[i]
    <2>1. c + i \in 1 .. Len(x) + Len(y) /\ ~(c + i <= Len(x)) /\ (c + i) - Len(x) = a + i
      BY <1>2
    <2> HIDE DEF c, d
    <2>2. p[i] = z[c + i] /\ q[i] = y[a + i]
      BY <1>2, <1>3, Zenon
    <2>3. z[c + i] = y[(c + i) - Len(x)]
      BY <1>1, <2>1, Zenon
    <2> QED BY <2>1, <2>2, <2>3, Zenon
  <1>5. p = q
    <2> HIDE DEF c, d
    <2>1. Len(p) = b - a
      BY <1>2, <1>3, Zenon
    <2> QED BY <1>3, <2>1, <1>4, SeqEqual
  <1> QED BY <1>5, Zenon DEF p, q, z

FirstOf(x, y) ==
    \A a \in Nat, b \in Nat : a <= b /\ b <= Len(x) => SubSeq(x \o y, a + 1, b) = SubSeq(x, a + 1, b)
SecondOf(x, y) ==
    \A a \in Nat, b \in Nat : a <= b /\ b <= Len(y) =>
        SubSeq(x \o y, (Len(x) + a) + 1, Len(x) + b) = SubSeq(y, a + 1, b)

LEMMA SlicesOf ==
    ASSUME NEW T
    PROVE  \A x \in Seq(T), y \in Seq(T) : FirstOf(x, y) /\ SecondOf(x, y)
  BY SliceFirst, SliceSecond DEF FirstOf, SecondOf

(* A concatenation is tiled by the sequences it is made of. *)
TiledWhole(p, s, b) ==
    /\ Tiled(p, s, b) /\ b[0] = 0 /\ b[Len(p)] = Len(s)
    /\ \A k \in 1 .. Len(p) : b[k] = b[k - 1] + Len(p[k])

LEMMA JoinTiles ==
    ASSUME NEW T, NEW p \in Seq(Seq(T))
    PROVE  \E b : TiledWhole(p, FlattenSeq(p), b)
  <1> DEFINE m == Len(p)
             X == Seq(T)
  <1>0. m \in Nat
    OBVIOUS
  <1>1. PICK h : Joining(h, p, T) /\ FlattenSeq(p) = h[m]
    BY JoiningIs
  <1>2. h \in [0 .. m -> X] /\ h[0] = <<>> /\ \A k \in 1 .. m : h[k] = h[k - 1] \o p[k]
    BY <1>1 DEF Joining
  <1>3. \A k \in 1 .. m : p[k] \in X
    OBVIOUS
  <1> HIDE DEF m
  <1> DEFINE b == [k \in 0 .. m |-> Len(h[k])]
             J == h[m]
  <1>4. ASSUME NEW k \in 1 .. m
        PROVE  /\ k - 1 \in 0 .. m /\ k \in 0 .. m /\ h[k - 1] \in X /\ h[k] \in X /\ p[k] \in X
               /\ Len(h[k]) = Len(h[k - 1]) + Len(p[k])
               /\ \A i \in 1 .. Len(h[k - 1]) + Len(p[k]) :
                     h[k][i] = IF i <= Len(h[k - 1]) THEN h[k - 1][i] ELSE p[k][i - Len(h[k - 1])]
    <2>1. k - 1 \in 0 .. m /\ k \in 0 .. m
      BY <1>0
    <2>2. h[k - 1] \in X /\ h[k] \in X /\ p[k] \in X /\ h[k] = h[k - 1] \o p[k]
      <3> HIDE DEF X
      <3> QED BY <1>2, <1>3, <2>1
    <2>3. Paste(h[k], h[k - 1], p[k], T)
      BY <2>2, Pastes, Zenon
    <2> HIDE DEF X
    <2> QED BY <2>1, <2>2, <2>3, Zenon DEF Paste
  <1>5. b \in [0 .. m -> Nat] /\ \A k \in 0 .. m : b[k] = Len(h[k])
    <2>1. \A x \in X : Len(x) \in Nat
      BY LenProperties
    <2>2. \A k \in 0 .. m : Len(h[k]) \in Nat
      <3> HIDE DEF X
      <3> QED BY <1>2, <2>1
    <2> QED BY <2>2, Zenon
  <1> HIDE DEF b, X, J
  <1> DEFINE Pre(k) == Len(h[k]) <= Len(J) /\ \A i \in 1 .. Len(h[k]) : J[i] = h[k][i]
  <1>6. \A j \in Nat : j <= m => Pre(m - j)
    <2> DEFINE S == {j \in Nat : j <= m => Pre(m - j)}
    <2>1. 0 \in S
      <3>1. m - 0 = m /\ m \in 0 .. m
        BY <1>0
      <3>2. Len(h[m]) \in Nat
        BY <1>5, <3>1
      <3>3. Len(h[m]) <= Len(h[m])
        BY <3>2
      <3>4. Pre(m)
        BY <3>3, Zenon DEF J
      <3> HIDE DEF Pre
      <3> QED BY <3>1, <3>4
    <2>2. ASSUME NEW j \in Nat, j \in S PROVE j + 1 \in S
      <3> SUFFICES ASSUME j + 1 <= m PROVE Pre(m - (j + 1))
        <4> HIDE DEF Pre
        <4> QED OBVIOUS
      <3> DEFINE k == m - j
      <3>1. k \in 1 .. m /\ k - 1 = m - (j + 1) /\ j <= m
        BY <1>0
      <3>2. Pre(k)
        <4> HIDE DEF Pre
        <4> QED BY <2>2, <3>1
      <3> HIDE DEF k
      <3>3. Len(h[k - 1]) \in Nat /\ Len(p[k]) \in Nat /\ Len(J) \in Nat
        <4>1. \A x \in X : Len(x) \in Nat
          BY LenProperties DEF X
        <4>2. m \in 0 .. m
          BY <1>0
        <4>3. J \in X
          BY <1>2, <4>2 DEF J
        <4> QED BY <1>4, <3>1, <4>1, <4>3
      <3>4. Len(h[k]) = Len(h[k - 1]) + Len(p[k])
        BY <1>4, <3>1, Zenon
      <3>5. Len(h[k - 1]) <= Len(J)
        <4>1. \A x \in Nat, y \in Nat, z \in Nat : x + y <= z => x <= z
          OBVIOUS
        <4>2. Len(h[k - 1]) + Len(p[k]) <= Len(J)
          BY <3>2, <3>4, Zenon
        <4> QED BY <3>3, <4>1, <4>2, Zenon
      <3>6. ASSUME NEW i \in 1 .. Len(h[k - 1]) PROVE J[i] = h[k - 1][i]
        <4>1. i \in 1 .. Len(h[k - 1]) + Len(p[k]) /\ i <= Len(h[k - 1])
          <5>1. \A x \in Nat, y \in Nat : \A n \in 1 .. x : n \in 1 .. x + y /\ n <= x
            OBVIOUS
          <5> QED BY <3>3, <5>1, Zenon
        <4>2. h[k][i] = h[k - 1][i]
          BY <1>4, <3>1, <4>1, Zenon
        <4>3. i \in 1 .. Len(h[k])
          BY <3>4, <4>1, Zenon
        <4> QED BY <3>2, <4>2, <4>3, Zenon
      <3>7. Pre(k - 1)
        BY <3>5, <3>6, Zenon
      <3> HIDE DEF Pre
      <3> QED BY <3>1, <3>7, Zenon
    <2>3. Nat \subseteq S
      <3> HIDE DEF S
      <3> QED BY <2>1, <2>2, Induct
    <2> HIDE DEF Pre
    <2> QED BY <2>3
  <1>7. \A k \in 0 .. m : Pre(k)
    <2> SUFFICES ASSUME NEW k \in 0 .. m PROVE Pre(k)
      OBVIOUS
    <2> HIDE DEF Pre
    <2>1. m - k \in Nat /\ m - k <= m /\ m - (m - k) = k
      BY <1>0
    <2>2. Pre(m - (m - k))
      BY <1>6, <2>1, Zenon
    <2> QED BY <2>1, <2>2, Zenon
  <1>8. J \in Seq(T) /\ Len(J) \in Nat
    <2>1. m \in 0 .. m
      BY <1>0
    <2>2. J \in Seq(T)
      BY <1>2, <2>1 DEF J, X
    <2> QED BY <2>2, LenProperties
  <1>9. ASSUME NEW k \in 1 .. m
        PROVE  /\ b[k - 1] <= b[k] /\ b[k] <= Len(J) /\ b[k] = b[k - 1] + Len(p[k])
               /\ p[k] = SubSeq(J, b[k - 1] + 1, b[k])
    <2> DEFINE x == b[k - 1]
               y == b[k]
               t == SubSeq(J, x + 1, y)
               q == p[k]
               g == h[k]
               f == h[k - 1]
    <2>1. k - 1 \in 0 .. m /\ k \in 0 .. m
      BY <1>0
    <2>2. x = Len(f) /\ y = Len(g) /\ x \in Nat /\ y \in Nat
      BY <1>5, <2>1, Zenon
    <2>3. Pre(k)
      <3> HIDE DEF Pre
      <3> QED BY <1>7, <2>1
    <2>4. y <= Len(J) /\ \A i \in 1 .. y : J[i] = g[i]
      BY <2>2, <2>3, Zenon
    <2>5. /\ q \in Seq(T) /\ y = x + Len(q)
          /\ \A i \in 1 .. x + Len(q) : g[i] = IF i <= x THEN f[i] ELSE q[i - x]
      BY <1>4, <2>2, Zenon DEF X
    <2> HIDE DEF x, y, q, g, f
    <2>6. Len(q) \in Nat
      BY <2>5, LenProperties
    <2>7. x <= y /\ y - x = Len(q)
      BY <2>2, <2>5, <2>6
    <2>8. t \in Seq(T) /\ Len(t) = y - x /\ \A i \in 1 .. y - x : t[i] = J[x + i]
      <3>1. Cut(t, J, x, y, T)
        BY <1>8, <2>2, <2>4, <2>7, Cuts, Zenon
      <3> QED BY <3>1, Zenon DEF Cut
    <2> HIDE DEF t
    <2>9. ASSUME NEW i \in 1 .. Len(q) PROVE t[i] = q[i]
      <3>1. i \in 1 .. y - x
        BY <2>7, Zenon
      <3>2. x + i \in 1 .. x + Len(q) /\ ~(x + i <= x) /\ (x + i) - x = i
        BY <2>2, <2>6
      <3>3. x + i \in 1 .. y
        BY <2>5, <3>2, Zenon
      <3>4. t[i] = J[x + i] /\ J[x + i] = g[x + i] /\ g[x + i] = q[(x + i) - x]
        BY <2>4, <2>5, <2>8, <3>1, <3>2, <3>3, Zenon
      <3> QED BY <3>2, <3>4, Zenon
    <2>10. t = q
      <3>1. Len(t) = Len(q)
        BY <2>7, <2>8, Zenon
      <3> QED BY <2>5, <2>8, <2>9, <3>1, SeqEqual
    <2> QED BY <2>4, <2>5, <2>7, <2>10, Zenon DEF x, y, q, t
  <1>10. b[0] = 0 /\ b[m] = Len(J) /\ b[0] <= Len(J)
    <2>1. 0 \in 0 .. m /\ m \in 0 .. m
      BY <1>0
    <2>2. Len(h[0]) = 0
      BY <1>2
    <2> QED BY <1>5, <1>8, <2>1, <2>2 DEF J
  <1>11. TiledWhole(p, J, b)
    BY <1>5, <1>9, <1>10, Zenon DEF TiledWhole, Tiled, m
  <1>12. FlattenSeq(p) = J
    BY <1>1, Zenon DEF J
  <1> QED BY <1>11, <1>12, Zenon

(* What table_write makes of p: a slice that verifies, and whose parts are *)
(* those of p.                                                             *)
Built(s, p) ==
    /\ s \in Seq(Digits) /\ SizeOk(s)
    /\ Len(p) = 0 => Len(s) = NUMBER_SIZE
    /\ Len(p) # 0 => /\ HeaderOk(s) /\ Rising(s) /\ Count(s) = Len(p)
                     /\ \A i \in 1 .. Len(p) : Part(s, i) = p[i]
    /\ \A i \in 1 .. Len(p) : Len(p[i]) <= Len(s)

(* Every offset the builder packs is at most the size it packs, so all of *)
(* them are unpacked as they were packed when the size is.                *)
LEMMA TableBuilt ==
    ASSUME NEW p \in Seq(Seq(Digits)), Len(table_write(p)) < Numbers
    PROVE  Built(table_write(p), p)
  <1> DEFINE c == Len(p)
             N == NUMBER_SIZE
             J == FlattenSeq(p)
             X == Seq(Digits)
             s == table_write(p)
             M == N * (c + 1)
  <1>0. c \in Nat /\ N \in Nat /\ N >= 1 /\ M \in Nat /\ M = N * c + N /\ N * c \in Nat
    <2>1. c \in Nat /\ N \in Nat /\ N >= 1
      BY Sizes
    <2>2. c <= c
      BY <2>1
    <2>3. N * c \in Nat /\ M = N * c + N
      BY <2>1, <2>2, Times
    <2> HIDE DEF M
    <2> QED BY <2>1, <2>3
  <1>1. PICK b : TiledWhole(p, J, b)
    BY JoinTiles
  <1>2. /\ b \in [0 .. c -> Nat] /\ b[0] = 0 /\ b[c] = Len(J)
        /\ \A k \in 1 .. c : /\ b[k - 1] <= b[k] /\ b[k] <= Len(J) /\ b[k] = b[k - 1] + Len(p[k])
                             /\ p[k] = SubSeq(J, b[k - 1] + 1, b[k])
    BY <1>1, Zenon DEF TiledWhole, Tiled
  <1>3. J \in X /\ Len(J) \in Nat
    <2>1. J \in X
      BY JoinTyped
    <2> QED BY <2>1, LenProperties
  <1>4. ASSUME NEW i \in 1 .. c + 1
        PROVE  /\ Offset(p, i) = M + b[i - 1] /\ b[i - 1] \in Nat /\ M + b[i - 1] \in Nat
               /\ M + b[i - 1] <= M + Len(J) /\ i - 1 \in 0 .. c
    <2>1. i - 1 \in 0 .. c
      BY <1>0
    <2>2. Len(FlattenSeq(SubSeq(p, 1, i - 1))) = b[i - 1] - b[0]
      <3>1. Tiled(p, J, b)
        BY <1>1 DEF TiledWhole
      <3> QED BY <1>3, <2>1, <3>1, TiledPrefix
    <2>3. b[i - 1] \in Nat
      BY <1>2, <2>1
    <2>4. b[i - 1] <= Len(J)
      <3>1. CASE i - 1 = 0
        BY <1>2, <1>3, <3>1
      <3>2. CASE i - 1 # 0
        <4>1. i - 1 \in 1 .. c
          BY <2>1, <3>2
        <4> QED BY <1>2, <4>1, Zenon
      <3> QED BY <3>1, <3>2
    <2>5. \A x \in Nat : x - 0 = x
      OBVIOUS
    <2>6. Offset(p, i) = M + b[i - 1]
      BY <1>2, <2>2, <2>3, <2>5, Zenon DEF Offset
    <2> HIDE DEF M
    <2>7. \A x \in Nat, y \in Nat, z \in Nat : x <= y => z + x \in Nat /\ z + x <= z + y
      OBVIOUS
    <2> QED BY <1>0, <1>3, <2>1, <2>3, <2>4, <2>6, <2>7, Zenon
  <1> DEFINE H == [i \in DOMAIN p |-> pack_number(Offset(p, i))]
             F == FlattenSeq(H)
             Len0 == M + Len(J)
             P == pack_number(Len0)
             Q == P \o F
  <1>5. H \in Seq(X) /\ Len(H) = c /\ \A i \in 1 .. c : H[i] = pack_number(M + b[i - 1]) /\ Len(H[i]) = N
    <2>1. DOMAIN p = 1 .. c
      BY LenProperties
    <2>2. ASSUME NEW i \in 1 .. c
          PROVE  /\ pack_number(Offset(p, i)) = pack_number(M + b[i - 1])
                 /\ pack_number(Offset(p, i)) \in X /\ Len(pack_number(Offset(p, i))) = N
      <3>1. i \in 1 .. c + 1
        BY <1>0
      <3>2. Offset(p, i) = M + b[i - 1] /\ M + b[i - 1] \in Int
        <4> HIDE DEF M
        <4> QED BY <1>4, <3>1
      <3> HIDE DEF M
      <3> QED BY <3>2, PackTyped
    <2>3. H \in [1 .. c -> X] /\ \A i \in 1 .. c : H[i] = pack_number(M + b[i - 1]) /\ Len(H[i]) = N
      <3> HIDE DEF X, M, N
      <3> QED BY <2>1, <2>2, Zenon
    <2> HIDE DEF H, X, M, N
    <2> QED BY <1>0, <2>3, ListOf
  <1> HIDE DEF H
  <1>6. F \in X /\ Len(F) = N * c /\ \A i \in 1 .. c : SubSeq(F, N * (i - 1) + 1, N * i) = H[i]
    <2>1. PICK d : TiledWhole(H, F, d)
      BY <1>5, JoinTiles
    <2>2. /\ d \in [0 .. c -> Nat] /\ d[0] = 0 /\ d[c] = Len(F)
          /\ \A k \in 1 .. c : /\ d[k] = d[k - 1] + Len(H[k])
                               /\ H[k] = SubSeq(F, d[k - 1] + 1, d[k])
      BY <1>5, <2>1, Zenon DEF TiledWhole, Tiled
    <2>3. F \in X
      BY <1>5, JoinTyped
    <2> HIDE DEF F, c, N
    <2>4. \A k \in Nat : k <= c => d[k] = N * k
      <3> DEFINE S == {k \in Nat : k <= c => d[k] = N * k}
      <3>1. 0 \in S
        BY <1>0, <2>2
      <3>2. ASSUME NEW k \in Nat, k \in S PROVE k + 1 \in S
        <4> SUFFICES ASSUME k + 1 <= c PROVE d[k + 1] = N * (k + 1)
          OBVIOUS
        <4>1. k + 1 \in 1 .. c /\ (k + 1) - 1 = k /\ d[k] = N * k /\ k <= k
          BY <1>0, <3>2
        <4>2. d[k + 1] = d[(k + 1) - 1] + Len(H[k + 1]) /\ Len(H[k + 1]) = N
          BY <1>5, <2>2, <4>1, Zenon
        <4>3. N * (k + 1) = N * k + N
          BY <4>1, Times DEF N
        <4> QED BY <4>1, <4>2, <4>3, Zenon
      <3>3. Nat \subseteq S
        <4> HIDE DEF S
        <4> QED BY <3>1, <3>2, Induct
      <3> QED BY <3>3
    <2>5. ASSUME NEW i \in 1 .. c PROVE SubSeq(F, N * (i - 1) + 1, N * i) = H[i]
      <3>1. i - 1 \in Nat /\ i - 1 <= c /\ i \in Nat /\ i <= c
        BY <1>0
      <3>2. d[i - 1] = N * (i - 1) /\ d[i] = N * i
        BY <2>4, <3>1, Zenon
      <3> QED BY <2>2, <3>2, Zenon
    <2>6. c <= c
      BY <1>0
    <2> QED BY <1>0, <2>2, <2>3, <2>4, <2>5, <2>6
  <1>7. /\ P \in X /\ Len(P) = N /\ Q \in X /\ Len(Q) = M /\ s = Q \o J
        /\ s \in X /\ Len(s) = Len0 /\ Len0 \in Nat
    <2>1. Len0 \in Nat
      <3> HIDE DEF M
      <3> QED BY <1>0, <1>3
    <2>2. P \in X /\ Len(P) = N
      <3> HIDE DEF Len0
      <3> QED BY <2>1, PackTyped
    <2> HIDE DEF P, F, J
    <2>3. Paste(Q, P, F, Digits) /\ Q \in X
      <3>1. Paste(Q, P, F, Digits)
        BY <1>6, <2>2, Pastes, Zenon
      <3> QED BY <3>1, Zenon DEF Paste
    <2>4. Len(Q) = N + N * c
      BY <1>6, <2>2, <2>3, Zenon DEF Paste
    <2>5. Len(Q) = M
      <3> HIDE DEF M, Q
      <3> QED BY <1>0, <2>4
    <2> HIDE DEF Q
    <2>6. s = Q \o J
      <3>1. c + 1 \in 1 .. c + 1 /\ (c + 1) - 1 = c
        BY <1>0
      <3>2. Offset(p, c + 1) = M + b[(c + 1) - 1]
        <4> HIDE DEF M
        <4> QED BY <1>4, <3>1, Zenon
      <3>3. Offset(p, c + 1) = Len0
        BY <1>2, <3>1, <3>2, Zenon
      <3> HIDE DEF M, Len0
      <3> QED BY <3>3, Zenon DEF table_write, Q, P, F, H, J
    <2>7. Paste(Q \o J, Q, J, Digits)
      BY <1>3, <2>3, Pastes, Zenon
    <2>8. Q \o J \in X /\ Len(Q \o J) = Len(Q) + Len(J)
      BY <2>7, Zenon DEF Paste
    <2> HIDE DEF s, M
    <2> QED BY <2>1, <2>2, <2>3, <2>5, <2>6, <2>8, Zenon
  <1> HIDE DEF P, Q, F, J, s
  <1>8. \A x \in Nat, y \in Nat : x <= y /\ y <= M => SubSeq(s, x + 1, y) = SubSeq(Q, x + 1, y)
    <2>1. \A x \in Nat, y \in Nat : x <= y /\ y <= Len(Q) => SubSeq(Q \o J, x + 1, y) = SubSeq(Q, x + 1, y)
      <3>1. FirstOf(Q, J)
        BY <1>3, <1>7, SlicesOf, Zenon
      <3> QED BY <3>1, Zenon DEF FirstOf
    <2> HIDE DEF M
    <2> QED BY <1>7, <2>1, Zenon
  <1>9. SubSeq(s, 0 + 1, 0 + N) = P
    <2>1. 0 \in Nat /\ 0 <= N /\ N <= M /\ N <= Len(P) /\ 0 + N = N /\ 0 + 1 = 1
      <3> HIDE DEF M
      <3> QED BY <1>0, <1>7
    <2>2. SubSeq(s, 0 + 1, N) = SubSeq(Q, 0 + 1, N)
      <3> HIDE DEF M
      <3> QED BY <1>0, <1>8, <2>1, Zenon
    <2>3. \A x \in Nat, y \in Nat : x <= y /\ y <= Len(P) => SubSeq(P \o F, x + 1, y) = SubSeq(P, x + 1, y)
      <3>1. FirstOf(P, F)
        BY <1>6, <1>7, SlicesOf, Zenon
      <3> QED BY <3>1, Zenon DEF FirstOf
    <2>4. SubSeq(Q, 0 + 1, N) = SubSeq(P, 0 + 1, N)
      BY <1>0, <2>1, <2>3, Zenon DEF Q
    <2>5. SubSeq(P, 1, Len(P)) = P
      BY <1>7, SubSeqFull
    <2> QED BY <1>7, <2>1, <2>2, <2>4, <2>5, Zenon
  <1>10. s \in Seq(Int)
    BY <1>7, DigitsAreInt
  <1>11. unpack_number(s, 0) = Len0 /\ N <= Len0 /\ Len0 < Numbers
    <2>1. 0 \in Nat /\ 0 + N <= Len0 /\ N <= Len0
      <3> HIDE DEF M
      <3> QED BY <1>0, <1>3
    <2>2. Len0 < Numbers
      BY <1>7, Zenon DEF s
    <2> HIDE DEF Len0
    <2>3. 0 + NUMBER_SIZE <= Len(s) /\ SubSeq(s, 0 + 1, 0 + NUMBER_SIZE) = pack_number(Len0)
      BY <1>7, <1>9, <2>1, Zenon DEF P
    <2> QED BY <1>7, <1>10, <2>1, <2>2, <2>3, UnpackPack
  <1>12. Numbers \in Nat
    BY NumbersNat
  <1>13. ASSUME NEW i \in 1 .. c PROVE unpack_number(s, N * i) = M + b[i - 1]
    <2>1. /\ i - 1 \in Nat /\ (i - 1) + 1 = i /\ i \in Nat /\ i <= c /\ i <= i /\ i - 1 <= i - 1
          /\ i \in 1 .. c + 1
      BY <1>0
    <2>2. N * (i - 1) \in Nat /\ N * i = N * (i - 1) + N /\ N * i \in Nat /\ N * i <= N * c
      <3>1. \A x \in Nat, y \in Nat : x <= y => N * x \in Nat /\ N * x <= N * y /\ N * (x + 1) = N * x + N
        BY Times
      <3>2. N * ((i - 1) + 1) = N * (i - 1) + N /\ N * (i - 1) \in Nat /\ N * i \in Nat /\ N * i <= N * c
        BY <1>0, <2>1, <3>1, Zenon
      <3> QED BY <2>1, <3>2, Zenon
    <2> DEFINE a == N * (i - 1)
               e == N * i
               g == N * c
    <2> HIDE DEF a, e, g, c
    <2>3. a \in Nat /\ e = a + N /\ e \in Nat /\ e <= g /\ g \in Nat /\ M = g + N /\ a <= e
      <3>1. a \in Nat /\ e = a + N /\ e \in Nat /\ e <= g /\ g \in Nat /\ M = g + N
        BY <1>0, <2>2, Zenon DEF a, e, g
      <3> HIDE DEF M
      <3> QED BY <1>0, <3>1
    <2>4. e + N \in Nat /\ e <= e + N /\ e + N <= M /\ e = N + a /\ e + N = N + e /\ M <= Len0
      <3> HIDE DEF M
      <3> QED BY <1>0, <1>3, <2>3
    <2>5. SubSeq(s, e + 1, e + N) = SubSeq(Q, e + 1, e + N)
      <3> HIDE DEF M, N
      <3> QED BY <1>8, <2>3, <2>4, Zenon
    <2>6. \A x \in Nat, y \in Nat : x <= y /\ y <= Len(F) =>
             SubSeq(P \o F, (Len(P) + x) + 1, Len(P) + y) = SubSeq(F, x + 1, y)
      <3>1. SecondOf(P, F)
        BY <1>6, <1>7, SlicesOf, Zenon
      <3> QED BY <3>1, Zenon DEF SecondOf
    <2>7. SubSeq(Q, (N + a) + 1, N + e) = SubSeq(F, a + 1, e)
      <3>1. Len(F) = g /\ Len(P) = N
        BY <1>6, <1>7, Zenon DEF g
      <3> HIDE DEF N
      <3> QED BY <2>3, <2>6, <3>1, Zenon DEF Q
    <2>8. SubSeq(F, a + 1, e) = H[i]
      BY <1>6, Zenon DEF a, e
    <2>9. SubSeq(s, e + 1, e + N) = pack_number(M + b[i - 1])
      <3> HIDE DEF M, N
      <3> QED BY <1>5, <2>4, <2>5, <2>7, <2>8, Zenon
    <2>10. M + b[i - 1] \in Nat /\ M + b[i - 1] < Numbers
      <3>1. M + b[i - 1] \in Nat /\ M + b[i - 1] <= Len0
        <4> HIDE DEF M
        <4> QED BY <1>4, <2>1, Zenon
      <3> DEFINE w == M + b[i - 1]
      <3> HIDE DEF w, Len0
      <3>2. w \in Nat /\ w <= Len0
        BY <3>1, Zenon DEF w
      <3>3. w < Numbers
        BY <1>7, <1>11, <1>12, <3>2
      <3> QED BY <3>2, <3>3, Zenon DEF w
    <2> DEFINE w == M + b[i - 1]
    <2>11. e + N <= Len(s)
      <3> HIDE DEF M, Len0
      <3>1. \A x \in Nat, y \in Nat, z \in Nat : x <= y /\ y <= z => x <= z
        OBVIOUS
      <3>2. e + N <= Len0
        BY <1>0, <1>7, <2>4, <3>1, Zenon
      <3> QED BY <1>7, <3>2, Zenon
    <2> HIDE DEF w
    <2>12. w \in Nat /\ w < Numbers /\ SubSeq(s, e + 1, e + NUMBER_SIZE) = pack_number(w)
           /\ e + NUMBER_SIZE <= Len(s)
      BY <2>9, <2>10, <2>11, Zenon DEF w
    <2>13. unpack_number(s, e) = w
      BY <1>10, <2>3, <2>12, UnpackPack
    <2> QED BY <2>13, Zenon DEF w, e
  <1>14. SizeOk(s)
    BY <1>7, <1>11, Zenon DEF SizeOk
  <1>15. ASSUME c = 0 PROVE Len(s) = N
    <2>1. Len(J) = 0
      BY <1>2, <1>15, Zenon
    <2>2. M = N
      BY <1>0, <1>15
    <2> HIDE DEF M
    <2> QED BY <1>0, <1>7, <2>1, <2>2
  <1>16. ASSUME NEW i \in 1 .. c PROVE Len(p[i]) <= Len(s)
    <2>1. i - 1 \in 0 .. c /\ p[i] \in X
      BY <1>0
    <2>2. b[i - 1] \in Nat /\ Len(p[i]) \in Nat
      BY <1>2, <2>1, LenProperties
    <2>3. b[i - 1] + Len(p[i]) <= Len(J)
      BY <1>2, Zenon
    <2> HIDE DEF M
    <2>4. \A x \in Nat, y \in Nat, z \in Nat, w \in Nat : x + y <= z => y <= w + z
      OBVIOUS
    <2> QED BY <1>0, <1>3, <1>7, <2>2, <2>3, <2>4, Zenon
  <1>17. ASSUME c # 0
         PROVE  /\ HeaderOk(s) /\ Rising(s) /\ Count(s) = c
                /\ \A i \in 1 .. c : Part(s, i) = p[i]
    <2>1. 1 \in 1 .. c /\ N * 1 = N /\ 1 - 1 = 0 /\ 1 <= c
      BY <1>0, <1>17
    <2>2. OffsetFirst(s) = M
      <3>1. unpack_number(s, N) = M + b[0]
        <4> HIDE DEF M
        <4> QED BY <1>13, <2>1, Zenon
      <3>2. M + b[0] = M
        <4> HIDE DEF M
        <4> QED BY <1>0, <1>2
      <3> QED BY <3>1, <3>2, Zenon DEF OffsetFirst
    <2>3. M % N = 0 /\ M \div N = c + 1 /\ M >= N * 2 /\ M <= Len0
      <3>1. N * 2 \in Nat /\ N * 2 <= N * (c + 1)
        <4>1. 2 \in Nat /\ c + 1 \in Nat /\ 2 <= c + 1
          BY <1>0, <1>17
        <4> QED BY <4>1, Times
      <3>2. M <= Len0
        <4> HIDE DEF M
        <4> QED BY <1>0, <1>3
      <3>3. \A x \in Nat, n \in Nat \ {0} : (n * x) % n = 0 /\ (n * x) \div n = x
        OBVIOUS
      <3>4. M % N = 0 /\ M \div N = c + 1
        <4>1. c + 1 \in Nat /\ N \in Nat \ {0}
          BY <1>0
        <4> QED BY <3>3, <4>1, Zenon
      <3> HIDE DEF Len0, M
      <3> QED BY <1>0, <3>1, <3>2, <3>4 DEF M
    <2>4. Count(s) = c
      <3>1. (c + 1) - 1 = c
        BY <1>0
      <3> HIDE DEF M, c
      <3> QED BY <2>2, <2>3, <3>1, Zenon DEF Count
    <2>5. HeaderOk(s)
      <3>1. Len0 >= N * 2 /\ Len0 >= M
        <4>1. N * 2 \in Nat
          BY <1>0
        <4> DEFINE u == N * 2
        <4> HIDE DEF Len0, M, u
        <4>2. M >= u /\ M <= Len0 /\ u \in Nat
          BY <2>3, <4>1, Zenon DEF u
        <4>3. Len0 >= u /\ Len0 >= M
          BY <1>0, <1>7, <4>2
        <4> QED BY <4>3, Zenon DEF u
      <3> HIDE DEF M, Len0
      <3> QED BY <1>7, <2>2, <2>3, <3>1, Zenon DEF HeaderOk
    <2>6. offsets(s) = Append([i \in 1 .. c |-> unpack_number(s, N * i)], Len(s))
      BY <2>4, Zenon DEF offsets
    <2> DEFINE o == offsets(s)
               f == [i \in 1 .. c |-> unpack_number(s, N * i)]
    <2>7. f \in Seq(Int) /\ Len(f) = c /\ \A i \in 1 .. c : f[i] = M + b[i - 1]
      <3>1. ASSUME NEW i \in 1 .. c PROVE M + b[i - 1] \in Int
        <4>1. i \in 1 .. c + 1
          BY <1>0
        <4> HIDE DEF M
        <4> QED BY <1>4, <4>1
      <3>2. f \in [1 .. c -> Int] /\ \A i \in 1 .. c : f[i] = M + b[i - 1]
        <4> HIDE DEF M, c
        <4> QED BY <1>13, <3>1, Zenon
      <3> HIDE DEF f, M
      <3> QED BY <1>0, <3>2, ListOf
    <2> HIDE DEF f
    <2>8. \A i \in 1 .. c : o[i] = f[i]
      <3>1. Append(f, Len(s)) = o
        BY <2>6, Zenon DEF f
      <3>2. Len(s) \in Int
        BY <1>7
      <3>3. \A i \in 1 .. Len(f) : Append(f, Len(s))[i] = f[i]
        BY <2>7, <3>2, AppendProperties
      <3> QED BY <2>7, <3>1, <3>3, Zenon
    <2>9. o[c + 1] = Len0
      <3>1. Append(f, Len(s)) = o
        BY <2>6, Zenon DEF f
      <3>2. Len(s) \in Int
        BY <1>7
      <3>3. Append(f, Len(s))[Len(f) + 1] = Len(s)
        BY <2>7, <3>2, AppendProperties
      <3> QED BY <1>7, <2>7, <3>1, <3>3, Zenon
    <2> HIDE DEF o
    <2>10. \A i \in 1 .. c + 1 : o[i] = M + b[i - 1]
      <3> SUFFICES ASSUME NEW i \in 1 .. c + 1 PROVE o[i] = M + b[i - 1]
        OBVIOUS
      <3>1. CASE i \in 1 .. c
        BY <2>7, <2>8, <3>1, Zenon
      <3>2. CASE i = c + 1
        <4>1. i - 1 = c
          BY <1>0, <3>2
        <4> QED BY <1>2, <2>9, <3>2, <4>1, Zenon
      <3>3. i \in 1 .. c \/ i = c + 1
        BY <1>0
      <3> QED BY <3>1, <3>2, <3>3
    <2>11. ASSUME NEW i \in 1 .. c
           PROVE  /\ i \in 1 .. c + 1 /\ i + 1 \in 1 .. c + 1 /\ o[i] = M + b[i - 1] /\ o[i + 1] = M + b[i]
                  /\ b[i - 1] \in Nat /\ b[i] \in Nat /\ b[i - 1] <= b[i] /\ b[i] <= Len(J)
      <3>1. i \in 1 .. c + 1 /\ i + 1 \in 1 .. c + 1 /\ (i + 1) - 1 = i /\ i - 1 \in 0 .. c /\ i \in 0 .. c
        BY <1>0
      <3>2. o[i + 1] = M + b[(i + 1) - 1]
        BY <2>10, <3>1, Zenon
      <3>3. b[i - 1] \in Nat /\ b[i] \in Nat
        BY <1>2, <3>1
      <3> QED BY <1>2, <2>10, <3>1, <3>2, <3>3, Zenon
    <2>12. Rising(s)
      <3>1. ASSUME NEW i \in 1 .. c PROVE o[i] <= o[i + 1]
        <4> HIDE DEF M
        <4>1. \A x \in Nat, y \in Nat, z \in Nat : x <= y => z + x <= z + y
          OBVIOUS
        <4>2. /\ o[i] = M + b[i - 1] /\ o[i + 1] = M + b[i]
              /\ b[i - 1] \in Nat /\ b[i] \in Nat /\ b[i - 1] <= b[i]
          BY <2>11, Zenon
        <4>3. M \in Nat
          BY <1>0, Zenon
        <4>4. M + b[i - 1] <= M + b[i]
          BY <4>1, <4>2, <4>3, Zenon
        <4> QED BY <4>2, <4>4, Zenon
      <3> QED BY <2>4, <3>1, Zenon DEF Rising, o
    <2>13. ASSUME NEW i \in 1 .. c PROVE Part(s, i) = p[i]
      <3>1. \A x \in Nat, y \in Nat : x <= y /\ y <= Len(J) =>
               SubSeq(Q \o J, (Len(Q) + x) + 1, Len(Q) + y) = SubSeq(J, x + 1, y)
        <4>1. SecondOf(Q, J)
          BY <1>3, <1>7, SlicesOf, Zenon
        <4> QED BY <4>1, Zenon DEF SecondOf
      <3>2. SubSeq(Q \o J, (Len(Q) + b[i - 1]) + 1, Len(Q) + b[i]) = SubSeq(J, b[i - 1] + 1, b[i])
        BY <2>11, <3>1, Zenon
      <3>3. Part(s, i) = SubSeq(s, o[i] + 1, o[i + 1])
        BY Zenon DEF Part, Slice, o
      <3> HIDE DEF M
      <3>4. Part(s, i) = SubSeq(Q \o J, (Len(Q) + b[i - 1]) + 1, Len(Q) + b[i])
        BY <1>7, <2>11, <3>3, Zenon
      <3> QED BY <1>2, <3>2, <3>4, Zenon
    <2> QED BY <2>4, <2>5, <2>12, <2>13, Zenon
  <1> HIDE DEF M, Len0
  <1> QED BY <1>7, <1>14, <1>15, <1>16, <1>17, Zenon DEF Built, s

LEMMA TimesOf ==
    ASSUME NEW n \in Nat \ {0}
    PROVE  /\ \A a \in Nat : n * a \in Nat /\ a <= n * a /\ n * (a + 1) = n * a + n
           /\ \A a \in Nat, b \in Nat : a <= b => n * a <= n * b
  OBVIOUS

(* A vector of items of one size is verified and read as it was written. *)
LEMMA FixvecBuilt ==
    ASSUME NEW p \in Seq(Seq(Digits)), NEW size \in Nat \ {0},
           \A i \in 1 .. Len(p) : Len(p[i]) = size, Len(fixvec_write(p)) < Numbers
    PROVE  FixvecOk(fixvec_write(p), size) /\ AllFixed(fixvec_write(p), size) = p
  <1> DEFINE c == Len(p)
             N == NUMBER_SIZE
             J == FlattenSeq(p)
             X == Seq(Digits)
             P == pack_number(c)
             s == fixvec_write(p)
  <1>0. c \in Nat /\ N \in Nat /\ N >= 1
    BY Sizes
  <1>1. PICK b : TiledWhole(p, J, b)
    BY JoinTiles
  <1>2. /\ b \in [0 .. c -> Nat] /\ b[0] = 0 /\ b[c] = Len(J)
        /\ \A k \in 1 .. c : b[k] = b[k - 1] + Len(p[k]) /\ p[k] = SubSeq(J, b[k - 1] + 1, b[k])
    BY <1>1, Zenon DEF TiledWhole, Tiled
  <1>3. J \in X /\ Len(J) \in Nat
    <2>1. J \in X
      BY JoinTyped
    <2> QED BY <2>1, LenProperties
  <1>4. P \in X /\ Len(P) = N
    <2>1. c \in Int
      BY <1>0
    <2> HIDE DEF c
    <2> QED BY <2>1, PackTyped
  <1>5. s = P \o J
    BY Zenon DEF fixvec_write
  <1> HIDE DEF c, N, J, P, s
  <1>6. s \in X /\ Len(s) = N + Len(J)
    <2>1. Paste(P \o J, P, J, Digits)
      BY <1>3, <1>4, Pastes, Zenon
    <2> QED BY <1>4, <1>5, <2>1, Zenon DEF Paste
  <1>7. \A k \in Nat : k <= c => b[k] = size * k
    <2> DEFINE S == {k \in Nat : k <= c => b[k] = size * k}
    <2>1. 0 \in S
      BY <1>2
    <2>2. ASSUME NEW k \in Nat, k \in S PROVE k + 1 \in S
      <3> SUFFICES ASSUME k + 1 <= c PROVE b[k + 1] = size * (k + 1)
        OBVIOUS
      <3>1. k + 1 \in 1 .. c /\ (k + 1) - 1 = k /\ b[k] = size * k
        BY <1>0, <2>2
      <3>2. b[k + 1] = b[(k + 1) - 1] + Len(p[k + 1]) /\ Len(p[k + 1]) = size
        BY <1>2, <3>1, Zenon DEF c
      <3>3. size * (k + 1) = size * k + size
        BY TimesOf
      <3> QED BY <3>1, <3>2, <3>3, Zenon
    <2>3. Nat \subseteq S
      <3> HIDE DEF S
      <3> QED BY <2>1, <2>2, Induct
    <2> QED BY <2>3
  <1>8. Len(J) = size * c /\ size * c \in Nat /\ c <= size * c
    <2>1. c <= c
      BY <1>0
    <2>2. size * c \in Nat /\ c <= size * c
      BY <1>0, TimesOf
    <2> QED BY <1>0, <1>2, <1>7, <2>1, <2>2, Zenon
  <1>9. unpack_number(s, 0) = c
    <2>1. 0 \in Nat /\ 0 + N <= Len(s) /\ 0 <= N /\ N <= Len(P) /\ 0 + N = N /\ 0 + 1 = 1 /\ 1 <= Len(P)
      BY <1>0, <1>3, <1>4, <1>6
    <2>2. FirstOf(P, J)
      BY <1>3, <1>4, SlicesOf, Zenon
    <2>3. SubSeq(s, 0 + 1, N) = SubSeq(P, 0 + 1, N)
      BY <1>0, <1>5, <2>1, <2>2, Zenon DEF FirstOf
    <2>4. SubSeq(P, 1, Len(P)) = P
      BY <1>4, SubSeqFull
    <2>5. SubSeq(s, 0 + 1, 0 + N) = P
      BY <1>4, <2>1, <2>3, <2>4, Zenon
    <2>6. Len(s) \in Nat /\ c <= Len(s)
      <3> DEFINE g == size * c
      <3> HIDE DEF g
      <3>1. g \in Nat /\ c <= g /\ Len(J) = g
        BY <1>8, Zenon DEF g
      <3> QED BY <1>0, <1>6, <3>1
    <2>7. c < Numbers
      <3>1. Len(s) < Numbers
        BY DEF s
      <3> QED BY <1>0, <2>6, <3>1, NumbersNat
    <2>8. s \in Seq(Int)
      BY <1>6, DigitsAreInt
    <2>9. 0 + NUMBER_SIZE <= Len(s) /\ SubSeq(s, 0 + 1, 0 + NUMBER_SIZE) = pack_number(c)
      BY <2>1, <2>5, Zenon DEF N, P
    <2> QED BY <1>0, <2>1, <2>7, <2>8, <2>9, UnpackPack
  <1>10. FixvecOk(s, size)
    <2>1. Len(s) >= N
      BY <1>0, <1>3, <1>6
    <2> QED BY <1>6, <1>8, <1>9, <2>1, Zenon DEF FixvecOk, N
  <1>11. ASSUME NEW i \in 1 .. c PROVE get_fixed(s, size, i - 1) = p[i]
    <2>1. i - 1 \in Nat /\ i - 1 <= c /\ (i - 1) + 1 = i /\ i \in Nat /\ i <= c
      BY <1>0
    <2> DEFINE x == size * (i - 1)
               y == size * i
    <2>2. x \in Nat /\ y \in Nat /\ y = x + size /\ y <= size * c
      <3>1. size * ((i - 1) + 1) = size * (i - 1) + size
        BY <2>1, TimesOf
      <3>2. x \in Nat /\ y \in Nat /\ y <= size * c
        BY <1>0, <2>1, TimesOf
      <3> QED BY <2>1, <3>1, <3>2, Zenon
    <2>3. b[i - 1] = x /\ b[i] = y
      BY <1>7, <2>1, Zenon
    <2> HIDE DEF x, y
    <2>4. x <= y /\ y <= Len(J)
      BY <1>8, <2>2
    <2>5. SecondOf(P, J)
      BY <1>3, <1>4, SlicesOf, Zenon
    <2>6. SubSeq(P \o J, (Len(P) + x) + 1, Len(P) + y) = SubSeq(J, x + 1, y)
      BY <2>2, <2>4, <2>5, Zenon DEF SecondOf
    <2>7. get_fixed(s, size, i - 1) = SubSeq(s, (N + x) + 1, N + y)
      BY <2>1, Zenon DEF get_fixed, Slice, x, y, N
    <2> QED BY <1>2, <1>4, <1>5, <2>3, <2>6, <2>7, Zenon
  <1>12. AllFixed(s, size) = p
    <2>1. AllFixed(s, size) = [i \in 1 .. c |-> p[i]]
      BY <1>9, <1>11, Zenon DEF AllFixed
    <2>2. p = [i \in 1 .. c |-> p[i]]
      BY LenProperties DEF c
    <2> QED BY <2>1, <2>2, Zenon
  <1> QED BY <1>10, <1>12, Zenon DEF s

(* One byte after the other. *)
LEMMA JoinSingles ==
    ASSUME NEW T, NEW v \in Seq(T)
    PROVE  LET q == [i \in DOMAIN v |-> <<v[i]>>]
           IN  q \in Seq(Seq(T)) /\ FlattenSeq(q) = v /\ Len(q) = Len(v)
               /\ \A i \in 1 .. Len(q) : Len(q[i]) = 1
  <1> DEFINE q == [i \in DOMAIN v |-> <<v[i]>>]
             c == Len(v)
             b == [k \in 0 .. c |-> k]
             X == Seq(T)
  <1>0. c \in Nat /\ DOMAIN v = 1 .. c
    BY LenProperties
  <1>1. ASSUME NEW i \in 1 .. c PROVE <<v[i]>> \in X /\ Len(<<v[i]>>) = 1
    <2>1. v[i] \in T
      OBVIOUS
    <2> QED BY <2>1
  <1>2. q \in [1 .. c -> X] /\ \A i \in 1 .. c : q[i] = <<v[i]>>
    <2> HIDE DEF X, c
    <2> QED BY <1>0, <1>1, Zenon
  <1> HIDE DEF q
  <1>3. q \in Seq(X) /\ Len(q) = c
    <2> HIDE DEF X, c
    <2> QED BY <1>0, <1>2, ListOf
  <1>4. b \in [0 .. c -> Nat] /\ \A k \in 0 .. c : b[k] = k
    <2>1. \A k \in 0 .. c : k \in Nat
      BY <1>0
    <2> QED BY <2>1, Zenon
  <1> HIDE DEF b
  <1>5. ASSUME NEW k \in 1 .. c
        PROVE  b[k - 1] <= b[k] /\ b[k] <= c /\ q[k] = SubSeq(v, b[k - 1] + 1, b[k])
    <2>1. k - 1 \in 0 .. c /\ k \in 0 .. c /\ k - 1 <= k /\ k <= c /\ k - (k - 1) = 1 /\ k - 1 \in Nat
          /\ k \in Nat /\ (k - 1) + 1 = k /\ 1 \in 1 .. 1
      BY <1>0
    <2>2. b[k - 1] = k - 1 /\ b[k] = k
      BY <1>4, <2>1, Zenon
    <2> DEFINE t == SubSeq(v, (k - 1) + 1, k)
    <2>3. Cut(t, v, k - 1, k, T)
      BY <2>1, Cuts, Zenon
    <2>4. t \in Seq(T) /\ Len(t) = 1 /\ t[1] = v[k]
      <3>1. \A i \in 1 .. 1 : t[i] = v[(k - 1) + i]
        <4> HIDE DEF t
        <4> QED BY <2>1, <2>3, Zenon DEF Cut
      <3>2. t[1] = v[(k - 1) + 1]
        <4> HIDE DEF t
        <4> QED BY <2>1, <3>1, Zenon
      <3> HIDE DEF t
      <3> QED BY <2>1, <2>3, <3>2, Zenon DEF Cut
    <2> HIDE DEF t
    <2>5. t = <<v[k]>>
      <3>1. v[k] \in T
        OBVIOUS
      <3> QED BY <2>4, <3>1
    <2> QED BY <1>2, <2>1, <2>2, <2>5, Zenon DEF t
  <1>6. b[0] = 0 /\ b[c] = c /\ b[0] <= c
    <2>1. 0 \in 0 .. c /\ c \in 0 .. c /\ 0 <= c
      BY <1>0
    <2> QED BY <1>4, <2>1, Zenon
  <1>7. Tiled(q, v, b)
    BY <1>3, <1>4, <1>5, <1>6, Zenon DEF Tiled
  <1>8. FlattenSeq(q) = SubSeq(v, b[0] + 1, b[Len(q)])
    BY <1>3, <1>7, TilesJoin
  <1>9. SubSeq(v, 1, c) = v
    BY SubSeqFull
  <1>10. 0 + 1 = 1
    OBVIOUS
  <1>11. FlattenSeq(q) = v
    <2> HIDE DEF c
    <2> QED BY <1>3, <1>6, <1>8, <1>9, <1>10, Zenon
  <1> QED BY <1>1, <1>2, <1>3, <1>11, Zenon DEF q

LEMMA BytesBuilt ==
    ASSUME NEW v \in Seq(Digits), Len(Bytes_write(v)) < Numbers
    PROVE  Bytes_verify(Bytes_write(v)) /\ Bytes_read(Bytes_write(v)) = v
  <1> DEFINE q == [i \in DOMAIN v |-> <<v[i]>>]
  <1>1. q \in Seq(Seq(Digits)) /\ FlattenSeq(q) = v /\ \A i \in 1 .. Len(q) : Len(q[i]) = 1
    BY JoinSingles, Zenon
  <1>2. Bytes_write(v) = fixvec_write(q)
    BY Zenon DEF Bytes_write
  <1> HIDE DEF q
  <1>3. FixvecOk(fixvec_write(q), 1) /\ AllFixed(fixvec_write(q), 1) = q
    <2>1. 1 \in Nat \ {0}
      OBVIOUS
    <2>2. Len(fixvec_write(q)) < Numbers
      BY <1>2
    <2> QED BY <1>1, <2>1, <2>2, FixvecBuilt
  <1> QED BY <1>1, <1>2, <1>3, Zenon DEF Bytes_verify, Bytes_read

LEMMA PipeIndicesBuilt ==
    ASSUME NEW v \in Seq(Index), Len(PipeIndices_write(v)) < Numbers
    PROVE  PipeIndices_verify(PipeIndices_write(v)) /\ PipeIndices_read(PipeIndices_write(v)) = v
  <1>1. v = [i \in DOMAIN v |-> v[i]] /\ \A i \in 1 .. Len(v) : v[i] \in Index
    BY LenProperties
  <1>2. PipeIndices_write(v) = fixvec_write(v)
    BY <1>1, Zenon DEF PipeIndices_write, PipeIndex_write
  <1>3. v \in Seq(Seq(Digits))
    <2>1. Index \subseteq Seq(Digits)
      BY DEF Index
    <2> QED BY <2>1, Widened
  <1>4. \A i \in 1 .. Len(v) : Len(v[i]) = IndexSize
    BY <1>1, Zenon DEF Index
  <1>5. IndexSize \in Nat \ {0} /\ Len(fixvec_write(v)) < Numbers
    BY <1>2, Sizes
  <1>6. FixvecOk(fixvec_write(v), IndexSize) /\ AllFixed(fixvec_write(v), IndexSize) = v
    BY <1>3, <1>4, <1>5, FixvecBuilt
  <1> QED BY <1>1, <1>2, <1>6, Zenon DEF PipeIndices_verify, PipeIndices_read, PipeIndex_read

(* A table of at least f fields is verified as one of f, by compatible     *)
(* readers if there are more, and read as it was written.                  *)
TableReads(s, p, f) ==
    /\ TableOk(s, f, TRUE) /\ (TableOk(s, f, FALSE) <=> Len(p) = f)
    /\ \A i \in 1 .. f : Part(s, i) = p[i] /\ field(s, f, i) = p[i] /\ Len(p[i]) < Numbers

LEMMA TableReadBack ==
    ASSUME NEW p \in Seq(Seq(Digits)), NEW f \in Nat \ {0}, f <= Len(p), Len(table_write(p)) < Numbers
    PROVE  TableReads(table_write(p), p, f)
  <1> DEFINE s == table_write(p)
             c == Len(p)
  <1>0. c \in Nat /\ c # 0
    OBVIOUS
  <1>1. Built(s, p)
    BY TableBuilt
  <1>2. Len(s) < Numbers
    OBVIOUS
  <1> HIDE DEF s
  <1>3. /\ s \in Seq(Digits) /\ SizeOk(s) /\ HeaderOk(s) /\ Rising(s) /\ Count(s) = c
        /\ \A i \in 1 .. c : Part(s, i) = p[i] /\ Len(p[i]) <= Len(s)
    BY <1>0, <1>1, Zenon DEF Built
  <1>4. TableOk(s, f, TRUE) /\ (TableOk(s, f, FALSE) <=> c = f)
    <2>1. c = f \/ c > f
      BY <1>0
    <2> HIDE DEF c
    <2> QED BY <1>3, <2>1, Zenon DEF TableOk, FieldsOk
  <1>5. \A i \in 1 .. f : field(s, f, i) = Part(s, i)
    <2>1. s \in Seq(Int)
      BY <1>3, DigitsAreInt
    <2> QED BY <1>4, <2>1, TableIs
  <1>6. ASSUME NEW i \in 1 .. f PROVE Part(s, i) = p[i] /\ Len(p[i]) < Numbers
    <2>1. i \in 1 .. c
      BY <1>0
    <2>2. Len(p[i]) \in Nat /\ Len(s) \in Nat
      BY <1>3, <2>1, LenProperties
    <2>3. \A x \in Nat, y \in Nat, z \in Nat : x <= y /\ y < z => x < z
      OBVIOUS
    <2> QED BY <1>2, <1>3, <2>1, <2>2, <2>3, NumbersNat, Zenon
  <1> QED BY <1>4, <1>5, <1>6, Zenon DEF TableReads, s

(* So is a dynvec. *)
DynvecReads(s, p) ==
    /\ DynvecOk(s) /\ AllItems(s) = p
    /\ \A x \in Items(s) : \E i \in 1 .. Len(p) : x = p[i]
    /\ \A i \in 1 .. Len(p) : Len(p[i]) < Numbers

LEMMA DynvecBuilt ==
    ASSUME NEW p \in Seq(Seq(Digits)), Len(dynvec_write(p)) < Numbers
    PROVE  DynvecReads(dynvec_write(p), p)
  <1> DEFINE s == dynvec_write(p)
             c == Len(p)
  <1>0. c \in Nat /\ NUMBER_SIZE \in Nat /\ NUMBER_SIZE >= 1 /\ p = [i \in 1 .. c |-> p[i]]
    BY Sizes, LenProperties
  <1>1. Built(s, p)
    BY TableBuilt DEF dynvec_write
  <1>2. Len(s) < Numbers
    OBVIOUS
  <1> HIDE DEF s
  <1>3. /\ s \in Seq(Digits) /\ SizeOk(s) /\ \A i \in 1 .. c : Len(p[i]) <= Len(s)
        /\ c = 0 => Len(s) = NUMBER_SIZE
        /\ c # 0 => /\ HeaderOk(s) /\ Rising(s) /\ Count(s) = c
                     /\ \A i \in 1 .. c : Part(s, i) = p[i]
    BY <1>1, Zenon DEF Built
  <1>4. Len(s) \in Nat /\ unpack_number(s, 0) = Len(s)
    BY <1>3, LenProperties DEF SizeOk
  <1>5. \A i \in 1 .. c : Len(p[i]) < Numbers
    <2> SUFFICES ASSUME NEW i \in 1 .. c PROVE Len(p[i]) < Numbers
      OBVIOUS
    <2>1. Len(p[i]) \in Nat
      BY LenProperties
    <2>3. \A x \in Nat, y \in Nat, z \in Nat : x <= y /\ y < z => x < z
      OBVIOUS
    <2> QED BY <1>2, <1>3, <1>4, <2>1, <2>3, NumbersNat, Zenon
  <1> HIDE DEF c
  <1>6. CASE c = 0
    <2>1. Len(s) = NUMBER_SIZE
      BY <1>3, <1>6
    <2>2. DynvecOk(s) /\ Items(s) = {} /\ ItemCount(s) = 0
      BY <1>3, <1>4, <2>1, Zenon DEF DynvecOk, Items, ItemCount
    <2>3. AllItems(s) = p
      <3>1. 1 .. 0 = {}
        OBVIOUS
      <3>2. p = [i \in 1 .. 0 |-> p[i]]
        BY <1>0, <1>6, Zenon
      <3>3. AllItems(s) = [i \in 1 .. 0 |-> get_unchecked(s, i - 1)]
        BY <2>2, Zenon DEF AllItems
      <3>4. \A i \in 1 .. 0 : get_unchecked(s, i - 1) = p[i]
        BY <3>1, Zenon
      <3> QED BY <3>2, <3>3, <3>4, Zenon
    <2> QED BY <1>5, <2>2, <2>3, Zenon DEF DynvecReads, c, s
  <1>7. CASE c # 0
    <2>1. HeaderOk(s) /\ Rising(s) /\ Count(s) = c /\ \A i \in 1 .. c : Part(s, i) = p[i]
      BY <1>3, <1>7
    <2>2. Len(s) # NUMBER_SIZE
      <3>1. Len(s) >= NUMBER_SIZE * 2
        BY <2>1 DEF HeaderOk
      <3> QED BY <1>0, <1>4, <3>1
    <2>3. DynvecOk(s) /\ Items(s) = {Part(s, i) : i \in 1 .. c} /\ ItemCount(s) = c
      BY <1>3, <1>4, <2>1, <2>2, Zenon DEF DynvecOk, Items, ItemCount
    <2>4. \A i \in DOMAIN AllItems(s) : AllItems(s)[i] = Part(s, i)
      <3>1. s \in Seq(Int)
        BY <1>3, DigitsAreInt
      <3> QED BY <2>3, <3>1, DynvecIs
    <2>5. AllItems(s) = p
      <3>1. AllItems(s) = [i \in 1 .. c |-> get_unchecked(s, i - 1)]
        BY <2>3, Zenon DEF AllItems
      <3>2. DOMAIN AllItems(s) = 1 .. c /\ AllItems(s) = [i \in 1 .. c |-> AllItems(s)[i]]
        BY <3>1
      <3>3. \A i \in 1 .. c : AllItems(s)[i] = p[i]
        BY <2>1, <2>4, <3>2, Zenon
      <3> QED BY <1>0, <3>2, <3>3, Zenon
    <2>6. \A x \in Items(s) : \E i \in 1 .. c : x = p[i]
      BY <2>1, <2>3, Zenon
    <2> QED BY <1>5, <2>3, <2>5, <2>6, Zenon DEF DynvecReads, c, s
  <1> QED BY <1>6, <1>7

(* The three fields of a table, and the five. *)
Three(s, a, b, c) ==
    /\ TableOk(s, 3, TRUE) /\ TableOk(s, 3, FALSE)
    /\ Part(s, 1) = a /\ Part(s, 2) = b /\ Part(s, 3) = c
    /\ field(s, 3, 1) = a /\ field(s, 3, 2) = b /\ field(s, 3, 3) = c
    /\ Len(a) < Numbers /\ Len(b) < Numbers /\ Len(c) < Numbers

Five(s, a, b, c, d, e) ==
    /\ TableOk(s, 5, TRUE) /\ TableOk(s, 5, FALSE)
    /\ Part(s, 1) = a /\ Part(s, 2) = b /\ Part(s, 3) = c /\ Part(s, 4) = d /\ Part(s, 5) = e
    /\ field(s, 5, 1) = a /\ field(s, 5, 2) = b /\ field(s, 5, 3) = c
    /\ field(s, 5, 4) = d /\ field(s, 5, 5) = e /\ Len(e) < Numbers

LEMMA ThreeParts ==
    \A a \in Seq(Digits), b \in Seq(Digits), c \in Seq(Digits) :
        Len(table_write(<<a, b, c>>)) < Numbers => Three(table_write(<<a, b, c>>), a, b, c)
  <1> SUFFICES ASSUME NEW a \in Seq(Digits), NEW b \in Seq(Digits), NEW c \in Seq(Digits),
                      Len(table_write(<<a, b, c>>)) < Numbers
               PROVE  Three(table_write(<<a, b, c>>), a, b, c)
    BY Zenon
  <1> DEFINE p == <<a, b, c>>
             X == Seq(Digits)
  <1>1. p \in Seq(X) /\ Len(p) = 3 /\ p[1] = a /\ p[2] = b /\ p[3] = c
    <2> HIDE DEF X
    <2>1. \A x \in X, y \in X, z \in X : <<x, y, z>> \in Seq(X)
      OBVIOUS
    <2>2. p \in Seq(X)
      BY <2>1, Zenon DEF X
    <2> QED BY <2>2
  <1> HIDE DEF p
  <1>2. 3 \in Nat \ {0} /\ 3 <= 3 /\ 1 \in 1 .. 3 /\ 2 \in 1 .. 3 /\ 3 \in 1 .. 3
    OBVIOUS
  <1>3. Len(table_write(p)) < Numbers
    BY DEF p
  <1>4. TableReads(table_write(p), p, 3)
    BY <1>1, <1>2, <1>3, TableReadBack
  <1> HIDE DEF X
  <1> QED BY <1>1, <1>2, <1>4, Zenon DEF TableReads, Three, p

LEMMA FiveParts ==
    \A a \in Seq(Digits), b \in Seq(Digits), c \in Seq(Digits), d \in Seq(Digits), e \in Seq(Digits) :
        Len(table_write(<<a, b, c, d, e>>)) < Numbers =>
            Five(table_write(<<a, b, c, d, e>>), a, b, c, d, e)
  <1> SUFFICES ASSUME NEW a \in Seq(Digits), NEW b \in Seq(Digits), NEW c \in Seq(Digits),
                      NEW d \in Seq(Digits), NEW e \in Seq(Digits),
                      Len(table_write(<<a, b, c, d, e>>)) < Numbers
               PROVE  Five(table_write(<<a, b, c, d, e>>), a, b, c, d, e)
    BY Zenon
  <1> DEFINE p == <<a, b, c, d, e>>
             X == Seq(Digits)
  <1>1. p \in Seq(X) /\ Len(p) = 5 /\ p[1] = a /\ p[2] = b /\ p[3] = c /\ p[4] = d /\ p[5] = e
    <2> HIDE DEF X
    <2>1. \A x \in X, y \in X, z \in X, u \in X, w \in X : <<x, y, z, u, w>> \in Seq(X)
      OBVIOUS
    <2>2. p \in Seq(X)
      BY <2>1, Zenon DEF X
    <2> QED BY <2>2
  <1> HIDE DEF p
  <1>2. 5 \in Nat \ {0} /\ 5 <= 5 /\ 1 \in 1 .. 5 /\ 2 \in 1 .. 5 /\ 3 \in 1 .. 5 /\ 4 \in 1 .. 5 /\ 5 \in 1 .. 5
    OBVIOUS
  <1>3. Len(table_write(p)) < Numbers
    BY DEF p
  <1>4. TableReads(table_write(p), p, 5)
    BY <1>1, <1>2, <1>3, TableReadBack
  <1> HIDE DEF X
  <1> QED BY <1>1, <1>2, <1>4, Zenon DEF TableReads, Five, p

LEMMA IndexIs == Index \subseteq Seq(Digits) /\ \A x \in Index : VmIndex_verify(x) /\ PipeIndex_verify(x)
  BY DEF Index, VmIndex_verify, PipeIndex_verify

LEMMA SpawnBuilt ==
    ASSUME NEW v \in SpawnValue, Len(Spawn_write(v)) < Numbers
    PROVE  /\ Spawn_verify(Spawn_write(v), TRUE) /\ Spawn_verify(Spawn_write(v), FALSE)
           /\ Spawn_read(Spawn_write(v)) = v
  <1> DEFINE q == PipeIndices_write(v.pipes)
             s == Spawn_write(v)
             t == table_write(<<v.from, v.child, q>>)
  <1>1. /\ v.from \in Index /\ v.child \in Index /\ v.pipes \in Seq(Index)
        /\ v = [from |-> v.from, child |-> v.child, pipes |-> v.pipes]
    BY DEF SpawnValue
  <1>2. s = t
    BY Zenon DEF Spawn_write, VmIndex_write
  <1>3. v.from \in Seq(Digits) /\ v.child \in Seq(Digits) /\ q \in Seq(Digits)
    <2>1. q \in Seq(Digits)
      <3>1. v.pipes \in Seq(Seq(Digits))
        BY <1>1, IndexIs, Widened
      <3>2. v.pipes = [i \in DOMAIN v.pipes |-> v.pipes[i]]
        BY <1>1, LenProperties
      <3>3. q = fixvec_write(v.pipes)
        BY <3>2, Zenon DEF PipeIndices_write, PipeIndex_write
      <3> QED BY <3>1, <3>3, FixvecTyped
    <2> QED BY <1>1, <2>1, IndexIs, Zenon
  <1>4. Len(t) < Numbers
    BY <1>2, Zenon
  <1>5. /\ TableOk(t, 3, TRUE) /\ TableOk(t, 3, FALSE)
        /\ Part(t, 1) = v.from /\ Part(t, 2) = v.child /\ Part(t, 3) = q
        /\ field(t, 3, 1) = v.from /\ field(t, 3, 2) = v.child /\ field(t, 3, 3) = q
        /\ Len(q) < Numbers
    <2>1. Three(t, v.from, v.child, q)
      BY <1>3, <1>4, ThreeParts, Zenon
    <2> HIDE DEF t, q
    <2> QED BY <2>1, Zenon DEF Three
  <1>6. PipeIndices_verify(q) /\ PipeIndices_read(q) = v.pipes
    <2>1. Len(q) < Numbers
      BY <1>5, Zenon
    <2> QED BY <1>1, <2>1, PipeIndicesBuilt
  <1> HIDE DEF q, s, t
  <1>7. VmIndex_verify(v.from) /\ VmIndex_verify(v.child)
    BY <1>1, IndexIs, Zenon
  <1>8. Spawn_verify(t, TRUE) /\ Spawn_verify(t, FALSE)
    BY <1>5, <1>6, <1>7, Zenon DEF Spawn_verify
  <1>9. Spawn_read(t) = v
    BY <1>1, <1>5, <1>6, Zenon DEF Spawn_read, VmIndex_read
  <1> QED BY <1>2, <1>8, <1>9, Zenon DEF s

LEMMA PipeBuilt ==
    ASSUME NEW v \in PipeValue, Len(Pipe_write(v)) < Numbers
    PROVE  /\ Pipe_verify(Pipe_write(v), TRUE) /\ Pipe_verify(Pipe_write(v), FALSE)
           /\ Pipe_read(Pipe_write(v)) = v
  <1> DEFINE s == Pipe_write(v)
             t == table_write(<<v.vm, v.read_pipe, v.write_pipe>>)
  <1>1. /\ v.vm \in Index /\ v.read_pipe \in Index /\ v.write_pipe \in Index
        /\ v = [vm |-> v.vm, read_pipe |-> v.read_pipe, write_pipe |-> v.write_pipe]
    BY DEF PipeValue
  <1>2. s = t
    BY Zenon DEF Pipe_write, VmIndex_write, PipeIndex_write
  <1>3. v.vm \in Seq(Digits) /\ v.read_pipe \in Seq(Digits) /\ v.write_pipe \in Seq(Digits)
    BY <1>1, IndexIs, Zenon
  <1>4. Len(t) < Numbers
    BY <1>2, Zenon
  <1>5. /\ TableOk(t, 3, TRUE) /\ TableOk(t, 3, FALSE)
        /\ Part(t, 1) = v.vm /\ Part(t, 2) = v.read_pipe /\ Part(t, 3) = v.write_pipe
        /\ field(t, 3, 1) = v.vm /\ field(t, 3, 2) = v.read_pipe /\ field(t, 3, 3) = v.write_pipe
    <2>1. Three(t, v.vm, v.read_pipe, v.write_pipe)
      BY <1>3, <1>4, ThreeParts, Zenon
    <2> HIDE DEF t
    <2> QED BY <2>1, Zenon DEF Three
  <1> HIDE DEF s, t
  <1>7. VmIndex_verify(v.vm) /\ PipeIndex_verify(v.read_pipe) /\ PipeIndex_verify(v.write_pipe)
    BY <1>1, IndexIs, Zenon
  <1>8. Pipe_verify(t, TRUE) /\ Pipe_verify(t, FALSE)
    BY <1>5, <1>7, Zenon DEF Pipe_verify
  <1>9. Pipe_read(t) = v
    BY <1>1, <1>5, Zenon DEF Pipe_read, VmIndex_read, PipeIndex_read
  <1> QED BY <1>2, <1>8, <1>9, Zenon DEF s

LEMMA WriteBuilt ==
    ASSUME NEW v \in WriteValue, Len(Write_write(v)) < Numbers
    PROVE  /\ Write_verify(Write_write(v), TRUE) /\ Write_verify(Write_write(v), FALSE)
           /\ Write_read(Write_write(v)) = v
  <1> DEFINE q == Bytes_write(v.data)
             s == Write_write(v)
             t == table_write(<<v.from, v.from_pipe, v.to, v.to_pipe, q>>)
  <1>1. /\ v.from \in Index /\ v.from_pipe \in Index /\ v.to \in Index /\ v.to_pipe \in Index
        /\ v.data \in Seq(Digits)
        /\ v = [from |-> v.from, from_pipe |-> v.from_pipe, to |-> v.to, to_pipe |-> v.to_pipe,
                data |-> v.data]
    BY DEF WriteValue
  <1>2. s = t
    BY Zenon DEF Write_write, VmIndex_write, PipeIndex_write
  <1>3. /\ v.from \in Seq(Digits) /\ v.from_pipe \in Seq(Digits) /\ v.to \in Seq(Digits)
        /\ v.to_pipe \in Seq(Digits) /\ q \in Seq(Digits)
    <2>1. q \in Seq(Digits)
      <3> DEFINE u == [i \in DOMAIN v.data |-> <<v.data[i]>>]
      <3>1. u \in Seq(Seq(Digits))
        BY <1>1, JoinSingles, Zenon
      <3>2. q = fixvec_write(u)
        BY Zenon DEF Bytes_write
      <3> HIDE DEF u
      <3> QED BY <3>1, <3>2, FixvecTyped
    <2> QED BY <1>1, <2>1, IndexIs, Zenon
  <1>4. Len(t) < Numbers
    BY <1>2, Zenon
  <1>5. /\ TableOk(t, 5, TRUE) /\ TableOk(t, 5, FALSE)
        /\ Part(t, 1) = v.from /\ Part(t, 2) = v.from_pipe /\ Part(t, 3) = v.to
        /\ Part(t, 4) = v.to_pipe /\ Part(t, 5) = q
        /\ field(t, 5, 1) = v.from /\ field(t, 5, 2) = v.from_pipe /\ field(t, 5, 3) = v.to
        /\ field(t, 5, 4) = v.to_pipe /\ field(t, 5, 5) = q
        /\ Len(q) < Numbers
    <2>1. Five(t, v.from, v.from_pipe, v.to, v.to_pipe, q)
      BY <1>3, <1>4, FiveParts, Zenon
    <2> HIDE DEF t, q
    <2> QED BY <2>1, Zenon DEF Five
  <1>6. Bytes_verify(q) /\ Bytes_read(q) = v.data
    <2>1. Len(q) < Numbers
      BY <1>5, Zenon
    <2> QED BY <1>1, <2>1, BytesBuilt
  <1> HIDE DEF q, s, t
  <1>7. /\ VmIndex_verify(v.from) /\ PipeIndex_verify(v.from_pipe) /\ VmIndex_verify(v.to)
        /\ PipeIndex_verify(v.to_pipe)
    BY <1>1, IndexIs, Zenon
  <1>8. Write_verify(t, TRUE) /\ Write_verify(t, FALSE)
    BY <1>5, <1>6, <1>7, Zenon DEF Write_verify
  <1>9. Write_read(t) = v
    BY <1>1, <1>5, <1>6, Zenon DEF Write_read, VmIndex_read, PipeIndex_read
  <1> QED BY <1>2, <1>8, <1>9, Zenon DEF s

LEMMA SpawnsBuilt ==
    ASSUME NEW u \in Seq(SpawnValue), Len(Spawns_write(u)) < Numbers
    PROVE  /\ Spawns_verify(Spawns_write(u), TRUE) /\ Spawns_verify(Spawns_write(u), FALSE)
           /\ Spawns_read(Spawns_write(u)) = u
  <1> DEFINE p == [i \in DOMAIN u |-> Spawn_write(u[i])]
             s == Spawns_write(u)
             X == Seq(Digits)
             c == Len(u)
  <1>0. c \in Nat /\ DOMAIN u = 1 .. c /\ \A i \in 1 .. c : u[i] \in SpawnValue
    BY LenProperties
  <1>1. \A i \in 1 .. c : Spawn_write(u[i]) \in X
    BY <1>0, SpawnTyped
  <1> HIDE DEF X, c
  <1>2. p \in [1 .. c -> X] /\ \A i \in 1 .. c : p[i] = Spawn_write(u[i])
    BY <1>0, <1>1, Zenon
  <1>3. s = dynvec_write(p)
    BY Zenon DEF Spawns_write
  <1> HIDE DEF p, s
  <1>4. p \in Seq(X) /\ Len(p) = c
    BY <1>0, <1>2, ListOf
  <1>5. /\ DynvecOk(s) /\ AllItems(s) = p
        /\ \A x \in Items(s) : \E i \in 1 .. c : x = p[i]
        /\ \A i \in 1 .. c : Len(p[i]) < Numbers
    <2>1. Len(dynvec_write(p)) < Numbers
      BY <1>3, Zenon DEF s
    <2>2. p \in Seq(Seq(Digits))
      BY <1>4 DEF X
    <2>3. DynvecReads(dynvec_write(p), p)
      BY <2>1, <2>2, DynvecBuilt
    <2> QED BY <1>3, <1>4, <2>3, Zenon DEF DynvecReads
  <1>6. ASSUME NEW i \in 1 .. c
        PROVE  Spawn_verify(p[i], TRUE) /\ Spawn_verify(p[i], FALSE) /\ Spawn_read(p[i]) = u[i]
    <2>1. u[i] \in SpawnValue /\ Len(Spawn_write(u[i])) < Numbers
      BY <1>0, <1>2, <1>5, Zenon
    <2>2. \A v \in SpawnValue : Len(Spawn_write(v)) < Numbers =>
             /\ Spawn_verify(Spawn_write(v), TRUE) /\ Spawn_verify(Spawn_write(v), FALSE)
             /\ Spawn_read(Spawn_write(v)) = v
      BY SpawnBuilt, Zenon
    <2> QED BY <1>2, <2>1, <2>2, Zenon
  <1>7. Spawns_verify(s, TRUE) /\ Spawns_verify(s, FALSE)
    BY <1>5, <1>6, Zenon DEF Spawns_verify
  <1>8. Spawns_read(s) = u
    <2>1. DOMAIN p = 1 .. c
      BY <1>2
    <2>2. Spawns_read(s) = [i \in 1 .. c |-> u[i]]
      BY <1>5, <1>6, <2>1, Zenon DEF Spawns_read
    <2>3. u = [i \in 1 .. c |-> u[i]]
      BY <1>0
    <2> QED BY <2>2, <2>3, Zenon
  <1> QED BY <1>7, <1>8, Zenon DEF s

LEMMA PipesBuilt ==
    ASSUME NEW u \in Seq(PipeValue), Len(Pipes_write(u)) < Numbers
    PROVE  /\ Pipes_verify(Pipes_write(u), TRUE) /\ Pipes_verify(Pipes_write(u), FALSE)
           /\ Pipes_read(Pipes_write(u)) = u
  <1> DEFINE p == [i \in DOMAIN u |-> Pipe_write(u[i])]
             s == Pipes_write(u)
             X == Seq(Digits)
             c == Len(u)
  <1>0. c \in Nat /\ DOMAIN u = 1 .. c /\ \A i \in 1 .. c : u[i] \in PipeValue
    BY LenProperties
  <1>1. \A i \in 1 .. c : Pipe_write(u[i]) \in X
    BY <1>0, PipeTyped
  <1> HIDE DEF X, c
  <1>2. p \in [1 .. c -> X] /\ \A i \in 1 .. c : p[i] = Pipe_write(u[i])
    BY <1>0, <1>1, Zenon
  <1>3. s = dynvec_write(p)
    BY Zenon DEF Pipes_write
  <1> HIDE DEF p, s
  <1>4. p \in Seq(X) /\ Len(p) = c
    BY <1>0, <1>2, ListOf
  <1>5. /\ DynvecOk(s) /\ AllItems(s) = p
        /\ \A x \in Items(s) : \E i \in 1 .. c : x = p[i]
        /\ \A i \in 1 .. c : Len(p[i]) < Numbers
    <2>1. Len(dynvec_write(p)) < Numbers
      BY <1>3, Zenon DEF s
    <2>2. p \in Seq(Seq(Digits))
      BY <1>4 DEF X
    <2>3. DynvecReads(dynvec_write(p), p)
      BY <2>1, <2>2, DynvecBuilt
    <2> QED BY <1>3, <1>4, <2>3, Zenon DEF DynvecReads
  <1>6. ASSUME NEW i \in 1 .. c
        PROVE  Pipe_verify(p[i], TRUE) /\ Pipe_verify(p[i], FALSE) /\ Pipe_read(p[i]) = u[i]
    <2>1. u[i] \in PipeValue /\ Len(Pipe_write(u[i])) < Numbers
      BY <1>0, <1>2, <1>5, Zenon
    <2>2. \A v \in PipeValue : Len(Pipe_write(v)) < Numbers =>
             /\ Pipe_verify(Pipe_write(v), TRUE) /\ Pipe_verify(Pipe_write(v), FALSE)
             /\ Pipe_read(Pipe_write(v)) = v
      BY PipeBuilt, Zenon
    <2> QED BY <1>2, <2>1, <2>2, Zenon
  <1>7. Pipes_verify(s, TRUE) /\ Pipes_verify(s, FALSE)
    BY <1>5, <1>6, Zenon DEF Pipes_verify
  <1>8. Pipes_read(s) = u
    <2>1. DOMAIN p = 1 .. c
      BY <1>2
    <2>2. Pipes_read(s) = [i \in 1 .. c |-> u[i]]
      BY <1>5, <1>6, <2>1, Zenon DEF Pipes_read
    <2>3. u = [i \in 1 .. c |-> u[i]]
      BY <1>0
    <2> QED BY <2>2, <2>3, Zenon
  <1> QED BY <1>7, <1>8, Zenon DEF s

LEMMA WritesBuilt ==
    ASSUME NEW u \in Seq(WriteValue), Len(Writes_write(u)) < Numbers
    PROVE  /\ Writes_verify(Writes_write(u), TRUE) /\ Writes_verify(Writes_write(u), FALSE)
           /\ Writes_read(Writes_write(u)) = u
  <1> DEFINE p == [i \in DOMAIN u |-> Write_write(u[i])]
             s == Writes_write(u)
             X == Seq(Digits)
             c == Len(u)
  <1>0. c \in Nat /\ DOMAIN u = 1 .. c /\ \A i \in 1 .. c : u[i] \in WriteValue
    BY LenProperties
  <1>1. \A i \in 1 .. c : Write_write(u[i]) \in X
    BY <1>0, WriteTyped
  <1> HIDE DEF X, c
  <1>2. p \in [1 .. c -> X] /\ \A i \in 1 .. c : p[i] = Write_write(u[i])
    BY <1>0, <1>1, Zenon
  <1>3. s = dynvec_write(p)
    BY Zenon DEF Writes_write
  <1> HIDE DEF p, s
  <1>4. p \in Seq(X) /\ Len(p) = c
    BY <1>0, <1>2, ListOf
  <1>5. /\ DynvecOk(s) /\ AllItems(s) = p
        /\ \A x \in Items(s) : \E i \in 1 .. c : x = p[i]
        /\ \A i \in 1 .. c : Len(p[i]) < Numbers
    <2>1. Len(dynvec_write(p)) < Numbers
      BY <1>3, Zenon DEF s
    <2>2. p \in Seq(Seq(Digits))
      BY <1>4 DEF X
    <2>3. DynvecReads(dynvec_write(p), p)
      BY <2>1, <2>2, DynvecBuilt
    <2> QED BY <1>3, <1>4, <2>3, Zenon DEF DynvecReads
  <1>6. ASSUME NEW i \in 1 .. c
        PROVE  Write_verify(p[i], TRUE) /\ Write_verify(p[i], FALSE) /\ Write_read(p[i]) = u[i]
    <2>1. u[i] \in WriteValue /\ Len(Write_write(u[i])) < Numbers
      BY <1>0, <1>2, <1>5, Zenon
    <2>2. \A v \in WriteValue : Len(Write_write(v)) < Numbers =>
             /\ Write_verify(Write_write(v), TRUE) /\ Write_verify(Write_write(v), FALSE)
             /\ Write_read(Write_write(v)) = v
      BY WriteBuilt, Zenon
    <2> QED BY <1>2, <2>1, <2>2, Zenon
  <1>7. Writes_verify(s, TRUE) /\ Writes_verify(s, FALSE)
    BY <1>5, <1>6, Zenon DEF Writes_verify
  <1>8. Writes_read(s) = u
    <2>1. DOMAIN p = 1 .. c
      BY <1>2
    <2>2. Writes_read(s) = [i \in 1 .. c |-> u[i]]
      BY <1>5, <1>6, <2>1, Zenon DEF Writes_read
    <2>3. u = [i \in 1 .. c |-> u[i]]
      BY <1>0
    <2> QED BY <2>2, <2>3, Zenon
  <1> QED BY <1>7, <1>8, Zenon DEF s

(* A value is accepted by every reader and read back as it was; with one   *)
(* field more in its table, by compatible readers.                         *)
THEOREM DataBuilt ==
    ASSUME NEW v \in DataValue, Len(Data_write(v)) < Numbers
    PROVE  /\ Data_verify(Data_write(v), TRUE) /\ Data_verify(Data_write(v), FALSE)
           /\ Data_read(Data_write(v)) = v
  <1> DEFINE a == Spawns_write(v.spawns)
             b == Pipes_write(v.pipes)
             c == Writes_write(v.writes)
             t == table_write(<<a, b, c>>)
  <1>1. /\ v.spawns \in Seq(SpawnValue) /\ v.pipes \in Seq(PipeValue) /\ v.writes \in Seq(WriteValue)
        /\ v = [spawns |-> v.spawns, pipes |-> v.pipes, writes |-> v.writes]
    BY DEF DataValue
  <1>2. a \in Seq(Digits) /\ b \in Seq(Digits) /\ c \in Seq(Digits)
    BY DataTyped
  <1>3. Data_write(v) = t /\ Len(t) < Numbers
    BY Zenon DEF Data_write
  <1> HIDE DEF a, b, c
  <1>4. /\ TableOk(t, 3, TRUE) /\ TableOk(t, 3, FALSE)
        /\ Part(t, 1) = a /\ Part(t, 2) = b /\ Part(t, 3) = c
        /\ field(t, 3, 1) = a /\ field(t, 3, 2) = b /\ field(t, 3, 3) = c
        /\ Len(a) < Numbers /\ Len(b) < Numbers /\ Len(c) < Numbers
    <2>1. Three(t, a, b, c)
      BY <1>2, <1>3, ThreeParts, Zenon
    <2> HIDE DEF t
    <2> QED BY <2>1, Zenon DEF Three
  <1> HIDE DEF t
  <1>5. Spawns_verify(a, TRUE) /\ Spawns_verify(a, FALSE) /\ Spawns_read(a) = v.spawns
    BY <1>1, <1>4, SpawnsBuilt DEF a
  <1>6. Pipes_verify(b, TRUE) /\ Pipes_verify(b, FALSE) /\ Pipes_read(b) = v.pipes
    BY <1>1, <1>4, PipesBuilt DEF b
  <1>7. Writes_verify(c, TRUE) /\ Writes_verify(c, FALSE) /\ Writes_read(c) = v.writes
    BY <1>1, <1>4, WritesBuilt DEF c
  <1>8. Data_verify(t, TRUE) /\ Data_verify(t, FALSE)
    BY <1>4, <1>5, <1>6, <1>7, Zenon DEF Data_verify
  <1>9. Data_read(t) = v
    BY <1>1, <1>4, <1>5, <1>6, <1>7, Zenon DEF Data_read
  <1> QED BY <1>3, <1>8, <1>9, Zenon

LEMMA NewerBuilt ==
    ASSUME NEW v \in DataValue, Len(NewerWrite(v)) < Numbers
    PROVE  /\ Data_verify(NewerWrite(v), TRUE) /\ ~Data_verify(NewerWrite(v), FALSE)
           /\ Data_read(NewerWrite(v)) = v
  <1> DEFINE a == Spawns_write(v.spawns)
             b == Pipes_write(v.pipes)
             c == Writes_write(v.writes)
             X == Seq(Digits)
             p == <<a, b, c, <<1>> >>
             t == table_write(p)
  <1>1. /\ v.spawns \in Seq(SpawnValue) /\ v.pipes \in Seq(PipeValue) /\ v.writes \in Seq(WriteValue)
        /\ v = [spawns |-> v.spawns, pipes |-> v.pipes, writes |-> v.writes]
    BY DEF DataValue
  <1>2. a \in X /\ b \in X /\ c \in X
    BY DataTyped
  <1>3. <<1>> \in X
    <2>1. 1 \in Digits
      BY Sizes DEF Digits
    <2> QED BY <2>1
  <1>4. NewerWrite(v) = t /\ Len(t) < Numbers
    BY Zenon DEF NewerWrite
  <1> HIDE DEF a, b, c
  <1>5. p \in Seq(X) /\ Len(p) = 4 /\ p[1] = a /\ p[2] = b /\ p[3] = c
    <2> DEFINE e == <<1>>
    <2>0. e \in X
      BY <1>3
    <2> HIDE DEF X, e
    <2>1. \A x \in X, y \in X, z \in X, u \in X : <<x, y, z, u>> \in Seq(X)
      OBVIOUS
    <2>2. <<a, b, c, e>> \in Seq(X)
      BY <1>2, <2>0, <2>1, Zenon
    <2>3. Len(<<a, b, c, e>>) = 4 /\ <<a, b, c, e>>[1] = a /\ <<a, b, c, e>>[2] = b /\ <<a, b, c, e>>[3] = c
      OBVIOUS
    <2> QED BY <2>2, <2>3, Zenon DEF e
  <1> HIDE DEF p
  <1>6. 3 \in Nat \ {0} /\ 3 <= 4 /\ 1 \in 1 .. 3 /\ 2 \in 1 .. 3 /\ 3 \in 1 .. 3 /\ 4 # 3
    OBVIOUS
  <1>7. TableReads(t, p, 3)
    BY <1>4, <1>5, <1>6, TableReadBack
  <1> HIDE DEF t, X
  <1>8. /\ TableOk(t, 3, TRUE) /\ ~TableOk(t, 3, FALSE)
        /\ Part(t, 1) = a /\ Part(t, 2) = b /\ Part(t, 3) = c
        /\ field(t, 3, 1) = a /\ field(t, 3, 2) = b /\ field(t, 3, 3) = c
        /\ Len(a) < Numbers /\ Len(b) < Numbers /\ Len(c) < Numbers
    BY <1>5, <1>6, <1>7, Zenon DEF TableReads
  <1>9. Spawns_verify(a, TRUE) /\ Spawns_read(a) = v.spawns
    BY <1>1, <1>8, SpawnsBuilt DEF a
  <1>10. Pipes_verify(b, TRUE) /\ Pipes_read(b) = v.pipes
    BY <1>1, <1>8, PipesBuilt DEF b
  <1>11. Writes_verify(c, TRUE) /\ Writes_read(c) = v.writes
    BY <1>1, <1>8, WritesBuilt DEF c
  <1>12. Data_verify(t, TRUE) /\ ~Data_verify(t, FALSE)
    BY <1>8, <1>9, <1>10, <1>11, Zenon DEF Data_verify
  <1>13. Data_read(t) = v
    BY <1>1, <1>8, <1>9, <1>10, <1>11, Zenon DEF Data_read
  <1> QED BY <1>4, <1>12, <1>13, Zenon

(* What is in the slice before it is edited. *)
Untouched ==
    /\ value \in Values /\ newer \in BOOLEAN /\ edits \in Nat
    /\ edits = 0 => slice = IF newer THEN NewerWrite(value) ELSE Data_write(value)

(* The builders' output, nested as it may be, is accepted by verification  *)
(* and read back as the value that was built, as long as its sizes and     *)
(* offsets fit in a number; with a field more, by compatible readers only. *)
THEOREM BuiltReadsBackHolds == CodecsSpec => []BuiltReadsBack
  <1>1. CodecsInit => Untouched
    <2>1. 0 \in Nat
      OBVIOUS
    <2> QED BY <2>1, Zenon DEF CodecsInit, Untouched
  <1>2. Untouched /\ [CodecsNext]_codec_vars => Untouched'
    <2> SUFFICES ASSUME Untouched, [CodecsNext]_codec_vars PROVE Untouched'
      OBVIOUS
    <2>1. ASSUME NEW x \in Byte, longer(x) PROVE Untouched'
      BY <2>1 DEF Untouched, longer
    <2>2. ASSUME NEW s, Edited(s) PROVE Untouched'
      <3>1. edits' = edits + 1 /\ value' = value /\ newer' = newer
        BY <2>2 DEF Edited
      <3>2. edits' \in Nat /\ edits' # 0
        BY <3>1 DEF Untouched
      <3> QED BY <3>1, <3>2, Zenon DEF Untouched
    <2>3. CASE UNCHANGED codec_vars
      BY <2>3 DEF Untouched, codec_vars
    <2> QED BY <2>1, <2>2, <2>3, Zenon DEF CodecsNext, change, insert, leave_out
  <1>3. Untouched => BuiltReadsBack
    <2> SUFFICES ASSUME Untouched, edits = 0
                 PROVE  /\ Data_verify(slice, TRUE) /\ (Data_verify(slice, FALSE) <=> ~newer)
                        /\ Data_read(slice) = value
      BY DEF BuiltReadsBack
    <2>1. /\ value \in DataValue /\ Len(Data_write(value)) < Numbers
          /\ Len(NewerWrite(value)) < Numbers
      BY ValuesTyped, SizesFit, Zenon DEF Untouched
    <2>2. CASE newer
      <3>1. slice = NewerWrite(value)
        BY <2>2, Zenon DEF Untouched
      <3>2. /\ Data_verify(NewerWrite(value), TRUE) /\ ~Data_verify(NewerWrite(value), FALSE)
            /\ Data_read(NewerWrite(value)) = value
        BY <2>1, NewerBuilt
      <3> QED BY <2>2, <3>1, <3>2, Zenon
    <2>3. CASE ~newer
      <3>1. slice = Data_write(value)
        BY <2>3, Zenon DEF Untouched
      <3>2. /\ Data_verify(Data_write(value), TRUE) /\ Data_verify(Data_write(value), FALSE)
            /\ Data_read(Data_write(value)) = value
        BY <2>1, DataBuilt
      <3> QED BY <2>3, <3>1, <3>2, Zenon
    <2> QED BY <2>2, <2>3
  <1> QED BY <1>1, <1>2, <1>3, PTL DEF CodecsSpec

=============================================================================

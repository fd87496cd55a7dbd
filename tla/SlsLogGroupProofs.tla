-------------------------- MODULE SlsLogGroupProofs --------------------------
(***************************************************************************)
(* Proofs about SlsLogGroup and the encoder it has to agree with, for any  *)
(* lengths of contents, topics and sources, any time stamps and any number *)
(* of logs and contents.                                                   *)
(***************************************************************************)
EXTENDS SlsLogGroup, SlsLemmas

-----------------------------------------------------------------------------
(* Varints.                                                                *)

\* F is given below 128, and elsewhere by its value without the last seven bits.
BySevenBits(F, base, step) ==
  \A v \in Nat : F[v] = IF v < 128 THEN base[v] ELSE step[<<v, F[v \div 128]>>]

\* Seven bits at a time, every number comes to an end: such a function
\* exists.
LEMMA SevenBitRecursion ==
  ASSUME NEW X, NEW base \in [Nat -> X], NEW step \in [Nat \X X -> X]
  PROVE  \E F \in [Nat -> X] : BySevenBits(F, base, step)
<1> DEFINE Value(f, v) == IF v < 128 THEN base[v] ELSE step[<<v, f[v \div 128]>>]
           Good(n, f)  == f \in [0 .. n -> X] /\ \A v \in 0 .. n : f[v] = Value(f, v)
<1>1. \A v \in Nat : v >= 128 => v \div 128 \in Nat /\ v \div 128 < v
  OBVIOUS
<1>2. \A n \in Nat : \E f : Good(n, f)
  <2> DEFINE G == {n \in Nat : \E f : Good(n, f)}
  <2>1. 0 \in G
    <3>1. Good(0, [v \in 0 .. 0 |-> base[v]])
      OBVIOUS
    <3> HIDE DEF Good
    <3> QED
      BY <3>1
  <2>2. ASSUME NEW n \in G PROVE n + 1 \in G
    <3>1. PICK f : Good(n, f)
      OBVIOUS
    <3> DEFINE k == [v \in 0 .. n + 1 |-> Value(f, v)]
    <3>2. \A v \in 0 .. n + 1 : v >= 128 => v \div 128 \in 0 .. n
      BY <1>1
    <3>3. \A v \in 0 .. n + 1 : Value(f, v) \in X
      BY <3>1, <3>2
    <3>4. \A v \in 0 .. n : v \in 0 .. n + 1 /\ k[v] = f[v]
      BY <3>1
    <3>5. ASSUME NEW v \in 0 .. n + 1 PROVE k[v] = Value(k, v)
      <4>1. k[v] = Value(f, v)
        OBVIOUS
      <4> HIDE DEF k
      <4>2. CASE v < 128
        BY <4>1, <4>2
      <4>3. CASE v >= 128
        <5>1. k[v \div 128] = f[v \div 128]
          BY <3>2, <3>4, <4>3
        <5> QED
          BY <4>1, <5>1
      <4> QED
        BY <4>2, <4>3
    <3>6. k \in [0 .. n + 1 -> X]
      BY <3>3
    <3>7. Good(n + 1, k)
      BY <3>5, <3>6
    <3> HIDE DEF Good
    <3> QED
      BY <3>7
  <2>3. G = Nat
    <3> HIDE DEF Good
    <3>1. G \in SUBSET Nat
      OBVIOUS
    <3> HIDE DEF G
    <3> QED
      BY <2>1, <2>2, <3>1, NatSetInduction
  <2> QED
    BY <2>3
<1>3. ASSUME NEW n \in Nat, NEW m \in Nat, NEW f, NEW g, Good(n, f), Good(m, g)
      PROVE  \A v \in 0 .. n : v <= m => f[v] = g[v]
  <2> DEFINE T == {v \in Nat : v <= n /\ v <= m /\ f[v] # g[v]}
  <2> SUFFICES ASSUME T # {} PROVE FALSE
    OBVIOUS
  <2>1. PICK v \in T : \A w \in T : v <= w
    <3>1. T \in SUBSET Nat
      OBVIOUS
    <3> HIDE DEF T
    <3> QED
      BY <3>1, Least
  <2>2. f[v] = Value(f, v) /\ g[v] = Value(g, v) /\ v \in Nat
    BY <1>3
  <2>3. v >= 128 => v \div 128 \in Nat /\ v \div 128 < v /\ v \div 128 <= n /\ v \div 128 <= m
    BY <1>1
  <2>4. v >= 128 => f[v \div 128] = g[v \div 128]
    BY <2>1, <2>2, <2>3
  <2> QED
    BY <2>2, <2>4
<1> DEFINE At == [n \in Nat |-> CHOOSE f : Good(n, f)]
           F  == [v \in Nat |-> At[v][v]]
<1>4. \A n \in Nat : Good(n, At[n])
  <2> HIDE DEF Good
  <2> QED
    BY <1>2
<1>5. F \in [Nat -> X]
  <2>1. \A v \in Nat : At[v][v] \in X
    <3> SUFFICES ASSUME NEW v \in Nat PROVE At[v][v] \in X
      OBVIOUS
    <3> HIDE DEF At
    <3>1. At[v] \in [0 .. v -> X] /\ v \in 0 .. v
      BY <1>4
    <3> QED
      BY <3>1
  <2> HIDE DEF At
  <2> QED
    BY <2>1
<1>6. ASSUME NEW v \in Nat PROVE F[v] = Value(F, v)
  <2>1. F[v] = Value(At[v], v)
    <3> HIDE DEF At
    <3>1. v \in 0 .. v /\ Good(v, At[v])
      BY <1>4
    <3> QED
      BY <3>1
  <2>2. ASSUME v >= 128 PROVE At[v][v \div 128] = F[v \div 128]
    <3> DEFINE w == v \div 128
    <3>1. w \in Nat /\ w \in 0 .. v /\ w <= w
      BY <1>1, <2>2
    <3>2. Good(v, At[v]) /\ Good(w, At[w])
      BY <1>4, <3>1, ZenonT(30)
    <3> HIDE DEF Good, At, w
    <3>3. At[v][w] = At[w][w]
      BY <1>3, <3>1, <3>2
    <3> QED
      BY <3>1, <3>3 DEF w
  <2> HIDE DEF F, At
  <2> QED
    BY <2>1, <2>2
<1> HIDE DEF F
<1>7. BySevenBits(F, base, step)
  BY <1>6 DEF BySevenBits
<1> QED
  BY <1>5, <1>7

\* Such a function solves the definition of Varint, whose values are sequences of
\* numbers.
LEMMA VarintIs ==
  \A v \in Nat : /\ Varint[v] \in Seq(Nat)
                 /\ v < 128 => Varint[v] = <<v>>
                 /\ v >= 128 => Varint[v] = <<128 + (v % 128)>> \o Varint[v \div 128]
<1> DEFINE X    == Seq(Nat)
           base == [v \in Nat |-> <<v>>]
           step == [p \in Nat \X X |-> <<128 + (p[1] % 128)>> \o p[2]]
           Eq(F) == F = [v \in Nat |-> IF v < 128 THEN <<v>>
                                       ELSE <<128 + (v % 128)>> \o F[v \div 128]]
<1>1. base \in [Nat -> X] /\ step \in [Nat \X X -> X]
  <2>1. \A n \in Nat : n % 128 \in Nat /\ 128 + (n % 128) \in Nat
    OBVIOUS
  <2>2. \A n \in Nat : \A s \in X : <<128 + (n % 128)>> \o s \in X
    BY <2>1
  <2> QED
    BY <2>2
<1>2. PICK F \in [Nat -> X] : BySevenBits(F, base, step)
  <2> HIDE DEF X, base, step
  <2> QED
    BY <1>1, SevenBitRecursion
<1>3. \A v \in Nat : F[v] = IF v < 128 THEN <<v>> ELSE <<128 + (v % 128)>> \o F[v \div 128]
  <2> SUFFICES ASSUME NEW v \in Nat
               PROVE  F[v] = IF v < 128 THEN <<v>> ELSE <<128 + (v % 128)>> \o F[v \div 128]
    OBVIOUS
  <2>1. <<v, F[v \div 128]>> \in Nat \X X
    BY SMTT(30)
  <2>2. step[<<v, F[v \div 128]>>] = <<128 + (v % 128)>> \o F[v \div 128]
    BY <2>1
  <2> HIDE DEF step
  <2> QED
    BY <1>2, <2>2 DEF BySevenBits
<1>4. Eq(F)
  BY <1>3
<1>5. Eq(Varint)
  <2>1. Varint = CHOOSE f : Eq(f)
    BY DEF Varint
  <2> HIDE DEF Eq
  <2> QED
    BY <1>4, <2>1
<1>6. \A v \in Nat : Varint[v] = IF v < 128 THEN <<v>> ELSE <<128 + (v % 128)>> \o Varint[v \div 128]
  BY <1>5
<1>a. ASSUME NEW v \in Nat
      PROVE  /\ v < 128 => Varint[v] = <<v>>
             /\ v >= 128 => Varint[v] = <<128 + (v % 128)>> \o Varint[v \div 128]
  <2>1. Varint[v] = IF v < 128 THEN <<v>> ELSE <<128 + (v % 128)>> \o Varint[v \div 128]
    BY <1>6
  <2>2. v >= 128 => ~(v < 128)
    OBVIOUS
  <2> HIDE DEF base, step, Eq
  <2> QED
    BY <2>1, <2>2, Zenon
<1>7. \A v \in Nat : Varint[v] \in Seq(Nat)
  <2> DEFINE T == {v \in Nat : Varint[v] \notin Seq(Nat)}
  <2> SUFFICES ASSUME T # {} PROVE FALSE
    OBVIOUS
  <2>1. PICK v \in T : \A w \in T : v <= w
    <3>1. T \in SUBSET Nat
      OBVIOUS
    <3> HIDE DEF T
    <3> QED
      BY <3>1, Least
  <2>2. v \in Nat /\ v >= 128 /\ Varint[v] = <<128 + (v % 128)>> \o Varint[v \div 128]
    <3>1. v \in Nat /\ Varint[v] \notin Seq(Nat) /\ <<v>> \in Seq(Nat)
      OBVIOUS
    <3> HIDE DEF T
    <3>2. ~(v < 128)
      BY <1>a, <3>1, Zenon
    <3>3. v >= 128
      BY <3>1, <3>2
    <3> QED
      BY <1>a, <3>1, <3>3, Zenon
  <2> DEFINE w    == v \div 128
             byte == 128 + (v % 128)
  <2>3. w \in Nat /\ w < v /\ byte \in Nat
    BY <2>2
  <2>4. Varint[v] = <<byte>> \o Varint[w] /\ Varint[v] \notin Seq(Nat)
    BY <2>2
  <2>5. Varint[w] \in Seq(Nat)
    <3>1. \A x \in Nat : x \notin T => Varint[x] \in Seq(Nat)
      BY Zenon
    <3> HIDE DEF w, T
    <3>2. v \in Nat /\ \A x \in T : v <= x
      BY <2>1, <2>2
    <3>3. w \notin T
      BY <2>3, <3>2
    <3> QED
      BY <2>3, <3>1, <3>3, Zenon
  <2> HIDE DEF w, byte, T
  <2>6. <<byte>> \in Seq(Nat)
    BY <2>3
  <2>7. <<byte>> \o Varint[w] \in Seq(Nat)
    BY <2>5, <2>6, ConcatProperties
  <2> QED
    BY <2>4, <2>7
<1> QED
  BY <1>a, <1>7

\* Another solves that of VarintLen.
LEMMA VarintLenIs ==
  \A v \in Nat : /\ v < 128 => VarintLen[v] = 1
                 /\ v >= 128 => VarintLen[v] = 1 + VarintLen[v \div 128]
<1> DEFINE X    == Nat
           base == [v \in Nat |-> 1]
           step == [p \in Nat \X X |-> 1 + p[2]]
           Eq(F) == F = [v \in Nat |-> IF v >= 128 THEN 1 + F[v \div 128] ELSE 1]
<1>1. base \in [Nat -> X] /\ step \in [Nat \X X -> X]
  OBVIOUS
<1>2. PICK F \in [Nat -> X] : BySevenBits(F, base, step)
  <2> HIDE DEF X, base, step
  <2> QED
    BY <1>1, SevenBitRecursion
<1>3. \A v \in Nat : F[v] = IF v >= 128 THEN 1 + F[v \div 128] ELSE 1
  <2> SUFFICES ASSUME NEW v \in Nat
               PROVE  F[v] = IF v >= 128 THEN 1 + F[v \div 128] ELSE 1
    OBVIOUS
  <2>1. <<v, F[v \div 128]>> \in Nat \X X
    OBVIOUS
  <2>2. step[<<v, F[v \div 128]>>] = 1 + F[v \div 128]
    BY <2>1
  <2> HIDE DEF step
  <2> QED
    BY <1>2, <2>2 DEF BySevenBits
<1>4. Eq(F)
  BY <1>3
<1>5. Eq(VarintLen)
  <2>1. VarintLen = CHOOSE f : Eq(f)
    BY DEF VarintLen
  <2> HIDE DEF Eq
  <2> QED
    BY <1>4, <2>1
<1> QED
  BY <1>5

\* The encoder writes as many bytes as the C API counts.
LEMMA VarintLength ==
  \A v \in Nat : VarintLen[v] \in Nat \ {0} /\ Len(Varint[v]) = VarintLen[v]
<1> DEFINE T == {v \in Nat : ~(VarintLen[v] \in Nat \ {0} /\ Len(Varint[v]) = VarintLen[v])}
<1> SUFFICES ASSUME T # {} PROVE FALSE
  OBVIOUS
<1>1. PICK v \in T : \A w \in T : v <= w
  <2>1. T \in SUBSET Nat
    OBVIOUS
  <2> HIDE DEF T
  <2> QED
    BY <2>1, Least
<1>2. CASE v < 128
  <2>1. v \in Nat
    OBVIOUS
  <2> HIDE DEF T
  <2>2. Varint[v] = <<v>> /\ VarintLen[v] = 1
    BY <1>2, <2>1, VarintIs, VarintLenIs
  <2>3. Len(Varint[v]) = VarintLen[v] /\ VarintLen[v] \in Nat \ {0}
    BY <2>1, <2>2
  <2> QED
    BY <1>1, <2>3 DEF T
<1>3. CASE v >= 128
  <2> DEFINE w == v \div 128
  <2>1. w \in Nat /\ w < v
    BY <1>3
  <2>2. VarintLen[w] \in Nat \ {0} /\ Len(Varint[w]) = VarintLen[w]
    BY <1>1, <2>1
  <2> DEFINE byte == 128 + (v % 128)
  <2>3. Varint[w] \in Seq(Nat) /\ byte \in Nat
        /\ Varint[v] = <<byte>> \o Varint[w] /\ VarintLen[v] = 1 + VarintLen[w]
    <3>1. v \in Nat
      OBVIOUS
    <3> HIDE DEF T
    <3>2. VarintLen[v] = 1 + VarintLen[w]
      BY <1>3, <3>1, VarintLenIs
    <3>3. Varint[w] \in Seq(Nat) /\ Varint[v] = <<byte>> \o Varint[w]
      BY <1>3, <2>1, <3>1, VarintIs
    <3> QED
      BY <3>1, <3>2, <3>3
  <2> HIDE DEF w, byte
  <2>4. Len(Varint[v]) = 1 + Len(Varint[w])
    BY <2>3
  <2> QED
    BY <2>2, <2>3, <2>4
<1> QED
  BY <1>2, <1>3

\* A function that reads bytes from each position on, and v from the first.
Decodes(f, bytes, v) ==
  /\ f \in [1 .. Len(bytes) + 1 -> Nat]
  /\ f[1] = v /\ f[Len(bytes) + 1] = 0
  /\ \A i \in 1 .. Len(bytes) : f[i] = (bytes[i] % 128) + 128 * f[i + 1]

\* There is one such function at most, so the one Decoded has.
LEMMA DecodedIs ==
  ASSUME NEW bytes \in Seq(Nat), NEW v \in Nat, NEW f, Decodes(f, bytes, v)
  PROVE  Decoded(bytes) = v
<1> DEFINE n == Len(bytes)
           Eq(q) == q = [i \in 1 .. n + 1 |-> IF i > n THEN 0 ELSE (bytes[i] % 128) + 128 * q[i + 1]]
           from == CHOOSE q : Eq(q)
<1>0. n \in Nat
  OBVIOUS
<1>1. Decoded(bytes) = from[1]
  BY DEF Decoded
<1>2. /\ f \in [1 .. n + 1 -> Nat] /\ f[1] = v /\ f[n + 1] = 0
      /\ \A i \in 1 .. n : f[i] = (bytes[i] % 128) + 128 * f[i + 1]
  BY DEF Decodes
<1> HIDE DEF n
<1>3. Eq(f)
  <2>1. ASSUME NEW i \in 1 .. n + 1
        PROVE  f[i] = IF i > n THEN 0 ELSE (bytes[i] % 128) + 128 * f[i + 1]
    <3>1. CASE i > n
      <4>1. i = n + 1
        BY <1>0, <3>1
      <4> QED
        BY <1>2, <3>1, <4>1
    <3>2. CASE ~(i > n)
      <4>1. i \in 1 .. n
        BY <1>0, <3>2
      <4> QED
        BY <1>2, <3>2, <4>1
    <3> QED
      BY <3>1, <3>2
  <2> QED
    BY <1>2, <2>1
<1>4. Eq(from)
  <2> HIDE DEF Eq
  <2> QED
    BY <1>3
<1> HIDE DEF from
<1>5. \A i \in 1 .. n + 1 : from[i] = IF i > n THEN 0 ELSE (bytes[i] % 128) + 128 * from[i + 1]
  BY <1>4
<1> DEFINE G == {t \in Nat : t <= n => from[n + 1 - t] = f[n + 1 - t]}
<1>6. 0 \in G
  <2>1. n + 1 \in 1 .. n + 1 /\ n + 1 > n /\ n + 1 - 0 = n + 1
    BY <1>0
  <2> QED
    BY <1>2, <1>5, <2>1
<1>7. ASSUME NEW t \in G PROVE t + 1 \in G
  <2> SUFFICES ASSUME t + 1 <= n PROVE from[n + 1 - (t + 1)] = f[n + 1 - (t + 1)]
    OBVIOUS
  <2> DEFINE i == n + 1 - (t + 1)
  <2>1. /\ i \in 1 .. n /\ i \in 1 .. n + 1 /\ ~(i > n) /\ i + 1 = n + 1 - t /\ t <= n
    BY <1>0
  <2>2. from[i + 1] = f[i + 1]
    BY <2>1
  <2> HIDE DEF i
  <2>3. from[i] = (bytes[i] % 128) + 128 * from[i + 1]
    BY <1>5, <2>1
  <2>4. f[i] = (bytes[i] % 128) + 128 * f[i + 1]
    BY <1>2, <2>1
  <2>5. from[i] = f[i]
    BY <2>2, <2>3, <2>4
  <2> QED
    BY <2>5 DEF i
<1>8. n \in G
  <2>1. G \subseteq Nat
    OBVIOUS
  <2> HIDE DEF G
  <2> QED
    BY <1>0, <1>6, <1>7, <2>1, NatSetInduction
<1>9. from[1] = f[1]
  <2>1. n + 1 - n = 1 /\ n <= n
    BY <1>0
  <2> QED
    BY <1>8, <2>1
<1> QED
  BY <1>1, <1>2, <1>9

\* What a varint of v looks like.
Formed(bytes, v) ==
  /\ bytes \in Seq(Nat) /\ Len(bytes) \in Nat \ {0}
  /\ \A i \in 1 .. Len(bytes) : bytes[i] \in 0 .. 255 /\ (bytes[i] >= 128 <=> i < Len(bytes))
  /\ v # 0 => bytes[Len(bytes)] # 0
  /\ \E f : Decodes(f, bytes, v)

LEMMA OneByteFormed ==
  ASSUME NEW v \in Nat, v < 128
  PROVE  Formed(<<v>>, v)
<1> DEFINE bytes == <<v>>   f == [i \in 1 .. 2 |-> IF i = 1 THEN v ELSE 0]
<1>1. bytes \in Seq(Nat) /\ Len(bytes) = 1 /\ bytes[1] = v /\ \A i \in 1 .. 1 : i = 1
  OBVIOUS
<1>2. f \in [1 .. 2 -> Nat] /\ f[1] = v /\ f[2] = 0
  OBVIOUS
<1>3. v % 128 = v /\ v \in 0 .. 255 /\ ~(v >= 128)
  OBVIOUS
<1> HIDE DEF bytes, f
<1>4. Decodes(f, bytes, v)
  <2>1. Len(bytes) + 1 = 2
    BY <1>1
  <2>2. v = v + 128 * 0
    OBVIOUS
  <2>3. f[1] = (bytes[1] % 128) + 128 * f[2]
    BY <1>1, <1>2, <1>3, <2>2
  <2>4. ASSUME NEW i \in 1 .. 1 PROVE f[i] = (bytes[i] % 128) + 128 * f[i + 1]
    <3>1. i = 1 /\ 1 + 1 = 2
      BY <1>1
    <3> QED
      BY <2>3, <3>1
  <2> QED
    BY <1>1, <1>2, <2>1, <2>4 DEF Decodes
<1> QED
  BY <1>1, <1>3, <1>4 DEF Formed, bytes

LEMMA MoreBytesFormed ==
  ASSUME NEW v \in Nat, v >= 128, NEW rest, Formed(rest, v \div 128)
  PROVE  Formed(<<128 + (v % 128)>> \o rest, v)
<1> DEFINE w == v \div 128   byte == 128 + (v % 128)   bytes == <<byte>> \o rest   n == Len(rest)
<1>1. /\ w \in Nat \ {0} /\ byte \in 128 .. 255 /\ v = (byte % 128) + 128 * w
  <2> DEFINE r == v % 128
  <2>1. w \in Nat /\ r \in 0 .. 127 /\ v = 128 * w + r
    OBVIOUS
  <2>2. byte = 128 + r
    OBVIOUS
  <2> HIDE DEF w, r, byte
  <2>3. (128 + r) % 128 = r
    BY <2>1
  <2> QED
    BY <2>1, <2>2, <2>3
<1>2. /\ rest \in Seq(Nat) /\ n \in Nat \ {0}
      /\ \A i \in 1 .. n : rest[i] \in 0 .. 255 /\ (rest[i] >= 128 <=> i < n)
      /\ w # 0 => rest[n] # 0
      /\ \E g : Decodes(g, rest, w)
  BY DEF Formed
<1>3. /\ bytes \in Seq(Nat) /\ Len(bytes) = n + 1 /\ bytes[1] = byte
      /\ \A i \in 2 .. n + 1 : bytes[i] = rest[i - 1]
  <2> HIDE DEF w, byte
  <2>1. <<byte>> \in Seq(Nat) /\ Len(<<byte>>) = 1 /\ <<byte>>[1] = byte
    BY <1>1
  <2> QED
    BY <1>2, <2>1, ConcatProperties
<1>4. PICK g : Decodes(g, rest, w)
  BY <1>2
<1>5. /\ g \in [1 .. n + 1 -> Nat] /\ g[1] = w /\ g[n + 1] = 0
      /\ \A i \in 1 .. n : g[i] = (rest[i] % 128) + 128 * g[i + 1]
  BY <1>4 DEF Decodes
<1> HIDE DEF w, byte, bytes, n
<1> DEFINE f == [i \in 1 .. n + 2 |-> IF i = 1 THEN v ELSE g[i - 1]]
<1>6. Decodes(f, bytes, v)
  <2>1. f \in [1 .. n + 2 -> Nat]
    <3>1. \A i \in 2 .. n + 2 : i - 1 \in 1 .. n + 1
      BY <1>2
    <3> QED
      BY <1>2, <1>5, <3>1
  <2>2. f[1] = v /\ \A i \in 2 .. n + 2 : f[i] = g[i - 1]
    BY <1>2
  <2> HIDE DEF f
  <2>3. f[n + 2] = 0
    <3>1. n + 2 \in 2 .. n + 2 /\ (n + 2) - 1 = n + 1
      BY <1>2
    <3> QED
      BY <1>5, <2>2, <3>1
  <2>4. ASSUME NEW i \in 1 .. n + 1 PROVE f[i] = (bytes[i] % 128) + 128 * f[i + 1]
    <3>1. CASE i = 1
      <4>1. f[2] = g[1] /\ 2 - 1 = 1
        BY <1>2, <2>2
      <4> QED
        BY <1>1, <1>3, <1>5, <2>2, <3>1, <4>1
    <3>2. CASE i # 1
      <4>1. i \in 2 .. n + 1 /\ i \in 2 .. n + 2 /\ i + 1 \in 2 .. n + 2 /\ i - 1 \in 1 .. n
            /\ (i + 1) - 1 = i /\ (i - 1) + 1 = i
        BY <1>2, <3>2
      <4>2. f[i] = g[i - 1] /\ f[i + 1] = g[i] /\ bytes[i] = rest[i - 1]
        BY <1>3, <2>2, <4>1
      <4>3. g[i - 1] = (rest[i - 1] % 128) + 128 * g[(i - 1) + 1]
        BY <1>5, <4>1
      <4> QED
        BY <4>1, <4>2, <4>3
    <3> QED
      BY <3>1, <3>2
  <2>5. Len(bytes) + 1 = n + 2
    BY <1>2, <1>3
  <2> QED
    BY <1>3, <2>1, <2>2, <2>3, <2>4, <2>5 DEF Decodes
<1>7. ASSUME NEW i \in 1 .. n + 1
      PROVE  bytes[i] \in 0 .. 255 /\ (bytes[i] >= 128 <=> i < n + 1)
  <2>1. CASE i = 1
    <3>1. bytes[i] = byte /\ i < n + 1
      BY <1>2, <1>3, <2>1
    <3>2. byte \in 0 .. 255 /\ byte >= 128
      BY <1>1
    <3> QED
      BY <3>1, <3>2
  <2>2. CASE i # 1
    <3>1. i \in 2 .. n + 1 /\ i - 1 \in 1 .. n /\ (i - 1 < n <=> i < n + 1)
      BY <1>2, <2>2
    <3> QED
      BY <1>2, <1>3, <3>1
  <2> QED
    BY <2>1, <2>2
<1>8. bytes[n + 1] # 0
  <2>1. n + 1 \in 2 .. n + 1 /\ (n + 1) - 1 = n
    BY <1>2
  <2> QED
    BY <1>1, <1>2, <1>3, <2>1
<1>9. Formed(bytes, v)
  <2>1. bytes \in Seq(Nat) /\ Len(bytes) = n + 1 /\ n + 1 \in Nat \ {0}
    BY <1>2, <1>3
  <2>2. \E h : Decodes(h, bytes, v)
    BY <1>6
  <2>3. /\ bytes \in Seq(Nat) /\ Len(bytes) \in Nat \ {0}
        /\ \A i \in 1 .. Len(bytes) : bytes[i] \in 0 .. 255 /\ (bytes[i] >= 128 <=> i < Len(bytes))
        /\ v # 0 => bytes[Len(bytes)] # 0
    BY <1>7, <1>8, <2>1
  <2> QED
    BY <2>2, <2>3 DEF Formed
<1> QED
  BY <1>9 DEF bytes, byte

LEMMA VarintFormed == \A v \in Nat : Formed(Varint[v], v)
<1> DEFINE T == {v \in Nat : ~Formed(Varint[v], v)}
<1> SUFFICES ASSUME T # {} PROVE FALSE
  OBVIOUS
<1>1. PICK v \in T : \A w \in T : v <= w
  <2>1. T \in SUBSET Nat
    OBVIOUS
  <2> HIDE DEF T
  <2> QED
    BY <2>1, Least
<1>2. v \in Nat /\ ~Formed(Varint[v], v)
  OBVIOUS
<1>3. \A w \in Nat : w < v => Formed(Varint[w], w)
  <2> TAKE w \in Nat
  <2> HAVE w < v
  <2>1. w \notin T
    <3> HIDE DEF T
    <3> QED
      BY <1>1, <1>2
  <2> QED
    BY <2>1
<1> HIDE DEF T
<1>4. CASE v < 128
  BY <1>2, <1>4, OneByteFormed, VarintIs
<1>5. CASE v >= 128
  <2> DEFINE w == v \div 128
  <2>1. w \in Nat /\ w < v
    BY <1>2, <1>5
  <2>2. Formed(Varint[w], w)
    BY <1>3, <2>1
  <2>3. Varint[v] = <<128 + (v % 128)>> \o Varint[w]
    BY <1>2, <1>5, VarintIs
  <2>4. Formed(<<128 + (v % 128)>> \o Varint[w], v)
    BY <1>2, <1>5, <2>2, MoreBytesFormed
  <2> QED
    BY <1>2, <2>3, <2>4
<1> QED
  BY <1>2, <1>4, <1>5

\* Every number's varint is read back, ends where its reader takes it to end and is as
\* short as it can be (writeVarint, behind every field of a request).
THEOREM VarintReadsBack == \A value \in Nat : ReadsBack(value)
<1> TAKE value \in Nat
<1> DEFINE bytes == Varint[value]   n == Len(bytes)
<1>1. Formed(bytes, value)
  BY VarintFormed
<1> HIDE DEF bytes
<1>2. /\ bytes \in Seq(Nat) /\ n \in Nat \ {0} /\ DOMAIN bytes = 1 .. n
      /\ \A i \in 1 .. n : bytes[i] \in 0 .. 255 /\ (bytes[i] >= 128 <=> i < n)
      /\ value # 0 => bytes[n] # 0
  BY <1>1 DEF Formed
<1>3. Decoded(bytes) = value
  BY <1>1, DecodedIs DEF Formed
<1>4. n > 1 => bytes[n] # 0
  <2> SUFFICES ASSUME n > 1, value = 0 PROVE FALSE
    BY <1>2
  <2>1. 0 \in Nat /\ 0 < 128
    OBVIOUS
  <2>2. Varint[0] = <<0>>
    BY <2>1, VarintIs
  <2>3. Len(bytes) = 1
    BY <2>2 DEF bytes
  <2> QED
    BY <2>3
<1> QED
  BY <1>2, <1>3, <1>4 DEF ReadsBack, bytes

\* A tag of the encoder is one byte, as the C API takes it to be.
LEMMA TagsOfOneByte ==
  /\ \A field \in 1 .. 4 : Len(Tag(field, kWireLengthDelimited)) = 1
  /\ Len(Tag(1, kWireVarint)) = 1 /\ Len(Tag(4, kWireFixed32)) = 1
<1>1. \A v \in Nat : v < 128 => Len(Varint[v]) = 1
  BY VarintLength, VarintLenIs
<1> QED
  BY <1>1 DEF Tag, kWireLengthDelimited, kWireVarint, kWireFixed32

\* The C API's framing is the encoder's.
LEMMA FramedIsBytes ==
  ASSUME NEW field \in 1 .. 4, NEW size \in Nat
  PROVE  BytesSize(field, size) = Framed(size) /\ Framed(size) \in Nat
<1>1. Len(Tag(field, kWireLengthDelimited)) = 1
  BY TagsOfOneByte
<1>2. VarintLen[size] \in Nat /\ Len(Varint[size]) = VarintLen[size]
  BY VarintLength
<1> QED
  BY <1>1, <1>2 DEF BytesSize, Framed

-----------------------------------------------------------------------------
(* Sums of sizes.                                                          *)

\* The fold of Total computes the sum of the sequence.
LEMMA TotalSolves ==
  ASSUME NEW sizes \in Seq(Nat), NEW n \in Nat, n = Len(sizes)
  PROVE  \E h : IsSum(h, 1 .. n, sizes, Latest(1 .. n)) /\ Total(sizes) = h[1 .. n]
<1> DEFINE S == 1 .. n
           Eq(h) == h = [s \in SUBSET S |->
                           IF s = {} THEN 0 ELSE h[s \ {Max(s)}] + sizes[Max(s)]]
<1>1. DOMAIN sizes = S /\ sizes \in [S -> Nat] /\ sizes \in [S -> Int]
  OBVIOUS
<1>2. Total(sizes) = (CHOOSE h : Eq(h))[S]
  BY <1>1 DEF Total, FoldLeft, MapThenFoldSet
<1>3. IsFiniteSet(S) /\ Picks(Latest(S), S) /\ \A s \in SUBSET S : s # {} => Max(s) \in s
  <2>1. IsFiniteSet(S)
    BY FS_Interval
  <2>2. Picks(Latest(S), S)
    BY LatestPicks
  <2>3. \A s \in SUBSET S : s # {} => Max(s) \in s
    BY LatestIs
  <2> QED
    BY <2>1, <2>2, <2>3
<1>4. PICK iter \in [SUBSET S -> Int] : Adds(iter, S, sizes, Latest(S))
  <2> HIDE DEF S
  <2> QED
    BY <1>1, <1>3, SumExists
<1> HIDE DEF S
<1>5. Eq(iter)
  <2>1. \A s \in SUBSET S : iter[s] = IF s = {} THEN 0 ELSE iter[s \ {Max(s)}] + sizes[Max(s)]
    <3> SUFFICES ASSUME NEW s \in SUBSET S, s # {}
                 PROVE  iter[s] = iter[s \ {Max(s)}] + sizes[Max(s)]
      BY <1>4 DEF Adds
    <3>1. iter[s] = sizes[Max(s)] + iter[s \ {Max(s)}]
      BY <1>4 DEF Adds, Latest
    <3>2. Max(s) \in S /\ s \ {Max(s)} \in SUBSET S
      BY <1>3
    <3>3. sizes[Max(s)] \in Nat /\ iter[s \ {Max(s)}] \in Int
      BY <1>1, <1>4, <3>2
    <3> QED
      BY <3>1, <3>3
  <2> QED
    BY <2>1
<1>6. Eq(CHOOSE h : Eq(h))
  <2> HIDE DEF Eq
  <2> QED
    BY <1>5
<1> DEFINE h == CHOOSE h : Eq(h)
<1>7. IsSum(h, S, sizes, Latest(S))
  <2> HIDE DEF h
  <2> SUFFICES ASSUME NEW s \in SUBSET S, s # {}, h[s \ {Max(s)}] \in Int
               PROVE  h[s] = sizes[Max(s)] + h[s \ {Max(s)}]
    BY <1>6 DEF IsSum, Latest, h
  <2>1. h[s] = h[s \ {Max(s)}] + sizes[Max(s)]
    BY <1>6 DEF h
  <2>2. sizes[Max(s)] \in Nat
    BY <1>1, <1>3
  <2> QED
    BY <2>1, <2>2
<1> HIDE DEF Eq
<1> QED
  BY <1>2, <1>7 DEF S

\* It is a number, 0 for nothing, and grows by what is appended.
LEMMA TotalType == ASSUME NEW sizes \in Seq(Nat) PROVE Total(sizes) \in Nat
<1>1. PICK n \in Nat : n = Len(sizes)
  OBVIOUS
<1> DEFINE S == 1 .. n
<1>2. PICK h : IsSum(h, S, sizes, Latest(S)) /\ Total(sizes) = h[S]
  BY <1>1, TotalSolves
<1>3. IsFiniteSet(S) /\ Picks(Latest(S), S) /\ \A x \in S : sizes[x] \in Nat
  <2>1. IsFiniteSet(S)
    BY FS_Interval
  <2>2. Picks(Latest(S), S)
    BY LatestPicks
  <2>3. \A x \in S : sizes[x] \in Nat
    BY <1>1
  <2> QED
    BY <2>1, <2>2, <2>3
<1>4. \A s \in SUBSET S : h[s] \in Nat
  <2> HIDE DEF S
  <2> QED
    BY <1>2, <1>3, SumOfNats
<1> QED
  BY <1>2, <1>4

LEMMA TotalEmpty == Total(<<>>) = 0
<1>1. <<>> \in Seq(Nat) /\ Len(<<>>) = 0 /\ 1 .. 0 = {} /\ {} \in SUBSET {}
  OBVIOUS
<1>2. PICK h : IsSum(h, {}, <<>>, Latest({})) /\ Total(<<>>) = h[{}]
  BY <1>1, TotalSolves
<1> QED
  BY <1>1, <1>2 DEF IsSum

LEMMA TotalAppend ==
  ASSUME NEW sizes \in Seq(Nat), NEW size \in Nat
  PROVE  Total(Append(sizes, size)) = Total(sizes) + size
<1> DEFINE longer == Append(sizes, size)
<1>1. PICK n \in Nat : n = Len(sizes)
  OBVIOUS
<1>2. /\ longer \in Seq(Nat) /\ n + 1 = Len(longer) /\ n + 1 \in Nat
      /\ (\A i \in 1 .. n : longer[i] = sizes[i]) /\ longer[n + 1] = size
  BY <1>1
<1> HIDE DEF longer
<1>3. PICK h : IsSum(h, 1 .. n, sizes, Latest(1 .. n)) /\ Total(sizes) = h[1 .. n]
  BY <1>1, TotalSolves
<1>4. PICK k : IsSum(k, 1 .. n + 1, longer, Latest(1 .. n + 1)) /\ Total(longer) = k[1 .. n + 1]
  BY <1>2, TotalSolves
<1>5. sizes \in [1 .. n -> Int] /\ longer \in [1 .. n + 1 -> Int]
  BY <1>1, <1>2
<1>6. h[1 .. n] \in Int /\ k[1 .. n + 1] = h[1 .. n] + longer[n + 1]
  BY <1>2, <1>3, <1>4, <1>5, SumOneMore
<1> QED
  BY <1>2, <1>3, <1>4, <1>6 DEF longer

-----------------------------------------------------------------------------
(* Sizes of logs.                                                          *)

\* A log has a size, and fills a frame.
LEMMA LogSizeType ==
  ASSUME NEW log \in Log
  PROVE  LogSize(log) \in Nat /\ Framed(LogSize(log)) \in Nat
                              /\ BytesSize(1, LogSize(log)) = Framed(LogSize(log))
<1> DEFINE contents == log.contents
           sizes    == [i \in DOMAIN contents |-> BytesSize(2, ContentSize(contents[i]))]
<1>1. log.time \in Nat /\ contents \in Seq([key : Nat, value : Nat])
  BY DEF Log
<1>2. \A i \in DOMAIN contents : contents[i].key \in Nat /\ contents[i].value \in Nat
  <2> DEFINE C == [key : Nat, value : Nat]
  <2>1. contents \in Seq(C) /\ \A c \in C : c.key \in Nat /\ c.value \in Nat
    BY <1>1
  <2> HIDE DEF C, contents
  <2>2. \A i \in DOMAIN contents : contents[i] \in C
    BY <2>1
  <2> QED
    BY <2>1, <2>2
<1>3. \A i \in DOMAIN contents : ContentSize(contents[i]) \in Nat
  BY <1>2, FramedIsBytes DEF ContentSize, StringSize
<1>4. \A i \in DOMAIN contents : BytesSize(2, ContentSize(contents[i])) \in Nat
  <2> HIDE DEF contents
  <2> QED
    BY <1>3, FramedIsBytes
<1>5. sizes \in Seq(Nat)
  <2> DEFINE C == [key : Nat, value : Nat]
             size(c) == BytesSize(2, ContentSize(c))
  <2>1. contents \in Seq(C) /\ \A i \in DOMAIN contents : size(contents[i]) \in Nat
    BY <1>1, <1>4
  <2> HIDE DEF C, contents, size
  <2>2. [i \in DOMAIN contents |-> size(contents[i])] \in Seq(Nat)
    BY <2>1
  <2> QED
    BY <2>2 DEF size
<1>6. ContentsSize(log.contents) \in Nat
  <2> HIDE DEF sizes
  <2>1. Total(sizes) \in Nat
    BY <1>5, TotalType
  <2> QED
    BY <2>1 DEF ContentsSize, sizes
<1>7. Len(Varint[log.time]) \in Nat
  BY <1>1, VarintLength
<1>8. LogSize(log) \in Nat
  BY <1>6, <1>7, TagsOfOneByte, SMTT(30) DEF LogSize
<1> QED
  BY <1>8, FramedIsBytes

\* The logs of a group take as many bytes as their frames.
LEMMA LogsSizeAppend ==
  ASSUME NEW logs \in Seq(Log), NEW log \in Log
  PROVE  LogsSize(logs) \in Nat
         /\ LogsSize(Append(logs, log)) = LogsSize(logs) + Framed(LogSize(log))
<1> DEFINE size(l)  == BytesSize(1, LogSize(l))
           sizes(s) == [i \in DOMAIN s |-> size(s[i])]
<1>1. \A l \in Log : size(l) \in Nat
  BY LogSizeType
<1> HIDE DEF size
<1>2. sizes(logs) \in Seq(Nat) /\ size(log) \in Nat
  BY <1>1
<1>3. sizes(Append(logs, log)) = Append(sizes(logs), size(log))
  BY <1>1
<1>4. LogsSize(logs) = Total(sizes(logs)) /\ LogsSize(Append(logs, log)) = Total(sizes(Append(logs, log)))
  BY DEF LogsSize, size
<1> HIDE DEF sizes
<1>5. Total(sizes(logs)) \in Nat
      /\ Total(Append(sizes(logs), size(log))) = Total(sizes(logs)) + size(log)
  BY <1>2, TotalType, TotalAppend
<1>6. size(log) = Framed(LogSize(log))
  BY LogSizeType DEF size
<1> QED
  BY <1>3, <1>4, <1>5, <1>6

LEMMA LogsSizeEmpty == LogsSize(<<>>) = 0
BY TotalEmpty DEF LogsSize

\* sums holds, for each n, the frames of the logs in S among the first n.
SumsAt(sums, logs, S) ==
  /\ sums[0] = 0
  /\ \A n \in 1 .. Len(logs) :
       sums[n] = sums[n - 1] + IF n \in S THEN Framed(LogSize(logs[n])) ELSE 0

\* The size of the logs in S is such a sum.
LEMMA SizeOfLogsAt ==
  ASSUME NEW logs \in Seq(Log), NEW S
  PROVE  \E sums \in [0 .. Len(logs) -> Nat] :
           SumsAt(sums, logs, S) /\ LogsSize(LogsAt(logs, S)) = sums[Len(logs)]
<1> DEFINE top   == Len(logs)
           X     == Seq(Log)
           start == <<>>
           step  == [p \in (1 .. top) \X X |-> IF p[1] \in S THEN Append(p[2], logs[p[1]]) ELSE p[2]]
           Eq(kept) == kept = [n \in 0 .. top |->
                                 IF n = 0 THEN <<>>
                                 ELSE IF n \in S THEN Append(kept[n - 1], logs[n])
                                 ELSE kept[n - 1]]
<1>1. top \in Nat /\ start \in X /\ step \in [(1 .. top) \X X -> X]
  OBVIOUS
<1>2. PICK f \in [0 .. top -> X] : BySteps(f, top, start, step)
  <2> HIDE DEF top, X, start, step
  <2> QED
    BY <1>1, StepRecursion
<1>3. f[0] = <<>>
  BY <1>2 DEF BySteps
<1>4. ASSUME NEW n \in 1 .. top
      PROVE  /\ n - 1 \in 0 .. top /\ n \in 0 .. top /\ logs[n] \in Log /\ f[n - 1] \in X
             /\ f[n] = IF n \in S THEN Append(f[n - 1], logs[n]) ELSE f[n - 1]
  <2>1. n - 1 \in 0 .. top /\ n \in 0 .. top /\ logs[n] \in Log
    OBVIOUS
  <2>2. f[n - 1] \in X /\ f[n] = step[<<n, f[n - 1]>>]
    BY <1>2, <2>1 DEF BySteps
  <2>3. <<n, f[n - 1]>> \in (1 .. top) \X X
    BY <2>2
  <2> HIDE DEF top, X
  <2> QED
    BY <2>1, <2>2, <2>3
<1>5. Eq(f)
  <2>1. \A n \in 0 .. top : n = 0 \/ n \in 1 .. top
    BY <1>1
  <2> HIDE DEF top, X
  <2> QED
    BY <1>2, <1>3, <1>4, <2>1
<1> DEFINE kept == CHOOSE g : Eq(g)
<1>6. LogsAt(logs, S) = kept[top] /\ Eq(kept)
  <2>1. LogsAt(logs, S) = kept[top]
    BY DEF LogsAt
  <2> HIDE DEF Eq
  <2> QED
    BY <1>5, <2>1
<1> HIDE DEF kept
<1>7. kept[top] = f[top]
  <2> DEFINE E == {n \in Nat : n <= top => kept[n] = f[n]}
  <2>1. 0 \in E
    BY <1>3, <1>6
  <2>2. ASSUME NEW n \in E PROVE n + 1 \in E
    <3> SUFFICES ASSUME n + 1 <= top PROVE kept[n + 1] = f[n + 1]
      OBVIOUS
    <3>1. n + 1 \in 0 .. top /\ n + 1 \in 1 .. top /\ n + 1 # 0 /\ (n + 1) - 1 = n /\ kept[n] = f[n]
      BY <1>1
    <3> HIDE DEF top, X, E, step
    <3>2. kept[n + 1] = IF n + 1 \in S THEN Append(kept[n], logs[n + 1]) ELSE kept[n]
      BY <1>6, <3>1
    <3>3. f[n + 1] = IF n + 1 \in S THEN Append(f[n], logs[n + 1]) ELSE f[n]
      BY <1>4, <3>1
    <3> QED
      BY <3>1, <3>2, <3>3
  <2>3. E = Nat
    <3>1. E \in SUBSET Nat
      OBVIOUS
    <3> HIDE DEF E
    <3> QED
      BY <2>1, <2>2, <3>1, NatSetInduction
  <2> QED
    BY <1>1, <2>3
<1> DEFINE sums == [n \in 0 .. top |-> LogsSize(f[n])]
<1>8. sums \in [0 .. top -> Nat]
  <2>1. \A l \in X : LogsSize(l) \in Nat
    <3>1. [time |-> 0, time_ns |-> 0, contents |-> <<>>] \in Log
      BY DEF Log
    <3> QED
      BY <3>1, LogsSizeAppend
  <2> HIDE DEF X, top
  <2> QED
    BY <2>1
<1>9. SumsAt(sums, logs, S)
  <2>1. sums[0] = 0
    BY <1>3, LogsSizeEmpty
  <2>2. ASSUME NEW n \in 1 .. Len(logs)
        PROVE  sums[n] = sums[n - 1] + IF n \in S THEN Framed(LogSize(logs[n])) ELSE 0
    <3>1. sums[n] = LogsSize(f[n]) /\ sums[n - 1] = LogsSize(f[n - 1])
      BY <1>4
    <3>2. LogsSize(f[n - 1]) \in Nat
          /\ LogsSize(Append(f[n - 1], logs[n])) = LogsSize(f[n - 1]) + Framed(LogSize(logs[n]))
      BY <1>4, LogsSizeAppend
    <3> HIDE DEF sums
    <3> QED
      BY <1>4, <3>1, <3>2
  <2> QED
    BY <2>1, <2>2 DEF SumsAt
<1>10. sums[top] = LogsSize(LogsAt(logs, S))
  <2>1. top \in 0 .. top
    BY <1>1
  <2> HIDE DEF top
  <2> QED
    BY <1>6, <1>7, <2>1
<1> HIDE DEF sums
<1> QED
  BY <1>8, <1>9, <1>10

\* Logs that are not in S make no difference.
LEMMA SizeSame ==
  ASSUME NEW logs \in Seq(Log), NEW more \in Seq(Log), Len(logs) <= Len(more),
         NEW S \in SUBSET (1 .. Len(logs)), \A n \in S : more[n] = logs[n]
  PROVE  LogsSize(LogsAt(more, S)) = LogsSize(LogsAt(logs, S))
<1>1. PICK a \in [0 .. Len(logs) -> Nat] :
        SumsAt(a, logs, S) /\ LogsSize(LogsAt(logs, S)) = a[Len(logs)]
  BY SizeOfLogsAt
<1>2. PICK b \in [0 .. Len(more) -> Nat] :
        SumsAt(b, more, S) /\ LogsSize(LogsAt(more, S)) = b[Len(more)]
  BY SizeOfLogsAt
<1>3. PICK top \in Nat : top = Len(logs)
  OBVIOUS
<1>4. PICK end \in Nat : end = Len(more)
  OBVIOUS
<1> DEFINE E == {n \in Nat : n <= end => b[n] = a[IF n <= top THEN n ELSE top]}
<1>5. 0 \in E
  BY <1>1, <1>2 DEF SumsAt
<1>6. ASSUME NEW n \in E PROVE n + 1 \in E
  <2> SUFFICES ASSUME n + 1 <= end PROVE b[n + 1] = a[IF n + 1 <= top THEN n + 1 ELSE top]
    OBVIOUS
  <2>1. n \in Nat /\ n + 1 \in 1 .. end /\ (n + 1) - 1 = n /\ b[n] = a[IF n <= top THEN n ELSE top]
        /\ b[n] \in Nat
    BY <1>2, <1>4, SMTT(30)
  <2> HIDE DEF E
  <2>2. b[n + 1] = b[n] + IF n + 1 \in S THEN Framed(LogSize(more[n + 1])) ELSE 0
    BY <1>2, <1>4, <2>1 DEF SumsAt
  <2>3. CASE n + 1 <= top
    <3>1. n + 1 \in 1 .. top /\ b[n] = a[n]
      BY <1>3, <2>1, <2>3
    <3>2. a[n + 1] = a[n] + IF n + 1 \in S THEN Framed(LogSize(logs[n + 1])) ELSE 0
      BY <1>1, <1>3, <2>1, <3>1 DEF SumsAt
    <3> QED
      BY <2>2, <2>3, <3>1, <3>2
  <2>4. CASE ~(n + 1 <= top)
    <3>1. n + 1 \notin S /\ b[n] = a[top]
      BY <1>3, <2>1, <2>4
    <3> QED
      BY <2>1, <2>2, <2>4, <3>1
  <2> QED
    BY <2>3, <2>4
<1>7. E = Nat
  <2>1. E \in SUBSET Nat
    OBVIOUS
  <2> HIDE DEF E
  <2> QED
    BY <1>5, <1>6, <2>1, NatSetInduction
<1>8. b[end] = a[top]
  BY <1>3, <1>4, <1>7
<1> QED
  BY <1>1, <1>2, <1>3, <1>4, <1>8

\* One more log adds its frame, wherever it stands.
LEMMA SizeMore ==
  ASSUME NEW logs \in Seq(Log), NEW S, NEW i \in 1 .. Len(logs), i \notin S
  PROVE  /\ LogsSize(LogsAt(logs, S)) \in Nat
         /\ LogsSize(LogsAt(logs, S \cup {i}))
              = LogsSize(LogsAt(logs, S)) + Framed(LogSize(logs[i]))
<1> DEFINE more == S \cup {i}
           size == Framed(LogSize(logs[i]))
<1>1. PICK a \in [0 .. Len(logs) -> Nat] :
        SumsAt(a, logs, S) /\ LogsSize(LogsAt(logs, S)) = a[Len(logs)]
  BY SizeOfLogsAt
<1>2. PICK b \in [0 .. Len(logs) -> Nat] :
        SumsAt(b, logs, more) /\ LogsSize(LogsAt(logs, more)) = b[Len(logs)]
  <2> HIDE DEF more
  <2> QED
    BY SizeOfLogsAt
<1>3. PICK top \in Nat : top = Len(logs)
  OBVIOUS
<1>4. size \in Nat /\ \A n \in 1 .. top : Framed(LogSize(logs[n])) \in Nat
  BY <1>3, LogSizeType
<1> DEFINE E == {n \in Nat : n <= top => b[n] = a[n] + IF i <= n THEN size ELSE 0}
<1>5. 0 \in E
  BY <1>1, <1>2 DEF SumsAt
<1>6. ASSUME NEW n \in E PROVE n + 1 \in E
  <2> SUFFICES ASSUME n + 1 <= top PROVE b[n + 1] = a[n + 1] + IF i <= n + 1 THEN size ELSE 0
    OBVIOUS
  <2>1. n \in Nat /\ n + 1 \in 1 .. top /\ (n + 1) - 1 = n /\ b[n] = a[n] + (IF i <= n THEN size ELSE 0)
        /\ a[n] \in Nat
    BY <1>1, <1>3
  <2> HIDE DEF E
  <2> DEFINE w == Framed(LogSize(logs[n + 1]))
  <2>2. w \in Nat
    BY <1>4, <2>1
  <2>3. b[n + 1] = b[n] + (IF n + 1 \in more THEN w ELSE 0)
    <3> HIDE DEF more
    <3> QED
      BY <1>2, <1>3, <2>1 DEF SumsAt
  <2>4. a[n + 1] = a[n] + (IF n + 1 \in S THEN w ELSE 0)
    BY <1>1, <1>3, <2>1 DEF SumsAt
  <2>5. CASE i = n + 1
    <3>1. w = size /\ n + 1 \in more /\ n + 1 \notin S /\ ~(i <= n) /\ i <= n + 1
      BY <2>1, <2>5
    <3> HIDE DEF w, size, more
    <3> QED
      BY <1>4, <2>1, <2>3, <2>4, <3>1
  <2>6. CASE i # n + 1
    <3>1. (n + 1 \in more <=> n + 1 \in S) /\ (i <= n <=> i <= n + 1)
      BY <1>3, <2>1, <2>6
    <3> HIDE DEF w, size, more
    <3> QED
      BY <1>4, <2>1, <2>2, <2>3, <2>4, <3>1
  <2> QED
    BY <2>5, <2>6
<1>7. E = Nat
  <2>1. E \in SUBSET Nat
    OBVIOUS
  <2> HIDE DEF E
  <2> QED
    BY <1>5, <1>6, <2>1, NatSetInduction
<1>8. b[top] = a[top] + size /\ a[top] \in Nat
  BY <1>1, <1>3, <1>7
<1> QED
  BY <1>1, <1>2, <1>3, <1>8

-----------------------------------------------------------------------------
(* The invariant.                                                          *)

Group == [logs : Seq(Log), topic : Nat, source : Nat]

\* The sum is the size of the logs it has counted: those without an open handle
\* that the encoder takes and whose size could be computed.
GroupInv ==
  /\ group = NULL \/ group \in Group
  /\ encoded_size \in Nat
  /\ items \subseteq 1 .. Len(group.logs)
  /\ unsized \subseteq (1 .. Len(group.logs)) \ items
  /\ group # NULL => encoded_size = LogsSize(LogsAt(group.logs, Counted))

LEMMA LiveGroup == ASSUME NEW g \in Group PROVE g # NULL
<1>1. g.topic \in Nat /\ NULL.topic = -1
  BY DEF Group, NULL
<1> QED
  BY <1>1

\* A group without logs has no size.
LEMMA NoLogsNoSize == ASSUME NEW S PROVE LogsSize(LogsAt(<<>>, S)) = 0
<1>1. <<>> \in Seq(Log) /\ Len(<<>>) = 0
  OBVIOUS
<1>2. PICK sums : SumsAt(sums, <<>>, S) /\ LogsSize(LogsAt(<<>>, S)) = sums[0]
  BY <1>1, SizeOfLogsAt
<1> QED
  BY <1>2 DEF SumsAt

\* What a step does to a group it leaves alive: nothing that was counted is touched,
\* and at most one log is counted, with its frame.
Effect ==
  /\ group' \in Group /\ Len(group.logs) <= Len(group'.logs)
  /\ \A n \in Counted : group'.logs[n] = group.logs[n]
  /\ \/ Counted' = Counted /\ encoded_size' = encoded_size
     \/ \E i \in (1 .. Len(group.logs)) \ Counted :
          /\ group' = group /\ Counted' = Counted \cup {i}
          /\ encoded_size' = encoded_size + Framed(LogSize(group.logs[i]))

Indices ==
  items \subseteq 1 .. Len(group.logs) /\ unsized \subseteq (1 .. Len(group.logs)) \ items

\* Every step that leaves the group alive has such an effect: a new log is open or
\* empty, contents go to an open log, and an item that is destroyed counts its log
\* once.
LEMMA StepEffect ==
  ASSUME GroupInv, group # NULL, Next, group' # NULL
  PROVE  Effect /\ Indices'
<1> DEFINE N == Len(group.logs)
<1>inv. /\ group \in Group /\ group.logs \in Seq(Log) /\ N \in Nat
        /\ items \subseteq 1 .. N /\ unsized \subseteq (1 .. N) \ items
        /\ group.topic \in Nat /\ group.source \in Nat
  BY DEF GroupInv, Group
<1>counted. Counted = {n \in (1 .. N) \ (items \cup unsized) : LogEncodable(group.logs[n])}
  BY <1>inv DEF Counted
<1>1. ASSUME NEW stamp \in Stamps, AddLog(stamp) \/ AddLogNoItem(stamp)
      PROVE  Effect /\ Indices'
  <2>1. NewLog(stamp) \in Log /\ NewLog(stamp).contents = <<>>
    BY LogGroupAssumption DEF NewLog, Log
  <2>2. /\ group' = [group EXCEPT !.logs = Append(group.logs, NewLog(stamp))]
        /\ encoded_size' = encoded_size /\ unsized' = unsized
        /\ items' \in {items, items \cup {N + 1}}
    BY <1>1 DEF AddLog, AddLogNoItem
  <2>3. /\ group'.logs = Append(group.logs, NewLog(stamp)) /\ group'.topic = group.topic
        /\ group'.source = group.source
    BY <1>inv, <2>2 DEF Group
  <2> DEFINE logs == group'.logs
             new  == NewLog(stamp)
  <2> HIDE DEF new
  <2>4. /\ logs \in Seq(Log) /\ Len(logs) = N + 1 /\ logs[N + 1] = new
        /\ \A n \in 1 .. N : logs[n] = group.logs[n]
    BY <1>inv, <2>1, <2>3 DEF new
  <2>5. group' \in Group
    BY <1>inv, <2>2, <2>4 DEF Group
  <2> HIDE DEF logs
  <2>6. Indices'
    BY <1>inv, <2>2, <2>4 DEF Indices, logs
  <2>7. ~LogEncodable(logs[N + 1])
    BY <2>1, <2>4 DEF LogEncodable, new
  <2>8. Counted' = {n \in (1 .. N + 1) \ (items' \cup unsized') : LogEncodable(logs[n])}
    <3>1. DOMAIN logs = 1 .. N + 1
      BY <1>inv, <2>4
    <3> QED
      BY <3>1 DEF Counted, logs
  <2>9. Counted' = Counted
    <3>1. \A n \in 1 .. N + 1 : n \in Counted' <=> n \in Counted
      <4> SUFFICES ASSUME NEW n \in 1 .. N + 1 PROVE n \in Counted' <=> n \in Counted
        OBVIOUS
      <4>1. CASE n = N + 1
        BY <1>inv, <1>counted, <2>7, <2>8, <4>1
      <4>2. CASE n # N + 1
        <5>1. n \in 1 .. N /\ logs[n] = group.logs[n] /\ (n \in items' <=> n \in items)
          BY <1>inv, <2>2, <2>4, <4>2
        <5> QED
          BY <1>counted, <2>2, <2>8, <5>1
      <4> QED
        BY <4>1, <4>2
    <3>2. Counted \subseteq 1 .. N + 1 /\ Counted' \subseteq 1 .. N + 1
      BY <1>inv, <1>counted, <2>8
    <3> QED
      BY <3>1, <3>2
  <2>10. \A n \in Counted : logs[n] = group.logs[n]
    BY <1>counted, <2>4
  <2> QED
    <3>1. Len(group.logs) <= Len(group'.logs)
      BY <1>inv, <2>4 DEF logs
    <3> HIDE DEF N
    <3> QED
      BY <2>2, <2>5, <2>6, <2>9, <2>10, <3>1 DEF Effect, logs
<1>2. ASSUME NEW i \in items, NEW content \in Contents, AddContent(i, content)
      PROVE  Effect /\ Indices'
  <2> DEFINE log  == group.logs[i]
             more == [log EXCEPT !.contents = Append(@, content)]
             logs == group'.logs
  <2>1. i \in 1 .. N /\ log \in Log
    BY <1>inv
  <2>2. more \in Log
    <3> DEFINE C == [key : Nat, value : Nat]
    <3>1. content \in C
      BY LogGroupAssumption
    <3>2. log.contents \in Seq(C)
      BY <2>1 DEF Log
    <3>3. Append(log.contents, content) \in Seq(C)
      <4> HIDE DEF C
      <4> QED
        BY <3>1, <3>2
    <3> QED
      BY <2>1, <3>3 DEF Log
  <2>3. /\ group' = [group EXCEPT !.logs[i].contents = Append(@, content)]
        /\ UNCHANGED <<encoded_size, items, unsized>>
    BY <1>2 DEF AddContent
  <2>4. logs = [group.logs EXCEPT ![i] = more]
    BY <1>inv, <2>1, <2>3 DEF Group
  <2>5. group' = [group EXCEPT !.logs = logs]
    BY <1>inv, <2>3 DEF Group
  <2> HIDE DEF logs, more, log
  <2>6. logs \in Seq(Log) /\ Len(logs) = N /\ \A n \in (1 .. N) \ {i} : logs[n] = group.logs[n]
    BY <1>inv, <2>1, <2>2, <2>4
  <2>7. group' \in Group
    BY <1>inv, <2>5, <2>6 DEF Group
  <2>8. Counted' = {n \in (1 .. N) \ (items \cup unsized) : LogEncodable(logs[n])}
    <3>1. DOMAIN logs = 1 .. N
      BY <1>inv, <2>6
    <3> QED
      BY <2>3, <3>1 DEF Counted, logs
  <2>9. Counted' = Counted
    BY <1>counted, <2>6, <2>8
  <2>10. \A n \in Counted : logs[n] = group.logs[n]
    BY <1>counted, <2>6
  <2>11. Indices'
    BY <1>inv, <2>3, <2>6 DEF Indices, logs
  <2> QED
    BY <1>inv, <2>3, <2>6, <2>7, <2>9, <2>10, <2>11 DEF Effect, logs
<1>3. ASSUME NEW i \in items, ItemDestroy(i)
      PROVE  Effect /\ Indices'
  <2>1. /\ i \in 1 .. N /\ i \notin Counted /\ i \notin unsized
        /\ group' = group /\ unsized' = unsized /\ items' = items \ {i}
    BY <1>3, <1>inv, <1>counted DEF ItemDestroy
  <2>2. Indices'
    BY <1>inv, <2>1 DEF Indices
  <2>3. Counted' = {n \in (1 .. N) \ (items' \cup unsized) : LogEncodable(group.logs[n])}
    BY <1>inv, <2>1 DEF Counted
  <2>4. CASE LogEncodable(group.logs[i])
    <3>1. Counted' = Counted \cup {i}
      BY <1>counted, <2>1, <2>3, <2>4
    <3>2. encoded_size' = encoded_size + Framed(LogSize(group.logs[i]))
      BY <1>3, <2>4 DEF ItemDestroy
    <3> QED
      BY <1>inv, <2>1, <2>2, <3>1, <3>2 DEF Effect
  <2>5. CASE ~LogEncodable(group.logs[i])
    <3>1. Counted' = Counted
      BY <1>counted, <2>1, <2>3, <2>5
    <3>2. encoded_size' = encoded_size
      BY <1>3, <2>5 DEF ItemDestroy
    <3> QED
      BY <1>inv, <2>1, <2>2, <3>1, <3>2 DEF Effect
  <2> QED
    BY <2>4, <2>5
<1>4. ASSUME NEW i \in items, ItemDestroyUnsized(i)
      PROVE  Effect /\ Indices'
  <2>1. /\ i \in 1 .. N
        /\ group' = group /\ encoded_size' = encoded_size
        /\ unsized' = unsized \cup {i} /\ items' = items \ {i}
    BY <1>4, <1>inv DEF ItemDestroyUnsized
  <2>2. Indices'
    BY <1>inv, <2>1 DEF Indices
  <2>3. items' \cup unsized' = items \cup unsized
    BY <2>1
  <2>4. Counted' = Counted
    BY <2>1, <2>3 DEF Counted
  <2> QED
    BY <1>inv, <2>1, <2>2, <2>4 DEF Effect
<1>5. ~(\E label \in Labels : GroupCreate(label)) /\ ~GroupDestroy
  BY DEF GroupCreate, GroupDestroy
<1> QED
  BY <1>1, <1>2, <1>3, <1>4, <1>5 DEF Next

\* Every step keeps the invariant.
LEMMA GroupStep == GroupInv /\ [Next]_vars => GroupInv'
<1> SUFFICES ASSUME GroupInv, [Next]_vars PROVE GroupInv'
  OBVIOUS
<1>1. CASE group # NULL /\ Next /\ group' # NULL
  <2>1. Effect /\ Indices'
    BY <1>1, StepEffect
  <2>2. group.logs \in Seq(Log) /\ group'.logs \in Seq(Log) /\ encoded_size \in Nat
        /\ Counted \subseteq 1 .. Len(group.logs) /\ encoded_size = LogsSize(LogsAt(group.logs, Counted))
    BY <1>1, <2>1 DEF GroupInv, Group, Effect, Counted
  <2>3. encoded_size' \in Nat /\ encoded_size' = LogsSize(LogsAt(group'.logs, Counted'))
    <3>1. CASE Counted' = Counted /\ encoded_size' = encoded_size
      <4>1. LogsSize(LogsAt(group'.logs, Counted)) = LogsSize(LogsAt(group.logs, Counted))
        BY <2>1, <2>2, SizeSame DEF Effect
      <4> QED
        BY <2>2, <3>1, <4>1
    <3>2. ASSUME NEW i \in (1 .. Len(group.logs)) \ Counted,
                 group' = group, Counted' = Counted \cup {i},
                 encoded_size' = encoded_size + Framed(LogSize(group.logs[i]))
          PROVE  encoded_size' \in Nat /\ encoded_size' = LogsSize(LogsAt(group'.logs, Counted'))
      <4>1. LogsSize(LogsAt(group.logs, Counted \cup {i}))
              = LogsSize(LogsAt(group.logs, Counted)) + Framed(LogSize(group.logs[i]))
        BY <2>2, SizeMore
      <4>2. Framed(LogSize(group.logs[i])) \in Nat
        BY <2>2, LogSizeType
      <4> QED
        BY <2>2, <3>2, <4>1, <4>2
    <3> QED
      BY <2>1, <3>1, <3>2 DEF Effect
  <2> QED
    BY <2>1, <2>3 DEF GroupInv, Effect, Indices
<1>2. CASE UNCHANGED vars
  <2>1. Counted' = Counted
    BY <1>2 DEF vars, Counted
  <2> QED
    BY <1>2, <2>1 DEF GroupInv, vars
<1>3. CASE group # NULL /\ Next /\ group' = NULL
  <2>1. Next /\ group # NULL /\ group' = NULL
    BY <1>3
  <2>2. GroupDestroy
    <3>1. CASE \E stamp \in Stamps : AddLog(stamp) \/ AddLogNoItem(stamp)
      <4>1. group'.topic = group.topic /\ group \in Group
        BY <2>1, <3>1 DEF AddLog, AddLogNoItem, GroupInv, Group
      <4> QED
        BY <2>1, <4>1 DEF Group, NULL
    <3>2. CASE \E i \in items : \E content \in Contents : AddContent(i, content)
      <4>1. group'.topic = group.topic /\ group \in Group
        BY <2>1, <3>2 DEF AddContent, GroupInv, Group
      <4> QED
        BY <2>1, <4>1 DEF Group, NULL
    <3>3. CASE \E i \in items : ItemDestroy(i) \/ ItemDestroyUnsized(i)
      BY <2>1, <3>3 DEF ItemDestroy, ItemDestroyUnsized
    <3>4. CASE \E label \in Labels : GroupCreate(label)
      BY <2>1, <3>4 DEF GroupCreate
    <3> QED
      BY <2>1, <3>1, <3>2, <3>3, <3>4 DEF Next
  <2>3. items' = {} /\ unsized' = {} /\ encoded_size' = 0
    BY <2>2 DEF GroupDestroy
  <2> QED
    BY <2>1, <2>3 DEF GroupInv
<1>4. CASE group = NULL /\ Next
  <2>1. items = {} /\ unsized = {}
    BY <1>4 DEF GroupInv, NULL
  <2>2. PICK label \in Labels : GroupCreate(label)
    <3>1. ~GroupDestroy /\ (\A stamp : ~AddLog(stamp) /\ ~AddLogNoItem(stamp))
      BY <1>4 DEF GroupDestroy, AddLog, AddLogNoItem
    <3> QED
      BY <1>4, <2>1, <3>1 DEF Next
  <2>3. /\ group' = [logs |-> <<>>, topic |-> label.topic, source |-> label.source]
        /\ encoded_size' = 0 /\ items' = {} /\ unsized' = {}
        /\ label.topic \in Nat /\ label.source \in Nat
    BY <2>1, <2>2, LogGroupAssumption DEF GroupCreate
  <2>4. group' \in Group /\ group'.logs = <<>>
    BY <2>3 DEF Group
  <2>5. LogsSize(LogsAt(group'.logs, Counted')) = 0
    BY <2>4, NoLogsNoSize
  <2> QED
    BY <2>3, <2>4, <2>5 DEF GroupInv
<1> QED
  BY <1>1, <1>2, <1>3, <1>4

LEMMA GroupInit == Init => GroupInv
BY DEF Init, GroupInv, NULL

LEMMA GroupInvariant == Spec => []GroupInv
BY GroupInit, GroupStep, PTL DEF Spec

-----------------------------------------------------------------------------
(* What follows.                                                           *)

\* What aliyun_sls_log_group_encoded_size returns is the number of bytes the encoder
\* makes of the logs that were counted, in whatever order their items were filled and
\* destroyed.
THEOREM LogGroupSizeExact == Spec => []EncodedSizeExact
<1>1. GroupInv => EncodedSizeExact
  <2> SUFFICES ASSUME GroupInv, group # NULL
               PROVE  EncodedSize = GroupSize([group EXCEPT !.logs = LogsAt(group.logs, Counted)])
    BY DEF EncodedSizeExact
  <2> DEFINE g == [group EXCEPT !.logs = LogsAt(group.logs, Counted)]
  <2>1. /\ g.logs = LogsAt(group.logs, Counted) /\ g.topic = group.topic /\ g.source = group.source
        /\ group.topic \in Nat /\ group.source \in Nat
        /\ encoded_size = LogsSize(LogsAt(group.logs, Counted))
    BY DEF GroupInv, Group
  <2> HIDE DEF g
  <2>2. /\ BytesSize(3, group.topic) = Framed(group.topic)
        /\ BytesSize(4, group.source) = Framed(group.source)
    BY <2>1, FramedIsBytes
  <2>3. GroupSize(g) = EncodedSize
    BY <2>1, <2>2 DEF GroupSize, EncodedSize, StringSize
  <2> QED
    BY <2>3 DEF g
<1> QED
  BY <1>1, GroupInvariant, PTL

\* While a group lives, what it has counted stays as it was counted.
THEOREM LogGroupCountedIsFinal == Spec => CountedIsFinal
<1> DEFINE Final == group' # NULL /\ group # NULL =>
                      /\ encoded_size' >= encoded_size
                      /\ \A i \in Counted : i \in Counted' /\ group'.logs[i] = group.logs[i]
<1>1. GroupInv /\ [Next]_vars => [Final]_vars
  <2> SUFFICES ASSUME GroupInv, Next, group' # NULL, group # NULL
               PROVE  /\ encoded_size' >= encoded_size
                      /\ \A i \in Counted : i \in Counted' /\ group'.logs[i] = group.logs[i]
    OBVIOUS
  <2>1. Effect
    BY StepEffect
  <2>2. encoded_size \in Nat /\ group.logs \in Seq(Log)
    BY DEF GroupInv, Group
  <2>3. \A i \in 1 .. Len(group.logs) : Framed(LogSize(group.logs[i])) \in Nat
    BY <2>2, LogSizeType
  <2> QED
    BY <2>1, <2>2, <2>3 DEF Effect
<1> QED
  BY <1>1, GroupInvariant, PTL DEF Spec, CountedIsFinal

=============================================================================

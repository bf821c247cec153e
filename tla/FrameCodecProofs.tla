-------------------------- MODULE FrameCodecProofs --------------------------
(***************************************************************************)
(* Facts about the operators of FrameCodec, for bytes of any size and any  *)
(* payload cap: the varint and the frame decode to what was encoded, a     *)
(* verdict of the decoder is final, and it never takes more than it was    *)
(* given.                                                                  *)
(***************************************************************************)
EXTENDS FrameCodec, Integers, NatRecursion, SequenceTheorems, TLAPS

-----------------------------------------------------------------------------
(* Division. *)

\* Multiplication is monotonic.
LEMMA TimesMonotonic ==
    ASSUME NEW m \in Nat, NEW a \in Int, NEW b \in Int, a <= b
    PROVE  m * a <= m * b
<1>1. m * b = m * a + m * (b - a)
  OBVIOUS
<1>2. m * (b - a) >= 0
  OBVIOUS
<1> DEFINE x == m * a
           y == m * b
           z == m * (b - a)
<1>3. x \in Int /\ y \in Int /\ z \in Int
  OBVIOUS
<1>4. y = x + z /\ z >= 0
  BY <1>1, <1>2
<1> HIDE DEF x, y, z
<1>5. x <= y
  BY <1>3, <1>4
<1> QED
  BY <1>5 DEF x, y

\* Quotient and remainder are what they are written as.
LEMMA DivIs ==
    ASSUME NEW m \in Nat, NEW s \in Nat, NEW u \in Nat, u < m
    PROVE  (m * s + u) \div m = s /\ (m * s + u) % m = u
OBVIOUS

\* A number is its quotient and its remainder.
LEMMA DivMod ==
    ASSUME NEW m \in Nat, m > 0, NEW x \in Nat
    PROVE  \E q \in Nat : \E r \in 0 .. m - 1 :
              q = x \div m /\ r = x % m /\ x = m * q + r
OBVIOUS

\* Shifting by two weights is shifting by one after the other.
LEMMA DivTwice ==
    ASSUME NEW a \in Nat, a > 0, NEW w \in Nat, w > 0, NEW x \in Nat
    PROVE  x \div (a * w) = (x \div a) \div w
<1>1. PICK q \in Nat : \E r \in 0 .. a - 1 : q = x \div a /\ r = x % a /\ x = a * q + r
  BY DivMod
<1>2. PICK r \in 0 .. a - 1 : x = a * q + r
  BY <1>1
<1>3. PICK s \in Nat : \E t \in 0 .. w - 1 : s = q \div w /\ t = q % w /\ q = w * s + t
  BY DivMod
<1>4. PICK t \in 0 .. w - 1 : q = w * s + t
  BY <1>3
<1> DEFINE m == a * w
           u == a * t + r
<1>5. a * (w * s + t) = (a * w) * s + a * t
  OBVIOUS
<1>6. x = m * s + u
  <2>1. x = a * (w * s + t) + r
    BY <1>2, <1>4
  <2> QED
    BY <1>5, <2>1
<1>7. m \in Nat /\ u \in Nat
  OBVIOUS
<1>8. u < m
  <2>1. a * t <= a * (w - 1)
    BY TimesMonotonic
  <2>2. a * (w - 1) = a * w - a
    OBVIOUS
  <2> DEFINE p == a * t
             y == a * w
  <2>3. p \in Int /\ y \in Int /\ p <= y - a
    BY <2>1, <2>2
  <2> HIDE DEF p, y
  <2>4. p + r < y
    BY <2>3
  <2> QED
    BY <2>4 DEF p, y
<1> HIDE DEF m, u
<1>9. x \div m = s
  BY <1>6, <1>7, <1>8, DivIs
<1> QED
  BY <1>1, <1>3, <1>9 DEF m

\* A number below q times a has a quotient below q.
LEMMA DivBelow ==
    ASSUME NEW a \in Nat, a > 0, NEW q \in Nat, NEW x \in Nat, x < q * a
    PROVE  x \div a \in Nat /\ x \div a < q
<1>1. PICK s \in Nat : \E r \in 0 .. a - 1 : s = x \div a /\ r = x % a /\ x = a * s + r
  BY DivMod
<1>2. PICK r \in 0 .. a - 1 : x = a * s + r
  BY <1>1
<1>3. ASSUME q <= s PROVE FALSE
  <2>1. a * q <= a * s
    BY <1>3, TimesMonotonic
  <2>2. a * q = q * a
    OBVIOUS
  <2> DEFINE y == a * q
             z == a * s
  <2>3. y \in Int /\ z \in Int /\ y <= z /\ x < y /\ x = z + r
    BY <1>2, <2>1, <2>2
  <2> HIDE DEF y, z
  <2> QED
    BY <2>3
<1> QED
  BY <1>1, <1>3

-----------------------------------------------------------------------------
(* Weights and forms. *)

\* w[i] is the weight of a byte with i bytes behind it, for i up to n.
IsWeights(w, n) ==
    /\ w \in [0 .. n -> Nat]
    /\ w[0] = 1
    /\ \A i \in 1 .. n : w[i] = w[i - 1] * (4 * Q)

\* Weight takes the last of them.
LEMMA WeightLoop ==
    ASSUME NEW n \in Nat
    PROVE  \E w : IsWeights(w, n) /\ Weight(n) = w[n]
<1> DEFINE step == [p \in Nat \X (1 .. n) |-> p[1] * (4 * Q)]
           Weights(w) == w = [i \in 0 .. n |-> IF i = 0 THEN 1 ELSE w[i - 1] * (4 * Q)]
<1>1. Q \in Nat
  BY CodecAssumption
<1>2. step \in [Nat \X (1 .. n) -> Nat]
  BY <1>1
<1>3. \A x \in Nat, i \in 1 .. n : step[<<x, i>>] = x * (4 * Q)
  OBVIOUS
<1> HIDE DEF step
<1>4. PICK f : IsLoop(f, n, Nat, 1, step)
  BY <1>2, LoopExists
<1>5. /\ f \in [0 .. n -> Nat] /\ f[0] = 1
      /\ \A i \in 1 .. n : f[i] = f[i - 1] * (4 * Q)
  <2>1. f \in [0 .. n -> Nat] /\ f[0] = 1
    BY <1>4 DEF IsLoop
  <2>2. ASSUME NEW i \in 1 .. n PROVE f[i] = f[i - 1] * (4 * Q)
    <3>1. f[i - 1] \in Nat
      BY <2>1
    <3>2. f[i] = step[<<f[i - 1], i>>]
      BY <1>4 DEF IsLoop
    <3> QED
      BY <1>3, <3>1, <3>2, Zenon
  <2> QED
    BY <2>1, <2>2
<1>6. Weights(f)
  <2>1. \A i \in 0 .. n : i = 0 \/ i \in 1 .. n
    OBVIOUS
  <2> QED
    BY <1>5, <2>1, Zenon
<1>7. PICK w : Weights(w) /\ Weight(n) = w[n]
  BY <1>6, Zenon DEF Weight
<1>8. w[0] = 1 /\ \A i \in 1 .. n : w[i] = w[i - 1] * (4 * Q)
  <2>1. 0 \in 0 .. n /\ \A i \in 1 .. n : i \in 0 .. n /\ i # 0
    OBVIOUS
  <2> QED
    BY <1>7, <2>1, Zenon
<1>9. \A i \in 0 .. n : w[i] \in Nat
  <2> DEFINE P == {i \in 0 .. n : w[i] \in Nat}
  <2>1. 0 \in P
    BY <1>8
  <2>2. \A i \in 1 .. n : i - 1 \in P => i \in P
    BY <1>1, <1>8
  <2> HIDE DEF P
  <2>3. 0 .. n \subseteq P
    BY <2>1, <2>2, UpTo
  <2> QED
    BY <2>3 DEF P
<1>10. w \in [0 .. n -> Nat]
  BY <1>7, <1>9, Zenon
<1> QED
  BY <1>7, <1>8, <1>10 DEF IsWeights

\* They do not depend on how many are computed, and none is zero.
LEMMA WeightsAgree ==
    ASSUME NEW n \in Nat, NEW m \in Nat, n <= m,
           NEW w, IsWeights(w, n), NEW x, IsWeights(x, m)
    PROVE  \A i \in 0 .. n : w[i] = x[i] /\ w[i] > 0
<1> DEFINE P == {i \in 0 .. n : w[i] = x[i] /\ w[i] > 0}
<1>1. 0 \in P
  BY DEF IsWeights
<1>2. ASSUME NEW i \in 1 .. n, i - 1 \in P PROVE i \in P
  <2>1. i \in 1 .. m
    OBVIOUS
  <2>2. w[i] = w[i - 1] * (4 * Q) /\ x[i] = x[i - 1] * (4 * Q)
    BY <2>1 DEF IsWeights
  <2>3. w[i - 1] \in Nat /\ w[i - 1] > 0 /\ w[i - 1] = x[i - 1] /\ Q \in Nat /\ Q > 0
    BY <1>2, CodecAssumption DEF IsWeights
  <2>4. w[i - 1] * (4 * Q) > 0
    BY <2>3
  <2> QED
    BY <2>2, <2>3, <2>4
<1> HIDE DEF P
<1>3. 0 .. n \subseteq P
  BY <1>1, <1>2, UpTo
<1> QED
  BY <1>3 DEF P

\* A weight is four times Q times the one before.
LEMMA WeightOf ==
    /\ \A n \in Nat : Weight(n) \in Nat /\ Weight(n) > 0
    /\ Weight(0) = 1
    /\ \A n \in Nat : Weight(n + 1) = Weight(n) * (4 * Q)
<1>1. ASSUME NEW n \in Nat PROVE Weight(n) \in Nat /\ Weight(n) > 0
  <2>1. PICK w : IsWeights(w, n) /\ Weight(n) = w[n]
    BY WeightLoop
  <2>2. w[n] > 0
    BY <2>1, WeightsAgree
  <2> QED
    BY <2>1, <2>2 DEF IsWeights
<1>2. Weight(0) = 1
  <2>1. PICK w : IsWeights(w, 0) /\ Weight(0) = w[0]
    BY WeightLoop
  <2> QED
    BY <2>1 DEF IsWeights
<1>3. ASSUME NEW n \in Nat PROVE Weight(n + 1) = Weight(n) * (4 * Q)
  <2>1. PICK w : IsWeights(w, n) /\ Weight(n) = w[n]
    BY WeightLoop
  <2>2. n + 1 \in Nat /\ n <= n + 1
    OBVIOUS
  <2>3. PICK x : IsWeights(x, n + 1) /\ Weight(n + 1) = x[n + 1]
    BY <2>2, WeightLoop
  <2>4. w[n] = x[n]
    BY <2>1, <2>2, <2>3, WeightsAgree
  <2>5. x[n + 1] = x[n] * (4 * Q)
    BY <2>3 DEF IsWeights
  <2> QED
    BY <2>1, <2>3, <2>4, <2>5
<1> QED
  BY <1>1, <1>2, <1>3

\* A byte has 4 * Q values, more than one.
LEMMA ByteSize ==
    /\ Q \in Nat /\ Q > 0
    /\ Weight(1) = 4 * Q /\ 4 * Q \in Nat /\ 4 * Q > 0
    /\ \A b \in Byte : b \in Nat /\ b < 4 * Q
<1>1. Q \in Nat /\ Q > 0
  BY CodecAssumption
<1>2. Weight(0 + 1) = Weight(0) * (4 * Q) /\ Weight(0) = 1
  BY WeightOf
<1>3. Weight(1) = 4 * Q
  BY <1>1, <1>2
<1> QED
  BY <1>1, <1>3 DEF Byte

\* The bytes of a form: the prefix is in the first one, above the first digit.
LEMMA FormBytes ==
    ASSUME NEW k \in Nat, k > 0, NEW v \in Nat, v < Limit(k)
    PROVE  /\ VarintForm(v, k) \in Seq(Byte)
           /\ Len(VarintForm(v, k)) = k
           /\ VarintForm(v, k)[1] \div Q = Prefix(k)
           /\ VarintForm(v, k)[1] % Q = v \div Weight(k - 1)
           /\ \A i \in 2 .. k : VarintForm(v, k)[i] = (v \div Weight(k - i)) % (4 * Q)
<1> DEFINE f == VarintForm(v, k)
           W == 4 * Q
           d == v \div Weight(k - 1)
<1>1. Q \in Nat /\ Q > 0 /\ Weight(1) = W /\ W \in Nat /\ W > 0
  BY ByteSize
<1>2. \A i \in 1 .. k : Weight(k - i) \in Nat /\ Weight(k - i) > 0
  BY WeightOf
<1>3. d \in Nat /\ d < Q
  <2>1. v < Q * Weight(k - 1)
    BY DEF Limit
  <2>2. Weight(k - 1) \in Nat /\ Weight(k - 1) > 0
    BY WeightOf
  <2> QED
    BY <1>1, <2>1, <2>2, DivBelow
<1>4. Prefix(k) \in 0 .. 3
  BY DEF Prefix
<1>5. \A i \in 1 .. k : f[i] = ((v \div Weight(k - i)) % W) + (IF i = 1 THEN Prefix(k) * Q ELSE 0)
  BY <1>1 DEF VarintForm
<1>6. \A i \in 1 .. k : (v \div Weight(k - i)) % W \in 0 .. W - 1
  <2> SUFFICES ASSUME NEW i \in 1 .. k
               PROVE  (v \div Weight(k - i)) % W \in 0 .. W - 1
    OBVIOUS
  <2>1. PICK q \in Nat : q = v \div Weight(k - i)
    BY <1>2, DivMod
  <2>2. q % W \in 0 .. W - 1
    BY <1>1
  <2> QED
    BY <2>1, <2>2
<1>7. f[1] = d + Prefix(k) * Q
  <2>1. d % W = d
    BY <1>1, <1>3
  <2> HIDE DEF d, W
  <2>2. 1 \in 1 .. k
    OBVIOUS
  <2> QED
    BY <1>5, <2>1, <2>2 DEF d
<1>8. \A i \in 2 .. k : f[i] = (v \div Weight(k - i)) % W
  <2> SUFFICES ASSUME NEW i \in 2 .. k PROVE f[i] = (v \div Weight(k - i)) % W
    OBVIOUS
  <2>1. i \in 1 .. k /\ i # 1
    OBVIOUS
  <2>2. PICK r \in 0 .. W - 1 : r = (v \div Weight(k - i)) % W
    BY <1>6, <2>1
  <2>3. f[i] = r + 0
    BY <1>5, <2>1, <2>2
  <2> HIDE DEF W, f
  <2> QED
    BY <1>1, <2>2, <2>3
<1> HIDE DEF f, d
<1>9. f[1] \div Q = Prefix(k) /\ f[1] % Q = d /\ f[1] \in 0 .. W - 1
  <2>1. f[1] = Q * Prefix(k) + d
    BY <1>1, <1>3, <1>4, <1>7
  <2>2. (Q * Prefix(k) + d) \div Q = Prefix(k) /\ (Q * Prefix(k) + d) % Q = d
    <3>1. Prefix(k) \in Nat
      BY <1>4
    <3> QED
      BY <1>1, <1>3, <3>1, DivIs, Zenon
  <2>3. Q * Prefix(k) <= Q * 3
    BY <1>1, <1>4, TimesMonotonic
  <2>4. Q * Prefix(k) + d \in 0 .. W - 1
    <3> DEFINE y == Q * Prefix(k)
    <3>1. y \in Nat /\ y <= 3 * Q
      BY <1>1, <1>4, <2>3
    <3> HIDE DEF y
    <3>2. y + d \in 0 .. W - 1
      BY <1>1, <1>3, <3>1
    <3> QED
      BY <3>2 DEF y
  <2> QED
    BY <2>1, <2>2, <2>4
<1>10. \A i \in 1 .. k : f[i] \in Byte
  <2>1. \A i \in 1 .. k : i = 1 \/ i \in 2 .. k
    OBVIOUS
  <2>2. \A i \in 1 .. k : f[i] \in 0 .. W - 1
    BY <1>6, <1>8, <1>9, <2>1
  <2> QED
    BY <2>2 DEF Byte
<1>11. f = [i \in 1 .. k |-> f[i]]
  BY DEF VarintForm, f
<1>12. f \in Seq(Byte) /\ Len(f) = k
  <2>1. f \in [1 .. k -> Byte]
    BY <1>10, <1>11, Zenon
  <2> QED
    BY <2>1
<1> QED
  BY <1>8, <1>9, <1>12 DEF f, d

-----------------------------------------------------------------------------
(* Big-endian numbers. *)

\* x[i] is the number the first i bytes of b stand for.
IsValues(x, b, k) ==
    /\ x \in [0 .. k -> Nat]
    /\ x[0] = 0
    /\ \A i \in 1 .. k : x[i] = x[i - 1] * (4 * Q) + (IF i = 1 THEN b[1] % Q ELSE b[i])

\* BigEndian takes the last of them.
LEMMA ValueLoop ==
    ASSUME NEW k \in Nat, NEW b, \A i \in 1 .. k : b[i] \in Nat
    PROVE  \E x : IsValues(x, b, k) /\ BigEndian(b, k) = x[k]
<1> DEFINE digit == [i \in 1 .. k |-> IF i = 1 THEN b[1] % Q ELSE b[i]]
           step == [p \in Nat \X (1 .. k) |-> p[1] * Weight(1) + digit[p[2]]]
           Values(x) == x = [i \in 0 .. k |->
                               IF i = 0 THEN 0
                               ELSE x[i - 1] * Weight(1) + (IF i = 1 THEN b[1] % Q ELSE b[i])]
<1>1. Weight(1) = 4 * Q /\ Weight(1) \in Nat /\ Q \in Nat /\ Q > 0
  BY ByteSize
<1>2. \A i \in 1 .. k : digit[i] = IF i = 1 THEN b[1] % Q ELSE b[i]
  OBVIOUS
<1>3. \A i \in 1 .. k : digit[i] \in Nat
  <2> SUFFICES ASSUME NEW i \in 1 .. k PROVE digit[i] \in Nat
    OBVIOUS
  <2>1. CASE i = 1
    <3>1. PICK c \in Nat : c = b[1]
      BY <2>1
    <3>2. c % Q \in Nat
      BY <1>1
    <3> QED
      BY <1>2, <2>1, <3>1, <3>2
  <2>2. CASE i # 1
    BY <1>2, <2>2
  <2> QED
    BY <2>1, <2>2
<1> HIDE DEF digit
<1>4. step \in [Nat \X (1 .. k) -> Nat]
  BY <1>1, <1>3
<1>5. \A y \in Nat, i \in 1 .. k : step[<<y, i>>] = y * Weight(1) + digit[i]
  OBVIOUS
<1> HIDE DEF step
<1>6. PICK f : IsLoop(f, k, Nat, 0, step)
  BY <1>4, LoopExists
<1>7. f \in [0 .. k -> Nat] /\ f[0] = 0
  BY <1>6 DEF IsLoop
<1>8. \A i \in 1 .. k : f[i] = f[i - 1] * Weight(1) + digit[i]
  <2> SUFFICES ASSUME NEW i \in 1 .. k PROVE f[i] = f[i - 1] * Weight(1) + digit[i]
    OBVIOUS
  <2>1. f[i - 1] \in Nat
    BY <1>7
  <2>2. f[i] = step[<<f[i - 1], i>>]
    BY <1>6 DEF IsLoop
  <2> QED
    BY <1>5, <2>1, <2>2, Zenon
<1>9. Values(f)
  <2>1. \A i \in 0 .. k : i = 0 \/ i \in 1 .. k
    OBVIOUS
  <2> QED
    BY <1>2, <1>7, <1>8, <2>1, Zenon
<1>10. PICK x : Values(x) /\ BigEndian(b, k) = x[k]
  BY <1>9, Zenon DEF BigEndian
<1>11. x[0] = 0 /\ \A i \in 1 .. k : x[i] = x[i - 1] * Weight(1) + digit[i]
  <2>1. 0 \in 0 .. k /\ \A i \in 1 .. k : i \in 0 .. k /\ i # 0
    OBVIOUS
  <2> QED
    BY <1>2, <1>10, <2>1, Zenon
<1>12. \A i \in 0 .. k : x[i] \in Nat
  <2> DEFINE P == {i \in 0 .. k : x[i] \in Nat}
  <2>1. 0 \in P
    BY <1>11
  <2>2. ASSUME NEW i \in 1 .. k, i - 1 \in P PROVE i \in P
    <3>1. x[i - 1] \in Nat /\ digit[i] \in Nat /\ x[i] = x[i - 1] * Weight(1) + digit[i]
      BY <1>3, <1>11, <2>2
    <3>2. x[i - 1] * Weight(1) + digit[i] \in Nat
      BY <1>1, <3>1
    <3> QED
      BY <3>1, <3>2
  <2> HIDE DEF P
  <2>3. 0 .. k \subseteq P
    BY <2>1, <2>2, UpTo
  <2> QED
    BY <2>3 DEF P
<1>13. x \in [0 .. k -> Nat]
  BY <1>10, <1>12, Zenon
<1>14. IsValues(x, b, k)
  BY <1>1, <1>2, <1>11, <1>13, Zenon DEF IsValues
<1> QED
  BY <1>10, <1>14

\* Decoding undoes encoding: the bytes of a form stand for the value they were
\* made from.
LEMMA FormValue ==
    ASSUME NEW k \in Nat, k > 0, NEW v \in Nat, v < Limit(k),
           NEW b, \A i \in 1 .. k : b[i] = VarintForm(v, k)[i]
    PROVE  b[1] \div Q = Prefix(k) /\ BigEndian(b, k) = v
<1> DEFINE W == 4 * Q
<1>1. Q \in Nat /\ Q > 0 /\ W \in Nat /\ W > 0
  BY ByteSize
<1>2. /\ \A i \in 1 .. k : b[i] \in Byte
      /\ b[1] \div Q = Prefix(k)
      /\ b[1] % Q = v \div Weight(k - 1)
      /\ \A i \in 2 .. k : b[i] = (v \div Weight(k - i)) % W
  <2>1. VarintForm(v, k) \in Seq(Byte) /\ Len(VarintForm(v, k)) = k
    BY FormBytes
  <2>2. \A i \in 1 .. k : VarintForm(v, k)[i] \in Byte
    BY <2>1
  <2>3. 1 \in 1 .. k /\ \A i \in 2 .. k : i \in 1 .. k
    OBVIOUS
  <2> QED
    BY <2>2, <2>3, FormBytes
<1>3. \A i \in 1 .. k : b[i] \in Nat
  BY <1>2, ByteSize
<1>4. PICK x : IsValues(x, b, k) /\ BigEndian(b, k) = x[k]
  BY <1>3, ValueLoop
<1> DEFINE P == {i \in 0 .. k : i = 0 \/ x[i] = v \div Weight(k - i)}
<1>5. 0 \in P
  OBVIOUS
<1>6. ASSUME NEW i \in 1 .. k, i - 1 \in P PROVE i \in P
  <2>1. CASE i = 1
    <3>1. x[1] = x[0] * W + (b[1] % Q) /\ x[0] = 0
      BY <1>4, <2>1 DEF IsValues
    <3>2. PICK c \in Nat : c = b[1] % Q
      BY <1>1, <1>3
    <3>3. x[1] = c
      BY <1>1, <3>1, <3>2
    <3> QED
      BY <1>2, <2>1, <3>2, <3>3
  <2>2. CASE i # 1
    <3>1. i \in 2 .. k
      BY <2>2
    <3> DEFINE a == Weight(k - i)
    <3>2. a \in Nat /\ a > 0 /\ Weight(k - (i - 1)) = a * W
      <4>1. k - i \in Nat /\ k - (i - 1) = (k - i) + 1
        OBVIOUS
      <4> QED
        BY <4>1, WeightOf
    <3>3. x[i] = x[i - 1] * W + b[i]
      BY <1>4, <3>1 DEF IsValues
    <3>4. x[i - 1] = v \div (a * W)
      BY <1>6, <3>1, <3>2
    <3> HIDE DEF a, W
    <3>5. PICK y \in Nat : y = v \div a
      BY <3>2, DivMod
    <3>6. x[i - 1] = y \div W
      BY <1>1, <3>2, <3>4, <3>5, DivTwice
    <3>7. b[i] = y % W
      BY <1>2, <3>1, <3>5 DEF a
    <3>8. PICK q \in Nat : \E r \in 0 .. W - 1 : q = y \div W /\ r = y % W /\ y = W * q + r
      BY <1>1, DivMod
    <3>9. PICK r \in 0 .. W - 1 : r = y % W /\ y = W * q + r
      BY <3>8
    <3>10. x[i] = q * W + r
      BY <3>3, <3>6, <3>7, <3>8, <3>9
    <3>11. q * W + r = W * q + r
      BY <1>1
    <3> QED
      BY <3>5, <3>9, <3>10, <3>11 DEF a
  <2> QED
    BY <2>1, <2>2
<1> HIDE DEF P
<1>7. k \in P
  BY <1>5, <1>6, UpTo
<1>8. x[k] = v \div Weight(0)
  BY <1>7 DEF P
<1>9. v \div 1 = v
  OBVIOUS
<1> QED
  BY <1>2, <1>4, <1>8, <1>9, WeightOf

\* A big-endian number depends on its bytes only.
LEMMA ValueAgree ==
    ASSUME NEW k \in Nat, NEW b, NEW c,
           \A i \in 1 .. k : b[i] \in Nat /\ b[i] = c[i]
    PROVE  BigEndian(b, k) = BigEndian(c, k) /\ BigEndian(b, k) \in Nat
<1>1. PICK x : IsValues(x, b, k) /\ BigEndian(b, k) = x[k]
  BY ValueLoop
<1>2. PICK y : IsValues(y, c, k) /\ BigEndian(c, k) = y[k]
  BY ValueLoop
<1> DEFINE P == {i \in 0 .. k : x[i] = y[i]}
<1>3. 0 \in P
  BY <1>1, <1>2 DEF IsValues
<1>4. ASSUME NEW i \in 1 .. k, i - 1 \in P PROVE i \in P
  <2>1. x[i] = x[i - 1] * (4 * Q) + (IF i = 1 THEN b[1] % Q ELSE b[i])
    BY <1>1 DEF IsValues
  <2>2. y[i] = y[i - 1] * (4 * Q) + (IF i = 1 THEN c[1] % Q ELSE c[i])
    BY <1>2 DEF IsValues
  <2>3. x[i - 1] = y[i - 1] /\ b[i] = c[i]
    BY <1>4
  <2>4. x[i] = y[i]
    BY <2>1, <2>2, <2>3, Zenon
  <2> QED
    BY <2>4
<1> HIDE DEF P
<1>5. k \in P
  BY <1>3, <1>4, UpTo
<1>6. x[k] \in Nat
  BY <1>1 DEF IsValues
<1> QED
  BY <1>1, <1>2, <1>5, <1>6 DEF P

-----------------------------------------------------------------------------
(* The decoder. *)

\* The length of the varint behind the flag, and the payload length it holds.
HeadForm(b) == FormLen(b[2] \div Q)
HeadLength(b) == BigEndian(Tail(b), HeadForm(b))

\* A prefix selects one of the four forms.
LEMMA HeadFormIs ==
    ASSUME NEW b
    PROVE  HeadForm(b) \in {1, 2, 4, 8} /\ HeadForm(b) \in Nat
BY DEF HeadForm, FormLen

\* The length is a number as soon as its varint is there.
LEMMA HeadLengthIs ==
    ASSUME NEW b \in Seq(Byte), Len(b) >= 1 + HeadForm(b)
    PROVE  /\ HeadLength(b) \in Nat
           /\ \A i \in 1 .. HeadForm(b) : Tail(b)[i] \in Nat /\ Tail(b)[i] = b[i + 1]
<1> DEFINE k == HeadForm(b)
<1>1. k \in Nat /\ k > 0
  BY HeadFormIs
<1>2. b # << >> /\ Len(b) \in Nat
  BY <1>1
<1>3. /\ Tail(b) \in Seq(Byte) /\ Len(Tail(b)) = Len(b) - 1
      /\ \A i \in 1 .. Len(Tail(b)) : Tail(b)[i] = b[i + 1]
  BY <1>2, HeadTailProperties
<1> HIDE DEF k
<1>4. \A i \in 1 .. k : i \in 1 .. Len(Tail(b))
  BY <1>1, <1>2, <1>3 DEF k
<1>5. \A i \in 1 .. k : Tail(b)[i] \in Byte /\ Tail(b)[i] = b[i + 1]
  BY <1>3, <1>4, ElementOfSeq
<1>6. \A i \in 1 .. k : Tail(b)[i] \in Nat
  BY <1>5, ByteSize
<1>7. BigEndian(Tail(b), k) \in Nat
  BY <1>1, <1>6, ValueAgree
<1> QED
  BY <1>5, <1>6, <1>7 DEF k, HeadLength

\* What varint_decode says of the bytes behind the flag.
LEMMA HeadVarint ==
    ASSUME NEW b \in Seq(Byte), Len(b) >= 2
    PROVE  varint_decode(Tail(b)) =
              IF Len(b) < 1 + HeadForm(b) THEN [len |-> 0, value |-> 0]
              ELSE [len |-> HeadForm(b), value |-> HeadLength(b)]
<1> DEFINE k == HeadForm(b)
<1>1. Len(b) \in Nat /\ k \in {1, 2, 4, 8}
  BY HeadFormIs
<1>2. b # << >> /\ Len(Tail(b)) = Len(b) - 1 /\ Tail(b)[1] = b[2]
  OBVIOUS
<1>3. FormLen(Tail(b)[1] \div Q) = k
  BY <1>2 DEF HeadForm
<1>4. (Len(Tail(b)) < k) <=> (Len(b) < 1 + k)
  BY <1>1, <1>2
<1> HIDE DEF k
<1> QED
  BY <1>3, <1>4, Zenon DEF varint_decode, HeadLength, k

\* The verdicts of the decoder, in the order in which it looks.
LEMMA DecodeCases ==
    ASSUME NEW b \in Seq(Byte)
    PROVE  wtd_frame_decode(b) =
              IF Len(b) < 1 THEN Undecoded(INCOMPLETE)
              ELSE IF b[1] > 1 THEN Undecoded(ERR_RESERVED)
              ELSE IF Len(b) < 1 + HeadForm(b) THEN Undecoded(INCOMPLETE)
              ELSE IF HeadLength(b) > MaxPayload THEN Undecoded(ERR_TOO_BIG)
              ELSE IF Len(b) < 1 + HeadForm(b) + HeadLength(b) THEN Undecoded(INCOMPLETE)
              ELSE [st |-> OK, consumed |-> 1 + HeadForm(b) + HeadLength(b), flag |-> b[1],
                    payload |-> SubSeq(b, 2 + HeadForm(b), 1 + HeadForm(b) + HeadLength(b))]
<1> DEFINE k == HeadForm(b)
           n == HeadLength(b)
           v == varint_decode(Tail(b))
<1>1. Len(b) \in Nat /\ k \in {1, 2, 4, 8}
  BY HeadFormIs
<1>2. ASSUME Len(b) >= 2
      PROVE  v = IF Len(b) < 1 + k THEN [len |-> 0, value |-> 0] ELSE [len |-> k, value |-> n]
  BY <1>2, HeadVarint
<1>3. CASE Len(b) < 2
  BY <1>1, <1>3 DEF wtd_frame_decode
<1>4. CASE Len(b) >= 2
  <2> HIDE DEF k, n, v
  <2>1. CASE Len(b) < 1 + k
    <3>1. v.len = 0
      BY <1>2, <1>4, <2>1
    <3> QED
      BY <1>1, <1>4, <2>1, <3>1 DEF wtd_frame_decode, k, v
  <2>2. CASE ~(Len(b) < 1 + k)
    <3>1. v.len = k /\ v.value = n /\ v.len # 0
      BY <1>1, <1>2, <1>4, <2>2
    <3>2. ~(Len(b) < 1) /\ ~(Len(b) < 2)
      BY <1>1, <1>4
    <3> QED
      BY <2>2, <3>1, <3>2, Zenon DEF wtd_frame_decode, k, n, v
  <2> QED
    BY <2>1, <2>2
<1> QED
  BY <1>1, <1>3, <1>4

\* What the decoder takes is in the buffer, and is a frame that may be.
LEMMA DecodeBounds ==
    ASSUME NEW b \in Seq(Byte), wtd_frame_decode(b).st = OK
    PROVE  /\ wtd_frame_decode(b).consumed \in 2 .. Len(b)
           /\ wtd_frame_decode(b).consumed = 1 + HeadForm(b) + HeadLength(b)
           /\ HeadLength(b) \in 0 .. MaxPayload
           /\ wtd_frame_decode(b).flag = b[1] /\ b[1] \in {RELIABLE, UNRELIABLE}
           /\ wtd_frame_decode(b).payload =
                 SubSeq(b, 2 + HeadForm(b), 1 + HeadForm(b) + HeadLength(b))
           /\ wtd_frame_decode(b).payload \in Seq(Byte)
           /\ Len(wtd_frame_decode(b).payload) = HeadLength(b)
<1> DEFINE d == wtd_frame_decode(b)
           k == HeadForm(b)
           n == HeadLength(b)
<1>1. /\ Len(b) \in Nat /\ k \in Nat /\ k > 0 /\ MaxPayload \in Nat
  BY HeadFormIs, CodecAssumption
<1>2. /\ ~(Len(b) < 1) /\ ~(b[1] > 1) /\ ~(Len(b) < 1 + k) /\ ~(n > MaxPayload)
      /\ ~(Len(b) < 1 + k + n)
      /\ d.consumed = 1 + k + n /\ d.flag = b[1] /\ d.payload = SubSeq(b, 2 + k, 1 + k + n)
  BY DecodeCases DEF Undecoded, OK, INCOMPLETE, ERR_RESERVED, ERR_TOO_BIG
<1>3. n \in Nat
  BY <1>1, <1>2, HeadLengthIs
<1>4. b[1] \in Byte
  BY <1>1, <1>2
<1>5. b[1] \in {RELIABLE, UNRELIABLE}
  BY <1>2, <1>4, ByteSize DEF RELIABLE, UNRELIABLE
<1> HIDE DEF d, k, n
<1>6. \A i \in 2 + k .. 1 + k + n : b[i] \in Byte
  BY <1>1, <1>2, <1>3
<1>7. d.payload \in Seq(Byte) /\ Len(d.payload) = n
  <2>1. 2 + k \in Int /\ 1 + k + n \in Int
    BY <1>1, <1>3
  <2>2. /\ SubSeq(b, 2 + k, 1 + k + n) \in Seq(Byte)
        /\ Len(SubSeq(b, 2 + k, 1 + k + n)) =
              IF 2 + k <= 1 + k + n THEN (1 + k + n) - (2 + k) + 1 ELSE 0
    BY <1>6, <2>1, SubSeqProperties
  <2>3. (IF 2 + k <= 1 + k + n THEN (1 + k + n) - (2 + k) + 1 ELSE 0) = n
    BY <1>1, <1>3
  <2> QED
    BY <1>2, <2>2, <2>3
<1>8. d.consumed \in 2 .. Len(b) /\ n \in 0 .. MaxPayload
  BY <1>1, <1>2, <1>3
<1> QED
  BY <1>2, <1>5, <1>7, <1>8 DEF d, k, n

\* A verdict is final: bytes that follow change nothing.
LEMMA VerdictIsFinal ==
    ASSUME NEW b \in Seq(Byte), NEW r \in Seq(Byte), wtd_frame_decode(b).st # INCOMPLETE
    PROVE  wtd_frame_decode(b \o r) = wtd_frame_decode(b)
<1> DEFINE c == b \o r
           k == HeadForm(b)
           n == HeadLength(b)
<1>1. /\ c \in Seq(Byte) /\ Len(c) = Len(b) + Len(r) /\ Len(b) \in Nat /\ Len(r) \in Nat
      /\ \A i \in 1 .. Len(b) : c[i] = b[i]
  OBVIOUS
<1>2. k \in Nat /\ k > 0 /\ MaxPayload \in Nat
  BY HeadFormIs, CodecAssumption
<1>3. Undecoded(INCOMPLETE).st = INCOMPLETE
  BY DEF Undecoded
<1>4. ~(Len(b) < 1)
  BY <1>3, DecodeCases
<1>5. ~(Len(c) < 1) /\ c[1] = b[1]
  BY <1>1, <1>4
<1> HIDE DEF c
<1>6. CASE b[1] > 1
  BY <1>1, <1>4, <1>5, <1>6, DecodeCases DEF c
<1>7. CASE ~(b[1] > 1)
  <2>1. ~(Len(b) < 1 + k)
    BY <1>3, <1>4, <1>7, DecodeCases
  <2>2. ~(Len(c) < 1 + k) /\ c[2] = b[2]
    BY <1>1, <1>2, <2>1
  <2>3. HeadForm(c) = k
    BY <2>2 DEF HeadForm
  <2>4. /\ n \in Nat
        /\ \A i \in 1 .. k : Tail(b)[i] \in Nat /\ Tail(b)[i] = b[i + 1]
    BY <1>1, <1>2, <2>1, HeadLengthIs
  <2>5. \A i \in 1 .. k : Tail(c)[i] = c[i + 1]
    BY <1>1, <1>2, <2>2, <2>3, HeadLengthIs
  <2>6. \A i \in 1 .. k : c[i + 1] = b[i + 1]
    BY <1>1, <1>2, <2>1
  <2>7. \A i \in 1 .. k : Tail(b)[i] \in Nat /\ Tail(b)[i] = Tail(c)[i]
    BY <2>4, <2>5, <2>6
  <2>8. HeadLength(c) = n
    <3>1. BigEndian(Tail(b), k) = BigEndian(Tail(c), k)
      BY <1>2, <2>7, ValueAgree
    <3> QED
      BY <2>3, <3>1, Zenon DEF HeadLength
  <2> HIDE DEF k, n
  <2>9. CASE n > MaxPayload
    BY <1>1, <1>4, <1>5, <1>7, <2>1, <2>2, <2>3, <2>8, <2>9, DecodeCases DEF c, k, n
  <2>10. CASE ~(n > MaxPayload)
    <3>1. ~(Len(b) < 1 + k + n)
      BY <1>3, <1>4, <1>7, <2>1, <2>10, DecodeCases DEF k, n
    <3>2. ~(Len(c) < 1 + k + n)
      BY <1>1, <1>2, <2>4, <3>1
    <3>3. SubSeq(c, 2 + k, 1 + k + n) = SubSeq(b, 2 + k, 1 + k + n)
      <4>1. \A i \in 2 + k .. 1 + k + n : c[i] = b[i] /\ b[i] \in Byte
        BY <1>1, <1>2, <2>4, <3>1
      <4>2. 2 + k \in Int /\ 1 + k + n \in Int
        BY <1>2, <2>4
      <4>3. \A i \in 2 + k .. 1 + k + n : c[i] \in Byte
        BY <4>1
      <4> DEFINE s == SubSeq(b, 2 + k, 1 + k + n)
                 t == SubSeq(c, 2 + k, 1 + k + n)
                 m == IF 2 + k <= 1 + k + n THEN (1 + k + n) - (2 + k) + 1 ELSE 0
      <4>4. m \in Nat /\ m <= n /\ (1 + k + n) - (2 + k) + 1 = n
        BY <1>2, <2>4
      <4>5. /\ s \in Seq(Byte) /\ Len(s) = m
            /\ \A i \in 1 .. (1 + k + n) - (2 + k) + 1 : s[i] = b[2 + k + i - 1]
        BY <4>1, <4>2, SubSeqProperties
      <4>6. /\ t \in Seq(Byte) /\ Len(t) = m
            /\ \A i \in 1 .. (1 + k + n) - (2 + k) + 1 : t[i] = c[2 + k + i - 1]
        BY <4>2, <4>3, SubSeqProperties
      <4> HIDE DEF s, t, m
      <4>7. ASSUME NEW i \in 1 .. m PROVE s[i] = t[i]
        <5>1. i \in 1 .. n /\ 2 + k + i - 1 \in 2 + k .. 1 + k + n
          BY <1>2, <2>4, <4>4
        <5> QED
          BY <4>1, <4>4, <4>5, <4>6, <5>1
      <4>8. s = t
        BY <4>5, <4>6, <4>7, SeqEqual
      <4> QED
        BY <4>8 DEF s, t
    <3>4. wtd_frame_decode(b) =
             [st |-> OK, consumed |-> 1 + k + n, flag |-> b[1],
              payload |-> SubSeq(b, 2 + k, 1 + k + n)]
      BY <1>4, <1>7, <2>1, <2>10, <3>1, DecodeCases, Zenon DEF k, n
    <3>5. wtd_frame_decode(c) =
             [st |-> OK, consumed |-> 1 + k + n, flag |-> c[1],
              payload |-> SubSeq(c, 2 + k, 1 + k + n)]
      BY <1>1, <1>5, <1>7, <2>2, <2>3, <2>8, <2>10, <3>2, DecodeCases, Zenon
    <3> QED
      BY <1>5, <3>3, <3>4, <3>5 DEF c
  <2> QED
    BY <2>9, <2>10
<1> QED
  BY <1>6, <1>7

\* A frame that may be sent: a known flag, a payload within the cap, its length
\* in a form that holds it.
IsFrame(flag, payload, k) ==
    /\ flag \in {RELIABLE, UNRELIABLE}
    /\ payload \in Seq(Byte)
    /\ Len(payload) <= MaxPayload
    /\ k \in {1, 2, 4, 8}
    /\ Len(payload) < Limit(k)

\* The bytes of a frame, one by one.
LEMMA FrameBytesAre ==
    ASSUME NEW flag, NEW payload, NEW k, IsFrame(flag, payload, k)
    PROVE  /\ FrameBytes(flag, payload, k) \in Seq(Byte)
           /\ Len(FrameBytes(flag, payload, k)) = 1 + k + Len(payload)
           /\ FrameBytes(flag, payload, k)[1] = flag
           /\ \A i \in 1 .. k :
                 FrameBytes(flag, payload, k)[i + 1] = VarintForm(Len(payload), k)[i]
           /\ \A i \in 1 .. Len(payload) :
                 FrameBytes(flag, payload, k)[i + (1 + k)] = payload[i]
<1> DEFINE n == Len(payload)
           f == VarintForm(n, k)
           h == << flag >>
           b == FrameBytes(flag, payload, k)
<1>0. n < Limit(k) /\ payload \in Seq(Byte)
  BY DEF IsFrame
<1>1. n \in Nat /\ k \in Nat /\ k > 0
  BY DEF IsFrame
<1>2. f \in Seq(Byte) /\ Len(f) = k
  BY <1>0, <1>1, FormBytes
<1>3. flag \in Byte
  BY ByteSize DEF IsFrame, Byte, RELIABLE, UNRELIABLE
<1>4. h \in Seq(Byte) /\ Len(h) = 1 /\ h[1] = flag
  BY <1>3
<1>5. b = (h \o f) \o payload
  BY DEF FrameBytes
<1> HIDE DEF n, f, h, b
<1>6. /\ h \o f \in Seq(Byte) /\ Len(h \o f) = 1 + k
      /\ \A i \in 1 .. 1 + k : (h \o f)[i] = IF i <= 1 THEN h[i] ELSE f[i - 1]
  <2>1. /\ h \o f \in Seq(Byte) /\ Len(h \o f) = Len(h) + Len(f)
        /\ \A i \in 1 .. Len(h) + Len(f) :
              (h \o f)[i] = IF i <= Len(h) THEN h[i] ELSE f[i - Len(h)]
    BY <1>2, <1>4, ConcatProperties
  <2> QED
    BY <1>2, <1>4, <2>1
<1>7. /\ b \in Seq(Byte) /\ Len(b) = (1 + k) + n
      /\ \A i \in 1 .. (1 + k) + n :
            b[i] = IF i <= 1 + k THEN (h \o f)[i] ELSE payload[i - (1 + k)]
  <2> DEFINE g == h \o f
  <2>1. g \in Seq(Byte) /\ Len(g) = 1 + k
    BY <1>6
  <2> HIDE DEF g
  <2>2. /\ g \o payload \in Seq(Byte) /\ Len(g \o payload) = Len(g) + Len(payload)
        /\ \A i \in 1 .. Len(g) + Len(payload) :
              (g \o payload)[i] = IF i <= Len(g) THEN g[i] ELSE payload[i - Len(g)]
    BY <1>0, <2>1, ConcatProperties
  <2>3. b = g \o payload
    BY <1>5 DEF g
  <2>4. /\ b \in Seq(Byte) /\ Len(b) = (1 + k) + n
        /\ \A i \in 1 .. (1 + k) + n : b[i] = IF i <= 1 + k THEN g[i] ELSE payload[i - (1 + k)]
    <3>1. n = Len(payload)
      BY DEF n
    <3> QED
      BY <2>1, <2>2, <2>3, <3>1, Zenon
  <2> QED
    BY <2>4 DEF g
<1>8. b[1] = flag
  <2>1. 1 \in 1 .. 1 + k /\ 1 \in 1 .. (1 + k) + n /\ 1 <= 1 + k /\ 1 <= 1
    BY <1>1
  <2>2. b[1] = (h \o f)[1]
    BY <1>7, <2>1, Zenon
  <2>3. (h \o f)[1] = h[1]
    BY <1>6, <2>1, Zenon
  <2> QED
    BY <1>4, <2>2, <2>3
<1>9. \A i \in 1 .. k : b[i + 1] = f[i]
  <2> SUFFICES ASSUME NEW i \in 1 .. k PROVE b[i + 1] = f[i]
    OBVIOUS
  <2>1. /\ i + 1 \in 1 .. 1 + k /\ i + 1 \in 1 .. (1 + k) + n
        /\ ~(i + 1 <= 1) /\ i + 1 <= 1 + k /\ (i + 1) - 1 = i
    BY <1>1
  <2>2. b[i + 1] = (h \o f)[i + 1]
    BY <1>7, <2>1
  <2>3. (h \o f)[i + 1] = f[(i + 1) - 1]
    BY <1>6, <2>1
  <2> QED
    BY <2>1, <2>2, <2>3
<1>10. \A i \in 1 .. n : b[i + (1 + k)] = payload[i]
  <2> SUFFICES ASSUME NEW i \in 1 .. n PROVE b[i + (1 + k)] = payload[i]
    OBVIOUS
  <2>1. /\ i + (1 + k) \in 1 .. (1 + k) + n /\ ~(i + (1 + k) <= 1 + k)
        /\ (i + (1 + k)) - (1 + k) = i
    BY <1>1
  <2>2. b[i + (1 + k)] = payload[(i + (1 + k)) - (1 + k)]
    BY <1>7, <2>1
  <2> QED
    BY <2>1, <2>2
<1>11. Len(b) = 1 + k + n
  BY <1>7
<1> QED
  BY <1>7, <1>8, <1>9, <1>10, <1>11 DEF b, n, f

\* Decoding undoes encoding, for every flag, payload and form.
LEMMA FrameDecodes ==
    ASSUME NEW flag, NEW payload, NEW k, IsFrame(flag, payload, k)
    PROVE  wtd_frame_decode(FrameBytes(flag, payload, k)) =
              [st |-> OK, consumed |-> 1 + k + Len(payload), flag |-> flag, payload |-> payload]
<1> DEFINE n == Len(payload)
           b == FrameBytes(flag, payload, k)
           t == Tail(b)
<1>1. /\ n \in Nat /\ n <= MaxPayload /\ k \in {1, 2, 4, 8} /\ k \in Nat /\ k > 0
      /\ n < Limit(k) /\ payload \in Seq(Byte) /\ flag \in {0, 1} /\ MaxPayload \in Nat
  BY CodecAssumption DEF IsFrame, RELIABLE, UNRELIABLE
<1>2. /\ b \in Seq(Byte) /\ Len(b) = 1 + k + n /\ b[1] = flag
      /\ \A i \in 1 .. k : b[i + 1] = VarintForm(n, k)[i]
      /\ \A i \in 1 .. n : b[i + (1 + k)] = payload[i]
  BY FrameBytesAre
<1> HIDE DEF b, n
<1>3. /\ t \in Seq(Byte) /\ Len(t) = k + n
      /\ \A i \in 1 .. k + n : t[i] = b[i + 1]
  <2>1. b # << >>
    BY <1>1, <1>2
  <2>2. /\ t \in Seq(Byte) /\ Len(t) = Len(b) - 1
        /\ \A i \in 1 .. Len(t) : t[i] = b[i + 1]
    BY <1>2, <2>1, HeadTailProperties
  <2>3. Len(t) = k + n
    BY <1>1, <1>2, <2>2
  <2> QED
    BY <2>2, <2>3
<1>4. \A i \in 1 .. k : t[i] = VarintForm(n, k)[i]
  <2>1. \A i \in 1 .. k : i \in 1 .. k + n
    BY <1>1
  <2> QED
    BY <1>2, <1>3, <2>1
<1> HIDE DEF t
<1>5. t[1] \div Q = Prefix(k) /\ BigEndian(t, k) = n
  BY <1>1, <1>4, FormValue
<1>6. b[2] = t[1]
  BY <1>1, <1>3
<1>7. HeadForm(b) = k
  BY <1>1, <1>5, <1>6 DEF HeadForm, FormLen, Prefix
<1>8. HeadLength(b) = n
  BY <1>5, <1>7 DEF HeadLength, t
<1>9. SubSeq(b, 2 + k, 1 + k + n) = payload
  <2> DEFINE s == SubSeq(b, 2 + k, 1 + k + n)
  <2>1. 2 + k \in Int /\ 1 + k + n \in Int /\ (1 + k + n) - (2 + k) + 1 = n
    BY <1>1
  <2>2. \A i \in 2 + k .. 1 + k + n : b[i] \in Byte
    BY <1>1, <1>2
  <2>3. /\ s \in Seq(Byte)
        /\ Len(s) = IF 2 + k <= 1 + k + n THEN (1 + k + n) - (2 + k) + 1 ELSE 0
        /\ \A i \in 1 .. (1 + k + n) - (2 + k) + 1 : s[i] = b[2 + k + i - 1]
    BY <2>1, <2>2, SubSeqProperties
  <2> HIDE DEF s
  <2>4. Len(s) = n
    BY <1>1, <2>1, <2>3
  <2>5. ASSUME NEW i \in 1 .. n PROVE s[i] = payload[i]
    <3>1. 2 + k + i - 1 = i + (1 + k)
      BY <1>1
    <3>2. s[i] = b[2 + k + i - 1]
      BY <2>1, <2>3
    <3>3. b[i + (1 + k)] = payload[i]
      BY <1>2
    <3> QED
      BY <3>1, <3>2, <3>3
  <2>6. s = payload
    BY <1>1, <2>3, <2>4, <2>5, SeqEqual DEF n
  <2> QED
    BY <2>6 DEF s
<1>10. /\ ~(Len(b) < 1) /\ ~(b[1] > 1) /\ ~(Len(b) < 1 + k) /\ ~(n > MaxPayload)
       /\ ~(Len(b) < 1 + k + n)
  BY <1>1, <1>2
<1> QED
  BY <1>2, <1>7, <1>8, <1>9, <1>10, DecodeCases, Zenon DEF b, n

\* A frame of which bytes are missing is not yet decided.
LEMMA PartIsIncomplete ==
    ASSUME NEW flag, NEW payload, NEW k, IsFrame(flag, payload, k),
           NEW c \in Seq(Byte), NEW r \in Seq(Byte),
           c \o r = FrameBytes(flag, payload, k), r # << >>
    PROVE  wtd_frame_decode(c).st = INCOMPLETE
<1> SUFFICES ASSUME wtd_frame_decode(c).st # INCOMPLETE PROVE FALSE
  OBVIOUS
<1> DEFINE d == wtd_frame_decode(c)
<1>1. d = [st |-> OK, consumed |-> 1 + k + Len(payload), flag |-> flag, payload |-> payload]
  <2>1. wtd_frame_decode(c \o r) = d
    BY VerdictIsFinal, Zenon
  <2>2. wtd_frame_decode(FrameBytes(flag, payload, k)) =
           [st |-> OK, consumed |-> 1 + k + Len(payload), flag |-> flag, payload |-> payload]
    BY FrameDecodes, Zenon
  <2> QED
    BY <2>1, <2>2, Zenon
<1>2. d.st = OK /\ d.consumed = 1 + k + Len(payload)
  BY <1>1
<1>3. d.consumed \in 2 .. Len(c)
  BY <1>2, DecodeBounds
<1>4. Len(c \o r) = 1 + k + Len(payload)
  BY FrameBytesAre
<1>5. Len(c) \in Nat /\ Len(r) \in Nat /\ Len(r) > 0 /\ Len(c \o r) = Len(c) + Len(r)
  OBVIOUS
<1> HIDE DEF d
<1> QED
  BY <1>2, <1>3, <1>4, <1>5

\* A buffer that begins with all bytes of a frame decodes to that frame.
LEMMA WholeFrame ==
    ASSUME NEW flag, NEW payload, NEW k, IsFrame(flag, payload, k),
           NEW c \in Seq(Byte), Len(c) >= 1 + k + Len(payload),
           \A j \in 1 .. 1 + k + Len(payload) : c[j] = FrameBytes(flag, payload, k)[j]
    PROVE  wtd_frame_decode(c) =
              [st |-> OK, consumed |-> 1 + k + Len(payload), flag |-> flag, payload |-> payload]
<1> DEFINE b == FrameBytes(flag, payload, k)
           m == 1 + k + Len(payload)
           r == SubSeq(c, m + 1, Len(c))
<1>1. b \in Seq(Byte) /\ Len(b) = m /\ m \in Nat
  BY FrameBytesAre DEF IsFrame
<1>2. wtd_frame_decode(b) = [st |-> OK, consumed |-> m, flag |-> flag, payload |-> payload]
  BY FrameDecodes, Zenon
<1>3. Len(c) \in Nat /\ m <= Len(c) /\ \A j \in 1 .. m : c[j] = b[j]
  OBVIOUS
<1> HIDE DEF b, m
<1>4. \A i \in m + 1 .. Len(c) : c[i] \in Byte
  BY <1>1, <1>3
<1>5. /\ r \in Seq(Byte)
      /\ Len(r) = IF m + 1 <= Len(c) THEN Len(c) - (m + 1) + 1 ELSE 0
      /\ \A i \in 1 .. Len(c) - (m + 1) + 1 : r[i] = c[m + 1 + i - 1]
  <2>1. m + 1 \in Int /\ Len(c) \in Int
    BY <1>1, <1>3
  <2> QED
    BY <1>4, <2>1, SubSeqProperties
<1> HIDE DEF r
<1>6. Len(r) = Len(c) - m
  BY <1>1, <1>3, <1>5
<1>7. c = b \o r
  <2>1. /\ b \o r \in Seq(Byte) /\ Len(b \o r) = Len(b) + Len(r)
        /\ \A i \in 1 .. Len(b) + Len(r) :
              (b \o r)[i] = IF i <= Len(b) THEN b[i] ELSE r[i - Len(b)]
    <3>1. b \in Seq(Byte)
      BY <1>1
    <3>2. r \in Seq(Byte)
      BY <1>5
    <3> QED
      BY <3>1, <3>2, ConcatProperties, Zenon
  <2>2. Len(b) + Len(r) = Len(c)
    BY <1>1, <1>3, <1>6
  <2>3. ASSUME NEW i \in 1 .. Len(c) PROVE c[i] = (b \o r)[i]
    <3>1. CASE i <= m
      <4>1. i \in 1 .. m /\ i \in 1 .. Len(b) + Len(r)
        BY <1>1, <1>3, <2>2, <3>1
      <4> QED
        BY <1>1, <1>3, <2>1, <3>1, <4>1
    <3>2. CASE ~(i <= m)
      <4>1. /\ i \in 1 .. Len(b) + Len(r)
            /\ i - m \in 1 .. Len(c) - (m + 1) + 1 /\ m + 1 + (i - m) - 1 = i
        BY <1>1, <1>3, <2>2, <3>2
      <4>2. r[i - m] = c[m + 1 + (i - m) - 1]
        BY <1>5, <4>1
      <4> QED
        BY <1>1, <2>1, <3>2, <4>1, <4>2
    <3> QED
      BY <3>1, <3>2
  <2>4. Len(c) = Len(b \o r)
    BY <2>1, <2>2
  <2> QED
    BY <2>1, <2>3, <2>4, SeqEqual
<1>8. wtd_frame_decode(b).st # INCOMPLETE
  BY <1>2 DEF OK, INCOMPLETE
<1>9. wtd_frame_decode(b \o r) = wtd_frame_decode(b)
  BY <1>1, <1>5, <1>8, VerdictIsFinal
<1> QED
  BY <1>2, <1>7, <1>9 DEF m

\* A buffer that ends before the frame does is incomplete.
LEMMA PartOfFrame ==
    ASSUME NEW flag, NEW payload, NEW k, IsFrame(flag, payload, k),
           NEW c \in Seq(Byte), Len(c) < 1 + k + Len(payload),
           \A j \in 1 .. Len(c) : c[j] = FrameBytes(flag, payload, k)[j]
    PROVE  wtd_frame_decode(c).st = INCOMPLETE
<1> DEFINE b == FrameBytes(flag, payload, k)
           m == Len(c)
           r == SubSeq(b, m + 1, Len(b))
<1>1. b \in Seq(Byte) /\ Len(b) = 1 + k + Len(payload) /\ Len(b) \in Nat
  BY FrameBytesAre DEF IsFrame
<1>2. m \in Nat /\ m < Len(b) /\ \A j \in 1 .. m : c[j] = b[j]
  BY <1>1
<1> HIDE DEF b
<1>3. SubSeq(b, 1, m) = c
  <2>1. 1 \in Int /\ m \in Int /\ \A i \in 1 .. m : b[i] \in Byte
    BY <1>1, <1>2
  <2>2. /\ SubSeq(b, 1, m) \in Seq(Byte)
        /\ Len(SubSeq(b, 1, m)) = IF 1 <= m THEN m - 1 + 1 ELSE 0
        /\ \A i \in 1 .. m - 1 + 1 : SubSeq(b, 1, m)[i] = b[1 + i - 1]
    BY <2>1, SubSeqProperties
  <2> DEFINE s == SubSeq(b, 1, m)
  <2> HIDE DEF s
  <2>3. s \in Seq(Byte) /\ Len(s) = m
    BY <1>2, <2>2 DEF s
  <2>4. ASSUME NEW i \in 1 .. m PROVE s[i] = c[i]
    <3>1. i \in 1 .. m - 1 + 1 /\ 1 + i - 1 = i
      BY <1>2
    <3> QED
      BY <1>2, <2>2, <3>1 DEF s
  <2>5. s = c
    BY <2>3, <2>4, SeqEqual
  <2> QED
    BY <2>5 DEF s
<1>4. r \in Seq(Byte) /\ r # << >>
  <2>1. m + 1 \in Int /\ Len(b) \in Int /\ \A i \in m + 1 .. Len(b) : b[i] \in Byte
    BY <1>1, <1>2
  <2>2. /\ r \in Seq(Byte)
        /\ Len(r) = IF m + 1 <= Len(b) THEN Len(b) - (m + 1) + 1 ELSE 0
    BY <2>1, SubSeqProperties
  <2> HIDE DEF r, m
  <2>3. Len(r) > 0
    BY <1>1, <1>2, <2>2
  <2>4. Len(<< >>) = 0
    OBVIOUS
  <2> QED
    BY <2>2, <2>3, <2>4
<1>5. c \o r = b
  <2> HIDE DEF m
  <2>1. 1 \in 1 .. Len(b) + 1 /\ m \in 1 - 1 .. Len(b) /\ Len(b) \in m .. Len(b)
    BY <1>1, <1>2
  <2>2. SubSeq(b, 1, m) \o SubSeq(b, m + 1, Len(b)) = SubSeq(b, 1, Len(b))
    BY <1>1, <2>1, ConcatAdjacentSubSeq
  <2>3. SubSeq(b, 1, Len(b)) = b
    BY <1>1, SubSeqFull
  <2> QED
    BY <1>3, <2>2, <2>3
<1> QED
  BY <1>4, <1>5, PartIsIncomplete DEF b

-----------------------------------------------------------------------------
(* What the decoder accepts. *)

\* Encoding undoes decoding: bytes with the prefix of their number are the form
\* of the number they stand for, which that form can hold.
LEMMA ValueForm ==
    ASSUME NEW k \in Nat, k > 0, NEW b, \A i \in 1 .. k : b[i] \in Byte,
           b[1] \div Q = Prefix(k)
    PROVE  /\ BigEndian(b, k) \in Nat
           /\ BigEndian(b, k) < Limit(k)
           /\ \A i \in 1 .. k : VarintForm(BigEndian(b, k), k)[i] = b[i]
<1> DEFINE W == 4 * Q
           v == BigEndian(b, k)
<1>1. Q \in Nat /\ Q > 0 /\ W \in Nat /\ W > 0 /\ Weight(1) = W
  BY ByteSize
<1>2. \A i \in 1 .. k : b[i] \in Nat /\ b[i] < W
  BY ByteSize
<1>3. PICK x : IsValues(x, b, k) /\ v = x[k]
  BY <1>2, ValueLoop
<1>4. x \in [0 .. k -> Nat] /\ x[0] = 0
  BY <1>3 DEF IsValues
<1>5. 1 \in 1 .. k /\ b[1] % Q \in 0 .. Q - 1
  <2>1. 1 \in 1 .. k
    OBVIOUS
  <2>2. b[1] \in Nat
    BY <1>2, <2>1
  <2> QED
    BY <1>1, <2>1, <2>2, DivMod
<1> HIDE DEF W, v
<1>6. x[1] = b[1] % Q
  <2>1. x[1] = x[1 - 1] * (4 * Q) + (b[1] % Q)
    BY <1>3, <1>5 DEF IsValues
  <2>2. 1 - 1 = 0
    OBVIOUS
  <2> QED
    BY <1>1, <1>4, <1>5, <2>1, <2>2
<1>7. ASSUME NEW i \in 2 .. k
      PROVE  x[i] \div W = x[i - 1] /\ x[i] % W = b[i]
  <2>1. i \in 1 .. k /\ i # 1 /\ i - 1 \in 0 .. k
    OBVIOUS
  <2>2. x[i] = x[i - 1] * W + b[i]
    BY <1>3, <2>1 DEF IsValues, W
  <2>3. x[i - 1] \in Nat /\ b[i] \in Nat /\ b[i] < W
    BY <1>2, <1>4, <2>1
  <2>4. PICK p, q : p = x[i - 1] /\ q = b[i]
    OBVIOUS
  <2>5. p \in Nat /\ q \in Nat /\ q < W /\ x[i] = p * W + q
    BY <2>2, <2>3, <2>4, Zenon
  <2>6. p * W = W * p
    BY <1>1, <2>5
  <2>7. (W * p + q) \div W = p /\ (W * p + q) % W = q
    <3>1. W \in Nat /\ p \in Nat /\ q \in Nat /\ q < W
      BY <1>1, <2>5
    <3> QED
      BY ONLY <3>1, DivIs
  <2> QED
    BY <2>4, <2>5, <2>6, <2>7, Zenon
<1> DEFINE P == {j \in 0 .. k - 1 : v \div Weight(j) = x[k - j]}
<1>8. v \in Nat
  BY <1>3, <1>4
<1>9. 0 \in P
  <2>1. v \div 1 = v
    BY <1>8
  <2>2. k - 0 = k /\ 0 \in 0 .. k - 1
    OBVIOUS
  <2> QED
    BY <1>3, <2>1, <2>2, WeightOf
<1>10. ASSUME NEW j \in 1 .. k - 1, j - 1 \in P PROVE j \in P
  <2>1. /\ j - 1 \in Nat /\ (j - 1) + 1 = j /\ k - (j - 1) \in 2 .. k
        /\ (k - (j - 1)) - 1 = k - j /\ j \in 0 .. k - 1
    OBVIOUS
  <2>2. v \div Weight(j - 1) = x[k - (j - 1)]
    BY <1>10
  <2>3. Weight(j) = Weight(j - 1) * W /\ Weight(j - 1) \in Nat /\ Weight(j - 1) > 0
    BY <2>1, WeightOf DEF W
  <2>4. v \div (Weight(j - 1) * W) = (v \div Weight(j - 1)) \div W
    BY <1>1, <1>8, <2>3, DivTwice
  <2>5. x[k - (j - 1)] \div W = x[k - j]
    BY <1>7, <2>1
  <2>6. v \div Weight(j) = x[k - j]
    BY <2>2, <2>3, <2>4, <2>5
  <2> QED
    BY <2>1, <2>6
<1>11. \A j \in 0 .. k - 1 : v \div Weight(j) = x[k - j]
  <2>1. k - 1 \in Nat
    OBVIOUS
  <2> HIDE DEF P
  <2>2. 0 .. k - 1 \subseteq P
    BY <1>9, <1>10, <2>1, UpTo
  <2> QED
    BY <2>2 DEF P
<1>12. v \div Weight(k - 1) = b[1] % Q
  <2>1. k - 1 \in 0 .. k - 1 /\ k - (k - 1) = 1
    OBVIOUS
  <2> QED
    BY <1>6, <1>11, <2>1
<1>13. v < Limit(k)
  <2> DEFINE a == Weight(k - 1)
  <2>1. a \in Nat /\ a > 0
    BY WeightOf
  <2> HIDE DEF a
  <2>2. PICK q \in Nat : \E r \in 0 .. a - 1 : q = v \div a /\ v = a * q + r
    BY <1>8, <2>1, DivMod
  <2>3. PICK r \in 0 .. a - 1 : q = v \div a /\ v = a * q + r
    BY <2>2
  <2>4. q + 1 \in Int /\ Q \in Int /\ q + 1 <= Q
    BY <1>1, <1>5, <1>12, <2>3 DEF a
  <2>5. a * (q + 1) <= a * Q
    BY <2>1, <2>4, TimesMonotonic
  <2>6. a * (q + 1) = a * q + a
    BY <2>1
  <2>7. a * Q = Q * a /\ a * Q \in Nat /\ a * q \in Nat
    BY <1>1, <2>1
  <2> DEFINE y == a * q
             z == a * Q
  <2> HIDE DEF y, z
  <2>8. v = y + r /\ y + a <= z /\ y \in Nat /\ z \in Nat /\ r \in Nat /\ r < a
    BY <2>1, <2>3, <2>5, <2>6, <2>7 DEF y, z
  <2>9. v < z
    BY <2>1, <2>8
  <2> QED
    BY <2>7, <2>9 DEF z, a, Limit
<1>14. ASSUME NEW i \in 1 .. k PROVE VarintForm(v, k)[i] = b[i]
  <2>1. CASE i = 1
    <3>1. VarintForm(v, k)[1] = ((v \div Weight(k - 1)) % W) + Prefix(k) * Q
      BY <1>1, <1>5 DEF VarintForm
    <3>2. (b[1] % Q) % W = b[1] % Q
      <4> DEFINE u == b[1] % Q
      <4>1. u \in Nat /\ u < W
        BY <1>1, <1>5 DEF W
      <4> HIDE DEF u
      <4>2. W * 0 + u = u
        BY <1>1, <4>1
      <4>3. (W * 0 + u) % W = u
        BY <1>1, <4>1, DivIs
      <4> QED
        BY <4>2, <4>3 DEF u
    <3>3. b[1] = Q * (b[1] \div Q) + (b[1] % Q) /\ b[1] \div Q \in Nat
      <4>1. b[1] \in Nat
        BY <1>2, <1>5
      <4> QED
        BY <1>1, <4>1, DivMod
    <3>4. Q * Prefix(k) = Prefix(k) * Q
      BY <1>1, <3>3
    <3>5. Q * Prefix(k) \in Nat
      BY <1>1, <3>3
    <3> QED
      BY <1>5, <1>12, <2>1, <3>1, <3>2, <3>3, <3>4, <3>5
  <2>2. CASE i # 1
    <3>1. i \in 2 .. k /\ k - i \in 0 .. k - 1 /\ k - (k - i) = i
      BY <2>2
    <3>2. VarintForm(v, k)[i] = ((v \div Weight(k - i)) % W) + 0
      BY <1>1, <2>2 DEF VarintForm
    <3>3. v \div Weight(k - i) = x[i]
      BY <1>11, <3>1
    <3>4. x[i] % W = b[i]
      BY <1>7, <3>1
    <3>5. b[i] \in Nat
      BY <1>2
    <3> QED
      BY <3>2, <3>3, <3>4, <3>5
  <2> QED
    BY <2>1, <2>2
<1> QED
  BY <1>8, <1>13, <1>14 DEF v

\* The first bytes of a sequence.
LEMMA FirstBytes ==
    ASSUME NEW S, NEW b \in Seq(S), NEW m \in 0 .. Len(b)
    PROVE  /\ SubSeq(b, 1, m) \in Seq(S)
           /\ Len(SubSeq(b, 1, m)) = m
           /\ \A i \in 1 .. m : SubSeq(b, 1, m)[i] = b[i]
<1>1. m \in Nat /\ Len(b) \in Nat /\ m <= Len(b) /\ 1 \in Int /\ m \in Int
  OBVIOUS
<1>2. \A i \in 1 .. m : b[i] \in S
  BY <1>1
<1>3. /\ SubSeq(b, 1, m) \in Seq(S)
      /\ Len(SubSeq(b, 1, m)) = IF 1 <= m THEN m - 1 + 1 ELSE 0
      /\ \A i \in 1 .. m - 1 + 1 : SubSeq(b, 1, m)[i] = b[1 + i - 1]
  BY <1>1, <1>2, SubSeqProperties
<1> DEFINE s == SubSeq(b, 1, m)
<1> HIDE DEF s
<1>4. s \in Seq(S) /\ Len(s) = m
  BY <1>1, <1>3 DEF s
<1>5. ASSUME NEW i \in 1 .. m PROVE s[i] = b[i]
  <2>1. i \in 1 .. m - 1 + 1 /\ 1 + i - 1 = i
    BY <1>1
  <2> QED
    BY <1>3, <2>1 DEF s
<1> QED
  BY <1>4, <1>5 DEF s

\* A prefix belongs to the form it selects.
LEMMA PrefixOfForm ==
    ASSUME NEW c \in Byte
    PROVE  Prefix(FormLen(c \div Q)) = c \div Q
<1>1. c \in Nat /\ c < 4 * Q /\ Q \in Nat /\ Q > 0
  BY ByteSize
<1>2. c \div Q \in Nat /\ c \div Q < 4
  BY <1>1, DivBelow
<1> DEFINE p == c \div Q
<1> HIDE DEF p
<1>3. p \in {0, 1, 2, 3}
  BY <1>2 DEF p
<1>4. Prefix(FormLen(p)) = p
  BY <1>3 DEF Prefix, FormLen
<1> QED
  BY <1>4 DEF p

\* What is decoded is a frame of the wire format, and its bytes are those that
\* were consumed.
LEMMA DecodedFrame ==
    ASSUME NEW b \in Seq(Byte), NEW d, d = wtd_frame_decode(b), d.st = OK
    PROVE  /\ IsFrame(d.flag, d.payload, HeadForm(b))
           /\ d.consumed = 1 + HeadForm(b) + Len(d.payload)
           /\ d.consumed \in 0 .. Len(b)
           /\ SubSeq(b, 1, d.consumed) = FrameBytes(d.flag, d.payload, HeadForm(b))
<1> DEFINE k == HeadForm(b)
           n == HeadLength(b)
           t == Tail(b)
<1>1. /\ d.consumed \in 2 .. Len(b) /\ d.consumed = 1 + k + n /\ n \in 0 .. MaxPayload
      /\ d.flag = b[1] /\ b[1] \in {RELIABLE, UNRELIABLE}
      /\ d.payload = SubSeq(b, 2 + k, 1 + k + n)
      /\ d.payload \in Seq(Byte) /\ Len(d.payload) = n
  BY DecodeBounds
<1>2. k \in {1, 2, 4, 8} /\ k \in Nat /\ k > 0 /\ Len(b) \in Nat /\ MaxPayload \in Nat
  BY HeadFormIs, CodecAssumption
<1>3. Len(b) >= 1 + k /\ 1 + k + n <= Len(b) /\ n \in Nat /\ n <= MaxPayload
  <2> HIDE DEF k, n
  <2> QED
    BY <1>1, <1>2
<1>4. \A i \in 1 .. k : t[i] \in Nat /\ t[i] = b[i + 1]
  BY <1>3, HeadLengthIs
<1> HIDE DEF k, n, t
<1>5. \A i \in 1 .. k : t[i] \in Byte
  <2>1. \A i \in 1 .. k : i + 1 \in 1 .. Len(b)
    BY <1>2, <1>3
  <2>2. \A i \in 1 .. k : b[i + 1] \in Byte
    BY <2>1, ElementOfSeq
  <2> QED
    BY <1>4, <2>2
<1>6. t[1] \div Q = Prefix(k)
  <2>1. 1 \in 1 .. k /\ 1 + 1 = 2
    BY <1>2
  <2>2. t[1] = b[2] /\ t[1] \in Byte
    BY <1>4, <1>5, <2>1
  <2> QED
    BY <2>2, PrefixOfForm DEF k, HeadForm
<1>7. n = BigEndian(t, k)
  BY DEF n, t, k, HeadLength
<1>8. n < Limit(k) /\ \A i \in 1 .. k : VarintForm(n, k)[i] = t[i]
  BY <1>2, <1>5, <1>6, <1>7, ValueForm
<1>9. PICK flag, p : flag = d.flag /\ p = d.payload
  OBVIOUS
<1>f. IsFrame(flag, p, k)
  BY <1>1, <1>2, <1>3, <1>8, <1>9 DEF IsFrame
<1> DEFINE f == FrameBytes(flag, p, k)
           s == SubSeq(b, 1, d.consumed)
<1>10. /\ f \in Seq(Byte) /\ Len(f) = 1 + k + n /\ f[1] = b[1]
       /\ \A i \in 1 .. k : f[i + 1] = VarintForm(n, k)[i]
       /\ \A i \in 1 .. n : f[i + (1 + k)] = p[i]
  <2>1. /\ f \in Seq(Byte) /\ Len(f) = 1 + k + Len(p) /\ f[1] = flag
        /\ \A i \in 1 .. k : f[i + 1] = VarintForm(Len(p), k)[i]
        /\ \A i \in 1 .. Len(p) : f[i + (1 + k)] = p[i]
    BY <1>f, FrameBytesAre
  <2> HIDE DEF f
  <2> QED
    BY <1>1, <1>9, <2>1, Zenon
<1>11. d.consumed \in 0 .. Len(b)
  BY <1>1, <1>2
<1>12. /\ s \in Seq(Byte) /\ Len(s) = 1 + k + n
       /\ \A i \in 1 .. 1 + k + n : s[i] = b[i]
  BY <1>1, <1>11, FirstBytes
<1>13. \A i \in 1 .. n : p[i] = b[i + (1 + k)]
  <2>1. 2 + k \in Int /\ 1 + k + n \in Int /\ (1 + k + n) - (2 + k) + 1 = n
    BY <1>2, <1>3
  <2>2. \A i \in 2 + k .. 1 + k + n : b[i] \in Byte
    BY <1>2, <1>3
  <2>3. \A i \in 1 .. (1 + k + n) - (2 + k) + 1 : p[i] = b[2 + k + i - 1]
    BY <1>1, <1>9, <2>1, <2>2, SubSeqProperties
  <2>4. \A i \in 1 .. n : 2 + k + i - 1 = i + (1 + k)
    BY <1>2, <1>3
  <2> QED
    BY <2>1, <2>3, <2>4
<1> HIDE DEF f, s
<1>14. ASSUME NEW i \in 1 .. 1 + k + n PROVE s[i] = f[i]
  <2>1. CASE i = 1
    BY <1>10, <1>12, <2>1
  <2>2. CASE i \in 2 .. 1 + k
    <3>1. PICK j \in 1 .. k : i = j + 1
      <4>1. i - 1 \in 1 .. k /\ i = (i - 1) + 1
        BY <1>2, <2>2
      <4> QED
        BY <4>1
    <3>2. f[j + 1] = t[j] /\ t[j] = b[j + 1]
      BY <1>4, <1>8, <1>10
    <3> QED
      BY <1>12, <3>1, <3>2
  <2>3. CASE i > 1 + k
    <3>1. PICK j \in 1 .. n : i = j + (1 + k)
      <4>1. i - (1 + k) \in 1 .. n /\ i = (i - (1 + k)) + (1 + k)
        BY <1>2, <1>3, <2>3
      <4> QED
        BY <4>1
    <3>2. f[j + (1 + k)] = p[j] /\ p[j] = b[j + (1 + k)]
      BY <1>10, <1>13
    <3> QED
      BY <1>12, <3>1, <3>2
  <2> QED
    BY <1>2, <1>3, <2>1, <2>2, <2>3
<1>15. s = f
  BY <1>10, <1>12, <1>14, SeqEqual
<1> QED
  BY <1>1, <1>9, <1>f, <1>11, <1>15 DEF s, f, k

\* The encoder picks a form that holds the length, and no longer one than
\* another encoder did.
LEMMA ShortestForm ==
    ASSUME NEW v \in Nat, NEW k \in {1, 2, 4, 8}, v < Limit(k)
    PROVE  /\ varint_size(v) \in {1, 2, 4, 8}
           /\ varint_size(v) <= k
           /\ v < Limit(varint_size(v))
           /\ wtd_frame_encode_varint(v) = VarintForm(v, varint_size(v))
<1> DEFINE s == varint_size(v)
<1>1. s \in {1, 2, 4, 8} /\ s <= k /\ v < Limit(s)
  BY DEF varint_size
<1>2. Limit(8) \in Nat
  <2>1. Weight(8 - 1) \in Nat
    BY WeightOf
  <2> QED
    BY <2>1, ByteSize DEF Limit
<1>3. ~(s = 8 /\ v >= Limit(8))
  BY <1>1, <1>2
<1> HIDE DEF s
<1>4. wtd_frame_encode_varint(v) = VarintForm(v, s)
  BY <1>3, Zenon DEF wtd_frame_encode_varint, s
<1> QED
  BY <1>1, <1>4 DEF s

\* The encoder writes a frame whenever another encoder could, given nine bytes
\* more than the payload, and in no more bytes.
LEMMA EncodesFrame ==
    ASSUME NEW flag, NEW payload, NEW k, IsFrame(flag, payload, k)
    PROVE  /\ wtd_frame_encode(flag, payload, Len(payload) + 9) =
                 [st |-> OK, bytes |-> FrameBytes(flag, payload, varint_size(Len(payload)))]
           /\ IsFrame(flag, payload, varint_size(Len(payload)))
           /\ varint_size(Len(payload)) <= k
<1> DEFINE n == Len(payload)
           s == varint_size(n)
<1>1. /\ n \in Nat /\ n <= MaxPayload /\ k \in {1, 2, 4, 8} /\ n < Limit(k)
      /\ flag \in {0, 1} /\ MaxPayload \in Nat
  BY CodecAssumption DEF IsFrame, RELIABLE, UNRELIABLE
<1>2. /\ s \in {1, 2, 4, 8} /\ s <= k /\ n < Limit(s)
      /\ wtd_frame_encode_varint(n) = VarintForm(n, s)
  BY <1>1, ShortestForm
<1> HIDE DEF n, s
<1>3. ~(flag > 1) /\ ~(n > MaxPayload) /\ ~(n + 9 < 1 + s + n)
  BY <1>1, <1>2
<1>4. wtd_frame_encode(flag, payload, n + 9) =
         [st |-> OK, bytes |-> << flag >> \o wtd_frame_encode_varint(n) \o payload]
  BY <1>3, Zenon DEF wtd_frame_encode, n, s
<1>5. << flag >> \o wtd_frame_encode_varint(n) \o payload = FrameBytes(flag, payload, s)
  BY <1>2 DEF FrameBytes, n
<1> QED
  BY <1>2, <1>4, <1>5 DEF IsFrame, n, s
=============================================================================

------------------------- MODULE SeppEncodingProofs -------------------------
(***************************************************************************)
(* base64url_encode and base64url_decode (sepp_JOSE.cpp) for texts of      *)
(* every length and content: the first gives the base64url of RFC 4648,    *)
(* and the second gives the text back.                                     *)
(*                                                                         *)
(* A text of n bytes has Groups(n, 3) groups of 24 bits, and Digits(n) of  *)
(* its characters are not "=".                                             *)
(***************************************************************************)
EXTENDS SeppData, FiniteSetTheorems, TLAPS

Digits(n) == (8 * n + 5) \div 6
-----------------------------------------------------------------------------
(***************************************************************************)
(* Lengths.                                                                *)
(***************************************************************************)

\* The characters that are not "=" fill the groups but for at most two of the
\* last one, and give the number of bytes back.
LEMMA Lengths ==
  ASSUME NEW n \in Nat
  PROVE  /\ Groups(n, 3) \in Nat /\ Digits(n) \in Nat
         /\ Digits(n) <= 4 * Groups(n, 3)
         /\ Groups(Digits(n), 4) = Groups(n, 3)
         /\ Digits(n) - Groups(n, 3) = n
         /\ n <= 3 * Groups(n, 3)
<1>1. Groups(n, 3) \in Nat /\ Digits(n) \in Nat
  BY DEF Groups, Digits
<1>2. Digits(n) <= 4 * Groups(n, 3)
  BY DEF Groups, Digits
<1>3. Groups(Digits(n), 4) = Groups(n, 3)
  BY DEF Groups, Digits
<1>4. Digits(n) - Groups(n, 3) = n
  BY DEF Groups, Digits
<1>5. n <= 3 * Groups(n, 3)
  BY DEF Groups
<1> QED BY <1>1, <1>2, <1>3, <1>4, <1>5

\* The characters that have bits of the text.
LEMMA DigitHasBits ==
  ASSUME NEW n \in Nat, NEW k \in Nat
  PROVE  6 * (k - 1) < 8 * n <=> k <= Digits(n)
BY DEF Digits

\* Four in a group, counted from 1.
LEMMA InGroupOfFour ==
  ASSUME NEW k \in Nat \ {0}
  PROVE  \E g \in Nat, r \in {0, 1, 2, 3} :
           /\ k = 4 * g + r + 1
           /\ (k - 1) \div 4 = g /\ (k - 1) % 4 = r
<1> DEFINE g == (k - 1) \div 4
           r == (k - 1) % 4
<1>1. g \in Nat /\ r \in {0, 1, 2, 3} /\ k = 4 * g + r + 1
  OBVIOUS
<1> QED BY <1>1

\* Three in a group, counted from 1.
LEMMA InGroupOfThree ==
  ASSUME NEW k \in Nat \ {0}
  PROVE  \E g \in Nat, r \in {0, 1, 2} :
           /\ k = 3 * g + r + 1
           /\ (k - 1) \div 3 = g /\ (k - 1) % 3 = r
<1> DEFINE g == (k - 1) \div 3
           r == (k - 1) % 3
<1>1. g \in Nat /\ r \in {0, 1, 2} /\ k = 3 * g + r + 1
  OBVIOUS
<1> QED BY <1>1
-----------------------------------------------------------------------------
(***************************************************************************)
(* The 24 bits of a group.                                                 *)
(***************************************************************************)

\* The bytes of a group, 0 behind the end of the text.
LEMMA ByteAt ==
  ASSUME NEW b \in Seq(Byte), NEW i \in Nat \ {0}
  PROVE  /\ At(b, i) \in Byte
         /\ i <= Len(b) => At(b, i) = b[i]
         /\ i > Len(b) => At(b, i) = 0
BY DEF At, Byte

\* A group whose bytes are put together from six numbers, each of which is
\* part of one byte and of one character.
Whole(a, c, d, e, f, h) ==
  a * 262144 + (c * 16 + d) * 4096 + (e * 4 + f) * 64 + h

\* The characters and the bytes that are read off it.
ReadsOff(v, a, c, d, e, f, h) ==
  /\ (v \div 262144) % 64 = a
  /\ (v \div 4096) % 64 = c * 16 + d
  /\ (v \div 64) % 64 = e * 4 + f
  /\ (v \div 1) % 64 = h
  /\ (v \div 65536) % 256 = 4 * a + c
  /\ (v \div 256) % 256 = 16 * d + e
  /\ (v \div 1) % 256 = 64 * f + h

LEMMA Group ==
  ASSUME NEW a \in 0 .. 63, NEW c \in 0 .. 3, NEW d \in 0 .. 15,
         NEW e \in 0 .. 15, NEW f \in 0 .. 3, NEW h \in 0 .. 63
  PROVE  ReadsOff(Whole(a, c, d, e, f, h), a, c, d, e, f, h)
<1> DEFINE v == Whole(a, c, d, e, f, h)
<1>0. v = a * 262144 + (c * 16 + d) * 4096 + (e * 4 + f) * 64 + h
  BY DEF Whole
<1> HIDE DEF v
<1>1. v \div 262144 = a
  BY <1>0
<1>2. v \div 4096 = 64 * a + (c * 16 + d)
  BY <1>0
<1>3. v \div 64 = 64 * (64 * a + (c * 16 + d)) + (e * 4 + f)
  BY <1>0
<1>4. v \div 65536 = 4 * a + c
  BY <1>0
<1>5. v \div 256 = 256 * (4 * a + c) + (16 * d + e)
  BY <1>0
<1>6. v \div 1 = v
  BY <1>0
<1>7. a % 64 = a
  OBVIOUS
<1>8. (64 * a + (c * 16 + d)) % 64 = c * 16 + d
  OBVIOUS
<1>9. (64 * (64 * a + (c * 16 + d)) + (e * 4 + f)) % 64 = e * 4 + f
  OBVIOUS
<1>10. v % 64 = h
  BY <1>0
<1>11. (4 * a + c) % 256 = 4 * a + c
  OBVIOUS
<1>12. (256 * (4 * a + c) + (16 * d + e)) % 256 = 16 * d + e
  OBVIOUS
<1>13. v % 256 = 64 * f + h
  BY <1>0
<1>14. /\ (v \div 262144) % 64 = a
       /\ (v \div 4096) % 64 = c * 16 + d
       /\ (v \div 64) % 64 = e * 4 + f
       /\ (v \div 1) % 64 = h
       /\ (v \div 65536) % 256 = 4 * a + c
       /\ (v \div 256) % 256 = 16 * d + e
       /\ (v \div 1) % 256 = 64 * f + h
  BY ONLY <1>1, <1>2, <1>3, <1>4, <1>5, <1>6, <1>7, <1>8, <1>9, <1>10,
          <1>11, <1>12, <1>13
<1> QED BY ONLY <1>14 DEF v, ReadsOff

\* The six numbers of three bytes.
LEMMA Parts ==
  ASSUME NEW x \in Byte, NEW y \in Byte, NEW z \in Byte
  PROVE  /\ x \div 4 \in 0 .. 63 /\ x % 4 \in 0 .. 3
         /\ y \div 16 \in 0 .. 15 /\ y % 16 \in 0 .. 15
         /\ z \div 64 \in 0 .. 3 /\ z % 64 \in 0 .. 63
         /\ x = 4 * (x \div 4) + (x % 4)
         /\ y = 16 * (y \div 16) + (y % 16)
         /\ z = 64 * (z \div 64) + (z % 64)
<1>1. x \in 0 .. 255 /\ y \in 0 .. 255 /\ z \in 0 .. 255
  BY DEF Byte
<1>2. /\ x \div 4 \in 0 .. 63 /\ x % 4 \in 0 .. 3
      /\ x = 4 * (x \div 4) + (x % 4)
  BY <1>1
<1>3. /\ y \div 16 \in 0 .. 15 /\ y % 16 \in 0 .. 15
      /\ y = 16 * (y \div 16) + (y % 16)
  BY <1>1
<1>4. /\ z \div 64 \in 0 .. 3 /\ z % 64 \in 0 .. 63
      /\ z = 64 * (z \div 64) + (z % 64)
  BY <1>1
<1> QED BY ONLY <1>2, <1>3, <1>4

\* What is written of three bytes.
FourOf(x, y, z) ==
  <<x \div 4, (x % 4) * 16 + (y \div 16), (y % 16) * 4 + (z \div 64), z % 64>>

\* The bits of three bytes.
Joined(x, y, z) == x * 65536 + y * 256 + z

\* Character i read off the bits v of the three bytes, one of the 64.
WritesDigit(v, x, y, z, i) ==
  /\ (v \div CharWeight[i]) % 64 = FourOf(x, y, z)[i]
  /\ FourOf(x, y, z)[i] \in 0 .. 63

\* The digits of three bytes.
LEMMA DigitsOfBytes ==
  ASSUME NEW x \in Byte, NEW y \in Byte, NEW z \in Byte, NEW i \in 1 .. 4
  PROVE  WritesDigit(Joined(x, y, z), x, y, z, i)
<1> DEFINE v == Joined(x, y, z)
<1> DEFINE a == x \div 4
           c == x % 4
           d == y \div 16
           e == y % 16
           f == z \div 64
           h == z % 64
<1>1. /\ a \in 0 .. 63 /\ c \in 0 .. 3 /\ d \in 0 .. 15
      /\ e \in 0 .. 15 /\ f \in 0 .. 3 /\ h \in 0 .. 63
      /\ x = 4 * a + c /\ y = 16 * d + e /\ z = 64 * f + h
  BY ONLY Parts, x \in Byte, y \in Byte, z \in Byte
<1>2. FourOf(x, y, z) = <<a, c * 16 + d, e * 4 + f, h>>
  BY DEF FourOf
<1>3. v = x * 65536 + y * 256 + z
  BY DEF Joined
<1> HIDE DEF a, c, d, e, f, h, v
<1>4. v = Whole(a, c, d, e, f, h)
  BY ONLY <1>1, <1>3 DEF Whole
<1>5. /\ (v \div 262144) % 64 = a
      /\ (v \div 4096) % 64 = c * 16 + d
      /\ (v \div 64) % 64 = e * 4 + f
      /\ (v \div 1) % 64 = h
  <2>1. ReadsOff(v, a, c, d, e, f, h)
    <3>1. /\ a \in 0 .. 63 /\ c \in 0 .. 3 /\ d \in 0 .. 15
          /\ e \in 0 .. 15 /\ f \in 0 .. 3 /\ h \in 0 .. 63
      BY ONLY <1>1
    <3> QED BY ONLY <1>4, <3>1, Group, Zenon
  <2> QED BY ONLY <2>1 DEF ReadsOff
<1>6. CharWeight = <<262144, 4096, 64, 1>>
  BY DEF CharWeight
<1>7. c * 16 + d \in 0 .. 63 /\ e * 4 + f \in 0 .. 63
  BY ONLY <1>1
<1>8. /\ (v \div CharWeight[i]) % 64 = FourOf(x, y, z)[i]
      /\ FourOf(x, y, z)[i] \in 0 .. 63
  <2>1. i = 1 \/ i = 2 \/ i = 3 \/ i = 4
    OBVIOUS
  <2>2. CASE i = 1
    BY ONLY <1>1, <1>2, <1>5, <1>6, <2>2
  <2>3. CASE i = 2
    BY ONLY <1>2, <1>5, <1>6, <1>7, <2>3
  <2>4. CASE i = 3
    BY ONLY <1>2, <1>5, <1>6, <1>7, <2>4
  <2>5. CASE i = 4
    BY ONLY <1>1, <1>2, <1>5, <1>6, <2>5
  <2> QED BY ONLY <2>1, <2>2, <2>3, <2>4, <2>5
<1>9. WritesDigit(v, x, y, z, i)
  BY ONLY <1>8 DEF WritesDigit
<1> QED BY ONLY <1>9 DEF v

\* The bits of four digits, and the bytes read off bits v.
FromDigits(q) == q[1] * 262144 + q[2] * 4096 + q[3] * 64 + q[4]
ReadsBytes(v, x, y, z) ==
  /\ (v \div ByteWeight[1]) % 256 = x
  /\ (v \div ByteWeight[2]) % 256 = y
  /\ (v \div ByteWeight[3]) % 256 = z

\* The digits of three bytes give them back.
LEMMA BytesOfDigits ==
  ASSUME NEW x \in Byte, NEW y \in Byte, NEW z \in Byte
  PROVE  ReadsBytes(FromDigits(FourOf(x, y, z)), x, y, z)
<1> DEFINE v == FromDigits(FourOf(x, y, z))
<1> DEFINE a == x \div 4
           c == x % 4
           d == y \div 16
           e == y % 16
           f == z \div 64
           h == z % 64
<1>1. /\ a \in 0 .. 63 /\ c \in 0 .. 3 /\ d \in 0 .. 15
      /\ e \in 0 .. 15 /\ f \in 0 .. 3 /\ h \in 0 .. 63
      /\ x = 4 * a + c /\ y = 16 * d + e /\ z = 64 * f + h
  BY ONLY Parts, x \in Byte, y \in Byte, z \in Byte
<1>2. FourOf(x, y, z) = <<a, c * 16 + d, e * 4 + f, h>>
  BY DEF FourOf
<1> HIDE DEF a, c, d, e, f, h
<1>3. v = Whole(a, c, d, e, f, h)
  BY <1>2 DEF Whole, FromDigits
<1> HIDE DEF v
<1>4. /\ (v \div 65536) % 256 = 4 * a + c
      /\ (v \div 256) % 256 = 16 * d + e
      /\ (v \div 1) % 256 = 64 * f + h
  <2>1. ReadsOff(v, a, c, d, e, f, h)
    <3>1. /\ a \in 0 .. 63 /\ c \in 0 .. 3 /\ d \in 0 .. 15
          /\ e \in 0 .. 15 /\ f \in 0 .. 3 /\ h \in 0 .. 63
      BY ONLY <1>1
    <3> QED BY ONLY <1>3, <3>1, Group, Zenon
  <2> QED BY ONLY <2>1 DEF ReadsOff
<1>5. ByteWeight = <<65536, 256, 1>>
  BY DEF ByteWeight
<1>6. ReadsBytes(v, x, y, z)
  BY ONLY <1>1, <1>4, <1>5 DEF ReadsBytes
<1> QED BY ONLY <1>6 DEF v

\* The eight bits of a byte, and its parts put together from them.
Bits(x) == [i \in 1 .. 8 |-> (x \div BitWeight[i]) % 2]
SumOfBits(x, w) ==
  /\ x \div 4 = 32 * w[1] + 16 * w[2] + 8 * w[3] + 4 * w[4] + 2 * w[5] + w[6]
  /\ x % 4 = 2 * w[7] + w[8]
  /\ x \div 16 = 8 * w[1] + 4 * w[2] + 2 * w[3] + w[4]
  /\ x % 16 = 8 * w[5] + 4 * w[6] + 2 * w[7] + w[8]
  /\ x \div 64 = 2 * w[1] + w[2]
  /\ x % 64 = 32 * w[3] + 16 * w[4] + 8 * w[5] + 4 * w[6] + 2 * w[7] + w[8]
  /\ \A i \in 1 .. 8 : w[i] \in Int

\* They are the parts of the byte.
LEMMA BitsOfByte ==
  ASSUME NEW x \in Byte
  PROVE  SumOfBits(x, Bits(x))
<1> DEFINE w == Bits(x)
<1>1. x \in 0 .. 255
  BY DEF Byte
<1>2. BitWeight = <<128, 64, 32, 16, 8, 4, 2, 1>>
  BY DEF BitWeight
<1>3. /\ w[1] = (x \div 128) % 2 /\ w[2] = (x \div 64) % 2
      /\ w[3] = (x \div 32) % 2 /\ w[4] = (x \div 16) % 2
      /\ w[5] = (x \div 8) % 2 /\ w[6] = (x \div 4) % 2
      /\ w[7] = (x \div 2) % 2 /\ w[8] = (x \div 1) % 2
  BY <1>2 DEF Bits
<1> HIDE DEF w
<1>4. w[1] = x \div 128
  BY ONLY <1>1, <1>3
<1>5. x \div 64 = 2 * (x \div 128) + w[2]
  BY ONLY <1>1, <1>3
<1>6. x \div 32 = 2 * (x \div 64) + w[3]
  BY ONLY <1>1, <1>3
<1>7. x \div 16 = 2 * (x \div 32) + w[4]
  BY ONLY <1>1, <1>3
<1>8. x \div 8 = 2 * (x \div 16) + w[5]
  BY ONLY <1>1, <1>3
<1>9. x \div 4 = 2 * (x \div 8) + w[6]
  BY ONLY <1>1, <1>3
<1>10. x \div 2 = 2 * (x \div 4) + w[7]
  BY ONLY <1>1, <1>3
<1>11. x = 2 * (x \div 2) + w[8]
  BY ONLY <1>1, <1>3
<1>12. /\ w[2] \in Int /\ w[3] \in Int /\ w[4] \in Int /\ w[5] \in Int
       /\ w[6] \in Int /\ w[7] \in Int /\ w[8] \in Int
       /\ x \div 128 \in Int
  BY ONLY <1>1, <1>3
<1>13. /\ x % 4 = x - 4 * (x \div 4)
       /\ x % 16 = x - 16 * (x \div 16)
       /\ x % 64 = x - 64 * (x \div 64)
  BY ONLY <1>1
<1>14. /\ x \in Int
       /\ x \div 64 \in Int /\ x \div 16 \in Int /\ x \div 4 \in Int
       /\ x % 4 \in Int /\ x % 16 \in Int /\ x % 64 \in Int
  BY ONLY <1>1
<1> DEFINE q128 == x \div 128
           q64 == x \div 64
           q32 == x \div 32
           q16 == x \div 16
           q8 == x \div 8
           q4 == x \div 4
           q2 == x \div 2
           r4 == x % 4
           r16 == x % 16
           r64 == x % 64
           b2 == w[2]
           b3 == w[3]
           b4 == w[4]
           b5 == w[5]
           b6 == w[6]
           b7 == w[7]
           b8 == w[8]
<1>15. /\ q64 = 2 * q128 + b2 /\ q32 = 2 * q64 + b3
       /\ q16 = 2 * q32 + b4 /\ q8 = 2 * q16 + b5
       /\ q4 = 2 * q8 + b6 /\ q2 = 2 * q4 + b7 /\ x = 2 * q2 + b8
       /\ r4 = x - 4 * q4 /\ r16 = x - 16 * q16 /\ r64 = x - 64 * q64
  BY ONLY <1>4, <1>5, <1>6, <1>7, <1>8, <1>9, <1>10, <1>11, <1>13
<1>16. /\ x \in Int /\ q128 \in Int
       /\ b2 \in Int /\ b3 \in Int /\ b4 \in Int /\ b5 \in Int
       /\ b6 \in Int /\ b7 \in Int /\ b8 \in Int
  BY ONLY <1>12, <1>14
<1> HIDE DEF b2, b3, b4, b5, b6, b7, b8,
             q128, q64, q32, q16, q8, q4, q2, r4, r16, r64
<1>17. /\ q4 = 32 * q128 + 16 * b2 + 8 * b3 + 4 * b4 + 2 * b5 + b6
       /\ r4 = 2 * b7 + b8
       /\ q16 = 8 * q128 + 4 * b2 + 2 * b3 + b4
       /\ r16 = 8 * b5 + 4 * b6 + 2 * b7 + b8
       /\ q64 = 2 * q128 + b2
       /\ r64 = 32 * b3 + 16 * b4 + 8 * b5 + 4 * b6 + 2 * b7 + b8
  BY ONLY <1>15, <1>16
<1>18. w[1] = q128
  BY <1>4 DEF q128
<1>19. \A i \in 1 .. 8 : w[i] \in Int
  BY ONLY <1>4, <1>12
<1>20. SumOfBits(x, w)
  BY ONLY <1>17, <1>18, <1>19
     DEF SumOfBits, q4, r4, q16, r16, q64, r64, b2, b3, b4, b5, b6, b7, b8
<1> QED BY ONLY <1>20 DEF w

-----------------------------------------------------------------------------
(***************************************************************************)
(* The characters of a text.                                               *)
(***************************************************************************)

\* What is written of group g of a text.
FourAt(b, g) == FourOf(At(b, 3 * g + 1), At(b, 3 * g + 2), At(b, 3 * g + 3))

\* Each character of it is one of the 64.
LEMMA CharAt ==
  ASSUME NEW b \in Seq(Byte), NEW g \in Nat, NEW i \in 1 .. 4
  PROVE  /\ (OfBytes(b, g) \div CharWeight[i]) % 64 = FourAt(b, g)[i]
         /\ FourAt(b, g)[i] \in 0 .. 63
<1> DEFINE x == At(b, 3 * g + 1)
           y == At(b, 3 * g + 2)
           z == At(b, 3 * g + 3)
<1>1. 3 * g + 1 \in Nat \ {0} /\ 3 * g + 2 \in Nat \ {0}
      /\ 3 * g + 3 \in Nat \ {0}
  OBVIOUS
<1>2. x \in Byte /\ y \in Byte /\ z \in Byte
  BY ONLY <1>1, b \in Seq(Byte), ByteAt
<1>3. OfBytes(b, g) = Joined(x, y, z)
  BY ONLY DEF OfBytes, Joined
<1>4. FourAt(b, g) = FourOf(x, y, z)
  BY ONLY DEF FourAt
<1> HIDE DEF x, y, z
<1>5. WritesDigit(Joined(x, y, z), x, y, z, i)
  BY ONLY <1>2, i \in 1 .. 4, DigitsOfBytes, Zenon
<1> QED BY ONLY <1>3, <1>4, <1>5 DEF WritesDigit

\* Behind the bits of the text there are zeros.
LEMMA ZerosBehind ==
  ASSUME NEW b \in Seq(Byte), NEW g \in Nat, NEW i \in 1 .. 4,
         g < Groups(Len(b), 3), Digits(Len(b)) < 4 * g + i
  PROVE  FourAt(b, g)[i] = 0
<1> DEFINE n == Len(b)
           x == At(b, 3 * g + 1)
           y == At(b, 3 * g + 2)
           z == At(b, 3 * g + 3)
<1>1. n \in Nat
  OBVIOUS
<1>2. n >= 3 * g + 1
  BY <1>1 DEF Groups
<1>3. 8 * n <= 6 * (4 * g + i - 1)
  BY <1>1 DEF Digits
<1>4. y \in Byte /\ z \in Byte
  <2>1. 3 * g + 2 \in Nat \ {0} /\ 3 * g + 3 \in Nat \ {0}
    OBVIOUS
  <2> QED BY ONLY <2>1, b \in Seq(Byte), ByteAt
<1>5. FourAt(b, g) =
        <<x \div 4, (x % 4) * 16 + (y \div 16), (y % 16) * 4 + (z \div 64),
          z % 64>>
  BY ONLY DEF FourAt, FourOf
<1>6. i = 3 \/ i = 4
  BY ONLY <1>1, <1>2, <1>3, g \in Nat, i \in 1 .. 4
<1>7. CASE i = 3
  <2>1. n < 3 * g + 2
    BY ONLY <1>1, <1>3, <1>7, g \in Nat
  <2>2. y = 0 /\ z = 0
    BY <2>1 DEF At
  <2>3. (0 % 16) * 4 + (0 \div 64) = 0
    OBVIOUS
  <2> QED BY ONLY <1>5, <1>7, <2>2, <2>3
<1>8. CASE i = 4
  <2>1. n < 3 * g + 3
    BY ONLY <1>1, <1>3, <1>8, g \in Nat
  <2>2. z = 0
    BY <2>1 DEF At
  <2>3. 0 % 64 = 0
    OBVIOUS
  <2> QED BY ONLY <1>5, <1>8, <2>2, <2>3
<1> QED BY ONLY <1>6, <1>7, <1>8

\* BIO_f_base64 writes these characters as far as the text goes, and fills the
\* last group up.
LEMMA BioEncodeWrites ==
  ASSUME NEW b \in Seq(Byte)
  PROVE  /\ DOMAIN BioEncode(b) = 1 .. 4 * Groups(Len(b), 3)
         /\ \A g \in Nat, i \in 1 .. 4 :
              g < Groups(Len(b), 3) =>
                BioEncode(b)[4 * g + i] =
                  IF 4 * g + i <= Digits(Len(b)) THEN FourAt(b, g)[i] ELSE Fill
         /\ \A k \in 1 .. 4 * Groups(Len(b), 3) :
              /\ k <= Digits(Len(b)) => BioEncode(b)[k] \in 0 .. 63
              /\ k > Digits(Len(b)) => BioEncode(b)[k] = Fill
<1> DEFINE n == Len(b)
           M == 4 * Groups(n, 3)
           c(k) ==
             (OfBytes(b, (k - 1) \div 4) \div CharWeight[((k - 1) % 4) + 1]) % 64
           e == BioEncode(b)
<1>1. n \in Nat /\ M \in Nat
  <2>1. n \in Nat
    OBVIOUS
  <2>2. Groups(n, 3) \in Nat
    BY ONLY <2>1, Lengths
  <2> QED BY ONLY <2>1, <2>2
<1>2. e = [k \in 1 .. M |-> IF 6 * (k - 1) < 8 * n THEN c(k) ELSE Fill]
  BY ONLY DEF BioEncode
<1>3. DOMAIN e = 1 .. M
  BY ONLY <1>2
<1>4. ASSUME NEW k \in 1 .. M
      PROVE  /\ e[k] = IF k <= Digits(n) THEN c(k) ELSE Fill
             /\ \E g \in Nat, i \in 1 .. 4 :
                  k = 4 * g + i /\ c(k) = FourAt(b, g)[i]
  <2>1. k \in Nat \ {0}
    BY <1>1
  <2>2. e[k] = IF k <= Digits(n) THEN c(k) ELSE Fill
    <3> HIDE DEF c, e, n, M
    <3>1. 6 * (k - 1) < 8 * n <=> k <= Digits(n)
      BY ONLY <1>1, <2>1, DigitHasBits
    <3> QED BY <1>2, <3>1
  <2>3. PICK g \in Nat, r \in {0, 1, 2, 3} :
          /\ k = 4 * g + r + 1
          /\ (k - 1) \div 4 = g /\ (k - 1) % 4 = r
    BY ONLY <2>1, InGroupOfFour
  <2>4. r + 1 \in 1 .. 4 /\ k = 4 * g + (r + 1)
    BY ONLY <2>3
  <2>5. c(k) = (OfBytes(b, g) \div CharWeight[r + 1]) % 64
    BY ONLY <2>3
  <2>6. c(k) = FourAt(b, g)[r + 1]
    BY ONLY <2>4, <2>5, b \in Seq(Byte), CharAt
  <2> QED BY ONLY <2>2, <2>4, <2>6
<1> HIDE DEF c, e, M
<1>5. ASSUME NEW g \in Nat, NEW i \in 1 .. 4, g < Groups(n, 3)
      PROVE  e[4 * g + i] =
               IF 4 * g + i <= Digits(n) THEN FourAt(b, g)[i] ELSE Fill
  <2>1. 4 * g + i \in 1 .. M
    <3>1. Groups(n, 3) \in Nat
      BY <1>1, Lengths
    <3> QED BY ONLY <1>5, <3>1 DEF M
  <2>2. PICK g2 \in Nat, i2 \in 1 .. 4 :
          4 * g + i = 4 * g2 + i2 /\ c(4 * g + i) = FourAt(b, g2)[i2]
    BY ONLY <1>4, <2>1
  <2>3. g2 = g /\ i2 = i
    BY ONLY <2>2, g \in Nat, i \in 1 .. 4
  <2> QED BY ONLY <1>4, <2>1, <2>2, <2>3
<1>6. ASSUME NEW k \in 1 .. M
      PROVE  /\ k <= Digits(n) => e[k] \in 0 .. 63
             /\ k > Digits(n) => e[k] = Fill
  <2>1. e[k] = IF k <= Digits(n) THEN c(k) ELSE Fill
    BY ONLY <1>4, k \in 1 .. M
  <2>2. PICK g \in Nat, i \in 1 .. 4 : c(k) = FourAt(b, g)[i]
    BY ONLY <1>4, k \in 1 .. M
  <2>3. c(k) \in 0 .. 63
    BY ONLY <2>2, b \in Seq(Byte), CharAt
  <2>4. Digits(n) \in Nat /\ k \in Nat
    BY ONLY <1>1, Lengths, k \in 1 .. M
  <2> QED BY ONLY <2>1, <2>3, <2>4
<1> QED BY ONLY <1>3, <1>5, <1>6 DEF e, M

\* The loop of base64url_encode that leaves out "=" keeps what is before them.
LEMMA PrefixKept ==
  ASSUME NEW e, NEW M \in Nat, NEW m \in 0 .. M, DOMAIN e = 1 .. M,
         \A k \in 1 .. M : e[k] # Fill <=> k <= m
  PROVE  WithoutFill(e) = [k \in 1 .. m |-> e[k]]
<1> DEFINE kept == {i \in DOMAIN e : e[i] # Fill}
           Nth(k) ==
             CHOOSE i \in kept : Cardinality({j \in kept : j <= i}) = k
<1>1. kept = 1 .. m
  OBVIOUS
<1>2. ASSUME NEW i \in 0 .. m PROVE Cardinality(1 .. i) = i
  <2>1. 1 \in Int /\ i \in Int
    OBVIOUS
  <2>2. Cardinality(1 .. i) = IF 1 > i THEN 0 ELSE i - 1 + 1
    BY ONLY <2>1, FS_Interval
  <2> QED BY ONLY <2>2, m \in 0 .. M, M \in Nat, i \in 0 .. m
<1>3. ASSUME NEW i \in 1 .. m PROVE {j \in kept : j <= i} = 1 .. i
  BY <1>1
<1> HIDE DEF kept
<1>4. ASSUME NEW k \in 1 .. m PROVE Nth(k) = k
  <2>1. ASSUME NEW i \in kept PROVE Cardinality({j \in kept : j <= i}) = i
    <3>1. i \in 1 .. m /\ i \in 0 .. m
      BY ONLY <1>1, <2>1, m \in 0 .. M, M \in Nat
    <3>2. {j \in kept : j <= i} = 1 .. i
      BY ONLY <1>3, <3>1
    <3> QED BY ONLY <1>2, <3>1, <3>2
  <2>2. k \in kept
    BY ONLY <1>1, k \in 1 .. m
  <2> QED BY ONLY <2>1, <2>2
<1>5. Cardinality(kept) = m
  BY ONLY <1>1, <1>2, m \in 0 .. M, M \in Nat
<1>6. WithoutFill(e) = [k \in 1 .. Cardinality(kept) |-> e[Nth(k)]]
  BY ONLY DEF WithoutFill, kept
<1> HIDE DEF Nth
<1> QED BY ONLY <1>4, <1>5, <1>6

\* base64url_encode writes the characters of each group as far as the text
\* goes, in the URL-safe alphabet.
LEMMA Encoded ==
  ASSUME NEW b \in Seq(Byte)
  PROVE  /\ DOMAIN Base64urlEncode(b) = 1 .. Digits(Len(b))
         /\ Base64urlEncode(b) =
              [k \in 1 .. Digits(Len(b)) |-> UrlSafe(BioEncode(b)[k])]
         /\ \A k \in 1 .. Digits(Len(b)) : BioEncode(b)[k] \in 0 .. 63
<1> DEFINE n == Len(b)
           m == Digits(n)
           M == 4 * Groups(n, 3)
           e == BioEncode(b)
           kept == WithoutFill(e)
<1>1. n \in Nat
  OBVIOUS
<1>2. M \in Nat /\ m \in 0 .. M
  <2>1. /\ Groups(n, 3) \in Nat /\ Digits(n) \in Nat
        /\ Digits(n) <= 4 * Groups(n, 3)
    BY ONLY <1>1, Lengths
  <2> QED BY ONLY <2>1
<1>3. DOMAIN e = 1 .. M
  BY ONLY BioEncodeWrites, b \in Seq(Byte)
<1>4. ASSUME NEW k \in 1 .. M
      PROVE  /\ k <= m => e[k] \in 0 .. 63
             /\ k > m => e[k] = Fill
  BY ONLY BioEncodeWrites, b \in Seq(Byte), k \in 1 .. M
<1>5. Base64urlEncode(b) = [k \in DOMAIN kept |-> UrlSafe(kept[k])]
  BY ONLY DEF Base64urlEncode, UrlSafe, e, kept
<1> HIDE DEF n, m, M, e
<1>6. kept = [k \in 1 .. m |-> e[k]]
  <2>1. ASSUME NEW k \in 1 .. M PROVE e[k] # Fill <=> k <= m
    <3>1. k <= m => e[k] \in 0 .. 63
      BY ONLY <1>4, k \in 1 .. M
    <3>2. k > m => e[k] = Fill
      BY ONLY <1>4, k \in 1 .. M
    <3>3. k <= m \/ k > m
      BY ONLY <1>2, k \in 1 .. M
    <3>4. ~(k <= m /\ k > m)
      BY ONLY <1>2, k \in 1 .. M
    <3>5. Fill \notin 0 .. 63
      BY DEF Fill
    <3> QED BY ONLY <3>1, <3>2, <3>3, <3>4, <3>5
  <2>2. WithoutFill(e) = [k \in 1 .. m |-> e[k]]
    BY ONLY <1>2, <1>3, <2>1, PrefixKept, Zenon
  <2> QED BY ONLY <2>2
<1> HIDE DEF kept
<1>7. Base64urlEncode(b) = [k \in 1 .. m |-> UrlSafe(e[k])]
  BY ONLY <1>5, <1>6
<1>8. \A k \in 1 .. m : e[k] \in 0 .. 63
  BY ONLY <1>2, <1>4
<1> QED BY ONLY <1>7, <1>8 DEF m, n, e

\* They are characters of the URL-safe alphabet.
LEMMA EncodedChars ==
  ASSUME NEW b \in Seq(Byte)
  PROVE  Base64urlEncode(b) \in Seq(Char)
<1> DEFINE m == Digits(Len(b))
           e == BioEncode(b)
<1>1. m \in Nat
  <2>1. Len(b) \in Nat
    OBVIOUS
  <2> QED BY ONLY <2>1, Lengths
<1>2. /\ Base64urlEncode(b) = [k \in 1 .. m |-> UrlSafe(e[k])]
      /\ \A k \in 1 .. m : e[k] \in 0 .. 63
  BY ONLY Encoded, b \in Seq(Byte)
<1>3. ASSUME NEW c \in 0 .. 63 PROVE UrlSafe(c) \in Char
  BY DEF UrlSafe, Char, Plus, Slash, Minus, Underscore
<1> HIDE DEF m, e
<1>4. ASSUME NEW k \in 1 .. m PROVE UrlSafe(e[k]) \in Char
  <2>1. e[k] \in 0 .. 63
    BY ONLY <1>2, k \in 1 .. m
  <2> QED BY ONLY <1>3, <2>1, Zenon
<1> QED BY ONLY <1>1, <1>2, <1>4
-----------------------------------------------------------------------------
(***************************************************************************)
(* The text is encoded as RFC 4648 says.                                   *)
(***************************************************************************)

\* Bit w of byte j of a text.
LEMMA BitAt ==
  ASSUME NEW b \in Seq(Byte), NEW j \in Nat \ {0}, NEW w \in 1 .. 8
  PROVE  Bit(b, 8 * (j - 1) + w) = (At(b, j) \div BitWeight[w]) % 2
<1> DEFINE n == 8 * (j - 1) + w
<1>1. (n - 1) \div 8 = j - 1 /\ (n - 1) % 8 = w - 1
  BY ONLY j \in Nat \ {0}, w \in 1 .. 8
<1>2. n > 8 * Len(b) <=> j > Len(b)
  <2>1. Len(b) \in Nat
    OBVIOUS
  <2> QED BY ONLY <2>1, j \in Nat \ {0}, w \in 1 .. 8
<1>3. ((n - 1) \div 8) + 1 = j /\ ((n - 1) % 8) + 1 = w
  BY ONLY <1>1, j \in Nat \ {0}, w \in 1 .. 8
<1> HIDE DEF n
<1>4. CASE j > Len(b)
  <2>1. At(b, j) = 0
    BY ONLY <1>4, b \in Seq(Byte), j \in Nat \ {0}, ByteAt
  <2>2. (0 \div BitWeight[w]) % 2 = 0
    <3>1. w = 1 \/ w = 2 \/ w = 3 \/ w = 4 \/ w = 5 \/ w = 6 \/ w = 7 \/ w = 8
      OBVIOUS
    <3>2. BitWeight = <<128, 64, 32, 16, 8, 4, 2, 1>>
      BY DEF BitWeight
    <3> QED BY ONLY <3>1, <3>2
  <2>3. Bit(b, n) = 0
    BY ONLY <1>2, <1>4 DEF Bit
  <2> QED BY ONLY <2>1, <2>2, <2>3 DEF n
<1>5. CASE ~(j > Len(b))
  <2>1. At(b, j) = b[j]
    <3>1. j <= Len(b)
      <4>1. Len(b) \in Nat
        OBVIOUS
      <4> QED BY ONLY <4>1, <1>5, j \in Nat \ {0}
    <3> QED BY ONLY <3>1, b \in Seq(Byte), j \in Nat \ {0}, ByteAt
  <2>2. Bit(b, n) = (b[j] \div BitWeight[w]) % 2
    BY ONLY <1>2, <1>3, <1>5 DEF Bit
  <2> QED BY ONLY <2>1, <2>2 DEF n
<1> QED BY ONLY <1>4, <1>5

\* The six bits RFC 4648 puts into a character are those OpenSSL puts there.
LEMMA SextetOfBits ==
  ASSUME NEW b \in Seq(Byte), NEW g \in Nat, NEW i \in 1 .. 4
  PROVE  Sextet(b, 4 * g + i) = FourAt(b, g)[i]
<1> DEFINE x == At(b, 3 * g + 1)
           y == At(b, 3 * g + 2)
           z == At(b, 3 * g + 3)
           u == Bits(x)
           v == Bits(y)
           w == Bits(z)
<1>1. /\ 3 * g + 1 \in Nat \ {0} /\ 3 * g + 2 \in Nat \ {0}
      /\ 3 * g + 3 \in Nat \ {0}
  OBVIOUS
<1>2. x \in Byte /\ y \in Byte /\ z \in Byte
  BY ONLY <1>1, b \in Seq(Byte), ByteAt
<1>3. ASSUME NEW j \in 1 .. 8
      PROVE  /\ Bit(b, 24 * g + j) = u[j]
             /\ Bit(b, 24 * g + (8 + j)) = v[j]
             /\ Bit(b, 24 * g + (16 + j)) = w[j]
  <2>1. /\ 24 * g + j = 8 * ((3 * g + 1) - 1) + j
        /\ 24 * g + (8 + j) = 8 * ((3 * g + 2) - 1) + j
        /\ 24 * g + (16 + j) = 8 * ((3 * g + 3) - 1) + j
    OBVIOUS
  <2>2. /\ u[j] = (x \div BitWeight[j]) % 2
        /\ v[j] = (y \div BitWeight[j]) % 2
        /\ w[j] = (z \div BitWeight[j]) % 2
    BY ONLY j \in 1 .. 8 DEF Bits
  <2>3. Bit(b, 8 * ((3 * g + 1) - 1) + j) = (x \div BitWeight[j]) % 2
    BY ONLY <1>1, b \in Seq(Byte), j \in 1 .. 8, BitAt, Zenon
  <2>4. Bit(b, 8 * ((3 * g + 2) - 1) + j) = (y \div BitWeight[j]) % 2
    BY ONLY <1>1, b \in Seq(Byte), j \in 1 .. 8, BitAt, Zenon
  <2>5. Bit(b, 8 * ((3 * g + 3) - 1) + j) = (z \div BitWeight[j]) % 2
    BY ONLY <1>1, b \in Seq(Byte), j \in 1 .. 8, BitAt, Zenon
  <2> QED BY ONLY <2>1, <2>2, <2>3, <2>4, <2>5
<1>4. SumOfBits(x, u) /\ SumOfBits(y, v) /\ SumOfBits(z, w)
  BY ONLY <1>2, BitsOfByte
<1> DEFINE a == x \div 4
           c == x % 4
           d == y \div 16
           e == y % 16
           f == z \div 64
           h == z % 64
<1> HIDE DEF u, v, w
<1>5. /\ a = 32 * u[1] + 16 * u[2] + 8 * u[3] + 4 * u[4] + 2 * u[5] + u[6]
      /\ c = 2 * u[7] + u[8]
      /\ d = 8 * v[1] + 4 * v[2] + 2 * v[3] + v[4]
      /\ e = 8 * v[5] + 4 * v[6] + 2 * v[7] + v[8]
      /\ f = 2 * w[1] + w[2]
      /\ h = 32 * w[3] + 16 * w[4] + 8 * w[5] + 4 * w[6] + 2 * w[7] + w[8]
  BY ONLY <1>4 DEF SumOfBits
<1>6. \A j \in 1 .. 8 : u[j] \in Int /\ v[j] \in Int /\ w[j] \in Int
  BY ONLY <1>4 DEF SumOfBits
<1>7. FourAt(b, g) = <<a, c * 16 + d, e * 4 + f, h>>
  BY ONLY DEF FourAt, FourOf
<1> HIDE DEF a, c, d, e, f, h
<1>8. u[7] \in Int /\ u[8] \in Int
  BY ONLY <1>6
<1>9. /\ v[1] \in Int /\ v[2] \in Int /\ v[3] \in Int /\ v[4] \in Int
       /\ v[5] \in Int /\ v[6] \in Int /\ v[7] \in Int /\ v[8] \in Int
       /\ w[1] \in Int /\ w[2] \in Int
  BY ONLY <1>6
<1>10. CASE i = 1
  <2>1. FourAt(b, g)[i] = a
    BY ONLY <1>7, <1>10
  <2>2. Sextet(b, 4 * g + i) =
          32 * Bit(b, 24 * g + 1) + 16 * Bit(b, 24 * g + 2)
            + 8 * Bit(b, 24 * g + 3) + 4 * Bit(b, 24 * g + 4)
            + 2 * Bit(b, 24 * g + 5) + Bit(b, 24 * g + 6)
    BY ONLY <1>10, g \in Nat DEF Sextet
  <2>3. /\ Bit(b, 24 * g + 1) = u[1] /\ Bit(b, 24 * g + 2) = u[2]
        /\ Bit(b, 24 * g + 3) = u[3] /\ Bit(b, 24 * g + 4) = u[4]
        /\ Bit(b, 24 * g + 5) = u[5] /\ Bit(b, 24 * g + 6) = u[6]
    BY ONLY <1>3
  <2> QED BY ONLY <1>5, <2>1, <2>2, <2>3
<1>11. CASE i = 2
  <2>1. FourAt(b, g)[i] = c * 16 + d
    BY ONLY <1>7, <1>11
  <2>2. Sextet(b, 4 * g + i) =
          32 * Bit(b, 24 * g + 7) + 16 * Bit(b, 24 * g + 8)
            + 8 * Bit(b, 24 * g + (8 + 1)) + 4 * Bit(b, 24 * g + (8 + 2))
            + 2 * Bit(b, 24 * g + (8 + 3)) + Bit(b, 24 * g + (8 + 4))
    BY ONLY <1>11, g \in Nat DEF Sextet
  <2>3. /\ Bit(b, 24 * g + 7) = u[7] /\ Bit(b, 24 * g + 8) = u[8]
        /\ Bit(b, 24 * g + (8 + 1)) = v[1] /\ Bit(b, 24 * g + (8 + 2)) = v[2]
        /\ Bit(b, 24 * g + (8 + 3)) = v[3] /\ Bit(b, 24 * g + (8 + 4)) = v[4]
    BY ONLY <1>3
  <2>4. c * 16 + d =
          32 * u[7] + 16 * u[8] + 8 * v[1] + 4 * v[2] + 2 * v[3] + v[4]
    <3> DEFINE u7 == u[7]
               u8 == u[8]
               v1 == v[1]
               v2 == v[2]
               v3 == v[3]
               v4 == v[4]
    <3>1. /\ u7 \in Int /\ u8 \in Int /\ v1 \in Int /\ v2 \in Int
          /\ v3 \in Int /\ v4 \in Int
      BY ONLY <1>8, <1>9
    <3>2. c = 2 * u7 + u8 /\ d = 8 * v1 + 4 * v2 + 2 * v3 + v4
      BY ONLY <1>5
    <3> HIDE DEF u7, u8, v1, v2, v3, v4
    <3>3. c * 16 + d = 32 * u7 + 16 * u8 + 8 * v1 + 4 * v2 + 2 * v3 + v4
      BY ONLY <3>1, <3>2
    <3> QED BY ONLY <3>3 DEF u7, u8, v1, v2, v3, v4
  <2> QED BY ONLY <2>1, <2>2, <2>3, <2>4
<1>12. CASE i = 3
  <2>1. FourAt(b, g)[i] = e * 4 + f
    BY ONLY <1>7, <1>12
  <2>2. Sextet(b, 4 * g + i) =
          32 * Bit(b, 24 * g + (8 + 5)) + 16 * Bit(b, 24 * g + (8 + 6))
            + 8 * Bit(b, 24 * g + (8 + 7)) + 4 * Bit(b, 24 * g + (8 + 8))
            + 2 * Bit(b, 24 * g + (16 + 1)) + Bit(b, 24 * g + (16 + 2))
    BY ONLY <1>12, g \in Nat DEF Sextet
  <2>3. /\ Bit(b, 24 * g + (8 + 5)) = v[5] /\ Bit(b, 24 * g + (8 + 6)) = v[6]
        /\ Bit(b, 24 * g + (8 + 7)) = v[7] /\ Bit(b, 24 * g + (8 + 8)) = v[8]
        /\ Bit(b, 24 * g + (16 + 1)) = w[1]
        /\ Bit(b, 24 * g + (16 + 2)) = w[2]
    BY ONLY <1>3
  <2>4. e * 4 + f =
          32 * v[5] + 16 * v[6] + 8 * v[7] + 4 * v[8] + 2 * w[1] + w[2]
    <3> DEFINE v5 == v[5]
               v6 == v[6]
               v7 == v[7]
               v8 == v[8]
               w1 == w[1]
               w2 == w[2]
    <3>1. /\ v5 \in Int /\ v6 \in Int /\ v7 \in Int /\ v8 \in Int
          /\ w1 \in Int /\ w2 \in Int
      BY ONLY <1>9
    <3>2. e = 8 * v5 + 4 * v6 + 2 * v7 + v8 /\ f = 2 * w1 + w2
      BY ONLY <1>5
    <3> HIDE DEF v5, v6, v7, v8, w1, w2
    <3>3. e * 4 + f = 32 * v5 + 16 * v6 + 8 * v7 + 4 * v8 + 2 * w1 + w2
      BY ONLY <3>1, <3>2
    <3> QED BY ONLY <3>3 DEF v5, v6, v7, v8, w1, w2
  <2> QED BY ONLY <2>1, <2>2, <2>3, <2>4
<1>13. CASE i = 4
  <2>1. FourAt(b, g)[i] = h
    BY ONLY <1>7, <1>13
  <2>2. Sextet(b, 4 * g + i) =
          32 * Bit(b, 24 * g + (16 + 3)) + 16 * Bit(b, 24 * g + (16 + 4))
            + 8 * Bit(b, 24 * g + (16 + 5)) + 4 * Bit(b, 24 * g + (16 + 6))
            + 2 * Bit(b, 24 * g + (16 + 7)) + Bit(b, 24 * g + (16 + 8))
    BY ONLY <1>13, g \in Nat DEF Sextet
  <2>3. /\ Bit(b, 24 * g + (16 + 3)) = w[3]
        /\ Bit(b, 24 * g + (16 + 4)) = w[4]
        /\ Bit(b, 24 * g + (16 + 5)) = w[5]
        /\ Bit(b, 24 * g + (16 + 6)) = w[6]
        /\ Bit(b, 24 * g + (16 + 7)) = w[7]
        /\ Bit(b, 24 * g + (16 + 8)) = w[8]
    BY ONLY <1>3
  <2> QED BY ONLY <1>5, <2>1, <2>2, <2>3
<1>14. i = 1 \/ i = 2 \/ i = 3 \/ i = 4
  OBVIOUS
<1> QED BY ONLY <1>10, <1>11, <1>12, <1>13, <1>14

\* A character stands in a group of four, one of those that are written.
LEMMA Placed ==
  ASSUME NEW n \in Nat, NEW k \in 1 .. 4 * Groups(n, 3)
  PROVE  \E g \in Nat, i \in 1 .. 4 : k = 4 * g + i /\ g < Groups(n, 3)
<1>1. Groups(n, 3) \in Nat
  BY ONLY Lengths, n \in Nat
<1>2. k \in Nat \ {0}
  BY ONLY <1>1, k \in 1 .. 4 * Groups(n, 3)
<1>3. PICK g \in Nat, r \in {0, 1, 2, 3} : k = 4 * g + r + 1
  BY ONLY <1>2, InGroupOfFour
<1>4. k = 4 * g + (r + 1) /\ r + 1 \in 1 .. 4
  BY ONLY <1>3
<1>5. g < Groups(n, 3)
  BY ONLY <1>1, <1>3, k \in 1 .. 4 * Groups(n, 3)
<1> QED BY ONLY <1>4, <1>5

\* Every text is encoded as RFC 4648 says.
LEMMA EncodesText ==
  ASSUME NEW b \in Seq(Byte)
  PROVE  Base64urlEncode(b) =
           [k \in 1 .. (8 * Len(b) + 5) \div 6 |-> UrlSafe(Sextet(b, k))]
<1> DEFINE n == Len(b)
           m == Digits(n)
           e == BioEncode(b)
<1>1. n \in Nat
  OBVIOUS
<1>2. Base64urlEncode(b) = [k \in 1 .. m |-> UrlSafe(e[k])]
  BY ONLY Encoded, b \in Seq(Byte)
<1>3. ASSUME NEW k \in 1 .. m PROVE e[k] = Sextet(b, k)
  <2>1. k \in 1 .. 4 * Groups(n, 3) /\ k <= m
    <3>1. /\ Groups(n, 3) \in Nat /\ Digits(n) \in Nat
          /\ Digits(n) <= 4 * Groups(n, 3)
      BY ONLY <1>1, Lengths
    <3> QED BY ONLY <3>1, k \in 1 .. m
  <2>2. PICK g \in Nat, i \in 1 .. 4 : k = 4 * g + i /\ g < Groups(n, 3)
    BY ONLY <1>1, <2>1, Placed
  <2>3. BioEncode(b)[4 * g + i] =
          IF 4 * g + i <= Digits(Len(b)) THEN FourAt(b, g)[i] ELSE Fill
    BY ONLY <2>2, b \in Seq(Byte), BioEncodeWrites
  <2>4. Sextet(b, 4 * g + i) = FourAt(b, g)[i]
    BY ONLY <2>2, b \in Seq(Byte), SextetOfBits
  <2> QED BY ONLY <2>1, <2>2, <2>3, <2>4
<1> HIDE DEF e
<1>4. Base64urlEncode(b) = [k \in 1 .. m |-> UrlSafe(Sextet(b, k))]
  BY ONLY <1>2, <1>3
<1> QED BY ONLY <1>4 DEF Digits
-----------------------------------------------------------------------------
(***************************************************************************)
(* It is decoded again.                                                    *)
(***************************************************************************)

\* The bits of group g of the characters are those of group g of the text: the
\* "=" that fill it up stand for the zeros behind its end.
LEMMA OfCharsOfText ==
  ASSUME NEW b \in Seq(Byte), NEW g \in Nat, g < Groups(Len(b), 3)
  PROVE  OfChars(BioEncode(b), g) = FromDigits(FourAt(b, g))
<1> DEFINE n == Len(b)
           e == BioEncode(b)
           q == FourAt(b, g)
<1>1. n \in Nat
  OBVIOUS
<1>2. Groups(n, 3) \in Nat
  BY ONLY <1>1, Lengths
<1>3. ASSUME NEW i \in 1 .. 4 PROVE At(e, 4 * g + i) % Fill = q[i]
  <2>1. 4 * g + i \in 1 .. 4 * Groups(n, 3)
    BY ONLY <1>2, g \in Nat, i \in 1 .. 4, g < Groups(n, 3)
  <2>2. At(e, 4 * g + i) = e[4 * g + i]
    <3>1. DOMAIN e = 1 .. 4 * Groups(n, 3)
      BY ONLY BioEncodeWrites, b \in Seq(Byte)
    <3> QED BY ONLY <2>1, <3>1 DEF At
  <2>3. e[4 * g + i] = IF 4 * g + i <= Digits(n) THEN q[i] ELSE Fill
    BY ONLY BioEncodeWrites, b \in Seq(Byte), g \in Nat, i \in 1 .. 4,
            g < Groups(Len(b), 3)
  <2>4. q[i] \in 0 .. 63
    BY ONLY CharAt, b \in Seq(Byte), g \in Nat, i \in 1 .. 4
  <2>5. Digits(n) < 4 * g + i => q[i] = 0
    BY ONLY ZerosBehind, b \in Seq(Byte), g \in Nat, i \in 1 .. 4,
            g < Groups(Len(b), 3)
  <2>6. Digits(n) \in Nat
    BY ONLY <1>1, Lengths
  <2> HIDE DEF e, q, n
  <2>7. CASE 4 * g + i <= Digits(n)
    <3>1. At(e, 4 * g + i) = q[i]
      BY ONLY <2>2, <2>3, <2>7
    <3>2. ASSUME NEW c \in 0 .. 63 PROVE c % Fill = c
      BY ONLY c \in 0 .. 63 DEF Fill
    <3> QED BY ONLY <2>4, <3>1, <3>2
  <2>8. CASE ~(4 * g + i <= Digits(n))
    <3>1. At(e, 4 * g + i) = Fill
      BY ONLY <2>2, <2>3, <2>8
    <3>2. q[i] = 0
      BY ONLY <2>5, <2>6, <2>8, g \in Nat, i \in 1 .. 4
    <3>3. Fill % Fill = 0
      BY DEF Fill
    <3> QED BY ONLY <3>1, <3>2, <3>3
  <2> QED BY ONLY <2>7, <2>8
<1> HIDE DEF e, q
<1>4. OfChars(e, g) =
        (At(e, 4 * g + 1) % Fill) * 262144 + (At(e, 4 * g + 2) % Fill) * 4096
          + (At(e, 4 * g + 3) % Fill) * 64 + (At(e, 4 * g + 4) % Fill)
  BY ONLY DEF OfChars
<1>5. /\ At(e, 4 * g + 1) % Fill = q[1] /\ At(e, 4 * g + 2) % Fill = q[2]
      /\ At(e, 4 * g + 3) % Fill = q[3] /\ At(e, 4 * g + 4) % Fill = q[4]
  BY ONLY <1>3
<1>6. OfChars(e, g) = FromDigits(q)
  BY ONLY <1>4, <1>5 DEF FromDigits
<1> QED BY ONLY <1>6 DEF e, q

\* BIO_f_base64 reads back what it wrote: the number of "=" tells how many
\* bytes the last group has.
LEMMA BioDecodesBack ==
  ASSUME NEW b \in Seq(Byte)
  PROVE  BioDecode(BioEncode(b)) = [ok |-> TRUE, bytes |-> b]
<1> DEFINE n == Len(b)
           G == Groups(n, 3)
           m == Digits(n)
           M == 4 * G
           e == BioEncode(b)
           fills == Cardinality({i \in DOMAIN e : e[i] = Fill})
           byte(i) ==
             (OfChars(e, (i - 1) \div 3) \div ByteWeight[((i - 1) % 3) + 1])
               % 256
<1>1. n \in Nat
  OBVIOUS
<1>2. /\ G \in Nat /\ m \in Nat /\ M \in Nat /\ m <= M
      /\ m - G = n /\ n <= 3 * G
  <2>1. /\ Groups(n, 3) \in Nat /\ Digits(n) \in Nat
        /\ Digits(n) <= 4 * Groups(n, 3)
        /\ Digits(n) - Groups(n, 3) = n /\ n <= 3 * Groups(n, 3)
    BY ONLY <1>1, Lengths
  <2> QED BY ONLY <2>1
<1>3. DOMAIN e = 1 .. M
  BY ONLY BioEncodeWrites, b \in Seq(Byte)
<1>4. Len(e) = M
  BY ONLY <1>2 DEF BioEncode
<1>5. ASSUME NEW k \in 1 .. M
      PROVE  /\ k <= m => e[k] \in 0 .. 63
             /\ k > m => e[k] = Fill
  BY ONLY BioEncodeWrites, b \in Seq(Byte), k \in 1 .. M
<1>6. BioDecode(e) =
        IF \E i \in DOMAIN e : e[i] > Fill
        THEN [ok |-> FALSE, bytes |-> <<>>]
        ELSE [ok |-> TRUE,
              bytes |-> [i \in 1 .. 3 * (Len(e) \div 4) - fills |-> byte(i)]]
  BY ONLY DEF BioDecode
<1>7. ASSUME NEW i \in 1 .. n PROVE byte(i) = b[i]
  <2>1. i \in Nat \ {0}
    BY ONLY <1>1, i \in 1 .. n
  <2>2. PICK g \in Nat, r \in {0, 1, 2} :
          /\ i = 3 * g + r + 1
          /\ (i - 1) \div 3 = g /\ (i - 1) % 3 = r
    BY ONLY <2>1, InGroupOfThree
  <2>3. g < Groups(Len(b), 3)
    <3>1. i = 3 * g + r + 1 /\ g \in Nat /\ r \in {0, 1, 2}
      BY ONLY <2>2
    <3>2. i <= n
      BY ONLY <1>1, i \in 1 .. n
    <3>3. G \in Nat /\ n <= 3 * G
      BY ONLY <1>2
    <3> HIDE DEF G, n
    <3>4. g < G
      BY ONLY <1>1, <3>1, <3>2, <3>3
    <3> QED BY ONLY <3>4 DEF G, n
  <2> DEFINE x == At(b, 3 * g + 1)
             y == At(b, 3 * g + 2)
             z == At(b, 3 * g + 3)
             v == OfChars(e, g)
  <2>4. v = FromDigits(FourOf(x, y, z))
    BY ONLY <2>2, <2>3, b \in Seq(Byte), OfCharsOfText DEF FourAt
  <2>5. x \in Byte /\ y \in Byte /\ z \in Byte
    <3>1. 3 * g + 1 \in Nat \ {0} /\ 3 * g + 2 \in Nat \ {0}
          /\ 3 * g + 3 \in Nat \ {0}
      BY ONLY <2>2
    <3> QED BY ONLY <3>1, b \in Seq(Byte), ByteAt
  <2>6. At(b, i) = b[i]
    BY ONLY <2>1, i \in 1 .. n, <1>1, b \in Seq(Byte), ByteAt
  <2>7. byte(i) = (v \div ByteWeight[r + 1]) % 256
    BY ONLY <2>2
  <2> HIDE DEF x, y, z, v, byte, e
  <2>8. ReadsBytes(v, x, y, z)
    BY ONLY <2>4, <2>5, BytesOfDigits
  <2>9. /\ (v \div ByteWeight[1]) % 256 = x
        /\ (v \div ByteWeight[2]) % 256 = y
        /\ (v \div ByteWeight[3]) % 256 = z
    BY ONLY <2>8 DEF ReadsBytes
  <2>10. CASE r = 0
    <3>1. i = 3 * g + 1 /\ r + 1 = 1
      BY ONLY <2>2, <2>10
    <3>2. x = b[i]
      BY ONLY <2>6, <3>1 DEF x
    <3> QED BY ONLY <2>7, <2>9, <3>1, <3>2
  <2>11. CASE r = 1
    <3>1. i = 3 * g + 2 /\ r + 1 = 2
      BY ONLY <2>2, <2>11
    <3>2. y = b[i]
      BY ONLY <2>6, <3>1 DEF y
    <3> QED BY ONLY <2>7, <2>9, <3>1, <3>2
  <2>12. CASE r = 2
    <3>1. i = 3 * g + 3 /\ r + 1 = 3
      BY ONLY <2>2, <2>12
    <3>2. z = b[i]
      BY ONLY <2>6, <3>1 DEF z
    <3> QED BY ONLY <2>7, <2>9, <3>1, <3>2
  <2> QED BY ONLY <2>2, <2>10, <2>11, <2>12
<1> HIDE DEF n, G, m, e, byte
<1>8. ~(\E i \in DOMAIN e : e[i] > Fill)
  <2>1. ASSUME NEW c \in 0 .. 63 PROVE ~(c > Fill)
    BY ONLY c \in 0 .. 63 DEF Fill
  <2>2. ~(Fill > Fill)
    BY ONLY DEF Fill
  <2>3. ASSUME NEW k \in 1 .. M PROVE ~(e[k] > Fill)
    <3>1. k <= m \/ k > m
      BY ONLY <1>2, k \in 1 .. M
    <3>2. e[k] \in 0 .. 63 \/ e[k] = Fill
      BY ONLY <1>5, <3>1, k \in 1 .. M
    <3> QED BY ONLY <2>1, <2>2, <3>2, Zenon
  <2> QED BY ONLY <1>3, <2>3, Zenon
<1>9. fills = M - m
  <2>1. {i \in DOMAIN e : e[i] = Fill} = (m + 1) .. M
    <3>1. ASSUME NEW k \in 1 .. M PROVE e[k] = Fill <=> k > m
      <4>1. k <= m \/ k > m
        BY ONLY <1>2, k \in 1 .. M
      <4>2. /\ k <= m => e[k] \in 0 .. 63
            /\ k > m => e[k] = Fill
        BY ONLY <1>5, k \in 1 .. M
      <4>3. ~(k <= m /\ k > m)
        BY ONLY <1>2, k \in 1 .. M
      <4>4. Fill \notin 0 .. 63
        BY DEF Fill
      <4> QED BY ONLY <4>1, <4>2, <4>3, <4>4
    <3>2. (m + 1) .. M = {k \in 1 .. M : k > m}
      BY ONLY <1>2
    <3> QED BY ONLY <1>3, <3>1, <3>2
  <2>2. m + 1 \in Int /\ M \in Int
    BY ONLY <1>2
  <2>3. Cardinality((m + 1) .. M) =
          IF m + 1 > M THEN 0 ELSE M - (m + 1) + 1
    BY ONLY <2>2, FS_Interval
  <2>4. Cardinality((m + 1) .. M) = M - m
    BY ONLY <1>2, <2>3
  <2> QED BY ONLY <2>1, <2>4
<1> HIDE DEF fills
<1>10. 3 * (Len(e) \div 4) - fills = n
  <2>1. M \div 4 = G
    BY ONLY <1>2
  <2>2. Len(e) \div 4 = G
    BY ONLY <1>4, <2>1
  <2> QED BY ONLY <1>2, <1>9, <2>2 DEF M
<1>11. BioDecode(e) = [ok |-> TRUE, bytes |-> [i \in 1 .. n |-> byte(i)]]
  BY ONLY <1>6, <1>8, <1>10
<1>12. b = [i \in 1 .. n |-> b[i]]
  BY b \in Seq(Byte) DEF n
<1>13. [i \in 1 .. n |-> byte(i)] = b
  BY ONLY <1>7, <1>12
<1> QED BY ONLY <1>11, <1>13 DEF e

\* Filling up the last group of the characters, in OpenSSL's alphabet, gives
\* what BIO_f_base64 wrote.
LEMMA FilledAgain ==
  ASSUME NEW b \in Seq(Byte), NEW p,
         p = [k \in 1 .. Digits(Len(b)) |-> BioEncode(b)[k]]
  PROVE  Filled(p) = BioEncode(b)
<1> DEFINE n == Len(b)
           G == Groups(n, 3)
           m == Digits(n)
           M == 4 * G
           e == BioEncode(b)
           f == [i \in 1 .. M - m |-> Fill]
<1>1. n \in Nat
  OBVIOUS
<1>2. /\ G \in Nat /\ m \in Nat /\ M \in Nat /\ m <= M
      /\ Groups(m, 4) = G
  <2>1. /\ Groups(n, 3) \in Nat /\ Digits(n) \in Nat
        /\ Digits(n) <= 4 * Groups(n, 3)
        /\ Groups(Digits(n), 4) = Groups(n, 3)
    BY ONLY <1>1, Lengths
  <2> QED BY ONLY <2>1
<1>3. e = [k \in 1 .. M |-> e[k]]
  BY ONLY DEF BioEncode
<1>4. ASSUME NEW k \in 1 .. M
      PROVE  k > m => e[k] = Fill
  BY ONLY BioEncodeWrites, b \in Seq(Byte), k \in 1 .. M
<1> HIDE DEF n, G, m, e
<1>5. p = [k \in 1 .. m |-> e[k]]
  BY DEF m, n, e
<1>6. Len(p) = m
  BY ONLY <1>2, <1>5
<1>7. Filled(p) = p \o f
  BY ONLY <1>2, <1>6 DEF Filled
<1>8. p \o f = [k \in 1 .. M |-> e[k]]
  <2>1. Len(f) = M - m
    BY ONLY <1>2
  <2>2. p \o f = [k \in 1 .. m + (M - m) |->
                    IF k <= m THEN p[k] ELSE f[k - m]]
    BY ONLY <1>2, <1>5, <1>6, <2>1
  <2>3. m + (M - m) = M
    BY ONLY <1>2
  <2>4. ASSUME NEW k \in 1 .. M
        PROVE  (IF k <= m THEN p[k] ELSE f[k - m]) = e[k]
    <3>1. CASE k <= m
      BY ONLY <1>2, <1>5, <3>1, k \in 1 .. M
    <3>2. CASE ~(k <= m)
      <4>1. k > m /\ k - m \in 1 .. M - m
        BY ONLY <1>2, <3>2, k \in 1 .. M
      <4> QED BY ONLY <1>4, <3>2, <4>1
    <3> QED BY ONLY <3>1, <3>2
  <2> QED BY ONLY <2>2, <2>3, <2>4
<1> QED BY ONLY <1>3, <1>7, <1>8 DEF e

\* Every text comes back.
LEMMA DecodesText ==
  ASSUME NEW b \in Seq(Byte)
  PROVE  Base64urlDecode(Base64urlEncode(b)) = b
<1> DEFINE Std(c) == CASE c = Minus -> Plus [] c = Underscore -> Slash
                       [] OTHER -> c
           m == Digits(Len(b))
           e == BioEncode(b)
           s == Base64urlEncode(b)
           p == [k \in DOMAIN s |-> Std(s[k])]
<1>1. /\ s = [k \in 1 .. m |-> UrlSafe(e[k])]
      /\ \A k \in 1 .. m : e[k] \in 0 .. 63
  BY ONLY Encoded, b \in Seq(Byte)
<1>2. ASSUME NEW c \in 0 .. 63 PROVE Std(UrlSafe(c)) = c
  <2>1. c # Minus /\ c # Underscore
    BY ONLY c \in 0 .. 63 DEF Minus, Underscore
  <2>2. Plus # Slash /\ Minus # Underscore
    BY ONLY DEF Plus, Slash, Minus, Underscore
  <2>3. CASE c = Plus
    <3>1. UrlSafe(c) = Minus
      BY ONLY <2>2, <2>3 DEF UrlSafe
    <3> QED BY ONLY <2>2, <2>3, <3>1
  <2>4. CASE c = Slash
    <3>1. UrlSafe(c) = Underscore
      BY ONLY <2>2, <2>4 DEF UrlSafe
    <3> QED BY ONLY <2>2, <2>4, <3>1
  <2>5. CASE c # Plus /\ c # Slash
    <3>1. UrlSafe(c) = c
      BY ONLY <2>5 DEF UrlSafe
    <3> QED BY ONLY <2>1, <3>1
  <2> QED BY ONLY <2>3, <2>4, <2>5
<1>3. Base64urlDecode(s) =
        IF BioDecode(Filled(p)).ok THEN BioDecode(Filled(p)).bytes ELSE <<>>
  BY ONLY DEF Base64urlDecode
<1>4. p = [k \in 1 .. m |-> e[k]]
  <2> HIDE DEF s, Std, m, e
  <2>1. ASSUME NEW k \in 1 .. m PROVE Std(s[k]) = e[k]
    <3>1. s[k] = UrlSafe(e[k]) /\ e[k] \in 0 .. 63
      BY ONLY <1>1, k \in 1 .. m
    <3>2. Std(UrlSafe(e[k])) = e[k]
      BY ONLY <1>2, <3>1, Zenon
    <3> QED BY ONLY <3>1, <3>2
  <2>2. DOMAIN s = 1 .. m
    BY ONLY <1>1
  <2> QED BY ONLY <2>1, <2>2
<1> HIDE DEF p, s
<1>5. Filled(p) = e
  BY ONLY <1>4, b \in Seq(Byte), FilledAgain
<1>6. BioDecode(e) = [ok |-> TRUE, bytes |-> b]
  BY ONLY b \in Seq(Byte), BioDecodesBack
<1>7. Base64urlDecode(s) = b
  BY ONLY <1>3, <1>5, <1>6
<1> QED BY ONLY <1>7 DEF s
-----------------------------------------------------------------------------
(***************************************************************************)
(* The specification.                                                      *)
(***************************************************************************)

\* A text is coded once, and what it is coded in is what base64url_encode
\* made of it.
TextInv ==
  text # None => text \in Texts /\ coded = Base64urlEncode(text)

\* Every step keeps it: nothing but Code touches the text.
LEMMA TextStep ==
  ASSUME TextInv, [Next]_vars
  PROVE  TextInv'
<1>1. ASSUME NEW b \in Texts, Code(b) PROVE TextInv'
  BY ONLY <1>1 DEF TextInv, Code
<1>2. ASSUME UNCHANGED texts PROVE TextInv'
  BY ONLY <1>2, TextInv DEF TextInv, texts
<1>3. CASE UNCHANGED vars
  BY ONLY <1>2, <1>3 DEF vars, texts
<1>4. ASSUME NEW f \in Files, ReadFile(f) PROVE TextInv'
  BY ONLY <1>2, <1>4 DEF ReadFile
<1>5. ASSUME NEW host \in Hosts, NEW address \in Addresses,
             GenerateProfile(host, address)
      PROVE  TextInv'
  BY ONLY <1>2, <1>5 DEF GenerateProfile
<1>6. CASE StartNbi \/ WriteJson \/ Suspend \/ ReadJson
  BY ONLY <1>2, <1>6 DEF StartNbi, WriteJson, Suspend, ReadJson
<1>7. ASSUME NEW body \in Bodies, NEW aad \in Aads, NEW key \in Keys,
             Seal(body, aad, key)
      PROVE  TextInv'
  BY ONLY <1>2, <1>7 DEF Seal
<1>8. ASSUME NEW aad \in Aads, NEW key \in Keys, Open(aad, key)
      PROVE  TextInv'
  BY ONLY <1>2, <1>8 DEF Open
<1> QED
  BY ONLY [Next]_vars, <1>1, <1>3, <1>4, <1>5, <1>6, <1>7, <1>8 DEF Next

\* It holds in every state.
LEMMA TextInvariant == Spec => []TextInv
<1>1. Init => TextInv
  BY DEF Init, TextInv
<1>2. TextInv /\ [Next]_vars => TextInv'
  BY TextStep
<1> QED BY <1>1, <1>2, PTL DEF Spec

\* base64url_encode (sepp_JOSE.cpp) gives the base64url of RFC 4648 of every
\* text, whatever its length and its bytes.
THEOREM EncodesAsBase64urlHolds == Spec => []EncodesAsBase64url
<1>1. TextInv => EncodesAsBase64url
  <2> SUFFICES ASSUME TextInv, text # None
               PROVE  coded = [k \in 1 .. (8 * Len(text) + 5) \div 6 |->
                                 UrlSafe(Sextet(text, k))]
    BY DEF EncodesAsBase64url
  <2>1. text \in Seq(Byte) /\ coded = Base64urlEncode(text)
    BY TextsAssumption DEF TextInv
  <2> QED BY ONLY <2>1, EncodesText
<1> QED BY <1>1, TextInvariant, PTL

\* base64url_decode (sepp_JOSE.cpp) gives every text back: the "=" it adds
\* stand for the zeros behind its end, and no byte is lost or added.
THEOREM DecodesBackHolds == Spec => []DecodesBack
<1>1. TextInv => DecodesBack
  <2> SUFFICES ASSUME TextInv, text # None
               PROVE  Base64urlDecode(coded) = text
    BY DEF DecodesBack
  <2>1. text \in Seq(Byte) /\ coded = Base64urlEncode(text)
    BY TextsAssumption DEF TextInv
  <2> QED BY ONLY <2>1, DecodesText
<1> QED BY <1>1, TextInvariant, PTL
=============================================================================

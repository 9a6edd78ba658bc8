---------------------------- MODULE DigestProofs ----------------------------
(***************************************************************************)
(* Proof that the digest of docroot/js/sha1.js is that of the standards,   *)
(* for every message and every key: what binb_sha1 pads and hashes is the  *)
(* padded text, and its registers are those of FIPS 180-1 at every round.  *)
(***************************************************************************)
EXTENDS Digests, SequenceTheorems, TLAPS

-----------------------------------------------------------------------------
(* A half is the set of its bits. *)

Halves == {h \in Nat : h < 65536}
Words == Halves \X Halves

LEMMA Powers ==
  /\ TwoTo[1] = 1 /\ TwoTo[2] = 2 /\ TwoTo[3] = 4 /\ TwoTo[4] = 8
  /\ TwoTo[5] = 16 /\ TwoTo[6] = 32 /\ TwoTo[7] = 64 /\ TwoTo[8] = 128
  /\ TwoTo[9] = 256 /\ TwoTo[10] = 512 /\ TwoTo[11] = 1024 /\ TwoTo[12] = 2048
  /\ TwoTo[13] = 4096 /\ TwoTo[14] = 8192 /\ TwoTo[15] = 16384 /\ TwoTo[16] = 32768
BY DEF TwoTo

Nth(n, p) == (n \div p) % 2

LEMMA BitType ==
  ASSUME NEW bits, NEW k
  PROVE  Bit(bits, k) \in 0..1 /\ (Bit(bits, k) = 1 <=> k \in bits)
BY DEF Bit

(* Four digits. *)
LEMMA FourDigits ==
  ASSUME NEW n, NEW a \in 0..1, NEW b \in 0..1, NEW c \in 0..1, NEW d \in 0..1,
         n = a + 2 * b + 4 * c + 8 * d
  PROVE  /\ n \in 0..15
         /\ Nth(n, 1) = a /\ Nth(n, 2) = b /\ Nth(n, 4) = c /\ Nth(n, 8) = d
BY DEF Nth

LEMMA DigitsOfFour ==
  ASSUME NEW n \in 0..15
  PROVE  n = Nth(n, 1) + 2 * Nth(n, 2) + 4 * Nth(n, 4) + 8 * Nth(n, 8)
BY DEF Nth

(* Four digits of four binary digits. *)
OfNibbles(n, a, b, c, d) == n = a + 16 * b + 256 * c + 4096 * d

SameDigits(n, a, b, c, d) ==
  /\ Nth(n, 1) = Nth(a, 1) /\ Nth(n, 2) = Nth(a, 2) /\ Nth(n, 4) = Nth(a, 4) /\ Nth(n, 8) = Nth(a, 8)
  /\ Nth(n, 16) = Nth(b, 1) /\ Nth(n, 32) = Nth(b, 2) /\ Nth(n, 64) = Nth(b, 4) /\ Nth(n, 128) = Nth(b, 8)
  /\ Nth(n, 256) = Nth(c, 1) /\ Nth(n, 512) = Nth(c, 2) /\ Nth(n, 1024) = Nth(c, 4) /\ Nth(n, 2048) = Nth(c, 8)
  /\ Nth(n, 4096) = Nth(d, 1) /\ Nth(n, 8192) = Nth(d, 2) /\ Nth(n, 16384) = Nth(d, 4) /\ Nth(n, 32768) = Nth(d, 8)

LEMMA FourNibbles ==
  ASSUME NEW n \in Int, NEW a \in 0..15, NEW b \in 0..15, NEW c \in 0..15, NEW d \in 0..15,
         OfNibbles(n, a, b, c, d)
  PROVE  n \in Halves /\ SameDigits(n, a, b, c, d)
<1> USE DEF OfNibbles
<1>1. n \in Halves BY DEF Halves
<1>2. Nth(n, 1) = Nth(a, 1)
  <2>1. n \div 1 = a \div 1 + 16 * b + 256 * c + 4096 * d OBVIOUS
  <2>2. (a \div 1 + 16 * b + 256 * c + 4096 * d) % 2 = (a \div 1) % 2 OBVIOUS
  <2> QED BY <2>1, <2>2 DEF Nth
<1>3. Nth(n, 2) = Nth(a, 2)
  <2>1. n \div 2 = a \div 2 + 8 * b + 128 * c + 2048 * d OBVIOUS
  <2>2. (a \div 2 + 8 * b + 128 * c + 2048 * d) % 2 = (a \div 2) % 2 OBVIOUS
  <2> QED BY <2>1, <2>2 DEF Nth
<1>4. Nth(n, 4) = Nth(a, 4)
  <2>1. n \div 4 = a \div 4 + 4 * b + 64 * c + 1024 * d OBVIOUS
  <2>2. (a \div 4 + 4 * b + 64 * c + 1024 * d) % 2 = (a \div 4) % 2 OBVIOUS
  <2> QED BY <2>1, <2>2 DEF Nth
<1>5. Nth(n, 8) = Nth(a, 8)
  <2>1. n \div 8 = a \div 8 + 2 * b + 32 * c + 512 * d OBVIOUS
  <2>2. (a \div 8 + 2 * b + 32 * c + 512 * d) % 2 = (a \div 8) % 2 OBVIOUS
  <2> QED BY <2>1, <2>2 DEF Nth
<1>6. Nth(n, 16) = Nth(b, 1)
  <2>1. n \div 16 = b \div 1 + 16 * c + 256 * d OBVIOUS
  <2>2. (b \div 1 + 16 * c + 256 * d) % 2 = (b \div 1) % 2 OBVIOUS
  <2> QED BY <2>1, <2>2 DEF Nth
<1>7. Nth(n, 32) = Nth(b, 2)
  <2>1. n \div 32 = b \div 2 + 8 * c + 128 * d OBVIOUS
  <2>2. (b \div 2 + 8 * c + 128 * d) % 2 = (b \div 2) % 2 OBVIOUS
  <2> QED BY <2>1, <2>2 DEF Nth
<1>8. Nth(n, 64) = Nth(b, 4)
  <2>1. n \div 64 = b \div 4 + 4 * c + 64 * d OBVIOUS
  <2>2. (b \div 4 + 4 * c + 64 * d) % 2 = (b \div 4) % 2 OBVIOUS
  <2> QED BY <2>1, <2>2 DEF Nth
<1>9. Nth(n, 128) = Nth(b, 8)
  <2>1. n \div 128 = b \div 8 + 2 * c + 32 * d OBVIOUS
  <2>2. (b \div 8 + 2 * c + 32 * d) % 2 = (b \div 8) % 2 OBVIOUS
  <2> QED BY <2>1, <2>2 DEF Nth
<1>10. Nth(n, 256) = Nth(c, 1)
  <2>1. n \div 256 = c \div 1 + 16 * d OBVIOUS
  <2>2. (c \div 1 + 16 * d) % 2 = (c \div 1) % 2 OBVIOUS
  <2> QED BY <2>1, <2>2 DEF Nth
<1>11. Nth(n, 512) = Nth(c, 2)
  <2>1. n \div 512 = c \div 2 + 8 * d OBVIOUS
  <2>2. (c \div 2 + 8 * d) % 2 = (c \div 2) % 2 OBVIOUS
  <2> QED BY <2>1, <2>2 DEF Nth
<1>12. Nth(n, 1024) = Nth(c, 4)
  <2>1. n \div 1024 = c \div 4 + 4 * d OBVIOUS
  <2>2. (c \div 4 + 4 * d) % 2 = (c \div 4) % 2 OBVIOUS
  <2> QED BY <2>1, <2>2 DEF Nth
<1>13. Nth(n, 2048) = Nth(c, 8)
  <2>1. n \div 2048 = c \div 8 + 2 * d OBVIOUS
  <2>2. (c \div 8 + 2 * d) % 2 = (c \div 8) % 2 OBVIOUS
  <2> QED BY <2>1, <2>2 DEF Nth
<1>14. Nth(n, 4096) = Nth(d, 1)
  <2>1. n \div 4096 = d \div 1 OBVIOUS
  <2>2. (d \div 1) % 2 = (d \div 1) % 2 OBVIOUS
  <2> QED BY <2>1, <2>2 DEF Nth
<1>15. Nth(n, 8192) = Nth(d, 2)
  <2>1. n \div 8192 = d \div 2 OBVIOUS
  <2>2. (d \div 2) % 2 = (d \div 2) % 2 OBVIOUS
  <2> QED BY <2>1, <2>2 DEF Nth
<1>16. Nth(n, 16384) = Nth(d, 4)
  <2>1. n \div 16384 = d \div 4 OBVIOUS
  <2>2. (d \div 4) % 2 = (d \div 4) % 2 OBVIOUS
  <2> QED BY <2>1, <2>2 DEF Nth
<1>17. Nth(n, 32768) = Nth(d, 8)
  <2>1. n \div 32768 = d \div 8 OBVIOUS
  <2>2. (d \div 8) % 2 = (d \div 8) % 2 OBVIOUS
  <2> QED BY <2>1, <2>2 DEF Nth
<1> QED BY <1>1, <1>2, <1>3, <1>4, <1>5, <1>6, <1>7, <1>8, <1>9,
           <1>10, <1>11, <1>12, <1>13, <1>14, <1>15, <1>16, <1>17 DEF SameDigits

LEMMA NibbleIs ==
  ASSUME NEW bits, NEW k \in 0..12
  PROVE  LET n == Nibble(bits, k) IN
         /\ n \in 0..15
         /\ Nth(n, 1) = Bit(bits, k) /\ Nth(n, 2) = Bit(bits, k + 1)
         /\ Nth(n, 4) = Bit(bits, k + 2) /\ Nth(n, 8) = Bit(bits, k + 3)
BY BitType, FourDigits DEF Nibble

(* A half has four nibbles. *)
NibblesAre(n, bits, a, b, c, d) ==
  /\ OfNibbles(n, a, b, c, d)
  /\ a = Nibble(bits, 0) /\ b = Nibble(bits, 4)
  /\ c = Nibble(bits, 8) /\ d = Nibble(bits, 12)

LEMMA HalfNibbles ==
  ASSUME NEW bits
  PROVE  \E a, b, c, d \in 0..15 : NibblesAre(HalfOf(bits), bits, a, b, c, d)
<1>1. /\ Nibble(bits, 0) \in 0..15 /\ Nibble(bits, 4) \in 0..15
      /\ Nibble(bits, 8) \in 0..15 /\ Nibble(bits, 12) \in 0..15
  BY NibbleIs
<1> USE <1>1
<1> WITNESS Nibble(bits, 0) \in 0..15, Nibble(bits, 4) \in 0..15,
            Nibble(bits, 8) \in 0..15, Nibble(bits, 12) \in 0..15
<1> QED BY DEF HalfOf, NibblesAre, OfNibbles

LEMMA HalfType ==
  ASSUME NEW bits
  PROVE  HalfOf(bits) \in Halves /\ HalfOf(bits) \in Int
<1> DEFINE n == HalfOf(bits)
<1>1. PICK a, b, c, d \in 0..15 : NibblesAre(n, bits, a, b, c, d) BY HalfNibbles
<1> HIDE DEF n
<1>2. OfNibbles(n, a, b, c, d) BY <1>1 DEF NibblesAre
<1>3. n \in Int BY <1>2 DEF OfNibbles
<1>4. n \in Halves BY <1>2, <1>3, FourNibbles, Zenon
<1> QED BY <1>3, <1>4 DEF n

(* Digit k of the half is 1 if k is in the set. *)
DigitsAre(n, bits) ==
  /\ Nth(n, 1) = Bit(bits, 0) /\ Nth(n, 2) = Bit(bits, 1)
  /\ Nth(n, 4) = Bit(bits, 2) /\ Nth(n, 8) = Bit(bits, 3)
  /\ Nth(n, 16) = Bit(bits, 4) /\ Nth(n, 32) = Bit(bits, 5)
  /\ Nth(n, 64) = Bit(bits, 6) /\ Nth(n, 128) = Bit(bits, 7)
  /\ Nth(n, 256) = Bit(bits, 8) /\ Nth(n, 512) = Bit(bits, 9)
  /\ Nth(n, 1024) = Bit(bits, 10) /\ Nth(n, 2048) = Bit(bits, 11)
  /\ Nth(n, 4096) = Bit(bits, 12) /\ Nth(n, 8192) = Bit(bits, 13)
  /\ Nth(n, 16384) = Bit(bits, 14) /\ Nth(n, 32768) = Bit(bits, 15)

LEMMA HalfDigits == ASSUME NEW bits PROVE DigitsAre(HalfOf(bits), bits)
<1> DEFINE n == HalfOf(bits)
<1>1. n \in Int BY HalfType
<1>2. PICK a, b, c, d \in 0..15 : NibblesAre(n, bits, a, b, c, d) BY HalfNibbles
<1>3. /\ Nth(a, 1) = Bit(bits, 0) /\ Nth(a, 2) = Bit(bits, 1)
      /\ Nth(a, 4) = Bit(bits, 2) /\ Nth(a, 8) = Bit(bits, 3)
  BY <1>2, NibbleIs, 0 + 1 = 1, 0 + 2 = 2, 0 + 3 = 3 DEF NibblesAre
<1>4. /\ Nth(b, 1) = Bit(bits, 4) /\ Nth(b, 2) = Bit(bits, 5)
      /\ Nth(b, 4) = Bit(bits, 6) /\ Nth(b, 8) = Bit(bits, 7)
  BY <1>2, NibbleIs, 4 + 1 = 5, 4 + 2 = 6, 4 + 3 = 7 DEF NibblesAre
<1>5. /\ Nth(c, 1) = Bit(bits, 8) /\ Nth(c, 2) = Bit(bits, 9)
      /\ Nth(c, 4) = Bit(bits, 10) /\ Nth(c, 8) = Bit(bits, 11)
  BY <1>2, NibbleIs, 8 + 1 = 9, 8 + 2 = 10, 8 + 3 = 11 DEF NibblesAre
<1>6. /\ Nth(d, 1) = Bit(bits, 12) /\ Nth(d, 2) = Bit(bits, 13)
      /\ Nth(d, 4) = Bit(bits, 14) /\ Nth(d, 8) = Bit(bits, 15)
  BY <1>2, NibbleIs, 12 + 1 = 13, 12 + 2 = 14, 12 + 3 = 15 DEF NibblesAre
<1> HIDE DEF n
<1>7. OfNibbles(n, a, b, c, d) BY <1>2 DEF NibblesAre
<1>8. SameDigits(n, a, b, c, d) BY <1>1, <1>7, FourNibbles, Zenon
<1> QED BY <1>3, <1>4, <1>5, <1>6, <1>8 DEF n, SameDigits, DigitsAre

(* The same for any k. *)
Power(k) == TwoTo[k + 1]

LEMMA PowerIs ==
  /\ Power(0) = 1 /\ Power(1) = 2 /\ Power(2) = 4 /\ Power(3) = 8
  /\ Power(4) = 16 /\ Power(5) = 32 /\ Power(6) = 64 /\ Power(7) = 128
  /\ Power(8) = 256 /\ Power(9) = 512 /\ Power(10) = 1024 /\ Power(11) = 2048
  /\ Power(12) = 4096 /\ Power(13) = 8192 /\ Power(14) = 16384 /\ Power(15) = 32768
<1>1. Power(0) = 1 BY 0 + 1 = 1, Powers DEF Power
<1>2. Power(1) = 2 BY 1 + 1 = 2, Powers DEF Power
<1>3. Power(2) = 4 BY 2 + 1 = 3, Powers DEF Power
<1>4. Power(3) = 8 BY 3 + 1 = 4, Powers DEF Power
<1>5. Power(4) = 16 BY 4 + 1 = 5, Powers DEF Power
<1>6. Power(5) = 32 BY 5 + 1 = 6, Powers DEF Power
<1>7. Power(6) = 64 BY 6 + 1 = 7, Powers DEF Power
<1>8. Power(7) = 128 BY 7 + 1 = 8, Powers DEF Power
<1>9. Power(8) = 256 BY 8 + 1 = 9, Powers DEF Power
<1>10. Power(9) = 512 BY 9 + 1 = 10, Powers DEF Power
<1>11. Power(10) = 1024 BY 10 + 1 = 11, Powers DEF Power
<1>12. Power(11) = 2048 BY 11 + 1 = 12, Powers DEF Power
<1>13. Power(12) = 4096 BY 12 + 1 = 13, Powers DEF Power
<1>14. Power(13) = 8192 BY 13 + 1 = 14, Powers DEF Power
<1>15. Power(14) = 16384 BY 14 + 1 = 15, Powers DEF Power
<1>16. Power(15) = 32768 BY 15 + 1 = 16, Powers DEF Power
<1> QED BY <1>1, <1>2, <1>3, <1>4, <1>5, <1>6, <1>7, <1>8, <1>9,
           <1>10, <1>11, <1>12, <1>13, <1>14, <1>15, <1>16

LEMMA DigitOf ==
  ASSUME NEW n, NEW bits, DigitsAre(n, bits), NEW k \in 0..15
  PROVE  Nth(n, Power(k)) = Bit(bits, k)
<1>1. CASE k = 0
  <2>1. Power(k) = 1 BY <1>1, PowerIs
  <2> QED BY <1>1, <2>1 DEF DigitsAre
<1>2. CASE k = 1
  <2>1. Power(k) = 2 BY <1>2, PowerIs
  <2> QED BY <1>2, <2>1 DEF DigitsAre
<1>3. CASE k = 2
  <2>1. Power(k) = 4 BY <1>3, PowerIs
  <2> QED BY <1>3, <2>1 DEF DigitsAre
<1>4. CASE k = 3
  <2>1. Power(k) = 8 BY <1>4, PowerIs
  <2> QED BY <1>4, <2>1 DEF DigitsAre
<1>5. CASE k = 4
  <2>1. Power(k) = 16 BY <1>5, PowerIs
  <2> QED BY <1>5, <2>1 DEF DigitsAre
<1>6. CASE k = 5
  <2>1. Power(k) = 32 BY <1>6, PowerIs
  <2> QED BY <1>6, <2>1 DEF DigitsAre
<1>7. CASE k = 6
  <2>1. Power(k) = 64 BY <1>7, PowerIs
  <2> QED BY <1>7, <2>1 DEF DigitsAre
<1>8. CASE k = 7
  <2>1. Power(k) = 128 BY <1>8, PowerIs
  <2> QED BY <1>8, <2>1 DEF DigitsAre
<1>9. CASE k = 8
  <2>1. Power(k) = 256 BY <1>9, PowerIs
  <2> QED BY <1>9, <2>1 DEF DigitsAre
<1>10. CASE k = 9
  <2>1. Power(k) = 512 BY <1>10, PowerIs
  <2> QED BY <1>10, <2>1 DEF DigitsAre
<1>11. CASE k = 10
  <2>1. Power(k) = 1024 BY <1>11, PowerIs
  <2> QED BY <1>11, <2>1 DEF DigitsAre
<1>12. CASE k = 11
  <2>1. Power(k) = 2048 BY <1>12, PowerIs
  <2> QED BY <1>12, <2>1 DEF DigitsAre
<1>13. CASE k = 12
  <2>1. Power(k) = 4096 BY <1>13, PowerIs
  <2> QED BY <1>13, <2>1 DEF DigitsAre
<1>14. CASE k = 13
  <2>1. Power(k) = 8192 BY <1>14, PowerIs
  <2> QED BY <1>14, <2>1 DEF DigitsAre
<1>15. CASE k = 14
  <2>1. Power(k) = 16384 BY <1>15, PowerIs
  <2> QED BY <1>15, <2>1 DEF DigitsAre
<1>16. CASE k = 15
  <2>1. Power(k) = 32768 BY <1>16, PowerIs
  <2> QED BY <1>16, <2>1 DEF DigitsAre
<1> QED BY <1>1, <1>2, <1>3, <1>4, <1>5, <1>6, <1>7, <1>8, <1>9,
           <1>10, <1>11, <1>12, <1>13, <1>14, <1>15, <1>16

LEMMA InBits ==
  ASSUME NEW n, NEW k \in 0..15
  PROVE  k \in BitsOf(n) <=> Nth(n, Power(k)) = 1
BY DEF BitsOf, Nth, Power

(* The bits of a half that was made from bits. *)
LEMMA BitsOfHalf ==
  ASSUME NEW bits \in SUBSET (0..15)
  PROVE  BitsOf(HalfOf(bits)) = bits
<1> DEFINE n == HalfOf(bits)
<1>1. DigitsAre(n, bits) BY HalfDigits
<1> HIDE DEF n
<1>2. ASSUME NEW k \in 0..15 PROVE k \in BitsOf(n) <=> k \in bits
  <2>1. Nth(n, Power(k)) = Bit(bits, k) BY <1>1, DigitOf
  <2> QED BY <2>1, InBits, BitType
<1>3. BitsOf(n) \subseteq 0..15 BY DEF BitsOf
<1>4. BitsOf(n) = bits BY <1>2, <1>3
<1> QED BY <1>4 DEF n

(* A half is made from its bits. *)
LEMMA SplitHalf ==
  ASSUME NEW n \in Halves
  PROVE  \E a, b, c, d \in 0..15 : OfNibbles(n, a, b, c, d)
<1>0. n \in Nat /\ n < 65536 BY DEF Halves
<1>1. n % 16 \in 0..15 BY <1>0
<1>2. (n \div 16) % 16 \in 0..15 BY <1>0
<1>3. (n \div 256) % 16 \in 0..15 BY <1>0
<1>4. n \div 4096 \in 0..15 BY <1>0
<1>5. n = (n % 16) + 16 * ((n \div 16) % 16) + 256 * ((n \div 256) % 16) + 4096 * (n \div 4096)
  BY <1>0
<1> DEFINE a == n % 16
           b == (n \div 16) % 16
           c == (n \div 256) % 16
           d == n \div 4096
<1>6. OfNibbles(n, a, b, c, d) BY <1>5 DEF OfNibbles
<1>7. a \in 0..15 /\ b \in 0..15 /\ c \in 0..15 /\ d \in 0..15 BY <1>1, <1>2, <1>3, <1>4
<1> HIDE DEF a, b, c, d
<1> QED BY <1>6, <1>7

(* The bits from k on, of which the number m has the digits.               *)
LEMMA NibbleOfBits ==
  ASSUME NEW n, NEW k \in 0..12, NEW m \in 0..15,
         Nth(n, Power(k)) = Nth(m, 1), Nth(n, Power(k + 1)) = Nth(m, 2),
         Nth(n, Power(k + 2)) = Nth(m, 4), Nth(n, Power(k + 3)) = Nth(m, 8)
  PROVE  Nibble(BitsOf(n), k) = m
<1> DEFINE S == BitsOf(n)
<1>1. k + 1 \in 0..15 /\ k + 2 \in 0..15 /\ k + 3 \in 0..15 /\ k \in 0..15 OBVIOUS
<1>2. ASSUME NEW j \in 0..15, NEW u \in 0..1, Nth(n, Power(j)) = u PROVE Bit(S, j) = u
  BY <1>2, InBits, BitType
<1>3. Nth(m, 1) \in 0..1 /\ Nth(m, 2) \in 0..1 /\ Nth(m, 4) \in 0..1 /\ Nth(m, 8) \in 0..1
  BY DEF Nth
<1> HIDE DEF S
<1>4. /\ Bit(S, k) = Nth(m, 1) /\ Bit(S, k + 1) = Nth(m, 2)
      /\ Bit(S, k + 2) = Nth(m, 4) /\ Bit(S, k + 3) = Nth(m, 8)
  BY <1>1, <1>2, <1>3
<1>5. Nibble(S, k) = Nth(m, 1) + 2 * Nth(m, 2) + 4 * Nth(m, 4) + 8 * Nth(m, 8)
  BY <1>4 DEF Nibble
<1> QED BY <1>5, DigitsOfFour DEF S

LEMMA HalfOfBits ==
  ASSUME NEW n \in Halves
  PROVE  HalfOf(BitsOf(n)) = n
<1> DEFINE S == BitsOf(n)
<1>1. PICK a, b, c, d \in 0..15 : OfNibbles(n, a, b, c, d) BY SplitHalf
<1>2. n \in Int BY DEF Halves
<1>3. SameDigits(n, a, b, c, d) BY <1>1, <1>2, FourNibbles, Zenon
<1>4. Nibble(S, 0) = a
  <2>1. /\ Nth(n, Power(0)) = Nth(a, 1) /\ Nth(n, Power(0 + 1)) = Nth(a, 2)
        /\ Nth(n, Power(0 + 2)) = Nth(a, 4) /\ Nth(n, Power(0 + 3)) = Nth(a, 8)
    BY <1>3, PowerIs DEF SameDigits
  <2> QED BY <2>1, NibbleOfBits
<1>5. Nibble(S, 4) = b
  <2>1. /\ Nth(n, Power(4)) = Nth(b, 1) /\ Nth(n, Power(4 + 1)) = Nth(b, 2)
        /\ Nth(n, Power(4 + 2)) = Nth(b, 4) /\ Nth(n, Power(4 + 3)) = Nth(b, 8)
    BY <1>3, PowerIs DEF SameDigits
  <2> QED BY <2>1, NibbleOfBits
<1>6. Nibble(S, 8) = c
  <2>1. /\ Nth(n, Power(8)) = Nth(c, 1) /\ Nth(n, Power(8 + 1)) = Nth(c, 2)
        /\ Nth(n, Power(8 + 2)) = Nth(c, 4) /\ Nth(n, Power(8 + 3)) = Nth(c, 8)
    BY <1>3, PowerIs DEF SameDigits
  <2> QED BY <2>1, NibbleOfBits
<1>7. Nibble(S, 12) = d
  <2>1. /\ Nth(n, Power(12)) = Nth(d, 1) /\ Nth(n, Power(12 + 1)) = Nth(d, 2)
        /\ Nth(n, Power(12 + 2)) = Nth(d, 4) /\ Nth(n, Power(12 + 3)) = Nth(d, 8)
    BY <1>3, PowerIs DEF SameDigits
  <2> QED BY <2>1, NibbleOfBits
<1> HIDE DEF S
<1>8. HalfOf(S) = a + 16 * b + 256 * c + 4096 * d
  BY <1>4, <1>5, <1>6, <1>7 DEF HalfOf
<1> QED BY <1>1, <1>8 DEF S, OfNibbles

-----------------------------------------------------------------------------
(* The operators on halves and words. *)

LEMMA BitsType == ASSUME NEW n PROVE BitsOf(n) \in SUBSET (0..15)
BY DEF BitsOf

LEMMA SameBits ==
  ASSUME NEW m \in Halves, NEW n \in Halves, BitsOf(m) = BitsOf(n)
  PROVE  m = n
BY HalfOfBits

LEMMA Xor16Bits ==
  ASSUME NEW m, NEW n
  PROVE  /\ Xor16(m, n) \in Halves
         /\ BitsOf(Xor16(m, n)) = (BitsOf(m) \ BitsOf(n)) \cup (BitsOf(n) \ BitsOf(m))
<1> DEFINE S == (BitsOf(m) \ BitsOf(n)) \cup (BitsOf(n) \ BitsOf(m))
<1>1. S \in SUBSET (0..15) BY BitsType
<1>2. Xor16(m, n) = HalfOf(S) BY DEF Xor16
<1> HIDE DEF S
<1>3. Xor16(m, n) \in Halves /\ BitsOf(Xor16(m, n)) = S
  BY <1>1, <1>2, HalfType, BitsOfHalf
<1> QED BY <1>3 DEF S

LEMMA And16Bits ==
  ASSUME NEW m, NEW n
  PROVE  And16(m, n) \in Halves /\ BitsOf(And16(m, n)) = BitsOf(m) \cap BitsOf(n)
<1>1. BitsOf(m) \cap BitsOf(n) \in SUBSET (0..15) BY BitsType
<1> QED BY <1>1, HalfType, BitsOfHalf DEF And16

LEMMA Or16Bits ==
  ASSUME NEW m, NEW n
  PROVE  Or16(m, n) \in Halves /\ BitsOf(Or16(m, n)) = BitsOf(m) \cup BitsOf(n)
<1>1. BitsOf(m) \cup BitsOf(n) \in SUBSET (0..15) BY BitsType
<1> QED BY <1>1, HalfType, BitsOfHalf DEF Or16

(* The half that has the other bits. *)
LEMMA NotDigit ==
  ASSUME NEW n \in 0..15, NEW p \in {1, 2, 4, 8}
  PROVE  Nth(15 - n, p) = 1 <=> Nth(n, p) # 1
<1>1. CASE p = 1 BY <1>1 DEF Nth
<1>2. CASE p = 2 BY <1>2 DEF Nth
<1>3. CASE p = 4 BY <1>3 DEF Nth
<1>4. CASE p = 8 BY <1>4 DEF Nth
<1> QED BY <1>1, <1>2, <1>3, <1>4

LEMMA NotHalf ==
  ASSUME NEW n \in Halves
  PROVE  Half - 1 - n \in Halves /\ BitsOf(Half - 1 - n) \cap BitsOf(n) = {}
<1> DEFINE m == Half - 1 - n
<1>1. PICK a, b, c, d \in 0..15 : OfNibbles(n, a, b, c, d) BY SplitHalf
<1>2. n \in Int BY DEF Halves
<1>3. SameDigits(n, a, b, c, d) BY <1>1, <1>2, FourNibbles, Zenon
<1>4. m \in Halves /\ m \in Int BY DEF Halves, Half
<1>5. PICK e \in 0..15 : e = 15 - a OBVIOUS
<1>6. PICK f \in 0..15 : f = 15 - b OBVIOUS
<1>7. PICK g \in 0..15 : g = 15 - c OBVIOUS
<1>8. PICK h \in 0..15 : h = 15 - d OBVIOUS
<1>9. OfNibbles(m, e, f, g, h) BY <1>1, <1>2, <1>5, <1>6, <1>7, <1>8 DEF OfNibbles, Half
<1> HIDE DEF m
<1>10. SameDigits(m, e, f, g, h) BY <1>9, <1>4, FourNibbles, Zenon
<1>11. ASSUME NEW p \in {1, 2, 4, 8}
       PROVE  /\ Nth(e, p) = 1 <=> Nth(a, p) # 1
              /\ Nth(f, p) = 1 <=> Nth(b, p) # 1
              /\ Nth(g, p) = 1 <=> Nth(c, p) # 1
              /\ Nth(h, p) = 1 <=> Nth(d, p) # 1
  BY <1>5, <1>6, <1>7, <1>8, NotDigit
<1>12. ASSUME NEW k \in 0..15 PROVE ~ (k \in BitsOf(m) /\ k \in BitsOf(n))
  <2>1. Nth(m, Power(k)) = 1 <=> Nth(n, Power(k)) # 1
    <3>1. CASE k = 0 BY <3>1, <1>3, <1>10, <1>11, PowerIs DEF SameDigits
    <3>2. CASE k = 1 BY <3>2, <1>3, <1>10, <1>11, PowerIs DEF SameDigits
    <3>3. CASE k = 2 BY <3>3, <1>3, <1>10, <1>11, PowerIs DEF SameDigits
    <3>4. CASE k = 3 BY <3>4, <1>3, <1>10, <1>11, PowerIs DEF SameDigits
    <3>5. CASE k = 4 BY <3>5, <1>3, <1>10, <1>11, PowerIs DEF SameDigits
    <3>6. CASE k = 5 BY <3>6, <1>3, <1>10, <1>11, PowerIs DEF SameDigits
    <3>7. CASE k = 6 BY <3>7, <1>3, <1>10, <1>11, PowerIs DEF SameDigits
    <3>8. CASE k = 7 BY <3>8, <1>3, <1>10, <1>11, PowerIs DEF SameDigits
    <3>9. CASE k = 8 BY <3>9, <1>3, <1>10, <1>11, PowerIs DEF SameDigits
    <3>10. CASE k = 9 BY <3>10, <1>3, <1>10, <1>11, PowerIs DEF SameDigits
    <3>11. CASE k = 10 BY <3>11, <1>3, <1>10, <1>11, PowerIs DEF SameDigits
    <3>12. CASE k = 11 BY <3>12, <1>3, <1>10, <1>11, PowerIs DEF SameDigits
    <3>13. CASE k = 12 BY <3>13, <1>3, <1>10, <1>11, PowerIs DEF SameDigits
    <3>14. CASE k = 13 BY <3>14, <1>3, <1>10, <1>11, PowerIs DEF SameDigits
    <3>15. CASE k = 14 BY <3>15, <1>3, <1>10, <1>11, PowerIs DEF SameDigits
    <3>16. CASE k = 15 BY <3>16, <1>3, <1>10, <1>11, PowerIs DEF SameDigits
    <3> QED BY <3>1, <3>2, <3>3, <3>4, <3>5, <3>6, <3>7, <3>8,
               <3>9, <3>10, <3>11, <3>12, <3>13, <3>14, <3>15, <3>16
  <2> QED BY <2>1, InBits
<1>13. BitsOf(m) \cap BitsOf(n) = {} BY <1>12, BitsType
<1> QED BY <1>4, <1>13 DEF m

LEMMA WordParts ==
  ASSUME NEW m \in Words
  PROVE  m[1] \in Halves /\ m[2] \in Halves /\ m = <<m[1], m[2]>>
BY DEF Words

LEMMA Word32Types ==
  ASSUME NEW m, NEW n
  PROVE  Xor32(m, n) \in Words /\ And32(m, n) \in Words /\ Or32(m, n) \in Words
BY Xor16Bits, And16Bits, Or16Bits DEF Xor32, And32, Or32, Words

(* f: | is ^ where no bit is in both, and where it is in two of the three. *)
LEMMA ChoiceIs ==
  ASSUME NEW b \in Halves, NEW c \in Halves, NEW d \in Halves
  PROVE  Or16(And16(b, c), And16(Half - 1 - b, d)) =
         Xor16(And16(b, c), And16(Half - 1 - b, d))
<1> DEFINE m == And16(b, c)
           n == And16(Half - 1 - b, d)
<1>1. BitsOf(m) \cap BitsOf(n) = {} BY And16Bits, NotHalf
<1>2. BitsOf(Or16(m, n)) = BitsOf(Xor16(m, n)) BY <1>1, Or16Bits, Xor16Bits
<1> QED BY <1>2, Or16Bits, Xor16Bits, SameBits

LEMMA MajorityIs ==
  ASSUME NEW b, NEW c, NEW d
  PROVE  Or16(Or16(And16(b, c), And16(b, d)), And16(c, d)) =
         Xor16(Xor16(And16(b, c), And16(b, d)), And16(c, d))
<1> DEFINE l == And16(b, c)
           m == And16(b, d)
           n == And16(c, d)
<1>1. /\ BitsOf(l) = BitsOf(b) \cap BitsOf(c) /\ BitsOf(m) = BitsOf(b) \cap BitsOf(d)
      /\ BitsOf(n) = BitsOf(c) \cap BitsOf(d)
  BY And16Bits
<1> HIDE DEF l, m, n
<1>2. BitsOf(Or16(Or16(l, m), n)) = BitsOf(l) \cup BitsOf(m) \cup BitsOf(n) BY Or16Bits
<1>3. /\ BitsOf(Xor16(l, m)) = (BitsOf(l) \ BitsOf(m)) \cup (BitsOf(m) \ BitsOf(l))
      /\ BitsOf(Xor16(Xor16(l, m), n)) =
           (BitsOf(Xor16(l, m)) \ BitsOf(n)) \cup (BitsOf(n) \ BitsOf(Xor16(l, m)))
  BY Xor16Bits
<1>4. BitsOf(Or16(Or16(l, m), n)) = BitsOf(Xor16(Xor16(l, m), n)) BY <1>1, <1>2, <1>3
<1>5. Or16(Or16(l, m), n) = Xor16(Xor16(l, m), n)
  BY <1>4, Or16Bits, Xor16Bits, SameBits
<1> QED BY <1>5 DEF l, m, n

(* ^ may be taken in any order. *)
LEMMA Xor16Order ==
  ASSUME NEW b, NEW c, NEW d
  PROVE  Xor16(Xor16(b, c), d) = Xor16(b, Xor16(c, d))
<1>1. /\ BitsOf(Xor16(b, c)) = (BitsOf(b) \ BitsOf(c)) \cup (BitsOf(c) \ BitsOf(b))
      /\ BitsOf(Xor16(c, d)) = (BitsOf(c) \ BitsOf(d)) \cup (BitsOf(d) \ BitsOf(c))
      /\ BitsOf(Xor16(Xor16(b, c), d)) =
           (BitsOf(Xor16(b, c)) \ BitsOf(d)) \cup (BitsOf(d) \ BitsOf(Xor16(b, c)))
      /\ BitsOf(Xor16(b, Xor16(c, d))) =
           (BitsOf(b) \ BitsOf(Xor16(c, d))) \cup (BitsOf(Xor16(c, d)) \ BitsOf(b))
  BY Xor16Bits
<1>2. BitsOf(Xor16(Xor16(b, c), d)) = BitsOf(Xor16(b, Xor16(c, d))) BY <1>1
<1> QED BY <1>2, Xor16Bits, SameBits

LEMMA Xor32Order ==
  ASSUME NEW b, NEW c, NEW d
  PROVE  Xor32(Xor32(b, c), d) = Xor32(b, Xor32(c, d))
BY Xor16Order DEF Xor32

LEMMA FunctionIs ==
  ASSUME NEW t \in 0..79, NEW b \in Words, NEW c \in Words, NEW d \in Words
  PROVE  sha1_ft(t, b, c, d) = FipsF(t, b, c, d) /\ sha1_ft(t, b, c, d) \in Words
<1>1. CASE t < 20
  <2>1. t \div 20 = 0 BY <1>1
  <2>2. Or32(And32(b, c), And32(Not32(b), d)) = Xor32(And32(b, c), And32(Not32(b), d))
    BY ChoiceIs, WordParts DEF Or32, Xor32, And32, Not32
  <2> QED BY <1>1, <2>1, <2>2, Word32Types DEF sha1_ft, FipsF
<1>2. CASE t \in 40..59
  <2>1. t \div 20 = 2 /\ ~(t < 20) BY <1>2
  <2>2. Or32(Or32(And32(b, c), And32(b, d)), And32(c, d)) =
        Xor32(Xor32(And32(b, c), And32(b, d)), And32(c, d))
    BY MajorityIs DEF Or32, Xor32, And32
  <2> QED BY <1>2, <2>1, <2>2, Word32Types DEF sha1_ft, FipsF
<1>3. CASE ~(t < 20) /\ t \notin 40..59
  <2>1. t \div 20 # 0 /\ t \div 20 # 2 BY <1>3
  <2> QED BY <1>3, <2>1, Xor32Order, Word32Types DEF sha1_ft, FipsF
<1> QED BY <1>1, <1>2, <1>3

-----------------------------------------------------------------------------
(* Rotation. *)

(* The bits of a half that comes from a and b, turned by n.                *)
Turned(n, A, B) == {k \in 0..15 : IF k >= n THEN k - n \in A ELSE k + (16 - n) \in B}

LEMMA ShiftedIs ==
  ASSUME NEW r \in Halves, NEW a, NEW b, NEW n \in 1..15,
         \A k \in 0..15 :
           Nth(r, Power(k)) = IF k >= n THEN Nth(a, Power(k - n)) ELSE Nth(b, Power(k + (16 - n)))
  PROVE  r = HalfOf(Turned(n, BitsOf(a), BitsOf(b)))
<1>1. ASSUME NEW k \in 0..15
      PROVE  k \in BitsOf(r) <=> k \in Turned(n, BitsOf(a), BitsOf(b))
  <2>1. CASE k >= n
    <3>1. k - n \in 0..15 BY <2>1
    <3> QED BY <2>1, <3>1, InBits DEF Turned
  <2>2. CASE ~(k >= n)
    <3>1. k + (16 - n) \in 0..15 BY <2>2
    <3> QED BY <2>2, <3>1, InBits DEF Turned
  <2> QED BY <2>1, <2>2
<1>2. BitsOf(r) = Turned(n, BitsOf(a), BitsOf(b)) BY <1>1, BitsType DEF Turned
<1> QED BY <1>2, HalfOfBits

Division(n, p, q, r) == n = p * q + r /\ r < p /\ q = n \div p /\ r = n % p
Divides(n, p) == \E q, r \in Nat : Division(n, p, q, r)

LEMMA DividedBy ==
  ASSUME NEW n \in Nat, NEW p \in {4, 2048, 32768}
  PROVE  Divides(n, p)
<1>1. PICK q, r : q = n \div p /\ r = n % p OBVIOUS
<1>2. q \in Nat /\ r \in Nat /\ n = p * q + r /\ r < p
  <2>1. CASE p = 4 BY <1>1, <2>1
  <2>2. CASE p = 2048 BY <1>1, <2>2
  <2>3. CASE p = 32768 BY <1>1, <2>3
  <2> QED BY <2>1, <2>2, <2>3
<1>3. Division(n, p, q, r) BY <1>1, <1>2 DEF Division
<1> QED BY <1>2, <1>3 DEF Divides

LEMMA Shift1 ==
  ASSUME NEW a \in Halves, NEW b \in Halves
  PROVE  (a % 32768) * 2 + b \div 32768 = HalfOf(Turned(1, BitsOf(a), BitsOf(b)))
<1>1. a \in Nat /\ b \in Nat /\ a < 65536 /\ b < 65536 BY DEF Halves
<1>2. PICK hi \in Nat, lo \in Nat : a = 32768 * hi + lo /\ lo < 32768 /\ lo = a % 32768
  <2>1. Divides(a, 32768) BY <1>1, DividedBy
  <2> QED BY <2>1 DEF Divides, Division
<1>3. PICK bh \in Nat, bl \in Nat : b = 32768 * bh + bl /\ bl < 32768 /\ bh = b \div 32768
  <2>1. Divides(b, 32768) BY <1>1, DividedBy
  <2> QED BY <2>1 DEF Divides, Division
<1>4. PICK r \in Nat : r = lo * 2 + bh OBVIOUS
<1>5. bh < 2 /\ r < 65536 BY <1>1, <1>2, <1>3, <1>4
<1>6. Nth(r, 1) = Nth(b, 32768)
  <2>1. b \div 32768 = bh \div 1 BY <1>3
  <2>2. r \div 1 = 2 * lo + bh \div 1 BY <1>4
  <2>3. (r \div 1) % 2 = (bh \div 1) % 2 BY <2>2
  <2> QED BY <2>1, <2>3 DEF Nth
<1>7. Nth(r, 2) = Nth(a, 1)
  <2>1. r \div 2 = lo \div 1 BY <1>4, <1>5
  <2>2. a \div 1 = 32768 * hi + lo \div 1 BY <1>2
  <2>3. (a \div 1) % 2 = (lo \div 1) % 2 BY <2>2
  <2> QED BY <2>1, <2>3 DEF Nth
<1>8. Nth(r, 4) = Nth(a, 2)
  <2>1. r \div 4 = lo \div 2 BY <1>4, <1>5
  <2>2. a \div 2 = 16384 * hi + lo \div 2 BY <1>2
  <2>3. (a \div 2) % 2 = (lo \div 2) % 2 BY <2>2
  <2> QED BY <2>1, <2>3 DEF Nth
<1>9. Nth(r, 8) = Nth(a, 4)
  <2>1. r \div 8 = lo \div 4 BY <1>4, <1>5
  <2>2. a \div 4 = 8192 * hi + lo \div 4 BY <1>2
  <2>3. (a \div 4) % 2 = (lo \div 4) % 2 BY <2>2
  <2> QED BY <2>1, <2>3 DEF Nth
<1>10. Nth(r, 16) = Nth(a, 8)
  <2>1. r \div 16 = lo \div 8 BY <1>4, <1>5
  <2>2. a \div 8 = 4096 * hi + lo \div 8 BY <1>2
  <2>3. (a \div 8) % 2 = (lo \div 8) % 2 BY <2>2
  <2> QED BY <2>1, <2>3 DEF Nth
<1>11. Nth(r, 32) = Nth(a, 16)
  <2>1. r \div 32 = lo \div 16 BY <1>4, <1>5
  <2>2. a \div 16 = 2048 * hi + lo \div 16 BY <1>2
  <2>3. (a \div 16) % 2 = (lo \div 16) % 2 BY <2>2
  <2> QED BY <2>1, <2>3 DEF Nth
<1>12. Nth(r, 64) = Nth(a, 32)
  <2>1. r \div 64 = lo \div 32 BY <1>4, <1>5
  <2>2. a \div 32 = 1024 * hi + lo \div 32 BY <1>2
  <2>3. (a \div 32) % 2 = (lo \div 32) % 2 BY <2>2
  <2> QED BY <2>1, <2>3 DEF Nth
<1>13. Nth(r, 128) = Nth(a, 64)
  <2>1. r \div 128 = lo \div 64 BY <1>4, <1>5
  <2>2. a \div 64 = 512 * hi + lo \div 64 BY <1>2
  <2>3. (a \div 64) % 2 = (lo \div 64) % 2 BY <2>2
  <2> QED BY <2>1, <2>3 DEF Nth
<1>14. Nth(r, 256) = Nth(a, 128)
  <2>1. r \div 256 = lo \div 128 BY <1>4, <1>5
  <2>2. a \div 128 = 256 * hi + lo \div 128 BY <1>2
  <2>3. (a \div 128) % 2 = (lo \div 128) % 2 BY <2>2
  <2> QED BY <2>1, <2>3 DEF Nth
<1>15. Nth(r, 512) = Nth(a, 256)
  <2>1. r \div 512 = lo \div 256 BY <1>4, <1>5
  <2>2. a \div 256 = 128 * hi + lo \div 256 BY <1>2
  <2>3. (a \div 256) % 2 = (lo \div 256) % 2 BY <2>2
  <2> QED BY <2>1, <2>3 DEF Nth
<1>16. Nth(r, 1024) = Nth(a, 512)
  <2>1. r \div 1024 = lo \div 512 BY <1>4, <1>5
  <2>2. a \div 512 = 64 * hi + lo \div 512 BY <1>2
  <2>3. (a \div 512) % 2 = (lo \div 512) % 2 BY <2>2
  <2> QED BY <2>1, <2>3 DEF Nth
<1>17. Nth(r, 2048) = Nth(a, 1024)
  <2>1. r \div 2048 = lo \div 1024 BY <1>4, <1>5
  <2>2. a \div 1024 = 32 * hi + lo \div 1024 BY <1>2
  <2>3. (a \div 1024) % 2 = (lo \div 1024) % 2 BY <2>2
  <2> QED BY <2>1, <2>3 DEF Nth
<1>18. Nth(r, 4096) = Nth(a, 2048)
  <2>1. r \div 4096 = lo \div 2048 BY <1>4, <1>5
  <2>2. a \div 2048 = 16 * hi + lo \div 2048 BY <1>2
  <2>3. (a \div 2048) % 2 = (lo \div 2048) % 2 BY <2>2
  <2> QED BY <2>1, <2>3 DEF Nth
<1>19. Nth(r, 8192) = Nth(a, 4096)
  <2>1. r \div 8192 = lo \div 4096 BY <1>4, <1>5
  <2>2. a \div 4096 = 8 * hi + lo \div 4096 BY <1>2
  <2>3. (a \div 4096) % 2 = (lo \div 4096) % 2 BY <2>2
  <2> QED BY <2>1, <2>3 DEF Nth
<1>20. Nth(r, 16384) = Nth(a, 8192)
  <2>1. r \div 16384 = lo \div 8192 BY <1>4, <1>5
  <2>2. a \div 8192 = 4 * hi + lo \div 8192 BY <1>2
  <2>3. (a \div 8192) % 2 = (lo \div 8192) % 2 BY <2>2
  <2> QED BY <2>1, <2>3 DEF Nth
<1>21. Nth(r, 32768) = Nth(a, 16384)
  <2>1. r \div 32768 = lo \div 16384 BY <1>4, <1>5
  <2>2. a \div 16384 = 2 * hi + lo \div 16384 BY <1>2
  <2>3. (a \div 16384) % 2 = (lo \div 16384) % 2 BY <2>2
  <2> QED BY <2>1, <2>3 DEF Nth
<1>22. ASSUME NEW k \in 0..15
       PROVE  Nth(r, Power(k)) =
                IF k >= 1 THEN Nth(a, Power(k - 1)) ELSE Nth(b, Power(k + (16 - 1)))
  <2>1. CASE k = 0
    <3>1. k + (16 - 1) = 15 BY <2>1
    <3> QED BY <2>1, <3>1, <1>6, PowerIs
  <2>2. CASE k = 1
    <3>1. k - 1 = 0 BY <2>2
    <3> QED BY <2>2, <3>1, <1>7, PowerIs
  <2>3. CASE k = 2
    <3>1. k - 1 = 1 BY <2>3
    <3> QED BY <2>3, <3>1, <1>8, PowerIs
  <2>4. CASE k = 3
    <3>1. k - 1 = 2 BY <2>4
    <3> QED BY <2>4, <3>1, <1>9, PowerIs
  <2>5. CASE k = 4
    <3>1. k - 1 = 3 BY <2>5
    <3> QED BY <2>5, <3>1, <1>10, PowerIs
  <2>6. CASE k = 5
    <3>1. k - 1 = 4 BY <2>6
    <3> QED BY <2>6, <3>1, <1>11, PowerIs
  <2>7. CASE k = 6
    <3>1. k - 1 = 5 BY <2>7
    <3> QED BY <2>7, <3>1, <1>12, PowerIs
  <2>8. CASE k = 7
    <3>1. k - 1 = 6 BY <2>8
    <3> QED BY <2>8, <3>1, <1>13, PowerIs
  <2>9. CASE k = 8
    <3>1. k - 1 = 7 BY <2>9
    <3> QED BY <2>9, <3>1, <1>14, PowerIs
  <2>10. CASE k = 9
    <3>1. k - 1 = 8 BY <2>10
    <3> QED BY <2>10, <3>1, <1>15, PowerIs
  <2>11. CASE k = 10
    <3>1. k - 1 = 9 BY <2>11
    <3> QED BY <2>11, <3>1, <1>16, PowerIs
  <2>12. CASE k = 11
    <3>1. k - 1 = 10 BY <2>12
    <3> QED BY <2>12, <3>1, <1>17, PowerIs
  <2>13. CASE k = 12
    <3>1. k - 1 = 11 BY <2>13
    <3> QED BY <2>13, <3>1, <1>18, PowerIs
  <2>14. CASE k = 13
    <3>1. k - 1 = 12 BY <2>14
    <3> QED BY <2>14, <3>1, <1>19, PowerIs
  <2>15. CASE k = 14
    <3>1. k - 1 = 13 BY <2>15
    <3> QED BY <2>15, <3>1, <1>20, PowerIs
  <2>16. CASE k = 15
    <3>1. k - 1 = 14 BY <2>16
    <3> QED BY <2>16, <3>1, <1>21, PowerIs
  <2> QED BY <2>1, <2>2, <2>3, <2>4, <2>5, <2>6, <2>7, <2>8, <2>9,
             <2>10, <2>11, <2>12, <2>13, <2>14, <2>15, <2>16
<1>23. r \in Halves BY <1>5 DEF Halves
<1>24. r = HalfOf(Turned(1, BitsOf(a), BitsOf(b))) BY <1>22, <1>23, ShiftedIs
<1> QED BY <1>2, <1>3, <1>4, <1>24

LEMMA Shift5 ==
  ASSUME NEW a \in Halves, NEW b \in Halves
  PROVE  (a % 2048) * 32 + b \div 2048 = HalfOf(Turned(5, BitsOf(a), BitsOf(b)))
<1>1. a \in Nat /\ b \in Nat /\ a < 65536 /\ b < 65536 BY DEF Halves
<1>2. PICK hi \in Nat, lo \in Nat : a = 2048 * hi + lo /\ lo < 2048 /\ lo = a % 2048
  <2>1. Divides(a, 2048) BY <1>1, DividedBy
  <2> QED BY <2>1 DEF Divides, Division
<1>3. PICK bh \in Nat, bl \in Nat : b = 2048 * bh + bl /\ bl < 2048 /\ bh = b \div 2048
  <2>1. Divides(b, 2048) BY <1>1, DividedBy
  <2> QED BY <2>1 DEF Divides, Division
<1>4. PICK r \in Nat : r = lo * 32 + bh OBVIOUS
<1>5. bh < 32 /\ r < 65536 BY <1>1, <1>2, <1>3, <1>4
<1>6. Nth(r, 1) = Nth(b, 2048)
  <2>1. b \div 2048 = bh \div 1 BY <1>3
  <2>2. r \div 1 = 32 * lo + bh \div 1 BY <1>4
  <2>3. (r \div 1) % 2 = (bh \div 1) % 2 BY <2>2
  <2> QED BY <2>1, <2>3 DEF Nth
<1>7. Nth(r, 2) = Nth(b, 4096)
  <2>1. b \div 4096 = bh \div 2 BY <1>3
  <2>2. r \div 2 = 16 * lo + bh \div 2 BY <1>4
  <2>3. (r \div 2) % 2 = (bh \div 2) % 2 BY <2>2
  <2> QED BY <2>1, <2>3 DEF Nth
<1>8. Nth(r, 4) = Nth(b, 8192)
  <2>1. b \div 8192 = bh \div 4 BY <1>3
  <2>2. r \div 4 = 8 * lo + bh \div 4 BY <1>4
  <2>3. (r \div 4) % 2 = (bh \div 4) % 2 BY <2>2
  <2> QED BY <2>1, <2>3 DEF Nth
<1>9. Nth(r, 8) = Nth(b, 16384)
  <2>1. b \div 16384 = bh \div 8 BY <1>3
  <2>2. r \div 8 = 4 * lo + bh \div 8 BY <1>4
  <2>3. (r \div 8) % 2 = (bh \div 8) % 2 BY <2>2
  <2> QED BY <2>1, <2>3 DEF Nth
<1>10. Nth(r, 16) = Nth(b, 32768)
  <2>1. b \div 32768 = bh \div 16 BY <1>3
  <2>2. r \div 16 = 2 * lo + bh \div 16 BY <1>4
  <2>3. (r \div 16) % 2 = (bh \div 16) % 2 BY <2>2
  <2> QED BY <2>1, <2>3 DEF Nth
<1>11. Nth(r, 32) = Nth(a, 1)
  <2>1. r \div 32 = lo \div 1 BY <1>4, <1>5
  <2>2. a \div 1 = 2048 * hi + lo \div 1 BY <1>2
  <2>3. (a \div 1) % 2 = (lo \div 1) % 2 BY <2>2
  <2> QED BY <2>1, <2>3 DEF Nth
<1>12. Nth(r, 64) = Nth(a, 2)
  <2>1. r \div 64 = lo \div 2 BY <1>4, <1>5
  <2>2. a \div 2 = 1024 * hi + lo \div 2 BY <1>2
  <2>3. (a \div 2) % 2 = (lo \div 2) % 2 BY <2>2
  <2> QED BY <2>1, <2>3 DEF Nth
<1>13. Nth(r, 128) = Nth(a, 4)
  <2>1. r \div 128 = lo \div 4 BY <1>4, <1>5
  <2>2. a \div 4 = 512 * hi + lo \div 4 BY <1>2
  <2>3. (a \div 4) % 2 = (lo \div 4) % 2 BY <2>2
  <2> QED BY <2>1, <2>3 DEF Nth
<1>14. Nth(r, 256) = Nth(a, 8)
  <2>1. r \div 256 = lo \div 8 BY <1>4, <1>5
  <2>2. a \div 8 = 256 * hi + lo \div 8 BY <1>2
  <2>3. (a \div 8) % 2 = (lo \div 8) % 2 BY <2>2
  <2> QED BY <2>1, <2>3 DEF Nth
<1>15. Nth(r, 512) = Nth(a, 16)
  <2>1. r \div 512 = lo \div 16 BY <1>4, <1>5
  <2>2. a \div 16 = 128 * hi + lo \div 16 BY <1>2
  <2>3. (a \div 16) % 2 = (lo \div 16) % 2 BY <2>2
  <2> QED BY <2>1, <2>3 DEF Nth
<1>16. Nth(r, 1024) = Nth(a, 32)
  <2>1. r \div 1024 = lo \div 32 BY <1>4, <1>5
  <2>2. a \div 32 = 64 * hi + lo \div 32 BY <1>2
  <2>3. (a \div 32) % 2 = (lo \div 32) % 2 BY <2>2
  <2> QED BY <2>1, <2>3 DEF Nth
<1>17. Nth(r, 2048) = Nth(a, 64)
  <2>1. r \div 2048 = lo \div 64 BY <1>4, <1>5
  <2>2. a \div 64 = 32 * hi + lo \div 64 BY <1>2
  <2>3. (a \div 64) % 2 = (lo \div 64) % 2 BY <2>2
  <2> QED BY <2>1, <2>3 DEF Nth
<1>18. Nth(r, 4096) = Nth(a, 128)
  <2>1. r \div 4096 = lo \div 128 BY <1>4, <1>5
  <2>2. a \div 128 = 16 * hi + lo \div 128 BY <1>2
  <2>3. (a \div 128) % 2 = (lo \div 128) % 2 BY <2>2
  <2> QED BY <2>1, <2>3 DEF Nth
<1>19. Nth(r, 8192) = Nth(a, 256)
  <2>1. r \div 8192 = lo \div 256 BY <1>4, <1>5
  <2>2. a \div 256 = 8 * hi + lo \div 256 BY <1>2
  <2>3. (a \div 256) % 2 = (lo \div 256) % 2 BY <2>2
  <2> QED BY <2>1, <2>3 DEF Nth
<1>20. Nth(r, 16384) = Nth(a, 512)
  <2>1. r \div 16384 = lo \div 512 BY <1>4, <1>5
  <2>2. a \div 512 = 4 * hi + lo \div 512 BY <1>2
  <2>3. (a \div 512) % 2 = (lo \div 512) % 2 BY <2>2
  <2> QED BY <2>1, <2>3 DEF Nth
<1>21. Nth(r, 32768) = Nth(a, 1024)
  <2>1. r \div 32768 = lo \div 1024 BY <1>4, <1>5
  <2>2. a \div 1024 = 2 * hi + lo \div 1024 BY <1>2
  <2>3. (a \div 1024) % 2 = (lo \div 1024) % 2 BY <2>2
  <2> QED BY <2>1, <2>3 DEF Nth
<1>22. ASSUME NEW k \in 0..15
       PROVE  Nth(r, Power(k)) =
                IF k >= 5 THEN Nth(a, Power(k - 5)) ELSE Nth(b, Power(k + (16 - 5)))
  <2>1. CASE k = 0
    <3>1. k + (16 - 5) = 11 BY <2>1
    <3> QED BY <2>1, <3>1, <1>6, PowerIs
  <2>2. CASE k = 1
    <3>1. k + (16 - 5) = 12 BY <2>2
    <3> QED BY <2>2, <3>1, <1>7, PowerIs
  <2>3. CASE k = 2
    <3>1. k + (16 - 5) = 13 BY <2>3
    <3> QED BY <2>3, <3>1, <1>8, PowerIs
  <2>4. CASE k = 3
    <3>1. k + (16 - 5) = 14 BY <2>4
    <3> QED BY <2>4, <3>1, <1>9, PowerIs
  <2>5. CASE k = 4
    <3>1. k + (16 - 5) = 15 BY <2>5
    <3> QED BY <2>5, <3>1, <1>10, PowerIs
  <2>6. CASE k = 5
    <3>1. k - 5 = 0 BY <2>6
    <3> QED BY <2>6, <3>1, <1>11, PowerIs
  <2>7. CASE k = 6
    <3>1. k - 5 = 1 BY <2>7
    <3> QED BY <2>7, <3>1, <1>12, PowerIs
  <2>8. CASE k = 7
    <3>1. k - 5 = 2 BY <2>8
    <3> QED BY <2>8, <3>1, <1>13, PowerIs
  <2>9. CASE k = 8
    <3>1. k - 5 = 3 BY <2>9
    <3> QED BY <2>9, <3>1, <1>14, PowerIs
  <2>10. CASE k = 9
    <3>1. k - 5 = 4 BY <2>10
    <3> QED BY <2>10, <3>1, <1>15, PowerIs
  <2>11. CASE k = 10
    <3>1. k - 5 = 5 BY <2>11
    <3> QED BY <2>11, <3>1, <1>16, PowerIs
  <2>12. CASE k = 11
    <3>1. k - 5 = 6 BY <2>12
    <3> QED BY <2>12, <3>1, <1>17, PowerIs
  <2>13. CASE k = 12
    <3>1. k - 5 = 7 BY <2>13
    <3> QED BY <2>13, <3>1, <1>18, PowerIs
  <2>14. CASE k = 13
    <3>1. k - 5 = 8 BY <2>14
    <3> QED BY <2>14, <3>1, <1>19, PowerIs
  <2>15. CASE k = 14
    <3>1. k - 5 = 9 BY <2>15
    <3> QED BY <2>15, <3>1, <1>20, PowerIs
  <2>16. CASE k = 15
    <3>1. k - 5 = 10 BY <2>16
    <3> QED BY <2>16, <3>1, <1>21, PowerIs
  <2> QED BY <2>1, <2>2, <2>3, <2>4, <2>5, <2>6, <2>7, <2>8, <2>9,
             <2>10, <2>11, <2>12, <2>13, <2>14, <2>15, <2>16
<1>23. r \in Halves BY <1>5 DEF Halves
<1>24. r = HalfOf(Turned(5, BitsOf(a), BitsOf(b))) BY <1>22, <1>23, ShiftedIs
<1> QED BY <1>2, <1>3, <1>4, <1>24

LEMMA Shift14 ==
  ASSUME NEW a \in Halves, NEW b \in Halves
  PROVE  (a % 4) * 16384 + b \div 4 = HalfOf(Turned(14, BitsOf(a), BitsOf(b)))
<1>1. a \in Nat /\ b \in Nat /\ a < 65536 /\ b < 65536 BY DEF Halves
<1>2. PICK hi \in Nat, lo \in Nat : a = 4 * hi + lo /\ lo < 4 /\ lo = a % 4
  <2>1. Divides(a, 4) BY <1>1, DividedBy
  <2> QED BY <2>1 DEF Divides, Division
<1>3. PICK bh \in Nat, bl \in Nat : b = 4 * bh + bl /\ bl < 4 /\ bh = b \div 4
  <2>1. Divides(b, 4) BY <1>1, DividedBy
  <2> QED BY <2>1 DEF Divides, Division
<1>4. PICK r \in Nat : r = lo * 16384 + bh OBVIOUS
<1>5. bh < 16384 /\ r < 65536 BY <1>1, <1>2, <1>3, <1>4
<1>6. Nth(r, 1) = Nth(b, 4)
  <2>1. b \div 4 = bh \div 1 BY <1>3
  <2>2. r \div 1 = 16384 * lo + bh \div 1 BY <1>4
  <2>3. (r \div 1) % 2 = (bh \div 1) % 2 BY <2>2
  <2> QED BY <2>1, <2>3 DEF Nth
<1>7. Nth(r, 2) = Nth(b, 8)
  <2>1. b \div 8 = bh \div 2 BY <1>3
  <2>2. r \div 2 = 8192 * lo + bh \div 2 BY <1>4
  <2>3. (r \div 2) % 2 = (bh \div 2) % 2 BY <2>2
  <2> QED BY <2>1, <2>3 DEF Nth
<1>8. Nth(r, 4) = Nth(b, 16)
  <2>1. b \div 16 = bh \div 4 BY <1>3
  <2>2. r \div 4 = 4096 * lo + bh \div 4 BY <1>4
  <2>3. (r \div 4) % 2 = (bh \div 4) % 2 BY <2>2
  <2> QED BY <2>1, <2>3 DEF Nth
<1>9. Nth(r, 8) = Nth(b, 32)
  <2>1. b \div 32 = bh \div 8 BY <1>3
  <2>2. r \div 8 = 2048 * lo + bh \div 8 BY <1>4
  <2>3. (r \div 8) % 2 = (bh \div 8) % 2 BY <2>2
  <2> QED BY <2>1, <2>3 DEF Nth
<1>10. Nth(r, 16) = Nth(b, 64)
  <2>1. b \div 64 = bh \div 16 BY <1>3
  <2>2. r \div 16 = 1024 * lo + bh \div 16 BY <1>4
  <2>3. (r \div 16) % 2 = (bh \div 16) % 2 BY <2>2
  <2> QED BY <2>1, <2>3 DEF Nth
<1>11. Nth(r, 32) = Nth(b, 128)
  <2>1. b \div 128 = bh \div 32 BY <1>3
  <2>2. r \div 32 = 512 * lo + bh \div 32 BY <1>4
  <2>3. (r \div 32) % 2 = (bh \div 32) % 2 BY <2>2
  <2> QED BY <2>1, <2>3 DEF Nth
<1>12. Nth(r, 64) = Nth(b, 256)
  <2>1. b \div 256 = bh \div 64 BY <1>3
  <2>2. r \div 64 = 256 * lo + bh \div 64 BY <1>4
  <2>3. (r \div 64) % 2 = (bh \div 64) % 2 BY <2>2
  <2> QED BY <2>1, <2>3 DEF Nth
<1>13. Nth(r, 128) = Nth(b, 512)
  <2>1. b \div 512 = bh \div 128 BY <1>3
  <2>2. r \div 128 = 128 * lo + bh \div 128 BY <1>4
  <2>3. (r \div 128) % 2 = (bh \div 128) % 2 BY <2>2
  <2> QED BY <2>1, <2>3 DEF Nth
<1>14. Nth(r, 256) = Nth(b, 1024)
  <2>1. b \div 1024 = bh \div 256 BY <1>3
  <2>2. r \div 256 = 64 * lo + bh \div 256 BY <1>4
  <2>3. (r \div 256) % 2 = (bh \div 256) % 2 BY <2>2
  <2> QED BY <2>1, <2>3 DEF Nth
<1>15. Nth(r, 512) = Nth(b, 2048)
  <2>1. b \div 2048 = bh \div 512 BY <1>3
  <2>2. r \div 512 = 32 * lo + bh \div 512 BY <1>4
  <2>3. (r \div 512) % 2 = (bh \div 512) % 2 BY <2>2
  <2> QED BY <2>1, <2>3 DEF Nth
<1>16. Nth(r, 1024) = Nth(b, 4096)
  <2>1. b \div 4096 = bh \div 1024 BY <1>3
  <2>2. r \div 1024 = 16 * lo + bh \div 1024 BY <1>4
  <2>3. (r \div 1024) % 2 = (bh \div 1024) % 2 BY <2>2
  <2> QED BY <2>1, <2>3 DEF Nth
<1>17. Nth(r, 2048) = Nth(b, 8192)
  <2>1. b \div 8192 = bh \div 2048 BY <1>3
  <2>2. r \div 2048 = 8 * lo + bh \div 2048 BY <1>4
  <2>3. (r \div 2048) % 2 = (bh \div 2048) % 2 BY <2>2
  <2> QED BY <2>1, <2>3 DEF Nth
<1>18. Nth(r, 4096) = Nth(b, 16384)
  <2>1. b \div 16384 = bh \div 4096 BY <1>3
  <2>2. r \div 4096 = 4 * lo + bh \div 4096 BY <1>4
  <2>3. (r \div 4096) % 2 = (bh \div 4096) % 2 BY <2>2
  <2> QED BY <2>1, <2>3 DEF Nth
<1>19. Nth(r, 8192) = Nth(b, 32768)
  <2>1. b \div 32768 = bh \div 8192 BY <1>3
  <2>2. r \div 8192 = 2 * lo + bh \div 8192 BY <1>4
  <2>3. (r \div 8192) % 2 = (bh \div 8192) % 2 BY <2>2
  <2> QED BY <2>1, <2>3 DEF Nth
<1>20. Nth(r, 16384) = Nth(a, 1)
  <2>1. r \div 16384 = lo \div 1 BY <1>4, <1>5
  <2>2. a \div 1 = 4 * hi + lo \div 1 BY <1>2
  <2>3. (a \div 1) % 2 = (lo \div 1) % 2 BY <2>2
  <2> QED BY <2>1, <2>3 DEF Nth
<1>21. Nth(r, 32768) = Nth(a, 2)
  <2>1. r \div 32768 = lo \div 2 BY <1>4, <1>5
  <2>2. a \div 2 = 2 * hi + lo \div 2 BY <1>2
  <2>3. (a \div 2) % 2 = (lo \div 2) % 2 BY <2>2
  <2> QED BY <2>1, <2>3 DEF Nth
<1>22. ASSUME NEW k \in 0..15
       PROVE  Nth(r, Power(k)) =
                IF k >= 14 THEN Nth(a, Power(k - 14)) ELSE Nth(b, Power(k + (16 - 14)))
  <2>1. CASE k = 0
    <3>1. k + (16 - 14) = 2 BY <2>1
    <3> QED BY <2>1, <3>1, <1>6, PowerIs
  <2>2. CASE k = 1
    <3>1. k + (16 - 14) = 3 BY <2>2
    <3> QED BY <2>2, <3>1, <1>7, PowerIs
  <2>3. CASE k = 2
    <3>1. k + (16 - 14) = 4 BY <2>3
    <3> QED BY <2>3, <3>1, <1>8, PowerIs
  <2>4. CASE k = 3
    <3>1. k + (16 - 14) = 5 BY <2>4
    <3> QED BY <2>4, <3>1, <1>9, PowerIs
  <2>5. CASE k = 4
    <3>1. k + (16 - 14) = 6 BY <2>5
    <3> QED BY <2>5, <3>1, <1>10, PowerIs
  <2>6. CASE k = 5
    <3>1. k + (16 - 14) = 7 BY <2>6
    <3> QED BY <2>6, <3>1, <1>11, PowerIs
  <2>7. CASE k = 6
    <3>1. k + (16 - 14) = 8 BY <2>7
    <3> QED BY <2>7, <3>1, <1>12, PowerIs
  <2>8. CASE k = 7
    <3>1. k + (16 - 14) = 9 BY <2>8
    <3> QED BY <2>8, <3>1, <1>13, PowerIs
  <2>9. CASE k = 8
    <3>1. k + (16 - 14) = 10 BY <2>9
    <3> QED BY <2>9, <3>1, <1>14, PowerIs
  <2>10. CASE k = 9
    <3>1. k + (16 - 14) = 11 BY <2>10
    <3> QED BY <2>10, <3>1, <1>15, PowerIs
  <2>11. CASE k = 10
    <3>1. k + (16 - 14) = 12 BY <2>11
    <3> QED BY <2>11, <3>1, <1>16, PowerIs
  <2>12. CASE k = 11
    <3>1. k + (16 - 14) = 13 BY <2>12
    <3> QED BY <2>12, <3>1, <1>17, PowerIs
  <2>13. CASE k = 12
    <3>1. k + (16 - 14) = 14 BY <2>13
    <3> QED BY <2>13, <3>1, <1>18, PowerIs
  <2>14. CASE k = 13
    <3>1. k + (16 - 14) = 15 BY <2>14
    <3> QED BY <2>14, <3>1, <1>19, PowerIs
  <2>15. CASE k = 14
    <3>1. k - 14 = 0 BY <2>15
    <3> QED BY <2>15, <3>1, <1>20, PowerIs
  <2>16. CASE k = 15
    <3>1. k - 14 = 1 BY <2>16
    <3> QED BY <2>16, <3>1, <1>21, PowerIs
  <2> QED BY <2>1, <2>2, <2>3, <2>4, <2>5, <2>6, <2>7, <2>8, <2>9,
             <2>10, <2>11, <2>12, <2>13, <2>14, <2>15, <2>16
<1>23. r \in Halves BY <1>5 DEF Halves
<1>24. r = HalfOf(Turned(14, BitsOf(a), BitsOf(b))) BY <1>22, <1>23, ShiftedIs
<1> QED BY <1>2, <1>3, <1>4, <1>24

(* The words of FipsRotate, by the bits of its halves.                     *)
Around(bits, n) == {(k + n) % 32 : k \in bits}

LEMMA TurnedBit ==
  ASSUME NEW bits \in SUBSET (0..31), NEW n \in 0..31, NEW j \in 0..31
  PROVE  j \in Around(bits, n) <=>
           IF j >= n THEN j - n \in bits ELSE j + (32 - n) \in bits
<1>1. ASSUME NEW k \in bits, j = (k + n) % 32
      PROVE  IF j >= n THEN j - n \in bits ELSE j + (32 - n) \in bits
  <2>1. k \in 0..31 OBVIOUS
  <2>2. CASE k + n < 32
    <3>1. j = k + n BY <1>1, <2>1, <2>2
    <3> QED BY <2>1, <3>1
  <2>3. CASE k + n >= 32
    <3>1. j = k + n - 32 BY <1>1, <2>1, <2>3
    <3>2. ~(j >= n) /\ j + (32 - n) = k BY <2>1, <3>1
    <3> QED BY <3>2
  <2> QED BY <2>1, <2>2, <2>3
<1>2. ASSUME j >= n, j - n \in bits PROVE \E k \in bits : j = (k + n) % 32
  <2>1. ((j - n) + n) % 32 = j OBVIOUS
  <2> QED BY <1>2, <2>1
<1>3. ASSUME ~(j >= n), j + (32 - n) \in bits PROVE \E k \in bits : j = (k + n) % 32
  <2>1. ((j + (32 - n)) + n) % 32 = j OBVIOUS
  <2> QED BY <1>3, <2>1
<1> QED BY <1>1, <1>2, <1>3 DEF Around

LEMMA LowTurned ==
  ASSUME NEW r \in Words, NEW n \in 1..15
  PROVE  FipsRotate(n, r) = <<HalfOf(Turned(n, BitsOf(r[1]), BitsOf(r[2]))),
                              HalfOf(Turned(n, BitsOf(r[2]), BitsOf(r[1])))>>
<1> DEFINE A == BitsOf(r[1])
           B == BitsOf(r[2])
           bits == B \cup {k + 16 : k \in A}
           turned == Around(bits, n)
<1>1. A \in SUBSET (0..15) /\ B \in SUBSET (0..15) BY BitsType
<1>2. FipsRotate(n, r) =
        <<HalfOf({k - 16 : k \in turned \cap 16..31}), HalfOf(turned \cap 0..15)>>
  BY DEF FipsRotate, Around
<1> HIDE DEF A, B
<1>3. bits \in SUBSET (0..31)
  <2>1. ASSUME NEW k \in A PROVE k + 16 \in 0..31 BY <1>1
  <2>2. ASSUME NEW k \in B PROVE k \in 0..31 BY <1>1
  <2> QED BY <2>1, <2>2
<1>4. \A k \in 0..31 : k \in bits <=> IF k < 16 THEN k \in B ELSE k - 16 \in A BY <1>1
<1> HIDE DEF bits
<1>5. turned \subseteq 0..31 BY <1>3 DEF Around
<1>6. \A j \in 0..31 : j \in turned <=>
                         IF j >= n THEN j - n \in bits ELSE j + (32 - n) \in bits
  BY <1>3, TurnedBit
<1> HIDE DEF turned
<1>7. ASSUME NEW j \in 0..15 PROVE j \in turned <=> j \in Turned(n, B, A)
  <2>1. CASE j >= n
    <3>1. j \in turned <=> j - n \in bits BY <1>6, <2>1
    <3>2. j - n \in 0..31 /\ j - n < 16 BY <2>1
    <3> QED BY <2>1, <3>1, <3>2, <1>4 DEF Turned
  <2>2. CASE ~(j >= n)
    <3>1. j \in turned <=> j + (32 - n) \in bits BY <1>6, <2>2
    <3>2. j + (32 - n) \in 0..31 /\ ~(j + (32 - n) < 16) BY <2>2
    <3>3. (j + (32 - n)) - 16 = j + (16 - n) OBVIOUS
    <3> QED BY <2>2, <3>1, <3>2, <3>3, <1>4 DEF Turned
  <2> QED BY <2>1, <2>2
<1>8. turned \cap 0..15 = Turned(n, B, A) BY <1>7 DEF Turned
<1>9. ASSUME NEW j \in 0..15 PROVE j + 16 \in turned <=> j \in Turned(n, A, B)
  <2>0. j + 16 \in 0..31 /\ j + 16 >= n /\ (j + 16 \in turned <=> (j + 16) - n \in bits)
    BY <1>6
  <2>1. CASE j >= n
    <3>1. (j + 16) - n \in 0..31 /\ ~((j + 16) - n < 16) BY <2>1
    <3>2. ((j + 16) - n) - 16 = j - n OBVIOUS
    <3> QED BY <2>0, <2>1, <3>1, <3>2, <1>4 DEF Turned
  <2>2. CASE ~(j >= n)
    <3>1. (j + 16) - n \in 0..31 /\ (j + 16) - n < 16 BY <2>2
    <3>2. (j + 16) - n = j + (16 - n) OBVIOUS
    <3> QED BY <2>0, <2>2, <3>1, <3>2, <1>4 DEF Turned
  <2> QED BY <2>1, <2>2
<1>10. {k - 16 : k \in turned \cap 16..31} = Turned(n, A, B)
  <2>1. ASSUME NEW k \in turned \cap 16..31 PROVE k - 16 \in Turned(n, A, B)
    <3>1. k - 16 \in 0..15 /\ (k - 16) + 16 = k OBVIOUS
    <3> QED BY <3>1, <1>9
  <2>2. ASSUME NEW j \in Turned(n, A, B) PROVE \E k \in turned \cap 16..31 : j = k - 16
    <3>1. j \in 0..15 BY DEF Turned
    <3>2. j + 16 \in turned \cap 16..31 /\ j = (j + 16) - 16 BY <3>1, <1>9
    <3> QED BY <3>2
  <2> QED BY <2>1, <2>2
<1> QED BY <1>2, <1>8, <1>10 DEF A, B

LEMMA HighTurned ==
  ASSUME NEW r \in Words, NEW n \in 17..31, NEW c, c = n - 16
  PROVE  FipsRotate(n, r) = <<HalfOf(Turned(c, BitsOf(r[2]), BitsOf(r[1]))),
                              HalfOf(Turned(c, BitsOf(r[1]), BitsOf(r[2])))>>
<1> DEFINE A == BitsOf(r[1])
           B == BitsOf(r[2])
           bits == B \cup {k + 16 : k \in A}
           turned == Around(bits, n)
<1>1. A \in SUBSET (0..15) /\ B \in SUBSET (0..15) BY BitsType
<1>2. FipsRotate(n, r) =
        <<HalfOf({k - 16 : k \in turned \cap 16..31}), HalfOf(turned \cap 0..15)>>
  BY DEF FipsRotate, Around
<1> HIDE DEF A, B
<1>3. bits \in SUBSET (0..31)
  <2>1. ASSUME NEW k \in A PROVE k + 16 \in 0..31 BY <1>1
  <2>2. ASSUME NEW k \in B PROVE k \in 0..31 BY <1>1
  <2> QED BY <2>1, <2>2
<1>4. \A k \in 0..31 : k \in bits <=> IF k < 16 THEN k \in B ELSE k - 16 \in A BY <1>1
<1> HIDE DEF bits
<1>5. turned \subseteq 0..31 BY <1>3 DEF Around
<1>6. \A j \in 0..31 : j \in turned <=>
                         IF j >= n THEN j - n \in bits ELSE j + (32 - n) \in bits
  BY <1>3, TurnedBit
<1> HIDE DEF turned
<1>7. ASSUME NEW j \in 0..15 PROVE j \in turned <=> j \in Turned(c, A, B)
  <2>0. j \in turned <=> j + (32 - n) \in bits BY <1>6
  <2>1. CASE j >= c
    <3>1. j + (32 - n) \in 0..31 /\ ~(j + (32 - n) < 16) BY <2>1
    <3>2. (j + (32 - n)) - 16 = j - c OBVIOUS
    <3> QED BY <2>0, <2>1, <3>1, <3>2, <1>4 DEF Turned
  <2>2. CASE ~(j >= c)
    <3>1. j + (32 - n) \in 0..31 /\ j + (32 - n) < 16 BY <2>2
    <3>2. j + (32 - n) = j + (16 - c) OBVIOUS
    <3> QED BY <2>0, <2>2, <3>1, <3>2, <1>4 DEF Turned
  <2> QED BY <2>1, <2>2
<1>8. turned \cap 0..15 = Turned(c, A, B) BY <1>7 DEF Turned
<1>9. ASSUME NEW j \in 0..15 PROVE j + 16 \in turned <=> j \in Turned(c, B, A)
  <2>1. CASE j >= c
    <3>1. j + 16 \in turned <=> (j + 16) - n \in bits BY <1>6, <2>1
    <3>2. (j + 16) - n \in 0..31 /\ (j + 16) - n < 16 /\ (j + 16) - n = j - c BY <2>1
    <3> QED BY <2>1, <3>1, <3>2, <1>4 DEF Turned
  <2>2. CASE ~(j >= c)
    <3>1. j + 16 \in turned <=> (j + 16) + (32 - n) \in bits BY <1>6, <2>2
    <3>2. /\ (j + 16) + (32 - n) \in 0..31 /\ ~((j + 16) + (32 - n) < 16)
          /\ ((j + 16) + (32 - n)) - 16 = j + (16 - c)
      BY <2>2
    <3> QED BY <2>2, <3>1, <3>2, <1>4 DEF Turned
  <2> QED BY <2>1, <2>2
<1>10. {k - 16 : k \in turned \cap 16..31} = Turned(c, B, A)
  <2>1. ASSUME NEW k \in turned \cap 16..31 PROVE k - 16 \in Turned(c, B, A)
    <3>1. k - 16 \in 0..15 /\ (k - 16) + 16 = k OBVIOUS
    <3> QED BY <3>1, <1>9
  <2>2. ASSUME NEW j \in Turned(c, B, A) PROVE \E k \in turned \cap 16..31 : j = k - 16
    <3>1. j \in 0..15 BY DEF Turned
    <3>2. j + 16 \in turned \cap 16..31 /\ j = (j + 16) - 16 BY <3>1, <1>9
    <3> QED BY <3>2
  <2> QED BY <2>1, <2>2
<1> QED BY <1>2, <1>8, <1>10 DEF A, B

(* The code turns a word as the standard does, by the three counts it uses. *)
LEMMA RotationIs ==
  ASSUME NEW r \in Words, NEW n \in {1, 5, 30}
  PROVE  bit_rol(r, n) = FipsRotate(n, r) /\ bit_rol(r, n) \in Words
<1>0. r[1] \in Halves /\ r[2] \in Halves BY WordParts
<1>1. CASE n = 1
  <2>1. bit_rol(r, 1) = <<(r[1] % 32768) * 2 + r[2] \div 32768,
                          (r[2] % 32768) * 2 + r[1] \div 32768>>
    BY Powers DEF bit_rol, Half
  <2>2. 1 \in 1..15 OBVIOUS
  <2>3. bit_rol(r, 1) = FipsRotate(1, r) BY <1>0, <2>1, <2>2, Shift1, LowTurned
  <2>4. FipsRotate(1, r) \in Words BY <2>2, LowTurned, HalfType DEF Words
  <2> QED BY <1>1, <2>3, <2>4
<1>2. CASE n = 5
  <2>1. bit_rol(r, 5) = <<(r[1] % 2048) * 32 + r[2] \div 2048,
                          (r[2] % 2048) * 32 + r[1] \div 2048>>
    BY Powers DEF bit_rol, Half
  <2>2. 5 \in 1..15 OBVIOUS
  <2>3. bit_rol(r, 5) = FipsRotate(5, r) BY <1>0, <2>1, <2>2, Shift5, LowTurned
  <2>4. FipsRotate(5, r) \in Words BY <2>2, LowTurned, HalfType DEF Words
  <2> QED BY <1>2, <2>3, <2>4
<1>3. CASE n = 30
  <2>1. bit_rol(r, 30) = <<(r[2] % 4) * 16384 + r[1] \div 4,
                           (r[1] % 4) * 16384 + r[2] \div 4>>
    BY Powers DEF bit_rol, Half
  <2>2. 30 \in 17..31 /\ 14 = 30 - 16 OBVIOUS
  <2>3. bit_rol(r, 30) = FipsRotate(30, r) BY <1>0, <2>1, <2>2, Shift14, HighTurned
  <2>4. FipsRotate(30, r) \in Words BY <2>2, HighTurned, HalfType DEF Words
  <2> QED BY <1>3, <2>3, <2>4
<1> QED BY <1>1, <1>2, <1>3

-----------------------------------------------------------------------------
(* Sums and constants.                                                     *)

LEMMA Carried ==
  ASSUME NEW n \in Nat, n < 2 * 65536
  PROVE  /\ n \div 65536 = IF n >= 65536 THEN 1 ELSE 0
         /\ n % 65536 = IF n >= 65536 THEN n - 65536 ELSE n
<1>1. CASE n >= 65536 BY <1>1
<1>2. CASE ~(n >= 65536) BY <1>2
<1> QED BY <1>1, <1>2

LEMMA AddIs ==
  ASSUME NEW a \in Words, NEW b \in Words
  PROVE  safe_add(a, b) = FipsAdd(a, b) /\ safe_add(a, b) \in Words
<1>1. /\ a[1] \in Halves /\ a[2] \in Halves /\ b[1] \in Halves /\ b[2] \in Halves
  BY WordParts
<1>2. a[2] + b[2] \in Nat /\ a[2] + b[2] < 2 * 65536 BY <1>1 DEF Halves
<1>3. (a[2] + b[2]) \div 65536 = IF a[2] + b[2] >= 65536 THEN 1 ELSE 0 BY <1>2, Carried
<1>4. safe_add(a, b) = FipsAdd(a, b) BY <1>3 DEF safe_add, FipsAdd, Half
<1>5. ASSUME NEW n \in Nat PROVE n % 65536 \in Halves BY DEF Halves
<1>6. /\ (a[2] + b[2]) % 65536 \in Halves
      /\ a[1] + b[1] + (IF a[2] + b[2] >= 65536 THEN 1 ELSE 0) \in Nat
  BY <1>1, <1>2, <1>5 DEF Halves
<1>7. FipsAdd(a, b) \in Words BY <1>5, <1>6 DEF FipsAdd, Half, Words
<1> QED BY <1>4, <1>7

(* The half that a sum leaves, and its carry.                              *)
LowOf(n) == n % 65536
HighOf(n) == n \div 65536

LEMMA HalvesOf ==
  ASSUME NEW a \in Nat, NEW b \in Nat
  PROVE  /\ LowOf(a) \in Nat /\ HighOf(a) \in Nat
         /\ LowOf(LowOf(a) + b) = LowOf(a + b)
         /\ HighOf(a) + HighOf(LowOf(a) + b) = HighOf(a + b)
BY DEF LowOf, HighOf

LEMMA AddParts ==
  ASSUME NEW a \in Words, NEW b \in Words
  PROVE  /\ FipsAdd(a, b)[2] = LowOf(a[2] + b[2])
         /\ FipsAdd(a, b)[1] = LowOf(a[1] + b[1] + HighOf(a[2] + b[2]))
<1>1. safe_add(a, b)[2] = LowOf(a[2] + b[2]) BY DEF safe_add, Half, LowOf
<1>2. safe_add(a, b)[1] = LowOf(a[1] + b[1] + HighOf(a[2] + b[2]))
  BY DEF safe_add, Half, LowOf, HighOf
<1> QED BY <1>1, <1>2, AddIs

(* The code adds e, the word and k from the left, the standard from the    *)
(* right.                                                                  *)
LEMMA AddedFromTheLeft ==
  ASSUME NEW a \in Words, NEW b \in Words, NEW c \in Words
  PROVE  FipsAdd(FipsAdd(a, b), c) = FipsAdd(a, FipsAdd(b, c))
<1> DEFINE d == FipsAdd(a, b)
           f == FipsAdd(b, c)
           l == FipsAdd(d, c)
           r == FipsAdd(a, f)
<1>1. d \in Words /\ f \in Words BY AddIs
<1>2. l \in Words /\ r \in Words BY <1>1, AddIs
<1>3. PICK a1 \in Nat, a2 \in Nat : a1 = a[1] /\ a2 = a[2] BY WordParts DEF Halves
<1>4. PICK b1 \in Nat, b2 \in Nat : b1 = b[1] /\ b2 = b[2] BY WordParts DEF Halves
<1>5. PICK c1 \in Nat, c2 \in Nat : c1 = c[1] /\ c2 = c[2] BY WordParts DEF Halves
<1>6. d[2] = LowOf(a2 + b2) /\ d[1] = LowOf(a1 + b1 + HighOf(a2 + b2))
  BY <1>3, <1>4, AddParts
<1>7. f[2] = LowOf(b2 + c2) /\ f[1] = LowOf(b1 + c1 + HighOf(b2 + c2))
  BY <1>4, <1>5, AddParts
<1> HIDE DEF d, f
<1>8. l[2] = LowOf(d[2] + c2) /\ l[1] = LowOf(d[1] + c1 + HighOf(d[2] + c2))
  BY <1>1, <1>5, AddParts
<1>9. r[2] = LowOf(a2 + f[2]) /\ r[1] = LowOf(a1 + f[1] + HighOf(a2 + f[2]))
  BY <1>1, <1>3, AddParts
<1> HIDE DEF l, r
<1>10. a2 + b2 \in Nat /\ b2 + c2 \in Nat OBVIOUS
<1>a. PICK m \in Nat, p \in Nat : m = LowOf(a2 + b2) /\ p = HighOf(a2 + b2)
  BY <1>10, HalvesOf
<1>b. PICK n \in Nat, t \in Nat : n = LowOf(b2 + c2) /\ t = HighOf(b2 + c2)
  BY <1>10, HalvesOf
<1>c. m + c2 \in Nat /\ n + a2 \in Nat OBVIOUS
<1>d. PICK q \in Nat, u \in Nat : q = HighOf(m + c2) /\ u = HighOf(n + a2)
  BY <1>c, HalvesOf
<1>11. /\ m = LowOf(a2 + b2) /\ n = LowOf(b2 + c2)
       /\ p = HighOf(a2 + b2) /\ q = HighOf(m + c2)
       /\ t = HighOf(b2 + c2) /\ u = HighOf(n + a2)
  BY <1>a, <1>b, <1>d
<1>12. a2 + n = n + a2 /\ b2 + c2 + a2 = a2 + b2 + c2 OBVIOUS
<1>13. /\ LowOf(m + c2) = LowOf(a2 + b2 + c2) /\ p + q = HighOf(a2 + b2 + c2)
       /\ LowOf(n + a2) = LowOf(b2 + c2 + a2) /\ t + u = HighOf(b2 + c2 + a2)
  BY <1>10, <1>11, HalvesOf
<1>14. l[2] = r[2] /\ p + q = t + u BY <1>6, <1>7, <1>8, <1>9, <1>11, <1>12, <1>13
<1>15. PICK g \in Nat, h \in Nat : g = LowOf(a1 + b1 + p) /\ h = LowOf(b1 + c1 + t)
  <2>1. a1 + b1 + p \in Nat /\ b1 + c1 + t \in Nat OBVIOUS
  <2> QED BY <2>1, HalvesOf
<1>16. LowOf(g + (c1 + q)) = LowOf(a1 + b1 + p + (c1 + q))
  <2>1. a1 + b1 + p \in Nat /\ c1 + q \in Nat OBVIOUS
  <2> QED BY <2>1, <1>15, HalvesOf
<1>17. LowOf(h + (a1 + u)) = LowOf(b1 + c1 + t + (a1 + u))
  <2>1. b1 + c1 + t \in Nat /\ a1 + u \in Nat OBVIOUS
  <2> QED BY <2>1, <1>15, HalvesOf
<1>18. a1 + b1 + p + (c1 + q) = b1 + c1 + t + (a1 + u) BY <1>14
<1>19. g + c1 + q = g + (c1 + q) /\ a1 + h + u = h + (a1 + u) OBVIOUS
<1>20. l[1] = LowOf(g + c1 + q) /\ r[1] = LowOf(a1 + h + u)
  BY <1>6, <1>7, <1>8, <1>9, <1>11, <1>12, <1>15
<1>21. l[1] = r[1] BY <1>16, <1>17, <1>18, <1>19, <1>20
<1>22. l = <<l[1], l[2]>> /\ r = <<r[1], r[2]>> BY <1>2 DEF Words
<1> QED BY <1>14, <1>21, <1>22 DEF l, r, d, f

LEMMA WordType ==
  ASSUME NEW n \in Int
  PROVE  Word(n) \in Words
<1>1. ASSUME NEW m \in Int PROVE m % 65536 \in Halves BY DEF Halves
<1>2. n \div 65536 \in Int OBVIOUS
<1> QED BY <1>1, <1>2 DEF Word, Half, Words

(* The halves of a number: q is -1 where the code has a negative constant.  *)
LEMMA WordOf ==
  ASSUME NEW q \in {-1, 0}, NEW a \in Halves, NEW b \in Halves
  PROVE  Word(65536 * (65536 * q + a) + b) = <<a, b>>
<1>1. PICK c \in Nat, d \in Nat : c = a /\ d = b /\ c < 65536 /\ d < 65536 BY DEF Halves
<1>2. q \in Int OBVIOUS
<1>3. (65536 * (65536 * q + c) + d) \div 65536 = 65536 * q + c BY <1>1, <1>2
<1>4. (65536 * (65536 * q + c) + d) % 65536 = d BY <1>1, <1>2
<1>5. (65536 * q + c) % 65536 = c BY <1>1, <1>2
<1> QED BY <1>1, <1>3, <1>4, <1>5 DEF Word, Half

LEMMA ZeroIs == Zero = << 0, 0 >> /\ Zero \in Words
BY DEF Zero, Word, Half, Words, Halves

(* The constants of the code, some of them negative, are those of the      *)
(* standard.                                                               *)
LEMMA ConstantIs ==
  ASSUME NEW t \in 0..79
  PROVE  sha1_kt(t) = FipsK(t) /\ FipsK(t) \in Words
<1>1. CASE t < 20
  <2>1. t \div 20 + 1 = 1 BY <1>1
  <2>2. sha1_kt(t) = Word(1518500249) BY <1>1 DEF sha1_kt
  <2>3. Word(1518500249) = << 23170, 31129 >>
    <3>1. 65536 * (65536 * (0) + 23170) + 31129 = 1518500249 BY SMT
    <3>2. 23170 \in Halves /\ 31129 \in Halves BY SMT DEF Halves
    <3> QED BY <3>1, <3>2, WordOf, SMT
  <2>4. FipsK(t) = << 23170, 31129 >> BY <2>1 DEF FipsK
  <2> QED BY <2>2, <2>3, <2>4, WordType
<1>2. CASE t \in 20..39
  <2>1. t \div 20 + 1 = 2 BY <1>2
  <2>2. sha1_kt(t) = Word(1859775393) BY <1>2 DEF sha1_kt
  <2>3. Word(1859775393) = << 28377, 60321 >>
    <3>1. 65536 * (65536 * (0) + 28377) + 60321 = 1859775393 BY SMT
    <3>2. 28377 \in Halves /\ 60321 \in Halves BY SMT DEF Halves
    <3> QED BY <3>1, <3>2, WordOf, SMT
  <2>4. FipsK(t) = << 28377, 60321 >> BY <2>1 DEF FipsK
  <2> QED BY <2>2, <2>3, <2>4, WordType
<1>3. CASE t \in 40..59
  <2>1. t \div 20 + 1 = 3 BY <1>3
  <2>2. sha1_kt(t) = Word(-1894007588) BY <1>3 DEF sha1_kt
  <2>3. Word(-1894007588) = << 36635, 48348 >>
    <3>1. 65536 * (65536 * (-1) + 36635) + 48348 = -1894007588 BY SMT
    <3>2. 36635 \in Halves /\ 48348 \in Halves BY SMT DEF Halves
    <3> QED BY <3>1, <3>2, WordOf, SMT
  <2>4. FipsK(t) = << 36635, 48348 >> BY <2>1 DEF FipsK
  <2> QED BY <2>2, <2>3, <2>4, WordType
<1>4. CASE t \in 60..79
  <2>1. t \div 20 + 1 = 4 BY <1>4
  <2>2. sha1_kt(t) = Word(-899497514) BY <1>4 DEF sha1_kt
  <2>3. Word(-899497514) = << 51810, 49622 >>
    <3>1. 65536 * (65536 * (-1) + 51810) + 49622 = -899497514 BY SMT
    <3>2. 51810 \in Halves /\ 49622 \in Halves BY SMT DEF Halves
    <3> QED BY <3>1, <3>2, WordOf, SMT
  <2>4. FipsK(t) = << 51810, 49622 >> BY <2>1 DEF FipsK
  <2> QED BY <2>2, <2>3, <2>4, WordType
<1> QED BY <1>1, <1>2, <1>3, <1>4

(* Five words: the registers, and a digest.                                *)
Registers == Words \X Words \X Words \X Words \X Words

LEMMA FirstRegisters == H0 = FipsH0 /\ H0 \in Registers
<1>a. Word(1732584193) = << 26437, 8961 >>
  <2>1. 65536 * (65536 * (0) + 26437) + 8961 = 1732584193 BY SMT
  <2>2. 26437 \in Halves /\ 8961 \in Halves BY SMT DEF Halves
  <2> QED BY <2>1, <2>2, WordOf, SMT
<1>b. Word(-271733879) = << 61389, 43913 >>
  <2>1. 65536 * (65536 * (-1) + 61389) + 43913 = -271733879 BY SMT
  <2>2. 61389 \in Halves /\ 43913 \in Halves BY SMT DEF Halves
  <2> QED BY <2>1, <2>2, WordOf, SMT
<1>c. Word(-1732584194) = << 39098, 56574 >>
  <2>1. 65536 * (65536 * (-1) + 39098) + 56574 = -1732584194 BY SMT
  <2>2. 39098 \in Halves /\ 56574 \in Halves BY SMT DEF Halves
  <2> QED BY <2>1, <2>2, WordOf, SMT
<1>d. Word(271733878) = << 4146, 21622 >>
  <2>1. 65536 * (65536 * (0) + 4146) + 21622 = 271733878 BY SMT
  <2>2. 4146 \in Halves /\ 21622 \in Halves BY SMT DEF Halves
  <2> QED BY <2>1, <2>2, WordOf, SMT
<1>e. Word(-1009589776) = << 50130, 57840 >>
  <2>1. 65536 * (65536 * (-1) + 50130) + 57840 = -1009589776 BY SMT
  <2>2. 50130 \in Halves /\ 57840 \in Halves BY SMT DEF Halves
  <2> QED BY <2>1, <2>2, WordOf, SMT
<1>2. H0 = FipsH0 BY <1>a, <1>b, <1>c, <1>d, <1>e DEF H0, FipsH0
<1>3. H0 \in Registers BY WordType DEF H0, Registers
<1> QED BY <1>2, <1>3

-----------------------------------------------------------------------------
(* Halves of two bytes.                                                    *)

LEMMA NoDigits ==
  /\ Nth(0, 1) = 0 /\ Nth(0, 2) = 0 /\ Nth(0, 4) = 0 /\ Nth(0, 8) = 0
BY DEF Nth

LEMMA SplitByte ==
  ASSUME NEW b \in Octets
  PROVE  \E l, h \in 0..15 : b = l + 16 * h
<1>1. b % 16 \in 0..15 /\ b \div 16 \in 0..15 /\ b = (b % 16) + 16 * (b \div 16)
  BY DEF Octets
<1> DEFINE l == b % 16
           h == b \div 16
<1>2. l \in 0..15 /\ h \in 0..15 /\ b = l + 16 * h BY <1>1
<1> HIDE DEF l, h
<1> QED BY <1>2

(* The bits of two bytes: those of the high byte are 8 further.            *)
TwoBytes(n, h, l) ==
  \A k \in 0..15 : k \in BitsOf(n) <=> IF k < 8 THEN k \in BitsOf(l) ELSE k - 8 \in BitsOf(h)

LEMMA OctetBits ==
  ASSUME NEW h \in Octets, NEW l \in Octets
  PROVE  /\ 256 * h + l \in Halves
         /\ TwoBytes(256 * h + l, h, l)
         /\ BitsOf(l) \subseteq 0..7
<1> DEFINE n == 256 * h + l
<1>0. n \in Halves /\ n \in Int /\ h \in Int /\ l \in Int BY DEF Octets, Halves
<1>1. PICK a \in 0..15, b \in 0..15 : l = a + 16 * b BY SplitByte
<1>2. PICK c \in 0..15, d \in 0..15 : h = c + 16 * d BY SplitByte
<1>3. PICK z \in 0..15 : z = 0 OBVIOUS
<1>4. OfNibbles(n, a, b, c, d) BY <1>1, <1>2 DEF OfNibbles
<1>5. OfNibbles(l, a, b, z, z) /\ OfNibbles(h, c, d, z, z)
  BY <1>1, <1>2, <1>3 DEF OfNibbles
<1> HIDE DEF n
<1>6. SameDigits(n, a, b, c, d) BY <1>0, <1>4, FourNibbles, Zenon
<1>7. SameDigits(l, a, b, z, z) BY <1>0, <1>5, FourNibbles, Zenon
<1>8. SameDigits(h, c, d, z, z) BY <1>0, <1>5, FourNibbles, Zenon
<1>9. /\ \A k \in 0..7 : Nth(n, Power(k)) = Nth(l, Power(k))
      /\ \A k \in 8..15 : Nth(n, Power(k)) = Nth(h, Power(k - 8)) /\ Nth(l, Power(k)) = 0
  <2>1. ASSUME NEW k \in 0..7 PROVE Nth(n, Power(k)) = Nth(l, Power(k))
    <3>1. CASE k = 0 BY <3>1, <1>6, <1>7, PowerIs DEF SameDigits
    <3>2. CASE k = 1 BY <3>2, <1>6, <1>7, PowerIs DEF SameDigits
    <3>3. CASE k = 2 BY <3>3, <1>6, <1>7, PowerIs DEF SameDigits
    <3>4. CASE k = 3 BY <3>4, <1>6, <1>7, PowerIs DEF SameDigits
    <3>5. CASE k = 4 BY <3>5, <1>6, <1>7, PowerIs DEF SameDigits
    <3>6. CASE k = 5 BY <3>6, <1>6, <1>7, PowerIs DEF SameDigits
    <3>7. CASE k = 6 BY <3>7, <1>6, <1>7, PowerIs DEF SameDigits
    <3>8. CASE k = 7 BY <3>8, <1>6, <1>7, PowerIs DEF SameDigits
    <3> QED BY <3>1, <3>2, <3>3, <3>4, <3>5, <3>6, <3>7, <3>8
  <2>2. ASSUME NEW k \in 8..15
        PROVE  Nth(n, Power(k)) = Nth(h, Power(k - 8)) /\ Nth(l, Power(k)) = 0
    <3>0. PICK j \in 0..7 : j = k - 8 /\ k = j + 8 OBVIOUS
    <3> USE NoDigits, PowerIs, <1>3
    <3>1. CASE j = 0 BY <3>0, <3>1, <1>6, <1>7, <1>8, 0 + 8 = 8 DEF SameDigits
    <3>2. CASE j = 1 BY <3>0, <3>2, <1>6, <1>7, <1>8, 1 + 8 = 9 DEF SameDigits
    <3>3. CASE j = 2 BY <3>0, <3>3, <1>6, <1>7, <1>8, 2 + 8 = 10 DEF SameDigits
    <3>4. CASE j = 3 BY <3>0, <3>4, <1>6, <1>7, <1>8, 3 + 8 = 11 DEF SameDigits
    <3>5. CASE j = 4 BY <3>0, <3>5, <1>6, <1>7, <1>8, 4 + 8 = 12 DEF SameDigits
    <3>6. CASE j = 5 BY <3>0, <3>6, <1>6, <1>7, <1>8, 5 + 8 = 13 DEF SameDigits
    <3>7. CASE j = 6 BY <3>0, <3>7, <1>6, <1>7, <1>8, 6 + 8 = 14 DEF SameDigits
    <3>8. CASE j = 7 BY <3>0, <3>8, <1>6, <1>7, <1>8, 7 + 8 = 15 DEF SameDigits
    <3> QED BY <3>1, <3>2, <3>3, <3>4, <3>5, <3>6, <3>7, <3>8
  <2> QED BY <2>1, <2>2
<1>10. TwoBytes(n, h, l)
  <2>1. ASSUME NEW k \in 0..15
        PROVE  k \in BitsOf(n) <=> IF k < 8 THEN k \in BitsOf(l) ELSE k - 8 \in BitsOf(h)
    <3>1. CASE k < 8 BY <3>1, <1>9, InBits
    <3>2. CASE ~(k < 8)
      <4>1. k \in 8..15 /\ k - 8 \in 0..15 BY <3>2
      <4>2. k \in BitsOf(n) <=> k - 8 \in BitsOf(h) BY <4>1, <1>9, InBits
      <4> QED BY <3>2, <4>2
    <3> QED BY <3>1, <3>2
  <2> QED BY <2>1 DEF TwoBytes
<1>11. BitsOf(l) \subseteq 0..7
  <2>1. ASSUME NEW k \in BitsOf(l) PROVE k \in 0..7
    <3>1. k \in 0..15 BY BitsType
    <3>2. k \notin 8..15 BY <3>1, <1>9, InBits
    <3> QED BY <3>1, <3>2
  <2> QED BY <2>1
<1> QED BY <1>0, <1>10, <1>11 DEF n

LEMMA OctetOfBits ==
  ASSUME NEW bits \in SUBSET (0..7)
  PROVE  HalfOf(bits) \in Octets
<1>1. Nibble(bits, 8) = 0
  <2>1. 8 \notin bits /\ 8 + 1 \notin bits /\ 8 + 2 \notin bits /\ 8 + 3 \notin bits OBVIOUS
  <2> QED BY <2>1 DEF Nibble, Bit
<1>2. Nibble(bits, 12) = 0
  <2>1. 12 \notin bits /\ 12 + 1 \notin bits /\ 12 + 2 \notin bits /\ 12 + 3 \notin bits
    OBVIOUS
  <2> QED BY <2>1 DEF Nibble, Bit
<1>3. PICK a \in 0..15, b \in 0..15 : a = Nibble(bits, 0) /\ b = Nibble(bits, 4)
  BY NibbleIs
<1>4. HalfOf(bits) = a + 16 * b BY <1>1, <1>2, <1>3 DEF HalfOf
<1> QED BY <1>4 DEF Octets

LEMMA XorOctets ==
  ASSUME NEW a \in Octets, NEW b \in Octets, NEW c \in Octets, NEW d \in Octets
  PROVE  /\ Xor16(a, c) \in Octets
         /\ Xor16(256 * a + b, 256 * c + d) = 256 * Xor16(a, c) + Xor16(b, d)
<1> DEFINE e == Xor16(a, c)
           f == Xor16(b, d)
           m == 256 * a + b
           n == 256 * c + d
           o == 256 * e + f
           p == Xor16(m, n)
<1>1. ASSUME NEW g \in Octets, NEW h \in Octets
      PROVE  /\ Xor16(g, h) \in Octets
             /\ BitsOf(Xor16(g, h)) = (BitsOf(g) \ BitsOf(h)) \cup (BitsOf(h) \ BitsOf(g))
  <2>1. BitsOf(g) \subseteq 0..7 /\ BitsOf(h) \subseteq 0..7 BY OctetBits
  <2>2. (BitsOf(g) \ BitsOf(h)) \cup (BitsOf(h) \ BitsOf(g)) \in SUBSET (0..7) BY <2>1
  <2> QED BY <2>2, OctetOfBits, Xor16Bits DEF Xor16
<1>2. /\ e \in Octets /\ BitsOf(e) = (BitsOf(a) \ BitsOf(c)) \cup (BitsOf(c) \ BitsOf(a))
      /\ f \in Octets /\ BitsOf(f) = (BitsOf(b) \ BitsOf(d)) \cup (BitsOf(d) \ BitsOf(b))
  BY <1>1
<1>3. p \in Halves /\ BitsOf(p) = (BitsOf(m) \ BitsOf(n)) \cup (BitsOf(n) \ BitsOf(m))
  BY Xor16Bits
<1> HIDE DEF e, f
<1>4. o \in Halves /\ TwoBytes(o, e, f) /\ TwoBytes(m, a, b) /\ TwoBytes(n, c, d)
  BY <1>2, OctetBits
<1> HIDE DEF m, n, o, p
<1>5. ASSUME NEW k \in 0..15 PROVE k \in BitsOf(o) <=> k \in BitsOf(p)
  <2>1. CASE k < 8 BY <2>1, <1>2, <1>3, <1>4 DEF TwoBytes
  <2>2. CASE ~(k < 8)
    <3>1. /\ k \in BitsOf(o) <=> k - 8 \in BitsOf(e)
          /\ k \in BitsOf(m) <=> k - 8 \in BitsOf(a)
          /\ k \in BitsOf(n) <=> k - 8 \in BitsOf(c)
      BY <2>2, <1>4 DEF TwoBytes
    <3> QED BY <3>1, <1>2, <1>3
  <2> QED BY <2>1, <2>2
<1>6. BitsOf(o) = BitsOf(p)
  <2>1. BitsOf(o) \subseteq 0..15 /\ BitsOf(p) \subseteq 0..15 BY BitsType
  <2> QED BY <2>1, <1>5
<1>7. o = p BY <1>3, <1>4, <1>6, SameBits
<1> QED BY <1>2, <1>7 DEF e, f, m, n, o, p

LEMMA ZeroBits == 0 \in Octets /\ 0 \in Halves /\ BitsOf(0) = {}
<1>1. HalfOf({}) = 0 BY DEF HalfOf, Nibble, Bit
<1>2. {} \in SUBSET (0..15) OBVIOUS
<1>3. BitsOf(0) = {} BY <1>1, <1>2, BitsOfHalf
<1> QED BY <1>3 DEF Octets, Halves

LEMMA OrZero ==
  ASSUME NEW h \in Halves
  PROVE  Or16(h, 0) = h /\ Or16(0, h) = h
<1>1. BitsOf(h) \cup {} = BitsOf(h) /\ {} \cup BitsOf(h) = BitsOf(h) OBVIOUS
<1> QED BY <1>1, ZeroBits, HalfOfBits DEF Or16

(* A byte after the last of a half.                                        *)
LEMMA OrOctets ==
  ASSUME NEW h \in Octets, NEW l \in Octets
  PROVE  Or16(256 * h + 0, l) = 256 * h + l
<1> DEFINE m == 256 * h + 0
           o == 256 * h + l
           p == Or16(m, l)
           z == 0
<1>1. p \in Halves /\ BitsOf(p) = BitsOf(m) \cup BitsOf(l) BY Or16Bits
<1>2. TwoBytes(m, h, z) BY ZeroBits, OctetBits
<1>3. o \in Halves /\ TwoBytes(o, h, l) /\ BitsOf(l) \subseteq 0..7 BY OctetBits
<1>4. BitsOf(z) = {} BY ZeroBits
<1> HIDE DEF m, o, p, z
<1>5. ASSUME NEW k \in 0..15 PROVE k \in BitsOf(o) <=> k \in BitsOf(p)
  <2>1. CASE k < 8 BY <2>1, <1>1, <1>2, <1>3, <1>4 DEF TwoBytes
  <2>2. CASE ~(k < 8)
    <3>1. /\ k \in BitsOf(o) <=> k - 8 \in BitsOf(h)
          /\ k \in BitsOf(m) <=> k - 8 \in BitsOf(h)
      BY <2>2, <1>2, <1>3 DEF TwoBytes
    <3>2. k \notin BitsOf(l) BY <2>2, <1>3
    <3> QED BY <3>1, <3>2, <1>1
  <2> QED BY <2>1, <2>2
<1>6. BitsOf(o) = BitsOf(p)
  <2>1. BitsOf(o) \subseteq 0..15 /\ BitsOf(p) \subseteq 0..15 BY BitsType
  <2> QED BY <2>1, <1>5
<1>7. o = p BY <1>1, <1>3, <1>6, SameBits
<1> QED BY <1>7 DEF m, o, p

-----------------------------------------------------------------------------
(* Raw strings and words.                                                  *)

RawStrings == Seq(Octets)

(* Word n of a raw string.                                                 *)
WordAt(r, n) ==
  <<256 * CharAt(r, 4*n - 3) + CharAt(r, 4*n - 2),
    256 * CharAt(r, 4*n - 1) + CharAt(r, 4*n)>>

LEMMA CharType ==
  ASSUME NEW r \in RawStrings, NEW k \in Int
  PROVE  /\ CharAt(r, k) \in Octets
         /\ k \in 1..Len(r) => CharAt(r, k) = r[k]
         /\ k \notin 1..Len(r) => CharAt(r, k) = 0
<1>1. CASE k \in 1..Len(r)
  <2>1. r[k] \in Nat /\ r[k] < 256 BY <1>1 DEF RawStrings, Octets
  <2>2. r[k] % 256 = r[k] BY <2>1
  <2> QED BY <1>1, <2>1, <2>2 DEF CharAt, Octets
<1>2. CASE k \notin 1..Len(r) BY <1>2 DEF CharAt, Octets
<1> QED BY <1>1, <1>2

LEMMA CharInside ==
  ASSUME NEW r \in RawStrings, NEW k \in 1..Len(r)
  PROVE  CharAt(r, k) = r[k]
<1>1. k \in Int BY DEF RawStrings
<1> QED BY <1>1, CharType

LEMMA TwoOctets ==
  ASSUME NEW a \in Octets, NEW b \in Octets
  PROVE  /\ 256 * a + b \in Halves
         /\ (256 * a + b) \div 256 = a /\ (256 * a + b) % 256 = b
BY DEF Octets, Halves

LEMMA OctetsOf ==
  ASSUME NEW h \in Halves, NEW a, a = h \div 256, NEW b, b = h % 256
  PROVE  a \in Octets /\ b \in Octets /\ h = 256 * a + b
<1>1. h \in Nat /\ h < 65536 BY DEF Halves
<1>2. PICK c \in Nat, d \in Nat : h = 256 * c + d /\ d < 256 /\ c = h \div 256 /\ d = h % 256
  BY <1>1
<1>3. c < 256 BY <1>1, <1>2
<1> QED BY <1>2, <1>3 DEF Octets

LEMMA WordAtType ==
  ASSUME NEW r \in RawStrings, NEW n \in Int
  PROVE  WordAt(r, n) \in Words
<1>1. 4*n - 3 \in Int /\ 4*n - 2 \in Int /\ 4*n - 1 \in Int /\ 4*n \in Int OBVIOUS
<1>2. /\ CharAt(r, 4*n - 3) \in Octets /\ CharAt(r, 4*n - 2) \in Octets
      /\ CharAt(r, 4*n - 1) \in Octets /\ CharAt(r, 4*n) \in Octets
  BY <1>1, CharType
<1> QED BY <1>2, TwoOctets DEF WordAt, Words

LEMMA WordsOfString ==
  ASSUME NEW r \in RawStrings
  PROVE  /\ rstr2binb(r) \in Seq(Words)
         /\ Len(rstr2binb(r)) = (Len(r) + 3) \div 4
         /\ \A n \in 1..((Len(r) + 3) \div 4) : rstr2binb(r)[n] = WordAt(r, n)
<1> DEFINE q == (Len(r) + 3) \div 4
<1>1. Len(r) \in Nat /\ q \in Nat BY DEF RawStrings
<1>2. rstr2binb(r) = [n \in 1..q |-> WordAt(r, n)] BY DEF rstr2binb, WordAt
<1>3. \A n \in 1..q : WordAt(r, n) \in Words BY <1>1, WordAtType
<1> HIDE DEF q
<1> QED BY <1>1, <1>2, <1>3 DEF q

(* Equal words: for the strings that the lemmas below make of them.        *)
LEMMA SameWords ==
  ASSUME NEW r \in RawStrings, NEW b \in Seq(Words), Len(b) = (Len(r) + 3) \div 4,
         \A n \in 1..Len(b) : b[n] = WordAt(r, n)
  PROVE  b = rstr2binb(r)
<1>1. /\ rstr2binb(r) \in Seq(Words) /\ Len(rstr2binb(r)) = Len(b)
      /\ \A n \in 1..Len(b) : rstr2binb(r)[n] = WordAt(r, n)
  BY WordsOfString
<1> QED BY <1>1

LEMMA Quarter ==
  ASSUME NEW q \in Nat, NEW k \in 1..(4 * q)
  PROVE  (k + 3) \div 4 \in 1..q /\ k \in Nat
OBVIOUS

Placed(k, n) ==
  /\ n \in Int
  /\ \/ k % 4 = 1 /\ k % 2 = 1 /\ k = 4*n - 3
     \/ k % 4 = 2 /\ k % 2 = 0 /\ k = 4*n - 2
     \/ k % 4 = 3 /\ k % 2 = 1 /\ k = 4*n - 1
     \/ k % 4 = 0 /\ k % 2 = 0 /\ k = 4*n

LEMMA PlaceInWord ==
  ASSUME NEW k \in Nat, NEW n, n = (k + 3) \div 4
  PROVE  Placed(k, n)
<1>1. n \in Int OBVIOUS
<1>2. k = 4*n - 3 \/ k = 4*n - 2 \/ k = 4*n - 1 \/ k = 4*n OBVIOUS
<1>3. PICK m \in Int : m = n BY <1>1
<1>4. CASE k = 4*n - 3
  <2>1. (4*m - 3) % 4 = 1 /\ (4*m - 3) % 2 = 1 OBVIOUS
  <2> QED BY <1>1, <1>3, <1>4, <2>1 DEF Placed
<1>5. CASE k = 4*n - 2
  <2>1. (4*m - 2) % 4 = 2 /\ (4*m - 2) % 2 = 0 OBVIOUS
  <2> QED BY <1>1, <1>3, <1>5, <2>1 DEF Placed
<1>6. CASE k = 4*n - 1
  <2>1. (4*m - 1) % 4 = 3 /\ (4*m - 1) % 2 = 1 OBVIOUS
  <2> QED BY <1>1, <1>3, <1>6, <2>1 DEF Placed
<1>7. CASE k = 4*n
  <2>1. (4*m) % 4 = 0 /\ (4*m) % 2 = 0 OBVIOUS
  <2> QED BY <1>1, <1>3, <1>7, <2>1 DEF Placed
<1> QED BY <1>1, <1>2, <1>4, <1>5, <1>6, <1>7

(* Byte k of words.                                                        *)
ByteOf(b, k) ==
  LET h == b[(k + 3) \div 4] IN
  CASE k % 4 = 1 -> h[1] \div 256 [] k % 4 = 2 -> h[1] % 256
    [] k % 4 = 3 -> h[2] \div 256 [] OTHER -> h[2] % 256

LEMMA ByteType ==
  ASSUME NEW b \in Seq(Words), NEW k \in 1..(4 * Len(b))
  PROVE  ByteOf(b, k) \in Octets
<1>1. (k + 3) \div 4 \in 1..Len(b) /\ k % 4 \in {0, 1, 2, 3} BY Quarter
<1>2. b[(k + 3) \div 4] \in Words BY <1>1
<1>3. /\ b[(k + 3) \div 4][1] \in Halves /\ b[(k + 3) \div 4][2] \in Halves
  BY <1>2, WordParts
<1> QED BY <1>1, <1>3, OctetsOf DEF ByteOf

LEMMA BytesOfWords ==
  ASSUME NEW b \in Seq(Words)
  PROVE  /\ binb2rstr(b) = FipsBytes(b) /\ FipsBytes(b) \in RawStrings
         /\ Len(FipsBytes(b)) = 4 * Len(b)
         /\ \A k \in 1..(4 * Len(b)) : FipsBytes(b)[k] = ByteOf(b, k)
<1> DEFINE m == 4 * Len(b)
<1>1. m \in Nat OBVIOUS
<1>2. FipsBytes(b) = [k \in 1..m |-> ByteOf(b, k)] BY DEF FipsBytes, ByteOf
<1>3. binb2rstr(b) = [k \in 1..m |-> ByteOf(b, k)]
  <2> DEFINE c(k) == LET h == b[(k + 3) \div 4][IF k % 4 \in {1, 2} THEN 1 ELSE 2]
                     IN IF k % 2 = 1 THEN h \div 256 ELSE h % 256
  <2>1. ASSUME NEW k \in 1..m PROVE c(k) = ByteOf(b, k)
    <3>0. PICK n : n = (k + 3) \div 4 OBVIOUS
    <3>a. k \in Nat BY <1>1
    <3>1. \/ k % 4 = 1 /\ k % 2 = 1
          \/ k % 4 = 2 /\ k % 2 = 0
          \/ k % 4 = 3 /\ k % 2 = 1
          \/ k % 4 = 0 /\ k % 2 = 0
      <4>1. Placed(k, n) BY <3>0, <3>a, PlaceInWord
      <4> QED BY <4>1 DEF Placed
    <3> QED BY <3>1 DEF ByteOf
  <2>2. binb2rstr(b) = [k \in 1..m |-> c(k)] BY DEF binb2rstr
  <2> HIDE DEF c
  <2> QED BY <2>1, <2>2
<1>4. \A k \in 1..m : ByteOf(b, k) \in Octets BY ByteType
<1> HIDE DEF m
<1>5. FipsBytes(b) \in RawStrings /\ Len(FipsBytes(b)) = m BY <1>1, <1>2, <1>4 DEF RawStrings
<1> QED BY <1>2, <1>3, <1>5 DEF m

(* Words, their bytes, and words again.                                    *)
LEMMA WordsOfBytes ==
  ASSUME NEW b \in Seq(Words)
  PROVE  rstr2binb(FipsBytes(b)) = b
<1> DEFINE r == FipsBytes(b)
<1>1. /\ r \in RawStrings /\ Len(r) = 4 * Len(b)
      /\ \A k \in 1..(4 * Len(b)) : r[k] = ByteOf(b, k)
  BY BytesOfWords
<1> HIDE DEF r
<1>2. (Len(r) + 3) \div 4 = Len(b) BY <1>1
<1>3. ASSUME NEW n \in 1..Len(b) PROVE b[n] = WordAt(r, n)
  <2>1. /\ 4*n - 3 \in 1..Len(r) /\ 4*n - 2 \in 1..Len(r)
        /\ 4*n - 1 \in 1..Len(r) /\ 4*n \in 1..Len(r)
    BY <1>1
  <2>2. /\ CharAt(r, 4*n - 3) = ByteOf(b, 4*n - 3) /\ CharAt(r, 4*n - 2) = ByteOf(b, 4*n - 2)
        /\ CharAt(r, 4*n - 1) = ByteOf(b, 4*n - 1) /\ CharAt(r, 4*n) = ByteOf(b, 4*n)
    BY <2>1, <1>1, CharType
  <2>3. ASSUME NEW k, k \in {4*n - 3, 4*n - 2, 4*n - 1, 4*n} PROVE (k + 3) \div 4 = n
    BY <2>3
  <2>4. (4*n - 3) % 4 = 1 /\ (4*n - 2) % 4 = 2 /\ (4*n - 1) % 4 = 3 /\ (4*n) % 4 = 0
    OBVIOUS
  <2>a. ByteOf(b, 4*n - 3) = b[n][1] \div 256
    <3>1. PICK k : k = 4*n - 3 OBVIOUS
    <3>2. (k + 3) \div 4 = n /\ k % 4 = 1 BY <3>1, <2>3, <2>4
    <3>3. ByteOf(b, k) = b[n][1] \div 256 BY <3>2 DEF ByteOf
    <3> QED BY <3>1, <3>3
  <2>b. ByteOf(b, 4*n - 2) = b[n][1] % 256
    <3>1. PICK k : k = 4*n - 2 OBVIOUS
    <3>2. (k + 3) \div 4 = n /\ k % 4 = 2 BY <3>1, <2>3, <2>4
    <3>3. ByteOf(b, k) = b[n][1] % 256 BY <3>2 DEF ByteOf
    <3> QED BY <3>1, <3>3
  <2>c. ByteOf(b, 4*n - 1) = b[n][2] \div 256
    <3>1. PICK k : k = 4*n - 1 OBVIOUS
    <3>2. (k + 3) \div 4 = n /\ k % 4 = 3 BY <3>1, <2>3, <2>4
    <3>3. ByteOf(b, k) = b[n][2] \div 256 BY <3>2 DEF ByteOf
    <3> QED BY <3>1, <3>3
  <2>d. ByteOf(b, 4*n) = b[n][2] % 256
    <3>1. PICK k : k = 4*n OBVIOUS
    <3>2. (k + 3) \div 4 = n /\ k % 4 = 0 BY <3>1, <2>3, <2>4
    <3>3. ByteOf(b, k) = b[n][2] % 256 BY <3>2 DEF ByteOf
    <3> QED BY <3>1, <3>3
  <2>5. /\ ByteOf(b, 4*n - 3) = b[n][1] \div 256 /\ ByteOf(b, 4*n - 2) = b[n][1] % 256
        /\ ByteOf(b, 4*n - 1) = b[n][2] \div 256 /\ ByteOf(b, 4*n) = b[n][2] % 256
    BY <2>a, <2>b, <2>c, <2>d
  <2>6. b[n] \in Words OBVIOUS
  <2>7. b[n][1] \in Halves /\ b[n][2] \in Halves /\ b[n] = <<b[n][1], b[n][2]>>
    BY <2>6, WordParts
  <2> DEFINE p == b[n][1]
             q == b[n][2]
  <2>8. /\ CharAt(r, 4*n - 3) = p \div 256 /\ CharAt(r, 4*n - 2) = p % 256
        /\ CharAt(r, 4*n - 1) = q \div 256 /\ CharAt(r, 4*n) = q % 256
        /\ p \in Halves /\ q \in Halves
    BY <2>2, <2>5, <2>7
  <2>9. /\ p = 256 * CharAt(r, 4*n - 3) + CharAt(r, 4*n - 2)
        /\ q = 256 * CharAt(r, 4*n - 1) + CharAt(r, 4*n)
    BY <2>8, OctetsOf
  <2>10. b[n] = <<p, q>> BY <2>7
  <2> HIDE DEF p, q
  <2> QED BY <2>9, <2>10 DEF WordAt
<1>4. b = rstr2binb(r) BY <1>1, <1>2, <1>3, SameWords
<1> QED BY <1>4 DEF r

(* A string of whole words, and its bytes again.                           *)
LEMMA BytesOfString ==
  ASSUME NEW t \in RawStrings, NEW b \in Seq(Words), Len(t) = 4 * Len(b),
         \A n \in 1..Len(b) : b[n] = WordAt(t, n)
  PROVE  binb2rstr(b) = t
<1> DEFINE r == binb2rstr(b)
<1>1. /\ r \in RawStrings /\ Len(r) = 4 * Len(b)
      /\ \A k \in 1..(4 * Len(b)) : r[k] = ByteOf(b, k)
  BY BytesOfWords
<1> HIDE DEF r
<1>2. ASSUME NEW k \in 1..Len(t) PROVE r[k] = t[k]
  <2>0. Len(b) \in Nat /\ k \in 1..(4 * Len(b)) OBVIOUS
  <2>n. PICK n : n = (k + 3) \div 4 OBVIOUS
  <2>1. /\ n \in 1..Len(b) /\ n \in Int
        /\ \/ k % 4 = 1 /\ k = 4*n - 3
           \/ k % 4 = 2 /\ k = 4*n - 2
           \/ k % 4 = 3 /\ k = 4*n - 1
           \/ k % 4 = 0 /\ k = 4*n
    <3>1. n \in 1..Len(b) /\ k \in Nat BY <2>0, <2>n, Quarter
    <3>2. Placed(k, n) BY <3>1, <2>n, PlaceInWord
    <3> QED BY <3>1, <3>2 DEF Placed
  <2>2. ByteOf(b, k) = CASE k % 4 = 1 -> b[n][1] \div 256 [] k % 4 = 2 -> b[n][1] % 256
                         [] k % 4 = 3 -> b[n][2] \div 256 [] OTHER -> b[n][2] % 256
    BY <2>n DEF ByteOf
  <2>3. b[n] = WordAt(t, n) BY <2>1
  <2>4. /\ 4*n - 3 \in 1..Len(t) /\ 4*n - 2 \in 1..Len(t)
        /\ 4*n - 1 \in 1..Len(t) /\ 4*n \in 1..Len(t)
    BY <2>1
  <2>5. /\ CharAt(t, 4*n - 3) \in Octets /\ CharAt(t, 4*n - 2) \in Octets
        /\ CharAt(t, 4*n - 1) \in Octets /\ CharAt(t, 4*n) \in Octets
        /\ CharAt(t, 4*n - 3) = t[4*n - 3] /\ CharAt(t, 4*n - 2) = t[4*n - 2]
        /\ CharAt(t, 4*n - 1) = t[4*n - 1] /\ CharAt(t, 4*n) = t[4*n]
    <3>1. 4*n - 3 \in Int /\ 4*n - 2 \in Int /\ 4*n - 1 \in Int /\ 4*n \in Int BY <2>1
    <3> QED BY <3>1, <2>4, CharType
  <2>6. /\ b[n][1] \div 256 = t[4*n - 3] /\ b[n][1] % 256 = t[4*n - 2]
        /\ b[n][2] \div 256 = t[4*n - 1] /\ b[n][2] % 256 = t[4*n]
    BY <2>3, <2>5, TwoOctets DEF WordAt
  <2>7. ByteOf(b, k) = t[k]
    <3>1. CASE k % 4 = 1
      <4>1. k = 4*n - 3 BY <3>1, <2>1
      <4>2. ByteOf(b, k) = b[n][1] \div 256 BY <3>1, <2>2
      <4> QED BY <4>1, <4>2, <2>6
    <3>2. CASE k % 4 = 2
      <4>1. k = 4*n - 2 BY <3>2, <2>1
      <4>2. ByteOf(b, k) = b[n][1] % 256 BY <3>2, <2>2
      <4> QED BY <4>1, <4>2, <2>6
    <3>3. CASE k % 4 = 3
      <4>1. k = 4*n - 1 BY <3>3, <2>1
      <4>2. ByteOf(b, k) = b[n][2] \div 256 BY <3>3, <2>2
      <4> QED BY <4>1, <4>2, <2>6
    <3>4. CASE k % 4 = 0
      <4>1. k = 4*n BY <3>4, <2>1
      <4>2. ByteOf(b, k) = b[n][2] % 256 BY <3>4, <2>2
      <4> QED BY <4>1, <4>2, <2>6
    <3> QED BY <3>1, <3>2, <3>3, <3>4, <2>1
  <2> QED BY <2>7, <1>1
<1>3. r = t BY <1>1, <1>2 DEF RawStrings
<1> QED BY <1>3 DEF r

Joined(r, a, b) ==
  /\ r \in RawStrings /\ Len(r) = Len(a) + Len(b)
  /\ \A k \in Nat \ {0} :
       CharAt(r, k) = IF k <= Len(a) THEN CharAt(a, k) ELSE CharAt(b, k - Len(a))

LEMMA JoinedStrings ==
  ASSUME NEW a \in RawStrings, NEW b \in RawStrings
  PROVE  Joined(a \o b, a, b)
<1>1. /\ a \o b \in Seq(Octets) /\ Len(a \o b) = Len(a) + Len(b)
      /\ Len(a) \in Nat /\ Len(b) \in Nat
  BY DEF RawStrings
<1>2. ASSUME NEW k \in Nat \ {0}
      PROVE  CharAt(a \o b, k) = IF k <= Len(a) THEN CharAt(a, k) ELSE CharAt(b, k - Len(a))
  <2>2. CASE k <= Len(a)
    <3>1. k \in 1..Len(a) /\ k \in 1..Len(a \o b) BY <1>1, <2>2
    <3>2. (a \o b)[k] = a[k] BY <3>1 DEF RawStrings
    <3> QED BY <1>1, <2>2, <3>1, <3>2 DEF CharAt, RawStrings
  <2>3. CASE ~(k <= Len(a)) /\ k <= Len(a) + Len(b)
    <3>1. k - Len(a) \in 1..Len(b) /\ k \in 1..Len(a \o b) BY <1>1, <2>3
    <3>2. (a \o b)[k] = b[k - Len(a)] BY <1>1, <2>3, <3>1 DEF RawStrings
    <3> QED BY <1>1, <2>3, <3>1, <3>2 DEF CharAt, RawStrings
  <2>4. CASE k > Len(a) + Len(b)
    <3>1. k - Len(a) \notin 1..Len(b) /\ k \notin 1..Len(a \o b) /\ ~(k <= Len(a))
      BY <1>1, <2>4
    <3> QED BY <1>1, <3>1 DEF CharAt, RawStrings
  <2> QED BY <1>1, <2>2, <2>3, <2>4
<1> QED BY <1>1, <1>2 DEF RawStrings, Joined

(* A block, and a string after it.                                         *)
Glued(a, b) ==
  /\ Len(a \o b) = Len(a) + Len(b)
  /\ \A n \in 1..Len(b) : (a \o b)[Len(a) + n] = b[n]

LEMMA GluedIs ==
  ASSUME NEW S, NEW a \in Seq(S), NEW b \in Seq(S)
  PROVE  Glued(a, b)
BY DEF Glued

LEMMA JoinedWords ==
  ASSUME NEW a \in RawStrings, NEW b \in RawStrings, Len(a) = 64
  PROVE  rstr2binb(a \o b) = rstr2binb(a) \o rstr2binb(b)
<1> DEFINE r == a \o b
           c == rstr2binb(a)
           d == rstr2binb(b)
           e == c \o d
<1>1. /\ Len(b) \in Nat /\ (Len(a) + 3) \div 4 = 16
      /\ (64 + Len(b) + 3) \div 4 = 16 + (Len(b) + 3) \div 4
      /\ (Len(b) + 3) \div 4 \in Nat
  BY DEF RawStrings
<1>a. c \in Seq(Words) /\ Len(c) = 16 /\ \A n \in 1..16 : c[n] = WordAt(a, n)
  <2>1. /\ c \in Seq(Words) /\ Len(c) = (Len(a) + 3) \div 4
        /\ \A n \in 1..((Len(a) + 3) \div 4) : c[n] = WordAt(a, n)
    BY WordsOfString
  <2> QED BY <1>1, <2>1
<1>b. /\ d \in Seq(Words) /\ Len(d) = (Len(b) + 3) \div 4
      /\ \A n \in 1..Len(d) : d[n] = WordAt(b, n)
  <2>1. /\ d \in Seq(Words) /\ Len(d) = (Len(b) + 3) \div 4
        /\ \A n \in 1..((Len(b) + 3) \div 4) : d[n] = WordAt(b, n)
    BY WordsOfString
  <2> QED BY <2>1
<1>j. Joined(r, a, b) BY JoinedStrings
<1>3. r \in RawStrings /\ Len(r) = 64 + Len(b) BY <1>j DEF Joined
<1>4. ASSUME NEW k \in Nat \ {0}
      PROVE  CharAt(r, k) = IF k <= 64 THEN CharAt(a, k) ELSE CharAt(b, k - 64)
  BY <1>j DEF Joined
<1> HIDE DEF r, c, d
<1>2. /\ c \in Seq(Words) /\ Len(c) = 16 /\ \A n \in 1..16 : c[n] = WordAt(a, n)
      /\ d \in Seq(Words) /\ Len(d) = (Len(b) + 3) \div 4
      /\ \A n \in 1..Len(d) : d[n] = WordAt(b, n)
  BY <1>a, <1>b
<1>5. e \in Seq(Words) /\ Len(e) = 16 + Len(d) /\ Len(d) \in Nat
  <2>1. c \in Seq(Words) /\ d \in Seq(Words) /\ Len(c) = 16 BY <1>2
  <2>2. e \in Seq(Words) BY <2>1, ConcatProperties
  <2>3. Len(e) = Len(c) + Len(d)
    <3>1. c \in Seq(Words) /\ d \in Seq(Words) BY <2>1
    <3> HIDE DEF e
    <3>2. Glued(c, d) BY <3>1, GluedIs
    <3> QED BY <3>2 DEF Glued, e
  <2>4. Len(d) \in Nat BY <2>1
  <2> QED BY <2>1, <2>2, <2>3, <2>4
<1>6. Len(e) = (Len(r) + 3) \div 4 BY <1>1, <1>2, <1>3, <1>5
<1>7. ASSUME NEW n \in 1..Len(e) PROVE e[n] = WordAt(r, n)
  <2>0. /\ 4*n - 3 \in Nat \ {0} /\ 4*n - 2 \in Nat \ {0}
        /\ 4*n - 1 \in Nat \ {0} /\ 4*n \in Nat \ {0}
    BY <1>5
  <2>1. CASE n <= 16
    <3>1. 4*n - 3 <= 64 /\ 4*n - 2 <= 64 /\ 4*n - 1 <= 64 /\ 4*n <= 64 BY <1>5, <2>1
    <3>2. WordAt(r, n) = WordAt(a, n) BY <1>4, <2>0, <3>1 DEF WordAt
    <3>3. e[n] = c[n] /\ n \in 1..16 BY <1>2, <1>5, <2>1, SMTT(30)
    <3> QED BY <1>2, <3>2, <3>3
  <2>2. CASE ~(n <= 16)
    <3>0. PICK m \in Nat : m = n - 16 /\ m \in 1..Len(d) BY <1>2, <1>5, <2>2
    <3>1. /\ ~(4*n - 3 <= 64) /\ ~(4*n - 2 <= 64) /\ ~(4*n - 1 <= 64) /\ ~(4*n <= 64)
      BY <1>5, <2>2
    <3>2. /\ CharAt(r, 4*n - 3) = CharAt(b, 4*n - 3 - 64)
          /\ CharAt(r, 4*n - 2) = CharAt(b, 4*n - 2 - 64)
          /\ CharAt(r, 4*n - 1) = CharAt(b, 4*n - 1 - 64)
          /\ CharAt(r, 4*n) = CharAt(b, 4*n - 64)
      BY <1>4, <2>0, <3>1
    <3>3. /\ 4*n - 3 - 64 = 4*m - 3 /\ 4*n - 2 - 64 = 4*m - 2
          /\ 4*n - 1 - 64 = 4*m - 1 /\ 4*n - 64 = 4*m
      BY <3>0, <1>5
    <3>4. WordAt(r, n) = WordAt(b, m) BY <3>2, <3>3 DEF WordAt
    <3>5. e[n] = d[m]
      <4>1. c \in Seq(Words) /\ d \in Seq(Words) /\ Len(c) = 16 BY <1>2
      <4> HIDE DEF e
      <4>2. Glued(c, d) BY <4>1, GluedIs
      <4>3. m \in 1..Len(d) BY <3>0
      <4>4. e[Len(c) + m] = d[m] BY <4>2, <4>3 DEF Glued, e
      <4>5. Len(c) + m = n BY <4>1, <3>0
      <4> QED BY <4>4, <4>5
    <3> QED BY <1>2, <3>0, <3>4, <3>5
  <2> QED BY <2>1, <2>2
<1> HIDE DEF e
<1>8. e = rstr2binb(r) BY <1>3, <1>5, <1>6, <1>7, SameWords
<1> QED BY <1>8 DEF e, r, c, d

(* A word that the code does not find is zero.                             *)
LEMMA WordOrZero ==
  ASSUME NEW r \in RawStrings, NEW n \in Nat \ {0}
  PROVE  (IF n <= Len(rstr2binb(r)) THEN rstr2binb(r)[n] ELSE Zero) = WordAt(r, n)
<1> DEFINE b == rstr2binb(r)
<1>1. /\ b \in Seq(Words) /\ Len(b) = (Len(r) + 3) \div 4
      /\ \A m \in 1..((Len(r) + 3) \div 4) : b[m] = WordAt(r, m)
  BY WordsOfString
<1> HIDE DEF b
<1>2. Len(r) \in Nat /\ Len(b) \in Nat BY <1>1 DEF RawStrings
<1>3. CASE n <= Len(b)
  <2>1. n \in 1..((Len(r) + 3) \div 4) BY <1>1, <1>2, <1>3
  <2>2. b[n] = WordAt(r, n) BY <1>1, <2>1
  <2> QED BY <1>3, <2>2 DEF b
<1>4. CASE ~(n <= Len(b))
  <2>1. /\ 4*n - 3 > Len(r) /\ 4*n - 2 > Len(r) /\ 4*n - 1 > Len(r) /\ 4*n > Len(r)
    BY <1>1, <1>2, <1>4
  <2>2. /\ CharAt(r, 4*n - 3) = 0 /\ CharAt(r, 4*n - 2) = 0
        /\ CharAt(r, 4*n - 1) = 0 /\ CharAt(r, 4*n) = 0
    BY <1>2, <2>1, CharType
  <2>3. WordAt(r, n) = << 0, 0 >> BY <2>2 DEF WordAt
  <2>4. WordAt(r, n) = Zero BY <2>3, ZeroIs
  <2> QED BY <1>4, <2>4 DEF b
<1> QED BY <1>3, <1>4

(* ipad and opad are the key of RFC 2104 in words.                         *)
LEMMA PadIs ==
  ASSUME NEW k \in RawStrings, Len(k) <= 64, NEW c \in Octets
  PROVE  /\ RfcKey(k, c) \in RawStrings /\ Len(RfcKey(k, c)) = 64
         /\ Pad(rstr2binb(k), 256 * c + c) = rstr2binb(RfcKey(k, c))
<1> DEFINE r == RfcKey(k, c)
           b == rstr2binb(k)
           C == 256 * c + c
           p == Pad(b, C)
<1>1. ASSUME NEW n \in 1..64
      PROVE  Xor16(IF n <= Len(k) THEN k[n] ELSE 0, c) = Xor16(CharAt(k, n), c)
  <2>1. Len(k) \in Nat BY DEF RawStrings
  <2>2. CharAt(k, n) = IF n <= Len(k) THEN k[n] ELSE 0 BY <2>1, CharType
  <2> QED BY <2>2
<1>2. r = [n \in 1..64 |-> Xor16(CharAt(k, n), c)] BY <1>1 DEF RfcKey
<1>3. \A n \in 1..64 : CharAt(k, n) \in Octets /\ Xor16(CharAt(k, n), c) \in Octets
  BY CharType, XorOctets
<1>4. r \in RawStrings /\ Len(r) = 64 BY <1>2, <1>3 DEF RawStrings
<1>6. ASSUME NEW n \in 1..16
      PROVE  (IF n <= Len(b) THEN b[n] ELSE Zero) = WordAt(k, n)
  <2>1. n \in Nat \ {0} OBVIOUS
  <2> QED BY <2>1, WordOrZero
<1> HIDE DEF r, b
<1>7. p = [n \in 1..16 |-> Xor32(WordAt(k, n), <<C, C>>)] BY <1>6 DEF Pad
<1>8. ASSUME NEW n \in 1..16
      PROVE  Xor32(WordAt(k, n), <<C, C>>) = WordAt(r, n) /\ WordAt(r, n) \in Words
  <2>1. /\ 4*n - 3 \in 1..64 /\ 4*n - 2 \in 1..64 /\ 4*n - 1 \in 1..64 /\ 4*n \in 1..64
    OBVIOUS
  <2>2. /\ CharAt(r, 4*n - 3) = Xor16(CharAt(k, 4*n - 3), c)
        /\ CharAt(r, 4*n - 2) = Xor16(CharAt(k, 4*n - 2), c)
        /\ CharAt(r, 4*n - 1) = Xor16(CharAt(k, 4*n - 1), c)
        /\ CharAt(r, 4*n) = Xor16(CharAt(k, 4*n), c)
    <3>1. ASSUME NEW m \in 1..64 PROVE CharAt(r, m) = r[m]
      <4>1. m \in 1..Len(r) BY <1>4
      <4>2. r \in RawStrings BY <1>4
      <4> QED BY <4>1, <4>2, CharInside
    <3> QED BY <2>1, <3>1, <1>2
  <2> DEFINE d == CharAt(k, 4*n - 3)
             e == CharAt(k, 4*n - 2)
             f == CharAt(k, 4*n - 1)
             g == CharAt(k, 4*n)
  <2>3. d \in Octets /\ e \in Octets /\ f \in Octets /\ g \in Octets BY <2>1, <1>3
  <2>4. WordAt(k, n) = <<256 * d + e, 256 * f + g>> BY DEF WordAt
  <2>5. WordAt(r, n) = <<256 * Xor16(d, c) + Xor16(e, c), 256 * Xor16(f, c) + Xor16(g, c)>>
    BY <2>2 DEF WordAt
  <2> HIDE DEF d, e, f, g
  <2>6. /\ Xor16(256 * d + e, C) = 256 * Xor16(d, c) + Xor16(e, c)
        /\ Xor16(256 * f + g, C) = 256 * Xor16(f, c) + Xor16(g, c)
    BY <2>3, XorOctets
  <2>7. WordAt(r, n) \in Words BY <1>4, WordAtType
  <2> HIDE DEF C
  <2>8. Xor32(WordAt(k, n), <<C, C>>) = <<Xor16(256 * d + e, C), Xor16(256 * f + g, C)>>
    BY <2>4 DEF Xor32
  <2> QED BY <2>5, <2>6, <2>7, <2>8
<1> HIDE DEF C
<1>9. p \in Seq(Words) /\ Len(p) = 16 /\ \A n \in 1..16 : p[n] = WordAt(r, n)
  BY <1>7, <1>8
<1>10. (Len(r) + 3) \div 4 = 16 BY <1>4
<1> HIDE DEF p
<1>11. p = rstr2binb(r)
  <2>1. Len(p) = (Len(r) + 3) \div 4 BY <1>9, <1>10
  <2>2. \A n \in 1..Len(p) : p[n] = WordAt(r, n) BY <1>9
  <2> QED BY <1>4, <1>9, <2>1, <2>2, SameWords
<1> QED BY <1>4, <1>11 DEF p, r, b, C

-----------------------------------------------------------------------------
(* The padding of a message.                                               *)

LEMMA ZerosAre ==
  ASSUME NEW L \in Nat, NEW z \in 0..63, (L + 1 + z) % 64 = 56
  PROVE  L + 1 + z = 64 * ((L + 8) \div 64) + 56
<1>1. PICK y \in Nat : y = L + 1 + z OBVIOUS
<1>2. PICK m \in Int : m = y \div 64 OBVIOUS
<1>3. y % 64 = 56 BY <1>1
<1>4. y = 64 * m + 56 BY <1>2, <1>3
<1>5. L + 8 = 64 * m + (63 - z) BY <1>1, <1>4
<1>6. (L + 8) \div 64 = m BY <1>5, SMTT(30)
<1> QED BY <1>1, <1>4, <1>6

LEMMA ZerosIs ==
  ASSUME NEW L \in Nat, NEW z, z = CHOOSE k \in 0..63 : (L + 1 + k) % 64 = 56
  PROVE  z \in 0..63 /\ L + 1 + z = 64 * ((L + 8) \div 64) + 56
<1>1. \E k \in 0..63 : (L + 1 + k) % 64 = 56
  <2>1. PICK k \in 0..63 : k = 63 - ((L + 8) % 64) OBVIOUS
  <2>2. (L + 1 + k) % 64 = 56 BY <2>1
  <2> QED BY <2>2
<1>2. z \in 0..63 /\ (L + 1 + z) % 64 = 56 BY <1>1, Zenon
<1> QED BY <1>2, ZerosAre

(* The bytes of the length.                                                *)
LengthBytes(n) ==
  <<0, 0, 0, 0, n \div 16777216, (n \div 65536) % 256, (n \div 256) % 256, n % 256>>

LEMMA LastByte ==
  ASSUME NEW n \in Nat
  PROVE  \E q \in Nat, b \in Octets : n = 256 * q + b /\ q = n \div 256 /\ b = n % 256
<1>1. PICK q \in Nat, b \in Nat : n = 256 * q + b /\ b < 256 /\ q = n \div 256 /\ b = n % 256
  OBVIOUS
<1> QED BY <1>1 DEF Octets

LengthBytesAre(n, a, b, c, d) ==
  LengthBytes(n) = <<0, 0, 0, 0, a, b, c, d>> /\ Word(n) = <<256 * a + b, 256 * c + d>>

LEMMA LengthIs ==
  ASSUME NEW n \in Nat, n <= MaxBits
  PROVE  \E a, b, c, d \in Octets : LengthBytesAre(n, a, b, c, d)
<1>1. PICK q \in Nat, d \in Octets : n = 256 * q + d /\ q = n \div 256 /\ d = n % 256
  BY LastByte, SMT
<1>2. PICK o \in Nat, c \in Octets : q = 256 * o + c /\ o = q \div 256 /\ c = q % 256
  BY LastByte, SMT
<1>3. PICK a \in Nat, b \in Octets : o = 256 * a + b /\ a = o \div 256 /\ b = o % 256
  BY LastByte, SMT
<1>4. b \in Nat /\ c \in Nat /\ d \in Nat /\ b < 256 /\ c < 256 /\ d < 256
  BY SMTT(30) DEF Octets
<1>a. n = 256 * q + d /\ q = 256 * o + c /\ o = 256 * a + b BY <1>1, <1>2, <1>3
<1>b. q \in Nat /\ d = n % 256 /\ c = (n \div 256) % 256 /\ o = q \div 256
  BY <1>1, <1>2, ZenonT(60)
<1>5. n = 16777216 * a + (65536 * b + 256 * c + d) BY <1>a, <1>4, SMT
<1>6. a < 128 BY <1>4, <1>5, SMT DEF MaxBits
<1>7. n \div 16777216 = a BY <1>4, <1>5, SMT
<1>8. n \div 65536 = o
  <2>1. n = 65536 * o + (256 * c + d) BY <1>a, <1>4, SMT
  <2> QED BY <2>1, <1>4, SMT
<1>9. n % 65536 = 256 * c + d
  <2>1. n = 65536 * o + (256 * c + d) BY <1>a, <1>4, SMT
  <2> QED BY <2>1, <1>4, SMT
<1>10. o % 65536 = 256 * a + b BY <1>a, <1>4, <1>6, SMT
<1>11. LengthBytes(n) = <<0, 0, 0, 0, a, b, c, d>>
  <2>0. b = o % 256 BY <1>3
  <2>1. b = (n \div 65536) % 256 BY <2>0, <1>8, SMT
  <2> QED BY <1>b, <2>1, <1>7, SMT DEF LengthBytes
<1>12. Word(n) = <<256 * a + b, 256 * c + d>> BY <1>8, <1>9, <1>10, SMT DEF Word, Half
<1>13. LengthBytesAre(n, a, b, c, d) BY <1>11, <1>12 DEF LengthBytesAre
<1>14. a \in Octets BY <1>6 DEF Octets
<1> QED BY <1>13, <1>14

(* Byte k of the padded message: p is the number of its blocks before the  *)
(* last, and a, b, c, d are the bytes of the length.                       *)
PaddingIs(t, r, p, a, b, c, d) ==
  /\ t \in RawStrings /\ Len(t) = 64 * p + 64
  /\ \A k \in Nat \ {0} :
       /\ k <= Len(r) => CharAt(t, k) = CharAt(r, k)
       /\ k = Len(r) + 1 => CharAt(t, k) = 128
       /\ k > Len(r) + 1 /\ k <= 64 * p + 60 => CharAt(t, k) = 0
  /\ CharAt(t, 64 * p + 61) = a /\ CharAt(t, 64 * p + 62) = b
  /\ CharAt(t, 64 * p + 63) = c /\ CharAt(t, 64 * p + 64) = d

LEMMA FirstByte ==
  << 128 >> \in RawStrings /\ Len(<< 128 >>) = 1 /\ CharAt(<< 128 >>, 1) = 128
BY DEF RawStrings, Octets, CharAt

LEMMA NoBytes ==
  ASSUME NEW z \in Nat, NEW r, r = [k \in 1..z |-> 0]
  PROVE  r \in RawStrings /\ Len(r) = z /\ \A k \in Int : CharAt(r, k) = 0
<1>1. r \in RawStrings /\ Len(r) = z BY DEF RawStrings, Octets
<1>2. ASSUME NEW k \in Int PROVE CharAt(r, k) = 0
  <2>1. CASE k \in 1..Len(r)
    <3>1. r[k] = 0 BY <1>1, <2>1
    <3> QED BY <2>1, <3>1, <1>1, CharInside
  <2>2. CASE k \notin 1..Len(r) BY <1>1, <2>2, CharType
  <2> QED BY <2>1, <2>2
<1> QED BY <1>1, <1>2

LEMMA EightBytes ==
  ASSUME NEW a \in Octets, NEW b \in Octets, NEW c \in Octets, NEW d \in Octets,
         NEW r, r = <<0, 0, 0, 0, a, b, c, d>>
  PROVE  /\ r \in RawStrings /\ Len(r) = 8
         /\ CharAt(r, 1) = 0 /\ CharAt(r, 2) = 0 /\ CharAt(r, 3) = 0 /\ CharAt(r, 4) = 0
         /\ CharAt(r, 5) = a /\ CharAt(r, 6) = b /\ CharAt(r, 7) = c /\ CharAt(r, 8) = d
<1>1. r \in RawStrings /\ Len(r) = 8 BY ZeroBits DEF RawStrings
<1>2. \A k \in 1..8 : k \in 1..Len(r) BY <1>1
<1>3. /\ r[1] = 0 /\ r[2] = 0 /\ r[3] = 0 /\ r[4] = 0
      /\ r[5] = a /\ r[6] = b /\ r[7] = c /\ r[8] = d
  OBVIOUS
<1>4. \A k \in 1..8 : CharAt(r, k) = r[k] BY <1>1, <1>2, CharInside
<1>5. /\ 1 \in 1..8 /\ 2 \in 1..8 /\ 3 \in 1..8 /\ 4 \in 1..8
      /\ 5 \in 1..8 /\ 6 \in 1..8 /\ 7 \in 1..8 /\ 8 \in 1..8
  OBVIOUS
<1> QED BY <1>1, <1>3, <1>4, <1>5

LEMMA PaddingType ==
  ASSUME NEW r \in RawStrings, 8 * Len(r) <= MaxBits,
         NEW p, p = (Len(r) + 8) \div 64
  PROVE  /\ p \in Nat /\ Len(r) \in Nat /\ Len(r) + 1 <= 64 * p + 56 /\ 64 * p <= Len(r) + 8
         /\ \E a, b, c, d \in Octets :
              /\ PaddingIs(FipsPadding(r), r, p, a, b, c, d)
              /\ Word(8 * Len(r)) = <<256 * a + b, 256 * c + d>>
<1> DEFINE L == Len(r)
           z == CHOOSE k \in 0..63 : (L + 1 + k) % 64 = 56
           n == 8 * L
           f == << 128 >>
           Z == [k \in 1..z |-> 0]
           l == LengthBytes(n)
           g == r \o f
           h == g \o Z
           t == h \o l
<1>1. L \in Nat /\ n \in Nat /\ n <= MaxBits BY DEF RawStrings
<1>2. t = FipsPadding(r) BY DEF FipsPadding, LengthBytes
<1>3. z \in 0..63 /\ L + 1 + z = 64 * p + 56
  <2> HIDE DEF L
  <2> QED BY <1>1, ZerosIs DEF L
<1> HIDE DEF z
<1>4. Z \in RawStrings /\ Len(Z) = z /\ \A k \in Int : CharAt(Z, k) = 0 BY <1>3, NoBytes
<1>5. PICK a, b, c, d \in Octets : LengthBytesAre(n, a, b, c, d) BY <1>1, LengthIs
<1>6. l = <<0, 0, 0, 0, a, b, c, d>> /\ Word(n) = <<256 * a + b, 256 * c + d>>
  BY <1>5 DEF LengthBytesAre
<1> HIDE DEF l
<1>7. /\ l \in RawStrings /\ Len(l) = 8
      /\ CharAt(l, 1) = 0 /\ CharAt(l, 2) = 0 /\ CharAt(l, 3) = 0 /\ CharAt(l, 4) = 0
      /\ CharAt(l, 5) = a /\ CharAt(l, 6) = b /\ CharAt(l, 7) = c /\ CharAt(l, 8) = d
  BY <1>6, EightBytes
<1>8. f \in RawStrings /\ Len(f) = 1 /\ CharAt(f, 1) = 128 BY FirstByte
<1> HIDE DEF f, Z
<1>9. Joined(g, r, f) BY <1>8, JoinedStrings
<1> HIDE DEF g
<1>10. g \in RawStrings /\ Len(g) = L + 1 BY <1>8, <1>9 DEF Joined
<1>11. Joined(h, g, Z) BY <1>10, <1>4, JoinedStrings
<1> HIDE DEF h
<1>12. h \in RawStrings /\ Len(h) = 64 * p + 56 BY <1>1, <1>3, <1>4, <1>10, <1>11 DEF Joined
<1>13. Joined(t, h, l) BY <1>12, <1>7, JoinedStrings
<1> HIDE DEF t
<1>14. p \in Nat /\ L + 1 <= 64 * p + 56 /\ 64 * p <= L + 8 BY <1>1, <1>3
<1>15. t \in RawStrings /\ Len(t) = 64 * p + 64 BY <1>7, <1>12, <1>13, <1>14 DEF Joined
<1>16. ASSUME NEW k \in Nat \ {0}
       PROVE  /\ CharAt(t, k) = IF k <= 64 * p + 56 THEN CharAt(h, k)
                                ELSE CharAt(l, k - (64 * p + 56))
              /\ CharAt(h, k) = IF k <= L + 1 THEN CharAt(g, k) ELSE 0
              /\ CharAt(g, k) = IF k <= L THEN CharAt(r, k) ELSE CharAt(f, k - L)
  <2>1. CharAt(t, k) = IF k <= 64 * p + 56 THEN CharAt(h, k)
                       ELSE CharAt(l, k - (64 * p + 56))
    BY <1>12, <1>13 DEF Joined
  <2>2. CharAt(h, k) = IF k <= L + 1 THEN CharAt(g, k) ELSE 0
    <3>1. k - (L + 1) \in Int BY <1>1
    <3> QED BY <3>1, <1>4, <1>10, <1>11 DEF Joined
  <2>3. CharAt(g, k) = IF k <= L THEN CharAt(r, k) ELSE CharAt(f, k - L)
    BY <1>9 DEF Joined
  <2> QED BY <2>1, <2>2, <2>3
<1> HIDE DEF L
<1>17. ASSUME NEW k \in Nat \ {0}
       PROVE  /\ k <= L => CharAt(t, k) = CharAt(r, k)
              /\ k = L + 1 => CharAt(t, k) = 128
              /\ k > L + 1 /\ k <= 64 * p + 60 => CharAt(t, k) = 0
  <2>1. ASSUME k <= L PROVE CharAt(t, k) = CharAt(r, k)
    <3>1. k <= L + 1 /\ k <= 64 * p + 56 BY <1>1, <1>14, <2>1
    <3> QED BY <2>1, <3>1, <1>16
  <2>2. ASSUME k = L + 1 PROVE CharAt(t, k) = 128
    <3>1. k <= L + 1 /\ k <= 64 * p + 56 /\ ~(k <= L) /\ k - L = 1 BY <1>1, <1>14, <2>2
    <3> QED BY <3>1, <1>8, <1>16
  <2>3. ASSUME k > L + 1, k <= 64 * p + 60 PROVE CharAt(t, k) = 0
    <3>1. ~(k <= L + 1) BY <1>1, <2>3
    <3>2. CASE k <= 64 * p + 56 BY <3>1, <3>2, <1>16
    <3>3. CASE ~(k <= 64 * p + 56)
      <4>1. k - (64 * p + 56) \in {1, 2, 3, 4} BY <1>14, <2>3, <3>3
      <4> QED BY <4>1, <3>3, <1>7, <1>16
    <3> QED BY <3>2, <3>3
  <2> QED BY <2>1, <2>2, <2>3
<1>18. /\ CharAt(t, 64 * p + 61) = a /\ CharAt(t, 64 * p + 62) = b
       /\ CharAt(t, 64 * p + 63) = c /\ CharAt(t, 64 * p + 64) = d
  <2>1. ASSUME NEW j \in {5, 6, 7, 8}, NEW k, k = 64 * p + 56 + j
        PROVE  CharAt(t, k) = CharAt(l, j)
    <3>1. k \in Nat \ {0} /\ ~(k <= 64 * p + 56) /\ k - (64 * p + 56) = j BY <1>14, <2>1
    <3> QED BY <3>1, <1>16
  <2>2. /\ 64 * p + 61 = 64 * p + 56 + 5 /\ 64 * p + 62 = 64 * p + 56 + 6
        /\ 64 * p + 63 = 64 * p + 56 + 7 /\ 64 * p + 64 = 64 * p + 56 + 8
    BY <1>14
  <2> QED BY <2>1, <2>2, <1>7
<1>19. PaddingIs(t, r, p, a, b, c, d) BY <1>15, <1>17, <1>18 DEF PaddingIs, L
<1> QED BY <1>1, <1>2, <1>6, <1>14, <1>19 DEF L

(* Where binb_sha1 marks the end: after v whole words and u more bytes.    *)
Mark(u) == CASE u = 0 -> << 32768, 0 >> [] u = 1 -> << 128, 0 >>
             [] u = 2 -> << 0, 32768 >> [] OTHER -> << 0, 128 >>

PaddedWord(r, n, size, marked, u) ==
  CASE n = size -> Word(8 * Len(r))
    [] n = marked -> Or32(WordAt(r, n), Mark(u))
    [] OTHER -> WordAt(r, n)

PaddedAs(r, v, u, p) ==
  Padded(rstr2binb(r), 8 * Len(r))
    = [n \in 1..(16 * p + 16) |-> PaddedWord(r, n, 16 * p + 16, v + 1, u)]

LEMMA PaddedIs ==
  ASSUME NEW r \in RawStrings, NEW v \in Nat, NEW u \in 0..3, Len(r) = 4 * v + u,
         NEW p \in Nat, p = (Len(r) + 8) \div 64
  PROVE  PaddedAs(r, v, u, p)
<1> DEFINE len == 8 * Len(r)
           b == rstr2binb(r)
           at == 24 - (len % 32)
           mark == IF at >= 16 THEN <<128 * TwoTo[at - 15], 0>>
                   ELSE <<0, 128 * TwoTo[at + 1]>>
           word(n) == IF n <= Len(b) THEN b[n] ELSE Zero
           pad(n, size, marked) ==
             CASE n = size   -> Word(len)
               [] n = marked -> Or32(word(n), mark)
               [] OTHER      -> word(n)
<1>1. Len(r) \in Nat OBVIOUS
<1>2. ((len + 64) \div 512) * 16 + 16 = 16 * p + 16
  <2>1. PICK L \in Nat : L = Len(r) BY <1>1
  <2>2. (8 * L + 64) \div 512 = (L + 8) \div 64 OBVIOUS
  <2> QED BY <2>1, <2>2
<1>3. len \div 32 + 1 = v + 1 /\ len % 32 = 8 * u
  <2>1. len = 32 * v + 8 * u OBVIOUS
  <2>2. (32 * v + 8 * u) \div 32 = v /\ (32 * v + 8 * u) % 32 = 8 * u OBVIOUS
  <2> QED BY <2>1, <2>2
<1>4. mark = Mark(u)
  <2>1. at = 24 - 8 * u BY <1>3
  <2> HIDE DEF at
  <2>2. CASE u = 0
    <3>1. at >= 16 /\ at - 15 = 9 BY <2>1, <2>2
    <3>0. TwoTo[9] = 256 BY Powers
    <3>2. mark = <<128 * 256, 0>> BY <3>1, <3>0
    <3> QED BY <2>2, <3>2 DEF Mark
  <2>3. CASE u = 1
    <3>1. at >= 16 /\ at - 15 = 1 BY <2>1, <2>3
    <3>0. TwoTo[1] = 1 BY Powers
    <3>2. mark = <<128 * 1, 0>> BY <3>1, <3>0
    <3> QED BY <2>3, <3>2 DEF Mark
  <2>4. CASE u = 2
    <3>1. ~(at >= 16) /\ at + 1 = 9 BY <2>1, <2>4
    <3>0. TwoTo[9] = 256 BY Powers
    <3>2. mark = <<0, 128 * 256>> BY <3>1, <3>0
    <3> QED BY <2>4, <3>2 DEF Mark
  <2>5. CASE u = 3
    <3>1. ~(at >= 16) /\ at + 1 = 1 BY <2>1, <2>5
    <3>0. TwoTo[1] = 1 BY Powers
    <3>2. mark = <<0, 128 * 1>> BY <3>1, <3>0
    <3> QED BY <2>5, <3>2 DEF Mark
  <2> QED BY <2>2, <2>3, <2>4, <2>5
<1>5. Padded(b, len) = [n \in 1..(((len + 64) \div 512) * 16 + 16) |->
                          pad(n, ((len + 64) \div 512) * 16 + 16, len \div 32 + 1)]
  BY DEF Padded
<1> HIDE DEF len, mark
<1>6. Padded(b, len) = [n \in 1..(16 * p + 16) |-> pad(n, 16 * p + 16, v + 1)]
  BY <1>2, <1>3, <1>5
<1>7. ASSUME NEW n \in 1..(16 * p + 16) PROVE word(n) = WordAt(r, n)
  <2>1. n \in Nat \ {0} OBVIOUS
  <2> QED BY <2>1, WordOrZero
<1> HIDE DEF word
<1>8. ASSUME NEW n \in 1..(16 * p + 16)
      PROVE  pad(n, 16 * p + 16, v + 1) = PaddedWord(r, n, 16 * p + 16, v + 1, u)
  BY <1>4, <1>7 DEF PaddedWord, len
<1> HIDE DEF pad
<1>9. Padded(b, len) = [n \in 1..(16 * p + 16) |-> PaddedWord(r, n, 16 * p + 16, v + 1, u)]
  BY <1>6, <1>8
<1> QED BY <1>9 DEF b, len, PaddedAs

(* The marked word: the bytes left over, the byte 128, and zeros.          *)
LEMMA MarkedWord ==
  ASSUME NEW r \in RawStrings, NEW v \in Nat, NEW u \in 0..3, Len(r) = 4 * v + u,
         NEW t \in RawStrings,
         \A k \in Nat \ {0} : /\ k <= Len(r) => CharAt(t, k) = CharAt(r, k)
                              /\ k = Len(r) + 1 => CharAt(t, k) = 128
                              /\ k \in (Len(r) + 2)..(4 * v + 4) => CharAt(t, k) = 0
  PROVE  Or32(WordAt(r, v + 1), Mark(u)) = WordAt(t, v + 1)
<1> DEFINE a == CharAt(r, 4 * (v + 1) - 3)
           b == CharAt(r, 4 * (v + 1) - 2)
           c == CharAt(r, 4 * (v + 1) - 1)
           d == CharAt(r, 4 * (v + 1))
           e == CharAt(t, 4 * (v + 1) - 3)
           f == CharAt(t, 4 * (v + 1) - 2)
           g == CharAt(t, 4 * (v + 1) - 1)
           h == CharAt(t, 4 * (v + 1))
<1>1. WordAt(r, v + 1) = <<256 * a + b, 256 * c + d>> BY DEF WordAt
<1>2. WordAt(t, v + 1) = <<256 * e + f, 256 * g + h>> BY DEF WordAt
<1>3. /\ 4 * (v + 1) - 3 = 4 * v + 1 /\ 4 * (v + 1) - 2 = 4 * v + 2
      /\ 4 * (v + 1) - 1 = 4 * v + 3 /\ 4 * (v + 1) = 4 * v + 4
  OBVIOUS
<1>4. /\ 4 * v + 1 \in Nat \ {0} /\ 4 * v + 2 \in Nat \ {0}
      /\ 4 * v + 3 \in Nat \ {0} /\ 4 * v + 4 \in Nat \ {0}
  OBVIOUS
<1>5. ASSUME NEW k \in Nat \ {0}
      PROVE  /\ CharAt(r, k) \in Octets
             /\ k > Len(r) => CharAt(r, k) = 0
  <2>1. k \in Int /\ Len(r) \in Nat BY DEF RawStrings
  <2>2. k > Len(r) => k \notin 1..Len(r) BY <2>1
  <2> QED BY <2>1, <2>2, CharType
<1>6. a \in Octets /\ b \in Octets /\ c \in Octets /\ d \in Octets BY <1>3, <1>4, <1>5
<1>7. d = 0 /\ h = IF u = 3 THEN 128 ELSE 0
  <2>1. 4 * v + 4 > Len(r) OBVIOUS
  <2>2. d = 0 BY <2>1, <1>3, <1>4, <1>5
  <2>3. CASE u = 3
    <3>1. 4 * v + 4 = Len(r) + 1 BY <2>3
    <3> QED BY <2>2, <2>3, <3>1, <1>3, <1>4
  <2>4. CASE u # 3
    <3>1. 4 * v + 4 \in (Len(r) + 2)..(4 * v + 4) BY <2>4
    <3> QED BY <2>2, <2>4, <3>1, <1>3, <1>4
  <2> QED BY <2>3, <2>4
<1>8. CASE u = 0
  <2>1. /\ 4 * v + 1 > Len(r) /\ 4 * v + 2 > Len(r) /\ 4 * v + 3 > Len(r)
        /\ 4 * v + 1 = Len(r) + 1 /\ 4 * v + 2 \in (Len(r) + 2)..(4 * v + 4)
        /\ 4 * v + 3 \in (Len(r) + 2)..(4 * v + 4)
    BY <1>8
  <2>2. a = 0 /\ b = 0 /\ c = 0 BY <2>1, <1>3, <1>4, <1>5
  <2>3. e = 128 /\ f = 0 /\ g = 0 BY <2>1, <1>3, <1>4
  <2> HIDE DEF a, b, c, d, e, f, g, h
  <2>4. Mark(u) = << 32768, 0 >> BY <1>8 DEF Mark
  <2>5. 32768 \in Halves /\ 0 \in Halves BY DEF Halves
  <2>6. Or16(0, 32768) = 32768 /\ Or16(0, 0) = 0 BY <2>5, OrZero
  <2>7. WordAt(r, v + 1) = << 0, 0 >> BY <1>1, <1>7, <2>2
  <2>8. WordAt(t, v + 1) = << 32768, 0 >> BY <1>2, <1>7, <1>8, <2>3
  <2> QED BY <2>4, <2>6, <2>7, <2>8 DEF Or32
<1>9. CASE u = 1
  <2>1. /\ 4 * v + 1 <= Len(r) /\ 4 * v + 2 > Len(r) /\ 4 * v + 3 > Len(r)
        /\ 4 * v + 2 = Len(r) + 1
        /\ 4 * v + 3 \in (Len(r) + 2)..(4 * v + 4)
    BY <1>9
  <2>2. b = 0 /\ c = 0 BY <2>1, <1>3, <1>4, <1>5
  <2>3. e = a /\ f = 128 /\ g = 0 BY <2>1, <1>3, <1>4
  <2> HIDE DEF a, b, c, d, e, f, g, h
  <2>4. Mark(u) = << 128, 0 >> BY <1>9 DEF Mark
  <2>5. 128 \in Octets /\ 0 \in Halves BY DEF Octets, Halves
  <2>6. Or16(256 * a + 0, 128) = 256 * a + 128 /\ Or16(0, 0) = 0
    BY <1>6, <2>5, OrZero, OrOctets
  <2>7. WordAt(r, v + 1) = <<256 * a + 0, 0>> BY <1>1, <1>7, <2>2
  <2>8. WordAt(t, v + 1) = <<256 * a + 128, 0>> BY <1>2, <1>7, <1>9, <2>3
  <2> QED BY <2>4, <2>6, <2>7, <2>8 DEF Or32
<1>10. CASE u = 2
  <2>1. /\ 4 * v + 1 <= Len(r) /\ 4 * v + 2 <= Len(r) /\ 4 * v + 3 > Len(r)
        /\ 4 * v + 3 = Len(r) + 1
    BY <1>10
  <2>2. c = 0 BY <2>1, <1>3, <1>4, <1>5
  <2>3. e = a /\ f = b /\ g = 128 BY <2>1, <1>3, <1>4
  <2>4. 256 * a + b \in Halves BY <1>6, TwoOctets
  <2> HIDE DEF a, b, c, d, e, f, g, h
  <2> DEFINE m == 256 * a + b
  <2>5. Mark(u) = << 0, 32768 >> BY <1>10 DEF Mark
  <2>6. 32768 \in Halves /\ m \in Halves BY <2>4 DEF Halves
  <2>7. WordAt(r, v + 1) = <<m, 0>> BY <1>1, <1>7, <2>2
  <2>8. WordAt(t, v + 1) = <<m, 32768>> BY <1>2, <1>7, <1>10, <2>3
  <2> HIDE DEF m
  <2>9. Or16(m, 0) = m /\ Or16(0, 32768) = 32768 BY <2>6, OrZero
  <2> QED BY <2>5, <2>7, <2>8, <2>9 DEF Or32
<1>11. CASE u = 3
  <2>1. 4 * v + 1 <= Len(r) /\ 4 * v + 2 <= Len(r) /\ 4 * v + 3 <= Len(r) BY <1>11
  <2>3. e = a /\ f = b /\ g = c BY <2>1, <1>3, <1>4
  <2>4. 256 * a + b \in Halves BY <1>6, TwoOctets
  <2> HIDE DEF a, b, c, d, e, f, g, h
  <2> DEFINE m == 256 * a + b
  <2>5. Mark(u) = << 0, 128 >> BY <1>11 DEF Mark
  <2>6. 128 \in Octets BY DEF Octets
  <2>7. WordAt(r, v + 1) = <<m, 256 * c + 0>> BY <1>1, <1>7
  <2>8. WordAt(t, v + 1) = <<m, 256 * c + 128>> BY <1>2, <1>7, <1>11, <2>3
  <2>9. m \in Halves BY <2>4
  <2> HIDE DEF m
  <2>10. Or16(m, 0) = m /\ Or16(256 * c + 0, 128) = 256 * c + 128
    BY <1>6, <2>6, <2>9, OrZero, OrOctets
  <2> QED BY <2>5, <2>7, <2>8, <2>10 DEF Or32
<1> QED BY <1>8, <1>9, <1>10, <1>11

(* The words of a text, from its first on.                                 *)
WordsOf(y, t) ==
  /\ t \in RawStrings /\ y \in Seq(Words) /\ Len(t) = 4 * Len(y)
  /\ \A n \in 1..Len(y) : y[n] = WordAt(t, n)

(* What binb_sha1 hashes is the padded text of the standard.               *)
LEMMA PaddedText ==
  ASSUME NEW r \in RawStrings, 8 * Len(r) <= MaxBits
  PROVE  LET y == Padded(rstr2binb(r), 8 * Len(r)) IN
         /\ WordsOf(y, FipsPadding(r))
         /\ Len(y) % 16 = 0 /\ Len(y) >= 16
<1> DEFINE t == FipsPadding(r)
           y == Padded(rstr2binb(r), 8 * Len(r))
<1>0. PICK p : p = (Len(r) + 8) \div 64 OBVIOUS
<1>1. /\ p \in Nat /\ Len(r) \in Nat /\ Len(r) + 1 <= 64 * p + 56 /\ 64 * p <= Len(r) + 8
      /\ \E a, b, c, d \in Octets :
           /\ PaddingIs(t, r, p, a, b, c, d)
           /\ Word(8 * Len(r)) = <<256 * a + b, 256 * c + d>>
  BY <1>0, PaddingType
<1>2. PICK a, b, c, d \in Octets :
        /\ PaddingIs(t, r, p, a, b, c, d)
        /\ Word(8 * Len(r)) = <<256 * a + b, 256 * c + d>>
  BY <1>1
<1>3. PICK v \in Nat, u \in 0..3 : Len(r) = 4 * v + u
  <2>1. PICK L \in Nat : L = Len(r) BY <1>1
  <2>2. PICK v \in Nat, u \in 0..3 : L = 4 * v + u /\ v = L \div 4 /\ u = L % 4 OBVIOUS
  <2> QED BY <2>1, <2>2
<1> DEFINE size == 16 * p + 16
<1>4. y = [n \in 1..size |-> PaddedWord(r, n, size, v + 1, u)]
  <2>1. p \in Nat BY <1>1
  <2>2. PaddedAs(r, v, u, p) BY <2>1, <1>0, <1>3, PaddedIs
  <2> QED BY <2>2 DEF PaddedAs
<1> HIDE DEF t, y
<1>5. /\ t \in RawStrings /\ Len(t) = 64 * p + 64
      /\ \A k \in Nat \ {0} :
           /\ k <= Len(r) => CharAt(t, k) = CharAt(r, k)
           /\ k = Len(r) + 1 => CharAt(t, k) = 128
           /\ k > Len(r) + 1 /\ k <= 64 * p + 60 => CharAt(t, k) = 0
      /\ CharAt(t, 64 * p + 61) = a /\ CharAt(t, 64 * p + 62) = b
      /\ CharAt(t, 64 * p + 63) = c /\ CharAt(t, 64 * p + 64) = d
  BY <1>2 DEF PaddingIs
<1>6. 4 * (v + 1) <= 64 * p + 56 /\ v + 1 < size /\ size \in Nat
  <2>1. PICK L \in Nat : L = Len(r) BY <1>1
  <2>2. 4 * v + u + 1 <= 64 * p + 56 BY <1>1, <1>3
  <2> QED BY <2>2, <1>1
<1>s. size = 16 * p + 16 OBVIOUS
<1> HIDE DEF size
<1>7. ASSUME NEW n \in 1..size
      PROVE  PaddedWord(r, n, size, v + 1, u) = WordAt(t, n)
  <2>0. /\ 4*n - 3 \in Nat \ {0} /\ 4*n - 2 \in Nat \ {0}
        /\ 4*n - 1 \in Nat \ {0} /\ 4*n \in Nat \ {0}
    BY <1>6
  <2>1. CASE n = size
    <3>1. /\ 4*n - 3 = 64 * p + 61 /\ 4*n - 2 = 64 * p + 62
          /\ 4*n - 1 = 64 * p + 63 /\ 4*n = 64 * p + 64
      BY <2>1, <1>1, <1>s
    <3>2. WordAt(t, n) = <<256 * a + b, 256 * c + d>> BY <3>1, <1>5 DEF WordAt
    <3>3. PaddedWord(r, n, size, v + 1, u) = Word(8 * Len(r)) 
      <4>1. n # v + 1 BY <2>1, <1>6
      <4> QED BY <2>1, <4>1 DEF PaddedWord
    <3> QED BY <3>2, <3>3, <1>2
  <2>2. CASE n = v + 1
    <3>1. \A k \in (Len(r) + 2)..(4 * v + 4) : k \in Nat \ {0} /\ k > Len(r) + 1 /\ k <= 64 * p + 60
      BY <1>1, <1>6
    <3>2. \A k \in Nat \ {0} :
            /\ k <= Len(r) => CharAt(t, k) = CharAt(r, k)
            /\ k = Len(r) + 1 => CharAt(t, k) = 128
            /\ k \in (Len(r) + 2)..(4 * v + 4) => CharAt(t, k) = 0
      BY <1>5, <3>1
    <3>3. t \in RawStrings BY <1>5
    <3>4. Or32(WordAt(r, v + 1), Mark(u)) = WordAt(t, v + 1)
      BY <1>3, <3>2, <3>3, MarkedWord
    <3>5. n # size BY <2>2, <1>6
    <3>6. PaddedWord(r, n, size, v + 1, u) = Or32(WordAt(r, n), Mark(u))
      BY <2>2, <3>5 DEF PaddedWord
    <3> QED BY <2>2, <3>4, <3>6
  <2>3. CASE n # size /\ n # v + 1
    <3>1. PaddedWord(r, n, size, v + 1, u) = WordAt(r, n) BY <2>3 DEF PaddedWord
    <3>2. CASE n <= v
      <4>1. 4*n - 3 <= Len(r) /\ 4*n - 2 <= Len(r) /\ 4*n - 1 <= Len(r) /\ 4*n <= Len(r)
        BY <3>2, <1>3
      <4>2. WordAt(t, n) = WordAt(r, n) BY <4>1, <2>0, <1>5, ZenonT(60) DEF WordAt
      <4> QED BY <3>1, <4>2
    <3>3. CASE ~(n <= v)
      <4>1. n >= v + 2 /\ n <= size - 1 BY <2>3, <3>3, <1>6
      <4>2. ASSUME NEW k \in {4*n - 3, 4*n - 2, 4*n - 1, 4*n}
            PROVE  CharAt(t, k) = 0 /\ CharAt(r, k) = 0
        <5>1. k \in Nat \ {0} /\ k > Len(r) + 1 /\ k <= 64 * p + 60 BY <4>1, <1>1, <1>3, <1>s
        <5>2. k \in Int /\ k \notin 1..Len(r) BY <5>1, <1>1
        <5> QED BY <5>1, <5>2, <1>5, CharType
      <4>3. WordAt(t, n) = WordAt(r, n) BY <4>2 DEF WordAt
      <4> QED BY <3>1, <4>3
    <3> QED BY <3>2, <3>3
  <2> QED BY <2>1, <2>2, <2>3
<1>8. \A n \in 1..size : WordAt(t, n) \in Words BY <1>5, WordAtType
<1>9. y = [n \in 1..size |-> WordAt(t, n)] BY <1>4, <1>7
<1>10. y \in Seq(Words) /\ Len(y) = size /\ \A n \in 1..size : y[n] = WordAt(t, n)
  BY <1>6, <1>8, <1>9
<1>11. Len(t) = 4 * Len(y) BY <1>1, <1>5, <1>10, <1>s
<1>12. Len(y) % 16 = 0 /\ Len(y) >= 16
  <2>1. (16 * p + 16) % 16 = 0 /\ 16 * p + 16 >= 16 BY <1>1
  <2> QED BY <2>1, <1>10, <1>s
<1>13. WordsOf(y, t) BY <1>5, <1>10, <1>11 DEF WordsOf
<1> QED BY <1>12, <1>13 DEF y, t

(* The words that the standard takes from a text for a block.              *)
LEMMA BlockIs ==
  ASSUME NEW t \in RawStrings, Len(t) >= 64
  PROVE  FipsBlock(t) = [n \in 0..15 |-> WordAt(t, n + 1)]
<1>0. Len(t) \in Nat BY DEF RawStrings
<1>1. ASSUME NEW n \in 0..15
      PROVE  <<256 * t[4*n + 1] + t[4*n + 2], 256 * t[4*n + 3] + t[4*n + 4]>>
               = WordAt(t, n + 1)
  <2>1. /\ 4*n + 1 \in 1..Len(t) /\ 4*n + 2 \in 1..Len(t)
        /\ 4*n + 3 \in 1..Len(t) /\ 4*n + 4 \in 1..Len(t)
    BY <1>0
  <2>2. /\ CharAt(t, 4*n + 1) = t[4*n + 1] /\ CharAt(t, 4*n + 2) = t[4*n + 2]
        /\ CharAt(t, 4*n + 3) = t[4*n + 3] /\ CharAt(t, 4*n + 4) = t[4*n + 4]
    BY <2>1, CharInside
  <2>3. /\ 4 * (n + 1) - 3 = 4*n + 1 /\ 4 * (n + 1) - 2 = 4*n + 2
        /\ 4 * (n + 1) - 1 = 4*n + 3 /\ 4 * (n + 1) = 4*n + 4
    OBVIOUS
  <2> QED BY <2>2, <2>3 DEF WordAt
<1> QED BY <1>1 DEF FipsBlock

-----------------------------------------------------------------------------
(* The inductive invariant: what is left of the words of x is the rest of  *)
(* the text; the registers are those of the standard; and its 16 words are *)
(* the last of the schedule, and the words of the block that the rounds    *)
(* have not reached.                                                       *)

Five(r) == r \in Seq(Words) /\ Len(r) = 5

TextIs ==
  /\ x \in Seq(Words) /\ i \in 0..Len(x) /\ i % 16 = 0 /\ Len(x) % 16 = 0
  /\ text \in RawStrings /\ Len(text) = 4 * (Len(x) - i)
  /\ \A n \in 1..(Len(x) - i) : x[i + n] = WordAt(text, n)

RegistersAre ==
  /\ Five(s) /\ Five(old) /\ H = [sum |-> old, reg |-> s]
  /\ w = <<>> => s = old

ScheduleIs ==
  /\ w \in Seq(Words) /\ Len(w) <= 80 /\ round = Len(w)
  /\ w # <<>> => i < Len(x)
  /\ i < Len(x) =>
       /\ W \in [0..15 -> Words]
       /\ \A j \in 0..79 : j < Len(w) /\ j + 16 >= Len(w) => W[j % 16] = w[j + 1]
       /\ \A k \in 0..15 : k >= Len(w) => W[k] = x[i + k + 1]

JobIs ==
  /\ job \in [data : Messages, key : Keys \cup {<<>>}, bkey : Seq(Words)]
  /\ phase = "key" => Len(job.key) > 64
  /\ phase = "inner" => IF Len(job.key) > 64 THEN Five(job.bkey)
                        ELSE job.bkey = rstr2binb(job.key)

FipsInv == JobIs /\ TextIs /\ RegistersAre /\ ScheduleIs

LEMMA FirstFive == H0 = FipsH0 /\ Five(H0)
<1>1. H0 = FipsH0 BY FirstRegisters
<1>2. Five(H0) BY WordType DEF H0, Five
<1> QED BY <1>1, <1>2

LEMMA MessageType ==
  /\ \A r \in Messages \cup Keys \cup {<<>>} :
       r \in RawStrings /\ 8 * (Len(r) + 64) + 64 <= MaxBits /\ 8 * Len(r) <= MaxBits
<1>1. ASSUME NEW r \in Messages \cup Keys
      PROVE  r \in RawStrings /\ 8 * (Len(r) + 64) + 64 <= MaxBits /\ 8 * Len(r) <= MaxBits
  <2>1. r \in RawStrings /\ 8 * (Len(r) + 64) + 64 <= MaxBits
    BY MessageAssumption DEF RawStrings
  <2>2. Len(r) \in Nat BY <2>1 DEF RawStrings
  <2> QED BY <2>1, <2>2, SMT DEF MaxBits
<1>2. /\ << >> \in RawStrings /\ 8 * (Len(<< >>) + 64) + 64 <= MaxBits
      /\ 8 * Len(<< >>) <= MaxBits
  BY SMT DEF RawStrings, MaxBits
<1> QED BY <1>1, <1>2

(* A call of binb_sha1 with the words of a message.                        *)
LEMMA CallIs ==
  ASSUME NEW r \in RawStrings, 8 * Len(r) <= MaxBits,
         NEW b, b = rstr2binb(r), NEW len, len = 8 * Len(r),
         Call(b, len), FipsCall(r)
  PROVE  TextIs' /\ RegistersAre' /\ ScheduleIs'
<1> DEFINE y == Padded(rstr2binb(r), 8 * Len(r))
           t == FipsPadding(r)
<1>1. WordsOf(y, t) /\ Len(y) % 16 = 0 /\ Len(y) >= 16 BY PaddedText
<1>2. x' = y /\ text' = t BY DEF Call, FipsCall
<1> HIDE DEF y, t
<1>3. i' = 0 /\ w' = <<>> /\ s' = H0 /\ old' = H0 BY DEF Call
<1>4. /\ round' = 0 /\ W' = FipsBlock(text')
      /\ H' = [sum |-> FipsH0, reg |-> FipsH0]
  BY DEF FipsCall
<1>5. /\ t \in RawStrings /\ y \in Seq(Words) /\ Len(t) = 4 * Len(y)
      /\ \A n \in 1..Len(y) : y[n] = WordAt(t, n)
  BY <1>1 DEF WordsOf
<1>6. Len(y) \in Nat BY <1>5
<1>7. TextIs'
  <2>1. 0 \in 0..Len(y) /\ 0 % 16 = 0 /\ Len(y) - 0 = Len(y) BY <1>6
  <2>2. \A n \in 1..Len(y) : 0 + n = n BY <1>6
  <2> QED BY <1>1, <1>2, <1>3, <1>5, <2>1, <2>2 DEF TextIs
<1>8. RegistersAre' BY <1>3, <1>4, FirstFive DEF RegistersAre
<1>9. W' = [n \in 0..15 |-> WordAt(t, n + 1)]
  <2>1. Len(t) >= 64 BY <1>1, <1>5, <1>6
  <2> QED BY <1>2, <1>4, <1>5, <2>1, BlockIs
<1>10. W' \in [0..15 -> Words] BY <1>9, <1>5, WordAtType
<1>11. ASSUME NEW k \in 0..15 PROVE W'[k] = y[0 + k + 1]
  <2>1. 0 + k + 1 = k + 1 /\ k + 1 \in 1..Len(y) BY <1>1, <1>6
  <2> QED BY <1>5, <1>9, <2>1
<1>12. /\ w' \in Seq(Words) /\ Len(w') = 0 /\ Len(w') <= 80 /\ round' = Len(w')
       /\ ~ (w' # <<>>)
  BY <1>3, <1>4
<1>13. ScheduleIs' BY <1>2, <1>3, <1>10, <1>11, <1>12 DEF ScheduleIs
<1> QED BY <1>7, <1>8, <1>13

(* Both passes of the HMAC.                                                *)
PassAs(k, d, c) ==
  /\ RfcKey(k, c) \o d \in RawStrings /\ Len(RfcKey(k, c) \o d) = 64 + Len(d)
  /\ Pad(rstr2binb(k), 256 * c + c) \o rstr2binb(d) = rstr2binb(RfcKey(k, c) \o d)

LEMMA PassIs ==
  ASSUME NEW k \in RawStrings, Len(k) <= 64, NEW d \in RawStrings, NEW c \in Octets
  PROVE  PassAs(k, d, c)
<1> DEFINE r == RfcKey(k, c)
<1>1. /\ r \in RawStrings /\ Len(r) = 64
      /\ Pad(rstr2binb(k), 256 * c + c) = rstr2binb(r)
  BY PadIs
<1> HIDE DEF r
<1>2. rstr2binb(r \o d) = rstr2binb(r) \o rstr2binb(d) BY <1>1, JoinedWords
<1>3. Joined(r \o d, r, d) BY <1>1, JoinedStrings
<1>4. r \o d \in RawStrings /\ Len(r \o d) = 64 + Len(d) BY <1>1, <1>3 DEF Joined
<1> QED BY <1>1, <1>2, <1>4 DEF r, PassAs

PassFor(r, m, len) ==
  r \in RawStrings /\ m = rstr2binb(r) /\ len = 8 * Len(r) /\ 8 * Len(r) <= MaxBits

LEMMA InnerIs ==
  ASSUME NEW k \in RawStrings, Len(k) <= 64, NEW d \in Messages, NEW b, b = rstr2binb(k),
         NEW r, r = RfcKey(k, 54) \o d
  PROVE  PassFor(r, Ipad(b) \o rstr2binb(d), 512 + Len(d) * 8)
<1>1. d \in RawStrings /\ 8 * (Len(d) + 64) + 64 <= MaxBits BY MessageType
<1>2. PICK c \in Octets : c = 54 /\ 256 * c + c = 13878 BY DEF Octets
<1>3. /\ RfcKey(k, c) \o d \in RawStrings /\ Len(RfcKey(k, c) \o d) = 64 + Len(d)
      /\ Pad(rstr2binb(k), 256 * c + c) \o rstr2binb(d) = rstr2binb(RfcKey(k, c) \o d)
  <2>1. PassAs(k, d, c) BY <1>1, PassIs
  <2> QED BY <2>1 DEF PassAs
<1>4. r = RfcKey(k, c) \o d /\ Ipad(b) = Pad(rstr2binb(k), 256 * c + c) BY <1>2 DEF Ipad
<1>5. Len(d) \in Nat BY <1>1 DEF RawStrings
<1>6. 512 + Len(d) * 8 = 8 * (64 + Len(d)) /\ 8 * (64 + Len(d)) <= MaxBits
  BY <1>1, <1>5, SMT DEF MaxBits
<1>7. r \in RawStrings /\ Len(r) = 64 + Len(d) BY <1>3, <1>4
<1>8. Ipad(b) \o rstr2binb(d) = rstr2binb(r) BY <1>3, <1>4
<1> QED BY <1>6, <1>7, <1>8 DEF PassFor

LEMMA DigestAsKey ==
  ASSUME NEW q, Five(q)
  PROVE  /\ FipsBytes(q) \in RawStrings /\ Len(FipsBytes(q)) = 20
         /\ q = rstr2binb(FipsBytes(q))
<1>1. q \in Seq(Words) /\ Len(q) = 5 BY DEF Five
<1>2. FipsBytes(q) \in RawStrings /\ Len(FipsBytes(q)) = 4 * Len(q) BY <1>1, BytesOfWords
<1>3. q = rstr2binb(FipsBytes(q)) BY <1>1, WordsOfBytes
<1> QED BY <1>1, <1>2, <1>3

LEMMA OuterIs ==
  ASSUME NEW k \in RawStrings, Len(k) <= 64, NEW b, b = rstr2binb(k), NEW q, Five(q),
         NEW r, r = RfcKey(k, 92) \o FipsBytes(q)
  PROVE  PassFor(r, Opad(b) \o q, 512 + 160)
<1>1. PICK d : d = FipsBytes(q) OBVIOUS
<1>2. d \in RawStrings /\ Len(d) = 20 /\ rstr2binb(d) = q BY <1>1, DigestAsKey
<1>3. PICK c \in Octets : c = 92 /\ 256 * c + c = 23644 BY DEF Octets
<1>4. /\ RfcKey(k, c) \o d \in RawStrings /\ Len(RfcKey(k, c) \o d) = 64 + Len(d)
      /\ Pad(rstr2binb(k), 256 * c + c) \o rstr2binb(d) = rstr2binb(RfcKey(k, c) \o d)
  <2>1. d \in RawStrings BY <1>2
  <2>2. PassAs(k, d, c) BY <2>1, PassIs
  <2> QED BY <2>2 DEF PassAs
<1>5. r = RfcKey(k, c) \o d /\ Opad(b) = Pad(rstr2binb(k), 256 * c + c)
  BY <1>1, <1>3 DEF Opad
<1>6. 512 + 160 = 8 * (64 + 20) /\ 8 * (64 + 20) <= MaxBits BY SMT DEF MaxBits
<1>7. r \in RawStrings /\ Len(r) = 64 + 20 BY <1>2, <1>4, <1>5
<1>8. Opad(b) \o q = rstr2binb(r) BY <1>2, <1>4, <1>5
<1> QED BY <1>6, <1>7, <1>8 DEF PassFor

(* A key of more than 16 words is one of more than 64 bytes.               *)
LEMMA LongKeyIs ==
  ASSUME NEW k \in RawStrings
  PROVE  LongKey(rstr2binb(k)) <=> Len(k) > 64
<1>1. Len(rstr2binb(k)) = (Len(k) + 3) \div 4 BY WordsOfString
<1>2. PICK L \in Nat : L = Len(k) BY DEF RawStrings
<1>3. (L + 3) \div 4 > 16 <=> L > 64 OBVIOUS
<1> QED BY <1>1, <1>2, <1>3 DEF LongKey

LEMMA BeginIs ==
  ASSUME FipsInv, Begin, FipsBegin
  PROVE  FipsInv'
<1>1. PICK k : k = job.key OBVIOUS
<1>2. PICK d : d = job.data OBVIOUS
<1>3. /\ job \in [data : Messages, key : Keys \cup {<<>>}, bkey : Seq(Words)]
      /\ d \in Messages /\ k \in Keys \cup {<<>>}
  BY <1>1, <1>2 DEF FipsInv, JobIs
<1>4. /\ d \in RawStrings /\ 8 * Len(d) <= MaxBits
      /\ k \in RawStrings /\ 8 * Len(k) <= MaxBits
  BY <1>3, MessageType
<1>5. Len(d) * 8 = 8 * Len(d) /\ Len(k) * 8 = 8 * Len(k) BY <1>4 DEF RawStrings
<1>6. PICK b : b = rstr2binb(k) OBVIOUS
<1>7. CASE k = <<>>
  <2>1. /\ phase' = "digest" /\ job' = job /\ Call(rstr2binb(d), Len(d) * 8)
        /\ FipsCall(d)
    BY <1>1, <1>2, <1>7 DEF Begin, FipsBegin
  <2>2. PICK q, len : q = rstr2binb(d) /\ len = Len(d) * 8 OBVIOUS
  <2>3. TextIs' /\ RegistersAre' /\ ScheduleIs' BY <2>1, <2>2, <1>4, <1>5, CallIs
  <2>4. JobIs' BY <2>1, <1>3 DEF JobIs
  <2> QED BY <2>3, <2>4 DEF FipsInv
<1>8. CASE k # <<>> /\ LongKey(b)
  <2>0. Len(k) > 64 BY <1>4, <1>6, <1>8, LongKeyIs
  <2>1. phase' = "key" /\ job' = job /\ Call(b, Len(k) * 8)
    BY <1>1, <1>6, <1>8 DEF Begin
  <2>2. FipsCall(k) BY <1>1, <1>8, <2>0 DEF FipsBegin
  <2>3. PICK len : len = Len(k) * 8 OBVIOUS
  <2>4. TextIs' /\ RegistersAre' /\ ScheduleIs'
    BY <2>1, <2>2, <2>3, <1>4, <1>5, <1>6, CallIs
  <2>5. JobIs' BY <2>0, <2>1, <1>1, <1>3 DEF JobIs
  <2> QED BY <2>4, <2>5 DEF FipsInv
<1>9. CASE k # <<>> /\ ~LongKey(b)
  <2>0. ~(Len(k) > 64) /\ Len(k) <= 64
    <3>1. Len(k) \in Nat BY <1>4 DEF RawStrings
    <3> QED BY <3>1, <1>4, <1>6, <1>9, LongKeyIs
  <2>1. CallInner(b) BY <1>1, <1>6, <1>9 DEF Begin
  <2>2. /\ phase' = "inner" /\ job' = [job EXCEPT !.bkey = b]
        /\ Call(Ipad(b) \o rstr2binb(d), 512 + Len(d) * 8)
    BY <2>1, <1>2 DEF CallInner
  <2>3. PICK r : r = RfcKey(k, 54) \o d OBVIOUS
  <2>4. FipsCall(r) BY <1>1, <1>2, <1>9, <2>0, <2>3 DEF FipsBegin
  <2>5. /\ r \in RawStrings /\ Ipad(b) \o rstr2binb(d) = rstr2binb(r)
        /\ 512 + Len(d) * 8 = 8 * Len(r) /\ 8 * Len(r) <= MaxBits
    <3>1. PassFor(r, Ipad(b) \o rstr2binb(d), 512 + Len(d) * 8)
      BY <1>3, <1>4, <1>6, <2>0, <2>3, InnerIs, ZenonT(60)
    <3> QED BY <3>1 DEF PassFor
  <2>6. PICK q, len : q = Ipad(b) \o rstr2binb(d) /\ len = 512 + Len(d) * 8 OBVIOUS
  <2>7. TextIs' /\ RegistersAre' /\ ScheduleIs' BY <2>2, <2>4, <2>5, <2>6, CallIs
  <2>8. b \in Seq(Words) BY <1>4, <1>6, WordsOfString
  <2>9. /\ job' \in [data : Messages, key : Keys \cup {<<>>}, bkey : Seq(Words)]
        /\ job'.key = k /\ job'.bkey = b
    BY <2>2, <2>8, <1>1, <1>3
  <2>10. JobIs' BY <2>0, <2>2, <2>9, <1>6 DEF JobIs
  <2> QED BY <2>7, <2>10 DEF FipsInv
<1> QED BY <1>7, <1>8, <1>9

LEMMA ReturnIs ==
  ASSUME FipsInv, Return, FipsReturn
  PROVE  FipsInv'
<1>1. PICK k : k = job.key OBVIOUS
<1>2. PICK d : d = job.data OBVIOUS
<1>3. /\ job \in [data : Messages, key : Keys \cup {<<>>}, bkey : Seq(Words)]
      /\ d \in Messages /\ k \in Keys \cup {<<>>}
  BY <1>1, <1>2 DEF FipsInv, JobIs
<1>4. d \in RawStrings /\ k \in RawStrings BY <1>3, MessageType
<1>5. Len(x) \in Nat /\ i = Len(x) BY DEF FipsInv, TextIs, Return
<1>6. w = <<>> BY <1>5 DEF FipsInv, ScheduleIs
<1>7. Five(s) /\ H.sum = s BY <1>6 DEF FipsInv, RegistersAre
<1>8. PICK q : q = s OBVIOUS
<1>9. PICK f : f = FipsBytes(q) OBVIOUS
<1>10. Five(q) /\ FipsBytes(H.sum) = f /\ s = q BY <1>7, <1>8, <1>9
<1>11. f \in RawStrings /\ Len(f) <= 64 /\ q = rstr2binb(f)
  <2>1. f \in RawStrings /\ Len(f) = 20 /\ q = rstr2binb(f) BY <1>9, <1>10, DigestAsKey
  <2> QED BY <2>1
<1>12. CASE phase = "key"
  <2>0. Len(k) > 64 BY <1>1, <1>12 DEF FipsInv, JobIs
  <2>1. CallInner(q) BY <1>10, <1>12 DEF Return
  <2>2. /\ phase' = "inner" /\ job' = [job EXCEPT !.bkey = q]
        /\ Call(Ipad(q) \o rstr2binb(d), 512 + Len(d) * 8)
    BY <2>1, <1>2 DEF CallInner
  <2>3. PICK r : r = RfcKey(f, 54) \o d OBVIOUS
  <2>4. FipsCall(r) BY <1>2, <1>10, <1>12, <2>3 DEF FipsReturn
  <2>5. /\ r \in RawStrings /\ Ipad(q) \o rstr2binb(d) = rstr2binb(r)
        /\ 512 + Len(d) * 8 = 8 * Len(r) /\ 8 * Len(r) <= MaxBits
    <3>1. PassFor(r, Ipad(q) \o rstr2binb(d), 512 + Len(d) * 8)
      BY <1>3, <1>11, <2>3, InnerIs, ZenonT(60)
    <3> QED BY <3>1 DEF PassFor
  <2>6. PICK c, len : c = Ipad(q) \o rstr2binb(d) /\ len = 512 + Len(d) * 8 OBVIOUS
  <2>7. TextIs' /\ RegistersAre' /\ ScheduleIs' BY <2>2, <2>4, <2>5, <2>6, CallIs
  <2>8. q \in Seq(Words) BY <1>10 DEF Five
  <2>9. /\ job' \in [data : Messages, key : Keys \cup {<<>>}, bkey : Seq(Words)]
        /\ job'.key = k /\ job'.bkey = q
    BY <2>2, <2>8, <1>1, <1>3
  <2>10. JobIs' BY <2>0, <2>2, <2>9, <1>10 DEF JobIs
  <2> QED BY <2>7, <2>10 DEF FipsInv
<1>13. CASE phase = "inner"
  <2>0. PICK b : b = job.bkey OBVIOUS
  <2>1. phase' = "outer" /\ job' = job /\ Call(Opad(b) \o q, 512 + 160)
    BY <1>10, <1>13, <2>0 DEF Return
  <2>2. PICK c : c = IF Len(k) > 64 THEN FipsBytes(b) ELSE k OBVIOUS
  <2>3. PICK r : r = RfcKey(c, 92) \o f OBVIOUS
  <2>4. FipsCall(r) BY <1>1, <1>10, <1>13, <2>0, <2>2, <2>3 DEF FipsReturn
  <2>5. c \in RawStrings /\ Len(c) <= 64 /\ b = rstr2binb(c)
    <3>1. IF Len(k) > 64 THEN Five(b) ELSE b = rstr2binb(k)
      BY <1>1, <1>13, <2>0 DEF FipsInv, JobIs
    <3>2. CASE Len(k) > 64
      <4>1. Five(b) /\ c = FipsBytes(b) BY <3>1, <3>2, <2>2
      <4>2. c \in RawStrings /\ Len(c) = 20 /\ b = rstr2binb(c) BY <4>1, DigestAsKey
      <4> QED BY <4>2
    <3>3. CASE ~(Len(k) > 64)
      <4>1. Len(k) \in Nat BY <1>4 DEF RawStrings
      <4> QED BY <4>1, <3>1, <3>3, <2>2, <1>4
    <3> QED BY <3>2, <3>3
  <2>6. /\ r \in RawStrings /\ Opad(b) \o q = rstr2binb(r)
        /\ 512 + 160 = 8 * Len(r) /\ 8 * Len(r) <= MaxBits
    <3>1. PassFor(r, Opad(b) \o q, 512 + 160) BY <1>9, <1>10, <2>3, <2>5, OuterIs, ZenonT(60)
    <3> QED BY <3>1 DEF PassFor
  <2>7. PICK y, len : y = Opad(b) \o q /\ len = 512 + 160 OBVIOUS
  <2>8. TextIs' /\ RegistersAre' /\ ScheduleIs' BY <2>1, <2>4, <2>6, <2>7, CallIs
  <2>9. JobIs' BY <2>1, <1>3 DEF JobIs
  <2> QED BY <2>8, <2>9 DEF FipsInv
<1>14. CASE phase \in {"digest", "outer"}
  <2>1. phase' = "done" /\ UNCHANGED <<job, x, i, w, s, old>> BY <1>14 DEF Return
  <2>2. UNCHANGED <<text, round, W, H>> BY <1>14 DEF FipsReturn, fipsVars
  <2>3. JobIs' BY <2>1, <1>3 DEF JobIs
  <2>4. TextIs' BY <2>1, <2>2 DEF FipsInv, TextIs
  <2>5. RegistersAre' BY <2>1, <2>2 DEF FipsInv, RegistersAre
  <2>6. ScheduleIs' BY <2>1, <2>2 DEF FipsInv, ScheduleIs
  <2> QED BY <2>3, <2>4, <2>5, <2>6 DEF FipsInv
<1> QED BY <1>12, <1>13, <1>14 DEF Return

-----------------------------------------------------------------------------
(* A round. *)

(* The words of the schedule that a round reads, where the standard keeps  *)
(* them.                                                                   *)
LEMMA PlacesOf ==
  ASSUME NEW j \in 16..79
  PROVE  /\ ((j % 16) + 13) % 16 = (j - 3) % 16 /\ ((j % 16) + 8) % 16 = (j - 8) % 16
         /\ ((j % 16) + 2) % 16 = (j - 14) % 16 /\ j % 16 = (j - 16) % 16
<1>1. PICK q \in Nat, r \in 0..15 : j = 16 * q + r /\ q = j \div 16 /\ r = j % 16 OBVIOUS
<1>2. (r + 13) % 16 = (16 * q + r - 3) % 16
  <2>1. CASE r >= 3 BY <2>1
  <2>2. CASE ~(r >= 3) BY <2>2
  <2> QED BY <2>1, <2>2
<1>3. (r + 8) % 16 = (16 * q + r - 8) % 16
  <2>1. CASE r >= 8 BY <2>1
  <2>2. CASE ~(r >= 8) BY <2>2
  <2> QED BY <2>1, <2>2
<1>4. (r + 2) % 16 = (16 * q + r - 14) % 16
  <2>1. CASE r >= 14 BY <2>1
  <2>2. CASE ~(r >= 14) BY <2>2
  <2> QED BY <2>1, <2>2
<1>5. r = (16 * q + r - 16) % 16 OBVIOUS
<1> QED BY <1>1, <1>2, <1>3, <1>4, <1>5

RoundOf(j) == Len(w) = j

ScheduledWord(j) ==
  IF j < 16 THEN x[i + j + 1]
  ELSE bit_rol(Xor32(Xor32(w[j - 3 + 1], w[j - 8 + 1]),
                     Xor32(w[j - 14 + 1], w[j - 16 + 1])), 1)

FipsWord(j) ==
  IF j < 16 THEN W[j % 16]
  ELSE FipsRotate(1, Xor32(W[((j % 16) + 13) % 16],
                 Xor32(W[((j % 16) + 8) % 16], Xor32(W[((j % 16) + 2) % 16], W[j % 16]))))

LEMMA ScheduledIs ==
  ASSUME FipsInv, i < Len(x), NEW j \in 0..79, RoundOf(j)
  PROVE  ScheduledWord(j) = FipsWord(j) /\ FipsWord(j) \in Words
<1>1. /\ W \in [0..15 -> Words]
      /\ \A m \in 0..79 : m < j /\ m + 16 >= j => W[m % 16] = w[m + 1]
      /\ \A k \in 0..15 : k >= j => W[k] = x[i + k + 1]
  BY DEF FipsInv, ScheduleIs, RoundOf
<1>2. CASE j < 16
  <2>1. j % 16 = j /\ j \in 0..15 BY <1>2
  <2>2. W[j] \in Words
    <3>1. W \in [0..15 -> Words] BY <1>1
    <3> QED BY <2>1, <3>1
  <2>3. W[j] = x[i + j + 1]
    <3>1. \A k \in 0..15 : k >= j => W[k] = x[i + k + 1] BY <1>1
    <3>2. j \in 0..15 BY <2>1
    <3>3. j >= j OBVIOUS
    <3> QED BY <3>1, <3>2, <3>3, Zenon
  <2> QED BY <1>2, <2>1, <2>2, <2>3 DEF ScheduledWord, FipsWord
<1>3. CASE ~(j < 16)
  <2>1. j \in 16..79 BY <1>3
  <2>2. ASSUME NEW m \in 0..79, m < j, m + 16 >= j PROVE W[m % 16] = w[m + 1]
    BY <1>1, <2>2
  <2>3. /\ j - 3 \in 0..79 /\ j - 3 < j /\ j - 3 + 16 >= j
        /\ j - 8 \in 0..79 /\ j - 8 < j /\ j - 8 + 16 >= j
        /\ j - 14 \in 0..79 /\ j - 14 < j /\ j - 14 + 16 >= j
        /\ j - 16 \in 0..79 /\ j - 16 < j /\ j - 16 + 16 >= j
    BY <2>1
  <2>4. /\ W[(j - 3) % 16] = w[j - 3 + 1] /\ W[(j - 8) % 16] = w[j - 8 + 1]
        /\ W[(j - 14) % 16] = w[j - 14 + 1] /\ W[(j - 16) % 16] = w[j - 16 + 1]
    BY <2>2, <2>3
  <2>5. /\ ((j % 16) + 13) % 16 = (j - 3) % 16 /\ ((j % 16) + 8) % 16 = (j - 8) % 16
        /\ ((j % 16) + 2) % 16 = (j - 14) % 16 /\ j % 16 = (j - 16) % 16
    BY <2>1, PlacesOf
  <2> DEFINE a == w[j - 3 + 1]
             b == w[j - 8 + 1]
             c == w[j - 14 + 1]
             d == w[j - 16 + 1]
  <2>6. FipsWord(j) = FipsRotate(1, Xor32(a, Xor32(b, Xor32(c, d))))
    BY <1>3, <2>4, <2>5 DEF FipsWord
  <2>7. ScheduledWord(j) = bit_rol(Xor32(Xor32(a, b), Xor32(c, d)), 1)
    BY <1>3 DEF ScheduledWord
  <2> HIDE DEF a, b, c, d
  <2>8. PICK y : y = Xor32(a, Xor32(b, Xor32(c, d))) OBVIOUS
  <2>9. Xor32(Xor32(a, b), Xor32(c, d)) = y BY <2>8, Xor32Order
  <2>10. y \in Words BY <2>8, Word32Types
  <2>11. bit_rol(y, 1) = FipsRotate(1, y) /\ bit_rol(y, 1) \in Words BY <2>10, RotationIs
  <2> QED BY <2>6, <2>7, <2>8, <2>9, <2>11
<1> QED BY <1>2, <1>3

(* The new value of the first register.                                    *)
CodeTemp(a, b, c, d, e, y, j) ==
  safe_add(safe_add(bit_rol(a, 5), sha1_ft(j, b, c, d)), safe_add(safe_add(e, y), sha1_kt(j)))

FipsTemp(a, b, c, d, e, y, j) ==
  FipsAdd(FipsAdd(FipsRotate(5, a), FipsF(j, b, c, d)), FipsAdd(e, FipsAdd(y, FipsK(j))))

TempsAre(a, b, c, d, e, y, j) ==
  /\ CodeTemp(a, b, c, d, e, y, j) \in Words
  /\ CodeTemp(a, b, c, d, e, y, j) = FipsTemp(a, b, c, d, e, y, j)

LEMMA TempIs ==
  ASSUME NEW a \in Words, NEW b \in Words, NEW c \in Words, NEW d \in Words,
         NEW e \in Words, NEW y \in Words, NEW j \in 0..79
  PROVE  TempsAre(a, b, c, d, e, y, j)
<1>1. PICK p : p = bit_rol(a, 5) OBVIOUS
<1>2. PICK q : q = sha1_ft(j, b, c, d) OBVIOUS
<1>3. PICK k : k = sha1_kt(j) OBVIOUS
<1>4. p = FipsRotate(5, a) /\ p \in Words
  <2>1. 5 \in {1, 5, 30} OBVIOUS
  <2> QED BY <1>1, <2>1, RotationIs
<1>5. q = FipsF(j, b, c, d) /\ q \in Words BY <1>2, FunctionIs
<1>6. k = FipsK(j) /\ k \in Words BY <1>3, ConstantIs
<1>7. PICK u : u = safe_add(p, q) OBVIOUS
<1>8. u = FipsAdd(p, q) /\ u \in Words BY <1>4, <1>5, <1>7, AddIs
<1>9. PICK v : v = safe_add(e, y) OBVIOUS
<1>10. v = FipsAdd(e, y) /\ v \in Words BY <1>9, AddIs
<1>11. PICK n : n = safe_add(v, k) OBVIOUS
<1>12. n = FipsAdd(v, k) /\ n \in Words BY <1>6, <1>10, <1>11, AddIs
<1>13. n = FipsAdd(e, FipsAdd(y, k)) BY <1>6, <1>10, <1>12, AddedFromTheLeft
<1>14. safe_add(u, n) = FipsAdd(u, n) /\ safe_add(u, n) \in Words BY <1>8, <1>12, AddIs
<1>15. CodeTemp(a, b, c, d, e, y, j) = safe_add(u, n)
  BY <1>1, <1>2, <1>3, <1>7, <1>9, <1>11 DEF CodeTemp
<1>16. FipsTemp(a, b, c, d, e, y, j) = FipsAdd(u, n)
  <2>1. FipsTemp(a, b, c, d, e, y, j) = FipsAdd(FipsAdd(p, q), n)
    <3>1. p = FipsRotate(5, a) /\ q = FipsF(j, b, c, d) /\ k = FipsK(j) BY <1>4, <1>5, <1>6
    <3> QED BY <3>1, <1>13 DEF FipsTemp
  <2> QED BY <2>1, <1>8
<1> QED BY <1>14, <1>15, <1>16 DEF TempsAre

LEMMA FivePart ==
  ASSUME NEW r, Five(r), NEW k \in 1..5
  PROVE  r[k] \in Words
<1>1. r \in Seq(Words) /\ Len(r) = 5 BY DEF Five
<1>2. k \in 1..Len(r) BY <1>1
<1> QED BY <1>1, <1>2, ElementOfSeq

LEMMA FiveParts ==
  ASSUME NEW r, Five(r)
  PROVE  /\ r[1] \in Words /\ r[2] \in Words /\ r[3] \in Words
         /\ r[4] \in Words /\ r[5] \in Words
<1>1. 1 \in 1..5 /\ 2 \in 1..5 /\ 3 \in 1..5 /\ 4 \in 1..5 /\ 5 \in 1..5 OBVIOUS
<1> QED BY <1>1, FivePart

LEMMA FiveWords ==
  ASSUME NEW a \in Words, NEW b \in Words, NEW c \in Words, NEW d \in Words, NEW e \in Words
  PROVE  Five(<<a, b, c, d, e>>)
<1>1. PICK r : r = <<a, b, c, d, e>> OBVIOUS
<1>2. r \in Seq(Words) /\ Len(r) = 5 BY <1>1
<1> QED BY <1>1, <1>2 DEF Five

(* What a round writes, in the code and in the standard.                   *)
RoundWrites(j, word, t) ==
  /\ w' = Append(w, word)
  /\ s' = <<t, s[1], bit_rol(s[2], 30), s[3], s[4]>>

FipsWrites(j, word, t) ==
  /\ W' = [W EXCEPT ![j % 16] = word]
  /\ H' = [H EXCEPT !.reg = <<t, H.reg[1], FipsRotate(30, H.reg[2]), H.reg[3], H.reg[4]>>]
  /\ round' = j + 1

LEMMA RoundDoes ==
  ASSUME FipsInv, Round, FipsRound, NEW j \in 0..79, RoundOf(j)
  PROVE  \E word \in Words, t \in Words : RoundWrites(j, word, t) /\ FipsWrites(j, word, t)
<1> DEFINE word == ScheduledWord(j)
           t == CodeTemp(s[1], s[2], s[3], s[4], s[5], word, j)
           temp == FipsTemp(s[1], s[2], s[3], s[4], s[5], FipsWord(j), j)
<1>1. i < Len(x) BY DEF Round, Running
<1>2. word = FipsWord(j) /\ word \in Words BY <1>1, ScheduledIs
<1>3. Five(s) /\ H.reg = s BY DEF FipsInv, RegistersAre
<1>4. round = j /\ Len(w) = j BY DEF FipsInv, ScheduleIs, RoundOf
<1>5. w' = Append(w, word) /\ s' = <<t, s[1], bit_rol(s[2], 30), s[3], s[4]>>
  BY <1>4 DEF Round, ScheduledWord, CodeTemp
<1>6. /\ W' = [W EXCEPT ![j % 16] = FipsWord(j)]
      /\ H' = [H EXCEPT !.reg = <<temp, s[1], FipsRotate(30, s[2]), s[3], s[4]>>]
      /\ round' = j + 1
  BY <1>3, <1>4 DEF FipsRound, FipsWord, FipsTemp
<1> HIDE DEF word
<1>7. t \in Words /\ t = temp
  <2>1. PICK a, b, c, d, e : a = s[1] /\ b = s[2] /\ c = s[3] /\ d = s[4] /\ e = s[5]
    OBVIOUS
  <2>2. a \in Words /\ b \in Words /\ c \in Words /\ d \in Words /\ e \in Words
    BY <1>3, <2>1, FiveParts
  <2>3. PICK y \in Words : y = word BY <1>2
  <2>4. TempsAre(a, b, c, d, e, y, j)
    BY <2>2, TempIs
  <2>5. /\ CodeTemp(a, b, c, d, e, y, j) \in Words
        /\ CodeTemp(a, b, c, d, e, y, j) = FipsTemp(a, b, c, d, e, y, j)
    BY <2>4 DEF TempsAre
  <2>6. t = CodeTemp(a, b, c, d, e, y, j) BY <2>1, <2>3
  <2>7. temp = FipsTemp(a, b, c, d, e, y, j) BY <2>1, <2>3, <1>2
  <2> QED BY <2>5, <2>6, <2>7
<1> HIDE DEF t, temp
<1>8. RoundWrites(j, word, t) BY <1>5 DEF RoundWrites
<1>9. FipsWrites(j, word, t) BY <1>2, <1>3, <1>6, <1>7 DEF FipsWrites
<1> QED BY <1>2, <1>7, <1>8, <1>9

LEMMA RoundIs ==
  ASSUME FipsInv, Round, FipsRound
  PROVE  FipsInv'
<1>1. /\ i < Len(x) /\ Len(w) < 80 /\ UNCHANGED <<job, phase, x, i, old>>
      /\ UNCHANGED text
  BY DEF Round, Running, FipsRound
<1>2. PICK j \in 0..79 : RoundOf(j)
  <2>1. w \in Seq(Words) BY DEF FipsInv, ScheduleIs
  <2>2. PICK n \in Nat : n = Len(w) BY <2>1
  <2>3. Len(w) < 80 BY <1>1
  <2>4. n < 80 BY <2>2, <2>3
  <2>5. n \in 0..79 BY <2>4
  <2> QED BY <2>2, <2>5 DEF RoundOf
<1>3. PICK word \in Words, t \in Words : RoundWrites(j, word, t) /\ FipsWrites(j, word, t)
  BY <1>2, RoundDoes
<1>4. w' = Append(w, word) /\ s' = <<t, s[1], bit_rol(s[2], 30), s[3], s[4]>>
  BY <1>3 DEF RoundWrites
<1>5. /\ W' = [W EXCEPT ![j % 16] = word]
      /\ H' = [H EXCEPT !.reg = <<t, H.reg[1], FipsRotate(30, H.reg[2]), H.reg[3], H.reg[4]>>]
      /\ round' = j + 1
  BY <1>3 DEF FipsWrites
<1>6. Five(s) /\ Five(old) /\ H = [sum |-> old, reg |-> s] BY DEF FipsInv, RegistersAre
<1>7. JobIs' BY <1>1 DEF FipsInv, JobIs
<1>8. TextIs' BY <1>1 DEF FipsInv, TextIs
<1>9. w \in Seq(Words) /\ Len(w) = j BY <1>2 DEF FipsInv, ScheduleIs, RoundOf
<1>10. w' \in Seq(Words) /\ Len(w') = j + 1 /\ w' # <<>> BY <1>4, <1>9
<1>11. RegistersAre'
  <2>1. /\ s[1] \in Words /\ s[2] \in Words /\ s[3] \in Words /\ s[4] \in Words
    BY <1>6, FiveParts
  <2>2. bit_rol(s[2], 30) = FipsRotate(30, s[2]) /\ bit_rol(s[2], 30) \in Words
    <3>1. 30 \in {1, 5, 30} OBVIOUS
    <3>2. PICK a \in Words : a = s[2] BY <2>1
    <3> QED BY <3>1, <3>2, RotationIs
  <2>3. PICK b : b = bit_rol(s[2], 30) OBVIOUS
  <2>4. s' = <<t, s[1], b, s[3], s[4]>> /\ b \in Words BY <1>4, <2>2, <2>3
  <2>5. Five(s') BY <2>1, <2>4, FiveWords
  <2>6. H' = [sum |-> old, reg |-> s'] BY <1>5, <1>6, <2>2, <2>3, <2>4
  <2>7. old' = old BY <1>1
  <2> QED BY <1>6, <1>10, <2>5, <2>6, <2>7 DEF RegistersAre
<1>12. ScheduleIs'
  <2>1. /\ W \in [0..15 -> Words]
        /\ \A m \in 0..79 : m < j /\ m + 16 >= j => W[m % 16] = w[m + 1]
        /\ \A k \in 0..15 : k >= j => W[k] = x[i + k + 1]
    BY <1>1, <1>9 DEF FipsInv, ScheduleIs
  <2>2. W' \in [0..15 -> Words] /\ j % 16 \in 0..15 BY <1>5, <2>1
  <2>3. ASSUME NEW m \in 0..79, m < j + 1, m + 16 >= j + 1 PROVE W'[m % 16] = w'[m + 1]
    <3>1. CASE m = j
      <4>1. w'[j + 1] = word BY <1>4, <1>9
      <4>2. W'[j % 16] = word BY <1>5, <2>1, <2>2
      <4> QED BY <3>1, <4>1, <4>2
    <3>2. CASE m # j
      <4>1. m < j /\ m + 16 >= j /\ m + 16 > j BY <2>3, <3>2
      <4>2. m % 16 # j % 16 /\ m % 16 \in 0..15 BY <4>1
      <4>3. W'[m % 16] = W[m % 16] BY <1>5, <2>1, <4>2
      <4>4. m + 1 \in 1..Len(w) BY <1>9, <4>1
      <4>5. w'[m + 1] = w[m + 1] BY <1>4, <1>9, <4>4
      <4> QED BY <2>1, <4>1, <4>3, <4>5
    <3> QED BY <3>1, <3>2
  <2>4. ASSUME NEW k \in 0..15, k >= j + 1 PROVE W'[k] = x[i + k + 1]
    <3>1. k # j % 16 /\ k >= j BY <2>4
    <3>2. W'[k] = W[k] BY <1>5, <2>1, <3>1
    <3> QED BY <2>1, <3>1, <3>2
  <2>5. Len(w') <= 80 /\ round' = Len(w')
    <3>1. Len(w') = j + 1 /\ round' = j + 1 BY <1>5, <1>10
    <3>2. j + 1 <= 80 OBVIOUS
    <3> QED BY <3>1, <3>2
  <2>6. x' = x /\ i' = i BY <1>1
  <2> QED BY <1>1, <1>10, <2>2, <2>3, <2>4, <2>5, <2>6 DEF ScheduleIs
<1> QED BY <1>7, <1>8, <1>11, <1>12 DEF FipsInv

LEMMA AddOrder ==
  ASSUME NEW a \in Words, NEW b \in Words
  PROVE  safe_add(a, b) = FipsAdd(b, a) /\ safe_add(a, b) \in Words
<1>1. /\ a[1] \in Int /\ a[2] \in Int /\ b[1] \in Int /\ b[2] \in Int
  BY WordParts DEF Halves
<1>2. a[1] + b[1] = b[1] + a[1] /\ a[2] + b[2] = b[2] + a[2] BY <1>1
<1>3. FipsAdd(a, b) = FipsAdd(b, a) BY <1>2 DEF FipsAdd
<1> QED BY <1>3, AddIs

LEMMA EndBlockIs ==
  ASSUME FipsInv, EndBlock, FipsEndBlock
  PROVE  FipsInv'
<1>1. /\ i < Len(x) /\ i' = i + 16 /\ w' = <<>> /\ old' = s'
      /\ s' = [k \in 1..5 |-> safe_add(s[k], old[k])]
      /\ UNCHANGED <<job, phase, x>>
  BY DEF EndBlock, Running
<1>2. /\ text' = SubSeq(text, 65, Len(text)) /\ round' = 0
      /\ W' = IF Len(text) > 64 THEN FipsBlock(text') ELSE W
      /\ H' = [sum |-> [n \in 1..5 |-> FipsAdd(H.sum[n], H.reg[n])],
               reg |-> [n \in 1..5 |-> FipsAdd(H.sum[n], H.reg[n])]]
  BY DEF FipsEndBlock
<1>3. /\ x \in Seq(Words) /\ i \in 0..Len(x) /\ i % 16 = 0 /\ Len(x) % 16 = 0
      /\ text \in RawStrings /\ Len(text) = 4 * (Len(x) - i)
      /\ \A n \in 1..(Len(x) - i) : x[i + n] = WordAt(text, n)
  BY DEF FipsInv, TextIs
<1>4. PICK l \in Nat : l = Len(x) BY <1>3
<1>5. /\ i + 16 <= l /\ (i + 16) % 16 = 0 /\ i \in Nat
      /\ i + 16 < l => i + 32 <= l
  <2>1. PICK p \in Nat : i = 16 * p BY <1>3, <1>4
  <2>2. PICK q \in Nat : l = 16 * q BY <1>3, <1>4
  <2>3. p < q BY <1>1, <1>4, <2>1, <2>2
  <2>4. 16 * p + 16 <= 16 * q /\ (16 * p + 16) % 16 = 0 BY <2>3
  <2>5. 16 * p + 16 < 16 * q => 16 * p + 32 <= 16 * q OBVIOUS
  <2> QED BY <2>1, <2>2, <2>4, <2>5
<1>6. JobIs' BY <1>1 DEF FipsInv, JobIs
<1>7. PICK m \in Nat : m = l - (i + 16) /\ Len(text) = 4 * m + 64
  <2>1. Len(text) = 4 * (l - i) BY <1>3, <1>4
  <2>2. i \in Nat /\ i + 16 <= l BY <1>5
  <2>3. l - (i + 16) \in Nat /\ 4 * (l - i) = 4 * (l - (i + 16)) + 64 BY <2>2
  <2> QED BY <2>1, <2>3
<1>8. /\ text' \in RawStrings /\ Len(text') = 4 * m
      /\ \A k \in 1..(4 * m) : text'[k] = text[k + 64]
  <2>1. text \in Seq(Octets) /\ 65 \in 1..(Len(text) + 1) BY <1>3, <1>7 DEF RawStrings
  <2>2. text' \in Seq(Octets) BY <1>2, <1>7, <2>1
  <2>3. Len(text') = 4 * m BY <1>2, <1>7, <2>1
  <2>4. ASSUME NEW k \in 1..(4 * m) PROVE text'[k] = text[k + 64]
    <3>1. text'[k] = text[65 + k - 1] /\ 65 + k - 1 = k + 64 BY <1>2, <1>7, <2>1
    <3> QED BY <3>1
  <2> QED BY <2>2, <2>3, <2>4 DEF RawStrings
<1>9. ASSUME NEW n \in 1..m PROVE x[i + 16 + n] = WordAt(text', n)
  <2>1. n + 16 \in 1..(Len(x) - i) /\ i + (n + 16) = i + 16 + n BY <1>4, <1>5, <1>7
  <2>2. x[i + 16 + n] = WordAt(text, n + 16) BY <1>3, <2>1
  <2>3. ASSUME NEW k \in 1..(4 * m) PROVE CharAt(text', k) = CharAt(text, k + 64)
    <3>1. k \in 1..Len(text') /\ k + 64 \in 1..Len(text) BY <1>7, <1>8
    <3> QED BY <3>1, <1>3, <1>8, CharInside, ZenonT(60)
  <2>4. /\ 4*n - 3 \in 1..(4 * m) /\ 4*n - 2 \in 1..(4 * m)
        /\ 4*n - 1 \in 1..(4 * m) /\ 4*n \in 1..(4 * m)
    OBVIOUS
  <2>5. /\ 4*n - 3 + 64 = 4 * (n + 16) - 3 /\ 4*n - 2 + 64 = 4 * (n + 16) - 2
        /\ 4*n - 1 + 64 = 4 * (n + 16) - 1 /\ 4*n + 64 = 4 * (n + 16)
    OBVIOUS
  <2>6. WordAt(text', n) = WordAt(text, n + 16) BY <2>3, <2>4, <2>5 DEF WordAt
  <2> QED BY <2>2, <2>6
<1>10. TextIs'
  <2>1. Len(x) - (i + 16) = m /\ i + 16 \in 0..Len(x) BY <1>4, <1>5, <1>7
  <2>2. Len(text') = 4 * (Len(x) - (i + 16)) BY <1>8, <2>1
  <2> QED BY <1>1, <1>3, <1>5, <1>8, <1>9, <2>1, <2>2 DEF TextIs
<1>11. RegistersAre'
  <2>1. Five(s) /\ Five(old) /\ H.sum = old /\ H.reg = s BY DEF FipsInv, RegistersAre
  <2>2. ASSUME NEW k \in 1..5
        PROVE  safe_add(s[k], old[k]) = FipsAdd(old[k], s[k]) /\ safe_add(s[k], old[k]) \in Words
    <3>0. Five(s) /\ Five(old) BY <2>1
    <3>1. s[k] \in Words /\ old[k] \in Words BY <3>0, FivePart
    <3> QED BY <3>1, AddOrder
  <2>3. s' = [n \in 1..5 |-> FipsAdd(H.sum[n], H.reg[n])] BY <1>1, <2>1, <2>2
  <2>4. Five(s') BY <1>1, <2>2 DEF Five
  <2> QED BY <1>1, <1>2, <2>3, <2>4 DEF RegistersAre
<1>12. ScheduleIs'
  <2>1. ASSUME i + 16 < Len(x)
        PROVE  /\ W' \in [0..15 -> Words]
               /\ \A k \in 0..15 : W'[k] = x[i + 16 + k + 1]
    <3>1. m >= 16 BY <1>4, <1>5, <1>7, <2>1
    <3>2. Len(text) > 64 /\ Len(text') >= 64 BY <1>7, <1>8, <3>1
    <3>3. W' = [n \in 0..15 |-> WordAt(text', n + 1)] BY <1>2, <1>8, <3>2, BlockIs
    <3>4. ASSUME NEW k \in 0..15 PROVE W'[k] = x[i + 16 + k + 1] /\ W'[k] \in Words
      <4>1. k + 1 \in 1..m /\ i + 16 + (k + 1) = i + 16 + k + 1 BY <3>1, <1>5
      <4>2. x[i + 16 + (k + 1)] = WordAt(text', k + 1) BY <4>1, <1>9
      <4>3. WordAt(text', k + 1) \in Words BY <1>8, WordAtType
      <4> QED BY <3>3, <4>1, <4>2, <4>3
    <3>5. W' \in [0..15 -> Words] BY <3>3, <3>4
    <3> QED BY <3>4, <3>5
  <2>2. w' \in Seq(Words) /\ Len(w') = 0 /\ ~(w' # <<>>) BY <1>1
  <2>3. x' = x BY <1>1
  <2> QED BY <1>1, <1>2, <2>1, <2>2, <2>3 DEF ScheduleIs
<1> QED BY <1>6, <1>10, <1>11, <1>12 DEF FipsInv

LEMMA FipsInvInit == DigestInit => FipsInv
<1> SUFFICES ASSUME DigestInit PROVE FipsInv OBVIOUS
<1>1. /\ phase = "asked" /\ x = <<>> /\ i = 0 /\ w = <<>> /\ s = H0 /\ old = H0
      /\ text = <<>> /\ round = 0 /\ H = [sum |-> FipsH0, reg |-> FipsH0]
  BY DEF DigestInit, HashInit
<1>2. \E data \in Messages, key \in Keys \cup {<<>>} :
        job = [data |-> data, key |-> key, bkey |-> <<>>]
  BY DEF DigestInit, HashInit
<1>3. JobIs BY <1>1, <1>2 DEF JobIs
<1>4. TextIs
  <2>1. x \in Seq(Words) /\ Len(x) = 0 /\ text \in RawStrings /\ Len(text) = 0
    BY <1>1 DEF RawStrings
  <2> QED BY <1>1, <2>1 DEF TextIs
<1>5. RegistersAre BY <1>1, FirstFive DEF RegistersAre
<1>6. ScheduleIs
  <2>1. w \in Seq(Words) /\ Len(w) = 0 /\ Len(x) = 0 /\ ~(i < Len(x)) BY <1>1
  <2> QED BY <1>1, <2>1 DEF ScheduleIs
<1> QED BY <1>3, <1>4, <1>5, <1>6 DEF FipsInv

LEMMA FipsInvNext == FipsInv /\ [DigestNext]_<<hashVars, fipsVars>> => FipsInv'
<1> SUFFICES ASSUME FipsInv, [DigestNext]_<<hashVars, fipsVars>> PROVE FipsInv' OBVIOUS
<1>1. CASE Begin /\ FipsBegin BY <1>1, BeginIs
<1>2. CASE Round /\ FipsRound BY <1>2, RoundIs
<1>3. CASE EndBlock /\ FipsEndBlock BY <1>3, EndBlockIs
<1>4. CASE Return /\ FipsReturn BY <1>4, ReturnIs
<1>5. CASE UNCHANGED <<hashVars, fipsVars>>
  BY <1>5 DEF hashVars, fipsVars, FipsInv, JobIs, TextIs, RegistersAre, ScheduleIs
<1> QED BY <1>1, <1>2, <1>3, <1>4, <1>5 DEF DigestNext

LEMMA FipsInvImplies == FipsInv => HashIsFips
<1> SUFFICES ASSUME FipsInv PROVE HashIsFips OBVIOUS
<1>1. s = H.reg /\ old = H.sum BY DEF FipsInv, RegistersAre
<1>2. /\ x \in Seq(Words) /\ i \in 0..Len(x)
      /\ text \in RawStrings /\ Len(text) = 4 * (Len(x) - i)
      /\ \A n \in 1..(Len(x) - i) : x[i + n] = WordAt(text, n)
  BY DEF FipsInv, TextIs
<1> DEFINE b == SubSeq(x, i + 1, Len(x))
<1>3. b \in Seq(Words) /\ Len(b) = Len(x) - i BY <1>2
<1>4. ASSUME NEW n \in 1..(Len(x) - i) PROVE b[n] = WordAt(text, n)
  <2>1. b[n] = x[(i + 1) + n - 1] /\ (i + 1) + n - 1 = i + n BY <1>2
  <2> QED BY <1>2, <2>1
<1> HIDE DEF b
<1>5. binb2rstr(b) = text BY <1>2, <1>3, <1>4, BytesOfString
<1> QED BY <1>1, <1>5 DEF HashIsFips, b

(* The digest that sha1.js computes is, at every step of the computation   *)
(* and for every message and key whose bits a signed word can count, that  *)
(* of FIPS 180-1, and its HMAC that of RFC 2104.                           *)
THEOREM HashIsAlwaysFips == DigestSpec => []HashIsFips
<1>1. DigestInit => FipsInv BY FipsInvInit
<1>2. FipsInv /\ [DigestNext]_<<hashVars, fipsVars>> => FipsInv' BY FipsInvNext
<1>3. FipsInv => HashIsFips BY FipsInvImplies
<1> QED BY <1>1, <1>2, <1>3, PTL DEF DigestSpec

=============================================================================

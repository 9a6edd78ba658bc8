----------------------------- MODULE Encodings ------------------------------
(***************************************************************************)
(* The encodings of docroot/js: base64.js, the output and UTF-8 functions  *)
(* of sha1.js, and the strings of a.out.js.  A raw string or an array is a *)
(* sequence of bytes, a JavaScript string one of UTF-16 units, a digit its *)
(* value; the padding "=" is the digit 64.  A loop is a function of the      *)
(* number of its turns; a turn after its end changes nothing.              *)
(***************************************************************************)
EXTENDS Integers, SequencesExt

CONSTANT Log2  \* the logarithms of the divisors, in units of 1/100000

Equals == 64

(* Where the four digits of three bytes begin. *)
Shift == <<262144, 4096, 64, 1>>

-----------------------------------------------------------------------------
(* sha1.js *)

rstr2hex(input) ==
  [n \in 1..(2 * Len(input)) |->
     IF n % 2 = 1 THEN (input[(n + 1) \div 2] \div 16) % 16 ELSE input[n \div 2] % 16]

rstr2b64(input, b64pad) ==
  LET len == Len(input)
      Byte(k) == IF k < len THEN input[k + 1] ELSE 0
      Triplet(k) == 65536 * Byte(k) + 256 * Byte(k + 1) + Byte(k + 2)
  IN FlattenSeq([n \in 1..(4 * ((len + 2) \div 3)) |->
       LET k == 3 * ((n - 1) \div 4)
           j == (n - 1) % 4
       IN IF k * 8 + j * 6 > len * 8 THEN b64pad
          ELSE <<(Triplet(k) \div Shift[j + 1]) % 64>>])

(* One turn of a long division: the next word is divided, and a digit of   *)
(* the quotient kept unless it is a zero before the others.                *)
LongTurn(acc, word, divisor) ==
  LET xx == 65536 * acc.x + word
      q == xx \div divisor
  IN [x |-> xx % divisor,
      quotient |-> IF acc.quotient # <<>> \/ q > 0
                   THEN Append(acc.quotient, q) ELSE <<>>]

(* One long division: the quotient and the remainder.                      *)
LongDivision(dividend, divisor) ==
  LET loop[n \in 0..Len(dividend)] ==
        IF n = 0 THEN [x |-> 0, quotient |-> <<>>]
        ELSE LongTurn(loop[n - 1], dividend[n], divisor)
  IN loop[Len(dividend)]

(* Mutant of Divided: it stops when one word is left.                      *)
DividedShort(a, divisor) ==
  IF Len(a.dividend) <= 1 THEN a
  ELSE LET d == LongDivision(a.dividend, divisor)
       IN [dividend |-> d.quotient, remainders |-> Append(a.remainders, d.x)]

Divided(a, divisor) ==
  IF a.dividend = <<>> THEN a
  ELSE LET d == LongDivision(a.dividend, divisor)
       IN [dividend |-> d.quotient, remainders |-> Append(a.remainders, d.x)]

(* A word lasts for 16 divisions at most. *)
Remainders(dividend, divisor) ==
  LET loop[n \in Nat] ==
        IF n = 0 THEN [dividend |-> dividend, remainders |-> <<>>]
        ELSE Divided(loop[n - 1], divisor)
  IN loop[16 * Len(dividend)].remainders

(* Math.ceil(length * 8 / log2(divisor)) *)
FullLength(length, divisor) ==
  (length * 8 * 100000 + Log2[divisor] - 1) \div Log2[divisor]

(* An odd input reads one character past its end: NaN, and 0 after the |.  *)
rstr2any(input, divisor) ==
  LET Byte(k) == IF k <= Len(input) THEN input[k] ELSE 0
      dividend == [n \in 1..((Len(input) + 1) \div 2) |->
                     256 * Byte(2*n - 1) + Byte(2*n)]
      output == Reverse(Remainders(dividend, divisor))
      short == FullLength(Len(input), divisor) - Len(output)
  IN (IF short > 0 THEN [n \in 1..short |-> 0] ELSE <<>>) \o output

(* Mutant of Utf8: the second limit is one too high.                       *)
Utf8Late(u) ==
  IF u <= 127 THEN <<u>>
  ELSE IF u <= 2048 THEN <<192 + u \div 64, 128 + (u % 64)>>
  ELSE IF u <= 65535
  THEN <<224 + u \div 4096, 128 + ((u \div 64) % 64), 128 + (u % 64)>>
  ELSE <<240 + u \div 262144, 128 + ((u \div 4096) % 64),
         128 + ((u \div 64) % 64), 128 + (u % 64)>>

(* One code point in UTF-8. *)
Utf8(u) ==
  IF u <= 127 THEN <<u>>
  ELSE IF u <= 2047 THEN <<192 + u \div 64, 128 + (u % 64)>>
  ELSE IF u <= 65535
  THEN <<224 + u \div 4096, 128 + ((u \div 64) % 64), 128 + (u % 64)>>
  ELSE <<240 + u \div 262144, 128 + ((u \div 4096) % 64),
         128 + ((u \div 64) % 64), 128 + (u % 64)>>

HighSurrogate(u) == 55296 <= u /\ u <= 56319
LowSurrogate(u) == 56320 <= u /\ u <= 57343
Pair(high, low) == 65536 + 1024 * (high % 1024) + (low % 1024)

(* One turn of str2rstr_utf8, after a.i units. *)
Utf8Turn(input, a) ==
  LET x == input[a.i + 1] IN
  IF a.i >= Len(input) THEN a
  ELSE IF /\ a.i + 1 < Len(input)
          /\ HighSurrogate(x) /\ LowSurrogate(input[a.i + 2])
  THEN [i |-> a.i + 2, out |-> a.out \o Utf8(Pair(x, input[a.i + 2]))]
  ELSE [i |-> a.i + 1, out |-> a.out \o Utf8(x)]

str2rstr_utf8(input) ==
  LET loop[n \in Nat] == IF n = 0 THEN [i |-> 0, out |-> <<>>]
                         ELSE Utf8Turn(input, loop[n - 1])
  IN loop[Len(input)].out

-----------------------------------------------------------------------------
(* base64.js *)

(* Mutant of uint8ArrayToBase64: the two bits of the second byte that the  *)
(* last digit holds are not shifted to its top.                            *)
uint8ArrayToBase64Unshifted(bytes) ==
  LET rest == Len(bytes) % 3
      main == Len(bytes) - rest
      Chunk(k) == 65536 * bytes[k] + 256 * bytes[k + 1] + bytes[k + 2]
  IN [n \in 1..(4 * (main \div 3)) |->
        (Chunk(3 * ((n - 1) \div 4) + 1) \div Shift[((n - 1) % 4) + 1]) % 64]
     \o IF rest = 1
        THEN LET chunk == bytes[main + 1]
             IN <<chunk \div 4, 16 * (chunk % 4), Equals, Equals>>
        ELSE IF rest = 2
        THEN LET chunk == 256 * bytes[main + 1] + bytes[main + 2]
             IN <<chunk \div 1024, (chunk \div 16) % 64, chunk % 16, Equals>>
        ELSE <<>>

uint8ArrayToBase64(bytes) ==
  LET rest == Len(bytes) % 3
      main == Len(bytes) - rest
      Chunk(k) == 65536 * bytes[k] + 256 * bytes[k + 1] + bytes[k + 2]
  IN [n \in 1..(4 * (main \div 3)) |->
        (Chunk(3 * ((n - 1) \div 4) + 1) \div Shift[((n - 1) % 4) + 1]) % 64]
     \o IF rest = 1
        THEN LET chunk == bytes[main + 1]
             IN <<chunk \div 4, 16 * (chunk % 4), Equals, Equals>>
        ELSE IF rest = 2
        THEN LET chunk == 256 * bytes[main + 1] + bytes[main + 2]
             IN <<chunk \div 1024, (chunk \div 16) % 64, 4 * (chunk % 16), Equals>>
        ELSE <<>>

-----------------------------------------------------------------------------
(* a.out.js *)

(* The code point after i units of str, and the units with it.  A surrogate *)
(* takes the unit after it, whatever that is; there is none: NaN, and 0.   *)
Take(str, i) ==
  LET u == str[i + 1] IN
  IF ~ (HighSurrogate(u) \/ LowSurrogate(u)) THEN [u |-> u, i |-> i + 1]
  ELSE IF i + 1 < Len(str) THEN [u |-> Pair(u, str[i + 2]), i |-> i + 2]
  ELSE [u |-> Pair(u, 0), i |-> i + 1]

(* Mutant of Written: the byte for the terminator is not kept.             *)
WrittenFull(str, room, a) ==
  LET t == Take(str, a.i)
      bytes == Utf8(t.u)
  IN IF a.cut \/ a.i >= Len(str) THEN a
     ELSE IF Len(a.out) + Len(bytes) > room + 1
     THEN [i |-> a.i, out |-> a.out, cut |-> TRUE]
     ELSE [i |-> t.i, out |-> a.out \o bytes, cut |-> FALSE]

(* One turn of stringToUTF8Array: a character is written whole, or none    *)
(* any more.                                                               *)
Written(str, room, a) ==
  LET t == Take(str, a.i)
      bytes == Utf8(t.u)
  IN IF a.cut \/ a.i >= Len(str) THEN a
     ELSE IF Len(a.out) + Len(bytes) > room
     THEN [i |-> a.i, out |-> a.out, cut |-> TRUE]
     ELSE [i |-> t.i, out |-> a.out \o bytes, cut |-> FALSE]

(* The characters that fit into room bytes. *)
Encoded(str, room) ==
  LET loop[n \in Nat] == IF n = 0 THEN [i |-> 0, out |-> <<>>, cut |-> FALSE]
                         ELSE Written(str, room, loop[n - 1])
  IN loop[Len(str)].out

(* Mutant of stringToUTF8Array: the terminator is counted twice.           *)
stringToUTF8ArrayTight(str, maxBytesToWrite) ==
  IF maxBytesToWrite <= 1 THEN <<0>>
  ELSE Encoded(str, maxBytesToWrite - 2) \o <<0>>

(* What is written at outIdx and after it. *)
stringToUTF8Array(str, maxBytesToWrite) ==
  IF maxBytesToWrite <= 0 THEN <<>>
  ELSE Encoded(str, maxBytesToWrite - 1) \o <<0>>

(* One code point of the array at n, and the index after it: the bytes     *)
(* after the first are not compared with the end.                          *)
DecodeAt(u8Array, n) ==
  LET At(k) == IF k <= Len(u8Array) THEN u8Array[k] ELSE 0
      u0 == At(n)
      More(k) == At(n + k) % 64
  IN IF u0 < 128 THEN [u |-> u0, next |-> n + 1]
     ELSE IF 192 <= u0 /\ u0 <= 223 THEN [u |-> 64 * (u0 % 32) + More(1), next |-> n + 2]
     ELSE IF 224 <= u0 /\ u0 <= 239
     THEN [u |-> 4096 * (u0 % 16) + 64 * More(1) + More(2), next |-> n + 3]
     ELSE [u |-> 262144 * (u0 % 8) + 4096 * More(1) + 64 * More(2) + More(3),
           next |-> n + 4]

(* Up to U+10FFFF. *)
Units(u) ==
  IF u < 65536 THEN <<u>>
  ELSE <<55296 + (u - 65536) \div 1024, 56320 + ((u - 65536) % 1024)>>

(* One turn of UTF8ArrayToString, at the byte a.n. *)
Read(u8Array, endPtr, a) ==
  IF a.n > endPtr THEN a
  ELSE LET d == DecodeAt(u8Array, a.n)
       IN [n |-> d.next, out |-> a.out \o Units(d.u)]

Decoded(u8Array, endPtr) ==
  LET loop[n \in Nat] == IF n = 0 THEN [n |-> 1, out |-> <<>>]
                         ELSE Read(u8Array, endPtr, loop[n - 1])
  IN loop[endPtr].out

ByteOrderMark == 65279

(* The browser's TextDecoder reads UTF-8 as the loop does, but for a mark   *)
(* at the start, which it leaves out.  What it puts for bytes that are not *)
(* UTF-8 is not modelled, and no property reads any.                       *)
WithoutMark(units) ==
  IF units # <<>> /\ Head(units) = ByteOrderMark THEN Tail(units) ELSE units

(* A short text is read by the loop, a longer one by TextDecoder.          *)
UTF8ArrayToString(u8Array) ==
  LET zeros == {k \in 1..Len(u8Array) : u8Array[k] = 0}
      endPtr == IF zeros = {} THEN Len(u8Array) ELSE Min(zeros) - 1
  IN IF endPtr > 16 THEN WithoutMark(Decoded(u8Array, endPtr))
     ELSE Decoded(u8Array, endPtr)

=============================================================================

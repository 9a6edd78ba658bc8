------------------------------ MODULE Strings -------------------------------
(***************************************************************************)
(* Every raw string over Bytes and every JavaScript string over CodeUnits, *)
(* grown one element a step, and what the encodings of docroot/js must     *)
(* make of it, against RFC 4648, RFC 3629 and long multiplication.         *)
(***************************************************************************)
EXTENDS Encodings

CONSTANTS
  Bytes, MaxBytes,      \* the raw strings
  CodeUnits, MaxUnits,  \* the JavaScript strings, each a text of Texts
  Texts                 \* and at most MaxUnits units after it

(* The divisors given to rstr2any: digits, decimal and hexadecimal.        *)
Divisors == {2, 10, 16}

ASSUME StringAssumption ==
  /\ \A b \in Bytes : b \in Nat /\ b <= 255
  /\ \A u \in CodeUnits : u \in Nat /\ u <= 65535
  /\ \A t \in Texts : t \in Seq(Nat) /\ \A k \in 1..Len(t) : t[k] <= 65535
  /\ MaxBytes \in Nat /\ MaxUnits \in Nat
  /\ \A d \in Divisors : Log2[d] \in Nat \ {0}
  /\ Log2[16] = 400000

VARIABLES
  raw,   \* a raw string, or
  str    \* a JavaScript string

strings == <<raw, str>>

-----------------------------------------------------------------------------
(* References. *)

(* The bits of a byte, the highest first. *)
ByteBits(b) ==
  <<b \div 128, (b \div 64) % 2, (b \div 32) % 2, (b \div 16) % 2,
    (b \div 8) % 2, (b \div 4) % 2, (b \div 2) % 2, b % 2>>

Bits(r) ==
  [k \in 1..(8 * Len(r)) |-> ByteBits(r[(k + 7) \div 8])[((k - 1) % 8) + 1]]

(* RFC 4648: the bits in sixes, the last group filled with zeros.          *)
Base64(r) ==
  LET bits == Bits(r)
      At(k) == IF k <= Len(bits) THEN bits[k] ELSE 0
      Group(n) == 32 * At(6*n - 5) + 16 * At(6*n - 4) + 8 * At(6*n - 3)
                  + 4 * At(6*n - 2) + 2 * At(6*n - 1) + At(6*n)
  IN [n \in 1..((Len(bits) + 5) \div 6) |-> Group(n)]

Padded64(r) ==
  Base64(r) \o [k \in 1..((3 - (Len(r) % 3)) % 3) |-> Equals]

(* bytes * divisor + digit, on a number of bytes: carried from the right.  *)
TimesPlus(bytes, divisor, digit) ==
  LET len == Len(bytes)
      sum[k \in 0..len] == IF k = 0 THEN 256 * digit
                        ELSE bytes[len + 1 - k] * divisor + sum[k - 1] \div 256
  IN [k \in 1..len |-> sum[len + 1 - k] % 256]

FromDigits(digits, divisor, length) ==
  LET number[n \in 0..Len(digits)] ==
        IF n = 0 THEN [k \in 1..length |-> 0]
        ELSE TimesPlus(number[n - 1], divisor, digits[n])
  IN number[Len(digits)]

(* RFC 3629, from the bits of the code point: six in every byte after the  *)
(* first, the rest in the first.                                           *)
RfcUtf8(u) ==
  LET n == IF u < 128 THEN 0 ELSE IF u < 2048 THEN 1 ELSE IF u < 65536 THEN 2 ELSE 3
      sixes == [j \in 0..3 |-> <<1, 64, 4096, 262144>>[j + 1]]
      lead == <<0, 192, 224, 240>>
  IN [k \in 1..(n + 1) |->
        IF k = 1 THEN lead[n + 1] + u \div sixes[n]
        ELSE 128 + ((u \div sixes[n + 1 - k]) % 64)]

(* The code points of a string without a surrogate of its own.             *)
WellFormed(units) ==
  \A k \in 1..Len(units) :
    /\ HighSurrogate(units[k]) => k < Len(units) /\ LowSurrogate(units[k + 1])
    /\ LowSurrogate(units[k]) => k > 1 /\ HighSurrogate(units[k - 1])

Utf8Of(units) ==
  FlattenSeq([k \in 1..Len(units) |->
    IF HighSurrogate(units[k])
    THEN RfcUtf8(65536 + (units[k] - 55296) * 1024 + units[k + 1] - 56320)
    ELSE IF LowSurrogate(units[k]) THEN <<>> ELSE RfcUtf8(units[k])])

-----------------------------------------------------------------------------

StringInit == raw = <<>> /\ str \in Texts

Grow ==
  \/ /\ str = <<>> /\ Len(raw) < MaxBytes
     /\ \E b \in Bytes : raw' = Append(raw, b)
     /\ UNCHANGED str
  \/ /\ raw = <<>>
     /\ \E t \in Texts : IsPrefix(t, str) /\ Len(str) < Len(t) + MaxUnits
     /\ \E u \in CodeUnits : str' = Append(str, u)
     /\ UNCHANGED raw

StringSpec == StringInit /\ [][Grow]_strings

-----------------------------------------------------------------------------

(* Both base-64 encoders of the pages, the one with and the one without    *)
(* padding, give the bits of the input, at every remainder of its length:  *)
(* uint8ArrayToBase64, and rstr2b64 with b64pad "=" and "".                *)
Base64IsTheBits ==
  /\ uint8ArrayToBase64(raw) = Padded64(raw)
  /\ rstr2b64(raw, <<Equals>>) = Padded64(raw)
  /\ rstr2b64(raw, <<>>) = Base64(raw)

(* The long division of rstr2any loses nothing: from its digits and the    *)
(* length the input is found again, with the zero that an odd input is     *)
(* given; rstr2hex is the same on 16 digits when there is none.            *)
DigitsKeepTheInput ==
  /\ \A d \in Divisors :
       LET even == raw \o [k \in 1..(Len(raw) % 2) |-> 0]
       IN FromDigits(rstr2any(raw, d), d, Len(even)) = even
  /\ Len(raw) % 2 = 0 => rstr2any(raw, 16) = rstr2hex(raw)

(* The password that sha1.js encodes and the string that a.out.js gives to *)
(* C are the same UTF-8, and a.out.js reads it back, up to a NUL, on both  *)
(* sides of the 16 bytes where it changes to TextDecoder.  One string is   *)
(* not read back: a longer one loses a byte order mark at its start.       *)
Utf8Agrees ==
  WellFormed(str) =>
    /\ str2rstr_utf8(str) = Utf8Of(str)
    /\ stringToUTF8Array(str, 4 * Len(str) + 1) = Utf8Of(str) \o <<0>>
    /\ 0 \notin ToSet(str) =>
         UTF8ArrayToString(Utf8Of(str) \o <<0>>) =
           IF Len(Utf8Of(str)) > 16 THEN WithoutMark(str) ELSE str

(* A buffer that is too small: stringToUTF8Array writes no byte past it,   *)
(* ends what it writes with a NUL and cuts between two characters, for     *)
(* every string, one with surrogates of its own included; and the          *)
(* (len << 2) + 1 bytes that ccall allots are enough for every string,     *)
(* though a lone surrogate at the end takes four for its one unit.         *)
CutsAreClean ==
  LET full == Encoded(str, 4 * Len(str)) IN
  /\ stringToUTF8Array(str, 4 * Len(str) + 1) = stringToUTF8Array(str, 8 * Len(str) + 8)
  /\ \A max \in 1..(4 * Len(str) + 1) :
      LET out == stringToUTF8Array(str, max) IN
      /\ Len(out) <= max
      /\ Last(out) = 0
      /\ IsPrefix(Front(out), full)
      /\ WellFormed(str) /\ 0 \notin ToSet(str) =>
           LET read == UTF8ArrayToString(out)
           IN IsPrefix(read, str) \/ (Len(out) > 17 /\ IsPrefix(read, WithoutMark(str)))

=============================================================================

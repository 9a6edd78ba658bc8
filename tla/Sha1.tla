-------------------------------- MODULE Sha1 --------------------------------
(***************************************************************************)
(* docroot/js/sha1.js, with which login.html sends the digest of the       *)
(* password.  A raw string is a sequence of numbers; a 32-bit word is the  *)
(* pair of its halves, so that no number leaves the range of TLC's         *)
(* integers, and the code's arithmetic on signed words is that on halves.  *)
(* A step is one turn of a loop of binb_sha1, or the call of the next      *)
(* binb_sha1 by rstr_hmac_sha1.                                            *)
(***************************************************************************)
EXTENDS Integers, Sequences

CONSTANTS
  Messages,  \* raw strings to be hashed
  Keys       \* keys for the HMAC; a plain digest has none

VARIABLES
  job,    \* what is asked for: a message, and a key if it is an HMAC
  phase,  \* which call of binb_sha1 runs
  x,      \* its words, padded
  i,      \* the words of x that are done
  w,      \* the schedule of the block so far: round j is Len(w)
  s,      \* the registers a, b, c, d, e
  old     \* olda, ..., olde

hashVars == <<job, phase, x, i, w, s, old>>

Half == 65536
Octets == {b \in Nat : b < 256}

(* The code counts bits in a signed word: those of the message, of the     *)
(* block that HMAC puts before it, and the 64 of the length field.         *)
MaxBits == 2147483647

ASSUME MessageAssumption ==
  \A r \in Messages \cup Keys :
    r \in Seq(Octets) /\ 8 * (Len(r) + 64) + 64 <= MaxBits

(* A JavaScript number as a word, negative numbers in two's complement.    *)
Word(n) == <<(n \div Half) % Half, n % Half>>

Zero == Word(0)

(* The powers of 2, and a half as the set of its bits: a number in 0..15   *)
(* for each that is 1.                                                     *)
TwoTo ==
  <<1, 2, 4, 8, 16, 32, 64, 128, 256, 512, 1024, 2048, 4096, 8192, 16384, 32768>>

BitsOf(h) == {k \in 0..15 : (h \div TwoTo[k + 1]) % 2 = 1}

Bit(bits, k) == IF k \in bits THEN 1 ELSE 0

Nibble(bits, k) ==
  Bit(bits, k) + 2 * Bit(bits, k + 1) + 4 * Bit(bits, k + 2) + 8 * Bit(bits, k + 3)

HalfOf(bits) ==
  Nibble(bits, 0) + 16 * Nibble(bits, 4) + 256 * Nibble(bits, 8)
    + 4096 * Nibble(bits, 12)

(* The operators ^, &, | and ~. *)
Xor16(m, n) ==
  LET M == BitsOf(m)  N == BitsOf(n) IN HalfOf((M \ N) \cup (N \ M))
And16(m, n) == HalfOf(BitsOf(m) \cap BitsOf(n))
Or16(m, n)  == HalfOf(BitsOf(m) \cup BitsOf(n))

Xor32(m, n) == <<Xor16(m[1], n[1]), Xor16(m[2], n[2])>>
And32(m, n) == <<And16(m[1], n[1]), And16(m[2], n[2])>>
Or32(m, n)  == <<Or16(m[1], n[1]), Or16(m[2], n[2])>>
Not32(m)    == <<Half - 1 - m[1], Half - 1 - m[2]>>

-----------------------------------------------------------------------------

(* Mutant of safe_add: the carry out of the low half is dropped.           *)
safe_addNoCarry(m, n) == <<(m[1] + n[1]) % Half, (m[2] + n[2]) % Half>>

safe_add(m, n) ==
  LET lsw == m[2] + n[2]
      msw == m[1] + n[1] + (lsw \div Half)
  IN <<msw % Half, lsw % Half>>

(* A rotation by cnt < 32: by a half first if cnt is that large.           *)
bit_rol(num, cnt) ==
  LET n == IF cnt < 16 THEN num ELSE <<num[2], num[1]>>
      k == TwoTo[(cnt % 16) + 1]
  IN IF k = 1 THEN n
     ELSE <<(n[1] % (Half \div k)) * k + n[2] \div (Half \div k),
            (n[2] % (Half \div k)) * k + n[1] \div (Half \div k)>>

sha1_ft(t, b, c, d) ==
  CASE t < 20 -> Or32(And32(b, c), And32(Not32(b), d))
    [] t \in 40..59 -> Or32(Or32(And32(b, c), And32(b, d)), And32(c, d))
    [] OTHER -> Xor32(Xor32(b, c), d)

sha1_kt(t) ==
  Word(CASE t < 20       -> 1518500249
         [] t \in 20..39 -> 1859775393
         [] t \in 40..59 -> -1894007588
         [] OTHER        -> -899497514)

-----------------------------------------------------------------------------
(* Words and raw strings. *)

CharAt(r, k) == IF k \in 1..Len(r) THEN r[k] % 256 ELSE 0

(* rstr2binb: big-endian, the high byte of a character is ignored.         *)
rstr2binb(r) ==
  [n \in 1..((Len(r) + 3) \div 4) |->
     <<256 * CharAt(r, 4*n - 3) + CharAt(r, 4*n - 2),
       256 * CharAt(r, 4*n - 1) + CharAt(r, 4*n)>>]

binb2rstr(words) ==
  [n \in 1..(4 * Len(words)) |->
     LET h == words[(n + 3) \div 4][IF n % 4 \in {1, 2} THEN 1 ELSE 2]
     IN IF n % 2 = 1 THEN h \div 256 ELSE h % 256]

(* The words of x, of len bits, with the padding that binb_sha1 writes     *)
(* into it; what it skips is undefined and counts as zero.                 *)
Padded(words, len) ==
  LET size == ((len + 64) \div 512) * 16 + 16
      marked == len \div 32 + 1
      at == 24 - (len % 32)
      mark == IF at >= 16 THEN <<128 * TwoTo[at - 15], 0>> ELSE <<0, 128 * TwoTo[at + 1]>>
      word(n) == IF n <= Len(words) THEN words[n] ELSE Zero
  IN [n \in 1..size |->
        CASE n = size   -> Word(len)
          [] n = marked -> Or32(word(n), mark)
          [] OTHER      -> word(n)]

-----------------------------------------------------------------------------
(* The loops of binb_sha1. *)

H0 == <<Word(1732584193), Word(-271733879), Word(-1732584194),
        Word(271733878), Word(-1009589776)>>

(* The call binb_sha1(words, len), up to its first round.                  *)
Call(words, len) ==
  /\ x' = Padded(words, len)
  /\ i' = 0 /\ w' = <<>> /\ s' = H0 /\ old' = H0

Running == phase # "done" /\ i < Len(x)

Round ==
  /\ Running /\ Len(w) < 80
  /\ LET j == Len(w)
         at(k) == w[j - k + 1]
         wj == IF j < 16 THEN x[i + j + 1]
               ELSE bit_rol(Xor32(Xor32(at(3), at(8)), Xor32(at(14), at(16))), 1)
         t == safe_add(safe_add(bit_rol(s[1], 5), sha1_ft(j, s[2], s[3], s[4])),
                       safe_add(safe_add(s[5], wj), sha1_kt(j)))
     IN /\ w' = Append(w, wj)
        /\ s' = <<t, s[1], bit_rol(s[2], 30), s[3], s[4]>>
  /\ UNCHANGED <<job, phase, x, i, old>>

EndBlock ==
  /\ Running /\ Len(w) = 80
  /\ s' = [k \in 1..5 |-> safe_add(s[k], old[k])]
  /\ old' = s' /\ w' = <<>> /\ i' = i + 16
  /\ UNCHANGED <<job, phase, x>>

-----------------------------------------------------------------------------
(* rstr_sha1 and rstr_hmac_sha1. *)

(* ipad and opad, from a key of at most 16 words; its holes are zero.      *)
Pad(bkey, c) ==
  [k \in 1..16 |-> Xor32(IF k <= Len(bkey) THEN bkey[k] ELSE Zero, <<c, c>>)]
Ipad(bkey) == Pad(bkey, 13878)   \* 0x3636
Opad(bkey) == Pad(bkey, 23644)   \* 0x5C5C

(* A key longer than a block is hashed first; the words are counted.       *)
LongKey(bkey) == Len(bkey) > 16

CallInner(bkey) ==
  /\ phase' = "inner"
  /\ job' = [job EXCEPT !.bkey = bkey]
  /\ Call(Ipad(bkey) \o rstr2binb(job.data), 512 + Len(job.data) * 8)

Begin ==
  /\ phase = "asked"
  /\ IF job.key = <<>>
     THEN /\ phase' = "digest" /\ UNCHANGED job
          /\ Call(rstr2binb(job.data), Len(job.data) * 8)
     ELSE LET bkey == rstr2binb(job.key) IN
          IF LongKey(bkey)
          THEN /\ phase' = "key" /\ UNCHANGED job
               /\ Call(bkey, Len(job.key) * 8)
          ELSE CallInner(bkey)

(* A call of binb_sha1 returns its registers to the next.                  *)
Return ==
  /\ i > 0 /\ i = Len(x)
  /\ \/ phase = "key" /\ CallInner(s)
     \/ /\ phase = "inner" /\ phase' = "outer" /\ UNCHANGED job
        /\ Call(Opad(job.bkey) \o s, 512 + 160)
     \/ /\ phase \in {"digest", "outer"} /\ phase' = "done"
        /\ UNCHANGED <<job, x, i, w, s, old>>

Result == binb2rstr(s)

HashInit ==
  /\ \E data \in Messages, key \in Keys \cup {<<>>} :
       job = [data |-> data, key |-> key, bkey |-> <<>>]
  /\ phase = "asked"
  /\ x = <<>> /\ i = 0 /\ w = <<>> /\ s = H0 /\ old = H0

HashNext == Begin \/ Round \/ EndBlock \/ Return

HashSpec == HashInit /\ [][HashNext]_hashVars

=============================================================================

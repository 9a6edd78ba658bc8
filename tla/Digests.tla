------------------------------ MODULE Digests -------------------------------
(***************************************************************************)
(* Sha1 in step with FIPS 180-1 and RFC 2104 as they are written: the      *)
(* standard pads the text in bytes, takes 64 of them a block, keeps 16     *)
(* words of its schedule (its second method) and turns a word bit by bit.  *)
(***************************************************************************)
EXTENDS Sha1

VARIABLES
  text,  \* the padded message of the standard, in bytes
  round, \* the round of its block
  W,     \* the 16 words of the standard's second method
  H      \* its registers: those of the rounds, and the sums before them

fipsVars == <<text, round, W, H>>

(* One bit 1, zeros up to 448 modulo 512, the length in 64 bits.           *)
FipsPadding(r) ==
  LET zeros == CHOOSE k \in 0..63 : (Len(r) + 1 + k) % 64 = 56
      bits == 8 * Len(r)
  IN r \o <<128>> \o [k \in 1..zeros |-> 0]
       \o <<0, 0, 0, 0, bits \div 16777216, (bits \div 65536) % 256,
            (bits \div 256) % 256, bits % 256>>

(* S^n(X): bit k of the word becomes bit k + n, around its end.           *)
FipsRotate(n, r) ==
  LET bits == BitsOf(r[2]) \cup {k + 16 : k \in BitsOf(r[1])}
      turned == {(k + n) % 32 : k \in bits}
  IN <<HalfOf({k - 16 : k \in turned \cap 16..31}), HalfOf(turned \cap 0..15)>>

FipsAdd(a, b) ==
  LET low == a[2] + b[2]
  IN <<(a[1] + b[1] + (IF low >= Half THEN 1 ELSE 0)) % Half, low % Half>>

FipsF(n, b, c, d) ==
  CASE n \div 20 = 0 -> Xor32(And32(b, c), And32(Not32(b), d))
    [] n \div 20 = 2 -> Xor32(Xor32(And32(b, c), And32(b, d)), And32(c, d))
    [] OTHER         -> Xor32(b, Xor32(c, d))

(* 5A827999, 6ED9EBA1, 8F1BBCDC, CA62C1D6 *)
FipsK(n) ==
  << <<23170, 31129>>, <<28377, 60321>>, <<36635, 48348>>, <<51810, 49622>> >>
    [n \div 20 + 1]

(* 67452301, EFCDAB89, 98BADCFE, 10325476, C3D2E1F0 *)
FipsH0 ==
  << <<26437, 8961>>, <<61389, 43913>>, <<39098, 56574>>, <<4146, 21622>>,
     <<50130, 57840>> >>

FipsBytes(words) ==
  LET byte(k) == LET h == words[(k + 3) \div 4] IN
                 CASE k % 4 = 1 -> h[1] \div 256 [] k % 4 = 2 -> h[1] % 256
                   [] k % 4 = 3 -> h[2] \div 256 [] OTHER -> h[2] % 256
  IN [k \in 1..(4 * Len(words)) |-> byte(k)]

FipsBlock(r) ==
  [n \in 0..15 |-> <<256 * r[4*n + 1] + r[4*n + 2],
                     256 * r[4*n + 3] + r[4*n + 4]>>]

FipsCall(r) ==
  /\ text' = FipsPadding(r)
  /\ round' = 0 /\ W' = FipsBlock(text')
  /\ H' = [sum |-> FipsH0, reg |-> FipsH0]

FipsRound ==
  LET k == round % 16
      word == IF round < 16 THEN W[k]
              ELSE FipsRotate(1, Xor32(W[(k + 13) % 16],
                     Xor32(W[(k + 8) % 16], Xor32(W[(k + 2) % 16], W[k]))))
      r == H.reg
      temp == FipsAdd(FipsAdd(FipsRotate(5, r[1]), FipsF(round, r[2], r[3], r[4])),
                      FipsAdd(r[5], FipsAdd(word, FipsK(round))))
  IN /\ W' = [W EXCEPT ![k] = word]
     /\ H' = [H EXCEPT !.reg = <<temp, r[1], FipsRotate(30, r[2]), r[3], r[4]>>]
     /\ round' = round + 1
     /\ UNCHANGED text

FipsEndBlock ==
  /\ text' = SubSeq(text, 65, Len(text))
  /\ round' = 0
  /\ W' = IF Len(text) > 64 THEN FipsBlock(text') ELSE W
  /\ LET sum == [n \in 1..5 |-> FipsAdd(H.sum[n], H.reg[n])]
     IN H' = [sum |-> sum, reg |-> sum]

(* RFC 2104, with blocks of 64 bytes: K, or its digest, filled with zeros. *)
RfcKey(k, c) == [n \in 1..64 |-> Xor16(IF n <= Len(k) THEN k[n] ELSE 0, c)]

FipsBegin ==
  FipsCall(CASE job.key = <<>>      -> job.data
             [] Len(job.key) > 64 -> job.key
             [] OTHER             -> RfcKey(job.key, 54) \o job.data)

(* The digest of the call before is in H; that of the key is in job.       *)
FipsReturn ==
  LET digest == FipsBytes(H.sum)
      key == IF Len(job.key) > 64 THEN FipsBytes(job.bkey) ELSE job.key
  IN CASE phase = "key"   -> FipsCall(RfcKey(digest, 54) \o job.data)
       [] phase = "inner" -> FipsCall(RfcKey(key, 92) \o digest)
       [] OTHER           -> UNCHANGED fipsVars

-----------------------------------------------------------------------------

DigestInit ==
  /\ HashInit
  /\ text = <<>> /\ round = 0 /\ W = <<>> /\ H = [sum |-> FipsH0, reg |-> FipsH0]

DigestNext ==
  \/ Begin /\ FipsBegin
  \/ Round /\ FipsRound
  \/ EndBlock /\ FipsEndBlock
  \/ Return /\ FipsReturn

DigestSpec == DigestInit /\ [][DigestNext]_<<hashVars, fipsVars>>

(* The digest of sha1.js is that of the standards at every step.  What     *)
(* binb_sha1 hashes, an array with holes in which it marks the end and     *)
(* writes the length, is the padded text, for the digest and for both      *)
(* passes of the HMAC, whose key is filled up with words it does not have  *)
(* and hashed when it has more than 16; and the rounds are those of the    *)
(* standard, register by register: safe_add, bit_rol, f, k, the schedule.  *)
HashIsFips ==
  /\ binb2rstr(SubSeq(x, i + 1, Len(x))) = text
  /\ s = H.reg /\ old = H.sum

=============================================================================

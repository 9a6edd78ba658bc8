--------------------------- MODULE MCPageScripts ----------------------------
(***************************************************************************)
(* What the scripts of docroot/js compute, one of three things at a time.  *)
(* A digest: Sha1 in step with FIPS 180-1 and RFC 2104 as they are         *)
(* written, on messages and keys of the lengths around the limits of a     *)
(* word and of a block.  Encodings: every raw string over Bytes and every  *)
(* JavaScript string over CodeUnits, up to a length, compared with the     *)
(* bits it stands for.  Calls from a page into the compiled code.          *)
(***************************************************************************)
EXTENDS Digests, Strings, WasmCalls

CONSTANTS
  MessageLengths,  \* in bytes
  KeyLengths

(* Bytes that use both halves of the range. *)
MCBytes(length) == [n \in 1..length |-> (n * 89 + 171) % 256]

MCMessages == {MCBytes(n) : n \in MessageLengths}
MCKeys == {MCBytes(n) : n \in KeyLengths}

MCLog2 == [d \in Divisors |->
            CASE d = 2 -> 100000 [] d = 10 -> 332192 [] OTHER -> 400000]

(* Strings grow from nothing, and to both sides of the length at which     *)
(* a.out.js reads them with TextDecoder, with and without a byte order     *)
(* mark, which has three bytes.                                            *)
MCTexts == {<<>>, [n \in 1..15 |-> 97],
            [n \in 1..13 |-> IF n = 1 THEN ByteOrderMark ELSE 97]}

(* Calls without and with arguments on the stack; parts of lines.          *)
MCArgSizes == {<<>>, <<1>>, <<2, 1>>}
MCChunks == {<<97>>, <<NL>>, <<98, NUL, 97>>}

-----------------------------------------------------------------------------

NoDigest(what) ==
  /\ job = [data |-> <<>>, key |-> <<>>, bkey |-> <<>>] /\ phase = what
  /\ x = <<>> /\ i = 0 /\ w = <<>> /\ s = H0 /\ old = H0
  /\ text = <<>> /\ round = 0 /\ W = <<>> /\ H = [sum |-> FipsH0, reg |-> FipsH0]

NoString == raw = <<>> /\ str = <<>>

MCInit ==
  /\ \/ DigestInit /\ NoString
     \/ NoDigest("strings") /\ StringInit
     \/ NoDigest("calls") /\ NoString
  /\ Init

Hash == DigestNext /\ UNCHANGED <<strings, vars>>

Encode ==
  /\ phase = "strings"
  /\ Grow
  /\ UNCHANGED <<hashVars, fipsVars, vars>>

Run ==
  /\ phase = "calls"
  /\ Next
  /\ UNCHANGED <<hashVars, fipsVars, strings>>

MCNext == Hash \/ Encode \/ Run

MCSpec == MCInit /\ [][MCNext]_<<hashVars, fipsVars, strings, vars>>

=============================================================================

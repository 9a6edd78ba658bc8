------------------------- MODULE PageScriptsProofs --------------------------
(***************************************************************************)
(* Proofs about the scripts of docroot/js.  Of the calls of the scanner    *)
(* page into the compiled code: the types, that a call under way keeps its *)
(* stack, that every mark is its own, and that the console prints whole    *)
(* lines; for every stack, every size of arguments, every exception and    *)
(* every cut of the output.  Of the encodings: that the      *)
(* base-64 digits are the bits, that the digits of rstr2any keep the       *)
(* input, that the UTF-8 of the pages is one, and that a buffer cuts a     *)
(* string between two characters; for every string.                        *)
(***************************************************************************)
EXTENDS WasmCalls, Strings, Sums

-----------------------------------------------------------------------------
(* The inductive invariant. *)

Mark == [p : Nat, sp : Nat]
Frame == [base : Nat, stack : Nat, entry : Nat, js : BOOLEAN, marks : Seq(Mark)]

(* A frame returns to its base, by what ccall kept or by its own prologue. *)
FrameSound(f) ==
  /\ f.base # 0
  /\ IF f.stack = 0 THEN f.entry = f.base ELSE f.stack = f.base

(* Its marks lie above what it was entered with, each above the one before.*)
FrameNested(f) ==
  /\ f.base <= f.entry
  /\ \A m \in 1..Len(f.marks) : f.entry < f.marks[m].sp
  /\ \A i, j \in 1..Len(f.marks) : i < j => f.marks[i].sp <= f.marks[j].sp

FramesSound == \A k \in 1..Len(frames) : FrameSound(frames[k]) /\ FrameNested(frames[k])

(* What a frame holds of the stack ends at v.                              *)
Under(f, v) ==
  /\ f.entry < v
  /\ \A m \in 1..Len(f.marks) : f.marks[m].sp <= v

Nested ==
  /\ \A k \in 1..Len(frames) : Under(frames[k], sp)
  /\ \A k, l \in 1..Len(frames) : k < l => Under(frames[k], frames[l].base)

(* While nothing was thrown the first call was made at the base.           *)
AtBase ==
  thrown = 0 => IF frames = <<>> THEN sp = Base ELSE frames[1].base = Base

(* The marks of one frame lie in the array in the order they were set, and *)
(* behind those of the frames that were entered before it.                 *)
MarksOrdered ==
  \A k, l \in 1..Len(frames) :
    \A i \in 1..Len(frames[k].marks), j \in 1..Len(frames[l].marks) :
      k < l \/ (k = l /\ i < j) => frames[k].marks[i].p < frames[l].marks[j].p

(* The two parts of MarksAreOwn; a mark's place is one of the array.       *)
MarksHold ==
  \A k \in 1..Len(frames) : \A m \in 1..Len(frames[k].marks) :
    LET mark == frames[k].marks[m]
    IN mark.p \in 1..Len(saved) /\ saved[mark.p] = mark.sp

MarkSum(fs) == SumFunction([k \in DOMAIN fs |-> Len(fs[k].marks)])

NoneLeft == thrown = 0 => Len(saved) = MarkSum(frames)

Sound ==
  /\ TypeOK /\ FramesSound /\ MarksOrdered /\ MarksHold /\ NoneLeft
  /\ Nested /\ AtBase

-----------------------------------------------------------------------------
(* The frames of the calls. *)

LEMMA FrameType ==
  ASSUME NEW f \in Frame
  PROVE  /\ f.base \in Nat /\ f.stack \in Nat /\ f.entry \in Nat /\ f.js \in BOOLEAN
         /\ f.marks \in Seq(Mark) /\ Len(f.marks) \in Nat
BY DEF Frame

LEMMA UnderMore ==
  ASSUME NEW f \in Frame, NEW v \in Nat, NEW w \in Nat, Under(f, v), v <= w
  PROVE  Under(f, w)
<1>1. f.entry \in Nat BY FrameType
<1>2. ASSUME NEW m \in 1..Len(f.marks) PROVE f.marks[m].sp <= w
  <2>1. f.marks[m] \in Mark BY FrameType
  <2>2. f.marks[m].sp \in Nat BY <2>1 DEF Mark
  <2>3. f.marks[m].sp <= v BY DEF Under
  <2> QED BY <2>2, <2>3
<1> QED BY <1>1, <1>2 DEF Under

LEMMA FrontLast ==
  ASSUME NEW S, NEW s \in Seq(S), s # <<>>
  PROVE  /\ Len(s) \in Nat \ {0}
         /\ Front(s) \in Seq(S) /\ Len(Front(s)) = Len(s) - 1
         /\ \A k \in 1..(Len(s) - 1) : Front(s)[k] = s[k]
         /\ Last(s) \in S /\ Last(s) = s[Len(s)]
         /\ s = Append(Front(s), Last(s))
<1>1. Len(s) \in Nat \ {0} BY EmptySeq
<1>2. /\ Front(s) \in Seq(S) /\ Len(Front(s)) = Len(s) - 1
      /\ \A k \in 1..(Len(s) - 1) : Front(s)[k] = s[k]
  <2>1. /\ 1 \in 1..(Len(s) + 1) /\ Len(s) - 1 \in 0..Len(s)
        /\ Len(s) - 1 - 1 + 1 = Len(s) - 1
        /\ \A k \in 1..(Len(s) - 1) : 1 + k - 1 = k
    BY <1>1
  <2> QED BY <2>1, SubSeqProperties DEF Front
<1>3. Last(s) \in S /\ Last(s) = s[Len(s)] BY <1>1 DEF Last
<1>4. s = Append(Front(s), Last(s))
  <2>1. /\ Append(Front(s), Last(s)) \in Seq(S)
        /\ Len(Append(Front(s), Last(s))) = Len(s)
        /\ \A k \in 1..Len(s) : Append(Front(s), Last(s))[k] = s[k]
    BY <1>1, <1>2, <1>3, AppendProperties
  <2> QED BY <2>1, SeqEqual
<1> QED BY <1>1, <1>2, <1>3, <1>4

(* Another frame takes the place of the top one. *)
LEMMA TopReplaced ==
  ASSUME NEW fs \in Seq(Frame), fs # <<>>, NEW f \in Frame
  PROVE  LET g == Append(Front(fs), f)
         IN /\ g \in Seq(Frame) /\ Len(g) = Len(fs) /\ g[Len(fs)] = f
            /\ \A k \in 1..(Len(fs) - 1) : g[k] = fs[k]
BY FrontLast, AppendProperties

LEMMA MarkSumAppend ==
  ASSUME NEW fs \in Seq(Frame), NEW f \in Frame
  PROVE  /\ MarkSum(fs) \in Int
         /\ MarkSum(Append(fs, f)) = MarkSum(fs) + Len(f.marks)
<1> DEFINE s == [k \in DOMAIN fs |-> Len(fs[k].marks)]
           g == Append(fs, f)
           t == [k \in DOMAIN g |-> Len(g[k].marks)]
           n == Len(fs)
<1>0. \A h \in Frame : Len(h.marks) \in Int BY FrameType
<1>1. n \in Nat /\ DOMAIN fs = 1..n /\ \A k \in 1..n : fs[k] \in Frame OBVIOUS
<1>2. s \in Seq(Int) /\ Len(s) = n
  <2>1. s \in [1..n -> Int] BY <1>0, <1>1
  <2> QED BY <2>1, <1>1
<1>3. /\ DOMAIN g = 1..(n + 1) /\ g[n + 1] = f
      /\ \A k \in 1..n : g[k] = fs[k]
  BY <1>1
<1>4. t = Append(s, Len(f.marks))
  <2> DEFINE u == Append(s, Len(f.marks))
  <2>1. u \in [1..(n + 1) -> Int] /\ u[n + 1] = Len(f.marks)
        /\ \A k \in 1..n : u[k] = s[k]
    <3> HIDE DEF s
    <3>1. Len(f.marks) \in Int BY <1>0
    <3>2. u \in Seq(Int) /\ Len(u) = n + 1 BY <3>1, <1>2, AppendProperties
    <3>3. u[n + 1] = Len(f.marks) /\ \A k \in 1..n : u[k] = s[k]
      BY <3>1, <1>2, AppendProperties
    <3> HIDE DEF u
    <3> QED BY <3>2, <3>3, LenProperties
  <2>2. DOMAIN u = 1..(n + 1) /\ DOMAIN t = 1..(n + 1) BY <2>1, <1>3
  <2>3. ASSUME NEW k \in 1..(n + 1) PROVE t[k] = u[k]
    <3>1. CASE k = n + 1 BY <3>1, <1>3, <2>1
    <3>2. CASE k \in 1..n BY <3>2, <1>1, <1>3, <2>1
    <3> QED BY <3>1, <3>2, <1>1
  <2>4. u = [k \in 1..(n + 1) |-> u[k]] BY <2>1
  <2> HIDE DEF u
  <2>5. t = [k \in 1..(n + 1) |-> Len(g[k].marks)] BY <1>3
  <2> QED BY <2>3, <2>4, <2>5, <1>3 DEF u
<1>5. SumFunction(s) \in Int BY <1>2, SeqSumType
<1> HIDE DEF s, t
<1> QED BY <1>0, <1>2, <1>4, <1>5, SeqSumAppend DEF MarkSum, s, t

LEMMA MarkSumTop ==
  ASSUME NEW fs \in Seq(Frame), fs # <<>>, NEW f \in Frame
  PROVE  /\ MarkSum(fs) \in Int
         /\ MarkSum(Front(fs)) = MarkSum(fs) - Len(Last(fs).marks)
         /\ MarkSum(Append(Front(fs), f)) =
              MarkSum(fs) - Len(Last(fs).marks) + Len(f.marks)
<1>1. Front(fs) \in Seq(Frame) /\ Last(fs) \in Frame /\ fs = Append(Front(fs), Last(fs))
  BY FrontLast
<1>2. Len(Last(fs).marks) \in Nat /\ Len(f.marks) \in Nat BY <1>1, FrameType
<1>3. /\ MarkSum(Front(fs)) \in Int /\ MarkSum(fs) \in Int
      /\ MarkSum(fs) = MarkSum(Front(fs)) + Len(Last(fs).marks)
  BY <1>1, MarkSumAppend
<1>4. MarkSum(Append(Front(fs), f)) = MarkSum(Front(fs)) + Len(f.marks)
  BY <1>1, MarkSumAppend
<1> QED BY <1>2, <1>3, <1>4

LEMMA MarkSumEmpty == MarkSum(<<>>) = 0
<1>1. [k \in DOMAIN <<>> |-> Len(<<>>[k].marks)] = <<>> OBVIOUS
<1> QED BY <1>1, SeqSumEmpty DEF MarkSum

-----------------------------------------------------------------------------
(* The steps of the calls. *)

ConsoleType ==
  /\ buffers \in [Streams -> Seq(Nat)] /\ printed \in [Streams -> Seq(Seq(Nat))]
  /\ written \in [Streams -> Seq(Nat)]

CallType ==
  /\ sp \in Nat \ {0} /\ thrown \in Nat
  /\ saved \in Seq(Nat \ {0}) /\ frames \in Seq(Frame)

LEMMA TypeParts == /\ TypeOK <=> CallType /\ ConsoleType
                   /\ TypeOK' <=> CallType' /\ ConsoleType'
BY DEF TypeOK, CallType, ConsoleType, Frame, Mark

LEMMA TopFrame ==
  ASSUME CallType, frames # <<>>
  PROVE  /\ Len(frames) \in Nat \ {0} /\ Top \in Frame /\ Top = frames[Len(frames)]
BY FrontLast DEF CallType, Top

LEMMA SetTopStep ==
  ASSUME CallType, frames # <<>>, NEW f \in Frame, SetTop(f)
  PROVE  /\ frames' \in Seq(Frame) /\ Len(frames') = Len(frames)
         /\ frames'[Len(frames)] = f
         /\ \A k \in 1..(Len(frames) - 1) : frames'[k] = frames[k]
         /\ MarkSum(frames) \in Int
         /\ MarkSum(frames') = MarkSum(frames) - Len(Top.marks) + Len(f.marks)
BY TopReplaced, MarkSumTop DEF CallType, SetTop, Top

LEMMA ThrowSound ==
  ASSUME Sound, Throw, sp' \in Nat \ {0}, sp <= sp'
  PROVE  Sound'
<1>1. CallType /\ ConsoleType BY TypeParts DEF Sound
<1>2. PICK n \in {0} \cup {k \in 1..Len(frames) : frames[k].js} :
        frames' = SubSeq(frames, 1, n)
  BY DEF Throw
<1>3. saved' = saved /\ thrown' \in Nat \ {0} /\ ConsoleType'
  BY <1>1 DEF Throw, consoleVars, CallType, ConsoleType
<1>4. Len(frames) \in Nat /\ n \in 0..Len(frames) BY <1>1, <1>2 DEF CallType
<1>5. /\ frames' \in Seq(Frame) /\ Len(frames') = n
      /\ \A k \in 1..n : k \in 1..Len(frames) /\ frames'[k] = frames[k]
  <2>1. \A k \in 1..n : k \in 1..Len(frames) /\ frames[k] \in Frame
    BY <1>1, <1>4 DEF CallType
  <2>2. /\ n - 1 + 1 = n /\ (1 <= n <=> n # 0) /\ 1 \in Int /\ n \in Int
        /\ \A k \in 1..n : 1 + k - 1 = k
    BY <1>4
  <2> QED BY <1>2, <2>1, <2>2, SubSeqProperties
<1>6. CallType' BY <1>1, <1>3, <1>5 DEF CallType
<1>7. FramesSound' BY <1>5 DEF Sound, FramesSound, FrameSound, FrameNested
<1>8. MarksOrdered' BY <1>5 DEF Sound, MarksOrdered
<1>9. MarksHold'
  <2>1. SUFFICES ASSUME NEW k \in 1..n, NEW m \in 1..Len(frames'[k].marks)
                 PROVE  LET mark == frames'[k].marks[m]
                        IN mark.p \in 1..Len(saved') /\ saved'[mark.p] = mark.sp
    BY <1>5 DEF MarksHold
  <2>2. k \in 1..Len(frames) /\ frames'[k] = frames[k] BY <1>5
  <2> QED BY <1>3, <2>1, <2>2 DEF Sound, MarksHold
<1>10. NoneLeft' /\ AtBase' BY <1>3 DEF NoneLeft, AtBase
<1>11. Nested'
  <2>1. ASSUME NEW k \in 1..n PROVE Under(frames'[k], sp')
    <3>1. frames'[k] = frames[k] /\ frames[k] \in Frame /\ Under(frames[k], sp)
      BY <1>1, <1>5 DEF Sound, Nested, CallType
    <3> QED BY <1>1, <3>1, UnderMore DEF CallType
  <2>2. ASSUME NEW k \in 1..n, NEW l \in 1..n, k < l
        PROVE  Under(frames'[k], frames'[l].base)
    BY <1>5, <2>2 DEF Sound, Nested
  <2> QED BY <1>5, <2>1, <2>2 DEF Nested, Under
<1> QED BY <1>3, <1>6, <1>7, <1>8, <1>9, <1>10, <1>11, TypeParts DEF Sound

(* The top frame changes and keeps its marks. *)
LEMMA TopKeepsMarks ==
  ASSUME Sound, frames # <<>>, NEW b \in BOOLEAN, SetTop([Top EXCEPT !.js = b]),
         UNCHANGED <<sp, saved, thrown, consoleVars>>
  PROVE  Sound'
<1> DEFINE f == [Top EXCEPT !.js = b]
           n == Len(frames)
<1>1. CallType /\ ConsoleType BY TypeParts DEF Sound
<1>2. n \in Nat \ {0} /\ Top \in Frame /\ Top = frames[n] BY <1>1, TopFrame
<1>3. /\ f \in Frame /\ f.marks = Top.marks
      /\ f.base = Top.base /\ f.stack = Top.stack /\ f.entry = Top.entry
  BY <1>2 DEF Frame
<1>4. /\ frames' \in Seq(Frame) /\ Len(frames') = n /\ frames'[n] = f
      /\ \A k \in 1..(n - 1) : frames'[k] = frames[k]
      /\ MarkSum(frames') = MarkSum(frames)
  <2> HIDE DEF f
  <2>1. SetTop(f) BY DEF f
  <2>2. Len(f.marks) \in Nat BY <1>3, FrameType
  <2> QED BY <1>1, <1>3, <2>1, <2>2, SetTopStep
<1>5. /\ CallType' /\ ConsoleType' /\ saved' = saved /\ thrown' = thrown
  BY <1>1, <1>4 DEF consoleVars, CallType, ConsoleType
<1>6. \A k \in 1..n : /\ frames'[k].marks = frames[k].marks
                      /\ frames'[k].base = frames[k].base
                      /\ frames'[k].stack = frames[k].stack
                      /\ frames'[k].entry = frames[k].entry
  <2> HIDE DEF f
  <2> SUFFICES ASSUME NEW k \in 1..n
               PROVE  /\ frames'[k].marks = frames[k].marks
                      /\ frames'[k].base = frames[k].base
                      /\ frames'[k].stack = frames[k].stack
                      /\ frames'[k].entry = frames[k].entry
    OBVIOUS
  <2>1. CASE k = n BY <2>1, <1>2, <1>3, <1>4
  <2>2. CASE k # n
    <3>1. k \in 1..(n - 1) BY <2>2, <1>2
    <3> QED BY <3>1, <1>4
  <2> QED BY <2>1, <2>2
<1> HIDE DEF f
<1>7. FramesSound' BY <1>4, <1>6 DEF Sound, FramesSound, FrameSound, FrameNested
<1>8. MarksOrdered' BY <1>4, <1>6 DEF Sound, MarksOrdered
<1>9. MarksHold' BY <1>4, <1>5, <1>6 DEF Sound, MarksHold
<1>10. NoneLeft' BY <1>4, <1>5 DEF Sound, NoneLeft
<1>11. Nested' BY <1>4, <1>6 DEF Sound, Nested, Under
<1>12. AtBase'
  <2>1. frames' # <<>> /\ 1 \in 1..n BY <1>2, <1>4
  <2> QED BY <1>1, <1>5, <1>6, <2>1 DEF Sound, AtBase, Base
<1> QED BY <1>5, <1>7, <1>8, <1>9, <1>10, <1>11, <1>12, TypeParts DEF Sound

LEMMA CCallSound ==
  ASSUME Sound, NEW sizes \in ArgSizes, CCall(sizes)
  PROVE  Sound'
<1>1. CallType /\ ConsoleType BY TypeParts DEF Sound
<1>2. sizes \in Seq(Nat) /\ SumFunction(sizes) \in Nat BY CallAssumption, SeqSumNat
<1> DEFINE entry == sp + SumFunction(sizes)
           past == {t \in {sp + SumFunction(SubSeq(sizes, 1, k)) : k \in 1..Len(sizes)}
                             \cup {entry + 1} : t > StackMax}
<1>3. ASSUME NEW t \in past PROVE t \in Nat \ {0} /\ sp <= t
  <2>1. sp \in Nat \ {0} BY <1>1 DEF CallType
  <2>2. ASSUME NEW k \in 1..Len(sizes), t = sp + SumFunction(SubSeq(sizes, 1, k))
        PROVE  t \in Nat \ {0} /\ sp <= t
    <3>1. \A i \in 1..k : sizes[i] \in Nat
      <4>1. \A i \in 1..k : i \in 1..Len(sizes) BY <1>2
      <4> QED BY <4>1, <1>2
    <3>2. SubSeq(sizes, 1, k) \in Seq(Nat) BY <3>1, <1>2, SubSeqProperties
    <3>3. SumFunction(SubSeq(sizes, 1, k)) \in Nat BY <3>2, SeqSumNat
    <3> QED BY <2>1, <2>2, <3>3
  <2>3. CASE t = entry + 1 BY <1>2, <2>1, <2>3
  <2> QED BY <2>2, <2>3
<1>4. ASSUME NEW t \in past, sp' = t, Throw PROVE Sound'
  BY <1>3, <1>4, ThrowSound
<1>5. CASE /\ sp' = entry + 1
           /\ frames' = Append(frames,
                [base  |-> sp,
                 stack |-> IF sizes = <<>> THEN 0 ELSE sp,
                 entry |-> entry,
                 marks |-> <<>>, js |-> FALSE])
           /\ UNCHANGED <<saved, thrown, consoleVars>>
  <2> DEFINE f == [base  |-> sp,
                   stack |-> IF sizes = <<>> THEN 0 ELSE sp,
                   entry |-> entry,
                   marks |-> <<>>, js |-> FALSE]
             n == Len(frames)
  <2>1. /\ frames' = Append(frames, f)
        /\ saved' = saved /\ thrown' = thrown /\ UNCHANGED consoleVars
    BY <1>5
  <2>2. /\ f \in Frame /\ f.marks = <<>> /\ FrameSound(f) /\ FrameNested(f)
        /\ f.base = sp /\ f.entry = entry
    <3>1. <<>> \in Seq(Mark) /\ 0 \in Nat /\ sp \in Nat \ {0} BY <1>1 DEF CallType
    <3>2. sp + SumFunction(sizes) \in Nat BY <3>1, <1>2
    <3>3. f \in Frame BY <3>1, <3>2 DEF Frame
    <3>4. sizes = <<>> => sp + SumFunction(sizes) = sp BY <3>1, SeqSumEmpty
    <3>5. Len(<<>>) = 0 /\ sp <= entry BY <1>2, <3>1
    <3> QED BY <3>1, <3>3, <3>4, <3>5 DEF FrameSound, FrameNested
  <2> HIDE DEF f
  <2>3. n \in Nat /\ frames \in Seq(Frame) BY <1>1 DEF CallType
  <2>4. /\ frames' \in Seq(Frame) /\ Len(frames') = n + 1 /\ frames'[n + 1] = f
        /\ \A k \in 1..n : frames'[k] = frames[k]
    BY <2>1, <2>2, <2>3, AppendProperties
  <2>5. MarkSum(frames') = MarkSum(frames)
    BY <2>1, <2>2, <2>3, MarkSumAppend
  <2>14. sp \in Nat \ {0} /\ sp' \in Nat \ {0} /\ sp <= sp' /\ entry < sp'
    BY <1>1, <1>2, <1>5 DEF CallType
  <2>6. CallType' BY <1>1, <2>1, <2>4, <2>14 DEF CallType
  <2>7. ConsoleType' BY <1>1, <2>1 DEF consoleVars, ConsoleType
  <2>8. \A k \in 1..(n + 1) : k \in 1..n \/ k = n + 1 BY <2>3
  <2>9. FramesSound' BY <2>2, <2>4, <2>8 DEF Sound, FramesSound, FrameSound, FrameNested
  <2>10. Len(frames'[n + 1].marks) = 0 BY <2>2, <2>4
  <2>11. MarksOrdered'
    <3>1. ASSUME NEW k \in 1..(n + 1), NEW i \in 1..Len(frames'[k].marks)
          PROVE  k \in 1..n
      BY <2>8, <2>10
    <3> QED BY <3>1, <2>4 DEF Sound, MarksOrdered
  <2>12. MarksHold' BY <2>1, <2>4, <2>8, <2>10 DEF Sound, MarksHold
  <2>13. NoneLeft' BY <2>1, <2>5 DEF Sound, NoneLeft
  <2>15. ASSUME NEW k \in 1..(n + 1) PROVE Under(frames'[k], sp')
    <3>1. CASE k = n + 1 BY <3>1, <2>2, <2>4, <2>10, <2>14 DEF Under
    <3>2. CASE k \in 1..n
      <4>1. frames'[k] = frames[k] /\ frames[k] \in Frame /\ Under(frames[k], sp)
        BY <3>2, <2>3, <2>4 DEF Sound, Nested
      <4> QED BY <4>1, <2>14, UnderMore
    <3> QED BY <2>8, <3>1, <3>2
  <2>16. ASSUME NEW k \in 1..(n + 1), NEW l \in 1..(n + 1), k < l
         PROVE  Under(frames'[k], frames'[l].base)
    <3>1. k \in 1..n BY <2>3, <2>16
    <3>2. CASE l = n + 1 BY <3>1, <3>2, <2>2, <2>4 DEF Sound, Nested
    <3>3. CASE l \in 1..n BY <3>1, <3>3, <2>4, <2>16 DEF Sound, Nested
    <3> QED BY <2>8, <3>2, <3>3
  <2>17. Nested' BY <2>4, <2>15, <2>16 DEF Nested, Under
  <2>18. AtBase'
    <3>1. CASE frames = <<>>
      <4>1. frames'[1] = f /\ frames' # <<>> BY <3>1, <2>4
      <4> QED BY <3>1, <4>1, <2>1, <2>2 DEF Sound, AtBase, Base
    <3>2. CASE frames # <<>>
      <4>1. 1 \in 1..n BY <3>2, <2>3, EmptySeq
      <4>2. frames'[1] = frames[1] /\ frames' # <<>> BY <4>1, <2>4
      <4> QED BY <3>2, <4>2, <2>1 DEF Sound, AtBase, Base
    <3> QED BY <3>1, <3>2
  <2> QED BY <2>6, <2>7, <2>9, <2>11, <2>12, <2>13, <2>17, <2>18, TypeParts DEF Sound
<1> QED BY <1>4, <1>5 DEF CCall

LEMMA ReturnSound ==
  ASSUME Sound, ReturnC
  PROVE  Sound'
<1> DEFINE n == Len(frames)
<1>1. CallType /\ ConsoleType /\ frames # <<>> BY TypeParts DEF Sound, ReturnC, InC
<1>2. n \in Nat \ {0} /\ Top \in Frame /\ Top = frames[n] BY <1>1, TopFrame
<1>3. FrameSound(Top) BY <1>2 DEF Sound, FramesSound
<1>4. sp' = Top.base /\ sp' \in Nat \ {0}
  BY <1>2, <1>3, FrameType DEF ReturnC, FrameSound
<1>5. /\ saved' = saved /\ thrown' = thrown /\ UNCHANGED consoleVars
      /\ frames' = Front(frames) /\ Top.marks = <<>>
  BY DEF ReturnC
<1>6. /\ frames' \in Seq(Frame) /\ Len(frames') = n - 1
      /\ \A k \in 1..(n - 1) : frames'[k] = frames[k]
  BY <1>1, <1>5, FrontLast DEF CallType
<1>7. MarkSum(frames') = MarkSum(frames)
  BY <1>1, <1>2, <1>5, MarkSumTop DEF CallType, Top
<1>8. CallType' BY <1>1, <1>4, <1>5, <1>6 DEF CallType
<1>9. ConsoleType' BY <1>1, <1>5 DEF consoleVars, ConsoleType
<1>10. \A k \in 1..(n - 1) : k \in 1..n BY <1>2
<1>11. FramesSound' BY <1>6, <1>10 DEF Sound, FramesSound, FrameSound, FrameNested
<1>12. MarksOrdered' BY <1>6, <1>10 DEF Sound, MarksOrdered
<1>13. MarksHold' BY <1>5, <1>6, <1>10 DEF Sound, MarksHold
<1>14. NoneLeft' BY <1>5, <1>7 DEF Sound, NoneLeft
<1>15. Nested'
  <2>1. ASSUME NEW k \in 1..(n - 1) PROVE Under(frames'[k], sp')
    <3>1. k \in 1..n /\ n \in 1..n /\ k < n BY <1>2
    <3> QED BY <3>1, <1>2, <1>4, <1>6 DEF Sound, Nested
  <2>2. ASSUME NEW k \in 1..(n - 1), NEW l \in 1..(n - 1), k < l
        PROVE  Under(frames'[k], frames'[l].base)
    BY <2>2, <1>6, <1>10 DEF Sound, Nested
  <2> QED BY <1>6, <2>1, <2>2 DEF Nested, Under
<1>16. AtBase'
  <2>1. CASE n = 1
    <3>1. frames' = <<>> BY <2>1, <1>6, EmptySeq
    <3> QED BY <2>1, <3>1, <1>1, <1>2, <1>4, <1>5 DEF Sound, AtBase, Base
  <2>2. CASE n # 1
    <3>1. 1 \in 1..(n - 1) /\ n - 1 # 0
      <4>1. n \in Nat \ {0} BY <1>2
      <4> HIDE DEF n
      <4> QED BY <2>2, <4>1
    <3>2. frames'[1] = frames[1] BY <3>1, <1>6
    <3>3. frames' # <<>>
      <4>1. Len(<<>>) = 0 OBVIOUS
      <4> QED BY <3>1, <4>1, <1>6
    <3> QED BY <3>2, <3>3, <1>1, <1>5 DEF Sound, AtBase, Base
  <2> QED BY <2>1, <2>2
<1> QED BY <1>8, <1>9, <1>11, <1>12, <1>13, <1>14, <1>15, <1>16, TypeParts DEF Sound

LEMMA SaveSound ==
  ASSUME Sound, StackSave
  PROVE  Sound'
<1> DEFINE n == Len(frames)
           u == Len(saved) + 1
           mark == [p |-> u, sp |-> sp]
           f == [Top EXCEPT !.marks = Append(@, mark)]
           c == Len(Top.marks)
<1>1. CallType /\ ConsoleType /\ frames # <<>> BY TypeParts DEF Sound, StackSave, InC
<1>2. n \in Nat \ {0} /\ Top \in Frame /\ Top = frames[n] BY <1>1, TopFrame
<1>3. /\ sp' = sp /\ thrown' = thrown /\ UNCHANGED consoleVars
      /\ saved' = Append(saved, sp)
  BY DEF StackSave
<1>4. /\ u \in Nat \ {0} /\ Len(saved') = u /\ saved'[u] = sp
      /\ saved' \in Seq(Nat \ {0})
      /\ \A k \in 1..Len(saved) : saved'[k] = saved[k]
  BY <1>1, <1>3, AppendProperties DEF CallType
<1>5. SetTop(f) BY <1>4 DEF StackSave
<1>6. mark \in Mark BY <1>1, <1>4 DEF CallType, Mark
<1>7. /\ c \in Nat /\ f.marks \in Seq(Mark) /\ Len(f.marks) = c + 1
      /\ f.marks[c + 1] = mark
      /\ \A m \in 1..c : f.marks[m] = Top.marks[m]
  <2> HIDE DEF mark
  <2>1. f.marks = Append(Top.marks, mark) BY <1>2 DEF Frame
  <2>2. Top.marks \in Seq(Mark) /\ c \in Nat BY <1>2, FrameType
  <2> QED BY <1>6, <2>1, <2>2, AppendProperties
<1>8. f \in Frame /\ f.base = Top.base /\ f.stack = Top.stack /\ f.entry = Top.entry
  <2>1. Append(Top.marks, mark) \in Seq(Mark)
    BY <1>2, <1>6, FrameType, AppendProperties
  <2> HIDE DEF mark
  <2> QED BY <1>2, <2>1 DEF Frame
<1> HIDE DEF f
<1>9. /\ frames' \in Seq(Frame) /\ Len(frames') = n /\ frames'[n] = f
      /\ \A k \in 1..(n - 1) : frames'[k] = frames[k]
      /\ MarkSum(frames) \in Int
      /\ MarkSum(frames') = MarkSum(frames) + 1
  BY <1>1, <1>5, <1>7, <1>8, SetTopStep
<1>10. CallType' BY <1>1, <1>3, <1>4, <1>9 DEF CallType
<1>11. ConsoleType' BY <1>1, <1>3 DEF consoleVars, ConsoleType
<1>12. \A k \in 1..n : k \in 1..(n - 1) \/ k = n BY <1>2
(* A mark is the new one, or one that was there, whose place is before it. *)
<1>13. ASSUME NEW k \in 1..n, NEW m \in 1..Len(frames'[k].marks)
       PROVE  \/ k = n /\ m = c + 1 /\ frames'[k].marks[m] = mark
              \/ /\ m \in 1..Len(frames[k].marks) /\ (k = n => m # c + 1)
                 /\ frames'[k].marks[m] = frames[k].marks[m]
                 /\ frames[k].marks[m].p \in 1..Len(saved)
  <2> HIDE DEF mark
  <2>1. CASE k = n
    <3>1. m \in 1..(c + 1) BY <2>1, <1>7, <1>9
    <3>2. CASE m = c + 1 BY <2>1, <3>2, <1>7, <1>9
    <3>3. CASE m # c + 1
      <4>1. m \in 1..c BY <3>1, <3>3, <1>7
      <4>2. m \in 1..Len(frames[k].marks) BY <2>1, <4>1, <1>2
      <4>3. frames'[k].marks[m] = frames[k].marks[m]
        BY <2>1, <4>1, <1>2, <1>7, <1>9
      <4> QED BY <3>3, <4>2, <4>3 DEF Sound, MarksHold
    <3> QED BY <3>2, <3>3
  <2>2. CASE k # n
    <3>1. frames'[k] = frames[k] BY <2>2, <1>9, <1>12
    <3> QED BY <2>2, <3>1 DEF Sound, MarksHold
  <2> QED BY <2>1, <2>2
<1>14. FramesSound'
  <2>1. ASSUME NEW k \in 1..n PROVE FrameSound(frames'[k]) /\ FrameNested(frames'[k])
    <3>1. CASE k = n
      <4>1. FrameSound(Top) /\ FrameNested(Top) /\ Under(Top, sp)
        BY <1>2 DEF Sound, FramesSound, Nested
      <4>2. FrameSound(f) BY <4>1, <1>8 DEF FrameSound
      <4>3. \A m \in 1..(c + 1) : m \in 1..c \/ m = c + 1 BY <1>7
      <4>4. mark.sp = sp OBVIOUS
      <4> HIDE DEF mark
      <4>5. \A m \in 1..(c + 1) : f.entry < f.marks[m].sp /\ f.marks[m].sp <= sp
        <5>1. Top.entry < sp /\ sp <= sp BY <1>1, <4>1 DEF Under, CallType
        <5>2. \A m \in 1..c : Top.entry < Top.marks[m].sp /\ Top.marks[m].sp <= sp
          BY <4>1 DEF FrameNested, Under
        <5> QED BY <1>7, <1>8, <4>3, <4>4, <5>1, <5>2
      <4>6. ASSUME NEW i \in 1..(c + 1), NEW j \in 1..(c + 1), i < j
            PROVE  f.marks[i].sp <= f.marks[j].sp
        <5>1. i \in 1..c BY <1>7, <4>6
        <5>2. CASE j = c + 1 BY <5>2, <1>7, <4>4, <4>5
        <5>3. CASE j \in 1..c BY <5>1, <5>3, <1>7, <4>1, <4>6 DEF FrameNested
        <5> QED BY <4>3, <5>2, <5>3
      <4> QED BY <3>1, <1>7, <1>8, <1>9, <4>1, <4>2, <4>5, <4>6 DEF FrameNested
    <3>2. CASE k # n BY <3>2, <1>9, <1>12 DEF Sound, FramesSound
    <3> QED BY <3>1, <3>2
  <2> QED BY <1>9, <2>1 DEF FramesSound, FrameSound, FrameNested
<1>15. MarksHold'
  <2>1. SUFFICES ASSUME NEW k \in 1..n, NEW m \in 1..Len(frames'[k].marks)
                 PROVE  LET w == frames'[k].marks[m]
                        IN w.p \in 1..Len(saved') /\ saved'[w.p] = w.sp
    BY <1>9 DEF MarksHold
  <2>2. CASE frames'[k].marks[m] = mark BY <2>2, <1>4
  <2>3. CASE /\ m \in 1..Len(frames[k].marks)
             /\ frames'[k].marks[m] = frames[k].marks[m]
    <3>1. LET w == frames[k].marks[m]
          IN w.p \in 1..Len(saved) /\ saved[w.p] = w.sp
      BY <2>3 DEF Sound, MarksHold
    <3> QED BY <2>3, <3>1, <1>4
  <2> QED BY <2>2, <2>3, <1>13
<1>16. MarksOrdered'
  <2>1. SUFFICES ASSUME NEW k \in 1..n, NEW l \in 1..n,
                        NEW i \in 1..Len(frames'[k].marks),
                        NEW j \in 1..Len(frames'[l].marks),
                        k < l \/ (k = l /\ i < j)
                 PROVE  frames'[k].marks[i].p < frames'[l].marks[j].p
    BY <1>9 DEF MarksOrdered
  <2>2. ~ (k = n /\ i = c + 1)
    <3>1. SUFFICES ASSUME k = n, i = c + 1 PROVE FALSE OBVIOUS
    <3>2. l = n /\ j \in 1..(c + 1) /\ c + 1 < j BY <2>1, <3>1, <1>2, <1>7, <1>9
    <3> QED BY <3>2, <1>7
  <2>3. /\ i \in 1..Len(frames[k].marks)
        /\ frames'[k].marks[i] = frames[k].marks[i]
        /\ frames[k].marks[i].p \in 1..Len(saved)
    BY <2>2, <1>13
  <2>4. CASE frames'[l].marks[j] = mark
    <3>1. frames'[l].marks[j].p = u BY <2>4
    <3> QED BY <2>3, <3>1, <1>4
  <2>5. CASE /\ j \in 1..Len(frames[l].marks)
             /\ frames'[l].marks[j] = frames[l].marks[j]
    BY <2>1, <2>3, <2>5 DEF Sound, MarksOrdered
  <2> QED BY <2>4, <2>5, <1>13
<1>17. NoneLeft'
  <2>1. Len(saved) \in Nat BY <1>1 DEF CallType
  <2> QED BY <1>3, <1>4, <1>9, <2>1 DEF Sound, NoneLeft
<1>18. Nested'
  <2>1. ASSUME NEW k \in 1..n PROVE Under(frames'[k], sp')
    <3>1. CASE k = n
      <4>1. Under(Top, sp) BY <1>2 DEF Sound, Nested
      <4>2. \A m \in 1..(c + 1) : m \in 1..c \/ m = c + 1 BY <1>7
      <4>3. mark.sp = sp /\ sp <= sp BY <1>1 DEF CallType
      <4> HIDE DEF mark
      <4> QED BY <3>1, <1>3, <1>7, <1>8, <1>9, <4>1, <4>2, <4>3 DEF Under
    <3>2. CASE k # n BY <3>2, <1>3, <1>9, <1>12 DEF Sound, Nested
    <3> QED BY <3>1, <3>2
  <2>2. ASSUME NEW k \in 1..n, NEW l \in 1..n, k < l
        PROVE  Under(frames'[k], frames'[l].base)
    <3>1. k \in 1..(n - 1) BY <1>2, <2>2
    <3>2. frames'[l].base = frames[l].base
      <4>1. CASE l = n BY <4>1, <1>2, <1>8, <1>9
      <4>2. CASE l # n BY <4>2, <1>9, <1>12
      <4> QED BY <4>1, <4>2
    <3> QED BY <2>2, <3>1, <3>2, <1>9 DEF Sound, Nested
  <2> QED BY <1>9, <2>1, <2>2 DEF Nested, Under
<1>19. AtBase'
  <2>1. 1 \in 1..n /\ frames' # <<>> BY <1>2, <1>9
  <2>2. frames'[1].base = frames[1].base
    <3>1. CASE 1 = n BY <3>1, <1>2, <1>8, <1>9
    <3>2. CASE 1 # n BY <3>2, <2>1, <1>9, <1>12
    <3> QED BY <3>1, <3>2
  <2> QED BY <1>1, <1>3, <2>1, <2>2 DEF Sound, AtBase, Base
<1> QED BY <1>10, <1>11, <1>14, <1>15, <1>16, <1>17, <1>18, <1>19, TypeParts DEF Sound

LEMMA RemoveAtProperties ==
  ASSUME NEW S, NEW s \in Seq(S), NEW p \in 1..Len(s)
  PROVE  /\ RemoveAt(s, p) \in Seq(S) /\ Len(RemoveAt(s, p)) = Len(s) - 1
         /\ \A k \in 1..(p - 1) : RemoveAt(s, p)[k] = s[k]
<1> DEFINE a == SubSeq(s, 1, p - 1)
           b == SubSeq(s, p + 1, Len(s))
<1>1. Len(s) \in Nat /\ p \in Nat \ {0} /\ p <= Len(s) OBVIOUS
<1>2. a \in Seq(S) /\ Len(a) = p - 1 /\ \A k \in 1..(p - 1) : a[k] = s[k]
  <2>1. \A k \in 1..(p - 1) : s[k] \in S BY <1>1
  <2>2. /\ 1 \in Int /\ p - 1 \in Int /\ p - 1 - 1 + 1 = p - 1
        /\ (1 <= p - 1 \/ p - 1 = 0) /\ \A k \in 1..(p - 1) : 1 + k - 1 = k
    BY <1>1
  <2> QED BY <2>1, <2>2, SubSeqProperties
<1>3. b \in Seq(S) /\ Len(b) = Len(s) - p
  <2>1. \A k \in (p + 1)..Len(s) : s[k] \in S BY <1>1
  <2>2. p + 1 \in Int /\ Len(s) \in Int BY <1>1
  <2>3. /\ b \in Seq(S)
        /\ Len(b) = IF p + 1 <= Len(s) THEN Len(s) - (p + 1) + 1 ELSE 0
    BY <2>1, <2>2, SubSeqProperties
  <2> HIDE DEF b
  <2> QED BY <2>3, <1>1
<1>4. RemoveAt(s, p) = a \o b BY DEF RemoveAt
<1> HIDE DEF a, b
<1>5. /\ a \o b \in Seq(S) /\ Len(a \o b) = Len(a) + Len(b)
      /\ \A k \in 1..(Len(a) + Len(b)) :
           (a \o b)[k] = IF k <= Len(a) THEN a[k] ELSE b[k - Len(a)]
  BY <1>2, <1>3, ConcatProperties
<1>6. Len(a) + Len(b) = Len(s) - 1 BY <1>1, <1>2, <1>3
<1>7. \A k \in 1..(p - 1) : k \in 1..(Len(s) - 1) /\ k <= p - 1 BY <1>1
<1> QED BY <1>2, <1>4, <1>5, <1>6, <1>7

LEMMA RestoreSound ==
  ASSUME Sound, StackRestore
  PROVE  Sound'
<1> DEFINE n == Len(frames)
           c == Len(Top.marks)
           p == Last(Top.marks).p
           f == [Top EXCEPT !.marks = Front(@)]
<1>1. CallType /\ ConsoleType /\ frames # <<>> BY TypeParts DEF Sound, StackRestore, InC
<1>2. n \in Nat \ {0} /\ Top \in Frame /\ Top = frames[n] BY <1>1, TopFrame
<1>3. /\ sp' = saved[p] /\ saved' = RemoveAt(saved, p) /\ SetTop(f)
      /\ thrown' = thrown /\ UNCHANGED consoleVars /\ Top.marks # <<>>
  BY DEF StackRestore
<1>4. /\ c \in Nat \ {0} /\ p = frames[n].marks[c].p
      /\ Front(Top.marks) \in Seq(Mark) /\ Len(Front(Top.marks)) = c - 1
      /\ \A m \in 1..(c - 1) : Front(Top.marks)[m] = Top.marks[m]
  <2>1. Top.marks \in Seq(Mark) BY <1>2, FrameType
  <2> QED BY <1>2, <1>3, <2>1, FrontLast
<1>5. /\ f \in Frame /\ f.marks = Front(Top.marks)
      /\ f.base = Top.base /\ f.stack = Top.stack /\ f.entry = Top.entry
  BY <1>2, <1>4 DEF Frame
<1>6. p \in 1..Len(saved) BY <1>2, <1>4 DEF Sound, MarksHold
<1> HIDE DEF p, f
<1>7. /\ saved \in Seq(Nat \ {0}) /\ Len(saved) \in Nat
      /\ sp' \in Nat \ {0} /\ saved' \in Seq(Nat \ {0})
      /\ Len(saved') = Len(saved) - 1
      /\ \A k \in 1..(p - 1) : saved'[k] = saved[k]
  <2>1. saved \in Seq(Nat \ {0}) BY <1>1 DEF CallType
  <2>2. saved[p] \in Nat \ {0} BY <1>6, <2>1
  <2>3. Len(saved) \in Nat BY <2>1
  <2>4. /\ saved' \in Seq(Nat \ {0}) /\ Len(saved') = Len(saved) - 1
        /\ \A k \in 1..(p - 1) : saved'[k] = saved[k]
    BY <1>3, <1>6, <2>1, RemoveAtProperties
  <2> QED BY <1>3, <2>1, <2>2, <2>3, <2>4
<1>8. /\ frames' \in Seq(Frame) /\ Len(frames') = n /\ frames'[n] = f
      /\ \A k \in 1..(n - 1) : frames'[k] = frames[k]
      /\ MarkSum(frames) \in Int
      /\ MarkSum(frames') = MarkSum(frames) - 1
  <2>1. /\ frames' \in Seq(Frame) /\ Len(frames') = n /\ frames'[n] = f
        /\ \A k \in 1..(n - 1) : frames'[k] = frames[k]
        /\ MarkSum(frames) \in Int
        /\ MarkSum(frames') = MarkSum(frames) - c + Len(f.marks)
    BY <1>1, <1>3, <1>5, SetTopStep
  <2>2. Len(f.marks) = c - 1 BY <1>4, <1>5
  <2> QED BY <1>4, <2>1, <2>2
<1>9. CallType' BY <1>1, <1>3, <1>7, <1>8 DEF CallType
<1>10. ConsoleType' BY <1>1, <1>3 DEF consoleVars, ConsoleType
<1>11. \A k \in 1..n : k \in 1..(n - 1) \/ k = n BY <1>2
(* Every mark that is left was there, and its place is before that of the  *)
(* one that goes. *)
<1>12. ASSUME NEW k \in 1..n, NEW m \in 1..Len(frames'[k].marks)
       PROVE  /\ m \in 1..Len(frames[k].marks)
              /\ frames'[k].marks[m] = frames[k].marks[m]
              /\ frames[k].marks[m].p \in 1..Len(saved)
              /\ frames[k].marks[m].p < p
  <2>1. /\ m \in 1..Len(frames[k].marks) /\ frames'[k].marks[m] = frames[k].marks[m]
        /\ (k < n \/ (k = n /\ m < c))
    <3>1. CASE k = n
      <4>1. m \in 1..(c - 1) BY <3>1, <1>4, <1>5, <1>8
      <4>2. frames'[k].marks[m] = frames[k].marks[m]
        BY <3>1, <4>1, <1>2, <1>4, <1>5, <1>8
      <4>3. m \in 1..c /\ m < c BY <4>1, <1>4
      <4> QED BY <3>1, <4>2, <4>3, <1>2
    <3>2. CASE k # n
      <4>1. k \in 1..(n - 1) /\ k < n BY <3>2, <1>2
      <4> QED BY <4>1, <1>8
    <3> QED BY <3>1, <3>2
  <2>2. frames[k].marks[m].p \in 1..Len(saved) BY <2>1 DEF Sound, MarksHold
  <2>3. n \in 1..n /\ c \in 1..Len(frames[n].marks) BY <1>2, <1>4
  <2> QED BY <2>1, <2>2, <2>3, <1>4 DEF Sound, MarksOrdered
<1>13. FramesSound'
  <2>1. ASSUME NEW k \in 1..n PROVE FrameSound(frames'[k]) /\ FrameNested(frames'[k])
    <3>1. CASE k = n
      <4>1. FrameSound(Top) /\ FrameNested(Top) BY <1>2 DEF Sound, FramesSound
      <4>2. FrameSound(f) BY <4>1, <1>5 DEF FrameSound
      <4>3. \A m \in 1..(c - 1) : m \in 1..c BY <1>4
      <4>4. FrameNested(f) BY <1>4, <1>5, <4>1, <4>3 DEF FrameNested
      <4> QED BY <3>1, <1>8, <4>2, <4>4
    <3>2. CASE k # n BY <3>2, <1>8, <1>11 DEF Sound, FramesSound
    <3> QED BY <3>1, <3>2
  <2> QED BY <1>8, <2>1 DEF FramesSound, FrameSound, FrameNested
<1>14. MarksHold'
  <2>1. SUFFICES ASSUME NEW k \in 1..n, NEW m \in 1..Len(frames'[k].marks)
                 PROVE  LET w == frames'[k].marks[m]
                        IN w.p \in 1..Len(saved') /\ saved'[w.p] = w.sp
    BY <1>8 DEF MarksHold
  <2> DEFINE w == frames[k].marks[m]
  <2>2. w.p \in 1..Len(saved) /\ w.p < p /\ frames'[k].marks[m] = w
        /\ m \in 1..Len(frames[k].marks)
    BY <1>12
  <2>3. saved[w.p] = w.sp BY <2>2 DEF Sound, MarksHold
  <2> HIDE DEF w
  <2>4. w.p \in 1..(p - 1) /\ w.p \in 1..(Len(saved) - 1)
    <3>1. p \in Nat /\ p <= Len(saved) /\ Len(saved) \in Nat BY <1>6, <1>7
    <3> QED BY <2>2, <3>1
  <2> QED BY <2>2, <2>3, <2>4, <1>7
<1>15. MarksOrdered' BY <1>8, <1>12 DEF Sound, MarksOrdered
<1>16. NoneLeft' BY <1>3, <1>7, <1>8 DEF Sound, NoneLeft
(* The pointer goes back to the last mark of the top frame, which is above *)
(* all that the frames hold but that mark.                                 *)
<1>17. /\ sp' = Top.marks[c].sp /\ c \in 1..Len(Top.marks)
       /\ FrameNested(Top) /\ Top.base \in Nat /\ Top.entry \in Nat
  <2>1. n \in 1..n /\ c \in 1..Len(frames[n].marks) BY <1>2, <1>4
  <2>2. saved[frames[n].marks[c].p] = frames[n].marks[c].sp
    BY <2>1 DEF Sound, MarksHold
  <2> QED BY <1>2, <1>3, <1>4, <2>1, <2>2, FrameType DEF Sound, FramesSound
<1>18. Top.base <= sp' /\ Top.entry < sp'
  <2>1. Top.base <= Top.entry /\ Top.entry < sp' BY <1>17 DEF FrameNested
  <2> QED BY <1>7, <1>17, <2>1
<1>19. Nested'
  <2>1. ASSUME NEW k \in 1..n PROVE Under(frames'[k], sp')
    <3>1. CASE k = n
      <4>1. \A m \in 1..(c - 1) : m \in 1..c /\ m < c BY <1>4
      <4>2. \A m \in 1..(c - 1) : Top.marks[m].sp <= sp'
        BY <1>17, <4>1 DEF FrameNested
      <4> QED BY <3>1, <1>4, <1>5, <1>8, <1>18, <4>2 DEF Under
    <3>2. CASE k # n
      <4>1. k \in 1..(n - 1) /\ k < n /\ n \in 1..n BY <3>2, <1>2
      <4>2. Under(frames[k], Top.base) /\ frames[k] \in Frame
        BY <4>1, <1>1, <1>2 DEF Sound, Nested, CallType
      <4> QED BY <4>1, <4>2, <1>7, <1>8, <1>17, <1>18, UnderMore
    <3> QED BY <3>1, <3>2
  <2>2. ASSUME NEW k \in 1..n, NEW l \in 1..n, k < l
        PROVE  Under(frames'[k], frames'[l].base)
    <3>1. k \in 1..(n - 1) BY <1>2, <2>2
    <3>2. frames'[l].base = frames[l].base
      <4>1. CASE l = n BY <4>1, <1>2, <1>5, <1>8
      <4>2. CASE l # n BY <4>2, <1>8, <1>11
      <4> QED BY <4>1, <4>2
    <3> QED BY <2>2, <3>1, <3>2, <1>8 DEF Sound, Nested
  <2> QED BY <1>8, <2>1, <2>2 DEF Nested, Under
<1>20. AtBase'
  <2>1. 1 \in 1..n /\ frames' # <<>> BY <1>2, <1>8
  <2>2. frames'[1].base = frames[1].base
    <3>1. CASE 1 = n BY <3>1, <1>2, <1>5, <1>8
    <3>2. CASE 1 # n BY <3>2, <2>1, <1>8, <1>11
    <3> QED BY <3>1, <3>2
  <2> QED BY <1>1, <1>3, <2>1, <2>2 DEF Sound, AtBase, Base
<1> QED BY <1>9, <1>10, <1>13, <1>14, <1>15, <1>16, <1>19, <1>20, TypeParts DEF Sound

LEMMA AllocaSound ==
  ASSUME Sound, Alloca
  PROVE  Sound'
<1>1. CallType /\ ConsoleType BY TypeParts DEF Sound
<1>2. sp' \in Nat \ {0} /\ sp \in Nat /\ sp <= sp' BY <1>1 DEF Alloca, CallType
<1>3. CASE sp' > StackMax BY <1>2, <1>3, ThrowSound DEF Alloca
<1>4. CASE ~ (sp' > StackMax)
  <2>1. UNCHANGED <<saved, frames, thrown, consoleVars>> BY <1>4 DEF Alloca
  <2>2. CallType' /\ ConsoleType'
    BY <1>1, <1>2, <2>1 DEF CallType, ConsoleType, consoleVars
  <2>3. FramesSound' /\ MarksOrdered' /\ MarksHold' /\ NoneLeft'
    BY <2>1 DEF Sound, FramesSound, FrameSound, FrameNested, MarksOrdered, MarksHold,
                NoneLeft, MarkSum
  <2>4. frames # <<>> BY DEF Alloca, InC
  <2>5. AtBase' BY <2>1, <2>4 DEF Sound, AtBase, Base
  <2>6. Nested'
    <3>1. ASSUME NEW k \in 1..Len(frames) PROVE Under(frames[k], sp')
      <4>1. frames[k] \in Frame /\ Under(frames[k], sp)
        BY <1>1 DEF Sound, Nested, CallType
      <4> QED BY <1>2, <4>1, UnderMore
    <3> QED BY <2>1, <3>1 DEF Sound, Nested, Under
  <2> QED BY <2>2, <2>3, <2>5, <2>6, TypeParts DEF Sound
<1> QED BY <1>3, <1>4

LEMMA ResultSound ==
  ASSUME Sound, OutputResult \/ ResultTaken \/ Fails \/ Syscall \/ NullFunc
  PROVE  Sound'
<1>0. sp \in Nat \ {0} /\ sp <= sp BY TypeParts DEF Sound, CallType
<1>1. ASSUME Throw, UNCHANGED sp PROVE Sound' BY <1>0, <1>1, ThrowSound
<1>2. CASE OutputResult
  <2>1. ASSUME SetTop([Top EXCEPT !.js = TRUE]),
               UNCHANGED <<sp, saved, thrown, consoleVars>>
        PROVE  Sound'
    BY <1>2, <2>1, TopKeepsMarks DEF OutputResult, InC
  <2> QED BY <1>1, <1>2, <2>1 DEF OutputResult
<1>3. CASE ResultTaken BY <1>3, TopKeepsMarks DEF ResultTaken
<1>4. CASE Fails BY <1>1, <1>4 DEF Fails
<1>5. CASE Syscall BY <1>1, <1>5 DEF Syscall
<1>6. CASE NullFunc BY <1>1, <1>6 DEF NullFunc
<1> QED BY <1>2, <1>3, <1>4, <1>5, <1>6

-----------------------------------------------------------------------------
(* The fold of the console over a write. *)

Console == [buffer : Seq(Nat), printed : Seq(Seq(Nat))]

LEMMA ConsoleStep ==
  ASSUME NEW c \in Console, NEW v \in Nat
  PROVE  PrintChar(c, v) \in Console
<1>1. c.buffer \in Seq(Nat) /\ c.printed \in Seq(Seq(Nat)) BY DEF Console
<1>2. /\ Append(c.printed, c.buffer) \in Seq(Seq(Nat))
      /\ Append(c.buffer, v) \in Seq(Nat) /\ <<>> \in Seq(Nat)
  BY <1>1, AppendProperties
<1> QED BY <1>1, <1>2 DEF PrintChar, Console

(* it is the function of the sets of places that the fold is read from.    *)
PrintSolves(it, c, iov) ==
  it = [T \in SUBSET DOMAIN iov |->
          IF T = {} THEN c ELSE PrintChar(it[T \ {Max(T)}], iov[Max(T)])]

LEMMA FoldIsChosen ==
  ASSUME NEW c, NEW iov
  PROVE  FoldLeft(PrintChar, c, iov) =
           (CHOOSE it : PrintSolves(it, c, iov))[DOMAIN iov]
BY DEF FoldLeft, MapThenFoldSet, PrintSolves

LEMMA MaxProperties ==
  ASSUME NEW n \in Nat, NEW T \in SUBSET (0..n), T # {}
  PROVE  Max(T) \in T /\ \A x \in T : x <= Max(T)
<1> DEFINE R == {n - x : x \in T}
<1>1. R \in SUBSET Nat /\ R # {}
  <2>1. ASSUME NEW x \in T PROVE n - x \in Nat
    <3>1. x \in Nat /\ x <= n OBVIOUS
    <3> QED BY <3>1
  <2> QED BY <2>1
<1>2. PICK r \in R : \A q \in R : r <= q BY <1>1, NatLeast
<1>3. PICK x \in T : r = n - x BY <1>2
<1>4. \A y \in T : x >= y
  <2>1. ASSUME NEW y \in T PROVE x >= y
    <3>1. n - x <= n - y BY <1>2, <1>3
    <3> QED BY <3>1
  <2> QED BY <2>1
<1>5. Max(T) \in T /\ \A y \in T : Max(T) >= y BY <1>4 DEF Max
<1> QED BY <1>5

LEMMA PlacesFinite ==
  ASSUME NEW S, NEW s \in Seq(S)
  PROVE  /\ IsFiniteSet(DOMAIN s) /\ Len(s) \in Nat /\ DOMAIN s = 1..Len(s)
         /\ \A T \in SUBSET DOMAIN s : T # {} => Max(T) \in T /\ \A x \in T : x <= Max(T)
<1>1. Len(s) \in Nat /\ DOMAIN s = 1..Len(s) BY LenProperties
<1>2. \A T \in SUBSET (1..Len(s)) : T \in SUBSET (0..Len(s)) BY <1>1
<1>3. IsFiniteSet(1..Len(s)) BY <1>1, FS_Interval
<1>4. ASSUME NEW T \in SUBSET DOMAIN s, T # {}
      PROVE  Max(T) \in T /\ \A x \in T : x <= Max(T)
  <2>1. T \in SUBSET (0..Len(s)) BY <1>1, <1>2
  <2> QED BY <1>1, <1>4, <2>1, MaxProperties
<1> QED BY <1>1, <1>3, <1>4

LEMMA PrintSolutionExists ==
  ASSUME NEW c \in Console, NEW iov \in Seq(Nat)
  PROVE  \E it \in [SUBSET DOMAIN iov -> Console] : PrintSolves(it, c, iov)
<1> DEFINE D == DOMAIN iov
           pick == [T \in SUBSET D |-> Max(T)]
           step == [T \in SUBSET D |-> [v \in Console |->
                     IF T = {} THEN v ELSE PrintChar(v, iov[Max(T)])]]
<1>1. IsFiniteSet(D) BY PlacesFinite
<1>2. Picks(pick, D) BY PlacesFinite DEF Picks
<1>3. step \in [SUBSET D -> [Console -> Console]]
  <2>1. ASSUME NEW T \in SUBSET D, NEW v \in Console, T # {}
        PROVE  PrintChar(v, iov[Max(T)]) \in Console
    <3>1. iov[Max(T)] \in Nat BY <2>1, PlacesFinite
    <3> QED BY <3>1, ConsoleStep
  <2> QED BY <2>1
<1>4. \E it \in [SUBSET D -> Console] : Recurs(it, D, c, pick, step)
  <2> HIDE DEF pick, step, D
  <2> QED BY <1>1, <1>2, <1>3, RecursionOnSets
<1>5. PICK it \in [SUBSET D -> Console] : Recurs(it, D, c, pick, step)
  BY <1>4
<1>6. ASSUME NEW T \in SUBSET D
      PROVE  it[T] = IF T = {} THEN c ELSE PrintChar(it[T \ {Max(T)}], iov[Max(T)])
  <2>1. it[T \ {Max(T)}] \in Console OBVIOUS
  <2>2. it[T] = IF T = {} THEN c ELSE step[T][it[T \ {pick[T]}]]
    BY <1>5 DEF Recurs
  <2> QED BY <2>1, <2>2
<1>7. it = [T \in SUBSET D |->
              IF T = {} THEN c ELSE PrintChar(it[T \ {Max(T)}], iov[Max(T)])]
  <2>1. it = [T \in SUBSET D |-> it[T]] OBVIOUS
  <2> HIDE DEF D
  <2> QED BY <2>1, <1>6
<1> QED BY <1>7 DEF PrintSolves

(* Solutions agree as far as the writes do. *)
LEMMA PrintSolutionsAgree ==
  ASSUME NEW s \in Seq(Nat), NEW t \in Seq(Nat), NEW c, NEW g, NEW h,
         PrintSolves(g, c, s), PrintSolves(h, c, t),
         NEW S, S \subseteq DOMAIN s, S \subseteq DOMAIN t,
         \A k \in S : s[k] = t[k]
  PROVE  g[S] = h[S]
<1> DEFINE P == {T \in SUBSET S : g[T] = h[T]}
<1>1. IsFiniteSet(S) BY PlacesFinite, FS_Subset
<1>2. ASSUME NEW T \in SUBSET S, \A x \in T : T \ {x} \in P PROVE T \in P
  <2>1. T \in SUBSET DOMAIN s /\ T \in SUBSET DOMAIN t OBVIOUS
  <2>2. /\ g[T] = IF T = {} THEN c ELSE PrintChar(g[T \ {Max(T)}], s[Max(T)])
        /\ h[T] = IF T = {} THEN c ELSE PrintChar(h[T \ {Max(T)}], t[Max(T)])
    BY <2>1 DEF PrintSolves
  <2>3. CASE T = {} BY <2>2, <2>3
  <2>4. CASE T # {}
    <3>1. Max(T) \in T BY <2>1, <2>4, PlacesFinite
    <3>2. g[T \ {Max(T)}] = h[T \ {Max(T)}] /\ s[Max(T)] = t[Max(T)] BY <3>1, <1>2
    <3> QED BY <2>2, <2>4, <3>2
  <2> QED BY <2>3, <2>4
<1>3. SUBSET S \subseteq P
  <2> HIDE DEF P
  <2> QED BY <1>1, <1>2, InductionOnSets
<1> QED BY <1>3

LEMMA FoldIsSolution ==
  ASSUME NEW c \in Console, NEW iov \in Seq(Nat), NEW g, PrintSolves(g, c, iov)
  PROVE  FoldLeft(PrintChar, c, iov) = g[DOMAIN iov]
<1> DEFINE h == CHOOSE it : PrintSolves(it, c, iov)
<1>1. PrintSolves(h, c, iov) BY PrintSolutionExists
<1> HIDE DEF h
<1>2. h[DOMAIN iov] = g[DOMAIN iov] BY <1>1, PrintSolutionsAgree
<1> QED BY <1>2, FoldIsChosen DEF h

LEMMA FoldEmpty ==
  ASSUME NEW c \in Console
  PROVE  FoldLeft(PrintChar, c, <<>>) = c
<1>1. <<>> \in Seq(Nat) /\ DOMAIN <<>> = {} OBVIOUS
<1>2. PICK g : PrintSolves(g, c, <<>>) BY <1>1, PrintSolutionExists
<1>3. g[{}] = c BY <1>1, <1>2 DEF PrintSolves
<1> QED BY <1>1, <1>2, <1>3, FoldIsSolution

LEMMA FoldAppend ==
  ASSUME NEW c \in Console, NEW s \in Seq(Nat), NEW v \in Nat
  PROVE  /\ FoldLeft(PrintChar, c, s) \in Console
         /\ FoldLeft(PrintChar, c, Append(s, v)) =
              PrintChar(FoldLeft(PrintChar, c, s), v)
<1> DEFINE t == Append(s, v)
           n == Len(s)
<1>1. /\ t \in Seq(Nat) /\ n \in Nat /\ DOMAIN s = 1..n /\ DOMAIN t = 1..(n + 1)
      /\ t[n + 1] = v /\ \A k \in 1..n : t[k] = s[k]
  BY AppendProperties, LenProperties
<1> HIDE DEF t
<1>2. PICK g \in [SUBSET DOMAIN s -> Console] : PrintSolves(g, c, s)
  BY PrintSolutionExists
<1>3. PICK h : PrintSolves(h, c, t) BY <1>1, PrintSolutionExists
<1>4. g[1..n] = h[1..n]
  <2>1. 1..n \subseteq DOMAIN s /\ 1..n \subseteq DOMAIN t BY <1>1
  <2>2. \A k \in 1..n : s[k] = t[k] BY <1>1
  <2> HIDE DEF n
  <2> QED BY <2>2, <1>1, <1>2, <1>3, <2>1, PrintSolutionsAgree
<1>5. Max(1..(n + 1)) = n + 1 /\ (1..(n + 1)) \ {n + 1} = 1..n /\ 1..(n + 1) # {}
  <2>1. n + 1 \in Nat /\ 1..(n + 1) \in SUBSET (0..(n + 1)) /\ n + 1 \in 1..(n + 1)
    BY <1>1
  <2>2. Max(1..(n + 1)) \in 1..(n + 1) /\ n + 1 <= Max(1..(n + 1))
    BY <2>1, MaxProperties
  <2> QED BY <2>1, <2>2, <1>1
<1>6. h[1..(n + 1)] = PrintChar(h[1..n], t[n + 1])
  <2>1. 1..(n + 1) \in SUBSET DOMAIN t BY <1>1
  <2>2. h[1..(n + 1)] = PrintChar(h[(1..(n + 1)) \ {Max(1..(n + 1))}], t[Max(1..(n + 1))])
    BY <1>3, <1>5, <2>1 DEF PrintSolves
  <2> QED BY <1>5, <2>2
<1>7. /\ FoldLeft(PrintChar, c, s) = g[1..n] /\ g[1..n] \in Console
      /\ FoldLeft(PrintChar, c, t) = h[1..(n + 1)]
  <2> HIDE DEF n
  <2>1. FoldLeft(PrintChar, c, s) = g[DOMAIN s] BY <1>2, FoldIsSolution
  <2>2. FoldLeft(PrintChar, c, t) = h[DOMAIN t] BY <1>1, <1>3, FoldIsSolution
  <2>3. 1..n \in SUBSET DOMAIN s BY <1>1
  <2> QED BY <2>1, <2>2, <2>3, <1>1, <1>2
<1> QED BY <1>1, <1>4, <1>6, <1>7 DEF t

-----------------------------------------------------------------------------
(* The lines of the output. *)

(* What the console c holds when the bytes were given to its stream.       *)
Whole(c, bytes) ==
  /\ Len(c.printed) = Cardinality(Ends(bytes))
  /\ \A k \in Ends(bytes) :
       c.printed[Cardinality({e \in Ends(bytes) : e <= k})] = LineBefore(bytes, k)
  /\ c.buffer = LineBefore(bytes, Len(bytes) + 1)

LEMMA EndsFinite ==
  ASSUME NEW b \in Seq(Nat)
  PROVE  /\ Ends(b) \subseteq 1..Len(b) /\ Len(b) \in Nat
         /\ \A S \in SUBSET Ends(b) :
              IsFiniteSet(S) /\ Cardinality(S) \in Nat
              /\ Cardinality(S) <= Cardinality(Ends(b))
              /\ (S # {} => Cardinality(S) # 0)
<1>1. /\ Ends(b) \subseteq 1..Len(b) /\ Len(b) \in Nat BY DEF Ends
<1>2. IsFiniteSet(1..Len(b)) BY <1>1, FS_Interval
<1>3. IsFiniteSet(Ends(b)) BY <1>1, <1>2, FS_Subset
<1>4. ASSUME NEW S \in SUBSET Ends(b)
      PROVE  IsFiniteSet(S) /\ Cardinality(S) \in Nat
             /\ Cardinality(S) <= Cardinality(Ends(b))
             /\ (S # {} => Cardinality(S) # 0)
  BY <1>3, FS_Subset, FS_CardinalityType, FS_EmptySet
<1> QED BY <1>1, <1>4

(* Where the line before byte k begins, less one. *)
Start(b, k) == Max({0} \cup {e \in Ends(b) : e < k})

LEMMA LineBeforeStart ==
  ASSUME NEW b, NEW k
  PROVE  LineBefore(b, k) = SubSeq(b, Start(b, k) + 1, k - 1)
BY Zenon DEF LineBefore, Start

LEMMA StartBefore ==
  ASSUME NEW b \in Seq(Nat), NEW j \in 0..Len(b)
  PROVE  /\ Start(b, j + 1) \in 0..j
         /\ LineBefore(b, j + 1) = SubSeq(b, Start(b, j + 1) + 1, j)
         /\ \A e \in Ends(b) : e <= j => e <= Start(b, j + 1)
<1> DEFINE T == {0} \cup {e \in Ends(b) : e < j + 1}
<1>1. /\ Len(b) \in Nat /\ j \in Nat /\ j + 1 - 1 = j
      /\ T \in SUBSET (0..Len(b)) /\ T # {}
  BY EndsFinite
<1>2. Max(T) \in T /\ \A x \in T : x <= Max(T)
  <2> HIDE DEF T
  <2> QED BY <1>1, MaxProperties
<1>3. Start(b, j + 1) = Max(T) BY DEF Start
<1>4. Max(T) \in 0..j
  <2>1. \A x \in T : x \in 0..j BY <1>1
  <2> HIDE DEF T
  <2> QED BY <1>2, <2>1
<1>5. ASSUME NEW e \in Ends(b), e <= j PROVE e <= Max(T)
  <2>1. e \in T BY <1>1, <1>5, EndsFinite
  <2> HIDE DEF T
  <2> QED BY <1>2, <2>1
<1> HIDE DEF T
<1>6. LineBefore(b, j + 1) = SubSeq(b, Start(b, j + 1) + 1, j + 1 - 1)
  BY LineBeforeStart
<1> QED BY <1>1, <1>3, <1>4, <1>5, <1>6

LEMMA WholeEmpty ==
  ASSUME NEW c, c.buffer = <<>>, c.printed = <<>>
  PROVE  Whole(c, <<>>)
<1>1. Ends(<<>>) = {} /\ <<>> \in Seq(Nat) /\ Len(<<>>) = 0 BY DEF Ends
<1>2. LineBefore(<<>>, 0 + 1) = <<>>
  <2>1. 0 \in 0..Len(<<>>) BY <1>1
  <2>2. /\ Start(<<>>, 0 + 1) \in 0..0
        /\ LineBefore(<<>>, 0 + 1) = SubSeq(<<>>, Start(<<>>, 0 + 1) + 1, 0)
    BY <1>1, <2>1, StartBefore
  <2>3. Start(<<>>, 0 + 1) + 1 \in Int /\ 0 < Start(<<>>, 0 + 1) + 1 BY <2>2
  <2> QED BY <2>2, <2>3, SubSeqEmpty
<1>3. Cardinality({}) = 0 BY FS_EmptySet
<1>4. /\ Len(c.printed) = Cardinality(Ends(<<>>))
      /\ c.buffer = LineBefore(<<>>, Len(<<>>) + 1)
  BY <1>1, <1>2, <1>3
<1> QED BY <1>1, <1>4 DEF Whole

(* A part of the bytes is the same with one more byte behind it. *)
LEMMA SubSeqOfAppend ==
  ASSUME NEW b \in Seq(Nat), NEW v \in Nat, NEW i \in 1..(Len(b) + 1),
         NEW j \in (i - 1)..Len(b)
  PROVE  /\ SubSeq(Append(b, v), i, j) = SubSeq(b, i, j)
         /\ SubSeq(b, i, j) \in Seq(Nat)
<1> DEFINE t == Append(b, v)
           x == SubSeq(t, i, j)
           y == SubSeq(b, i, j)
<1>1. /\ Len(b) \in Nat /\ i \in Nat \ {0} /\ j \in Nat /\ i <= j + 1 /\ j <= Len(b)
      /\ \A k \in i..j : k \in 1..Len(b)
      /\ \A k \in 1..(j - i + 1) : i + k - 1 \in 1..Len(b)
  OBVIOUS
<1>2. \A k \in 1..Len(b) : t[k] = b[k] /\ b[k] \in Nat BY AppendProperties
<1> HIDE DEF t
<1>3. /\ x \in Seq(Nat) /\ Len(x) = IF i <= j THEN j - i + 1 ELSE 0
      /\ \A k \in 1..(j - i + 1) : x[k] = t[i + k - 1]
  BY <1>1, <1>2, SubSeqProperties
<1>4. /\ y \in Seq(Nat) /\ Len(y) = IF i <= j THEN j - i + 1 ELSE 0
      /\ \A k \in 1..(j - i + 1) : y[k] = b[i + k - 1]
  BY <1>1, <1>2, SubSeqProperties
<1> HIDE DEF x, y
<1>5. Len(x) = Len(y) /\ Len(x) = j - i + 1 BY <1>1, <1>3, <1>4
<1>6. \A k \in 1..Len(x) : x[k] = y[k] BY <1>1, <1>2, <1>3, <1>4, <1>5
<1>7. x = y BY <1>3, <1>4, <1>5, <1>6, SeqEqual
<1> QED BY <1>4, <1>7 DEF t, x, y

(* One byte more keeps what was printed whole. *)
LEMMA WholeStep ==
  ASSUME NEW c \in Console, NEW b \in Seq(Nat), NEW v \in Nat, Whole(c, b)
  PROVE  Whole(PrintChar(c, v), Append(b, v))
<1> DEFINE n == Len(b)
           t == Append(b, v)
           d == PrintChar(c, v)
           E == Ends(b)
           F == Ends(t)
<1>1. /\ t \in Seq(Nat) /\ Len(t) = n + 1 /\ n \in Nat /\ t[n + 1] = v
      /\ \A k \in 1..n : t[k] = b[k]
      /\ DOMAIN b = 1..n /\ DOMAIN t = 1..(n + 1)
  BY AppendProperties, LenProperties
<1>2. /\ E \subseteq 1..n
      /\ \A S \in SUBSET E : IsFiniteSet(S) /\ Cardinality(S) \in Nat
                             /\ Cardinality(S) <= Cardinality(E)
                             /\ (S # {} => Cardinality(S) # 0)
  BY EndsFinite
<1>3. /\ c.buffer \in Seq(Nat) /\ c.printed \in Seq(Seq(Nat))
      /\ Len(c.printed) = Cardinality(E)
      /\ \A k \in E : c.printed[Cardinality({e \in E : e <= k})] = LineBefore(b, k)
      /\ c.buffer = LineBefore(b, n + 1)
  BY DEF Console, Whole
<1> HIDE DEF t
<1>4. F = IF v \in {NUL, NL} THEN E \cup {n + 1} ELSE E
  <2>1. \A k \in 1..(n + 1) : k \in 1..n \/ k = n + 1 BY <1>1
  <2>2. \A k \in 1..n : k \in 1..(n + 1) BY <1>1
  <2>3. E = {k \in 1..n : b[k] \in {NUL, NL}} BY <1>1 DEF Ends
  <2>4. F = {k \in 1..(n + 1) : t[k] \in {NUL, NL}} BY <1>1 DEF Ends
  <2>5. n + 1 \in 1..(n + 1) BY <1>1
  <2> QED BY <1>1, <2>1, <2>2, <2>3, <2>4, <2>5
<1>5. ASSUME NEW j \in 0..n
      PROVE  /\ Start(t, j + 1) = Start(b, j + 1)
             /\ LineBefore(t, j + 1) = LineBefore(b, j + 1)
  <2>1. {e \in F : e < j + 1} = {e \in E : e < j + 1} BY <1>1, <1>2, <1>4
  <2>2. Start(t, j + 1) = Start(b, j + 1) BY <2>1 DEF Start
  <2>3. j \in 0..Len(b) /\ j \in 0..Len(t) /\ j \in Nat BY <1>1
  <2>4. /\ LineBefore(b, j + 1) = SubSeq(b, Start(b, j + 1) + 1, j)
        /\ LineBefore(t, j + 1) = SubSeq(t, Start(t, j + 1) + 1, j)
        /\ Start(b, j + 1) \in 0..j
    BY <1>1, <2>3, StartBefore
  <2> DEFINE i == Start(b, j + 1) + 1
  <2>5. i \in 1..(Len(b) + 1) /\ j \in (i - 1)..Len(b) BY <1>1, <2>3, <2>4
  <2> HIDE DEF i
  <2>6. SubSeq(t, i, j) = SubSeq(b, i, j) BY <2>5, SubSeqOfAppend DEF t
  <2> QED BY <2>2, <2>4, <2>6 DEF i
<1>6. ASSUME NEW k \in E
      PROVE  /\ {e \in F : e <= k} = {e \in E : e <= k}
             /\ Cardinality({e \in E : e <= k}) \in 1..Len(c.printed)
             /\ LineBefore(t, k) = LineBefore(b, k)
  <2>1. k \in 1..n BY <1>2
  <2>2. {e \in F : e <= k} = {e \in E : e <= k} BY <2>1, <1>1, <1>2, <1>4
  <2>3. {e \in E : e <= k} \in SUBSET E /\ {e \in E : e <= k} # {} BY <2>1
  <2>4. k - 1 \in 0..n /\ k - 1 + 1 = k BY <2>1, <1>1
  <2>5. LineBefore(t, k - 1 + 1) = LineBefore(b, k - 1 + 1) BY <2>4, <1>5
  <2> DEFINE U == {e \in E : e <= k}
  <2> HIDE DEF E, U
  <2>6. Cardinality(U) \in Nat /\ Cardinality(U) # 0 /\ Cardinality(U) <= Cardinality(E)
    BY <2>3, <1>2 DEF U
  <2>7. Cardinality(U) \in 1..Len(c.printed) BY <2>6, <1>3
  <2> QED BY <2>2, <2>4, <2>5, <2>7 DEF U
<1> DEFINE m == n + 1
<1>7. /\ Start(t, m + 1) \in 0..m
      /\ LineBefore(t, m + 1) = SubSeq(t, Start(t, m + 1) + 1, m)
      /\ \A e \in F : e <= m => e <= Start(t, m + 1)
      /\ m \in Nat \ {0} /\ Len(t) = m
  <2>1. m \in 0..Len(t) /\ m \in Nat \ {0} /\ Len(t) = m BY <1>1
  <2> HIDE DEF m
  <2> QED BY <1>1, <2>1, StartBefore
<1>8. CASE v \in {NUL, NL}
  <2>1. d = [buffer |-> <<>>, printed |-> Append(c.printed, c.buffer)]
    BY <1>8 DEF PrintChar
  <2>2. /\ Len(d.printed) = Len(c.printed) + 1
        /\ d.printed[Len(c.printed) + 1] = c.buffer /\ d.buffer = <<>>
        /\ \A k \in 1..Len(c.printed) : d.printed[k] = c.printed[k]
    BY <1>3, <2>1, AppendProperties
  <2>3. F = E \cup {n + 1} /\ n + 1 \notin E BY <1>1, <1>2, <1>4, <1>8
  <2> HIDE DEF d, E, F
  <2>4. Cardinality(F) = Cardinality(E) + 1 BY <2>3, <1>2, FS_AddElement
  <2>5. ASSUME NEW k \in F
        PROVE  d.printed[Cardinality({e \in F : e <= k})] = LineBefore(t, k)
    <3>1. CASE k \in E
      <4> QED BY <3>1, <1>3, <1>6, <2>2
    <3>2. CASE k = n + 1
      <4>1. \A e \in F : e <= k
        <5>1. \A e \in E : e \in 1..n BY <1>2
        <5> QED BY <3>2, <5>1, <1>1, <2>3
      <4>2. {e \in F : e <= k} = F BY <4>1
      <4>3. n \in 0..n BY <1>1
      <4>4. LineBefore(t, n + 1) = LineBefore(b, n + 1) BY <4>3, <1>5
      <4> QED BY <3>2, <4>2, <4>4, <1>3, <2>2, <2>4
    <3> QED BY <3>1, <3>2, <2>3
  <2>6. d.buffer = LineBefore(t, m + 1)
    <3>1. m \in F BY <2>3
    <3> HIDE DEF m
    <3>2. Start(t, m + 1) = m BY <1>7, <3>1
    <3>3. m + 1 \in Int /\ m \in Int /\ m < m + 1 BY <1>7
    <3> QED BY <3>2, <3>3, <1>7, <2>2, SubSeqEmpty
  <2> HIDE DEF m
  <2>7. Whole(d, t)
    <3>1. Len(d.printed) = Cardinality(F) BY <1>3, <2>2, <2>4
    <3>2. d.buffer = LineBefore(t, Len(t) + 1) BY <1>7, <2>6
    <3> QED BY <3>1, <3>2, <2>5 DEF Whole, F
  <2> QED BY <2>7 DEF d, t
<1>9. CASE v \notin {NUL, NL}
  <2>1. /\ d.buffer = Append(c.buffer, v) /\ d.printed = c.printed
    BY <1>9 DEF PrintChar, Console
  <2>2. F = E BY <1>4, <1>9
  <2>3. ASSUME NEW k \in F
        PROVE  d.printed[Cardinality({e \in F : e <= k})] = LineBefore(t, k)
    <3> HIDE DEF E, F, d
    <3> QED BY <1>3, <1>6, <2>1, <2>2
  <2>4. d.buffer = LineBefore(t, m + 1)
    <3> DEFINE a == Start(t, n + 1)
    <3>1. Start(t, m + 1) = a
      <4>1. {e \in F : e < m + 1} = {e \in F : e < n + 1} BY <1>1, <1>2, <2>2
      <4> QED BY <4>1 DEF Start
    <3>2. n \in 0..n /\ n \in 0..Len(t) BY <1>1
    <3>3. /\ a \in 0..n /\ LineBefore(t, n + 1) = SubSeq(t, a + 1, n)
      BY <1>1, <3>2, StartBefore
    <3>4. c.buffer = SubSeq(t, a + 1, n) BY <3>2, <3>3, <1>3, <1>5
    <3> HIDE DEF a
    <3>5. a + 1 \in 1..Len(t) /\ m \in (a + 1)..Len(t) BY <1>1, <3>3
    <3>6. m - 1 = n /\ t[m] = v BY <1>1
    <3> HIDE DEF m
    <3>7. SubSeq(t, a + 1, m) = SubSeq(t, a + 1, m - 1) \o <<t[m]>>
      BY <1>1, <3>5, SubSeqRecursiveSecond
    <3>8. Append(c.buffer, v) = c.buffer \o <<v>> BY <1>3, AppendIsConcat
    <3> QED BY <1>7, <2>1, <3>1, <3>4, <3>6, <3>7, <3>8
  <2> HIDE DEF d, E, F, m
  <2>5. Whole(d, t)
    <3>1. Len(d.printed) = Cardinality(F) BY <1>3, <2>1, <2>2
    <3>2. d.buffer = LineBefore(t, Len(t) + 1) BY <1>7, <2>4
    <3> QED BY <3>1, <3>2, <2>3 DEF Whole, F
  <2> QED BY <2>5 DEF d, t
<1> QED BY <1>8, <1>9

(* A write keeps the output whole, however long it is. *)
LEMMA FoldWhole ==
  ASSUME NEW c \in Console, NEW b \in Seq(Nat), Whole(c, b), NEW iov \in Seq(Nat)
  PROVE  /\ FoldLeft(PrintChar, c, iov) \in Console
         /\ Whole(FoldLeft(PrintChar, c, iov), b \o iov)
<1> DEFINE Good(s) == /\ FoldLeft(PrintChar, c, s) \in Console
                      /\ Whole(FoldLeft(PrintChar, c, s), b \o s)
           N == {n \in Nat : \A s \in Seq(Nat) : Len(s) = n => Good(s)}
<1>1. 0 \in N
  <2>1. SUFFICES ASSUME NEW s \in Seq(Nat), Len(s) = 0 PROVE Good(s) OBVIOUS
  <2>2. s = <<>> /\ b \o s = b BY <2>1, ConcatEmptySeq, EmptySeq
  <2> QED BY <2>2, FoldEmpty
<1>2. ASSUME NEW n \in Nat, n \in N PROVE n + 1 \in N
  <2>1. SUFFICES ASSUME NEW s \in Seq(Nat), Len(s) = n + 1 PROVE Good(s) OBVIOUS
  <2>2. s # <<>> BY <2>1
  <2>3. PICK u \in Seq(Nat), v \in Nat : s = Append(u, v)
    BY <2>2, SequenceEmptyOrAppend
  <2>4. Len(u) = n
    <3>1. Len(s) = Len(u) + 1 /\ Len(u) \in Nat BY <2>3, AppendProperties, LenProperties
    <3> QED BY <2>1, <3>1
  <2>5. Good(u) BY <2>4, <1>2
  <2> DEFINE d == FoldLeft(PrintChar, c, u)
  <2>6. FoldLeft(PrintChar, c, s) = PrintChar(d, v) BY <2>3, FoldAppend
  <2>7. b \o u \in Seq(Nat) /\ b \o s = Append(b \o u, v)
    <3>1. s = u \o <<v>> /\ <<v>> \in Seq(Nat) BY <2>3, AppendIsConcat
    <3>2. b \o u \in Seq(Nat) BY ConcatProperties
    <3>3. Append(b \o u, v) = (b \o u) \o <<v>> BY <3>2, AppendIsConcat
    <3>4. (b \o u) \o <<v>> = b \o (u \o <<v>>) BY <3>1, ConcatAssociative
    <3> QED BY <3>1, <3>2, <3>3, <3>4
  <2>8. d \in Console /\ Whole(d, b \o u) BY <2>5
  <2> HIDE DEF d
  <2>9. PrintChar(d, v) \in Console /\ Whole(PrintChar(d, v), Append(b \o u, v))
    BY <2>7, <2>8, ConsoleStep, WholeStep
  <2> QED BY <2>6, <2>7, <2>9
<1>3. Nat \subseteq N
  <2> HIDE DEF N
  <2> QED BY <1>1, <1>2, InductionOnNat
<1>4. Len(iov) \in Nat BY LenProperties
<1> QED BY <1>3, <1>4

Held(s) == [buffer |-> buffers[s], printed |-> printed[s]]

LEMMA LinesAreHeld ==
  /\ LinesAreWhole <=> \A s \in Streams : Whole(Held(s), written[s])
  /\ LinesAreWhole' <=> \A s \in Streams : Whole(Held(s)', written'[s])
<1>1. LinesAreWhole <=> \A s \in Streams : Whole(Held(s), written[s])
  BY DEF LinesAreWhole, Whole, Held
<1>2. LinesAreWhole' <=> \A s \in Streams : Whole(Held(s)', written'[s])
  BY DEF LinesAreWhole, Whole, Held
<1> QED BY <1>1, <1>2

LEMMA WriteSound ==
  ASSUME Sound, LinesAreWhole, FdWrite
  PROVE  Sound' /\ LinesAreWhole'
<1>1. CallType /\ ConsoleType BY TypeParts DEF Sound
<1>2. CASE Throw
  <2>1. sp' \in Nat \ {0} /\ sp <= sp' BY <1>1 DEF FdWrite, CallType
  <2>2. Sound' BY <1>2, <2>1, ThrowSound
  <2>3. LinesAreWhole' BY <1>2 DEF Throw, consoleVars, LinesAreWhole
  <2> QED BY <2>2, <2>3
<1>3. ASSUME NEW stream \in Streams, NEW iov \in Chunks,
             buffers' = [buffers EXCEPT ![stream] =
               FoldLeft(PrintChar, Held(stream), iov).buffer],
             printed' = [printed EXCEPT ![stream] =
               FoldLeft(PrintChar, Held(stream), iov).printed],
             written' = [written EXCEPT ![stream] = @ \o iov],
             UNCHANGED <<sp, saved, frames, thrown>>
      PROVE  Sound' /\ LinesAreWhole'
  <2> DEFINE c == FoldLeft(PrintChar, Held(stream), iov)
  <2>1. iov \in Seq(Nat) /\ Held(stream) \in Console /\ written[stream] \in Seq(Nat)
    BY <1>1, CallAssumption DEF ConsoleType, Held, Console
  <2>2. Whole(Held(stream), written[stream]) BY LinesAreHeld
  <2>3. c \in Console /\ Whole(c, written[stream] \o iov) BY <2>1, <2>2, FoldWhole
  <2>4. /\ c.buffer \in Seq(Nat) /\ c.printed \in Seq(Seq(Nat))
        /\ c = [buffer |-> c.buffer, printed |-> c.printed]
        /\ written[stream] \o iov \in Seq(Nat)
    BY <2>1, <2>3, ConcatProperties DEF Console
  <2>5. buffers' = [buffers EXCEPT ![stream] = c.buffer]
        /\ printed' = [printed EXCEPT ![stream] = c.printed]
    BY <1>3
  <2> HIDE DEF c
  <2>6. CallType' /\ ConsoleType'
    BY <1>1, <1>3, <2>4, <2>5 DEF CallType, ConsoleType
  <2>7. FramesSound' /\ MarksOrdered' /\ MarksHold' /\ NoneLeft' /\ Nested' /\ AtBase'
    BY <1>3 DEF Sound, FramesSound, FrameSound, FrameNested, MarksOrdered, MarksHold,
                NoneLeft, MarkSum, Nested, Under, AtBase, Base
  <2>8. ASSUME NEW s \in Streams PROVE Whole(Held(s)', written'[s])
    <3>1. CASE s = stream
      <4>1. Held(s)' = c /\ written'[s] = written[stream] \o iov
        BY <3>1, <1>1, <1>3, <2>4, <2>5 DEF Held, ConsoleType
      <4> QED BY <4>1, <2>3
    <3>2. CASE s # stream
      <4>1. Held(s)' = Held(s) /\ written'[s] = written[s]
        BY <3>2, <1>1, <1>3, <2>5 DEF Held, ConsoleType
      <4> QED BY <4>1, LinesAreHeld
    <3> QED BY <3>1, <3>2
  <2> QED BY <2>6, <2>7, <2>8, LinesAreHeld, TypeParts DEF Sound
<1> QED BY <1>2, <1>3 DEF FdWrite, Held

-----------------------------------------------------------------------------
(* The invariant. *)

IInv == Sound /\ LinesAreWhole

LEMMA InitSound == Init => IInv
<1> SUFFICES ASSUME Init PROVE IInv OBVIOUS
<1>1. /\ <<>> \in Seq(Nat) /\ <<>> \in Seq(Seq(Nat)) /\ <<>> \in Seq(Nat \ {0})
      /\ <<>> \in Seq(Frame) /\ Len(<<>>) = 0
  OBVIOUS
<1>2. CallType /\ ConsoleType BY <1>1 DEF Init, CallType, ConsoleType, Base
<1>3. FramesSound /\ MarksOrdered /\ MarksHold /\ Nested /\ AtBase
  BY <1>1 DEF Init, FramesSound, MarksOrdered, MarksHold, Nested, AtBase
<1>4. NoneLeft BY <1>1, MarkSumEmpty DEF Init, NoneLeft
<1>5. ASSUME NEW s \in Streams PROVE Whole(Held(s), written[s])
  BY WholeEmpty DEF Init, Held
<1> QED BY <1>2, <1>3, <1>4, <1>5, LinesAreHeld, TypeParts DEF IInv, Sound

LEMMA NextSound == IInv /\ [Next]_vars => IInv'
<1> SUFFICES ASSUME Sound, LinesAreWhole, [Next]_vars PROVE Sound' /\ LinesAreWhole'
  BY DEF IInv
(* Only a write touches the console. *)
<1>1. ASSUME UNCHANGED consoleVars PROVE LinesAreWhole'
  BY <1>1 DEF consoleVars, LinesAreWhole
<1>2. ASSUME NEW sizes \in ArgSizes, CCall(sizes) PROVE Sound' /\ LinesAreWhole'
  <2>1. UNCHANGED consoleVars BY <1>2 DEF CCall, Throw
  <2> QED BY <1>1, <1>2, <2>1, CCallSound
<1>3. CASE StackSave BY <1>1, <1>3, SaveSound DEF StackSave
<1>4. CASE Alloca
  <2>1. UNCHANGED consoleVars BY <1>4 DEF Alloca, Throw
  <2> QED BY <1>1, <1>4, <2>1, AllocaSound
<1>5. CASE StackRestore BY <1>1, <1>5, RestoreSound DEF StackRestore
<1>6. CASE ReturnC BY <1>1, <1>6, ReturnSound DEF ReturnC
<1>7. CASE OutputResult \/ ResultTaken \/ Fails \/ Syscall \/ NullFunc
  <2>1. UNCHANGED consoleVars
    BY <1>7 DEF OutputResult, ResultTaken, Fails, Syscall, NullFunc, Throw
  <2> QED BY <1>1, <1>7, <2>1, ResultSound
<1>8. CASE FdWrite BY <1>8, WriteSound
<1>9. CASE UNCHANGED vars
  <2>1. UNCHANGED <<sp, saved, frames, thrown>> /\ UNCHANGED consoleVars
    BY <1>9 DEF vars, stackVars
  <2>2. CallType' /\ ConsoleType'
    BY <2>1, TypeParts DEF Sound, CallType, ConsoleType, consoleVars
  <2>3. FramesSound' /\ MarksOrdered' /\ MarksHold' /\ NoneLeft' /\ Nested' /\ AtBase'
    BY <2>1 DEF Sound, FramesSound, FrameSound, FrameNested, MarksOrdered, MarksHold,
                NoneLeft, MarkSum, Nested, Under, AtBase, Base
  <2> QED BY <1>1, <2>1, <2>2, <2>3, TypeParts DEF Sound
<1> QED BY <1>2, <1>3, <1>4, <1>5, <1>6, <1>7, <1>8, <1>9 DEF Next

LEMMA Invariance == Spec => []IInv
BY InitSound, NextSound, PTL DEF Spec

(* The stack pointer is a place of the stack, the marks and frames have    *)
(* the fields the runtime gives them, the console holds bytes and lines.   *)
THEOREM CallTypes == Spec => []TypeOK
<1>1. IInv => TypeOK BY DEF IInv, Sound
<1> QED BY <1>1, Invariance, PTL

(* The marks of the compiled code (llvm_stacksave and llvm_stackrestore):  *)
(* each gives back what its own scope saved, and as long as nothing was    *)
(* thrown none is left behind.                                             *)
THEOREM MarksKept == Spec => []MarksAreOwn
<1>1. IInv => MarksAreOwn
  BY DEF IInv, Sound, MarksHold, NoneLeft, MarkSum, MarksAreOwn
<1> QED BY <1>1, Invariance, PTL

(* The console behind fd_write: what was printed are the lines of what was *)
(* written, for writes of any length cut anywhere.                         *)
THEOREM LinesPrintedWhole == Spec => []LinesAreWhole
<1>1. IInv => LinesAreWhole BY DEF IInv
<1> QED BY <1>1, Invariance, PTL

(* ccall and the compiled code: what a call under way holds of the stack   *)
(* is below the calls it made and below the stack pointer, whatever was    *)
(* thrown and caught above it, and only exceptions lose stack.             *)
THEOREM StackNests == Spec => []StackIsNested
<1>1. ASSUME Sound PROVE StackIsNested
  <2>1. CallType BY <1>1, TypeParts DEF Sound
  <2>2. Len(frames) \in Nat BY <2>1 DEF CallType
  <2>3. ASSUME NEW k \in 1..Len(frames)
        PROVE  LET f == frames[k]
                   end == IF k = Len(frames) THEN sp ELSE frames[k + 1].base
               IN /\ f.entry < end
                  /\ \A m \in 1..Len(f.marks) : f.marks[m].sp \in (f.entry + 1)..end
    <3> DEFINE f == frames[k]
               end == IF k = Len(frames) THEN sp ELSE frames[k + 1].base
    <3>1. f \in Frame /\ f.entry \in Nat /\ FrameNested(f)
      BY <1>1, <2>1, FrameType DEF CallType, Sound, FramesSound
    <3>2. end \in Nat /\ Under(f, end)
      <4>1. CASE k = Len(frames)
        BY <1>1, <2>1, <4>1 DEF Sound, Nested, CallType
      <4>2. CASE k # Len(frames)
        <5>1. k + 1 \in 1..Len(frames) /\ k < k + 1 BY <2>2, <4>2
        <5>2. frames[k + 1] \in Frame BY <5>1, <2>1 DEF CallType
        <5> QED BY <1>1, <4>2, <5>1, <5>2, FrameType DEF Sound, Nested
      <4> QED BY <4>1, <4>2
    <3> HIDE DEF end, f
    <3>3. ASSUME NEW m \in 1..Len(f.marks) PROVE f.marks[m].sp \in (f.entry + 1)..end
      <4>1. f.marks[m] \in Mark BY <3>1, FrameType
      <4>2. f.marks[m].sp \in Nat BY <4>1 DEF Mark
      <4> QED BY <3>1, <3>2, <4>2 DEF FrameNested, Under
    <3>4. f.entry < end BY <3>2 DEF Under
    <3> QED BY <3>3, <3>4 DEF f, end
  <2> QED BY <1>1, <2>3 DEF StackIsNested, Sound, AtBase
<1> QED BY <1>1, Invariance, PTL DEF IInv

-----------------------------------------------------------------------------
(* The encodings. *)

Byte == {b \in Nat : b <= 255}
Unit == {u \in Nat : u <= 65535}
Code == {u \in Nat : u <= 1114111}

-----------------------------------------------------------------------------
(* Characters. *)

LEMMA Utf8Bytes ==
  ASSUME NEW u \in Code
  PROVE  /\ Utf8(u) \in Seq(Byte)
         /\ Len(Utf8(u)) \in Nat /\ 1 <= Len(Utf8(u)) /\ Len(Utf8(u)) <= 4
         /\ u # 0 => \A k \in 1..Len(Utf8(u)) : Utf8(u)[k] # 0
<1>0. u \in Nat /\ u <= 1114111 BY DEF Code
<1>1. CASE u <= 127
  <2>1. Utf8(u) = <<u>> BY <1>1, <1>0 DEF Utf8
  <2>2. u \in Byte BY <1>0, <1>1 DEF Byte
  <2> QED BY <1>0, <2>1, <2>2
<1>2. CASE 128 <= u /\ u <= 2047
  <2>1. Utf8(u) = <<192 + u \div 64, 128 + (u % 64)>> BY <1>2, <1>0 DEF Utf8
  <2>2. 192 + u \div 64 \in Byte /\ 128 + (u % 64) \in Byte \ {0} /\ 192 + u \div 64 # 0
    BY <1>2, <1>0 DEF Byte
  <2> HIDE DEF Byte
  <2> QED BY <2>1, <2>2
<1>3. CASE 2048 <= u /\ u <= 65535
  <2> DEFINE a == 224 + u \div 4096
             b == 128 + ((u \div 64) % 64)
             c == 128 + (u % 64)
  <2>1. Utf8(u) = <<a, b, c>> BY <1>3, <1>0 DEF Utf8
  <2>2. {a, b, c} \subseteq Byte \ {0} BY <1>3, <1>0 DEF Byte
  <2> HIDE DEF a, b, c
  <2> QED BY <2>1, <2>2
<1>4. CASE 65536 <= u
  <2> DEFINE a == 240 + u \div 262144
             b == 128 + ((u \div 4096) % 64)
             c == 128 + ((u \div 64) % 64)
             d == 128 + (u % 64)
  <2>1. Utf8(u) = <<a, b, c, d>> BY <1>4, <1>0 DEF Utf8
  <2>2. {a, b, c, d} \subseteq Byte \ {0} BY <1>4, <1>0 DEF Byte
  <2> HIDE DEF a, b, c, d
  <2> QED BY <2>1, <2>2
<1> QED BY <1>0, <1>1, <1>2, <1>3, <1>4

LEMMA RfcAgrees == ASSUME NEW u \in Code PROVE RfcUtf8(u) = Utf8(u)
<1>00. u \in Nat /\ u <= 1114111 BY DEF Code
<1> DEFINE sixes == [j \in 0..3 |-> <<1, 64, 4096, 262144>>[j + 1]]
<1>0. sixes[0] = 1 /\ sixes[1] = 64 /\ sixes[2] = 4096 /\ sixes[3] = 262144 OBVIOUS
<1> HIDE DEF sixes
<1>1. CASE u <= 127
  <2>1. RfcUtf8(u) = [k \in 1..(0 + 1) |->
          IF k = 1 THEN <<0, 192, 224, 240>>[0 + 1] + u \div sixes[0]
          ELSE 128 + ((u \div sixes[0 + 1 - k]) % 64)]
    BY <1>1, <1>00 DEF RfcUtf8, sixes
  <2>2. Utf8(u) = <<u>> BY <1>1, <1>00 DEF Utf8
  <2> QED BY <1>0, <1>00, <1>1, <2>1, <2>2
<1>2. CASE 128 <= u /\ u <= 2047
  <2>1. RfcUtf8(u) = [k \in 1..(1 + 1) |->
          IF k = 1 THEN <<0, 192, 224, 240>>[1 + 1] + u \div sixes[1]
          ELSE 128 + ((u \div sixes[1 + 1 - k]) % 64)]
    BY <1>2, <1>00 DEF RfcUtf8, sixes
  <2>2. Utf8(u) = <<192 + u \div 64, 128 + (u % 64)>> BY <1>2, <1>00 DEF Utf8
  <2> QED BY <1>0, <1>00, <1>2, <2>1, <2>2
<1>3. CASE 2048 <= u /\ u <= 65535
  <2>1. RfcUtf8(u) = [k \in 1..(2 + 1) |->
          IF k = 1 THEN <<0, 192, 224, 240>>[2 + 1] + u \div sixes[2]
          ELSE 128 + ((u \div sixes[2 + 1 - k]) % 64)]
    BY <1>3, <1>00 DEF RfcUtf8, sixes
  <2>2. Utf8(u) = <<224 + u \div 4096, 128 + ((u \div 64) % 64), 128 + (u % 64)>>
    BY <1>3, <1>00 DEF Utf8
  <2> QED BY <1>0, <1>00, <1>3, <2>1, <2>2
<1>4. CASE 65536 <= u
  <2>1. RfcUtf8(u) = [k \in 1..(3 + 1) |->
          IF k = 1 THEN <<0, 192, 224, 240>>[3 + 1] + u \div sixes[3]
          ELSE 128 + ((u \div sixes[3 + 1 - k]) % 64)]
    BY <1>4, <1>00 DEF RfcUtf8, sixes
  <2>2. Utf8(u) = <<240 + u \div 262144, 128 + ((u \div 4096) % 64),
                    128 + ((u \div 64) % 64), 128 + (u % 64)>>
    BY <1>4, <1>00 DEF Utf8
  <2> QED BY <1>0, <1>00, <1>4, <2>1, <2>2
<1> QED BY <1>00, <1>1, <1>2, <1>3, <1>4

(* A character is read back from its bytes, wherever they are.             *)
LEMMA CharacterRead ==
  ASSUME NEW u \in Code, NEW A \in Seq(Byte), NEW n \in Nat \ {0},
         n + Len(Utf8(u)) <= Len(A) + 1,
         \A j \in 1..Len(Utf8(u)) : A[n + j - 1] = Utf8(u)[j]
  PROVE  DecodeAt(A, n) = [u |-> u, next |-> n + Len(Utf8(u))]
<1>0. Len(A) \in Nat /\ u \in Nat /\ u <= 1114111 BY DEF Code
<1>1. CASE u <= 127
  <2>1. Utf8(u) = <<u>> BY <1>1, <1>0 DEF Utf8
  <2>2. Len(Utf8(u)) = 1 /\ Utf8(u)[1] = u BY <2>1
  <2>3. A[n + 1 - 1] = u /\ n <= Len(A) BY <2>2, <1>0
  <2>4. A[n] = u BY <2>3
  <2> QED BY <1>0, <1>1, <2>2, <2>3, <2>4 DEF DecodeAt
<1>2. CASE 128 <= u /\ u <= 2047
  <2> DEFINE a == 192 + u \div 64
             b == 128 + (u % 64)
  <2>1. Utf8(u) = <<a, b>> BY <1>2, <1>0 DEF Utf8
  <2>2. Len(Utf8(u)) = 2 /\ Utf8(u)[1] = a /\ Utf8(u)[2] = b BY <2>1
  <2>3. A[n] = a /\ A[n + 1] = b /\ n + 1 <= Len(A) /\ n <= Len(A) BY <2>2, <1>0
  <2>4. a \in Nat /\ 192 <= a /\ a <= 223 /\ 64 * (a % 32) + (b % 64) = u
    <3> DEFINE q == u \div 64
               r == u % 64
    <3>1. q \in 0..31 /\ r \in 0..63 /\ u = 64 * q + r BY <1>2, <1>0
    <3>2. a = 192 + q /\ b = 128 + r OBVIOUS
    <3> HIDE DEF q, r, a, b
    <3>3. (192 + q) % 32 = q /\ (128 + r) % 64 = r BY <3>1
    <3> QED BY <3>1, <3>2, <3>3
  <2> HIDE DEF a, b
  <2> QED BY <2>2, <2>3, <2>4 DEF DecodeAt
<1>3. CASE 2048 <= u /\ u <= 65535
  <2> DEFINE a == 224 + u \div 4096
             b == 128 + ((u \div 64) % 64)
             c == 128 + (u % 64)
  <2>1. Utf8(u) = <<a, b, c>> BY <1>3, <1>0 DEF Utf8
  <2>2. Len(Utf8(u)) = 3 /\ Utf8(u)[1] = a /\ Utf8(u)[2] = b /\ Utf8(u)[3] = c BY <2>1
  <2>3. A[n] = a /\ A[n + 1] = b /\ A[n + 2] = c /\ n + 2 <= Len(A) BY <2>2, <1>0
  <2>4. a \in Nat /\ 224 <= a /\ a <= 239 /\ 4096 * (a % 16) + 64 * (b % 64) + (c % 64) = u BY <1>3, <1>0
  <2> HIDE DEF a, b, c
  <2>5. n <= Len(A) /\ n + 1 <= Len(A) BY <2>3, <1>0
  <2> QED BY <2>2, <2>3, <2>4, <2>5 DEF DecodeAt
<1>4. CASE 65536 <= u
  <2> DEFINE a == 240 + u \div 262144
             b == 128 + ((u \div 4096) % 64)
             c == 128 + ((u \div 64) % 64)
             d == 128 + (u % 64)
  <2>1. Utf8(u) = <<a, b, c, d>> BY <1>4, <1>0 DEF Utf8
  <2>2. /\ Len(Utf8(u)) = 4 /\ Utf8(u)[1] = a /\ Utf8(u)[2] = b /\ Utf8(u)[3] = c
        /\ Utf8(u)[4] = d
    BY <2>1
  <2>7. {1, 2, 3, 4} \subseteq 1..Len(Utf8(u)) BY <2>2
  <2>8. n + 3 <= Len(A) BY <2>2, <1>0
  <2> HIDE DEF Code
  <2>3. /\ A[n + 1 - 1] = a /\ A[n + 2 - 1] = b /\ A[n + 3 - 1] = c /\ A[n + 4 - 1] = d
        /\ n + 3 <= Len(A)
    BY <2>2, <2>7, <2>8
  <2>6. A[n] = a /\ A[n + 1] = b /\ A[n + 2] = c /\ A[n + 3] = d BY <2>3
  <2>4. a \in Nat /\ 240 <= a /\ a <= 244 /\ 262144 * (a % 8) + 4096 * (b % 64) + 64 * (c % 64) + (d % 64) = u
    BY <1>4, <1>0
  <2> HIDE DEF a, b, c, d
  <2>5. n <= Len(A) /\ n + 1 <= Len(A) /\ n + 2 <= Len(A) BY <2>3, <1>0
  <2> QED BY <2>2, <2>3, <2>4, <2>5, <2>6 DEF DecodeAt
<1> QED BY <1>0, <1>1, <1>2, <1>3, <1>4

(* The units of a pair. *)
LEMMA PairUnits ==
  ASSUME NEW h \in Unit, NEW l \in Unit, HighSurrogate(h), LowSurrogate(l)
  PROVE  /\ Pair(h, l) \in Code /\ Pair(h, l) # 0
         /\ Pair(h, l) = 65536 + (h - 55296) * 1024 + l - 56320
         /\ Units(Pair(h, l)) = <<h, l>>
<1>1. /\ h \in Nat /\ 55296 <= h /\ h <= 56319
      /\ l \in Nat /\ 56320 <= l /\ l <= 57343
  BY DEF HighSurrogate, LowSurrogate, Unit
<1>2. h % 1024 = h - 55296 /\ l % 1024 = l - 56320 BY <1>1
<1> DEFINE p == Pair(h, l)
<1>3. p = 65536 + 1024 * (h - 55296) + (l - 56320) BY <1>2 DEF Pair
<1>4. /\ p \in Nat /\ 65536 <= p /\ p <= 1114111 /\ (p - 65536) \div 1024 = h - 55296
      /\ (p - 65536) % 1024 = l - 56320
  BY <1>1, <1>3
<1> HIDE DEF p
<1>5. Units(p) = <<h, l>> BY <1>1, <1>4 DEF Units
<1> QED BY <1>1, <1>3, <1>4, <1>5 DEF p, Code

LEMMA TakeProperties ==
  ASSUME NEW s \in Seq(Unit), NEW i \in Nat, i < Len(s)
  PROVE  /\ Take(s, i).u \in Code /\ Take(s, i).i \in Nat
         /\ Take(s, i).i \in {i + 1, i + 2} /\ Take(s, i).i <= Len(s)
<1>1. s[i + 1] \in Unit /\ (i + 1 < Len(s) => s[i + 2] \in Unit) /\ Len(s) \in Nat
  OBVIOUS
<1>2. ASSUME NEW h \in Unit, NEW l \in Unit PROVE Pair(h, l) \in Code
  <2>1. h % 1024 \in Nat /\ h % 1024 < 1024 /\ l % 1024 \in Nat /\ l % 1024 < 1024
    BY DEF Unit
  <2> QED BY <2>1 DEF Pair, Code
<1>3. 0 \in Unit /\ Unit \subseteq Code BY DEF Unit, Code
<1> QED BY <1>1, <1>2, <1>3 DEF Take

-----------------------------------------------------------------------------
(* stringToUTF8Array. *)

WriteState == [i : Nat, out : Seq(Byte), cut : BOOLEAN]
WriteStart == [i |-> 0, out |-> <<>>, cut |-> FALSE]

Writes(f, s, room) ==
  /\ f[0] = WriteStart
  /\ \A n \in Nat : f[n] \in WriteState /\ f[n + 1] = Written(s, room, f[n])

LEMMA WriteStateParts ==
  ASSUME NEW a \in WriteState
  PROVE  /\ a.i \in Nat /\ a.out \in Seq(Byte) /\ a.cut \in BOOLEAN /\ Len(a.out) \in Nat
         /\ a = [i |-> a.i, out |-> a.out, cut |-> a.cut]
BY DEF WriteState

(* A turn ends the loop, cuts the string off or writes one character.      *)
WriteTurn(s, room, a, b) ==
  LET t == Take(s, a.i)
      c == Utf8(t.u)
  IN \/ (a.cut \/ a.i >= Len(s)) /\ b = a
     \/ /\ ~ a.cut /\ a.i < Len(s)
        /\ t.u \in Code /\ t.i \in {a.i + 1, a.i + 2} /\ t.i <= Len(s)
        /\ c \in Seq(Byte) /\ Len(c) \in Nat /\ 1 <= Len(c) /\ Len(c) <= 4
        /\ \/ /\ Len(a.out) + Len(c) > room
              /\ b = [i |-> a.i, out |-> a.out, cut |-> TRUE]
           \/ /\ Len(a.out) + Len(c) <= room
              /\ b = [i |-> t.i, out |-> a.out \o c, cut |-> FALSE]

LEMMA WrittenCases ==
  ASSUME NEW s \in Seq(Unit), NEW room \in Int, NEW a \in WriteState
  PROVE  WriteTurn(s, room, a, Written(s, room, a))
<1> DEFINE t == Take(s, a.i)
           c == Utf8(t.u)
<1>0. /\ a.i \in Nat /\ a.out \in Seq(Byte) /\ a.cut \in BOOLEAN /\ Len(s) \in Nat
      /\ Len(a.out) \in Nat
  BY WriteStateParts
<1>1. CASE a.cut \/ a.i >= Len(s)
  <2>1. Written(s, room, a) = a BY <1>1 DEF Written
  <2> QED BY <1>1, <2>1 DEF WriteTurn
<1>2. CASE ~ a.cut /\ a.i < Len(s)
  <2>1. t.u \in Code /\ t.i \in {a.i + 1, a.i + 2} /\ t.i <= Len(s)
    BY <1>0, <1>2, TakeProperties
  <2>2. c \in Seq(Byte) /\ Len(c) \in Nat /\ 1 <= Len(c) /\ Len(c) <= 4
    BY <2>1, Utf8Bytes
  <2>0. ~ (a.cut \/ a.i >= Len(s)) BY <1>0, <1>2
  <2>3. Written(s, room, a) =
          IF Len(a.out) + Len(c) > room THEN [i |-> a.i, out |-> a.out, cut |-> TRUE]
            ELSE [i |-> t.i, out |-> a.out \o c, cut |-> FALSE]
    BY <2>0, Zenon DEF Written
  <2> HIDE DEF t, c
  <2>6. \/ /\ Len(a.out) + Len(c) > room
           /\ Written(s, room, a) = [i |-> a.i, out |-> a.out, cut |-> TRUE]
        \/ /\ Len(a.out) + Len(c) <= room
           /\ Written(s, room, a) = [i |-> t.i, out |-> a.out \o c, cut |-> FALSE]
    BY <1>0, <2>2, <2>3
  <2> QED BY <1>2, <2>1, <2>2, <2>6, Zenon DEF WriteTurn, t, c
<1>3. (~ a.cut /\ a.i < Len(s)) \/ (a.cut \/ a.i >= Len(s)) BY <1>0
<1> QED BY <1>1, <1>2, <1>3

LEMMA WrittenType ==
  ASSUME NEW s \in Seq(Unit), NEW room \in Int, NEW a \in WriteState
  PROVE  Written(s, room, a) \in WriteState
<1> DEFINE t == Take(s, a.i)
           c == Utf8(t.u)
           b == Written(s, room, a)
<1>0. a.i \in Nat /\ a.out \in Seq(Byte) BY WriteStateParts
<1>7. WriteTurn(s, room, a, b) BY WrittenCases
<1>1. \/ b = a
      \/ /\ t.i \in {a.i + 1, a.i + 2} /\ c \in Seq(Byte)
         /\ \/ b = [i |-> a.i, out |-> a.out, cut |-> TRUE]
            \/ b = [i |-> t.i, out |-> a.out \o c, cut |-> FALSE]
  BY <1>7, Zenon DEF WriteTurn
<1> HIDE DEF t, c, b
<1>2. c \in Seq(Byte) => a.out \o c \in Seq(Byte) BY <1>0, ConcatProperties
<1>3. t.i \in {a.i + 1, a.i + 2} => t.i \in Nat BY <1>0
<1>4. CASE b = a BY <1>4 DEF b
<1>5. CASE b = [i |-> a.i, out |-> a.out, cut |-> TRUE] BY <1>0, <1>5 DEF b, WriteState
<1>6. CASE /\ t.i \in {a.i + 1, a.i + 2} /\ c \in Seq(Byte)
           /\ b = [i |-> t.i, out |-> a.out \o c, cut |-> FALSE]
  BY <1>2, <1>3, <1>6 DEF b, WriteState
<1> QED BY <1>1, <1>4, <1>5, <1>6

WriteSolves(f, s, room) ==
  f = [n \in Nat |-> IF n = 0 THEN [i |-> 0, out |-> <<>>, cut |-> FALSE]
                     ELSE Written(s, room, f[n - 1])]

LEMMA EncodedIsChosen ==
  ASSUME NEW s, NEW room
  PROVE  Encoded(s, room) = (CHOOSE f : WriteSolves(f, s, room))[Len(s)].out
BY DEF Encoded, WriteSolves

LEMMA WriteLoop ==
  ASSUME NEW s \in Seq(Unit), NEW room \in Int
  PROVE  \E f : Writes(f, s, room) /\ Encoded(s, room) = f[Len(s)].out
<1> DEFINE step == [a \in WriteState |-> Written(s, room, a)]
<1>1. WriteStart \in WriteState BY DEF WriteStart, WriteState
<1>2. \A a \in WriteState : step[a] \in WriteState BY WrittenType
<1>3. \E f \in [Nat -> WriteState] : Iterates(f, WriteStart, step)
  <2> HIDE DEF step
  <2> QED BY <1>1, <1>2, RecursionOnNat
<1>4. PICK g \in [Nat -> WriteState] : Iterates(g, WriteStart, step) BY <1>3
<1>5. g[0] = WriteStart /\ \A n \in Nat : g[n + 1] = Written(s, room, g[n])
  BY <1>4 DEF Iterates
<1>6. WriteSolves(g, s, room)
  <2>1. ASSUME NEW n \in Nat
        PROVE  g[n] = IF n = 0 THEN WriteStart ELSE Written(s, room, g[n - 1])
    <3>1. CASE n # 0
      <4>1. n - 1 \in Nat /\ (n - 1) + 1 = n BY <3>1
      <4> QED BY <3>1, <4>1, <1>5
    <3> QED BY <3>1, <1>5
  <2>2. g = [n \in Nat |-> g[n]] BY <1>4
  <2> QED BY <2>1, <2>2 DEF WriteSolves, WriteStart
<1> DEFINE f == CHOOSE h : WriteSolves(h, s, room)
<1>7. WriteSolves(f, s, room) BY <1>6
<1>8. Encoded(s, room) = f[Len(s)].out BY EncodedIsChosen
<1> HIDE DEF f
<1>9. f[0] = WriteStart /\ \A n \in Nat : f[n + 1] = Written(s, room, f[n])
  <2>1. f[0] = WriteStart BY <1>7 DEF WriteSolves, WriteStart
  <2>2. ASSUME NEW n \in Nat PROVE f[n + 1] = Written(s, room, f[n])
    <3>1. n + 1 \in Nat /\ n + 1 # 0 /\ (n + 1) - 1 = n OBVIOUS
    <3> QED BY <3>1, <1>7 DEF WriteSolves
  <2> QED BY <2>1, <2>2
<1>10. \A n \in Nat : f[n] \in WriteState
  <2> DEFINE N == {n \in Nat : f[n] \in WriteState}
  <2>1. 0 \in N BY <1>1, <1>9
  <2>2. ASSUME NEW n \in Nat, n \in N PROVE n + 1 \in N
    <3>1. Written(s, room, f[n]) \in WriteState BY <2>2, WrittenType
    <3>2. f[n + 1] \in WriteState BY <3>1, <1>9
    <3> QED BY <3>2
  <2>3. Nat \subseteq N
    <3> HIDE DEF N
    <3> QED BY <2>1, <2>2, InductionOnNat
  <2> QED BY <2>3
<1>11. Writes(f, s, room) BY <1>9, <1>10 DEF Writes
<1> QED BY <1>8, <1>11

LEMMA WritesFrom ==
  ASSUME NEW f, NEW s, NEW room, Writes(f, s, room)
  PROVE  f[0] = WriteStart /\ f[0].i = 0 /\ f[0].out = <<>> /\ ~ f[0].cut
<1>1. f[0] = WriteStart BY DEF Writes
<1>2. WriteStart.i = 0 /\ WriteStart.out = <<>> BY DEF WriteStart
<1>3. ~ WriteStart.cut BY DEF WriteStart
<1> QED BY <1>1, <1>2, <1>3

LEMMA WritesAt ==
  ASSUME NEW s \in Seq(Unit), NEW room \in Int, NEW f, Writes(f, s, room), NEW n \in Nat
  PROVE  f[n] \in WriteState /\ f[n + 1] \in WriteState /\ WriteTurn(s, room, f[n], f[n + 1])
<1>1. n + 1 \in Nat OBVIOUS
<1>2. /\ f[n] \in WriteState /\ f[n + 1] \in WriteState
      /\ f[n + 1] = Written(s, room, f[n])
  BY <1>1 DEF Writes
<1> QED BY <1>2, WrittenCases

-----------------------------------------------------------------------------
(* Prefixes. *)

LEMMA PrefixPoints ==
  ASSUME NEW S, NEW s \in Seq(S), NEW t \in Seq(S)
  PROVE  IsPrefix(s, t) <=> /\ Len(s) <= Len(t)
                            /\ \A k \in 1..Len(s) : s[k] = t[k]
<1>0. Len(s) \in Nat /\ Len(t) \in Nat OBVIOUS
<1>1. SUFFICES ASSUME Len(s) <= Len(t)
               PROVE  SubSeq(s, 1, Len(s)) = SubSeq(t, 1, Len(s))
                        <=> \A k \in 1..Len(s) : s[k] = t[k]
  BY DEF IsPrefix
<1>2. SubSeq(s, 1, Len(s)) = s BY SubSeqFull
<1> DEFINE r == SubSeq(t, 1, Len(s))
<1>3. r \in Seq(S) /\ Len(r) = Len(s) /\ \A k \in 1..Len(s) : r[k] = t[k]
  <2>1. \A i \in 1..Len(s) : t[i] \in S BY <1>0, <1>1
  <2>2. /\ r \in Seq(S) /\ Len(r) = IF 1 <= Len(s) THEN Len(s) - 1 + 1 ELSE 0
        /\ \A k \in 1..(Len(s) - 1 + 1) : r[k] = t[1 + k - 1]
    BY <2>1, <1>0, SubSeqProperties
  <2>3. Len(s) - 1 + 1 = Len(s) /\ \A k \in 1..Len(s) : 1 + k - 1 = k BY <1>0
  <2> HIDE DEF r
  <2> QED BY <2>2, <2>3, <1>0
<1> HIDE DEF r
<1>4. s = r <=> \A k \in 1..Len(s) : s[k] = t[k] BY <1>3, SeqEqual
<1> QED BY <1>2, <1>4 DEF r

LEMMA PrefixSelf ==
  ASSUME NEW S, NEW s \in Seq(S) PROVE IsPrefix(s, s)
BY PrefixPoints

LEMMA PrefixConcat ==
  ASSUME NEW S, NEW s \in Seq(S), NEW c \in Seq(S)
  PROVE  IsPrefix(s, s \o c)
<1>0. Len(s) \in Nat /\ Len(c) \in Nat OBVIOUS
<1>1. /\ s \o c \in Seq(S) /\ Len(s \o c) = Len(s) + Len(c)
      /\ \A k \in 1..(Len(s) + Len(c)) : (s \o c)[k] = IF k <= Len(s) THEN s[k] ELSE c[k - Len(s)]
  BY ConcatProperties
<1>2. Len(s) <= Len(s \o c) /\ \A k \in 1..Len(s) : (s \o c)[k] = s[k] BY <1>0, <1>1
<1> QED BY <1>1, <1>2, PrefixPoints

LEMMA PrefixTrans ==
  ASSUME NEW S, NEW s \in Seq(S), NEW t \in Seq(S), NEW u \in Seq(S),
         IsPrefix(s, t), IsPrefix(t, u)
  PROVE  IsPrefix(s, u)
<1>0. Len(s) \in Nat /\ Len(t) \in Nat /\ Len(u) \in Nat OBVIOUS
<1>1. /\ Len(s) <= Len(t) /\ Len(t) <= Len(u)
      /\ \A k \in 1..Len(s) : s[k] = t[k]
      /\ \A k \in 1..Len(t) : t[k] = u[k]
  BY PrefixPoints
<1> QED BY <1>0, <1>1, PrefixPoints

LEMMA FrontOfConcat ==
  ASSUME NEW S, NEW s \in Seq(S), NEW e \in S
  PROVE  /\ s \o <<e>> \in Seq(S) /\ Len(s \o <<e>>) = Len(s) + 1
         /\ Last(s \o <<e>>) = e /\ Front(s \o <<e>>) = s
<1> DEFINE t == s \o <<e>>
<1>0. Len(s) \in Nat OBVIOUS
<1>1. t = Append(s, e) BY AppendIsConcat
<1>2. /\ t \in Seq(S) /\ Len(t) = Len(s) + 1 /\ t[Len(s) + 1] = e
      /\ \A k \in 1..Len(s) : t[k] = s[k]
  BY <1>1, AppendProperties
<1> HIDE DEF t
<1>3. IsPrefix(s, t) BY <1>0, <1>2, PrefixPoints
<1>4. SubSeq(t, 1, Len(s)) = s
  <2>1. SubSeq(s, 1, Len(s)) = s BY SubSeqFull
  <2> QED BY <2>1, <1>3 DEF IsPrefix
<1>5. Len(t) - 1 = Len(s) BY <1>0, <1>2
<1> QED BY <1>2, <1>4, <1>5 DEF t, Front, Last

-----------------------------------------------------------------------------
(* What the writer writes. *)

LEMMA WriteBounds ==
  ASSUME NEW s \in Seq(Unit), NEW room \in Nat, NEW f, Writes(f, s, room), NEW n \in Nat
  PROVE  /\ f[n].i <= Len(s) /\ Len(f[n].out) <= room
         /\ Len(f[n].out) <= 4 * f[n].i
         /\ f[n].cut \/ f[n].i = Len(s) \/ f[n].i >= n
<1> DEFINE N == {m \in Nat : /\ f[m].i <= Len(s) /\ Len(f[m].out) <= room
                             /\ Len(f[m].out) <= 4 * f[m].i
                             /\ f[m].cut \/ f[m].i = Len(s) \/ f[m].i >= m}
<1>0. Len(s) \in Nat OBVIOUS
<1>1. 0 \in N
  <2>1. f[0].i = 0 /\ f[0].out = <<>> BY WritesFrom
  <2>2. Len(<<>>) = 0 OBVIOUS
  <2> QED BY <1>0, <2>1, <2>2
<1>2. ASSUME NEW m \in Nat, m \in N PROVE m + 1 \in N
  <2> DEFINE a == f[m]
             b == f[m + 1]
             t == Take(s, a.i)
             c == Utf8(t.u)
  <2>1. a \in WriteState /\ WriteTurn(s, room, a, b) BY WritesAt
  <2>2. a.i \in Nat /\ a.out \in Seq(Byte) /\ Len(a.out) \in Nat BY <2>1, WriteStateParts
  <2>4. /\ a.i <= Len(s) /\ Len(a.out) <= room /\ Len(a.out) <= 4 * a.i
        /\ a.cut \/ a.i = Len(s) \/ a.i >= m
    BY <1>2
  <2> HIDE DEF a, b, t, c
  <2>5. /\ b.i <= Len(s) /\ Len(b.out) <= room /\ Len(b.out) <= 4 * b.i
        /\ b.cut \/ b.i = Len(s) \/ b.i >= m + 1
    <3>1. CASE (a.cut \/ a.i >= Len(s)) /\ b = a BY <3>1, <2>2, <2>4, <1>0
    <3>2. CASE b = [i |-> a.i, out |-> a.out, cut |-> TRUE] BY <3>2, <2>4
    <3>3. CASE /\ ~ a.cut /\ a.i < Len(s) /\ t.i \in {a.i + 1, a.i + 2} /\ t.i <= Len(s)
               /\ c \in Seq(Byte) /\ Len(c) \in Nat /\ 1 <= Len(c) /\ Len(c) <= 4
               /\ Len(a.out) + Len(c) <= room
               /\ b = [i |-> t.i, out |-> a.out \o c, cut |-> FALSE]
      <4>1. Len(a.out \o c) = Len(a.out) + Len(c) BY <2>2, <3>3, ConcatProperties
      <4>2. b.i = t.i /\ Len(b.out) = Len(a.out) + Len(c) BY <3>3, <4>1
      <4>3. a.i = Len(s) \/ a.i >= m BY <2>4, <3>3
      <4>5. b.i \in Nat /\ b.i >= a.i + 1 /\ b.i <= Len(s) BY <3>3, <4>2, <2>2
      <4>6. Len(b.out) <= room /\ Len(b.out) <= 4 * a.i + 4
        BY <4>2, <3>3, <2>2, <2>4
      <4>7. Len(b.out) \in Nat BY <4>2, <3>3, <2>2
      <4>8. Len(b.out) <= 4 * b.i BY <4>5, <4>6, <4>7, <2>2
      <4>9. b.i = Len(s) \/ b.i >= m + 1 BY <4>5, <4>3, <2>2, <3>3, <1>0
      <4> QED BY <4>5, <4>6, <4>8, <4>9
    <3> QED BY <2>1, <3>1, <3>2, <3>3, Zenon DEF WriteTurn, t, c
  <2> QED BY <2>5 DEF b
<1>3. Nat \subseteq N
  <2> HIDE DEF N
  <2> QED BY <1>1, <1>2, InductionOnNat
<1> QED BY <1>3

(* Four bytes a unit are room for every string. *)
LEMMA WriteNeverCut ==
  ASSUME NEW s \in Seq(Unit), NEW room \in Nat, 4 * Len(s) <= room,
         NEW f, Writes(f, s, room)
  PROVE  \A n \in Nat : ~ f[n].cut
<1> DEFINE N == {m \in Nat : ~ f[m].cut}
<1>0. Len(s) \in Nat /\ room \in Int OBVIOUS
<1>1. 0 \in N BY WritesFrom
<1>2. ASSUME NEW m \in Nat, m \in N PROVE m + 1 \in N
  <2> DEFINE a == f[m]
             b == f[m + 1]
             t == Take(s, a.i)
             c == Utf8(t.u)
  <2>1. a \in WriteState /\ WriteTurn(s, room, a, b) BY <1>0, WritesAt
  <2>2. a.i \in Nat /\ a.out \in Seq(Byte) /\ Len(a.out) \in Nat BY <2>1, WriteStateParts
  <2>3. Len(a.out) <= 4 * a.i BY WriteBounds
  <2>4. ~ a.cut BY <1>2
  <2> HIDE DEF a, b, t, c
  <2>5. \/ b = a
        \/ /\ a.i < Len(s) /\ Len(c) \in Nat /\ Len(c) <= 4 /\ Len(a.out) + Len(c) > room
        \/ b = [i |-> t.i, out |-> a.out \o c, cut |-> FALSE]
    BY <2>1, Zenon DEF WriteTurn, t, c
  <2>6. ~ (/\ a.i < Len(s) /\ Len(c) \in Nat /\ Len(c) <= 4 /\ Len(a.out) + Len(c) > room)
    BY <2>2, <2>3, <1>0
  <2>7. ~ b.cut
    <3>1. CASE b = a BY <3>1, <2>4
    <3>2. CASE b = [i |-> t.i, out |-> a.out \o c, cut |-> FALSE] BY <3>2
    <3> QED BY <3>1, <3>2, <2>5, <2>6
  <2> QED BY <2>7 DEF b
<1>3. Nat \subseteq N
  <2> HIDE DEF N
  <2> QED BY <1>1, <1>2, InductionOnNat
<1> QED BY <1>3

(* The loop only adds bytes. *)
LEMMA TurnAdds ==
  ASSUME NEW s \in Seq(Unit), NEW room \in Int, NEW a \in WriteState, NEW b,
         WriteTurn(s, room, a, b)
  PROVE  IsPrefix(a.out, b.out)
<1> DEFINE t == Take(s, a.i)
           c == Utf8(t.u)
<1>1. a.out \in Seq(Byte) BY WriteStateParts
<1>2. \/ b = a
      \/ b = [i |-> a.i, out |-> a.out, cut |-> TRUE]
      \/ c \in Seq(Byte) /\ b = [i |-> t.i, out |-> a.out \o c, cut |-> FALSE]
  BY Zenon DEF WriteTurn
<1> HIDE DEF t, c
<1>3. CASE b = a BY <1>1, <1>3, PrefixSelf
<1>4. CASE b = [i |-> a.i, out |-> a.out, cut |-> TRUE] BY <1>1, <1>4, PrefixSelf
<1>5. CASE c \in Seq(Byte) /\ b = [i |-> t.i, out |-> a.out \o c, cut |-> FALSE]
  BY <1>1, <1>5, PrefixConcat
<1> QED BY <1>2, <1>3, <1>4, <1>5

(* Two rooms: what is written in the smaller one, until it is cut off, is  *)
(* what is written in the larger one.                                      *)
LEMMA WriteRooms ==
  ASSUME NEW s \in Seq(Unit), NEW r \in Int, NEW q \in Int, r <= q,
         NEW f, Writes(f, s, r), NEW g, Writes(g, s, q)
  PROVE  \A n \in Nat : /\ f[n].cut => IsPrefix(f[n].out, g[n].out)
                        /\ ~ f[n].cut => g[n] = f[n]
<1> DEFINE N == {m \in Nat : /\ f[m].cut => IsPrefix(f[m].out, g[m].out)
                             /\ ~ f[m].cut => g[m] = f[m]}
<1>1. 0 \in N
  <2>1. f[0] = WriteStart /\ g[0] = WriteStart /\ ~ f[0].cut BY WritesFrom
  <2> QED BY <2>1
<1>2. ASSUME NEW m \in Nat, m \in N PROVE m + 1 \in N
  <2> DEFINE a == f[m]
             b == f[m + 1]
             d == g[m]
             e == g[m + 1]
             t == Take(s, a.i)
             c == Utf8(t.u)
  <2>1. /\ a \in WriteState /\ WriteTurn(s, r, a, b)
        /\ d \in WriteState /\ WriteTurn(s, q, d, e) /\ e \in WriteState
    BY WritesAt
  <2>2. /\ a.i \in Nat /\ a.out \in Seq(Byte) /\ Len(a.out) \in Nat
        /\ d.out \in Seq(Byte) /\ e.out \in Seq(Byte)
    BY <2>1, WriteStateParts
  <2>3. (a.cut => IsPrefix(a.out, d.out)) /\ (~ a.cut => d = a) BY <1>2
  <2>4. IsPrefix(d.out, e.out) BY <2>1, TurnAdds
  <2> HIDE DEF a, b, d, e, t, c
  <2>5. (b.cut => IsPrefix(b.out, e.out)) /\ (~ b.cut => e = b)
    <3>1. CASE a.cut
      <4>1. b = a BY <2>1, <3>1, Zenon DEF WriteTurn
      <4>2. IsPrefix(a.out, e.out) BY <2>2, <2>3, <2>4, <3>1, PrefixTrans
      <4> QED BY <4>1, <4>2, <3>1
    <3>2. CASE ~ a.cut /\ a.i >= Len(s) /\ b = a
      <4>1. d = a BY <2>3, <3>2
      <4>2. ~ (a.i < Len(s)) BY <2>2, <3>2
      <4>3. e = a BY <2>1, <4>1, <4>2, Zenon DEF WriteTurn
      <4> QED BY <3>2, <4>3
    <3>3. CASE ~ a.cut /\ b = [i |-> a.i, out |-> a.out, cut |-> TRUE]
      <4>1. b.out = a.out /\ b.cut /\ d = a BY <3>3, <2>3
      <4> QED BY <4>1, <2>4
    <3>4. CASE /\ ~ a.cut /\ a.i < Len(s) /\ Len(c) \in Nat
               /\ Len(a.out) + Len(c) <= r
               /\ b = [i |-> t.i, out |-> a.out \o c, cut |-> FALSE]
      <4>1. d = a BY <2>3, <3>4
      <4>2. ~ (Len(a.out) + Len(c) > q) /\ ~ (a.i >= Len(s)) BY <3>4, <2>2
      <4>3. WriteTurn(s, q, a, e) BY <2>1, <4>1
      <4>4. e = [i |-> t.i, out |-> a.out \o c, cut |-> FALSE]
        BY <4>2, <4>3, <3>4, Zenon DEF WriteTurn, t, c
      <4>5. ~ b.cut BY <3>4
      <4> QED BY <4>4, <4>5, <3>4
    <3> QED BY <2>1, <3>1, <3>2, <3>3, <3>4, Zenon DEF WriteTurn, t, c
  <2> QED BY <2>5 DEF b, e
<1>3. Nat \subseteq N
  <2> HIDE DEF N
  <2> QED BY <1>1, <1>2, InductionOnNat
<1> QED BY <1>3

(* The bytes written into some room. *)
LEMMA EncodedFits ==
  ASSUME NEW s \in Seq(Unit), NEW room \in Nat
  PROVE  Encoded(s, room) \in Seq(Byte) /\ Len(Encoded(s, room)) <= room
<1>0. Len(s) \in Nat /\ room \in Int OBVIOUS
<1>1. PICK f : Writes(f, s, room) /\ Encoded(s, room) = f[Len(s)].out BY <1>0, WriteLoop
<1>2. f[Len(s)] \in WriteState BY <1>0, <1>1, WritesAt
<1> QED BY <1>0, <1>1, <1>2, WriteStateParts, WriteBounds

LEMMA EncodedRooms ==
  ASSUME NEW s \in Seq(Unit), NEW r \in Nat, NEW q \in Nat, r <= q
  PROVE  /\ IsPrefix(Encoded(s, r), Encoded(s, q))
         /\ 4 * Len(s) <= r => Encoded(s, r) = Encoded(s, q)
<1>0. Len(s) \in Nat /\ r \in Int /\ q \in Int OBVIOUS
<1>1. PICK f : Writes(f, s, r) /\ Encoded(s, r) = f[Len(s)].out BY <1>0, WriteLoop
<1>2. PICK g : Writes(g, s, q) /\ Encoded(s, q) = g[Len(s)].out BY <1>0, WriteLoop
<1>3. /\ f[Len(s)].cut => IsPrefix(f[Len(s)].out, g[Len(s)].out)
      /\ ~ f[Len(s)].cut => g[Len(s)] = f[Len(s)]
  BY <1>0, <1>1, <1>2, WriteRooms
<1>4. IsPrefix(Encoded(s, r), Encoded(s, r)) BY EncodedFits, PrefixSelf
<1>5. 4 * Len(s) <= r => ~ f[Len(s)].cut BY <1>0, <1>1, WriteNeverCut
<1> QED BY <1>1, <1>2, <1>3, <1>4, <1>5

(* What stringToUTF8Array leaves in the buffer. *)
LEMMA BufferHolds ==
  ASSUME NEW s \in Seq(Unit), NEW max \in Nat \ {0}
  PROVE  LET out == stringToUTF8Array(s, max)
         IN /\ out = Encoded(s, max - 1) \o << 0 >>
            /\ Len(out) <= max /\ Last(out) = 0 /\ Front(out) = Encoded(s, max - 1)
<1> DEFINE out == stringToUTF8Array(s, max)
           e == Encoded(s, max - 1)
<1>1. max - 1 \in Nat /\ ~ (max <= 0) /\ 0 \in Byte BY DEF Byte
<1>2. out = e \o <<0>> BY <1>1 DEF stringToUTF8Array
<1>3. e \in Seq(Byte) /\ Len(e) <= max - 1 BY <1>1, EncodedFits
<1> HIDE DEF out, e
<1>4. Len(out) = Len(e) + 1 /\ Last(out) = 0 /\ Front(out) = e
  BY <1>1, <1>2, <1>3, FrontOfConcat
<1>5. Len(e) \in Nat BY <1>3
<1>6. Len(out) <= max BY <1>3, <1>4, <1>5
<1> QED BY <1>2, <1>4, <1>6 DEF out, e

LEMMA BuffersAreCut ==
  ASSUME NEW s \in Seq(Unit)
  PROVE  /\ stringToUTF8Array(s, 4 * Len(s) + 1) = stringToUTF8Array(s, 8 * Len(s) + 8)
         /\ \A max \in 1..(4 * Len(s) + 1) :
              LET out == stringToUTF8Array(s, max)
              IN /\ Len(out) <= max /\ Last(out) = 0
                 /\ IsPrefix(Front(out), Encoded(s, 4 * Len(s)))
<1> DEFINE n == 4 * Len(s)
           m == 8 * Len(s) + 7
<1>0. n \in Nat /\ m \in Nat /\ n <= m OBVIOUS
<1>1. n + 1 \in Nat \ {0} /\ m + 1 \in Nat \ {0} /\ (n + 1) - 1 = n /\ (m + 1) - 1 = m
      /\ m + 1 = 8 * Len(s) + 8
  OBVIOUS
<1>2. Encoded(s, n) = Encoded(s, m) BY <1>0, EncodedRooms
<1> HIDE DEF m
<1>3. stringToUTF8Array(s, n + 1) = Encoded(s, n) \o <<0>>
  <2> HIDE DEF n
  <2>1. n + 1 \in Nat \ {0} /\ (n + 1) - 1 = n BY <1>1
  <2>2. stringToUTF8Array(s, n + 1) = Encoded(s, (n + 1) - 1) \o <<0>>
    BY <2>1, BufferHolds, Zenon
  <2> QED BY <2>1, <2>2
<1>4. stringToUTF8Array(s, m + 1) = Encoded(s, m) \o <<0>> BY <1>1, BufferHolds
<1>5. ASSUME NEW max \in 1..(n + 1)
      PROVE  LET out == stringToUTF8Array(s, max)
             IN Len(out) <= max /\ Last(out) = 0 /\ IsPrefix(Front(out), Encoded(s, n))
  <2> HIDE DEF n
  <2>1. max \in Nat \ {0} /\ max - 1 \in Nat /\ max - 1 <= n BY <1>0
  <2>2. IsPrefix(Encoded(s, max - 1), Encoded(s, n)) BY <1>0, <2>1, EncodedRooms
  <2> QED BY <2>1, <2>2, BufferHolds
<1>6. stringToUTF8Array(s, n + 1) = stringToUTF8Array(s, m + 1)
  BY <1>2, <1>3, <1>4, Zenon
<1>7. stringToUTF8Array(s, m + 1) = stringToUTF8Array(s, 8 * Len(s) + 8) BY <1>1, Zenon
<1> QED BY <1>5, <1>6, <1>7, Zenon

-----------------------------------------------------------------------------
(* UTF8ArrayToString. *)

LEMMA DecodeType ==
  ASSUME NEW A \in Seq(Byte), NEW n \in Nat \ {0}
  PROVE  /\ DecodeAt(A, n).u \in Nat /\ DecodeAt(A, n).next \in Nat
         /\ DecodeAt(A, n).next >= n + 1
<1> DEFINE At(k) == IF k <= Len(A) THEN A[k] ELSE 0
<1>0. Len(A) \in Nat OBVIOUS
<1>1. ASSUME NEW k \in Nat \ {0} PROVE At(k) \in Nat BY <1>0 DEF Byte
<1>2. At(n) \in Nat /\ At(n + 1) \in Nat /\ At(n + 2) \in Nat /\ At(n + 3) \in Nat BY <1>1
<1> HIDE DEF At
<1> DEFINE a == At(n)
           b == At(n + 1)
           c == At(n + 2)
           d == At(n + 3)
<1>3. DecodeAt(A, n) =
        IF a < 128 THEN [u |-> a, next |-> n + 1]
        ELSE IF 192 <= a /\ a <= 223 THEN [u |-> 64 * (a % 32) + (b % 64), next |-> n + 2]
        ELSE IF 224 <= a /\ a <= 239
        THEN [u |-> 4096 * (a % 16) + 64 * (b % 64) + (c % 64), next |-> n + 3]
        ELSE [u |-> 262144 * (a % 8) + 4096 * (b % 64) + 64 * (c % 64) + (d % 64),
              next |-> n + 4]
  BY DEF DecodeAt, At
<1>5. a \in Nat /\ b \in Nat /\ c \in Nat /\ d \in Nat BY <1>2
<1> HIDE DEF a, b, c, d
<1> DEFINE a5 == a % 32
           a4 == a % 16
           a3 == a % 8
           b6 == b % 64
           c6 == c % 64
           d6 == d % 64
<1>6. /\ a5 \in Nat /\ a4 \in Nat /\ a3 \in Nat /\ b6 \in Nat /\ c6 \in Nat /\ d6 \in Nat
  BY <1>5
<1> HIDE DEF a5, a4, a3, b6, c6, d6
<1>4. /\ 64 * a5 + b6 \in Nat /\ 4096 * a4 + 64 * b6 + c6 \in Nat
      /\ 262144 * a3 + 4096 * b6 + 64 * c6 + d6 \in Nat
  BY <1>6
<1>7. DecodeAt(A, n) =
        IF a < 128 THEN [u |-> a, next |-> n + 1]
        ELSE IF 192 <= a /\ a <= 223 THEN [u |-> 64 * a5 + b6, next |-> n + 2]
        ELSE IF 224 <= a /\ a <= 239
        THEN [u |-> 4096 * a4 + 64 * b6 + c6, next |-> n + 3]
        ELSE [u |-> 262144 * a3 + 4096 * b6 + 64 * c6 + d6, next |-> n + 4]
  BY <1>3 DEF a5, a4, a3, b6, c6, d6
<1> QED BY <1>4, <1>5, <1>7

LEMMA UnitsType == ASSUME NEW u \in Nat PROVE Units(u) \in Seq(Nat)
<1>1. CASE u < 65536 BY <1>1 DEF Units
<1>2. CASE u >= 65536
  <2>1. 55296 + (u - 65536) \div 1024 \in Nat /\ 56320 + ((u - 65536) % 1024) \in Nat
    BY <1>2
  <2>2. Units(u) = <<55296 + (u - 65536) \div 1024, 56320 + ((u - 65536) % 1024)>>
    BY <1>2 DEF Units
  <2> QED BY <2>1, <2>2
<1> QED BY <1>1, <1>2

ReadState == [n : Nat \ {0}, out : Seq(Nat)]
ReadStart == [n |-> 1, out |-> <<>>]

LEMMA ReadStateParts ==
  ASSUME NEW a \in ReadState
  PROVE  /\ a.n \in Nat \ {0} /\ a.out \in Seq(Nat)
         /\ a = [n |-> a.n, out |-> a.out]
BY DEF ReadState

LEMMA ReadType ==
  ASSUME NEW A \in Seq(Byte), NEW e \in Nat, NEW a \in ReadState
  PROVE  /\ Read(A, e, a) \in ReadState
         /\ a.n > e => Read(A, e, a) = a
         /\ a.n <= e => /\ Read(A, e, a).n >= a.n + 1
                        /\ Read(A, e, a) =
                             [n |-> DecodeAt(A, a.n).next,
                              out |-> a.out \o Units(DecodeAt(A, a.n).u)]
<1> DEFINE d == DecodeAt(A, a.n)
           w == Units(d.u)
<1>0. a.n \in Nat \ {0} /\ a.out \in Seq(Nat) BY ReadStateParts
<1>1. d.u \in Nat /\ d.next \in Nat /\ d.next >= a.n + 1
  BY <1>0, DecodeType, Zenon
<1>2. w \in Seq(Nat) BY <1>1, UnitsType
<1>3. Read(A, e, a) = IF a.n > e THEN a ELSE [n |-> d.next, out |-> a.out \o w]
  BY DEF Read
<1> HIDE DEF d, w
<1>4. a.out \o w \in Seq(Nat) BY <1>0, <1>2, ConcatProperties
<1>5. a.n > e => Read(A, e, a) = a BY <1>3
<1>6. ASSUME a.n <= e
      PROVE  /\ Read(A, e, a) = [n |-> d.next, out |-> a.out \o w]
             /\ Read(A, e, a) \in ReadState /\ Read(A, e, a).n >= a.n + 1
  <2>1. Read(A, e, a) = [n |-> d.next, out |-> a.out \o w] BY <1>0, <1>3, <1>6
  <2>2. d.next \in Nat \ {0} BY <1>0, <1>1
  <2>3. Read(A, e, a) \in ReadState BY <2>1, <2>2, <1>4 DEF ReadState
  <2> QED BY <2>1, <2>3, <1>1
<1>7. a.n > e \/ a.n <= e BY <1>0
<1>8. Read(A, e, a) \in ReadState BY <1>5, <1>6, <1>7
<1> QED BY <1>5, <1>6, <1>8, Zenon DEF d, w

Reads(f, A, e) ==
  /\ f[0] = ReadStart
  /\ \A n \in Nat : f[n] \in ReadState /\ f[n + 1] = Read(A, e, f[n])

ReadSolves(f, A, e) ==
  f = [n \in Nat |-> IF n = 0 THEN [n |-> 1, out |-> <<>>] ELSE Read(A, e, f[n - 1])]

LEMMA DecodedIsChosen ==
  ASSUME NEW A, NEW e
  PROVE  Decoded(A, e) = (CHOOSE f : ReadSolves(f, A, e))[e].out
BY DEF Decoded, ReadSolves

LEMMA ReadLoop ==
  ASSUME NEW A \in Seq(Byte), NEW e \in Nat
  PROVE  \E f : Reads(f, A, e) /\ Decoded(A, e) = f[e].out
<1> DEFINE step == [a \in ReadState |-> Read(A, e, a)]
<1>1. ReadStart \in ReadState BY DEF ReadStart, ReadState
<1>2. \A a \in ReadState : step[a] \in ReadState BY ReadType
<1>3. \E f \in [Nat -> ReadState] : Iterates(f, ReadStart, step)
  <2> HIDE DEF step
  <2> QED BY <1>1, <1>2, RecursionOnNat
<1>4. PICK g \in [Nat -> ReadState] : Iterates(g, ReadStart, step) BY <1>3
<1>5. g[0] = ReadStart /\ \A n \in Nat : g[n + 1] = Read(A, e, g[n])
  BY <1>4 DEF Iterates
<1>6. ReadSolves(g, A, e)
  <2>1. ASSUME NEW n \in Nat
        PROVE  g[n] = IF n = 0 THEN ReadStart ELSE Read(A, e, g[n - 1])
    <3>1. CASE n # 0
      <4>1. n - 1 \in Nat /\ (n - 1) + 1 = n BY <3>1
      <4> QED BY <3>1, <4>1, <1>5
    <3> QED BY <3>1, <1>5
  <2>2. g = [n \in Nat |-> g[n]] BY <1>4
  <2> QED BY <2>1, <2>2 DEF ReadSolves, ReadStart
<1> DEFINE f == CHOOSE h : ReadSolves(h, A, e)
<1>7. ReadSolves(f, A, e) BY <1>6
<1>8. Decoded(A, e) = f[e].out BY DecodedIsChosen
<1> HIDE DEF f
<1>9. f[0] = ReadStart /\ \A n \in Nat : f[n + 1] = Read(A, e, f[n])
  <2>1. f[0] = ReadStart BY <1>7 DEF ReadSolves, ReadStart
  <2>2. ASSUME NEW n \in Nat PROVE f[n + 1] = Read(A, e, f[n])
    <3>1. n + 1 \in Nat /\ n + 1 # 0 /\ (n + 1) - 1 = n OBVIOUS
    <3> QED BY <3>1, <1>7 DEF ReadSolves
  <2> QED BY <2>1, <2>2
<1>10. \A n \in Nat : f[n] \in ReadState
  <2> DEFINE N == {n \in Nat : f[n] \in ReadState}
  <2>1. 0 \in N BY <1>1, <1>9
  <2>2. ASSUME NEW n \in Nat, n \in N PROVE n + 1 \in N
    <3>1. Read(A, e, f[n]) \in ReadState BY <2>2, ReadType
    <3>2. f[n + 1] \in ReadState BY <3>1, <1>9
    <3> QED BY <3>2
  <2>3. Nat \subseteq N
    <3> HIDE DEF N
    <3> QED BY <2>1, <2>2, InductionOnNat
  <2> QED BY <2>3
<1>11. Reads(f, A, e) BY <1>9, <1>10 DEF Reads
<1> QED BY <1>8, <1>11

LEMMA ReadsAt ==
  ASSUME NEW A \in Seq(Byte), NEW e \in Nat, NEW f, Reads(f, A, e), NEW n \in Nat
  PROVE  /\ f[n] \in ReadState /\ f[n].n \in Nat /\ f[n].n >= 1
         /\ f[n].n <= e => /\ f[n + 1].n >= f[n].n + 1
                           /\ f[n + 1] = [n |-> DecodeAt(A, f[n].n).next,
                                          out |-> f[n].out \o Units(DecodeAt(A, f[n].n).u)]
<1> DEFINE a == f[n]
           b == f[n + 1]
<1>1. a \in ReadState /\ b = Read(A, e, a) BY DEF Reads
<1> HIDE DEF a, b
<1>2. a.n \in Nat \ {0} BY <1>1, ReadStateParts
<1>3. a.n \in Nat /\ a.n >= 1 BY <1>2
<1> QED BY <1>1, <1>3, ReadType, Zenon DEF a, b

LEMMA ReadStays ==
  ASSUME NEW A \in Seq(Byte), NEW e \in Nat, NEW f, Reads(f, A, e), NEW n \in Nat,
         f[n].n > e
  PROVE  f[n + 1] = f[n]
<1>1. f[n + 1] = Read(A, e, f[n]) BY DEF Reads
<1>2. Read(A, e, f[n]) = f[n] BY DEF Read
<1> QED BY <1>1, <1>2

(* Every turn reads a byte, until none is left; then nothing changes.      *)
LEMMA ReadEnds ==
  ASSUME NEW A \in Seq(Byte), NEW e \in Nat, NEW f, Reads(f, A, e)
  PROVE  /\ f[e].n > e
         /\ \A n \in Nat : f[n].n > e => f[n] = f[e]
<1> DEFINE N == {m \in Nat : f[m].n > e \/ f[m].n >= m + 1}
<1>1. 0 \in N
  <2>1. f[0].n >= 1 BY ReadsAt
  <2> QED BY <2>1
<1>2. ASSUME NEW m \in Nat, m \in N PROVE m + 1 \in N
  <2>0. m + 1 \in Nat OBVIOUS
  <2>1. f[m].n \in Nat /\ f[m + 1].n \in Nat BY <2>0, ReadsAt, Zenon
  <2>2. CASE f[m].n > e
    <3>1. f[m + 1] = f[m] BY <2>2, ReadStays
    <3> QED BY <2>0, <2>2, <3>1, Zenon
  <2>3. CASE f[m].n <= e
    <3>1. f[m + 1].n >= f[m].n + 1 BY <2>3, ReadsAt
    <3>2. f[m].n >= m + 1 BY <2>1, <2>3, <1>2
    <3> QED BY <2>1, <3>1, <3>2
  <2> QED BY <2>1, <2>2, <2>3
<1>3. Nat \subseteq N
  <2> HIDE DEF N
  <2> QED BY <1>1, <1>2, InductionOnNat
<1>4. f[e].n > e
  <2>1. e \in N BY <1>3
  <2>2. f[e].n \in Nat BY ReadsAt
  <2> QED BY <2>1, <2>2
<1>5. ASSUME NEW n \in Nat, f[n].n > e PROVE \A k \in Nat : f[n + k] = f[n]
  <2> DEFINE K == {k \in Nat : f[n + k] = f[n]}
  <2>1. 0 \in K OBVIOUS
  <2>2. ASSUME NEW k \in Nat, k \in K PROVE k + 1 \in K
    <3>1. n + k \in Nat /\ (n + k) + 1 = n + (k + 1) OBVIOUS
    <3>2. f[n + k].n > e BY <1>5, <2>2
    <3>3. f[(n + k) + 1] = f[n + k] BY <3>1, <3>2, ReadStays
    <3> QED BY <3>1, <3>3, <2>2
  <2>3. Nat \subseteq K
    <3> HIDE DEF K
    <3> QED BY <2>1, <2>2, InductionOnNat
  <2> QED BY <2>3
<1>6. ASSUME NEW n \in Nat, f[n].n > e PROVE f[n] = f[e]
  <2>1. CASE n <= e
    <3>1. e - n \in Nat /\ n + (e - n) = e BY <2>1
    <3>2. f[n + (e - n)] = f[n] BY <3>1, <1>5, <1>6
    <3> QED BY <3>1, <3>2
  <2>2. CASE n > e
    <3>1. n - e \in Nat /\ e + (n - e) = n BY <2>2
    <3>2. f[e + (n - e)] = f[e] BY <3>1, <1>4, <1>5
    <3> QED BY <3>1, <3>2
  <2> QED BY <2>1, <2>2
<1> QED BY <1>4, <1>6

(* The bytes of every turn begin the bytes of the last.                    *)
LEMMA WriteAddsUp ==
  ASSUME NEW s \in Seq(Unit), NEW room \in Int, NEW f, Writes(f, s, room),
         NEW n \in Nat, NEW m \in Nat, n <= m
  PROVE  /\ IsPrefix(f[n].out, f[m].out)
         /\ f[n].cut \/ f[n].i >= Len(s) => f[m] = f[n]
<1> DEFINE K == {k \in Nat : /\ IsPrefix(f[n].out, f[n + k].out)
                             /\ f[n].cut \/ f[n].i >= Len(s) => f[n + k] = f[n]}
<1>1. 0 \in K
  <2>1. f[n] \in WriteState BY WritesAt
  <2>2. IsPrefix(f[n].out, f[n].out) BY <2>1, WriteStateParts, PrefixSelf
  <2> QED BY <2>2
<1>2. ASSUME NEW k \in Nat, k \in K PROVE k + 1 \in K
  <2> DEFINE z == f[n]
             a == f[n + k]
             b == f[n + (k + 1)]
  <2>0. n + k \in Nat /\ (n + k) + 1 = n + (k + 1) OBVIOUS
  <2>1. z \in WriteState /\ a \in WriteState /\ b \in WriteState /\ WriteTurn(s, room, a, b)
    BY <2>0, WritesAt
  <2>2. z.out \in Seq(Byte) /\ a.out \in Seq(Byte) /\ b.out \in Seq(Byte)
    BY <2>1, WriteStateParts
  <2>3. IsPrefix(z.out, a.out) /\ (z.cut \/ z.i >= Len(s) => a = z) BY <1>2
  <2> HIDE DEF z, a, b
  <2>4. IsPrefix(a.out, b.out) BY <2>1, TurnAdds
  <2>5. IsPrefix(z.out, b.out) BY <2>2, <2>3, <2>4, PrefixTrans
  <2>6. a.i \in Nat /\ Len(s) \in Nat BY <2>1, WriteStateParts
  <2>7. ~ (a.i >= Len(s) /\ a.i < Len(s)) BY <2>6
  <2>8. a.cut \/ a.i >= Len(s) => b = a BY <2>1, <2>7, Zenon DEF WriteTurn
  <2>9. z.cut \/ z.i >= Len(s) => b = z BY <2>3, <2>8, Zenon
  <2>10. k + 1 \in Nat OBVIOUS
  <2> QED BY <2>5, <2>9, <2>10, Zenon DEF z, b
<1>3. Nat \subseteq K
  <2> HIDE DEF K
  <2> QED BY <1>1, <1>2, InductionOnNat
<1>4. m - n \in Nat /\ n + (m - n) = m OBVIOUS
<1>5. m - n \in K BY <1>3, <1>4
<1> QED BY <1>4, <1>5

-----------------------------------------------------------------------------
(* Strings without a surrogate of their own. *)

(* No character of s lies on both sides of i. *)
Boundary(s, i) == i < Len(s) => ~ LowSurrogate(s[i + 1])

(* The character after a boundary is a unit or a pair. *)
LEMMA CharCases ==
  ASSUME NEW s \in Seq(Unit), WellFormed(s), NEW i \in Nat, i < Len(s), Boundary(s, i)
  PROVE  \/ /\ ~ HighSurrogate(s[i + 1]) /\ ~ LowSurrogate(s[i + 1])
            /\ Take(s, i) = [u |-> s[i + 1], i |-> i + 1]
         \/ /\ HighSurrogate(s[i + 1]) /\ i + 1 < Len(s) /\ LowSurrogate(s[i + 2])
            /\ Take(s, i) = [u |-> Pair(s[i + 1], s[i + 2]), i |-> i + 2]
<1>0. i + 1 \in 1..Len(s) /\ (i + 1) + 1 = i + 2 /\ ~ LowSurrogate(s[i + 1])
  BY DEF Boundary
<1>1. HighSurrogate(s[i + 1]) => i + 1 < Len(s) /\ LowSurrogate(s[i + 2])
  BY <1>0 DEF WellFormed
<1>2. CASE ~ HighSurrogate(s[i + 1]) BY <1>0, <1>2, Zenon DEF Take
<1>3. CASE HighSurrogate(s[i + 1]) BY <1>1, <1>3, Zenon DEF Take
<1> QED BY <1>2, <1>3

LEMMA SubSeqOne ==
  ASSUME NEW S, NEW s \in Seq(S), NEW m \in 1..Len(s)
  PROVE  SubSeq(s, m, m) = <<s[m]>>
<1>1. m \in m..Len(s) /\ m + 1 \in Int /\ m \in Int /\ m < m + 1 /\ s[m] \in S OBVIOUS
<1>2. SubSeq(s, m, m) = <<s[m]>> \o SubSeq(s, m + 1, m) BY <1>1, SubSeqRecursiveFirst
<1>3. SubSeq(s, m + 1, m) = <<>> BY <1>1, SubSeqEmpty
<1>4. <<s[m]>> \in Seq(S) BY <1>1
<1>5. <<s[m]>> \o <<>> = <<s[m]>> BY <1>4, ConcatEmptySeq
<1> QED BY <1>2, <1>3, <1>5

LEMMA SubSeqTwo ==
  ASSUME NEW S, NEW s \in Seq(S), NEW m \in 1..Len(s), m + 1 \in 1..Len(s)
  PROVE  SubSeq(s, m, m + 1) = <<s[m], s[m + 1]>>
<1>1. m + 1 \in m..Len(s) OBVIOUS
<1>2. SubSeq(s, m, m + 1) = <<s[m]>> \o SubSeq(s, m + 1, m + 1)
  BY <1>1, SubSeqRecursiveFirst
<1>3. SubSeq(s, m + 1, m + 1) = <<s[m + 1]>> BY SubSeqOne
<1> DEFINE x == s[m]
           y == s[m + 1]
<1>5. x \in S /\ y \in S OBVIOUS
<1> HIDE DEF x, y
<1> DEFINE p == <<x>> \o <<y>>
           q == <<x, y>>
<1>6. /\ <<x>> \in Seq(S) /\ Len(<<x>>) = 1 /\ <<x>>[1] = x
      /\ <<y>> \in Seq(S) /\ Len(<<y>>) = 1 /\ <<y>>[1] = y
      /\ q \in Seq(S) /\ Len(q) = 2 /\ q[1] = x /\ q[2] = y
  BY <1>5
<1>7. p \in Seq(S) /\ Len(p) = 2 /\ p[1] = x /\ p[2] = y
  <2>1. /\ p \in Seq(S) /\ Len(p) = 1 + 1
        /\ \A k \in 1..(1 + 1) : p[k] = IF k <= 1 THEN <<x>>[k] ELSE <<y>>[k - 1]
    BY <1>6, ConcatProperties
  <2> HIDE DEF p
  <2>2. 1 \in 1..(1 + 1) /\ 2 \in 1..(1 + 1) /\ 2 - 1 = 1 OBVIOUS
  <2> QED BY <2>1, <2>2, <1>6
<1> HIDE DEF p, q
<1>8. p = q
  <2>1. \A k \in 1..Len(p) : p[k] = q[k] BY <1>6, <1>7
  <2> QED BY <2>1, <1>6, <1>7, SeqEqual
<1>4. <<s[m]>> \o <<s[m + 1]>> = <<s[m], s[m + 1]>> BY <1>8 DEF x, y, p, q
<1> QED BY <1>2, <1>3, <1>4

LEMMA CharUnits ==
  ASSUME NEW s \in Seq(Unit), WellFormed(s), NEW i \in Nat, i < Len(s), Boundary(s, i)
  PROVE  /\ Boundary(s, Take(s, i).i)
         /\ Units(Take(s, i).u) = SubSeq(s, i + 1, Take(s, i).i)
         /\ 0 \notin ToSet(s) => Take(s, i).u # 0
<1> DEFINE x == s[i + 1]
           y == s[i + 2]
           t == Take(s, i)
<1>0. Len(s) \in Nat /\ i + 1 \in 1..Len(s) /\ DOMAIN s = 1..Len(s) OBVIOUS
<1>1. x \in Unit /\ (0 \notin ToSet(s) => x # 0) BY <1>0 DEF ToSet
<1>2. CASE ~ HighSurrogate(x) /\ ~ LowSurrogate(x) /\ t = [u |-> x, i |-> i + 1]
  <2>1. t.i = i + 1 /\ t.u = x BY <1>2
  <2>2. Boundary(s, i + 1)
    <3>1. SUFFICES ASSUME i + 1 < Len(s), LowSurrogate(s[(i + 1) + 1]) PROVE FALSE
      BY DEF Boundary
    <3>2. (i + 1) + 1 \in 1..Len(s) /\ ((i + 1) + 1) - 1 = i + 1 BY <1>0, <3>1
    <3>3. HighSurrogate(s[i + 1]) BY <3>1, <3>2 DEF WellFormed
    <3> QED BY <3>3, <1>2
  <2>3. Units(x) = <<x>>
    <3>1. x \in Nat /\ x < 65536 BY <1>1 DEF Unit
    <3> HIDE DEF x
    <3> QED BY <3>1 DEF Units
  <2>4. SubSeq(s, i + 1, i + 1) = <<s[i + 1]>>
    BY <1>0, SubSeqOne
  <2> QED BY <2>1, <2>2, <2>3, <2>4, <1>1
<1>3. CASE /\ HighSurrogate(x) /\ i + 1 < Len(s) /\ LowSurrogate(y)
           /\ t = [u |-> Pair(x, y), i |-> i + 2]
  <2>0. y \in Unit /\ i + 2 \in 1..Len(s) BY <1>3, <1>0
  <2>1. t.i = i + 2 /\ t.u = Pair(x, y) BY <1>3
  <2>2. Boundary(s, i + 2)
    <3>1. SUFFICES ASSUME i + 2 < Len(s), LowSurrogate(s[(i + 2) + 1]) PROVE FALSE
      BY DEF Boundary
    <3>2. (i + 2) + 1 \in 1..Len(s) /\ ((i + 2) + 1) - 1 = i + 2 BY <1>0, <3>1
    <3>3. HighSurrogate(y) BY <3>1, <3>2 DEF WellFormed
    <3>4. y \in Nat BY <2>0 DEF Unit
    <3> HIDE DEF y
    <3> QED BY <3>3, <3>4, <1>3 DEF HighSurrogate, LowSurrogate
  <2>3. Units(Pair(x, y)) = <<x, y>> /\ Pair(x, y) # 0
    <3> HIDE DEF x, y
    <3> QED BY <1>1, <1>3, <2>0, PairUnits
  <2>4. SubSeq(s, i + 1, i + 2) = <<s[i + 1], s[i + 2]>>
    <3>1. (i + 1) + 1 = i + 2 /\ (i + 1) + 1 \in 1..Len(s) BY <2>0
    <3>2. SubSeq(s, i + 1, (i + 1) + 1) = <<s[i + 1], s[(i + 1) + 1]>>
      BY <1>0, <3>1, SubSeqTwo
    <3> QED BY <3>1, <3>2
  <2> QED BY <2>1, <2>2, <2>3, <2>4
<1>4. t = Take(s, i) OBVIOUS
<1> HIDE DEF t
<1> QED BY <1>2, <1>3, <1>4, CharCases

(* The writer stops between two characters, and writes no NUL of its own.  *)
LEMMA WriteChars ==
  ASSUME NEW s \in Seq(Unit), WellFormed(s), NEW room \in Int,
         NEW f, Writes(f, s, room)
  PROVE  \A n \in Nat :
           /\ Boundary(s, f[n].i)
           /\ 0 \notin ToSet(s) => \A k \in 1..Len(f[n].out) : f[n].out[k] # 0
<1> DEFINE N == {m \in Nat :
                   /\ Boundary(s, f[m].i)
                   /\ 0 \notin ToSet(s) => \A k \in 1..Len(f[m].out) : f[m].out[k] # 0}
<1>1. 0 \in N
  <2>1. f[0].i = 0 /\ f[0].out = <<>> BY WritesFrom
  <2>2. Boundary(s, 0)
    <3>1. SUFFICES ASSUME 0 < Len(s), LowSurrogate(s[0 + 1]) PROVE FALSE
      BY DEF Boundary
    <3>2. 1 \in 1..Len(s) /\ ~ (1 > 1) BY <3>1
    <3> QED BY <3>1, <3>2 DEF WellFormed
  <2>3. 1..Len(<<>>) = {} OBVIOUS
  <2> QED BY <2>1, <2>2, <2>3
<1>2. ASSUME NEW m \in Nat, m \in N PROVE m + 1 \in N
  <2> DEFINE a == f[m]
             b == f[m + 1]
             t == Take(s, a.i)
             c == Utf8(t.u)
  <2>1. a \in WriteState /\ WriteTurn(s, room, a, b) BY WritesAt
  <2>2. a.i \in Nat /\ a.out \in Seq(Byte) /\ Len(a.out) \in Nat BY <2>1, WriteStateParts
  <2>3. /\ Boundary(s, a.i)
        /\ 0 \notin ToSet(s) => \A k \in 1..Len(a.out) : a.out[k] # 0
    BY <1>2
  <2>4. \/ b.i = a.i /\ b.out = a.out
        \/ /\ a.i < Len(s) /\ t.u \in Code /\ c \in Seq(Byte) /\ Len(c) \in Nat
           /\ b.i = t.i /\ b.out = a.out \o c
    <3> HIDE DEF a, b, t, c
    <3>1. \/ b = a
          \/ b = [i |-> a.i, out |-> a.out, cut |-> TRUE]
          \/ /\ a.i < Len(s) /\ t.u \in Code /\ c \in Seq(Byte) /\ Len(c) \in Nat
             /\ b = [i |-> t.i, out |-> a.out \o c, cut |-> FALSE]
      BY <2>1, Zenon DEF WriteTurn, t, c
    <3> QED BY <3>1
  <2> HIDE DEF a, b
  <2>0. m + 1 \in Nat OBVIOUS
  <2>5. CASE b.i = a.i /\ b.out = a.out BY <2>3, <2>5 DEF b
  <2>6. CASE /\ a.i < Len(s) /\ t.u \in Code /\ c \in Seq(Byte) /\ Len(c) \in Nat
             /\ b.i = t.i /\ b.out = a.out \o c
    <3>1. Boundary(s, t.i) /\ (0 \notin ToSet(s) => t.u # 0)
      BY <2>2, <2>3, <2>6, CharUnits
    <3>2. t.u # 0 => \A k \in 1..Len(c) : c[k] # 0 BY <2>6, Utf8Bytes
    <3> HIDE DEF t, c
    <3>3. ASSUME 0 \notin ToSet(s), NEW k \in 1..Len(b.out) PROVE b.out[k] # 0
      <4>1. k \in 1..(Len(a.out) + Len(c)) /\ (a.out \o c)[k] =
               IF k <= Len(a.out) THEN a.out[k] ELSE c[k - Len(a.out)]
        BY <2>2, <2>6, <3>3, ConcatProperties
      <4>2. k <= Len(a.out) => k \in 1..Len(a.out) BY <4>1, <2>2
      <4>3. ~ (k <= Len(a.out)) => k - Len(a.out) \in 1..Len(c) BY <4>1, <2>2, <2>6
      <4> QED BY <4>1, <4>2, <4>3, <3>1, <3>2, <3>3, <2>3, <2>6
    <3>4. Boundary(s, b.i) BY <3>1, <2>6
    <3> QED BY <2>0, <3>3, <3>4, Zenon DEF b
  <2> QED BY <2>4, <2>5, <2>6
<1>3. Nat \subseteq N
  <2> HIDE DEF N
  <2> QED BY <1>1, <1>2, InductionOnNat
<1> QED BY <1>3

(* A turn of the writer ends, or adds a whole character.                   *)
WriteStep(s, a, b) ==
  LET t == Take(s, a.i)
      c == Utf8(t.u)
  IN /\ a.i \in Nat /\ a.out \in Seq(Byte) /\ Boundary(s, a.i)
     /\ \/ (b.cut \/ b.i >= Len(s)) /\ b.i = a.i /\ b.out = a.out
        \/ /\ a.i < Len(s) /\ t.u \in Code /\ t.i \in Nat /\ t.i <= Len(s)
           /\ a.i + 1 <= t.i
           /\ c \in Seq(Byte) /\ Len(c) \in Nat /\ 1 <= Len(c)
           /\ b.i = t.i /\ b.out = a.out \o c
           /\ Units(t.u) = SubSeq(s, a.i + 1, t.i)

LEMMA WriteSteps ==
  ASSUME NEW s \in Seq(Unit), WellFormed(s), NEW room \in Int,
         NEW f, Writes(f, s, room), NEW n \in Nat
  PROVE  WriteStep(s, f[n], f[n + 1])
<1> DEFINE a == f[n]
           b == f[n + 1]
           t == Take(s, a.i)
           c == Utf8(t.u)
<1>1. a \in WriteState /\ WriteTurn(s, room, a, b) BY WritesAt
<1>2. a.i \in Nat /\ a.out \in Seq(Byte) BY <1>1, WriteStateParts
<1>3. Boundary(s, a.i) BY WriteChars
<1>4. a.i < Len(s) => Units(t.u) = SubSeq(s, a.i + 1, t.i) BY <1>2, <1>3, CharUnits
<1> HIDE DEF a, b, t, c
<1>5. \/ (a.cut \/ a.i >= Len(s)) /\ b = a
      \/ b = [i |-> a.i, out |-> a.out, cut |-> TRUE]
      \/ /\ a.i < Len(s) /\ t.u \in Code /\ t.i \in {a.i + 1, a.i + 2} /\ t.i <= Len(s)
         /\ c \in Seq(Byte) /\ Len(c) \in Nat /\ 1 <= Len(c)
         /\ b = [i |-> t.i, out |-> a.out \o c, cut |-> FALSE]
  BY <1>1, Zenon DEF WriteTurn, t, c
<1>6. \/ (b.cut \/ b.i >= Len(s)) /\ b.i = a.i /\ b.out = a.out
      \/ /\ a.i < Len(s) /\ t.u \in Code /\ t.i \in Nat /\ t.i <= Len(s)
         /\ a.i + 1 <= t.i
         /\ c \in Seq(Byte) /\ Len(c) \in Nat /\ 1 <= Len(c)
         /\ b.i = t.i /\ b.out = a.out \o c
         /\ Units(t.u) = SubSeq(s, a.i + 1, t.i)
  <2>1. CASE (a.cut \/ a.i >= Len(s)) /\ b = a BY <2>1
  <2>2. CASE b = [i |-> a.i, out |-> a.out, cut |-> TRUE] BY <2>2
  <2>3. CASE /\ a.i < Len(s) /\ t.u \in Code /\ t.i \in {a.i + 1, a.i + 2} /\ t.i <= Len(s)
             /\ c \in Seq(Byte) /\ Len(c) \in Nat /\ 1 <= Len(c)
             /\ b = [i |-> t.i, out |-> a.out \o c, cut |-> FALSE]
    <3>1. t.i \in Nat /\ a.i + 1 <= t.i BY <2>3, <1>2
    <3>2. b.i = t.i /\ b.out = a.out \o c BY <2>3
    <3> QED BY <2>3, <3>1, <3>2, <1>4, Zenon
  <2> QED BY <1>5, <2>1, <2>2, <2>3
<1>7. WriteStep(s, a, b) BY <1>2, <1>3, <1>6, Zenon DEF WriteStep, t, c
<1> QED BY <1>7 DEF a, b

(* The reader keeps step with the writer. *)
LEMMA ReaderFollows ==
  ASSUME NEW s \in Seq(Unit), WellFormed(s), NEW room \in Int,
         NEW f, Writes(f, s, room),
         NEW out \in Seq(Byte), out = f[Len(s)].out,
         NEW d, Reads(d, out \o << 0 >>, Len(out))
  PROVE  \A n \in 0..Len(s) : d[n] = [n |-> Len(f[n].out) + 1,
                                      out |-> SubSeq(s, 1, f[n].i)]
<1> DEFINE Goal(n) == d[n] = [n |-> Len(f[n].out) + 1, out |-> SubSeq(s, 1, f[n].i)]
           N == {m \in Nat : m <= Len(s) => Goal(m)}
           A == out \o <<0>>
           L == Len(out)
<1>0. Len(s) \in Nat /\ L \in Nat /\ 0 \in Byte BY DEF Byte
<1>1. 0 \in N
  <2>1. f[0].i = 0 /\ f[0].out = <<>> BY WritesFrom
  <2>2. SubSeq(s, 1, 0) = <<>> BY SubSeqEmpty
  <2>3. d[0] = [n |-> 1, out |-> <<>>] BY DEF Reads, ReadStart
  <2>4. Len(<<>>) + 1 = 1 OBVIOUS
  <2>5. Goal(0) BY <2>1, <2>2, <2>3, <2>4
  <2> QED BY <2>5
<1>5. /\ A \in Seq(Byte) /\ Len(A) = L + 1 /\ \A k \in 1..L : A[k] = out[k]
  <2>1. <<0>> \in Seq(Byte) /\ Len(<<0>>) = 1 BY <1>0
  <2>2. /\ A \in Seq(Byte) /\ Len(A) = L + 1
        /\ \A k \in 1..(L + 1) : A[k] = IF k <= L THEN out[k] ELSE <<0>>[k - L]
    BY <2>1, ConcatProperties
  <2> HIDE DEF A
  <2> QED BY <2>2, <1>0
<1> HIDE DEF A, L
<1>6. Reads(d, A, L) BY DEF A, L
<1>2. ASSUME NEW m \in Nat, m \in N PROVE m + 1 \in N
  <2>1. SUFFICES ASSUME m + 1 <= Len(s) PROVE Goal(m + 1) OBVIOUS
  <2> DEFINE a == f[m]
             b == f[m + 1]
             t == Take(s, a.i)
             c == Utf8(t.u)
             k == Len(a.out) + 1
  <2>2. d[m] = [n |-> k, out |-> SubSeq(s, 1, a.i)] BY <2>1, <1>2, <1>0
  <2>3. m + 1 \in Nat /\ IsPrefix(b.out, out) /\ (b.cut \/ b.i >= Len(s) => out = b.out)
    BY <2>1, <1>0, WriteAddsUp
  <2>9. WriteStep(s, a, b) BY WriteSteps
  <2> HIDE DEF a, b
  <2>4. /\ a.i \in Nat /\ a.out \in Seq(Byte)
        /\ \/ (b.cut \/ b.i >= Len(s)) /\ b.i = a.i /\ b.out = a.out
           \/ /\ a.i < Len(s) /\ t.u \in Code /\ t.i \in Nat /\ t.i <= Len(s)
              /\ a.i + 1 <= t.i
              /\ c \in Seq(Byte) /\ Len(c) \in Nat /\ 1 <= Len(c)
              /\ b.i = t.i /\ b.out = a.out \o c
              /\ Units(t.u) = SubSeq(s, a.i + 1, t.i)
    BY <2>9, Zenon DEF WriteStep
  <2> HIDE DEF t, c
  <2>5. k \in Nat \ {0} /\ k - 1 = Len(a.out) BY <2>4
  <2>6. d[m].n = k /\ d[m].out = SubSeq(s, 1, a.i)
    <3> HIDE DEF k
    <3> DEFINE z == SubSeq(s, 1, a.i)
    <3> HIDE DEF z
    <3>1. d[m] = [n |-> k, out |-> z] BY <2>2 DEF z
    <3>2. d[m].n = k /\ d[m].out = z BY <3>1
    <3> QED BY <3>2 DEF z
  <2>7. CASE (b.cut \/ b.i >= Len(s)) /\ b.i = a.i /\ b.out = a.out
    <3>1. out = a.out BY <2>7, <2>3
    <3>2. k = L + 1 BY <3>1 DEF L
    <3>3. d[m].n > L BY <2>6, <3>2, <1>0
    <3>4. d[m + 1] = d[m]
      <4>1. m \in Nat /\ L \in Nat /\ A \in Seq(Byte) BY <1>0, <1>5
      <4> HIDE DEF k, a, b, N, Goal
      <4> QED BY <4>1, <3>3, <1>6, ReadStays
    <3>5. Len(b.out) + 1 = k BY <2>7
    <3> HIDE DEF k
    <3> QED BY <3>4, <3>5, <2>2, <2>7 DEF b
  <2>8. CASE /\ a.i < Len(s) /\ t.u \in Code /\ t.i \in Nat /\ t.i <= Len(s)
             /\ a.i + 1 <= t.i
             /\ c \in Seq(Byte) /\ Len(c) \in Nat /\ 1 <= Len(c)
             /\ b.i = t.i /\ b.out = a.out \o c
             /\ Units(t.u) = SubSeq(s, a.i + 1, t.i)
    <3>1. /\ b.out \in Seq(Byte) /\ Len(b.out) = (k - 1) + Len(c)
          /\ \A j \in 1..((k - 1) + Len(c)) :
               b.out[j] = IF j <= k - 1 THEN a.out[j] ELSE c[j - (k - 1)]
      BY <2>4, <2>5, <2>8, ConcatProperties
    <3>2. Len(b.out) <= L /\ \A j \in 1..Len(b.out) : b.out[j] = out[j]
      BY <2>3, <3>1, PrefixPoints DEF L
    <3> HIDE DEF k
    <3>3. k <= L /\ k + Len(c) <= Len(A) + 1 BY <3>1, <3>2, <2>5, <2>8, <1>0, <1>5
    <3>4. ASSUME NEW j \in 1..Len(c) PROVE A[k + j - 1] = c[j]
      <4>1. /\ k + j - 1 \in 1..((k - 1) + Len(c)) /\ ~ (k + j - 1 <= k - 1)
            /\ (k + j - 1) - (k - 1) = j
        BY <2>5, <2>8
      <4>2. k + j - 1 \in 1..Len(b.out) /\ k + j - 1 \in 1..L
        BY <4>1, <3>1, <3>2, <1>0, <2>8, <2>5
      <4>3. b.out[k + j - 1] = c[(k + j - 1) - (k - 1)] BY <3>1, <4>1
      <4> QED BY <4>1, <4>2, <4>3, <3>2, <1>5
    <3>5. DecodeAt(A, k) = [u |-> t.u, next |-> k + Len(c)]
      BY <2>5, <2>8, <3>3, <3>4, <1>5, CharacterRead DEF c
    <3>6. d[m + 1] = [n |-> DecodeAt(A, k).next,
                      out |-> SubSeq(s, 1, a.i) \o Units(DecodeAt(A, k).u)]
      <4> DEFINE z == SubSeq(s, 1, a.i)
      <4>1. k \in Nat /\ k <= L /\ A \in Seq(Byte) /\ L \in Nat BY <2>5, <3>3, <1>5, <1>0
      <4>2. d[m].n = k /\ d[m].out = z BY <2>6
      <4> HIDE DEF z
      <4>3. d[m + 1] = [n |-> DecodeAt(A, k).next, out |-> z \o Units(DecodeAt(A, k).u)]
        <5>1. d[m + 1] = Read(A, L, d[m]) BY <1>6 DEF Reads
        <5>2. ~ (d[m].n > L) BY <4>1, <4>2
        <5>3. Read(A, L, d[m]) = [n |-> DecodeAt(A, d[m].n).next,
                                  out |-> d[m].out \o Units(DecodeAt(A, d[m].n).u)]
          BY <5>2, Zenon DEF Read
        <5> QED BY <5>1, <5>3, <4>2, Zenon
      <4> QED BY <4>3 DEF z
    <3>7. d[m + 1] = [n |-> k + Len(c),
                      out |-> SubSeq(s, 1, a.i) \o SubSeq(s, a.i + 1, t.i)]
      <4>1. DecodeAt(A, k).u = t.u /\ DecodeAt(A, k).next = k + Len(c) BY <3>5
      <4> QED BY <4>1, <3>6, <2>8, Zenon
    <3>8. SubSeq(s, 1, a.i) \o SubSeq(s, a.i + 1, t.i) = SubSeq(s, 1, t.i)
      <4>1. 1 \in 1..(Len(s) + 1) /\ a.i \in (1 - 1)..Len(s) /\ t.i \in a.i..Len(s)
        BY <2>4, <2>8, <1>0
      <4> QED BY <4>1, ConcatAdjacentSubSeq
    <3>9. Len(b.out) + 1 = k + Len(c) BY <3>1, <2>5, <2>8
    <3> QED BY <3>7, <3>8, <3>9, <2>8 DEF b
  <2> QED BY <2>4, <2>7, <2>8
<1>3. Nat \subseteq N
  <2> HIDE DEF N
  <2> QED BY <1>1, <1>2, InductionOnNat
<1> QED BY <1>0, <1>3

(* What is read of bytes that the loop reads as units. *)
ReadAs(length, units) == IF length > 16 THEN WithoutMark(units) ELSE units

(* The reader stops at the first NUL. *)
LEMMA UpToNul ==
  ASSUME NEW out \in Seq(Byte), \A k \in 1..Len(out) : out[k] # 0
  PROVE  UTF8ArrayToString(out \o << 0 >>) =
           ReadAs(Len(out), Decoded(out \o << 0 >>, Len(out)))
<1> DEFINE A == out \o <<0>>
           L == Len(out)
           zeros == {k \in 1..Len(A) : A[k] = 0}
<1>0. L \in Nat /\ 0 \in Byte BY DEF Byte
<1>1. /\ Len(A) = L + 1 /\ A[L + 1] = 0 /\ \A k \in 1..L : A[k] = out[k]
  <2>1. <<0>> \in Seq(Byte) /\ Len(<<0>>) = 1 /\ <<0>>[1] = 0 BY <1>0
  <2>2. /\ Len(A) = L + 1
        /\ \A k \in 1..(L + 1) : A[k] = IF k <= L THEN out[k] ELSE <<0>>[k - L]
    BY <2>1, ConcatProperties
  <2>3. (L + 1) - L = 1 /\ L + 1 \in 1..(L + 1) BY <1>0
  <2> HIDE DEF A
  <2> QED BY <2>1, <2>2, <2>3, <1>0
<1> HIDE DEF A
<1>2. zeros = {L + 1} BY <1>0, <1>1
<1> HIDE DEF zeros
<1>3. Min(zeros) = L + 1
  <2>1. \A x \in zeros : x = L + 1 BY <1>2
  <2>2. \E x \in zeros : \A y \in zeros : x <= y BY <1>0, <1>2
  <2>3. Min(zeros) \in zeros BY <2>2 DEF Min
  <2> QED BY <2>1, <2>3
<1>4. zeros # {} BY <1>2
<1>5. UTF8ArrayToString(A) = ReadAs(Min(zeros) - 1, Decoded(A, Min(zeros) - 1))
  BY <1>4, Zenon DEF UTF8ArrayToString, ReadAs, zeros
<1>6. Min(zeros) - 1 = L BY <1>0, <1>3
<1> QED BY <1>5, <1>6 DEF A

(* What is written is read back, up to where it was cut off. *)
LEMMA ReadBack ==
  ASSUME NEW s \in Seq(Unit), WellFormed(s), 0 \notin ToSet(s), NEW room \in Nat
  PROVE  \E z \in Seq(Unit) :
           /\ UTF8ArrayToString(Encoded(s, room) \o << 0 >>) =
                ReadAs(Len(Encoded(s, room)), z)
           /\ IsPrefix(z, s)
           /\ 4 * Len(s) <= room => z = s
<1> DEFINE L == Len(s)
           out == Encoded(s, room)
           A == out \o <<0>>
           e == Len(out)
<1>0. L \in Nat /\ room \in Int /\ 0 \in Byte BY DEF Byte
<1>1. PICK f : Writes(f, s, room) /\ out = f[L].out BY <1>0, WriteLoop
<1>2. out \in Seq(Byte) BY EncodedFits
<1>3. \A k \in 1..Len(f[L].out) : f[L].out[k] # 0 BY <1>0, <1>1, WriteChars
<1> HIDE DEF out
<1>4. \A k \in 1..e : out[k] # 0 BY <1>1, <1>3
<1>5. UTF8ArrayToString(A) = ReadAs(e, Decoded(A, e)) BY <1>2, <1>4, UpToNul
<1>6. e \in Nat BY <1>2
<1>7. A \in Seq(Byte)
  <2>1. <<0>> \in Seq(Byte) BY <1>0
  <2> QED BY <2>1, <1>2, ConcatProperties
<1>8. PICK d : Reads(d, A, e) /\ Decoded(A, e) = d[e].out BY <1>6, <1>7, ReadLoop
<1>9. L \in 0..Len(s) BY <1>0
<1>10. d[L] = [n |-> Len(f[L].out) + 1, out |-> SubSeq(s, 1, f[L].i)]
  <2>1. \A n \in 0..Len(s) : d[n] = [n |-> Len(f[n].out) + 1,
                                     out |-> SubSeq(s, 1, f[n].i)]
    BY <1>0, <1>1, <1>2, <1>8, ReaderFollows
  <2> QED BY <2>1, <1>9
<1> DEFINE z == SubSeq(s, 1, f[L].i)
<1>11. d[L].n = e + 1 /\ d[L].out = z
  <2> HIDE DEF z
  <2>1. d[L] = [n |-> e + 1, out |-> z] BY <1>1, <1>10 DEF z
  <2> QED BY <2>1
<1>12. d[L] = d[e]
  <2>1. d[L].n > e BY <1>6, <1>11
  <2> QED BY <2>1, <1>0, <1>6, <1>7, <1>8, ReadEnds
<1>13. UTF8ArrayToString(A) = ReadAs(e, z) BY <1>5, <1>8, <1>11, <1>12
<1>14. /\ f[L].i <= L
       /\ f[L].cut \/ f[L].i = L \/ f[L].i >= L
  BY <1>0, <1>1, WriteBounds
<1>15. f[L].i \in Nat
  <2>1. f[L] \in WriteState BY <1>0, <1>1, WritesAt
  <2> QED BY <2>1, WriteStateParts
<1>16. IsPrefix(z, s) /\ z \in Seq(Unit)
  <2>1. /\ z \in Seq(Unit)
        /\ Len(z) = IF 1 <= f[L].i THEN f[L].i - 1 + 1 ELSE 0
        /\ \A k \in 1..(f[L].i - 1 + 1) : z[k] = s[1 + k - 1]
    <3>1. \A k \in 1..f[L].i : s[k] \in Unit BY <1>14, <1>15, <1>0
    <3>2. 1 \in Int /\ f[L].i \in Int BY <1>15
    <3> QED BY <3>1, <3>2, SubSeqProperties
  <2> HIDE DEF z, L
  <2>2. Len(z) = f[L].i /\ \A k \in 1..f[L].i : z[k] = s[k]
    <3>1. f[L].i - 1 + 1 = f[L].i /\ \A k \in 1..f[L].i : 1 + k - 1 = k BY <1>15
    <3> QED BY <2>1, <3>1, <1>15
  <2>3. Len(z) <= Len(s) BY <2>2, <1>14 DEF L
  <2>4. IsPrefix(z, s) BY <2>1, <2>2, <2>3, PrefixPoints
  <2> QED BY <2>1, <2>4
<1>17. ASSUME 4 * Len(s) <= room PROVE z = s
  <2>1. ~ f[L].cut BY <1>0, <1>1, <1>17, WriteNeverCut
  <2>2. f[L].i = L BY <2>1, <1>14, <1>15, <1>0
  <2> QED BY <2>2, SubSeqFull
<1> HIDE DEF z
<1> QED BY <1>13, <1>16, <1>17 DEF A, out

(* A beginning stays one without its mark, of the string without it.       *)
LEMMA PrefixMark ==
  ASSUME NEW s \in Seq(Unit), NEW z \in Seq(Unit), IsPrefix(z, s)
  PROVE  IsPrefix(WithoutMark(z), s) \/ IsPrefix(WithoutMark(z), WithoutMark(s))
<1>1. CASE ~ (z # <<>> /\ Head(z) = ByteOrderMark) BY <1>1 DEF WithoutMark
<1>2. CASE z # <<>> /\ Head(z) = ByteOrderMark
  <2>1. Len(z) \in Nat \ {0} /\ Len(s) \in Nat BY <1>2, EmptySeq
  <2>2. Len(z) <= Len(s) /\ \A k \in 1..Len(z) : z[k] = s[k] BY PrefixPoints
  <2>3. s # <<>> /\ Head(s) = ByteOrderMark
    <3>1. 1 \in 1..Len(z) /\ Len(s) # 0 BY <2>1, <2>2
    <3>2. Len(<<>>) = 0 OBVIOUS
    <3> QED BY <1>2, <2>2, <3>1, <3>2
  <2>4. WithoutMark(z) = Tail(z) /\ WithoutMark(s) = Tail(s)
    BY <1>2, <2>3 DEF WithoutMark
  <2>5. /\ Tail(z) \in Seq(Unit) /\ Len(Tail(z)) = Len(z) - 1
        /\ Tail(s) \in Seq(Unit) /\ Len(Tail(s)) = Len(s) - 1
        /\ \A k \in 1..(Len(z) - 1) : Tail(z)[k] = z[k + 1]
        /\ \A k \in 1..(Len(s) - 1) : Tail(s)[k] = s[k + 1]
    BY <1>2, <2>3, HeadTailProperties
  <2>6. \A k \in 1..(Len(z) - 1) : k \in 1..(Len(s) - 1) /\ k + 1 \in 1..Len(z)
    BY <2>1, <2>2
  <2>7. Len(z) - 1 <= Len(s) - 1 BY <2>1, <2>2
  <2>8. \A k \in 1..Len(Tail(z)) : Tail(z)[k] = Tail(s)[k] BY <2>2, <2>5, <2>6
  <2> QED BY <2>4, <2>5, <2>7, <2>8, PrefixPoints
<1> QED BY <1>1, <1>2

-----------------------------------------------------------------------------
(* FlattenSeq, one part after another. *)

Parts(fl, p) ==
  /\ fl[0] = <<>>
  /\ \A k \in Nat : k < Len(p) => fl[k + 1] = fl[k] \o p[k + 1]

FlattenSolves(h, p) ==
  h = [i \in 1..Len(p) |-> IF i = 1 THEN p[i] ELSE h[i - 1] \o p[i]]

LEMMA FlattenIsChosen ==
  ASSUME NEW p, Len(p) # 0
  PROVE  FlattenSeq(p) = (CHOOSE h : FlattenSolves(h, p))[Len(p)]
BY DEF FlattenSeq, FlattenSolves

LEMMA FlattenParts ==
  ASSUME NEW S, NEW p \in Seq(Seq(S))
  PROVE  \E fl \in [Nat -> Seq(S)] : Parts(fl, p) /\ FlattenSeq(p) = fl[Len(p)]
<1> DEFINE L == Len(p)
           V == [k : Nat, out : Seq(S)]
           v == [k |-> 0, out |-> <<>>]
           Following(x) == [k |-> x.k + 1, out |-> IF x.k < L THEN x.out \o p[x.k + 1] ELSE x.out]
           step == [x \in V |-> Following(x)]
<1>0. L \in Nat /\ \A k \in 1..L : p[k] \in Seq(S) OBVIOUS
<1>1. v \in V OBVIOUS
<1>2. ASSUME NEW x \in V PROVE step[x] \in V
  <2>1. x.k \in Nat /\ x.out \in Seq(S) OBVIOUS
  <2>2. x.k < L => x.out \o p[x.k + 1] \in Seq(S)
    <3>1. SUFFICES ASSUME x.k < L PROVE x.out \o p[x.k + 1] \in Seq(S) OBVIOUS
    <3>2. p[x.k + 1] \in Seq(S) BY <3>1, <2>1, <1>0
    <3> QED BY <3>2, <2>1, ConcatProperties
  <2>3. x.k + 1 \in Nat BY <2>1
  <2>4. Following(x) \in V BY <2>1, <2>2, <2>3
  <2> QED BY <2>4
<1>3. \E g \in [Nat -> V] : Iterates(g, v, step)
  <2> HIDE DEF V, v, step
  <2> QED BY <1>1, <1>2, RecursionOnNat
<1>4. PICK g \in [Nat -> V] : Iterates(g, v, step) BY <1>3
<1>5. g[0] = v /\ \A n \in Nat : g[n] \in V /\ g[n + 1] = Following(g[n])
  BY <1>4 DEF Iterates
<1>13. ASSUME NEW n \in Nat
       PROVE  /\ g[n + 1].k = g[n].k + 1
              /\ g[n + 1].out = IF g[n].k < L THEN g[n].out \o p[g[n].k + 1] ELSE g[n].out
  <2> DEFINE x == g[n]
             y == g[n + 1]
  <2>1. y = Following(x) BY <1>5
  <2> HIDE DEF x, y
  <2>2. /\ y.k = x.k + 1
        /\ y.out = IF x.k < L THEN x.out \o p[x.k + 1] ELSE x.out
    BY <2>1
  <2> QED BY <2>2 DEF x, y
<1>6. \A n \in Nat : g[n].k = n
  <2> DEFINE N == {n \in Nat : g[n].k = n}
  <2>1. 0 \in N BY <1>5
  <2>2. ASSUME NEW n \in Nat, n \in N PROVE n + 1 \in N
    <3>1. g[n + 1].k = g[n].k + 1 BY <1>13
    <3>2. n + 1 \in Nat /\ g[n].k = n BY <2>2
    <3>3. g[n + 1].k = n + 1 BY <3>1, <3>2, Zenon
    <3> QED BY <3>2, <3>3, Zenon
  <2>3. Nat \subseteq N
    <3> HIDE DEF N
    <3> QED BY <2>1, <2>2, InductionOnNat
  <2> QED BY <2>3
<1> DEFINE fl == [n \in Nat |-> g[n].out]
<1>7. fl \in [Nat -> Seq(S)]
  <2>1. \A n \in Nat : g[n].out \in Seq(S) BY <1>5
  <2> QED BY <2>1
<1>8. fl[0] = <<>> BY <1>5
<1>9. ASSUME NEW k \in Nat, k < L PROVE fl[k + 1] = fl[k] \o p[k + 1]
  <2>1. g[k + 1].out = IF g[k].k < L THEN g[k].out \o p[g[k].k + 1] ELSE g[k].out
    BY <1>13
  <2>2. g[k].k = k BY <1>6
  <2>3. g[k + 1].out = g[k].out \o p[k + 1] BY <2>1, <2>2, <1>9
  <2>4. fl[k + 1] = g[k + 1].out /\ fl[k] = g[k].out OBVIOUS
  <2> HIDE DEF fl
  <2> QED BY <2>3, <2>4
<1> HIDE DEF fl
<1>10. Parts(fl, p) BY <1>8, <1>9 DEF Parts
<1>11. CASE L = 0
  <2>1. p = <<>> BY <1>11
  <2>2. FlattenSeq(p) = p BY <1>11 DEF FlattenSeq
  <2> QED BY <2>1, <2>2, <1>7, <1>8, <1>10, <1>11
<1>12. CASE L # 0
  <2>1. FlattenSolves([i \in 1..L |-> fl[i]], p)
    <3> DEFINE q == [i \in 1..L |-> fl[i]]
    <3>1. ASSUME NEW i \in 1..L PROVE fl[i] = IF i = 1 THEN p[i] ELSE q[i - 1] \o p[i]
      <4>1. i - 1 \in Nat /\ i - 1 < L /\ (i - 1) + 1 = i BY <1>0
      <4>2. fl[i] = fl[i - 1] \o p[i] BY <4>1, <1>9
      <4>3. CASE i = 1
        <5>1. p[i] \in Seq(S) BY <1>0
        <5>2. <<>> \o p[i] = p[i] BY <5>1, ConcatEmptySeq
        <5>3. fl[i - 1] = <<>> BY <4>3, <1>8
        <5> QED BY <4>2, <4>3, <5>2, <5>3
      <4>4. CASE i # 1
        <5>1. i - 1 \in 1..L BY <4>4, <1>0
        <5> QED BY <4>2, <4>4, <5>1
      <4> QED BY <4>3, <4>4
    <3> QED BY <3>1 DEF FlattenSolves
  <2> DEFINE h == CHOOSE x : FlattenSolves(x, p)
  <2>2. FlattenSolves(h, p) BY <2>1
  <2>3. FlattenSeq(p) = h[L] BY <1>12, FlattenIsChosen
  <2> HIDE DEF h
  <2>4. \A i \in 1..L : h[i] = fl[i]
    <3> DEFINE N == {n \in Nat : n \in 1..L => h[n] = fl[n]}
    <3>1. 0 \in N OBVIOUS
    <3>2. ASSUME NEW n \in Nat, n \in N PROVE n + 1 \in N
      <4>0. n + 1 \in Nat OBVIOUS
      <4>1. SUFFICES ASSUME n + 1 \in 1..L PROVE h[n + 1] = fl[n + 1] BY <4>0, Zenon
      <4>2. n < L /\ (n + 1) - 1 = n BY <4>1, <1>0
      <4>3. h[n + 1] = IF n + 1 = 1 THEN p[n + 1] ELSE h[(n + 1) - 1] \o p[n + 1]
        BY <4>1, <2>2 DEF FlattenSolves
      <4>4. fl[n + 1] = fl[n] \o p[n + 1] BY <4>2, <1>9
      <4>5. CASE n = 0
        <5>1. p[n + 1] \in Seq(S) BY <4>1, <1>0
        <5>2. <<>> \o p[n + 1] = p[n + 1] BY <5>1, ConcatEmptySeq
        <5> QED BY <4>3, <4>4, <4>5, <5>2, <1>8
      <4>6. CASE n # 0
        <5>1. n \in 1..L BY <4>2, <4>6
        <5>2. h[n] = fl[n] BY <5>1, <3>2
        <5>4. ~ (n + 1 = 1) BY <4>6
        <5>3. h[n + 1] = h[(n + 1) - 1] \o p[n + 1] BY <4>3, <5>4, Zenon
        <5> QED BY <4>2, <4>4, <5>2, <5>3
      <4> QED BY <4>5, <4>6
    <3>3. Nat \subseteq N
      <4> HIDE DEF N
      <4> QED BY <3>1, <3>2, InductionOnNat
    <3> QED BY <3>3
  <2>5. L \in 1..L BY <1>0, <1>12
  <2> QED BY <2>3, <2>4, <2>5, <1>7, <1>10
<1> QED BY <1>11, <1>12

-----------------------------------------------------------------------------
(* Utf8Of. *)

Pieces(units) ==
  [k \in 1..Len(units) |->
    IF HighSurrogate(units[k])
    THEN RfcUtf8(65536 + (units[k] - 55296) * 1024 + units[k + 1] - 56320)
    ELSE IF LowSurrogate(units[k]) THEN <<>> ELSE RfcUtf8(units[k])]

LEMMA PieceCases ==
  ASSUME NEW s \in Seq(Unit), WellFormed(s), NEW k \in 1..Len(s)
  PROVE  /\ s[k] \in Code
         /\ ~ HighSurrogate(s[k]) /\ ~ LowSurrogate(s[k]) => Pieces(s)[k] = Utf8(s[k])
         /\ ~ HighSurrogate(s[k]) /\ LowSurrogate(s[k]) => Pieces(s)[k] = <<>>
         /\ HighSurrogate(s[k]) => /\ Pair(s[k], s[k + 1]) \in Code
                                   /\ Pieces(s)[k] = Utf8(Pair(s[k], s[k + 1]))
<1> DEFINE x == s[k]
           y == s[k + 1]
           v == 65536 + (x - 55296) * 1024 + y - 56320
<1>0. Unit \subseteq Code BY DEF Unit, Code
<1>1. x \in Unit /\ x \in Code BY <1>0
<1>2. Pieces(s)[k] = IF HighSurrogate(x) THEN RfcUtf8(v)
                     ELSE IF LowSurrogate(x) THEN <<>> ELSE RfcUtf8(x)
  BY DEF Pieces
<1>3. ASSUME HighSurrogate(x) PROVE Pair(x, y) \in Code /\ Pair(x, y) = v
  <2>1. k < Len(s) /\ LowSurrogate(y) BY <1>3 DEF WellFormed
  <2>2. y \in Unit BY <2>1
  <2> HIDE DEF x, y
  <2> QED BY <1>1, <1>3, <2>1, <2>2, PairUnits
<1> HIDE DEF v, x, y
<1>4. RfcUtf8(x) = Utf8(x) BY <1>1, RfcAgrees
<1>5. HighSurrogate(x) => RfcUtf8(v) = Utf8(Pair(x, y)) BY <1>3, RfcAgrees
<1>6. HighSurrogate(x) => Pair(x, y) \in Code BY <1>3
<1> QED BY <1>1, <1>2, <1>4, <1>5, <1>6, Zenon DEF x, y

LEMMA PiecesType ==
  ASSUME NEW s \in Seq(Unit), WellFormed(s)
  PROVE  Pieces(s) \in Seq(Seq(Byte)) /\ Len(Pieces(s)) = Len(s)
<1>0. Len(s) \in Nat OBVIOUS
<1> DEFINE p == Pieces(s)
<1>1. ASSUME NEW k \in 1..Len(s) PROVE p[k] \in Seq(Byte)
  <2>1. \/ s[k] \in Code /\ p[k] = Utf8(s[k])
        \/ p[k] = <<>>
        \/ Pair(s[k], s[k + 1]) \in Code /\ p[k] = Utf8(Pair(s[k], s[k + 1]))
    BY PieceCases, Zenon
  <2>2. <<>> \in Seq(Byte) OBVIOUS
  <2> HIDE DEF p
  <2>3. \A u \in Code : Utf8(u) \in Seq(Byte) BY Utf8Bytes
  <2> QED BY <2>1, <2>2, <2>3, Zenon
<1>2. p = [k \in 1..Len(s) |-> p[k]] BY DEF Pieces
<1> HIDE DEF p
<1>3. p \in [1..Len(s) -> Seq(Byte)] BY <1>1, <1>2
<1>4. p \in Seq(Seq(Byte)) /\ Len(p) = Len(s) BY <1>0, <1>3
<1> QED BY <1>4 DEF p

(* A whole character more. *)
LEMMA PieceTaken ==
  ASSUME NEW s \in Seq(Unit), WellFormed(s), NEW i \in Nat, i < Len(s), Boundary(s, i),
         NEW fl \in [Nat -> Seq(Byte)], Parts(fl, Pieces(s))
  PROVE  fl[Take(s, i).i] = fl[i] \o Utf8(Take(s, i).u)
<1> DEFINE x == s[i + 1]
           y == s[i + 2]
           t == Take(s, i)
           p == Pieces(s)
<1>0. /\ Len(s) \in Nat /\ i + 1 \in Nat /\ i + 1 \in 1..Len(s) /\ (i + 1) + 1 = i + 2
  OBVIOUS
<1>2. Len(p) = Len(s) BY PiecesType
<1>3. fl[i + 1] = fl[i] \o p[i + 1] BY <1>2 DEF Parts
<1>7. \/ /\ ~ HighSurrogate(x) /\ ~ LowSurrogate(x) /\ t = [u |-> x, i |-> i + 1]
      \/ /\ HighSurrogate(x) /\ i + 1 < Len(s) /\ LowSurrogate(y)
         /\ t = [u |-> Pair(x, y), i |-> i + 2]
  BY CharCases
<1>8. /\ ~ HighSurrogate(x) /\ ~ LowSurrogate(x) => p[i + 1] = Utf8(x)
      /\ HighSurrogate(x) => p[i + 1] = Utf8(Pair(x, y))
  BY <1>0, PieceCases
<1>9. i + 1 < Len(s) /\ LowSurrogate(y) => p[i + 2] = <<>> /\ fl[i + 2] = fl[i + 1]
  <2>1. SUFFICES ASSUME i + 1 < Len(s), LowSurrogate(y)
                 PROVE  p[i + 2] = <<>> /\ fl[i + 2] = fl[i + 1]
    OBVIOUS
  <2>2. i + 2 \in 1..Len(s) /\ y \in Unit
    <3> HIDE DEF p, t
    <3>1. i + 2 \in 1..Len(s) BY <1>0, <2>1
    <3> QED BY <3>1
  <2>3. ~ HighSurrogate(y)
    <3>1. y \in Nat BY <2>2 DEF Unit
    <3> HIDE DEF y
    <3> QED BY <3>1, <2>1 DEF HighSurrogate, LowSurrogate
  <2>4. p[i + 2] = <<>> BY <2>1, <2>2, <2>3, PieceCases, Zenon
  <2>5. i + 1 < Len(p) BY <2>1, <1>2
  <2> HIDE DEF p
  <2>6. fl[(i + 1) + 1] = fl[i + 1] \o p[(i + 1) + 1] BY <1>0, <2>5, Zenon DEF Parts, p
  <2>7. fl[i + 2] = fl[i + 1] \o <<>> BY <1>0, <2>4, <2>6
  <2>8. fl[i + 1] \in Seq(Byte) BY <1>0
  <2>9. fl[i + 1] \o <<>> = fl[i + 1] BY <2>8, ConcatEmptySeq
  <2> QED BY <2>4, <2>7, <2>9
<1> HIDE DEF p, t, x, y
<1>4. CASE ~ HighSurrogate(x) /\ ~ LowSurrogate(x) /\ t = [u |-> x, i |-> i + 1]
  <2>1. t.i = i + 1 /\ t.u = x BY <1>4
  <2>2. fl[t.i] = fl[i] \o Utf8(t.u) BY <1>3, <1>4, <1>8, <2>1, Zenon
  <2> QED BY <2>2 DEF t
<1>5. CASE /\ HighSurrogate(x) /\ i + 1 < Len(s) /\ LowSurrogate(y)
           /\ t = [u |-> Pair(x, y), i |-> i + 2]
  <2>1. t.i = i + 2 /\ t.u = Pair(x, y) BY <1>5
  <2>2. fl[t.i] = fl[i] \o Utf8(t.u) BY <1>3, <1>5, <1>8, <1>9, <2>1, Zenon
  <2> QED BY <2>2 DEF t
<1> QED BY <1>4, <1>5, <1>7

(* stringToUTF8Array writes the UTF-8 of a string. *)
LEMMA EncodedIsUtf8 ==
  ASSUME NEW s \in Seq(Unit), WellFormed(s), NEW room \in Nat, 4 * Len(s) <= room
  PROVE  Encoded(s, room) = Utf8Of(s)
<1>0. Len(s) \in Nat /\ room \in Int OBVIOUS
<1>1. PICK f : Writes(f, s, room) /\ Encoded(s, room) = f[Len(s)].out BY <1>0, WriteLoop
<1>2. Pieces(s) \in Seq(Seq(Byte)) /\ Len(Pieces(s)) = Len(s) BY PiecesType
<1>3. PICK fl \in [Nat -> Seq(Byte)] :
        Parts(fl, Pieces(s)) /\ FlattenSeq(Pieces(s)) = fl[Len(s)]
  BY <1>2, FlattenParts
<1>4. Utf8Of(s) = fl[Len(s)] BY <1>3 DEF Utf8Of, Pieces
<1> DEFINE N == {n \in Nat : f[n].out = fl[f[n].i]}
<1>5. 0 \in N
  <2>1. f[0].i = 0 /\ f[0].out = <<>> BY <1>1, WritesFrom
  <2>2. fl[0] = <<>> BY <1>3 DEF Parts
  <2> QED BY <2>1, <2>2
<1>6. ASSUME NEW n \in Nat, n \in N PROVE n + 1 \in N
  <2> DEFINE a == f[n]
             b == f[n + 1]
             t == Take(s, a.i)
             c == Utf8(t.u)
  <2>0. n + 1 \in Nat OBVIOUS
  <2>1. WriteStep(s, a, b) BY <1>0, <1>1, WriteSteps
  <2>2. a.out = fl[a.i] BY <1>6
  <2> HIDE DEF a, b
  <2>3. /\ a.i \in Nat /\ Boundary(s, a.i)
        /\ \/ b.i = a.i /\ b.out = a.out
           \/ a.i < Len(s) /\ b.i = t.i /\ b.out = a.out \o c
    BY <2>1, Zenon DEF WriteStep
  <2>4. a.i < Len(s) => fl[t.i] = fl[a.i] \o c BY <2>3, <1>3, PieceTaken
  <2> HIDE DEF t, c
  <2>5. b.out = fl[b.i] BY <2>2, <2>3, <2>4
  <2> QED BY <2>0, <2>5 DEF b
<1>7. Nat \subseteq N
  <2> HIDE DEF N
  <2> QED BY <1>5, <1>6, InductionOnNat
<1>8. f[Len(s)].i = Len(s)
  <2> DEFINE z == f[Len(s)]
  <2>1. z.i <= Len(s) /\ (z.cut \/ z.i = Len(s) \/ z.i >= Len(s))
    BY <1>0, <1>1, WriteBounds
  <2>2. ~ z.cut BY <1>0, <1>1, WriteNeverCut
  <2>3. z \in WriteState BY <1>0, <1>1, WritesAt
  <2> HIDE DEF z
  <2>4. z.i \in Nat BY <2>3, WriteStateParts
  <2>5. z.i = Len(s) \/ z.i >= Len(s) BY <2>1, <2>2
  <2>7. z.i <= Len(s) BY <2>1, Zenon
  <2>8. \A x, y \in Nat : x <= y /\ (x = y \/ x >= y) => x = y OBVIOUS
  <2>6. z.i = Len(s) BY <2>4, <2>5, <2>7, <2>8, <1>0, Zenon
  <2> QED BY <2>6 DEF z
<1>9. f[Len(s)].out = fl[f[Len(s)].i] BY <1>0, <1>7
<1> QED BY <1>1, <1>4, <1>8, <1>9

-----------------------------------------------------------------------------
(* str2rstr_utf8. *)

TurnState == [i : Nat, out : Seq(Byte)]
TurnStart == [i |-> 0, out |-> <<>>]

LEMMA TurnStateParts ==
  ASSUME NEW a \in TurnState
  PROVE  a.i \in Nat /\ a.out \in Seq(Byte) /\ a = [i |-> a.i, out |-> a.out]
BY DEF TurnState

LEMMA TurnType ==
  ASSUME NEW s \in Seq(Unit), NEW a \in TurnState
  PROVE  Utf8Turn(s, a) \in TurnState
<1> DEFINE x == s[a.i + 1]
           y == s[a.i + 2]
           b == Utf8Turn(s, a)
<1>0. a.i \in Nat /\ a.out \in Seq(Byte) BY TurnStateParts
<1>1. CASE a.i >= Len(s) BY <1>1 DEF Utf8Turn
<1>2. CASE ~ (a.i >= Len(s))
  <2>1. x \in Unit /\ Unit \subseteq Code
    <3>1. a.i + 1 \in 1..Len(s) BY <1>0, <1>2
    <3> QED BY <3>1 DEF Unit, Code
  <2>2. CASE a.i + 1 < Len(s) /\ HighSurrogate(x) /\ LowSurrogate(y)
    <3>1. b = [i |-> a.i + 2, out |-> a.out \o Utf8(Pair(x, y))]
      BY <1>2, <2>2, Zenon DEF Utf8Turn
    <3>2. y \in Unit
      <4>1. a.i + 2 \in 1..Len(s) BY <1>0, <2>2
      <4> QED BY <4>1
    <3> HIDE DEF x, y, b
    <3>3. Pair(x, y) \in Code BY <2>1, <2>2, <3>2, PairUnits
    <3>4. Utf8(Pair(x, y)) \in Seq(Byte) BY <3>3, Utf8Bytes
    <3>5. a.out \o Utf8(Pair(x, y)) \in Seq(Byte) /\ a.i + 2 \in Nat
      BY <1>0, <3>4, ConcatProperties
    <3>6. b \in TurnState BY <3>1, <3>5, Zenon DEF TurnState
    <3> QED BY <3>6 DEF b
  <2>3. CASE ~ (a.i + 1 < Len(s) /\ HighSurrogate(x) /\ LowSurrogate(y))
    <3>1. b = [i |-> a.i + 1, out |-> a.out \o Utf8(x)]
      BY <1>2, <2>3, Zenon DEF Utf8Turn
    <3> HIDE DEF x, y, b
    <3>4. Utf8(x) \in Seq(Byte) BY <2>1, Utf8Bytes
    <3>5. a.out \o Utf8(x) \in Seq(Byte) /\ a.i + 1 \in Nat
      BY <1>0, <3>4, ConcatProperties
    <3>6. b \in TurnState BY <3>1, <3>5, Zenon DEF TurnState
    <3> QED BY <3>6 DEF b
  <2> QED BY <2>2, <2>3
<1> QED BY <1>1, <1>2

Turns(f, s) ==
  /\ f[0] = TurnStart
  /\ \A n \in Nat : f[n] \in TurnState /\ f[n + 1] = Utf8Turn(s, f[n])

TurnSolves(f, s) ==
  f = [n \in Nat |-> IF n = 0 THEN [i |-> 0, out |-> <<>>] ELSE Utf8Turn(s, f[n - 1])]

LEMMA RstrIsChosen ==
  ASSUME NEW s
  PROVE  str2rstr_utf8(s) = (CHOOSE f : TurnSolves(f, s))[Len(s)].out
BY DEF str2rstr_utf8, TurnSolves

LEMMA TurnLoop ==
  ASSUME NEW s \in Seq(Unit)
  PROVE  \E f : Turns(f, s) /\ str2rstr_utf8(s) = f[Len(s)].out
<1> DEFINE step == [a \in TurnState |-> Utf8Turn(s, a)]
<1>1. TurnStart \in TurnState BY DEF TurnStart, TurnState
<1>2. \A a \in TurnState : step[a] \in TurnState BY TurnType
<1>3. \E f \in [Nat -> TurnState] : Iterates(f, TurnStart, step)
  <2> HIDE DEF step
  <2> QED BY <1>1, <1>2, RecursionOnNat
<1>4. PICK g \in [Nat -> TurnState] : Iterates(g, TurnStart, step) BY <1>3
<1>5. g[0] = TurnStart /\ \A n \in Nat : g[n + 1] = Utf8Turn(s, g[n])
  BY <1>4 DEF Iterates
<1>6. TurnSolves(g, s)
  <2>1. ASSUME NEW n \in Nat
        PROVE  g[n] = IF n = 0 THEN TurnStart ELSE Utf8Turn(s, g[n - 1])
    <3>1. CASE n # 0
      <4>1. n - 1 \in Nat /\ (n - 1) + 1 = n BY <3>1
      <4> QED BY <3>1, <4>1, <1>5
    <3> QED BY <3>1, <1>5
  <2>2. g = [n \in Nat |-> g[n]] BY <1>4
  <2> QED BY <2>1, <2>2 DEF TurnSolves, TurnStart
<1> DEFINE f == CHOOSE h : TurnSolves(h, s)
<1>7. TurnSolves(f, s) BY <1>6
<1>8. str2rstr_utf8(s) = f[Len(s)].out BY RstrIsChosen
<1> HIDE DEF f
<1>9. f[0] = TurnStart /\ \A n \in Nat : f[n + 1] = Utf8Turn(s, f[n])
  <2>1. f[0] = TurnStart BY <1>7 DEF TurnSolves, TurnStart
  <2>2. ASSUME NEW n \in Nat PROVE f[n + 1] = Utf8Turn(s, f[n])
    <3>1. n + 1 \in Nat /\ n + 1 # 0 /\ (n + 1) - 1 = n OBVIOUS
    <3> QED BY <3>1, <1>7 DEF TurnSolves
  <2> QED BY <2>1, <2>2
<1>10. \A n \in Nat : f[n] \in TurnState
  <2> DEFINE N == {n \in Nat : f[n] \in TurnState}
  <2>1. 0 \in N BY <1>1, <1>9
  <2>2. ASSUME NEW n \in Nat, n \in N PROVE n + 1 \in N
    <3>1. Utf8Turn(s, f[n]) \in TurnState BY <2>2, TurnType
    <3>2. f[n + 1] \in TurnState BY <3>1, <1>9
    <3> QED BY <3>2
  <2>3. Nat \subseteq N
    <3> HIDE DEF N
    <3> QED BY <2>1, <2>2, InductionOnNat
  <2> QED BY <2>3
<1>11. Turns(f, s) BY <1>9, <1>10 DEF Turns
<1> QED BY <1>8, <1>11

(* The password is turned into its UTF-8. *)
LEMMA RstrIsUtf8 ==
  ASSUME NEW s \in Seq(Unit), WellFormed(s)
  PROVE  str2rstr_utf8(s) = Utf8Of(s)
<1>0. Len(s) \in Nat OBVIOUS
<1>1. PICK f : Turns(f, s) /\ str2rstr_utf8(s) = f[Len(s)].out BY TurnLoop
<1>2. Pieces(s) \in Seq(Seq(Byte)) /\ Len(Pieces(s)) = Len(s) BY PiecesType
<1>3. PICK fl \in [Nat -> Seq(Byte)] :
        Parts(fl, Pieces(s)) /\ FlattenSeq(Pieces(s)) = fl[Len(s)]
  BY <1>2, FlattenParts
<1>4. Utf8Of(s) = fl[Len(s)] BY <1>3 DEF Utf8Of, Pieces
<1> DEFINE N == {n \in Nat : /\ f[n].out = fl[f[n].i] /\ Boundary(s, f[n].i)
                             /\ f[n].i <= Len(s)
                             /\ f[n].i = Len(s) \/ f[n].i >= n}
<1>5. 0 \in N
  <2>1. f[0].i = 0 /\ f[0].out = <<>> BY <1>1 DEF Turns, TurnStart
  <2>2. fl[0] = <<>> BY <1>3 DEF Parts
  <2>3. Boundary(s, 0)
    <3>1. SUFFICES ASSUME 0 < Len(s), LowSurrogate(s[0 + 1]) PROVE FALSE
      BY DEF Boundary
    <3>2. 1 \in 1..Len(s) /\ ~ (1 > 1) BY <1>0, <3>1
    <3> QED BY <3>1, <3>2 DEF WellFormed
  <2> QED BY <2>1, <2>2, <2>3, <1>0
<1>6. ASSUME NEW n \in Nat, n \in N PROVE n + 1 \in N
  <2> DEFINE a == f[n]
             b == f[n + 1]
             t == Take(s, a.i)
             c == Utf8(t.u)
             x == s[a.i + 1]
             y == s[a.i + 2]
  <2>0. n + 1 \in Nat OBVIOUS
  <2>1. a \in TurnState /\ b = Utf8Turn(s, a) BY <1>1 DEF Turns
  <2>2. a.out = fl[a.i] /\ Boundary(s, a.i) /\ a.i <= Len(s) /\ (a.i = Len(s) \/ a.i >= n)
    BY <1>6
  <2>3. a.i \in Nat BY <2>1, TurnStateParts
  <2> HIDE DEF a, b
  <2>4. CASE a.i >= Len(s)
    <3>1. b = a BY <2>1, <2>4 DEF Utf8Turn
    <3>2. a.i = Len(s) BY <2>2, <2>3, <2>4, <1>0
    <3> QED BY <2>0, <2>2, <3>1, <3>2, Zenon DEF b
  <2>5. CASE a.i < Len(s)
    <3>1. \/ /\ ~ HighSurrogate(x) /\ ~ LowSurrogate(x) /\ t = [u |-> x, i |-> a.i + 1]
          \/ /\ HighSurrogate(x) /\ a.i + 1 < Len(s) /\ LowSurrogate(y)
             /\ t = [u |-> Pair(x, y), i |-> a.i + 2]
      BY <2>2, <2>3, <2>5, CharCases
    <3>2. fl[t.i] = fl[a.i] \o c BY <2>2, <2>3, <2>5, <1>3, PieceTaken
    <3>3. Boundary(s, t.i) BY <2>2, <2>3, <2>5, CharUnits
    <3>4. ~ (a.i >= Len(s)) BY <2>3, <2>5, <1>0
    <3> HIDE DEF t, x, y
    <3>5. b.i = t.i /\ b.out = a.out \o c /\ b.i \in {a.i + 1, a.i + 2}
      <4>1. CASE ~ HighSurrogate(x) /\ ~ LowSurrogate(x) /\ t = [u |-> x, i |-> a.i + 1]
        <5>1. b = [i |-> a.i + 1, out |-> a.out \o Utf8(x)]
          BY <2>1, <3>4, <4>1, Zenon DEF Utf8Turn, x
        <5>2. t.i = a.i + 1 /\ t.u = x BY <4>1
        <5>3. b.i = a.i + 1 /\ b.out = a.out \o Utf8(x) BY <5>1
        <5> QED BY <5>2, <5>3
      <4>2. CASE /\ HighSurrogate(x) /\ a.i + 1 < Len(s) /\ LowSurrogate(y)
                 /\ t = [u |-> Pair(x, y), i |-> a.i + 2]
        <5>1. b = [i |-> a.i + 2, out |-> a.out \o Utf8(Pair(x, y))]
          BY <2>1, <3>4, <4>2, Zenon DEF Utf8Turn, x, y
        <5>2. t.i = a.i + 2 /\ t.u = Pair(x, y) BY <4>2
        <5>3. b.i = a.i + 2 /\ b.out = a.out \o Utf8(Pair(x, y)) BY <5>1
        <5> QED BY <5>2, <5>3
      <4> QED BY <3>1, <4>1, <4>2
    <3>6. t.i <= Len(s) BY <2>3, <2>5, TakeProperties DEF t
    <3>7. b.i <= Len(s) /\ b.i >= n + 1
      <4>1. b.i <= Len(s) BY <3>5, <3>6
      <4>2. a.i >= n BY <2>2, <2>3, <2>5, <1>0
      <4>3. b.i \in {a.i + 1, a.i + 2} BY <3>5
      <4>4. \A k \in Nat : k >= n => k + 1 >= n + 1 /\ k + 2 >= n + 1 OBVIOUS
      <4>5. b.i >= n + 1 BY <4>2, <4>3, <4>4, <2>3
      <4> QED BY <4>1, <4>5
    <3> HIDE DEF c
    <3>8. b.out = fl[b.i] /\ Boundary(s, b.i) BY <2>2, <3>2, <3>3, <3>5, Zenon
    <3> QED BY <2>0, <3>7, <3>8, Zenon DEF b
  <2>6. a.i >= Len(s) \/ a.i < Len(s) BY <2>3, <1>0
  <2> QED BY <2>4, <2>5, <2>6, Zenon
<1>7. Nat \subseteq N
  <2> HIDE DEF N
  <2> QED BY <1>5, <1>6, InductionOnNat
<1> DEFINE z == f[Len(s)]
<1>8. /\ z.out = fl[z.i] /\ z.i <= Len(s) /\ (z.i = Len(s) \/ z.i >= Len(s))
      /\ z \in TurnState
  <2>1. Len(s) \in N BY <1>0, <1>7
  <2>2. z \in TurnState BY <1>0, <1>1 DEF Turns
  <2> QED BY <2>1, <2>2
<1> HIDE DEF z
<1>9. z.i = Len(s)
  <2>1. z.i \in Nat BY <1>8, TurnStateParts
  <2>2. \A x, y \in Nat : x <= y /\ (x = y \/ x >= y) => x = y OBVIOUS
  <2> QED BY <2>1, <2>2, <1>0, <1>8, Zenon
<1> QED BY <1>1, <1>4, <1>8, <1>9 DEF z

-----------------------------------------------------------------------------
(* Every string that the program is given. *)

StringTypes == raw \in Seq(Byte) /\ str \in Seq(Unit)

LEMMA AllStrings == StringSpec => []StringTypes
<1>1. StringInit => StringTypes
  <2> SUFFICES ASSUME StringInit PROVE StringTypes OBVIOUS
  <2>1. str \in Seq(Nat) /\ \A k \in 1..Len(str) : str[k] <= 65535
    BY StringAssumption DEF StringInit
  <2>2. str \in [1..Len(str) -> Unit] BY <2>1 DEF Unit
  <2>3. str \in Seq(Unit) BY <2>1, <2>2
  <2> QED BY <2>3 DEF StringInit, StringTypes
<1>2. StringTypes /\ [Grow]_strings => StringTypes'
  <2> SUFFICES ASSUME StringTypes, [Grow]_strings PROVE StringTypes' OBVIOUS
  <2>1. CASE \E b \in Bytes : raw' = Append(raw, b) /\ UNCHANGED str
    <3>1. PICK b \in Bytes : raw' = Append(raw, b) /\ UNCHANGED str BY <2>1
    <3>2. b \in Byte BY StringAssumption DEF Byte
    <3> QED BY <3>1, <3>2, AppendProperties DEF StringTypes
  <2>2. CASE \E u \in CodeUnits : str' = Append(str, u) /\ UNCHANGED raw
    <3>1. PICK u \in CodeUnits : str' = Append(str, u) /\ UNCHANGED raw BY <2>2
    <3>2. u \in Unit BY StringAssumption DEF Unit
    <3> QED BY <3>1, <3>2, AppendProperties DEF StringTypes
  <2>3. CASE UNCHANGED strings BY <2>3 DEF strings, StringTypes
  <2> QED BY <2>1, <2>2, <2>3 DEF Grow
<1> QED BY <1>1, <1>2, PTL DEF StringSpec

LEMMA CutsOf == ASSUME str \in Seq(Unit) PROVE CutsAreClean
<1>0. Len(str) \in Nat OBVIOUS
<1>1. ASSUME NEW max \in 1..(4 * Len(str) + 1), WellFormed(str), 0 \notin ToSet(str)
      PROVE  LET out == stringToUTF8Array(str, max)
                 read == UTF8ArrayToString(out)
             IN IsPrefix(read, str) \/ (Len(out) > 17 /\ IsPrefix(read, WithoutMark(str)))
  <2>1. max \in Nat \ {0} /\ max - 1 \in Nat BY <1>0
  <2>2. stringToUTF8Array(str, max) = Encoded(str, max - 1) \o <<0>>
    BY <2>1, BufferHolds
  <2> DEFINE e == Encoded(str, max - 1)
  <2>3. PICK z \in Seq(Unit) :
          UTF8ArrayToString(e \o <<0>>) = ReadAs(Len(e), z) /\ IsPrefix(z, str)
    BY <1>1, <2>1, ReadBack
  <2>4. e \in Seq(Byte) BY <2>1, EncodedFits
  <2> HIDE DEF e
  <2>5. Len(e \o <<0>>) = Len(e) + 1 /\ Len(e) \in Nat
    <3>1. <<0>> \in Seq(Byte) /\ Len(<<0>>) = 1 BY DEF Byte
    <3> QED BY <2>4, <3>1, ConcatProperties
  <2>6. CASE Len(e) > 16
    <3>1. Len(e \o <<0>>) > 17 BY <2>5, <2>6
    <3>2. UTF8ArrayToString(e \o <<0>>) = WithoutMark(z) BY <2>3, <2>6 DEF ReadAs
    <3> QED BY <2>2, <2>3, <3>1, <3>2, PrefixMark DEF e
  <2>7. CASE ~ (Len(e) > 16)
    <3>1. UTF8ArrayToString(e \o <<0>>) = z BY <2>3, <2>7 DEF ReadAs
    <3> QED BY <2>2, <2>3, <3>1 DEF e
  <2> QED BY <2>6, <2>7
<1>2. /\ stringToUTF8Array(str, 4 * Len(str) + 1) = stringToUTF8Array(str, 8 * Len(str) + 8)
      /\ \A max \in 1..(4 * Len(str) + 1) :
           LET out == stringToUTF8Array(str, max)
           IN /\ Len(out) <= max /\ Last(out) = 0
              /\ IsPrefix(Front(out), Encoded(str, 4 * Len(str)))
  BY BuffersAreCut
<1> QED BY <1>1, <1>2, Zenon DEF CutsAreClean

(* stringToUTF8Array never writes past the room that it is given, ends     *)
(* with a NUL and cuts between two characters, and the bytes that ccall    *)
(* allots are enough for every string of a page.                           *)
THEOREM AllCutsAreClean == StringSpec => []CutsAreClean
<1>1. StringTypes => CutsAreClean BY CutsOf DEF StringTypes
<1> QED BY <1>1, AllStrings, PTL

LEMMA AgreementOf == ASSUME str \in Seq(Unit) PROVE Utf8Agrees
<1>0. Len(str) \in Nat OBVIOUS
<1> SUFFICES ASSUME WellFormed(str)
             PROVE  /\ str2rstr_utf8(str) = Utf8Of(str)
                    /\ stringToUTF8Array(str, 4 * Len(str) + 1) = Utf8Of(str) \o <<0>>
                    /\ 0 \notin ToSet(str) =>
                         UTF8ArrayToString(Utf8Of(str) \o <<0>>) =
                           IF Len(Utf8Of(str)) > 16 THEN WithoutMark(str) ELSE str
  BY Zenon DEF Utf8Agrees
<1> DEFINE n == 4 * Len(str)
<1>1. n \in Nat /\ n + 1 \in Nat \ {0} /\ (n + 1) - 1 = n /\ 4 * Len(str) <= n BY <1>0
<1>2. str2rstr_utf8(str) = Utf8Of(str) BY RstrIsUtf8
<1>3. Encoded(str, n) = Utf8Of(str) BY <1>1, EncodedIsUtf8
<1>4. 0 \notin ToSet(str) =>
        UTF8ArrayToString(Encoded(str, n) \o <<0>>) = ReadAs(Len(Encoded(str, n)), str)
  BY <1>1, ReadBack
<1>5. stringToUTF8Array(str, n + 1) = Encoded(str, n) \o <<0>>
  <2> HIDE DEF n
  <2>1. stringToUTF8Array(str, n + 1) = Encoded(str, (n + 1) - 1) \o <<0>>
    BY <1>1, BufferHolds, Zenon
  <2> QED BY <2>1, <1>1
<1> QED BY <1>2, <1>3, <1>4, <1>5, Zenon DEF ReadAs

(* The password that sha1.js hashes and the string that a.out.js passes to *)
(* the decoder are the same UTF-8, RFC 3629's, and a.out.js reads back     *)
(* what it wrote, but for the byte order mark that TextDecoder leaves out. *)
THEOREM Utf8AlwaysAgrees == StringSpec => []Utf8Agrees
<1>1. StringTypes => Utf8Agrees BY AgreementOf DEF StringTypes
<1> QED BY <1>1, AllStrings, PTL

-----------------------------------------------------------------------------
(* Base 64. *)

(* The byte after the first i, as the encoders read it. *)
ByteAfter(r, i) == IF i < Len(r) THEN r[i + 1] ELSE 0

BitOf(r, k) == IF k <= Len(Bits(r)) THEN Bits(r)[k] ELSE 0

(* Digit n of the encoding, from the three bytes that it is cut from. *)
Digit(r, n) ==
  LET i == 3 * ((n - 1) \div 4)
      j == (n - 1) % 4
      b == ByteAfter(r, i)
      c == ByteAfter(r, i + 1)
      d == ByteAfter(r, i + 2)
  IN IF j = 0 THEN b \div 4
     ELSE IF j = 1 THEN 16 * (b % 4) + (c \div 16)
     ELSE IF j = 2 THEN 4 * (c % 16) + (d \div 64)
     ELSE d % 64

LEMMA BytesAfter ==
  ASSUME NEW r \in Seq(Byte), NEW i \in Nat
  PROVE  ByteAfter(r, i) \in Byte
<1>1. Len(r) \in Nat /\ 0 \in Byte BY DEF Byte
<1>2. i < Len(r) => i + 1 \in 1..Len(r) BY <1>1
<1> QED BY <1>1, <1>2 DEF ByteAfter

(* The bits of a byte, put together again. *)
LEMMA BitsOfByte ==
  ASSUME NEW b \in Byte
  PROVE  LET x == ByteBits(b)
         IN /\ 32*x[1] + 16*x[2] + 8*x[3] + 4*x[4] + 2*x[5] + x[6] = b \div 4
            /\ 2*x[7] + x[8] = b % 4
            /\ 8*x[1] + 4*x[2] + 2*x[3] + x[4] = b \div 16
            /\ 8*x[5] + 4*x[6] + 2*x[7] + x[8] = b % 16
            /\ 2*x[1] + x[2] = b \div 64
            /\ 32*x[3] + 16*x[4] + 8*x[5] + 4*x[6] + 2*x[7] + x[8] = b % 64
            /\ \A k \in 1..8 : x[k] \in Nat
<1>0. b \in Nat /\ b <= 255 BY DEF Byte
<1> DEFINE h1 == b \div 2
           h2 == b \div 4
           h3 == b \div 8
           h4 == b \div 16
           h5 == b \div 32
           h6 == b \div 64
           h7 == b \div 128
           x == ByteBits(b)
<1>1. x = <<h7, h6 % 2, h5 % 2, h4 % 2, h3 % 2, h2 % 2, h1 % 2, b % 2>> BY DEF ByteBits
<1>2. /\ h1 \in Nat /\ h2 \in Nat /\ h3 \in Nat /\ h4 \in Nat /\ h5 \in Nat /\ h6 \in Nat
      /\ h7 \in Nat
  BY <1>0
<1>3. /\ b % 2 = b - 2 * h1 /\ h1 % 2 = h1 - 2 * h2 /\ h2 % 2 = h2 - 2 * h3
      /\ h3 % 2 = h3 - 2 * h4 /\ h4 % 2 = h4 - 2 * h5 /\ h5 % 2 = h5 - 2 * h6
      /\ h6 % 2 = h6 - 2 * h7
  BY <1>0
<1>4. b % 4 = b - 4 * h2 /\ b % 16 = b - 16 * h4 /\ b % 64 = b - 64 * h6 BY <1>0
<1>5. /\ b % 2 \in Nat /\ h1 % 2 \in Nat /\ h2 % 2 \in Nat /\ h3 % 2 \in Nat
      /\ h4 % 2 \in Nat /\ h5 % 2 \in Nat /\ h6 % 2 \in Nat
  BY <1>2, <1>0
<1> HIDE DEF h1, h2, h3, h4, h5, h6, h7, x
<1>6. /\ x[1] = h7 /\ x[2] = h6 - 2 * h7 /\ x[3] = h5 - 2 * h6 /\ x[4] = h4 - 2 * h5
      /\ x[5] = h3 - 2 * h4 /\ x[6] = h2 - 2 * h3 /\ x[7] = h1 - 2 * h2 /\ x[8] = b - 2 * h1
  BY <1>1, <1>3
<1>7. \A k \in 1..8 : x[k] \in Nat
  <2>1. /\ x[1] \in Nat /\ x[2] \in Nat /\ x[3] \in Nat /\ x[4] \in Nat
        /\ x[5] \in Nat /\ x[6] \in Nat /\ x[7] \in Nat /\ x[8] \in Nat
    BY <1>1, <1>2, <1>5
  <2>2. \A k \in 1..8 : k = 1 \/ k = 2 \/ k = 3 \/ k = 4 \/ k = 5 \/ k = 6 \/ k = 7 \/ k = 8
    OBVIOUS
  <2> QED BY <2>1, <2>2
<1>8. /\ 32*x[1] + 16*x[2] + 8*x[3] + 4*x[4] + 2*x[5] + x[6] = h2
      /\ 2*x[7] + x[8] = b - 4 * h2
      /\ 8*x[1] + 4*x[2] + 2*x[3] + x[4] = h4
      /\ 8*x[5] + 4*x[6] + 2*x[7] + x[8] = b - 16 * h4
      /\ 2*x[1] + x[2] = h6
      /\ 32*x[3] + 16*x[4] + 8*x[5] + 4*x[6] + 2*x[7] + x[8] = b - 64 * h6
  BY <1>6, <1>2, <1>0
<1> QED BY <1>4, <1>7, <1>8 DEF h2, h4, h6, x

LEMMA BitIs ==
  ASSUME NEW r \in Seq(Byte), NEW i \in Nat, NEW c \in 1..8
  PROVE  BitOf(r, 8 * i + c) = ByteBits(ByteAfter(r, i))[c]
<1>0. Len(r) \in Nat OBVIOUS
<1>1. Len(Bits(r)) = 8 * Len(r) BY <1>0 DEF Bits
<1>2. CASE i < Len(r)
  <2>1. 8 * i + c \in 1..(8 * Len(r)) BY <1>0, <1>2
  <2>2. (8 * i + c + 7) \div 8 = i + 1 /\ ((8 * i + c - 1) % 8) + 1 = c OBVIOUS
  <2>3. Bits(r)[8 * i + c] = ByteBits(r[(8 * i + c + 7) \div 8])[((8 * i + c - 1) % 8) + 1]
    BY <2>1 DEF Bits
  <2>4. Bits(r)[8 * i + c] = ByteBits(r[i + 1])[c] BY <2>2, <2>3
  <2>5. 8 * i + c <= Len(Bits(r)) BY <1>1, <2>1
  <2> QED BY <1>2, <2>4, <2>5, Zenon DEF BitOf, ByteAfter
<1>3. CASE ~ (i < Len(r))
  <2>1. ~ (8 * i + c <= Len(Bits(r))) BY <1>0, <1>1, <1>3
  <2>2. ByteAfter(r, i) = 0 /\ BitOf(r, 8 * i + c) = 0 BY <1>3, <2>1, Zenon DEF BitOf, ByteAfter
  <2>3. ByteBits(0) = <<0, 0, 0, 0, 0, 0, 0, 0>> BY DEF ByteBits
  <2>4. <<0, 0, 0, 0, 0, 0, 0, 0>>[c] = 0 OBVIOUS
  <2> QED BY <2>2, <2>3, <2>4
<1> QED BY <1>2, <1>3

(* Six bits in a row are a digit. *)
LEMMA SixBits ==
  ASSUME NEW r \in Seq(Byte), NEW n \in Nat \ {0}
  PROVE  32 * BitOf(r, 6*n - 5) + 16 * BitOf(r, 6*n - 4) + 8 * BitOf(r, 6*n - 3)
           + 4 * BitOf(r, 6*n - 2) + 2 * BitOf(r, 6*n - 1) + BitOf(r, 6*n) = Digit(r, n)
<1> DEFINE m == (n - 1) \div 4
           j == (n - 1) % 4
           i == 3 * m
           b == ByteAfter(r, i)
           c == ByteAfter(r, i + 1)
           d == ByteAfter(r, i + 2)
           x == ByteBits(b)
           y == ByteBits(c)
           z == ByteBits(d)
<1>0. m \in Nat /\ j \in 0..3 /\ n = 4 * m + j + 1 OBVIOUS
<1>1. i \in Nat /\ i + 1 \in Nat /\ i + 2 \in Nat BY <1>0
<1>2. b \in Byte /\ c \in Byte /\ d \in Byte
  <2> HIDE DEF i
  <2> QED BY <1>1, BytesAfter
<1>3. \A k \in 1..8 : /\ BitOf(r, 8 * i + k) = x[k]
                      /\ BitOf(r, 8 * (i + 1) + k) = y[k]
                      /\ BitOf(r, 8 * (i + 2) + k) = z[k]
  <2> HIDE DEF i
  <2> QED BY <1>1, BitIs
<1>4. Digit(r, n) = IF j = 0 THEN b \div 4
                    ELSE IF j = 1 THEN 16 * (b % 4) + (c \div 16)
                    ELSE IF j = 2 THEN 4 * (c % 16) + (d \div 64)
                    ELSE d % 64
  BY DEF Digit
<1> HIDE DEF b, c, d, x, y, z
<1>5. /\ 32*x[1] + 16*x[2] + 8*x[3] + 4*x[4] + 2*x[5] + x[6] = b \div 4
      /\ 2*x[7] + x[8] = b % 4 /\ \A k \in 1..8 : x[k] \in Nat
  BY <1>2, BitsOfByte DEF x
<1>6. /\ 8*y[1] + 4*y[2] + 2*y[3] + y[4] = c \div 16
      /\ 8*y[5] + 4*y[6] + 2*y[7] + y[8] = c % 16 /\ \A k \in 1..8 : y[k] \in Nat
  BY <1>2, BitsOfByte DEF y
<1>7. /\ 2*z[1] + z[2] = d \div 64
      /\ 32*z[3] + 16*z[4] + 8*z[5] + 4*z[6] + 2*z[7] + z[8] = d % 64
      /\ \A k \in 1..8 : z[k] \in Nat
  BY <1>2, BitsOfByte DEF z
<1>8. CASE j = 0
  <2>1. /\ 6*n - 5 = 8 * i + 1 /\ 6*n - 4 = 8 * i + 2 /\ 6*n - 3 = 8 * i + 3
        /\ 6*n - 2 = 8 * i + 4 /\ 6*n - 1 = 8 * i + 5 /\ 6*n = 8 * i + 6
    BY <1>0, <1>8
  <2> HIDE DEF i, j
  <2>2. {1, 2, 3, 4, 5, 6} \subseteq 1..8 OBVIOUS
  <2>3. /\ BitOf(r, 6*n - 5) = x[1] /\ BitOf(r, 6*n - 4) = x[2] /\ BitOf(r, 6*n - 3) = x[3]
        /\ BitOf(r, 6*n - 2) = x[4] /\ BitOf(r, 6*n - 1) = x[5] /\ BitOf(r, 6*n) = x[6]
    BY <2>1, <2>2, <1>3
  <2> QED BY <2>3, <1>4, <1>5, <1>8
<1>9. CASE j = 1
  <2>1. /\ 6*n - 5 = 8 * i + 7 /\ 6*n - 4 = 8 * i + 8 /\ 6*n - 3 = 8 * (i + 1) + 1
        /\ 6*n - 2 = 8 * (i + 1) + 2 /\ 6*n - 1 = 8 * (i + 1) + 3 /\ 6*n = 8 * (i + 1) + 4
    BY <1>0, <1>9
  <2> HIDE DEF i, j
  <2>2. {1, 2, 3, 4, 7, 8} \subseteq 1..8 OBVIOUS
  <2>3. /\ BitOf(r, 6*n - 5) = x[7] /\ BitOf(r, 6*n - 4) = x[8] /\ BitOf(r, 6*n - 3) = y[1]
        /\ BitOf(r, 6*n - 2) = y[2] /\ BitOf(r, 6*n - 1) = y[3] /\ BitOf(r, 6*n) = y[4]
    BY <2>1, <2>2, <1>3
  <2>4. /\ x[7] \in Nat /\ x[8] \in Nat /\ y[1] \in Nat /\ y[2] \in Nat /\ y[3] \in Nat
        /\ y[4] \in Nat
    BY <2>2, <1>5, <1>6
  <2>5. Digit(r, n) = 16 * (b % 4) + (c \div 16) BY <1>4, <1>9
  <2>6. 32*x[7] + 16*x[8] + 8*y[1] + 4*y[2] + 2*y[3] + y[4]
          = 16 * (2*x[7] + x[8]) + (8*y[1] + 4*y[2] + 2*y[3] + y[4])
    <3> DEFINE o == x[7]
               p == x[8]
               q == y[1]
               s == y[2]
               t == y[3]
               u == y[4]
    <3>1. o \in Nat /\ p \in Nat /\ q \in Nat /\ s \in Nat /\ t \in Nat /\ u \in Nat BY <2>4
    <3> HIDE DEF o, p, q, s, t, u
    <3>2. 32*o + 16*p + 8*q + 4*s + 2*t + u = 16 * (2*o + p) + (8*q + 4*s + 2*t + u) BY <3>1
    <3> QED BY <3>2 DEF o, p, q, s, t, u
  <2> QED BY <2>3, <2>5, <2>6, <1>5, <1>6
<1>10. CASE j = 2
  <2>1. /\ 6*n - 5 = 8 * (i + 1) + 5 /\ 6*n - 4 = 8 * (i + 1) + 6 /\ 6*n - 3 = 8 * (i + 1) + 7
        /\ 6*n - 2 = 8 * (i + 1) + 8 /\ 6*n - 1 = 8 * (i + 2) + 1 /\ 6*n = 8 * (i + 2) + 2
    BY <1>0, <1>10
  <2> HIDE DEF i, j
  <2>2. {1, 2, 5, 6, 7, 8} \subseteq 1..8 OBVIOUS
  <2>3. /\ BitOf(r, 6*n - 5) = y[5] /\ BitOf(r, 6*n - 4) = y[6] /\ BitOf(r, 6*n - 3) = y[7]
        /\ BitOf(r, 6*n - 2) = y[8] /\ BitOf(r, 6*n - 1) = z[1] /\ BitOf(r, 6*n) = z[2]
    BY <2>1, <2>2, <1>3
  <2>4. /\ y[5] \in Nat /\ y[6] \in Nat /\ y[7] \in Nat /\ y[8] \in Nat /\ z[1] \in Nat
        /\ z[2] \in Nat
    BY <2>2, <1>6, <1>7
  <2>5. Digit(r, n) = 4 * (c % 16) + (d \div 64) BY <1>4, <1>10
  <2>6. 32*y[5] + 16*y[6] + 8*y[7] + 4*y[8] + 2*z[1] + z[2]
          = 4 * (8*y[5] + 4*y[6] + 2*y[7] + y[8]) + (2*z[1] + z[2])
    <3> DEFINE o == y[5]
               p == y[6]
               q == y[7]
               s == y[8]
               t == z[1]
               u == z[2]
    <3>1. o \in Nat /\ p \in Nat /\ q \in Nat /\ s \in Nat /\ t \in Nat /\ u \in Nat BY <2>4
    <3> HIDE DEF o, p, q, s, t, u
    <3>2. 32*o + 16*p + 8*q + 4*s + 2*t + u = 4 * (8*o + 4*p + 2*q + s) + (2*t + u) BY <3>1
    <3> QED BY <3>2 DEF o, p, q, s, t, u
  <2> QED BY <2>3, <2>5, <2>6, <1>6, <1>7
<1>11. CASE j = 3
  <2>1. /\ 6*n - 5 = 8 * (i + 2) + 3 /\ 6*n - 4 = 8 * (i + 2) + 4 /\ 6*n - 3 = 8 * (i + 2) + 5
        /\ 6*n - 2 = 8 * (i + 2) + 6 /\ 6*n - 1 = 8 * (i + 2) + 7 /\ 6*n = 8 * (i + 2) + 8
    BY <1>0, <1>11
  <2> HIDE DEF i, j
  <2>2. {3, 4, 5, 6, 7, 8} \subseteq 1..8 OBVIOUS
  <2>3. /\ BitOf(r, 6*n - 5) = z[3] /\ BitOf(r, 6*n - 4) = z[4] /\ BitOf(r, 6*n - 3) = z[5]
        /\ BitOf(r, 6*n - 2) = z[6] /\ BitOf(r, 6*n - 1) = z[7] /\ BitOf(r, 6*n) = z[8]
    BY <2>1, <2>2, <1>3
  <2>4. Digit(r, n) = d % 64 BY <1>4, <1>11
  <2> QED BY <2>3, <2>4, <1>7
<1> QED BY <1>0, <1>8, <1>9, <1>10, <1>11

Digits(r) == (8 * Len(r) + 5) \div 6
Quads(r) == 4 * ((Len(r) + 2) \div 3)

LEMMA Base64Digits ==
  ASSUME NEW r \in Seq(Byte)
  PROVE  Base64(r) = [n \in 1..Digits(r) |-> Digit(r, n)]
<1>0. Len(r) \in Nat OBVIOUS
<1>1. Len(Bits(r)) = 8 * Len(r) BY <1>0 DEF Bits
<1> DEFINE Group(n) == 32 * BitOf(r, 6*n - 5) + 16 * BitOf(r, 6*n - 4) + 8 * BitOf(r, 6*n - 3)
                       + 4 * BitOf(r, 6*n - 2) + 2 * BitOf(r, 6*n - 1) + BitOf(r, 6*n)
<1>2. Base64(r) = [n \in 1..((Len(Bits(r)) + 5) \div 6) |-> Group(n)]
  BY Zenon DEF Base64, BitOf
<1>3. (Len(Bits(r)) + 5) \div 6 = Digits(r) BY <1>1 DEF Digits
<1>4. ASSUME NEW n \in 1..Digits(r) PROVE Group(n) = Digit(r, n)
  <2>1. n \in Nat \ {0} OBVIOUS
  <2> QED BY <2>1, SixBits
<1> HIDE DEF Group
<1> QED BY <1>2, <1>3, <1>4

LEMMA DigitType ==
  ASSUME NEW r \in Seq(Byte), NEW n \in Nat \ {0}
  PROVE  Digit(r, n) \in Nat
<1> DEFINE i == 3 * ((n - 1) \div 4)
           b == ByteAfter(r, i)
           c == ByteAfter(r, i + 1)
           d == ByteAfter(r, i + 2)
<1>1. i \in Nat /\ i + 1 \in Nat /\ i + 2 \in Nat OBVIOUS
<1> HIDE DEF i
<1>2. b \in Nat /\ c \in Nat /\ d \in Nat BY <1>1, BytesAfter DEF Byte
<1> HIDE DEF b, c, d
<1>3. /\ b \div 4 \in Nat /\ b % 4 \in Nat /\ c \div 16 \in Nat /\ c % 16 \in Nat
      /\ d \div 64 \in Nat /\ d % 64 \in Nat
  BY <1>2
<1>4. 16 * (b % 4) + (c \div 16) \in Nat /\ 4 * (c % 16) + (d \div 64) \in Nat BY <1>3
<1>5. \/ Digit(r, n) = b \div 4 \/ Digit(r, n) = 16 * (b % 4) + (c \div 16)
      \/ Digit(r, n) = 4 * (c % 16) + (d \div 64) \/ Digit(r, n) = d % 64
  BY Zenon DEF Digit, i, b, c, d
<1> QED BY <1>3, <1>4, <1>5, Zenon

LEMMA QuadsAndDigits ==
  ASSUME NEW r \in Seq(Byte)
  PROVE  /\ Digits(r) \in Nat /\ Quads(r) \in Nat /\ Digits(r) <= Quads(r)
         /\ Quads(r) - Digits(r) = (3 - (Len(r) % 3)) % 3
         /\ \A n \in 1..Quads(r) : n <= Digits(r) <=> 6 * (n - 1) < 8 * Len(r)
         /\ \A n \in 1..Quads(r) : n <= Digits(r) <=> ~ (6 * (n - 1) > 8 * Len(r))
<1> DEFINE L == Len(r)
<1>0. L \in Nat OBVIOUS
<1> HIDE DEF L
<1> DEFINE q == L \div 3
           e == L % 3
<1>1. q \in Nat /\ e \in 0..2 /\ L = 3 * q + e BY <1>0
<1> HIDE DEF q, e
<1>2. /\ (L + 2) \div 3 = IF e = 0 THEN q ELSE q + 1
      /\ (8 * L + 5) \div 6 = IF e = 0 THEN 4 * q ELSE IF e = 1 THEN 4 * q + 2 ELSE 4 * q + 3
      /\ (3 - e) % 3 = IF e = 0 THEN 0 ELSE 3 - e
  BY <1>1
<1>3. L % 3 = e BY DEF e
<1> QED BY <1>1, <1>2, <1>3 DEF Digits, Quads, L

(* The digits, and the padding after them. *)
PaddedDigit(r, n) == IF n <= Digits(r) THEN Digit(r, n) ELSE Equals

LEMMA PaddedIs ==
  ASSUME NEW r \in Seq(Byte)
  PROVE  Padded64(r) = [n \in 1..Quads(r) |-> PaddedDigit(r, n)]
<1> DEFINE D == Digits(r)
           Q == Quads(r)
           p == (3 - (Len(r) % 3)) % 3
           s == [n \in 1..D |-> Digit(r, n)]
           e == [k \in 1..p |-> Equals]
           u == [n \in 1..Q |-> PaddedDigit(r, n)]
<1>1. D \in Nat /\ Q \in Nat /\ p \in Nat /\ Q = D + p
  <2>1. D \in Nat /\ Q \in Nat /\ Q - D = p /\ D <= Q BY QuadsAndDigits
  <2> HIDE DEF D, Q, p
  <2> QED BY <2>1
<1>2. Padded64(r) = s \o e BY Base64Digits, Zenon DEF Padded64
<1> HIDE DEF D, Q, p
<1>3. \A n \in 1..D : Digit(r, n) \in Nat
  <2>1. \A n \in 1..D : n \in Nat \ {0} BY <1>1
  <2> QED BY <2>1, DigitType
<1>4. s \in Seq(Nat) /\ Len(s) = D /\ \A n \in 1..D : s[n] = Digit(r, n) BY <1>1, <1>3
<1>5. e \in Seq(Nat) /\ Len(e) = p /\ \A k \in 1..p : e[k] = Equals BY <1>1 DEF Equals
<1>6. \A n \in 1..Q : PaddedDigit(r, n) = IF n <= D THEN Digit(r, n) ELSE Equals
  BY DEF PaddedDigit, D
<1>7. u \in Seq(Nat) /\ Len(u) = Q /\ \A n \in 1..Q : u[n] = PaddedDigit(r, n)
  <2>1. \A n \in 1..Q : n <= D => n \in 1..D BY <1>1
  <2>2. \A n \in 1..Q : PaddedDigit(r, n) \in Nat BY <2>1, <1>6, <1>3 DEF Equals
  <2> QED BY <2>2, <1>1
<1> HIDE DEF s, e, u
<1>8. /\ s \o e \in Seq(Nat) /\ Len(s \o e) = D + p
      /\ \A n \in 1..(D + p) : (s \o e)[n] = IF n <= D THEN s[n] ELSE e[n - D]
  BY <1>4, <1>5, ConcatProperties
<1>9. ASSUME NEW n \in 1..Q PROVE (s \o e)[n] = u[n]
  <2>1. (s \o e)[n] = IF n <= D THEN s[n] ELSE e[n - D] BY <1>1, <1>8
  <2>2. n <= D => n \in 1..D BY <1>1
  <2>3. ~ (n <= D) => n - D \in 1..p BY <1>1
  <2> QED BY <2>1, <2>2, <2>3, <1>4, <1>5, <1>6, <1>7
<1>10. s \o e = u BY <1>1, <1>7, <1>8, <1>9, SeqEqual
<1> QED BY <1>2, <1>10 DEF u, Q

(* What three bytes together have in each six of their bits. *)
LEMMA TripletDigits ==
  ASSUME NEW b \in Byte, NEW c \in Byte, NEW d \in Byte
  PROVE  /\ ((65536 * b + 256 * c + d) \div 262144) % 64 = b \div 4
         /\ ((65536 * b + 256 * c + d) \div 4096) % 64 = 16 * (b % 4) + (c \div 16)
         /\ ((65536 * b + 256 * c + d) \div 64) % 64 = 4 * (c % 16) + (d \div 64)
         /\ ((65536 * b + 256 * c + d) \div 1) % 64 = d % 64
<1>0. /\ b \in Nat /\ b <= 255 /\ c \in Nat /\ c <= 255 /\ d \in Nat /\ d <= 255 BY DEF Byte
<1> DEFINE b4 == b \div 4
           b0 == b % 4
           c4 == c \div 16
           c0 == c % 16
           d4 == d \div 64
           d0 == d % 64
           t == 65536 * b + 256 * c + d
<1>1. /\ b4 \in Nat /\ b0 \in 0..3 /\ b = 4 * b4 + b0 /\ b4 <= 63
      /\ c4 \in Nat /\ c0 \in 0..15 /\ c = 16 * c4 + c0 /\ c4 <= 15
      /\ d4 \in Nat /\ d0 \in {k \in Nat : k <= 63} /\ d = 64 * d4 + d0 /\ d4 <= 3
  BY <1>0
<1> HIDE DEF b4, b0, c4, c0, d4, d0
<1>2. /\ t \in Nat
      /\ t = 262144 * b4 + (65536 * b0 + 256 * c + d)
      /\ t = 4096 * (64 * b4 + 16 * b0 + c4) + (256 * c0 + d)
      /\ t = 64 * (64 * (16 * b + c4) + 4 * c0 + d4) + d0
      /\ t = 64 * (1024 * b + 4 * c + d4) + d0
  BY <1>0, <1>1
<1>3. /\ 65536 * b0 + 256 * c + d \in Nat /\ 65536 * b0 + 256 * c + d <= 262143
      /\ 256 * c0 + d \in Nat /\ 256 * c0 + d <= 4095
  BY <1>0, <1>1
<1>4. /\ t \div 262144 = b4
      /\ t \div 4096 = 64 * b4 + (16 * b0 + c4)
      /\ t \div 64 = 64 * (16 * b + c4) + (4 * c0 + d4)
      /\ t \div 1 = t
  <2> HIDE DEF t
  <2> QED BY <1>0, <1>1, <1>2, <1>3
<1>5. /\ 16 * b0 + c4 \in Nat /\ 16 * b0 + c4 <= 63 /\ 4 * c0 + d4 \in Nat /\ 4 * c0 + d4 <= 63
  BY <1>1
<1>6. /\ b4 % 64 = b4
      /\ (64 * b4 + (16 * b0 + c4)) % 64 = 16 * b0 + c4
      /\ (64 * (16 * b + c4) + (4 * c0 + d4)) % 64 = 4 * c0 + d4
  BY <1>0, <1>1, <1>5
<1>7. t % 64 = d0
  <2> HIDE DEF t
  <2> QED BY <1>0, <1>1, <1>2
<1>8. /\ (t \div 262144) % 64 = b4 /\ (t \div 4096) % 64 = 16 * b0 + c4
      /\ (t \div 64) % 64 = 4 * c0 + d4 /\ (t \div 1) % 64 = d0
  <2> HIDE DEF t
  <2> QED BY <1>4, <1>6, <1>7
<1> QED BY <1>8 DEF t, b4, b0, c4, c0, d4, d0

LEMMA TripletDigit ==
  ASSUME NEW r \in Seq(Byte), NEW n \in Nat \ {0}, NEW i, i = 3 * ((n - 1) \div 4)
  PROVE  ((65536 * ByteAfter(r, i) + 256 * ByteAfter(r, i + 1) + ByteAfter(r, i + 2))
            \div Shift[((n - 1) % 4) + 1]) % 64 = Digit(r, n)
<1> DEFINE j == (n - 1) % 4
           b == ByteAfter(r, i)
           c == ByteAfter(r, i + 1)
           d == ByteAfter(r, i + 2)
<1>1. j \in 0..3 /\ i \in Nat /\ i + 1 \in Nat /\ i + 2 \in Nat OBVIOUS
<1>2. b \in Byte /\ c \in Byte /\ d \in Byte BY <1>1, BytesAfter
<1>3. Digit(r, n) = IF j = 0 THEN b \div 4
                    ELSE IF j = 1 THEN 16 * (b % 4) + (c \div 16)
                    ELSE IF j = 2 THEN 4 * (c % 16) + (d \div 64)
                    ELSE d % 64
  BY Zenon DEF Digit
<1> HIDE DEF b, c, d, j
<1>4. /\ ((65536 * b + 256 * c + d) \div 262144) % 64 = b \div 4
      /\ ((65536 * b + 256 * c + d) \div 4096) % 64 = 16 * (b % 4) + (c \div 16)
      /\ ((65536 * b + 256 * c + d) \div 64) % 64 = 4 * (c % 16) + (d \div 64)
      /\ ((65536 * b + 256 * c + d) \div 1) % 64 = d % 64
  BY <1>2, TripletDigits
<1> DEFINE T == 65536 * b + 256 * c + d
           Cut(u) == (T \div u) % 64
           first == b \div 4
           second == 16 * (b % 4) + (c \div 16)
           third == 4 * (c % 16) + (d \div 64)
           fourth == d % 64
           shift == Shift[j + 1]
<1>6. Digit(r, n) = IF j = 0 THEN first ELSE IF j = 1 THEN second
                    ELSE IF j = 2 THEN third ELSE fourth
  BY <1>3, Zenon
<1>7. Cut(Shift[1]) = first /\ Cut(Shift[2]) = second /\ Cut(Shift[3]) = third /\ Cut(Shift[4]) = fourth
  <2>1. Shift[1] = 262144 /\ Shift[2] = 4096 /\ Shift[3] = 64 /\ Shift[4] = 1 BY DEF Shift
  <2> QED BY <1>4, <2>1
<1>8. /\ j = 0 => shift = Shift[1]
      /\ j = 1 => shift = Shift[2]
      /\ j = 2 => shift = Shift[3]
      /\ j = 3 => shift = Shift[4]
  OBVIOUS
<1>9. j = 0 \/ j = 1 \/ j = 2 \/ j = 3 BY <1>1
<1>10. Cut(shift) = (T \div shift) % 64 OBVIOUS
<1> HIDE DEF T, Cut, first, second, third, fourth, shift
<1>11. Cut(shift) = Digit(r, n)
  <2>1. CASE j = 0
    <3>1. Digit(r, n) = first BY <2>1, <1>6
    <3>2. shift = Shift[1] BY <2>1, <1>8
    <3>3. Cut(shift) = Cut(Shift[1]) BY <3>2
    <3>4. Cut(Shift[1]) = first BY <1>7
    <3> QED BY <3>1, <3>3, <3>4, Zenon
  <2>2. CASE j = 1
    <3>1. Digit(r, n) = second BY <2>2, <1>6
    <3>2. shift = Shift[2] BY <2>2, <1>8
    <3>3. Cut(shift) = Cut(Shift[2]) BY <3>2
    <3>4. Cut(Shift[2]) = second BY <1>7
    <3> QED BY <3>1, <3>3, <3>4, Zenon
  <2>3. CASE j = 2
    <3>1. Digit(r, n) = third BY <2>3, <1>6
    <3>2. shift = Shift[3] BY <2>3, <1>8
    <3>3. Cut(shift) = Cut(Shift[3]) BY <3>2
    <3>4. Cut(Shift[3]) = third BY <1>7
    <3> QED BY <3>1, <3>3, <3>4, Zenon
  <2>4. CASE j = 3
    <3>1. Digit(r, n) = fourth BY <2>4, <1>6
    <3>2. shift = Shift[4] BY <2>4, <1>8
    <3>3. Cut(shift) = Cut(Shift[4]) BY <3>2
    <3>4. Cut(Shift[4]) = fourth BY <1>7
    <3> QED BY <3>1, <3>3, <3>4, Zenon
  <2> QED BY <2>1, <2>2, <2>3, <2>4, <1>9
<1>12. (T \div shift) % 64 = Digit(r, n) BY <1>10, <1>11, Zenon
<1> QED BY <1>12 DEF T, b, c, d, j, shift

(* Pieces of one element each, and empty ones after them. *)
LEMMA FlattenOnes ==
  ASSUME NEW S, NEW p \in Seq(Seq(S)), NEW D \in Nat, D <= Len(p), NEW g \in [1..D -> S],
         \A k \in 1..Len(p) : p[k] = IF k <= D THEN <<g[k]>> ELSE <<>>
  PROVE  FlattenSeq(p) = g
<1>1. PICK fl \in [Nat -> Seq(S)] : Parts(fl, p) /\ FlattenSeq(p) = fl[Len(p)]
  BY FlattenParts
<1>2. fl[0] = <<>> /\ \A k \in Nat : k < Len(p) => fl[k + 1] = fl[k] \o p[k + 1]
  BY <1>1 DEF Parts
<1> DEFINE L == Len(p)
           Has(n, m) == /\ Len(fl[n]) = m
                        /\ \A k \in 1..m : fl[n][k] = g[k]
           N == {n \in Nat : n <= L => Has(n, IF n <= D THEN n ELSE D)}
<1>3. L \in Nat OBVIOUS
<1>4. 0 \in N BY <1>2
<1>5. ASSUME NEW n \in Nat, n \in N PROVE n + 1 \in N
  <2>0. SUFFICES n + 1 <= L => Has(n + 1, IF n + 1 <= D THEN n + 1 ELSE D)
    <3>1. n + 1 \in Nat OBVIOUS
    <3> HIDE DEF Has
    <3> QED BY <3>1, Zenon
  <2>1. SUFFICES ASSUME n + 1 <= L PROVE Has(n + 1, IF n + 1 <= D THEN n + 1 ELSE D)
    OBVIOUS
  <2>2. n < L /\ n + 1 \in 1..L BY <2>1, <1>3
  <2>3. fl[n + 1] = fl[n] \o p[n + 1] BY <2>2, <1>2
  <2>4. Has(n, IF n <= D THEN n ELSE D) BY <2>2, <1>5, <1>3
  <2>5. fl[n] \in Seq(S) OBVIOUS
  <2>6. CASE n + 1 <= D
    <3>1. p[n + 1] = <<g[n + 1]>> BY <2>2, <2>6
    <3>2. Len(fl[n]) = n /\ \A k \in 1..n : fl[n][k] = g[k]
      <4>1. Has(n, n) BY <2>4, <2>6
      <4> QED BY <4>1
    <3>3. fl[n + 1] = Append(fl[n], g[n + 1]) BY <2>3, <3>1, <2>5
    <3>4. g[n + 1] \in S BY <2>6
    <3>5. /\ Len(fl[n + 1]) = n + 1
          /\ \A k \in 1..(n + 1) : fl[n + 1][k] = g[k]
      <4> DEFINE x == fl[n]
                 y == fl[n + 1]
                 e == g[n + 1]
      <4>1. x \in Seq(S) /\ e \in S /\ y = Append(x, e) BY <2>5, <3>3, <3>4
      <4>2. Len(x) = n /\ \A k \in 1..n : x[k] = g[k] BY <3>2
      <4> HIDE DEF x, y
      <4>3. /\ Len(y) = n + 1 /\ y[n + 1] = e
            /\ \A k \in 1..n : y[k] = x[k]
        <5> HIDE DEF e
        <5>1. Len(y) = Len(x) + 1 /\ y[Len(x) + 1] = e BY <4>1, AppendProperties
        <5>2. \A k \in 1..Len(x) : y[k] = x[k] BY <4>1, AppendProperties
        <5> QED BY <4>2, <5>1, <5>2
      <4>4. \A k \in 1..(n + 1) : k \in 1..n \/ k = n + 1 OBVIOUS
      <4>5. \A k \in 1..(n + 1) : y[k] = g[k] BY <4>2, <4>3, <4>4
      <4> QED BY <4>3, <4>5 DEF y
    <3> QED BY <3>5, <2>6
  <2>7. CASE ~ (n + 1 <= D)
    <3>1. p[n + 1] = <<>> BY <2>2, <2>7
    <3>2. fl[n + 1] = fl[n] BY <2>3, <3>1, <2>5
    <3>3. (IF n <= D THEN n ELSE D) = D BY <2>7
    <3>4. Has(n, D) BY <2>4, <3>3
    <3>5. Has(n + 1, D) BY <3>2, <3>4
    <3> QED BY <3>5, <2>7
  <2> QED BY <2>6, <2>7
<1>6. Nat \subseteq N
  <2> HIDE DEF N
  <2> QED BY <1>4, <1>5, InductionOnNat
<1>7. Has(L, D)
  <2>0. L \in N /\ L <= L
    <3> HIDE DEF N, L
    <3> QED BY <1>3, <1>6
  <2>1. Has(L, IF L <= D THEN L ELSE D)
    <3> HIDE DEF Has, L
    <3> QED BY <2>0, Zenon
  <2>2. (IF L <= D THEN L ELSE D) = D BY <1>3
  <2> QED BY <2>1, <2>2
<1>8. fl[L] \in Seq(S) /\ g \in Seq(S) /\ Len(g) = D BY <1>3
<1>9. fl[L] = g BY <1>7, <1>8, SeqEqual
<1> QED BY <1>1, <1>9

LEMMA RstrDigits ==
  ASSUME NEW r \in Seq(Byte)
  PROVE  /\ rstr2b64(r, <<Equals>>) = [n \in 1..Quads(r) |-> PaddedDigit(r, n)]
         /\ rstr2b64(r, <<>>) = [n \in 1..Digits(r) |-> Digit(r, n)]
<1> DEFINE len == Len(r)
           k(n) == 3 * ((n - 1) \div 4)
           j(n) == (n - 1) % 4
           Triplet(i) == 65536 * ByteAfter(r, i) + 256 * ByteAfter(r, i + 1)
                           + ByteAfter(r, i + 2)
           Piece(pad, n) == IF k(n) * 8 + j(n) * 6 > len * 8 THEN pad
                            ELSE <<(Triplet(k(n)) \div Shift[j(n) + 1]) % 64>>
           D == Digits(r)
           Q == Quads(r)
           p(pad) == [n \in 1..Q |-> IF n <= D THEN <<Digit(r, n)>> ELSE pad]
<1>1. ASSUME NEW pad PROVE rstr2b64(r, pad) = FlattenSeq([n \in 1..Q |-> Piece(pad, n)])
  BY DEF rstr2b64, ByteAfter, Quads
<1>0. /\ len \in Nat /\ D \in Nat /\ Q \in Nat /\ D <= Q
      /\ \A n \in 1..Q : n <= D <=> ~ (6 * (n - 1) > 8 * len)
  BY QuadsAndDigits
<1>2. ASSUME NEW pad, NEW n \in 1..Q
      PROVE  Piece(pad, n) = IF n <= D THEN <<Digit(r, n)>> ELSE pad
  <2>1. n \in Nat \ {0} BY <1>0
  <2>2. k(n) * 8 + j(n) * 6 = 6 * (n - 1)
    <3> HIDE DEF D, Q
    <3> DEFINE a == (n - 1) \div 4
               c == (n - 1) % 4
    <3>1. a \in Nat /\ c \in Nat /\ n - 1 = 4 * a + c BY <2>1
    <3> HIDE DEF a, c
    <3>2. (3 * a) * 8 + c * 6 = 6 * (4 * a + c) BY <3>1
    <3> QED BY <3>1, <3>2 DEF a, c
  <2>3. n <= D <=> ~ (k(n) * 8 + j(n) * 6 > len * 8)
    <3> HIDE DEF k, j, D, Q, len
    <3>1. len * 8 = 8 * len BY <1>0
    <3> QED BY <2>2, <3>1, <1>0
  <2>4. (Triplet(k(n)) \div Shift[j(n) + 1]) % 64 = Digit(r, n) BY <2>1, TripletDigit
  <2> HIDE DEF k, j, Triplet, D, len
  <2> QED BY <2>3, <2>4, Zenon
<1>3. ASSUME NEW pad PROVE rstr2b64(r, pad) = FlattenSeq(p(pad))
  <2> HIDE DEF Piece, D, Q
  <2>1. [n \in 1..Q |-> Piece(pad, n)] = p(pad) BY <1>2
  <2> QED BY <1>1, <2>1, Zenon
<1>4. \A n \in 1..Q : Digit(r, n) \in Nat
  <2>1. \A n \in 1..Q : n \in Nat \ {0} BY <1>0
  <2> QED BY <2>1, DigitType
<1>5. \A n \in 1..Q : PaddedDigit(r, n) = IF n <= D THEN Digit(r, n) ELSE Equals
  BY DEF PaddedDigit, D
<1> HIDE DEF D, Q
<1>6. rstr2b64(r, <<Equals>>) = [n \in 1..Q |-> PaddedDigit(r, n)]
  <2> DEFINE g == [n \in 1..Q |-> PaddedDigit(r, n)]
             q == p(<<Equals>>)
  <2>1. \A n \in 1..Q : PaddedDigit(r, n) \in Nat BY <1>4, <1>5 DEF Equals
  <2>2. g \in [1..Q -> Nat] BY <2>1
  <2>3. \A n \in 1..Q : q[n] = <<g[n]>> BY <1>5
  <2>4. q \in Seq(Seq(Nat)) /\ Len(q) = Q
    <3>1. \A n \in 1..Q : q[n] \in Seq(Nat)
      <4> TAKE n \in 1..Q
      <4> DEFINE e == g[n]
      <4>1. e \in Nat BY <2>2
      <4>2. q[n] = <<e>> BY <2>3
      <4> HIDE DEF q, e
      <4> QED BY <4>1, <4>2
    <3>2. q = [n \in 1..Q |-> q[n]] OBVIOUS
    <3> HIDE DEF q
    <3> QED BY <3>1, <3>2, <1>0
  <2> HIDE DEF g, q
  <2>5. \A n \in 1..Len(q) : q[n] = IF n <= Q THEN <<g[n]>> ELSE <<>>
    <3>1. \A n \in 1..Q : n <= Q BY <1>0
    <3>2. 1..Len(q) = 1..Q BY <2>4
    <3> QED BY <2>3, <3>1, <3>2, Zenon
  <2>6. Q <= Len(q) BY <2>4, <1>0
  <2>7. FlattenSeq(q) = g BY <2>2, <2>4, <2>5, <2>6, <1>0, FlattenOnes
  <2> QED BY <1>3, <2>7, Zenon DEF q, g
<1>7. rstr2b64(r, <<>>) = [n \in 1..D |-> Digit(r, n)]
  <2> DEFINE g == [n \in 1..D |-> Digit(r, n)]
             q == p(<<>>)
  <2>1. \A n \in 1..D : n \in 1..Q BY <1>0
  <2>2. g \in [1..D -> Nat] BY <2>1, <1>4
  <2>3. \A n \in 1..Q : q[n] = IF n <= D THEN <<g[n]>> ELSE <<>>
    <3> TAKE n \in 1..Q
    <3>1. n <= D => n \in 1..D BY <1>0
    <3> QED BY <3>1
  <2>4. q \in Seq(Seq(Nat)) /\ Len(q) = Q
    <3>1. \A n \in 1..Q : n <= D => g[n] \in Nat BY <2>2, <1>0
    <3>2. \A n \in 1..Q : q[n] \in Seq(Nat) BY <2>3, <3>1
    <3>3. q = [n \in 1..Q |-> q[n]] OBVIOUS
    <3> HIDE DEF q
    <3> QED BY <3>2, <3>3, <1>0
  <2> HIDE DEF g, q
  <2>5. \A n \in 1..Len(q) : q[n] = IF n <= D THEN <<g[n]>> ELSE <<>> BY <2>3, <2>4
  <2>6. D <= Len(q) BY <2>4, <1>0
  <2>7. FlattenSeq(q) = g BY <2>2, <2>4, <2>5, <2>6, <1>0, FlattenOnes
  <2> QED BY <1>3, <2>7, Zenon DEF q, g
<1> QED BY <1>6, <1>7 DEF D, Q

(* The first three digits of a group. *)
LEMMA GroupDigits ==
  ASSUME NEW r, NEW m \in Nat
  PROVE  /\ Digit(r, 4 * m + 1) = ByteAfter(r, 3 * m) \div 4
         /\ Digit(r, 4 * m + 2) = 16 * (ByteAfter(r, 3 * m) % 4)
                                    + (ByteAfter(r, 3 * m + 1) \div 16)
         /\ Digit(r, 4 * m + 3) = 4 * (ByteAfter(r, 3 * m + 1) % 16)
                                    + (ByteAfter(r, 3 * m + 2) \div 64)
<1> DEFINE i(n) == 3 * ((n - 1) \div 4)
           j(n) == (n - 1) % 4
<1>1. /\ i(4 * m + 1) = 3 * m /\ j(4 * m + 1) = 0
      /\ i(4 * m + 2) = 3 * m /\ j(4 * m + 2) = 1
      /\ i(4 * m + 3) = 3 * m /\ j(4 * m + 3) = 2
  OBVIOUS
<1>2. ASSUME NEW n
      PROVE  Digit(r, n) = IF j(n) = 0 THEN ByteAfter(r, i(n)) \div 4
                           ELSE IF j(n) = 1
                           THEN 16 * (ByteAfter(r, i(n)) % 4) + (ByteAfter(r, i(n) + 1) \div 16)
                           ELSE IF j(n) = 2
                           THEN 4 * (ByteAfter(r, i(n) + 1) % 16)
                                  + (ByteAfter(r, i(n) + 2) \div 64)
                           ELSE ByteAfter(r, i(n) + 2) % 64
  BY DEF Digit
<1> HIDE DEF i, j
<1> QED BY <1>1, <1>2

LEMMA ArrayDigits ==
  ASSUME NEW r \in Seq(Byte)
  PROVE  uint8ArrayToBase64(r) = [n \in 1..Quads(r) |-> PaddedDigit(r, n)]
<1> DEFINE L == Len(r)
           rest == L % 3
           main == L - rest
           Chunk(k) == 65536 * r[k] + 256 * r[k + 1] + r[k + 2]
           Sixes(n) == (Chunk(3 * ((n - 1) \div 4) + 1) \div Shift[((n - 1) % 4) + 1]) % 64
           F == [n \in 1..(4 * (main \div 3)) |-> Sixes(n)]
           one == r[main + 1]
           two == 256 * r[main + 1] + r[main + 2]
           T == IF rest = 1 THEN <<one \div 4, 16 * (one % 4), Equals, Equals>>
                ELSE IF rest = 2
                THEN <<two \div 1024, (two \div 16) % 64, 4 * (two % 16), Equals>>
                ELSE <<>>
           m == L \div 3
           Q == Quads(r)
           D == Digits(r)
           u == [n \in 1..Q |-> PaddedDigit(r, n)]
<1>0. /\ L \in Nat /\ m \in Nat /\ rest \in 0..2 /\ L = 3 * m + rest
      /\ main = 3 * m /\ main \div 3 = m
  <2>1. L \in Nat OBVIOUS
  <2> HIDE DEF L
  <2> QED BY <2>1
<1>1. uint8ArrayToBase64(r) = F \o T BY DEF uint8ArrayToBase64
<1>2. ASSUME NEW n \in 1..(4 * m) PROVE Sixes(n) = Digit(r, n)
  <2> DEFINE i == 3 * ((n - 1) \div 4)
  <2>1. n \in Nat \ {0} BY <1>0
  <2>2. i \in Nat /\ i + 2 < L
    <3> HIDE DEF L, m, rest, main
    <3> QED BY <1>0
  <2>3. (i + 1) + 1 = i + 2 /\ (i + 1) + 2 = i + 3 /\ (i + 2) + 1 = i + 3 BY <2>2
  <2>4. Sixes(n) = (Chunk(i + 1) \div Shift[((n - 1) % 4) + 1]) % 64 OBVIOUS
  <2>5. i = 3 * ((n - 1) \div 4) OBVIOUS
  <2> HIDE DEF i
  <2>6. i < L /\ i + 1 < L /\ i + 2 < L
    <3> HIDE DEF L
    <3> QED BY <2>2, <1>0
  <2>7. /\ ByteAfter(r, i) = r[i + 1] /\ ByteAfter(r, i + 1) = r[i + 2]
        /\ ByteAfter(r, i + 2) = r[i + 3]
    BY <2>3, <2>6 DEF ByteAfter
  <2>8. Chunk(i + 1) = 65536 * ByteAfter(r, i) + 256 * ByteAfter(r, i + 1) + ByteAfter(r, i + 2)
    BY <2>3, <2>7
  <2>9. ((65536 * ByteAfter(r, i) + 256 * ByteAfter(r, i + 1) + ByteAfter(r, i + 2))
            \div Shift[((n - 1) % 4) + 1]) % 64 = Digit(r, n)
    BY <2>1, <2>5, TripletDigit
  <2> HIDE DEF Chunk, Sixes
  <2> QED BY <2>4, <2>8, <2>9
<1>3. F = [n \in 1..(4 * m) |-> Digit(r, n)]
  <2> HIDE DEF Sixes, m, main
  <2> QED BY <1>0, <1>2
<1>4. /\ Q \in Nat /\ D \in Nat /\ Q = (IF rest = 0 THEN 4 * m ELSE 4 * m + 4)
      /\ D = (IF rest = 0 THEN 4 * m ELSE IF rest = 1 THEN 4 * m + 2 ELSE 4 * m + 3)
  <2>1. /\ Q = 4 * ((L + 2) \div 3) /\ D = (8 * L + 5) \div 6 BY DEF Quads, Digits
  <2> HIDE DEF Q, D, L, m, rest
  <2>2. /\ (L + 2) \div 3 = IF rest = 0 THEN m ELSE m + 1
        /\ (8 * L + 5) \div 6 = IF rest = 0 THEN 4 * m
                                ELSE IF rest = 1 THEN 4 * m + 2 ELSE 4 * m + 3
    BY <1>0
  <2> QED BY <1>0, <2>1, <2>2
<1>5. \A n \in 1..Q : PaddedDigit(r, n) = IF n <= D THEN Digit(r, n) ELSE Equals
  BY DEF PaddedDigit
<1>6. \A n \in 1..Q : Digit(r, n) \in Nat
  <2>1. \A n \in 1..Q : n \in Nat \ {0} BY <1>4
  <2> QED BY <2>1, DigitType
<1>7. u \in Seq(Nat) /\ Len(u) = Q /\ \A n \in 1..Q : u[n] = PaddedDigit(r, n)
  <2> HIDE DEF Q, D
  <2>1. \A n \in 1..Q : PaddedDigit(r, n) \in Nat BY <1>5, <1>6 DEF Equals
  <2> QED BY <2>1, <1>4
<1>8. /\ F \in Seq(Nat) /\ Len(F) = 4 * m
      /\ \A n \in 1..(4 * m) : F[n] = PaddedDigit(r, n)
  <2> HIDE DEF Q, D, m, rest, F, L
  <2>1. \A n \in 1..(4 * m) : n \in 1..Q /\ n <= D BY <1>0, <1>4
  <2>2. \A n \in 1..(4 * m) : Digit(r, n) \in Nat /\ PaddedDigit(r, n) = Digit(r, n)
    BY <2>1, <1>5, <1>6
  <2> QED BY <1>0, <1>3, <2>2
<1>9. /\ T \in Seq(Nat) /\ Len(T) = Q - 4 * m
      /\ \A k \in 1..(Q - 4 * m) : T[k] = PaddedDigit(r, 4 * m + k)
  <2> DEFINE b == ByteAfter(r, 3 * m)
             c == ByteAfter(r, 3 * m + 1)
             d == ByteAfter(r, 3 * m + 2)
  <2>1. b \in Byte /\ c \in Byte
    <3>1. 3 * m \in Nat /\ 3 * m + 1 \in Nat BY <1>0
    <3> QED BY <3>1, BytesAfter
  <2>2. /\ Digit(r, 4 * m + 1) = b \div 4 /\ Digit(r, 4 * m + 2) = 16 * (b % 4) + (c \div 16)
        /\ Digit(r, 4 * m + 3) = 4 * (c % 16) + (d \div 64)
    <3> HIDE DEF m
    <3> QED BY <1>0, GroupDigits
  <2>3. /\ 0 < rest => b = r[main + 1]
        /\ 1 < rest => c = r[main + 2]
        /\ rest < 2 => c = 0
        /\ rest < 3 => d = 0
    <3> HIDE DEF m, rest, main, L
    <3>1. /\ 0 < rest <=> 3 * m < L
          /\ 1 < rest <=> 3 * m + 1 < L
          /\ 2 < rest <=> 3 * m + 2 < L
          /\ (3 * m + 1) + 1 = main + 2
      BY <1>0
    <3> QED BY <3>1, <1>0 DEF ByteAfter, L
  <2>4. b \in Nat /\ b <= 255 /\ c \in Nat /\ c <= 255 BY <2>1 DEF Byte
  <2>5. d = 0 BY <2>3, <1>0
  <2> HIDE DEF b, c, d, Q, D, m, rest, main, L
  <2>6. CASE rest = 0
    <3>1. T = <<>> /\ Q - 4 * m = 0 BY <2>6, <1>0, <1>4
    <3> HIDE DEF T
    <3> QED BY <3>1
  <2>7. CASE rest = 1
    <3>1. Q - 4 * m = 4 /\ Q = 4 * m + 4 /\ D = 4 * m + 2 BY <2>7, <1>0, <1>4
    <3>2. one = b BY <2>7, <2>3
    <3>3. T = <<b \div 4, 16 * (b % 4), Equals, Equals>>
      <4> HIDE DEF one
      <4> QED BY <2>7, <3>2
    <3>4. /\ PaddedDigit(r, 4 * m + 1) = b \div 4
          /\ PaddedDigit(r, 4 * m + 2) = 16 * (b % 4)
          /\ PaddedDigit(r, 4 * m + 3) = Equals
          /\ PaddedDigit(r, 4 * m + 4) = Equals
      <4>1. c \div 16 = 0 BY <2>7, <2>3
      <4>2. 16 * (b % 4) + (c \div 16) = 16 * (b % 4) BY <4>1, <2>4
      <4>3. /\ 4 * m + 1 \in 1..Q /\ 4 * m + 2 \in 1..Q /\ 4 * m + 3 \in 1..Q /\ 4 * m + 4 \in 1..Q
            /\ 4 * m + 1 <= D /\ 4 * m + 2 <= D /\ ~ (4 * m + 3 <= D) /\ ~ (4 * m + 4 <= D)
        BY <1>0, <3>1
      <4> QED BY <4>2, <4>3, <1>5, <2>2
    <3>5. b \div 4 \in Nat /\ 16 * (b % 4) \in Nat /\ Equals \in Nat BY <2>4 DEF Equals
    <3> HIDE DEF T
    <3>6. T \in Seq(Nat) /\ Len(T) = 4 BY <3>3, <3>5
    <3>7. /\ T[1] = b \div 4 /\ T[2] = 16 * (b % 4) /\ T[3] = Equals /\ T[4] = Equals BY <3>3
    <3>8. \A k \in 1..4 : k = 1 \/ k = 2 \/ k = 3 \/ k = 4 OBVIOUS
    <3>9. \A k \in 1..4 : T[k] = PaddedDigit(r, 4 * m + k) BY <3>4, <3>7, <3>8
    <3> QED BY <3>1, <3>6, <3>9
  <2>8. CASE rest = 2
    <3>1. Q - 4 * m = 4 /\ Q = 4 * m + 4 /\ D = 4 * m + 3 BY <2>8, <1>0, <1>4
    <3>2. two = 256 * b + c BY <2>8, <2>3
    <3>3. two \div 1024 = b \div 4 /\ (two \div 16) % 64 = 16 * (b % 4) + (c \div 16)
          /\ 4 * (two % 16) = 4 * (c % 16)
      <4> DEFINE w == 256 * b + c
                 b4 == b \div 4
                 b0 == b % 4
                 c4 == c \div 16
                 c0 == c % 16
      <4>1. /\ b4 \in Nat /\ b0 \in 0..3 /\ b = 4 * b4 + b0 /\ b4 <= 63
            /\ c4 \in Nat /\ c0 \in 0..15 /\ c = 16 * c4 + c0 /\ c4 <= 15
        BY <2>4
      <4> HIDE DEF b4, b0, c4, c0
      <4>2. /\ w \in Nat /\ w = 1024 * b4 + (256 * b0 + c) /\ 256 * b0 + c \in Nat
            /\ 256 * b0 + c <= 1023 /\ w = 16 * (64 * b4 + (16 * b0 + c4)) + c0
            /\ 16 * b0 + c4 \in Nat /\ 16 * b0 + c4 <= 63
        BY <2>4, <4>1
      <4> HIDE DEF w
      <4>3. w \div 1024 = b4 BY <4>1, <4>2, <2>4
      <4>4. w \div 16 = 64 * b4 + (16 * b0 + c4) /\ w % 16 = c0 BY <4>1, <4>2
      <4>5. (64 * b4 + (16 * b0 + c4)) % 64 = 16 * b0 + c4 BY <4>1, <4>2
      <4>6. two = w BY <3>2 DEF w
      <4> HIDE DEF two
      <4> QED BY <4>3, <4>4, <4>5, <4>6 DEF b4, b0, c4, c0
    <3> HIDE DEF two
    <3>4. T = <<b \div 4, 16 * (b % 4) + (c \div 16), 4 * (c % 16), Equals>>
      <4>1. ~ (rest = 1) BY <2>8
      <4>2. T = <<two \div 1024, (two \div 16) % 64, 4 * (two % 16), Equals>>
        <5> HIDE DEF one, Equals
        <5> QED BY <2>8, <4>1
      <4> HIDE DEF T
      <4> QED BY <3>3, <4>2
    <3>5. /\ PaddedDigit(r, 4 * m + 1) = b \div 4
          /\ PaddedDigit(r, 4 * m + 2) = 16 * (b % 4) + (c \div 16)
          /\ PaddedDigit(r, 4 * m + 3) = 4 * (c % 16)
          /\ PaddedDigit(r, 4 * m + 4) = Equals
      <4>1. d \div 64 = 0 BY <2>5
      <4>2. 4 * (c % 16) + (d \div 64) = 4 * (c % 16) BY <4>1, <2>4
      <4>3. /\ 4 * m + 1 \in 1..Q /\ 4 * m + 2 \in 1..Q /\ 4 * m + 3 \in 1..Q /\ 4 * m + 4 \in 1..Q
            /\ 4 * m + 1 <= D /\ 4 * m + 2 <= D /\ 4 * m + 3 <= D /\ ~ (4 * m + 4 <= D)
        BY <1>0, <3>1
      <4> QED BY <4>2, <4>3, <1>5, <2>2
    <3> DEFINE t1 == b \div 4
               t2 == 16 * (b % 4) + (c \div 16)
               t3 == 4 * (c % 16)
    <3>6. t1 \in Nat /\ t2 \in Nat /\ t3 \in Nat /\ Equals \in Nat BY <2>4 DEF Equals
    <3> HIDE DEF T, t1, t2, t3
    <3>7. T = <<t1, t2, t3, Equals>> BY <3>4 DEF t1, t2, t3
    <3>8. T \in Seq(Nat) /\ Len(T) = 4 BY <3>6, <3>7
    <3>9. /\ T[1] = t1 /\ T[2] = t2 /\ T[3] = t3 /\ T[4] = Equals BY <3>7
    <3>10. \A k \in 1..4 : k = 1 \/ k = 2 \/ k = 3 \/ k = 4 OBVIOUS
    <3>11. /\ PaddedDigit(r, 4 * m + 1) = t1 /\ PaddedDigit(r, 4 * m + 2) = t2
           /\ PaddedDigit(r, 4 * m + 3) = t3 /\ PaddedDigit(r, 4 * m + 4) = Equals
      BY <3>5 DEF t1, t2, t3
    <3>12. \A k \in 1..4 : T[k] = PaddedDigit(r, 4 * m + k) BY <3>9, <3>10, <3>11
    <3> QED BY <3>1, <3>8, <3>12
  <2>9. rest = 0 \/ rest = 1 \/ rest = 2 BY <1>0
  <2> HIDE DEF T
  <2> QED BY <2>6, <2>7, <2>8, <2>9, Zenon
<1> HIDE DEF F, T, u, Q, D, m, L, rest, main
<1>10. /\ F \o T \in Seq(Nat) /\ Len(F \o T) = 4 * m + (Q - 4 * m)
       /\ \A n \in 1..(4 * m + (Q - 4 * m)) :
            (F \o T)[n] = IF n <= 4 * m THEN F[n] ELSE T[n - 4 * m]
  <2>1. Len(F) = 4 * m /\ Len(T) = Q - 4 * m /\ F \in Seq(Nat) /\ T \in Seq(Nat)
    BY <1>8, <1>9
  <2>2. /\ F \o T \in Seq(Nat) /\ Len(F \o T) = Len(F) + Len(T)
        /\ \A n \in 1..(Len(F) + Len(T)) :
             (F \o T)[n] = IF n <= Len(F) THEN F[n] ELSE T[n - Len(F)]
    BY <2>1, ConcatProperties
  <2> DEFINE a == 4 * m
             b == Q - 4 * m
  <2>3. Len(F) = a /\ Len(T) = b BY <2>1
  <2> HIDE DEF a, b
  <2>4. /\ F \o T \in Seq(Nat) /\ Len(F \o T) = a + b
        /\ \A n \in 1..(a + b) : (F \o T)[n] = IF n <= a THEN F[n] ELSE T[n - a]
    BY <2>2, <2>3
  <2> QED BY <2>4 DEF a, b
<1>11. 4 * m + (Q - 4 * m) = Q BY <1>0, <1>4
<1>12. ASSUME NEW n \in 1..Q PROVE (F \o T)[n] = u[n]
  <2>1. (F \o T)[n] = IF n <= 4 * m THEN F[n] ELSE T[n - 4 * m] BY <1>10, <1>11
  <2>2. n <= 4 * m => n \in 1..(4 * m) BY <1>0, <1>4
  <2>3. ~ (n <= 4 * m) => n - 4 * m \in 1..(Q - 4 * m) /\ 4 * m + (n - 4 * m) = n BY <1>0, <1>4
  <2>4. CASE n <= 4 * m BY <2>1, <2>2, <2>4, <1>7, <1>8
  <2>5. CASE ~ (n <= 4 * m)
    <3>1. T[n - 4 * m] = PaddedDigit(r, 4 * m + (n - 4 * m)) BY <2>3, <2>5, <1>9
    <3>2. T[n - 4 * m] = PaddedDigit(r, n) BY <3>1, <2>3, <2>5
    <3> QED BY <2>1, <2>5, <3>2, <1>7
  <2> QED BY <2>4, <2>5
<1>13. F \o T = u BY <1>7, <1>10, <1>11, <1>12, SeqEqual
<1> QED BY <1>1, <1>13, Zenon DEF u, Q

LEMMA BitsOf == ASSUME raw \in Seq(Byte) PROVE Base64IsTheBits
<1>1. Padded64(raw) = [n \in 1..Quads(raw) |-> PaddedDigit(raw, n)] BY PaddedIs
<1>2. Base64(raw) = [n \in 1..Digits(raw) |-> Digit(raw, n)] BY Base64Digits
<1>3. uint8ArrayToBase64(raw) = [n \in 1..Quads(raw) |-> PaddedDigit(raw, n)] BY ArrayDigits
<1>4. /\ rstr2b64(raw, <<Equals>>) = [n \in 1..Quads(raw) |-> PaddedDigit(raw, n)]
      /\ rstr2b64(raw, <<>>) = [n \in 1..Digits(raw) |-> Digit(raw, n)]
  BY RstrDigits
<1> QED BY <1>1, <1>2, <1>3, <1>4, Zenon DEF Base64IsTheBits

(* Both base-64 encoders give the bits of every raw string, six at a time: *)
(* base64.js and sha1.js, with padding and without.                        *)
THEOREM Base64IsAlwaysTheBits == StringSpec => []Base64IsTheBits
<1>1. StringTypes => Base64IsTheBits BY BitsOf DEF StringTypes
<1> QED BY <1>1, AllStrings, PTL

-----------------------------------------------------------------------------
(* Digits. *)

Below(d) == {x \in Nat : x < d}

(* A word with what is left of the words before it in front of it. *)
Joined(x, w) == 65536 * x + w

LEMMA DivideNumber ==
  ASSUME NEW d \in Divisors, NEW x \in Below(d), NEW w \in Unit,
         NEW n \in Nat, n = Joined(x, w),
         NEW q, q = n \div d, NEW r, r = n % d
  PROVE  q \in Unit /\ r \in Below(d) /\ n = d * q + r
<1>1. x \in Nat /\ x < d /\ w \in Nat /\ w <= 65535 BY DEF Below, Unit
<1>3. CASE d = 2
  <2>1. n < 131072 BY <1>1, <1>3 DEF Joined
  <2>2. q \in Nat /\ r \in Nat /\ r < 2 /\ n = 2 * q + r BY <1>3
  <2>3. q <= 65535 BY <2>1, <2>2
  <2> QED BY <2>2, <2>3, <1>3 DEF Below, Unit
<1>4. CASE d = 10
  <2>1. n < 655360 BY <1>1, <1>4 DEF Joined
  <2>2. q \in Nat /\ r \in Nat /\ r < 10 /\ n = 10 * q + r BY <1>4
  <2>3. q <= 65535 BY <2>1, <2>2
  <2> QED BY <2>2, <2>3, <1>4 DEF Below, Unit
<1>5. CASE d = 16
  <2>1. n < 1048576 BY <1>1, <1>5 DEF Joined
  <2>2. q \in Nat /\ r \in Nat /\ r < 16 /\ n = 16 * q + r BY <1>5
  <2>3. q <= 65535 BY <2>1, <2>2
  <2> QED BY <2>2, <2>3, <1>5 DEF Below, Unit
<1> QED BY <1>3, <1>4, <1>5 DEF Divisors

(* A quotient has no zero before its first word. *)
Short(q) == q # <<>> => q[1] > 0
DivideState(d) == [x : Below(d), quotient : Seq(Unit)]
DivideStart == [x |-> 0, quotient |-> <<>>]

DivideSolves(f, D, d) ==
  f = [n \in 0..Len(D) |-> IF n = 0 THEN [x |-> 0, quotient |-> <<>>]
                           ELSE LongTurn(f[n - 1], D[n], d)]

LEMMA DivisionIsChosen ==
  ASSUME NEW D, NEW d
  PROVE  LongDivision(D, d) = (CHOOSE f : DivideSolves(f, D, d))[Len(D)]
BY DEF LongDivision, DivideSolves

(* One turn: the word of the quotient that it finds. *)
Found(a, w, d) == Joined(a.x, w) \div d

LEMMA LongTurnIs ==
  ASSUME NEW d \in Divisors, NEW a \in DivideState(d), NEW w \in Unit
  PROVE  /\ LongTurn(a, w, d) \in DivideState(d)
         /\ Found(a, w, d) \in Unit
         /\ Joined(a.x, w) = d * Found(a, w, d) + LongTurn(a, w, d).x
         /\ LongTurn(a, w, d).quotient =
              IF a.quotient # <<>> \/ Found(a, w, d) > 0
              THEN Append(a.quotient, Found(a, w, d)) ELSE <<>>
<1> DEFINE x == a.x
           Q == a.quotient
           n == Joined(x, w)
           q == Found(a, w, d)
           r == n % d
<1>1. x \in Below(d) /\ Q \in Seq(Unit) BY DEF DivideState
<1>2. q \in Unit /\ r \in Below(d) /\ n = d * q + r
  <2>1. q = n \div d BY DEF Found
  <2>2. r = n % d OBVIOUS
  <2> HIDE DEF x
  <2>3. n \in Nat BY <1>1 DEF Joined, Below, Unit
  <2>4. n = Joined(x, w) OBVIOUS
  <2> HIDE DEF n, q, r
  <2> QED BY <1>1, <2>1, <2>2, <2>3, <2>4, DivideNumber
<1>3. LongTurn(a, w, d) = [x |-> r, quotient |-> IF Q # <<>> \/ q > 0
                                                 THEN Append(Q, q) ELSE <<>>]
  BY DEF LongTurn, Found, Joined
<1> HIDE DEF x, Q, q, r, n
<1>4. (IF Q # <<>> \/ q > 0 THEN Append(Q, q) ELSE <<>>) \in Seq(Unit)
  <2>1. Append(Q, q) \in Seq(Unit) BY <1>1, <1>2, AppendProperties
  <2> QED BY <2>1
<1> DEFINE b == LongTurn(a, w, d)
<1>5. b \in DivideState(d) BY <1>2, <1>3, <1>4 DEF DivideState
<1>6. b.x = r /\ b.quotient = IF Q # <<>> \/ q > 0 THEN Append(Q, q) ELSE <<>> BY <1>3
<1> HIDE DEF b
<1>7. n = d * q + b.x BY <1>2, <1>6
<1> QED BY <1>2, <1>5, <1>6, <1>7 DEF b, n, x, Q, q

Dividing(f, D, d) ==
  /\ f[0] = DivideStart
  /\ \A n \in 0..Len(D) : f[n] \in DivideState(d)
  /\ \A n \in Nat : n < Len(D) => f[n + 1] = LongTurn(f[n], D[n + 1], d)

LEMMA DivisionLoop ==
  ASSUME NEW d \in Divisors, NEW D \in Seq(Unit)
  PROVE  \E f : Dividing(f, D, d) /\ LongDivision(D, d) = f[Len(D)]
<1> DEFINE L == Len(D)
           V == DivideState(d)
           step == [n \in 1..L |-> [a \in V |-> LongTurn(a, D[n], d)]]
<1>1. L \in Nat /\ \A n \in 1..L : D[n] \in Unit OBVIOUS
<1>2. DivideStart \in V
  <2>1. 0 \in Below(d) BY DEF Below, Divisors
  <2> QED BY <2>1 DEF DivideStart, DivideState
<1>3. \A n \in 1..L : \A a \in V : LongTurn(a, D[n], d) \in V BY <1>1, LongTurnIs
<1>4. \A n \in 1..L : \A a \in V : step[n][a] = LongTurn(a, D[n], d) OBVIOUS
<1>13. \A n \in 1..L : \A a \in V : step[n][a] \in V BY <1>3, <1>4
<1> HIDE DEF V, step, L
<1>5. PICK g \in [0..L -> V] : Loops(g, L, DivideStart, step)
  BY <1>1, <1>2, <1>13, RecursionUpTo
<1>6. DivideSolves(g, D, d)
  <2>1. ASSUME NEW n \in 0..L
        PROVE  g[n] = IF n = 0 THEN DivideStart ELSE LongTurn(g[n - 1], D[n], d)
    <3>1. CASE n = 0
      <4>1. g[0] = DivideStart BY <1>5 DEF Loops
      <4> QED BY <3>1, <4>1
    <3>2. CASE n # 0
      <4>1. n - 1 \in Nat /\ n - 1 < L /\ (n - 1) + 1 = n /\ n \in 1..L /\ n - 1 \in 0..L
        BY <3>2, <1>1
      <4>2. g[n] = step[n][g[n - 1]] BY <4>1, <1>5 DEF Loops
      <4>3. g[n - 1] \in V BY <4>1
      <4> QED BY <3>2, <4>1, <4>2, <4>3, <1>4
    <3> QED BY <3>1, <3>2
  <2>2. g = [n \in 0..L |-> g[n]] OBVIOUS
  <2> QED BY <2>1, <2>2 DEF DivideSolves, DivideStart, L
<1> DEFINE f == CHOOSE h : DivideSolves(h, D, d)
<1>7. DivideSolves(f, D, d) BY <1>6
<1>8. LongDivision(D, d) = f[L] BY DivisionIsChosen DEF L
<1> HIDE DEF f
<1>9. f[0] = DivideStart
  <2>1. 0 \in 0..L BY <1>1
  <2> QED BY <2>1, <1>7 DEF DivideSolves, DivideStart, L
<1>10. ASSUME NEW n \in Nat, n < L PROVE f[n + 1] = LongTurn(f[n], D[n + 1], d)
  <2>1. n + 1 \in 0..L /\ n + 1 # 0 /\ (n + 1) - 1 = n BY <1>1, <1>10
  <2> QED BY <2>1, <1>7 DEF DivideSolves, L
<1>11. 0..L \subseteq {n \in Nat : f[n] \in V}
  <2> DEFINE T == {n \in Nat : f[n] \in V}
  <2>1. 0 \in T BY <1>2, <1>9
  <2>2. ASSUME NEW n \in Nat, n < L, n \in T PROVE n + 1 \in T
    <3>1. n + 1 \in 1..L BY <2>2, <1>1
    <3>2. LongTurn(f[n], D[n + 1], d) \in V BY <3>1, <2>2, <1>3
    <3>3. f[n + 1] \in V BY <3>2, <2>2, <1>10
    <3> QED BY <3>3
  <2> HIDE DEF T
  <2>3. 0..L \subseteq T BY <1>1, <2>1, <2>2, InductionUpTo
  <2> QED BY <2>3 DEF T
<1>12. Dividing(f, D, d) BY <1>9, <1>10, <1>11 DEF Dividing, L, V
<1> QED BY <1>8, <1>12 DEF L

(* The words of a number, filled with zeros on the left. *)
Padded(D, M) ==
  [j \in 1..M |-> IF j + Len(D) <= M THEN 0 ELSE D[j + Len(D) - M]]

LEMMA PaddedType ==
  ASSUME NEW M \in Nat, NEW D \in Seq(Unit), Len(D) <= M
  PROVE  Padded(D, M) \in [1..M -> Unit]
<1>1. Len(D) \in Nat /\ 0 \in Unit BY DEF Unit
<1>2. ASSUME NEW j \in 1..M
      PROVE  (IF j + Len(D) <= M THEN 0 ELSE D[j + Len(D) - M]) \in Unit
  <2>1. ~ (j + Len(D) <= M) => j + Len(D) - M \in 1..Len(D) BY <1>1
  <2> QED BY <2>1, <1>1
<1> QED BY <1>2 DEF Padded

LEMMA PaddedEmpty ==
  ASSUME NEW M \in Nat, NEW j \in 1..M
  PROVE  Padded(<<>>, M)[j] = 0
BY DEF Padded

LEMMA PadGrows ==
  ASSUME NEW n \in Nat, NEW Q \in Seq(Unit), NEW q \in Unit, Len(Q) <= n, NEW j \in 1..(n + 1)
  PROVE  Padded(Append(Q, q), n + 1)[j] = IF j <= n THEN Padded(Q, n)[j] ELSE q
<1> DEFINE A == Append(Q, q)
           L == Len(Q)
<1>1. L \in Nat BY Zenon, LenProperties
<1>2. /\ Len(A) = L + 1 /\ A[L + 1] = q
      /\ \A i \in 1..L : A[i] = Q[i]
  BY AppendProperties
<1> HIDE DEF A
<1>3. Padded(A, n + 1)[j] = IF j + Len(A) <= n + 1 THEN 0 ELSE A[j + Len(A) - (n + 1)]
  BY DEF Padded
<1>4. CASE j <= n
  <2>1. Padded(Q, n)[j] = IF j + L <= n THEN 0 ELSE Q[j + L - n] BY <1>4 DEF Padded
  <2> HIDE DEF L
  <2>2. j + Len(A) <= n + 1 <=> j + L <= n BY <1>1, <1>2
  <2>3. j + Len(A) - (n + 1) = j + L - n BY <1>1, <1>2
  <2>4. ~ (j + L <= n) => j + L - n \in 1..L BY <1>1, <1>4
  <2>5. ~ (j + L <= n) => A[j + L - n] = Q[j + L - n] BY <2>4, <1>2
  <2>6. Padded(A, n + 1)[j] = IF j + L <= n THEN 0 ELSE A[j + L - n]
    BY <1>3, <2>2, <2>3, Zenon
  <2>7. Padded(A, n + 1)[j] = Padded(Q, n)[j]
    <3>1. CASE j + L <= n BY <3>1, <2>1, <2>6
    <3>2. CASE ~ (j + L <= n) BY <3>2, <2>1, <2>5, <2>6
    <3> QED BY <3>1, <3>2
  <2> QED BY <2>7, <1>4, Zenon DEF A
<1>5. CASE ~ (j <= n)
  <2> HIDE DEF L
  <2>1. j = n + 1 BY <1>5
  <2>2. ~ (j + Len(A) <= n + 1) /\ j + Len(A) - (n + 1) = L + 1 BY <2>1, <1>1, <1>2
  <2>3. Padded(A, n + 1)[j] = q BY <2>2, <1>2, <1>3, Zenon
  <2> QED BY <2>3, <1>5, Zenon DEF A
<1> QED BY <1>4, <1>5

(* What a long division does to the padded words, x[j] left after j of     *)
(* them.                                                                   *)
Divides(x, p, q, M, d) ==
  /\ x[0] = 0
  /\ \A j \in 1..M : Joined(x[j - 1], p[j]) = d * q[j] + x[j]

LEMMA DivisionOfWords ==
  ASSUME NEW d \in Divisors, NEW D \in Seq(Unit), NEW R, R = LongDivision(D, d)
  PROVE  /\ R.quotient \in Seq(Unit) /\ R.x \in Below(d)
         /\ Len(R.quotient) <= Len(D) /\ Short(R.quotient)
         /\ \E x \in [0..Len(D) -> Below(d)] :
              /\ Divides(x, D, Padded(R.quotient, Len(D)), Len(D), d)
              /\ x[Len(D)] = R.x
<1> DEFINE L == Len(D)
<1>1. L \in Nat BY Zenon, LenProperties
<1>2. PICK f : Dividing(f, D, d) /\ R = f[L] BY DivisionLoop
<1>3. \A n \in 0..L : f[n].x \in Below(d) /\ f[n].quotient \in Seq(Unit)
  BY <1>2 DEF Dividing, DivideState
<1>4. f[0].x = 0 /\ f[0].quotient = <<>> BY <1>2 DEF Dividing, DivideStart
<1>5. ASSUME NEW n \in Nat, n < L
      PROVE  /\ Found(f[n], D[n + 1], d) \in Unit
             /\ Joined(f[n].x, D[n + 1]) = d * Found(f[n], D[n + 1], d) + f[n + 1].x
             /\ f[n + 1].quotient =
                  IF f[n].quotient # <<>> \/ Found(f[n], D[n + 1], d) > 0
                  THEN Append(f[n].quotient, Found(f[n], D[n + 1], d)) ELSE <<>>
  <2>1. n \in 0..L /\ n + 1 \in 1..L BY <1>1, <1>5
  <2>2. f[n] \in DivideState(d) /\ D[n + 1] \in Unit BY <2>1, <1>2 DEF Dividing
  <2>3. f[n + 1] = LongTurn(f[n], D[n + 1], d) BY <1>2, <1>5 DEF Dividing
  <2> QED BY <2>2, <2>3, LongTurnIs
<1> HIDE DEF L
<1> DEFINE Q(n) == f[n].quotient
           w(n) == Found(f[n - 1], D[n], d)
           Has(n) == /\ Len(Q(n)) <= n /\ Short(Q(n))
                     /\ \A j \in 1..n : Padded(Q(n), n)[j] = w(j)
           T == {n \in Nat : n <= L => Has(n)}
<1>6. 0 \in T
  <2>1. Q(0) = <<>> BY <1>4
  <2>2. Len(Q(0)) <= 0 /\ Short(Q(0)) BY <2>1 DEF Short
  <2>3. \A j \in 1..0 : FALSE OBVIOUS
  <2>4. Has(0) BY <2>2, <2>3
  <2> HIDE DEF Has
  <2> QED BY <2>4
<1>7. ASSUME NEW n \in Nat, n < L, n \in T PROVE n + 1 \in T
  <2>1. Has(n) BY <1>7, <1>1
  <2> DEFINE a == Q(n)
             b == Q(n + 1)
             e == w(n + 1)
  <2>2. a \in Seq(Unit) BY <1>3, <1>7, <1>1
  <2>3. (n + 1) - 1 = n /\ n + 1 \in Nat OBVIOUS
  <2>4. e \in Unit /\ b = IF a # <<>> \/ e > 0 THEN Append(a, e) ELSE <<>>
    BY <2>3, <1>5, <1>7
  <2>5. Len(a) <= n /\ Short(a) /\ \A j \in 1..n : Padded(a, n)[j] = w(j) BY <2>1
  <2>6. Len(b) <= n + 1 /\ Short(b) /\ \A j \in 1..(n + 1) : Padded(b, n + 1)[j] = w(j)
    <3> HIDE DEF a, b, Q
    <3>1. \A j \in 1..(n + 1) : j \in 1..n \/ j = n + 1 OBVIOUS
    <3>2. CASE a # <<>> \/ e > 0
      <4>1. b = Append(a, e) BY <2>4, <3>2
      <4>2. \A j \in 1..(n + 1) :
              Padded(b, n + 1)[j] = IF j <= n THEN Padded(a, n)[j] ELSE e
        <5> HIDE DEF e
        <5>1. ASSUME NEW j \in 1..(n + 1)
              PROVE  Padded(Append(a, e), n + 1)[j] = IF j <= n THEN Padded(a, n)[j] ELSE e
          <6>1. n \in Nat /\ e \in Unit /\ Len(a) <= n BY <2>4, <2>5
          <6> QED BY <6>1, <2>2, PadGrows, Zenon
        <5> QED BY <5>1, <4>1, Zenon
      <4>3. ASSUME NEW j \in 1..(n + 1) PROVE Padded(b, n + 1)[j] = w(j)
        <5>1. CASE j \in 1..n
          <6>1. j <= n BY <5>1
          <6>2. Padded(b, n + 1)[j] = Padded(a, n)[j] BY <6>1, <4>2
          <6>3. Padded(a, n)[j] = w(j) BY <5>1, <2>5
          <6> QED BY <6>2, <6>3, Zenon
        <5>2. CASE j = n + 1
          <6>1. ~ (j <= n) BY <5>2
          <6>2. Padded(b, n + 1)[j] = e BY <6>1, <4>2
          <6> QED BY <6>2, <5>2, Zenon
        <5> QED BY <5>1, <5>2, <3>1
      <4> HIDE DEF w, e
      <4>4. Len(a) \in Nat BY <2>2, LenProperties, Zenon
      <4>5. /\ Len(b) = Len(a) + 1 /\ b[Len(a) + 1] = e
            /\ \A i \in 1..Len(a) : b[i] = a[i]
        <5>1. e \in Unit BY <2>4
        <5> QED BY <5>1, <4>1, <2>2, AppendProperties, Zenon
      <4>6. Len(b) <= n + 1 BY <4>4, <4>5, <2>5
      <4>7. Short(b)
        <5>1. CASE a = <<>>
          <6>1. b[1] = e BY <4>5, <5>1
          <6> QED BY <6>1, <5>1, <3>2 DEF Short
        <5>2. CASE a # <<>>
          <6>1. 1 \in 1..Len(a) BY <5>2, <2>2, <4>4
          <6>2. b[1] = a[1] BY <6>1, <4>5
          <6> QED BY <6>2, <5>2, <2>5 DEF Short
        <5> QED BY <5>1, <5>2
      <4> QED BY <4>3, <4>6, <4>7
    <3>3. CASE ~ (a # <<>> \/ e > 0)
      <4>1. a = <<>> /\ e = 0
        <5> HIDE DEF e
        <5> QED BY <3>3, <2>4 DEF Unit
      <4>2. b = <<>> BY <2>4, <3>3
      <4>3. n + 1 \in Nat OBVIOUS
      <4>4. Len(b) <= n + 1 /\ Short(b) BY <4>2 DEF Short
      <4>5. ASSUME NEW j \in 1..(n + 1) PROVE Padded(b, n + 1)[j] = w(j)
        <5>1. Padded(b, n + 1)[j] = 0 BY <4>2, <4>3, PaddedEmpty
        <5>2. CASE j \in 1..n
          <6>1. Padded(a, n)[j] = 0 BY <4>1, <5>2, PaddedEmpty
          <6>2. Padded(a, n)[j] = w(j) BY <5>2, <2>5
          <6> QED BY <5>1, <6>1, <6>2, Zenon
        <5>3. CASE j = n + 1 BY <5>1, <5>3, <4>1, Zenon
        <5> QED BY <5>2, <5>3, <3>1
      <4> QED BY <4>4, <4>5
    <3> QED BY <3>2, <3>3
  <2>7. Has(n + 1) BY <2>6
  <2> HIDE DEF Has
  <2> QED BY <2>7, <2>3
<1>8. Has(L)
  <2> HIDE DEF Has
  <2>1. 0..L \subseteq T
    <3> HIDE DEF T
    <3> QED BY <1>1, <1>6, <1>7, InductionUpTo
  <2>2. L \in 0..L /\ L <= L BY <1>1
  <2> QED BY <2>1, <2>2
<1> DEFINE x == [j \in 0..L |-> f[j].x]
<1>9. x \in [0..L -> Below(d)] BY <1>3
<1>10. Q(L) = R.quotient /\ x[L] = R.x BY <1>1, <1>2
<1>11. Divides(x, D, Padded(R.quotient, L), L, d)
  <2>1. x[0] = 0 BY <1>1, <1>4
  <2>2. ASSUME NEW j \in 1..L
        PROVE  Joined(x[j - 1], D[j]) = d * Padded(R.quotient, L)[j] + x[j]
    <3>1. j - 1 \in Nat /\ j - 1 < L /\ (j - 1) + 1 = j /\ j - 1 \in 0..L /\ j \in 0..L
      BY <1>1
    <3>2. Joined(f[j - 1].x, D[j]) = d * Found(f[j - 1], D[j], d) + f[j].x
      BY <3>1, <1>5
    <3>3. Padded(R.quotient, L)[j] = Found(f[j - 1], D[j], d) BY <1>8, <1>10
    <3>4. x[j - 1] = f[j - 1].x /\ x[j] = f[j].x BY <3>1
    <3> HIDE DEF x
    <3> QED BY <3>2, <3>3, <3>4, Zenon
  <2> QED BY <2>1, <2>2 DEF Divides
<1>12. R.x \in Below(d) /\ R.quotient \in Seq(Unit) BY <1>1, <1>2, <1>3
<1>13. Len(R.quotient) <= L /\ Short(R.quotient) BY <1>8, <1>10
<1> HIDE DEF x
<1> QED BY <1>9, <1>10, <1>11, <1>12, <1>13, Zenon DEF L

LEMMA DivisionPadded ==
  ASSUME NEW d \in Divisors, NEW D \in Seq(Unit), NEW M \in Nat, Len(D) <= M,
         NEW R, R = LongDivision(D, d)
  PROVE  \E x \in [0..M -> Below(d)] :
           /\ Divides(x, Padded(D, M), Padded(R.quotient, M), M, d)
           /\ x[M] = R.x
<1> DEFINE L == Len(D)
           s == M - L
           Q == R.quotient
<1>1. L \in Nat BY Zenon, LenProperties
<1>2. PICK z \in [0..L -> Below(d)] : Divides(z, D, Padded(Q, L), L, d) /\ z[L] = R.x
  BY DivisionOfWords, Zenon
<1>3. Q \in Seq(Unit) /\ Len(Q) <= L BY DivisionOfWords, Zenon
<1>4. Len(Q) \in Nat BY <1>3, LenProperties, Zenon
<1> HIDE DEF L, Q
<1>5. s \in Nat /\ s + L = M BY <1>1 DEF L
<1> HIDE DEF s
<1> DEFINE x == [j \in 0..M |-> IF j <= s THEN 0 ELSE z[j - s]]
<1>6. x \in [0..M -> Below(d)]
  <2>1. 0 \in Below(d) BY DEF Below, Divisors
  <2>2. \A j \in 0..M : ~ (j <= s) => j - s \in 0..L BY <1>1, <1>5
  <2> QED BY <2>1, <2>2
<1>7. x[M] = z[L]
  <2>1. M \in 0..M OBVIOUS
  <2>2. CASE M <= s
    <3>1. L = 0 BY <2>2, <1>1, <1>5
    <3>2. z[0] = 0 BY <1>2 DEF Divides
    <3> QED BY <2>1, <2>2, <3>1, <3>2
  <2>3. CASE ~ (M <= s)
    <3>1. M - s = L BY <1>1, <1>5
    <3> QED BY <2>1, <2>3, <3>1
  <2> QED BY <2>2, <2>3
<1>8. \A j \in 0..M : x[j] = IF j <= s THEN 0 ELSE z[j - s] OBVIOUS
<1> HIDE DEF x
<1>9. ASSUME NEW j \in 1..M
      PROVE  Joined(x[j - 1], Padded(D, M)[j]) = d * Padded(Q, M)[j] + x[j]
  <2>1. j \in 0..M /\ j - 1 \in 0..M OBVIOUS
  <2>2. Padded(D, M)[j] = IF j + L <= M THEN 0 ELSE D[j + L - M] BY DEF Padded, L
  <2>3. Padded(Q, M)[j] = IF j + Len(Q) <= M THEN 0 ELSE Q[j + Len(Q) - M] BY DEF Padded
  <2>4. CASE j <= s
    <3>1. j + L <= M /\ j + Len(Q) <= M /\ j - 1 <= s BY <2>4, <1>1, <1>3, <1>4, <1>5
    <3>2. x[j] = 0 /\ x[j - 1] = 0 BY <2>1, <2>4, <3>1, <1>8
    <3>3. Padded(D, M)[j] = 0 /\ Padded(Q, M)[j] = 0 BY <2>2, <2>3, <3>1
    <3>4. Joined(0, 0) = 0 BY DEF Joined
    <3>5. d * 0 = 0 BY DEF Divisors
    <3> QED BY <3>2, <3>3, <3>4, <3>5
  <2>5. CASE ~ (j <= s)
    <3> DEFINE i == j - s
    <3>1. i \in 1..L /\ i + s = j BY <2>5, <1>1, <1>5
    <3> HIDE DEF i
    <3>2. ~ (j + L <= M) /\ j + L - M = i BY <3>1, <1>1, <1>5
    <3>3. Padded(D, M)[j] = D[i] BY <2>2, <3>2
    <3>4. j + Len(Q) <= M <=> i + Len(Q) <= L BY <3>1, <1>1, <1>4, <1>5
    <3>5. j + Len(Q) - M = i + Len(Q) - L BY <3>1, <1>1, <1>4, <1>5
    <3>6. Padded(Q, L)[i] = IF i + Len(Q) <= L THEN 0 ELSE Q[i + Len(Q) - L]
      BY <3>1 DEF Padded
    <3>7. Padded(Q, M)[j] = Padded(Q, L)[i]
      <4>1. CASE i + Len(Q) <= L BY <4>1, <2>3, <3>4, <3>6
      <4>2. CASE ~ (i + Len(Q) <= L) BY <4>2, <2>3, <3>4, <3>5, <3>6
      <4> QED BY <4>1, <4>2
    <3>8. x[j] = z[i] BY <2>1, <2>5, <1>8 DEF i
    <3>9. x[j - 1] = z[i - 1]
      <4>1. CASE i = 1
        <5>1. j - 1 <= s BY <4>1, <3>1, <1>5
        <5>2. z[0] = 0 BY <1>2 DEF Divides
        <5> QED BY <5>1, <5>2, <4>1, <2>1, <1>8
      <4>2. CASE i # 1
        <5>1. ~ (j - 1 <= s) /\ (j - 1) - s = i - 1 BY <4>2, <3>1, <1>1, <1>5
        <5> QED BY <5>1, <2>1, <1>8
      <4> QED BY <4>1, <4>2
    <3>10. Joined(z[i - 1], D[i]) = d * Padded(Q, L)[i] + z[i] BY <3>1, <1>2 DEF Divides
    <3> QED BY <3>3, <3>7, <3>8, <3>9, <3>10, Zenon
  <2> QED BY <2>4, <2>5
<1>10. x[0] = 0
  <2>1. 0 \in 0..M /\ 0 <= s BY <1>5
  <2> QED BY <2>1, <1>8
<1>11. Divides(x, Padded(D, M), Padded(Q, M), M, d) BY <1>9, <1>10 DEF Divides
<1> QED BY <1>2, <1>6, <1>7, <1>11, Zenon DEF Q, L

-----------------------------------------------------------------------------
(* Numbers of bytes. *)

BytesOf(p, M) ==
  [k \in 1..(2 * M) |-> IF k % 2 = 1 THEN p[(k + 1) \div 2] \div 256 ELSE p[k \div 2] % 256]

AreBytes(b, p, M) ==
  /\ b \in Seq(Byte) /\ Len(b) = 2 * M
  /\ \A j \in 1..M : b[2 * j - 1] = p[j] \div 256 /\ b[2 * j] = p[j] % 256

LEMMA BytesOfType ==
  ASSUME NEW M \in Nat, NEW p \in [1..M -> Unit]
  PROVE  AreBytes(BytesOf(p, M), p, M)
<1>1. ASSUME NEW j \in 1..M PROVE p[j] \div 256 \in Byte /\ p[j] % 256 \in Byte
  <2> DEFINE w == p[j]
  <2>1. w \in Nat /\ w <= 65535 BY DEF Unit
  <2> HIDE DEF w
  <2>2. w \div 256 \in Byte /\ w % 256 \in Byte BY <2>1 DEF Byte
  <2> QED BY <2>2 DEF w
<1>2. ASSUME NEW k \in 1..(2 * M)
      PROVE  /\ k % 2 = 1 => (k + 1) \div 2 \in 1..M
             /\ k % 2 # 1 => k \div 2 \in 1..M
  OBVIOUS
<1>3. BytesOf(p, M) \in [1..(2 * M) -> Byte]
  <2>1. ASSUME NEW k \in 1..(2 * M)
        PROVE (IF k % 2 = 1 THEN p[(k + 1) \div 2] \div 256 ELSE p[k \div 2] % 256) \in Byte
    BY <1>1, <1>2
  <2> QED BY <2>1 DEF BytesOf
<1>4. 2 * M \in Nat OBVIOUS
<1>5. BytesOf(p, M) \in Seq(Byte) /\ Len(BytesOf(p, M)) = 2 * M
  <2> DEFINE b == BytesOf(p, M)
             n == 2 * M
  <2>1. b \in [1..n -> Byte] /\ n \in Nat BY <1>3
  <2> HIDE DEF b, n
  <2>2. b \in Seq(Byte) /\ Len(b) = n BY <2>1
  <2> QED BY <2>2 DEF b, n
<1>6. ASSUME NEW j \in 1..M
      PROVE  /\ 2 * j - 1 \in 1..(2 * M) /\ (2 * j - 1) % 2 = 1 /\ ((2 * j - 1) + 1) \div 2 = j
             /\ 2 * j \in 1..(2 * M) /\ (2 * j) % 2 # 1 /\ (2 * j) \div 2 = j
  OBVIOUS
<1>7. ASSUME NEW j \in 1..M
      PROVE  /\ BytesOf(p, M)[2 * j - 1] = p[j] \div 256
             /\ BytesOf(p, M)[2 * j] = p[j] % 256
  <2> DEFINE a == 2 * j - 1
             b == 2 * j
  <2>1. /\ a \in 1..(2 * M) /\ a % 2 = 1 /\ (a + 1) \div 2 = j
        /\ b \in 1..(2 * M) /\ b % 2 # 1 /\ b \div 2 = j
    BY <1>6
  <2> HIDE DEF a, b
  <2>2. BytesOf(p, M)[a] = p[j] \div 256 BY <2>1 DEF BytesOf
  <2>3. BytesOf(p, M)[b] = p[j] % 256 BY <2>1 DEF BytesOf
  <2> QED BY <2>2, <2>3 DEF a, b
<1> QED BY <1>5, <1>7 DEF AreBytes

LEMMA CarryWord ==
  ASSUME NEW d \in Divisors, NEW q \in Unit, NEW w \in Unit, NEW x \in Nat, NEW y \in Nat,
         Joined(y, w) = d * q + x,
         NEW s, s = (q % 256) * d + x, NEW u, u = (q \div 256) * d + s \div 256
  PROVE  s % 256 = w % 256 /\ u % 256 = w \div 256 /\ u \div 256 = y
<1> DEFINE l == q % 256
           h == q \div 256
           wl == w % 256
           wh == w \div 256
           c == s \div 256
           sl == s % 256
<1>1. q \in Nat /\ w \in Nat /\ w <= 65535 BY DEF Unit
<1>2. l \in Nat /\ h \in Nat /\ q = 256 * h + l BY <1>1
<1>3. wl \in Nat /\ wl < 256 /\ wh \in Nat /\ wh < 256 /\ w = 256 * wh + wl BY <1>1
<1>4. s = l * d + x /\ u = h * d + c OBVIOUS
<1>5. 65536 * y + w = d * q + x BY DEF Joined
<1> HIDE DEF l, h, wl, wh
<1>6. s \in Nat BY <1>2, <1>4 DEF Divisors
<1>7. c \in Nat /\ sl \in Nat /\ sl < 256 /\ s = 256 * c + sl BY <1>6
<1> HIDE DEF c, sl
<1>8. sl = wl /\ u = 256 * y + wh
  <2>1. CASE d = 2 BY <2>1, <1>2, <1>3, <1>4, <1>5, <1>7
  <2>2. CASE d = 10 BY <2>2, <1>2, <1>3, <1>4, <1>5, <1>7
  <2>3. CASE d = 16 BY <2>3, <1>2, <1>3, <1>4, <1>5, <1>7
  <2> QED BY <2>1, <2>2, <2>3 DEF Divisors
<1>9. u % 256 = wh /\ u \div 256 = y BY <1>3, <1>8
<1> QED BY <1>8, <1>9 DEF sl, wl, wh

CarrySolves(f, b, d, g) ==
  f = [k \in 0..Len(b) |-> IF k = 0 THEN 256 * g
                           ELSE b[Len(b) + 1 - k] * d + f[k - 1] \div 256]

LEMMA TimesPlusIsChosen ==
  ASSUME NEW b, NEW d, NEW g
  PROVE  TimesPlus(b, d, g) =
           [k \in 1..Len(b) |-> (CHOOSE f : CarrySolves(f, b, d, g))[Len(b) + 1 - k] % 256]
BY DEF TimesPlus, CarrySolves

Carrying(f, b, d, g, sum) ==
  /\ sum = [k \in 1..Len(b) |-> f[Len(b) + 1 - k] % 256]
  /\ f[0] = 256 * g
  /\ \A n \in Nat : n < Len(b) => f[n + 1] = b[Len(b) - n] * d + f[n] \div 256

LEMMA CarryLoop ==
  ASSUME NEW d \in Divisors, NEW b \in Seq(Byte), NEW g \in Nat
  PROVE  \E f : Carrying(f, b, d, g, TimesPlus(b, d, g))
<1> DEFINE L == Len(b)
           Turn(n, a) == b[L + 1 - n] * d + a \div 256
           step == [n \in 1..L |-> [a \in Nat |-> Turn(n, a)]]
           v == 256 * g
<1>0. L \in Nat BY Zenon, LenProperties
<1>1. L \in Nat /\ v \in Nat BY <1>0
<1>2. \A n \in 1..L : L + 1 - n \in 1..L BY <1>1
<1>3. \A n \in 1..L : b[L + 1 - n] \in Nat
  <2>1. \A k \in 1..L : b[k] \in Byte OBVIOUS
  <2> QED BY <2>1, <1>2 DEF Byte
<1>4. ASSUME NEW n \in 1..L, NEW a \in Nat PROVE Turn(n, a) \in Nat
  <2> DEFINE e == b[L + 1 - n]
             c == a \div 256
  <2>1. e \in Nat /\ c \in Nat BY <1>3, <1>4
  <2> HIDE DEF e, c
  <2>2. e * d + c \in Nat BY <2>1 DEF Divisors
  <2> QED BY <2>2 DEF e, c
<1>5. \A n \in 1..L : \A a \in Nat : step[n][a] = Turn(n, a) OBVIOUS
<1> HIDE DEF step, v, Turn
<1>6. \A n \in 1..L : \A a \in Nat : step[n][a] \in Nat BY <1>4, <1>5
<1> HIDE DEF L
<1>7. PICK h \in [0..L -> Nat] : Loops(h, L, v, step) BY <1>1, <1>6, RecursionUpTo
<1>8. CarrySolves(h, b, d, g)
  <2>1. ASSUME NEW k \in 0..L
        PROVE  h[k] = IF k = 0 THEN v ELSE Turn(k, h[k - 1])
    <3>1. CASE k = 0
      <4>1. h[0] = v BY <1>7 DEF Loops
      <4> QED BY <3>1, <4>1
    <3>2. CASE k # 0
      <4>1. k - 1 \in Nat /\ k - 1 < L /\ (k - 1) + 1 = k /\ k \in 1..L /\ k - 1 \in 0..L
        BY <3>2, <1>1
      <4>2. h[k] = step[k][h[k - 1]] BY <4>1, <1>7 DEF Loops
      <4>3. h[k - 1] \in Nat BY <4>1
      <4> QED BY <3>2, <4>1, <4>2, <4>3, <1>5
    <3> QED BY <3>1, <3>2
  <2>2. h = [k \in 0..L |-> h[k]] OBVIOUS
  <2> QED BY <2>1, <2>2 DEF CarrySolves, v, Turn, L
<1> DEFINE f == CHOOSE z : CarrySolves(z, b, d, g)
<1>9. CarrySolves(f, b, d, g) BY <1>8
<1>10. TimesPlus(b, d, g) = [k \in 1..L |-> f[L + 1 - k] % 256]
  BY TimesPlusIsChosen DEF L
<1> HIDE DEF f
<1>11. f[0] = 256 * g
  <2>1. 0 \in 0..L BY <1>1
  <2> QED BY <2>1, <1>9 DEF CarrySolves, L
<1>12. ASSUME NEW n \in Nat, n < L PROVE f[n + 1] = b[L - n] * d + f[n] \div 256
  <2>1. n + 1 \in 0..L /\ n + 1 # 0 /\ (n + 1) - 1 = n /\ L + 1 - (n + 1) = L - n
    BY <1>1, <1>12
  <2>2. f[n + 1] = IF n + 1 = 0 THEN 256 * g
                   ELSE b[L + 1 - (n + 1)] * d + f[(n + 1) - 1] \div 256
    BY <2>1, <1>9 DEF CarrySolves, L
  <2> QED BY <2>1, <2>2
<1>13. Carrying(f, b, d, g, TimesPlus(b, d, g)) BY <1>10, <1>11, <1>12 DEF Carrying, L
<1> QED BY <1>13, Zenon

(* A division undone: the quotient times d plus the remainder.             *)
LEMMA DivisionUndone ==
  ASSUME NEW d \in Divisors, NEW M \in Nat, NEW p \in [1..M -> Unit], NEW q \in [1..M -> Unit],
         NEW x \in [0..M -> Below(d)], Divides(x, p, q, M, d)
  PROVE  TimesPlus(BytesOf(q, M), d, x[M]) = BytesOf(p, M)
<1> DEFINE b == BytesOf(q, M)
           c == BytesOf(p, M)
           L == 2 * M
<1>1. /\ b \in Seq(Byte) /\ Len(b) = L
      /\ \A j \in 1..M : b[2 * j - 1] = q[j] \div 256 /\ b[2 * j] = q[j] % 256
  <2>1. AreBytes(b, q, M) BY BytesOfType, Zenon
  <2> QED BY <2>1 DEF AreBytes
<1>2. /\ c \in Seq(Byte) /\ Len(c) = L
      /\ \A j \in 1..M : c[2 * j - 1] = p[j] \div 256 /\ c[2 * j] = p[j] % 256
  <2>1. AreBytes(c, p, M) BY BytesOfType, Zenon
  <2> QED BY <2>1 DEF AreBytes
<1>3. \A j \in 0..M : x[j] \in Nat BY DEF Below
<1>4. M \in 0..M /\ x[M] \in Nat BY <1>3
<1> HIDE DEF b, c
<1>5. PICK f : Carrying(f, b, d, x[M], TimesPlus(b, d, x[M]))
  BY <1>1, <1>4, CarryLoop, Zenon
<1>6. f[0] = 256 * x[M] BY <1>5 DEF Carrying
<1>7. \A n \in Nat : n < L => f[n + 1] = b[L - n] * d + f[n] \div 256
  BY <1>1, <1>5 DEF Carrying
<1> DEFINE T == {t \in Nat : t <= M => f[2 * t] \div 256 = x[M - t]}
<1>8. ASSUME NEW t \in Nat, t < M, t \in T
      PROVE  /\ f[2 * t + 1] % 256 = p[M - t] % 256
             /\ f[2 * t + 2] % 256 = p[M - t] \div 256
             /\ f[2 * t + 2] \div 256 = x[M - t - 1]
  <2> DEFINE j == M - t
             m == 2 * t
  <2>1. /\ j \in 1..M /\ j \in 0..M /\ j - 1 \in 0..M
        /\ m \in Nat /\ m < L /\ m + 1 \in Nat /\ m + 1 < L
        /\ L - m = 2 * j /\ L - (m + 1) = 2 * j - 1 /\ (m + 1) + 1 = m + 2
    BY <1>8
  <2>2. f[m] \div 256 = x[j]
    <3>1. t <= M BY <1>8
    <3> QED BY <3>1, <1>8
  <2> HIDE DEF j, m, T, L
  <2>3. f[m + 1] = (q[j] % 256) * d + x[j]
    <3>1. f[m + 1] = b[L - m] * d + f[m] \div 256 BY <2>1, <1>7
    <3>2. b[L - m] = q[j] % 256 BY <2>1, <1>1
    <3> QED BY <3>1, <3>2, <2>2
  <2>4. f[m + 2] = (q[j] \div 256) * d + f[m + 1] \div 256
    <3>1. f[(m + 1) + 1] = b[L - (m + 1)] * d + f[m + 1] \div 256 BY <2>1, <1>7
    <3>2. b[L - (m + 1)] = q[j] \div 256 BY <2>1, <1>1
    <3> QED BY <3>1, <3>2, <2>1
  <2>5. Joined(x[j - 1], p[j]) = d * q[j] + x[j] BY <2>1 DEF Divides
  <2>6. q[j] \in Unit /\ p[j] \in Unit /\ x[j] \in Nat /\ x[j - 1] \in Nat BY <2>1, <1>3
  <2>7. /\ f[m + 1] % 256 = p[j] % 256
        /\ f[m + 2] % 256 = p[j] \div 256 /\ f[m + 2] \div 256 = x[j - 1]
    <3> DEFINE qq == q[j]
               pp == p[j]
               xx == x[j]
               yy == x[j - 1]
               s == f[m + 1]
               u == f[m + 2]
    <3>1. /\ qq \in Unit /\ pp \in Unit /\ xx \in Nat /\ yy \in Nat
          /\ Joined(yy, pp) = d * qq + xx
          /\ s = (qq % 256) * d + xx /\ u = (qq \div 256) * d + s \div 256
      BY <2>3, <2>4, <2>5, <2>6
    <3> HIDE DEF qq, pp, xx, yy, s, u
    <3>2. s % 256 = pp % 256 /\ u % 256 = pp \div 256 /\ u \div 256 = yy
      BY <3>1, CarryWord
    <3> QED BY <3>2 DEF pp, yy, s, u
  <2> QED BY <2>7 DEF j, m
<1>9. 0..M \subseteq T
  <2>1. 0 \in T
    <3>1. (256 * x[M]) \div 256 = x[M] BY <1>4
    <3>2. 2 * 0 = 0 /\ M - 0 = M OBVIOUS
    <3> QED BY <3>1, <3>2, <1>6
  <2>2. ASSUME NEW t \in Nat, t < M, t \in T PROVE t + 1 \in T
    <3>1. f[2 * t + 2] \div 256 = x[M - t - 1] BY <2>2, <1>8
    <3>2. 2 * (t + 1) = 2 * t + 2 /\ M - (t + 1) = M - t - 1 /\ t + 1 \in Nat OBVIOUS
    <3> QED BY <3>1, <3>2
  <2> HIDE DEF T
  <2> QED BY <2>1, <2>2, InductionUpTo
<1>10. ASSUME NEW k \in 1..L PROVE f[L + 1 - k] % 256 = c[k]
  <2>1. CASE k % 2 = 1
    <3> DEFINE j == (k + 1) \div 2
               t == M - j
    <3>1. /\ j \in 1..M /\ k = 2 * j - 1 /\ t \in Nat /\ t < M /\ t \in 0..M
          /\ L + 1 - k = 2 * t + 2 /\ M - t = j
      BY <2>1
    <3> HIDE DEF j, t, T, L
    <3>2. f[2 * t + 2] % 256 = p[M - t] \div 256 BY <3>1, <1>8, <1>9
    <3>3. c[k] = p[j] \div 256 BY <3>1, <1>2
    <3> QED BY <3>1, <3>2, <3>3
  <2>2. CASE k % 2 # 1
    <3> DEFINE j == k \div 2
               t == M - j
    <3>1. /\ j \in 1..M /\ k = 2 * j /\ t \in Nat /\ t < M /\ t \in 0..M
          /\ L + 1 - k = 2 * t + 1 /\ M - t = j
      BY <2>2
    <3> HIDE DEF j, t, T, L
    <3>2. f[2 * t + 1] % 256 = p[M - t] % 256 BY <3>1, <1>8, <1>9
    <3>3. c[k] = p[j] % 256 BY <3>1, <1>2
    <3> QED BY <3>1, <3>2, <3>3
  <2> QED BY <2>1, <2>2
<1> HIDE DEF L
<1>11. TimesPlus(b, d, x[M]) = [k \in 1..L |-> c[k]] BY <1>1, <1>5, <1>10 DEF Carrying
<1>12. c = [k \in 1..L |-> c[k]] BY <1>2
<1> QED BY <1>11, <1>12 DEF b, c

-----------------------------------------------------------------------------
(* The divisions of rstr2any, as many as the input has bits at most. *)

PowerOf2 == <<1, 2, 4, 8, 16, 32, 64, 128, 256, 512, 1024, 2048, 4096, 8192,
              16384, 32768, 65536>>

LEMMA PowersOf2 ==
  /\ \A b \in 0..16 : PowerOf2[b + 1] \in Nat
  /\ \A b \in 0..15 : PowerOf2[b + 2] = 2 * PowerOf2[b + 1]
  /\ PowerOf2[1] = 1
BY DEF PowerOf2

LEMMA PowerOfWord == PowerOf2[17] = 65536
BY DEF PowerOf2

(* The number has 16 a + b bits. *)
Fits(p, M, a, b) ==
  \A j \in 1..M : /\ j + a < M => p[j] = 0
                  /\ j + a = M => p[j] < PowerOf2[b + 1]

LEMMA FitsHalf ==
  ASSUME NEW d \in Divisors, NEW M \in Nat, NEW p \in [1..M -> Unit], NEW q \in [1..M -> Unit],
         NEW x \in [0..M -> Below(d)], Divides(x, p, q, M, d),
         NEW a \in Nat, NEW b \in 0..15, Fits(p, M, a, b + 1)
  PROVE  Fits(q, M, a, b)
<1>1. ASSUME NEW j \in 1..M
      PROVE  /\ x[j] \in Nat /\ q[j] \in Nat /\ p[j] \in Nat
             /\ x[j - 1] = 0 => p[j] = d * q[j] + x[j]
  <2>1. j \in 0..M OBVIOUS
  <2>2. x[j] \in Nat /\ q[j] \in Nat /\ p[j] \in Nat BY <2>1 DEF Below, Unit
  <2>3. Joined(x[j - 1], p[j]) = d * q[j] + x[j] BY DEF Divides
  <2>4. x[j - 1] = 0 => Joined(x[j - 1], p[j]) = p[j] BY <2>2 DEF Joined
  <2> QED BY <2>2, <2>3, <2>4
<1>2. ASSUME NEW j \in 1..M, x[j - 1] = 0, p[j] = 0 PROVE q[j] = 0 /\ x[j] = 0
  <2> DEFINE qq == q[j]
             xx == x[j]
  <2>1. qq \in Nat /\ xx \in Nat /\ 0 = d * qq + xx BY <1>1, <1>2
  <2> HIDE DEF qq, xx
  <2>2. qq = 0 /\ xx = 0 BY <2>1 DEF Divisors
  <2> QED BY <2>2 DEF qq, xx
<1> DEFINE T == {j \in Nat : j + a < M => x[j] = 0}
<1>3. 0..M \subseteq T
  <2>1. 0 \in T BY DEF Divides
  <2>2. ASSUME NEW j \in Nat, j < M, j \in T PROVE j + 1 \in T
    <3>1. SUFFICES ASSUME (j + 1) + a < M PROVE x[j + 1] = 0 OBVIOUS
    <3>2. j + a < M /\ j + 1 \in 1..M /\ (j + 1) - 1 = j BY <3>1, <2>2
    <3>3. x[j] = 0 BY <3>2, <2>2
    <3>4. p[j + 1] = 0 BY <3>1, <3>2 DEF Fits
    <3> QED BY <3>2, <3>3, <3>4, <1>2
  <2> HIDE DEF T
  <2> QED BY <2>1, <2>2, InductionUpTo
<1>4. ASSUME NEW j \in 1..M, j + a <= M PROVE x[j - 1] = 0
  <2>1. j - 1 \in 0..M /\ (j - 1) + a < M BY <1>4
  <2>2. j - 1 \in T BY <2>1, <1>3
  <2> QED BY <2>1, <2>2
<1>5. ASSUME NEW j \in 1..M, j + a < M PROVE q[j] = 0
  <2>1. p[j] = 0 BY <1>5 DEF Fits
  <2>2. x[j - 1] = 0 BY <1>4, <1>5
  <2> QED BY <2>1, <2>2, <1>2
<1>6. ASSUME NEW j \in 1..M, j + a = M PROVE q[j] < PowerOf2[b + 1]
  <2> DEFINE pp == p[j]
             qq == q[j]
             xx == x[j]
             e == PowerOf2[b + 1]
  <2>1. pp < PowerOf2[(b + 1) + 1] BY <1>6 DEF Fits
  <2>2. (b + 1) + 1 = b + 2 /\ b \in 0..16 OBVIOUS
  <2>3. PowerOf2[b + 2] = 2 * e /\ e \in Nat BY <2>2, PowersOf2, Zenon
  <2>4. x[j - 1] = 0 BY <1>4, <1>6
  <2>5. pp \in Nat /\ qq \in Nat /\ xx \in Nat /\ pp = d * qq + xx BY <2>4, <1>1
  <2>6. pp < 2 * e BY <2>1, <2>2, <2>3
  <2> HIDE DEF pp, qq, xx, e
  <2>7. qq < e
    <3>1. CASE d = 2 BY <3>1, <2>3, <2>5, <2>6
    <3>2. CASE d = 10 BY <3>2, <2>3, <2>5, <2>6
    <3>3. CASE d = 16 BY <3>3, <2>3, <2>5, <2>6
    <3> QED BY <3>1, <3>2, <3>3 DEF Divisors
  <2> QED BY <2>7 DEF qq, e
<1> QED BY <1>5, <1>6 DEF Fits

FitsIn(p, M, m) == Fits(p, M, m \div 16, m % 16)

LEMMA FitsNext ==
  ASSUME NEW d \in Divisors, NEW M \in Nat, NEW p \in [1..M -> Unit], NEW q \in [1..M -> Unit],
         NEW x \in [0..M -> Below(d)], Divides(x, p, q, M, d),
         NEW m \in Nat, FitsIn(p, M, m + 1)
  PROVE  FitsIn(q, M, m)
<1> DEFINE a == m \div 16
           b == m % 16
           aa == (m + 1) \div 16
           bb == (m + 1) % 16
<1>1. a \in Nat /\ b \in 0..15 OBVIOUS
<1>2. (aa = a /\ bb = b + 1) \/ (b = 15 /\ aa = a + 1 /\ bb = 0)
  <2>1. m = 16 * a + b OBVIOUS
  <2>2. aa \in Nat /\ bb \in 0..15 /\ m + 1 = 16 * aa + bb OBVIOUS
  <2> HIDE DEF a, b, aa, bb
  <2> QED BY <1>1, <2>1, <2>2
<1>3. Fits(p, M, aa, bb) BY DEF FitsIn
<1> HIDE DEF a, b, aa, bb
<1>4. Fits(p, M, a, b + 1)
  <2>1. CASE aa = a /\ bb = b + 1 BY <2>1, <1>3
  <2>2. CASE b = 15 /\ aa = a + 1 /\ bb = 0
    <3>1. b + 1 = 16 /\ (b + 1) + 1 = 17 BY <2>2
    <3>2. Fits(p, M, a + 1, 0) BY <2>2, <1>3
    <3>3. ASSUME NEW j \in 1..M, j + a < M PROVE p[j] = 0
      <4>1. j + (a + 1) < M \/ j + (a + 1) = M BY <3>3, <1>1
      <4>2. p[j] \in Nat BY DEF Unit
      <4>3. CASE j + (a + 1) = M
        <5>1. p[j] < PowerOf2[0 + 1] BY <4>3, <3>2 DEF Fits
        <5>2. 0 + 1 = 1 /\ PowerOf2[1] = 1 BY PowersOf2
        <5> QED BY <4>2, <5>1, <5>2
      <4> QED BY <4>1, <4>3, <3>2 DEF Fits
    <3>4. ASSUME NEW j \in 1..M PROVE p[j] < PowerOf2[(b + 1) + 1]
      <4>1. p[j] \in Nat /\ p[j] < 65536 BY DEF Unit
      <4> QED BY <4>1, <3>1, PowerOfWord
    <3> QED BY <3>3, <3>4 DEF Fits
  <2> QED BY <2>1, <2>2, <1>2
<1>5. Fits(q, M, a, b) BY <1>1, <1>4, FitsHalf
<1> QED BY <1>5 DEF FitsIn, a, b

LEMMA FitsNone ==
  ASSUME NEW M \in Nat, NEW D \in Seq(Unit), Len(D) <= M, Short(D),
         FitsIn(Padded(D, M), M, 0)
  PROVE  D = <<>>
<1>1. SUFFICES ASSUME D # <<>> PROVE FALSE OBVIOUS
<1> DEFINE L == Len(D)
           p == Padded(D, M)
<1>2. L \in Nat /\ L >= 1 BY <1>1
<1>3. Fits(p, M, 0, 0)
  <2>1. 0 \div 16 = 0 /\ 0 % 16 = 0 OBVIOUS
  <2> QED BY <2>1 DEF FitsIn
<1> DEFINE j == M - L + 1
<1>4. j \in 1..M /\ ~ (j + L <= M) /\ j + L - M = 1 BY <1>2
<1>5. p[j] = D[1] BY <1>4 DEF Padded
<1>6. p[j] \in Nat
  <2>1. p \in [1..M -> Unit] BY PaddedType
  <2>2. p[j] \in Unit BY <2>1, <1>4
  <2> QED BY <2>2 DEF Unit
<1> HIDE DEF p, j
<1>7. p[j] = 0
  <2>1. j + 0 < M \/ j + 0 = M BY <1>4
  <2>2. CASE j + 0 = M
    <3>1. p[j] < PowerOf2[0 + 1] BY <2>2, <1>3, <1>4 DEF Fits
    <3>2. 0 + 1 = 1 /\ PowerOf2[1] = 1 BY PowersOf2
    <3> QED BY <3>1, <3>2, <1>6
  <2> QED BY <2>1, <2>2, <1>3, <1>4 DEF Fits
<1>8. D[1] > 0 BY <1>1 DEF Short
<1> QED BY <1>5, <1>7, <1>8

DividedState == [dividend : Seq(Unit), remainders : Seq(Nat)]

LEMMA DividedIs ==
  ASSUME NEW d \in Divisors, NEW a \in DividedState
  PROVE  /\ Divided(a, d) \in DividedState
         /\ a.dividend = <<>> => Divided(a, d) = a
         /\ a.dividend # <<>> =>
              /\ Divided(a, d).dividend = LongDivision(a.dividend, d).quotient
              /\ Divided(a, d).remainders = Append(a.remainders, LongDivision(a.dividend, d).x)
<1>1. CASE a.dividend = <<>>
  <2>1. Divided(a, d) = a BY <1>1 DEF Divided
  <2> QED BY <1>1, <2>1
<1>2. CASE a.dividend # <<>>
  <2> DEFINE D == a.dividend
             R == a.remainders
             r == LongDivision(D, d)
             E == Divided(a, d)
  <2>1. D \in Seq(Unit) /\ R \in Seq(Nat) BY DEF DividedState
  <2>2. r.quotient \in Seq(Unit) /\ r.x \in Nat
    <3> HIDE DEF D
    <3>1. r.quotient \in Seq(Unit) /\ r.x \in Below(d) BY <2>1, DivisionOfWords, Zenon
    <3> QED BY <3>1 DEF Below
  <2>3. E = [dividend |-> r.quotient, remainders |-> Append(R, r.x)]
    BY <1>2 DEF Divided
  <2> HIDE DEF r, R, E
  <2>4. Append(R, r.x) \in Seq(Nat) BY <2>1, <2>2, AppendProperties
  <2>5. E \in DividedState BY <2>2, <2>3, <2>4 DEF DividedState
  <2>6. E.dividend = r.quotient /\ E.remainders = Append(R, r.x) BY <2>3
  <2> QED BY <1>2, <2>5, <2>6 DEF E, r, R
<1> QED BY <1>1, <1>2

RemainderSolves(f, D, d) ==
  f = [n \in Nat |-> IF n = 0 THEN [dividend |-> D, remainders |-> <<>>]
                     ELSE Divided(f[n - 1], d)]

LEMMA RemaindersAreChosen ==
  ASSUME NEW D, NEW d
  PROVE  Remainders(D, d) = (CHOOSE f : RemainderSolves(f, D, d))[16 * Len(D)].remainders
BY DEF Remainders, RemainderSolves

Remaining(f, D, d, R) ==
  /\ R = f[16 * Len(D)].remainders
  /\ f[0].dividend = D /\ f[0].remainders = <<>>
  /\ \A n \in Nat : f[n] \in DividedState /\ f[n + 1] = Divided(f[n], d)

LEMMA RemainderLoop ==
  ASSUME NEW d \in Divisors, NEW D \in Seq(Unit)
  PROVE  \E f : Remaining(f, D, d, Remainders(D, d))
<1> DEFINE V == DividedState
           v == [dividend |-> D, remainders |-> <<>>]
           step == [a \in V |-> Divided(a, d)]
<1>1. v \in V BY DEF DividedState
<1>2. \A a \in V : Divided(a, d) \in V BY DividedIs
<1>3. \A a \in V : step[a] = Divided(a, d) OBVIOUS
<1>13. \A a \in V : step[a] \in V BY <1>2, <1>3
<1> HIDE DEF V, v, step
<1>4. PICK g \in [Nat -> V] : Iterates(g, v, step) BY <1>1, <1>13, RecursionOnNat
<1>5. g[0] = v /\ \A n \in Nat : g[n] \in V /\ g[n + 1] = Divided(g[n], d)
  BY <1>3, <1>4 DEF Iterates
<1>6. RemainderSolves(g, D, d)
  <2>1. ASSUME NEW n \in Nat
        PROVE  g[n] = IF n = 0 THEN v ELSE Divided(g[n - 1], d)
    <3>1. CASE n # 0
      <4>1. n - 1 \in Nat /\ (n - 1) + 1 = n BY <3>1
      <4> QED BY <3>1, <4>1, <1>5
    <3> QED BY <3>1, <1>5
  <2>2. g = [n \in Nat |-> g[n]] BY <1>4
  <2> QED BY <2>1, <2>2 DEF RemainderSolves, v
<1> DEFINE f == CHOOSE h : RemainderSolves(h, D, d)
<1>7. RemainderSolves(f, D, d) BY <1>6
<1>8. Remainders(D, d) = f[16 * Len(D)].remainders BY RemaindersAreChosen, Zenon
<1> HIDE DEF f
<1>9. f[0] = v BY <1>7 DEF RemainderSolves, v
<1>10. ASSUME NEW n \in Nat PROVE f[n + 1] = Divided(f[n], d)
  <2>1. n + 1 \in Nat /\ n + 1 # 0 /\ (n + 1) - 1 = n OBVIOUS
  <2> QED BY <2>1, <1>7 DEF RemainderSolves
<1>11. \A n \in Nat : f[n] \in V
  <2> DEFINE N == {n \in Nat : f[n] \in V}
  <2>1. 0 \in N BY <1>1, <1>9
  <2>2. ASSUME NEW n \in Nat, n \in N PROVE n + 1 \in N
    <3>1. Divided(f[n], d) \in V BY <2>2, <1>2
    <3>2. f[n + 1] \in V BY <3>1, <1>10
    <3> QED BY <3>2
  <2>3. Nat \subseteq N
    <3> HIDE DEF N
    <3> QED BY <2>1, <2>2, InductionOnNat
  <2> QED BY <2>3
<1>12. f[0].dividend = D /\ f[0].remainders = <<>> BY <1>9 DEF v
<1>14. Remaining(f, D, d, Remainders(D, d)) BY <1>8, <1>10, <1>11, <1>12 DEF Remaining, V
<1> QED BY <1>14

(* The dividends G[0], G[1], ..., G[N] = 0 and the remainders R between    *)
(* them.                                                                   *)
Divisions(G, N, R, D, d) ==
  /\ G[0] = D /\ G[N] = <<>>
  /\ \A k \in 0..N : G[k] \in Seq(Unit) /\ Len(G[k]) <= Len(D)
  /\ R \in Seq(Nat) /\ Len(R) = N
  /\ \A k \in Nat : k < N => /\ G[k] # <<>> /\ (k > 0 => Short(G[k]))
                             /\ G[k + 1] = LongDivision(G[k], d).quotient
                             /\ R[k + 1] = LongDivision(G[k], d).x

LEMMA DivisionsEnd ==
  ASSUME NEW d \in Divisors, NEW D \in Seq(Unit), NEW f, NEW R, Remaining(f, D, d, R),
         NEW M \in Nat, M = Len(D)
  PROVE  /\ \A n \in Nat : Len(f[n].dividend) <= M /\ (n > 0 => Short(f[n].dividend))
         /\ f[16 * M].dividend = <<>>
<1> DEFINE E(n) == f[n].dividend
           K == 16 * M
           Good(n) == /\ Len(E(n)) <= M /\ (n > 0 => Short(E(n)))
                      /\ n <= K => FitsIn(Padded(E(n), M), M, K - n)
           N == {n \in Nat : Good(n)}
<1>0. K \in Nat OBVIOUS
<1>1. ASSUME NEW n \in Nat
      PROVE  /\ E(n) \in Seq(Unit)
             /\ E(n) = <<>> => E(n + 1) = E(n)
             /\ E(n) # <<>> => E(n + 1) = LongDivision(E(n), d).quotient
  <2>1. f[n] \in DividedState /\ f[n + 1] = Divided(f[n], d) BY DEF Remaining
  <2>2. f[n].dividend \in Seq(Unit) BY <2>1 DEF DividedState
  <2>3. /\ f[n].dividend = <<>> => Divided(f[n], d) = f[n]
        /\ f[n].dividend # <<>> =>
             Divided(f[n], d).dividend = LongDivision(f[n].dividend, d).quotient
    BY <2>1, DividedIs
  <2> QED BY <2>1, <2>2, <2>3
<1>2. E(0) = D BY DEF Remaining
<1>3. Good(0)
  <2>1. Len(E(0)) <= M BY <1>2
  <2>2. FitsIn(Padded(E(0), M), M, K)
    <3>1. K \div 16 = M /\ K % 16 = 0 OBVIOUS
    <3>2. \A j \in 1..M : ~ (j + M < M) /\ ~ (j + M = M) OBVIOUS
    <3> HIDE DEF E, K
    <3>3. Fits(Padded(E(0), M), M, M, 0) BY <3>2 DEF Fits
    <3> QED BY <3>1, <3>3 DEF FitsIn
  <2>3. K - 0 = K /\ ~ (0 > 0) OBVIOUS
  <2> HIDE DEF E, K
  <2> QED BY <2>1, <2>2, <2>3
<1> HIDE DEF E, K
<1>4. ASSUME NEW n \in Nat, Good(n) PROVE Good(n + 1)
  <2> DEFINE a == E(n)
             b == E(n + 1)
  <2>1. a \in Seq(Unit) /\ Len(a) <= M BY <1>1, <1>4
  <2>2. n + 1 <= K => n <= K /\ K - (n + 1) \in Nat /\ (K - (n + 1)) + 1 = K - n BY <1>0
  <2>3. CASE a = <<>>
    <3>1. b = <<>> BY <2>3, <1>1
    <3>2. Len(b) <= M /\ Short(b) BY <3>1 DEF Short
    <3>3. \A j \in 1..M : Padded(b, M)[j] = 0 BY <3>1, PaddedEmpty
    <3>4. ASSUME n + 1 <= K PROVE FitsIn(Padded(b, M), M, K - (n + 1))
      <4> DEFINE m == K - (n + 1)
                 e == m % 16
      <4>1. m \in Nat BY <2>2, <3>4
      <4>2. e \in 0..16 BY <4>1
      <4> HIDE DEF m, e
      <4>3. PowerOf2[e + 1] > 0
        <5> DEFINE U == {i \in Nat : PowerOf2[i + 1] \in Nat /\ PowerOf2[i + 1] > 0}
        <5>1. 0 \in U BY PowersOf2
        <5>2. ASSUME NEW i \in Nat, i < 16, i \in U PROVE i + 1 \in U
          <6>1. i \in 0..15 /\ (i + 1) + 1 = i + 2 BY <5>2
          <6>2. PowerOf2[i + 2] = 2 * PowerOf2[i + 1] BY <6>1, PowersOf2, Zenon
          <6> QED BY <6>1, <6>2, <5>2
        <5>3. 0..16 \subseteq U
          <6> HIDE DEF U
          <6> QED BY <5>1, <5>2, InductionUpTo
        <5> QED BY <4>2, <5>3
      <4>4. FitsIn(Padded(b, M), M, m) BY <3>3, <4>3 DEF FitsIn, Fits, e
      <4> QED BY <4>4 DEF m
    <3> QED BY <3>2, <3>4
  <2>4. CASE a # <<>>
    <3> DEFINE r == LongDivision(a, d)
    <3>1. b = r.quotient BY <2>4, <1>1
    <3> HIDE DEF a, b
    <3>2. r.quotient \in Seq(Unit) /\ Len(r.quotient) <= Len(a) /\ Short(r.quotient)
      BY <2>1, DivisionOfWords, Zenon
    <3>3. PICK x \in [0..M -> Below(d)] :
            Divides(x, Padded(a, M), Padded(r.quotient, M), M, d)
      BY <2>1, DivisionPadded, Zenon
    <3> HIDE DEF r
    <3>4. b \in Seq(Unit) /\ Len(b) <= M /\ Short(b)
      <4>1. Len(b) \in Nat /\ Len(a) \in Nat BY <3>1, <3>2, <2>1, LenProperties, Zenon
      <4> QED BY <4>1, <3>1, <3>2, <2>1
    <3>5. ASSUME n + 1 <= K PROVE FitsIn(Padded(b, M), M, K - (n + 1))
      <4> DEFINE m == K - (n + 1)
                 p == Padded(a, M)
                 q == Padded(b, M)
      <4>1. m \in Nat /\ m + 1 = K - n /\ n <= K BY <2>2, <3>5
      <4>2. FitsIn(p, M, m + 1) BY <4>1, <1>4 DEF a
      <4>3. p \in [1..M -> Unit] /\ q \in [1..M -> Unit] BY <2>1, <3>4, PaddedType
      <4>4. Divides(x, p, q, M, d) BY <3>1, <3>3
      <4> HIDE DEF m, p, q
      <4>5. FitsIn(q, M, m) BY <4>1, <4>2, <4>3, <4>4, FitsNext
      <4> QED BY <4>5 DEF q, m
    <3> QED BY <3>4, <3>5 DEF b
  <2> QED BY <2>3, <2>4
<1>5. Nat \subseteq N
  <2>1. 0 \in N BY <1>3
  <2>2. ASSUME NEW n \in Nat, n \in N PROVE n + 1 \in N
    <3>1. Good(n) /\ n + 1 \in Nat BY <2>2
    <3> HIDE DEF Good
    <3>2. Good(n + 1) BY <3>1, <1>4
    <3> QED BY <3>1, <3>2
  <2> HIDE DEF N
  <2> QED BY <2>1, <2>2, InductionOnNat
<1>6. \A n \in Nat : Good(n)
  <2> HIDE DEF Good
  <2> QED BY <1>5
<1>7. E(K) = <<>>
  <2>1. CASE M = 0
    <3>1. K = 0 BY <2>1 DEF K
    <3>2. Len(D) = 0 BY <2>1
    <3> QED BY <3>1, <3>2, <1>2
  <2>2. CASE M # 0
    <3>1. K > 0 /\ K <= K /\ K - K = 0 BY <2>2 DEF K
    <3>2. Len(E(K)) <= M /\ Short(E(K)) /\ FitsIn(Padded(E(K), M), M, 0)
      BY <3>1, <1>0, <1>6
    <3> QED BY <3>2, <1>0, <1>1, FitsNone, Zenon
  <2> QED BY <2>1, <2>2
<1>8. \A n \in Nat : Len(E(n)) <= M /\ (n > 0 => Short(E(n))) BY <1>6
<1> QED BY <1>7, <1>8 DEF E, K

LEMMA DivisionsOf ==
  ASSUME NEW d \in Divisors, NEW D \in Seq(Unit)
  PROVE  \E N \in Nat : \E G : Divisions(G, N, Remainders(D, d), D, d)
<1> DEFINE M == Len(D)
           K == 16 * M
           R == Remainders(D, d)
<1>0. M \in Nat BY LenProperties, Zenon
<1>1. K \in Nat BY <1>0
<1>2. PICK f : Remaining(f, D, d, R) BY RemainderLoop
<1>3. /\ \A n \in Nat : Len(f[n].dividend) <= M /\ (n > 0 => Short(f[n].dividend))
      /\ f[K].dividend = <<>>
  BY <1>0, <1>2, DivisionsEnd
<1>4. R = f[K].remainders BY <1>2 DEF Remaining
<1> HIDE DEF M, K, R
<1>5. f[0].dividend = D /\ f[0].remainders = <<>> BY <1>2 DEF Remaining
<1>6. ASSUME NEW n \in Nat
      PROVE  /\ f[n].dividend \in Seq(Unit) /\ f[n].remainders \in Seq(Nat)
             /\ f[n].dividend = <<>> => f[n + 1] = f[n]
             /\ f[n].dividend # <<>> =>
                  /\ f[n + 1].dividend = LongDivision(f[n].dividend, d).quotient
                  /\ f[n + 1].remainders =
                       Append(f[n].remainders, LongDivision(f[n].dividend, d).x)
                  /\ LongDivision(f[n].dividend, d).x \in Nat
  <2> DEFINE a == f[n]
             r == LongDivision(a.dividend, d)
  <2>1. a \in DividedState /\ f[n + 1] = Divided(a, d) BY <1>2 DEF Remaining
  <2> HIDE DEF a
  <2>2. a.dividend \in Seq(Unit) /\ a.remainders \in Seq(Nat) BY <2>1 DEF DividedState
  <2>3. r.x \in Below(d) BY <2>2, DivisionOfWords, Zenon
  <2>4. r.x \in Nat BY <2>3 DEF Below
  <2> HIDE DEF r
  <2>5. /\ a.dividend = <<>> => f[n + 1] = a
        /\ a.dividend # <<>> => /\ f[n + 1].dividend = r.quotient
                                /\ f[n + 1].remainders = Append(a.remainders, r.x)
    BY <2>1, DividedIs DEF r
  <2> QED BY <2>2, <2>4, <2>5 DEF a, r
<1> DEFINE T == {n \in Nat : f[n].dividend = <<>>}
<1>7. PICK N \in T : \A n \in T : N <= n
  <2>1. T \in SUBSET Nat /\ T # {} BY <1>1, <1>3
  <2> HIDE DEF T
  <2> QED BY <2>1, NatLeast
<1>8. /\ N \in Nat /\ f[N].dividend = <<>> /\ N <= K
      /\ \A n \in Nat : n < N => f[n].dividend # <<>>
  <2>1. K \in T BY <1>1, <1>3
  <2>2. ASSUME NEW n \in Nat, n < N, f[n].dividend = <<>> PROVE FALSE
    <3>1. n \in T BY <2>2
    <3> QED BY <3>1, <2>2, <1>7
  <2> QED BY <2>1, <2>2, <1>7
<1> HIDE DEF T
<1>9. f[K] = f[N]
  <2> DEFINE S == {n \in Nat : n >= N => f[n] = f[N]}
  <2>1. 0 \in S
    <3>1. 0 >= N => N = 0 BY <1>8
    <3> QED BY <3>1
  <2>2. ASSUME NEW n \in Nat, n \in S PROVE n + 1 \in S
    <3>1. n + 1 >= N => n + 1 = N \/ n >= N BY <1>8
    <3>2. ASSUME n >= N PROVE f[n + 1] = f[N]
      <4>1. f[n] = f[N] BY <2>2, <3>2
      <4>2. f[n].dividend = <<>> BY <4>1, <1>8
      <4> QED BY <4>1, <4>2, <1>6
    <3>3. n + 1 \in Nat OBVIOUS
    <3> QED BY <3>1, <3>2, <3>3
  <2>3. Nat \subseteq S
    <3> HIDE DEF S
    <3> QED BY <2>1, <2>2, InductionOnNat
  <2> QED BY <2>3, <1>1, <1>8
<1> DEFINE Rem(k) == LongDivision(f[k].dividend, d).x
           Kept(n) == /\ Len(f[n].remainders) = n
                      /\ \A k \in Nat : k < n => f[n].remainders[k + 1] = Rem(k)
           S == {n \in Nat : n <= N => Kept(n)}
<1>10. Kept(N)
  <2>1. 0 \in S BY <1>5
  <2>2. ASSUME NEW n \in Nat, n < N, n \in S PROVE n + 1 \in S
    <3> DEFINE A == f[n].remainders
               B == f[n + 1].remainders
               e == Rem(n)
    <3>1. Kept(n) BY <2>2, <1>8
    <3>2. Len(A) = n /\ \A k \in Nat : k < n => A[k + 1] = Rem(k) BY <3>1
    <3>3. A \in Seq(Nat) /\ e \in Nat /\ B = Append(A, e) BY <2>2, <1>6, <1>8
    <3> HIDE DEF A, B, Rem, e
    <3>4. /\ Len(B) = Len(A) + 1 /\ B[Len(A) + 1] = e
          /\ \A i \in 1..Len(A) : B[i] = A[i]
      BY <3>3, AppendProperties
    <3>5. Len(B) = n + 1 BY <3>2, <3>4
    <3>6. ASSUME NEW k \in Nat, k < n + 1 PROVE B[k + 1] = Rem(k)
      <4>1. CASE k = n BY <4>1, <3>2, <3>4 DEF e
      <4>2. CASE k # n
        <5>1. k < n /\ k + 1 \in 1..n BY <4>2, <3>6
        <5> QED BY <5>1, <3>2, <3>4
      <4> QED BY <4>1, <4>2
    <3>7. Kept(n + 1) BY <3>5, <3>6 DEF B
    <3> HIDE DEF Kept
    <3>8. n + 1 \in Nat OBVIOUS
    <3> QED BY <3>7, <3>8
  <2>3. 0..N \subseteq S
    <3> HIDE DEF S
    <3> QED BY <2>1, <2>2, <1>8, InductionUpTo
  <2>4. N \in S /\ N <= N BY <2>3, <1>8
  <2> HIDE DEF Kept
  <2> QED BY <2>4
<1> DEFINE G == [k \in Nat |-> f[k].dividend]
<1>11. \A k \in Nat : G[k] = f[k].dividend OBVIOUS
<1> HIDE DEF G
<1>12. G[0] = D /\ G[N] = <<>> BY <1>5, <1>8, <1>11
<1>13. \A k \in 0..N : G[k] \in Seq(Unit) /\ Len(G[k]) <= M
  <2>1. \A k \in 0..N : k \in Nat OBVIOUS
  <2> QED BY <2>1, <1>3, <1>6, <1>11
<1>14. R \in Seq(Nat) /\ Len(R) = N BY <1>4, <1>6, <1>8, <1>9, <1>10
<1>15. ASSUME NEW k \in Nat, k < N
       PROVE  /\ G[k] # <<>> /\ (k > 0 => Short(G[k]))
              /\ G[k + 1] = LongDivision(G[k], d).quotient
              /\ R[k + 1] = LongDivision(G[k], d).x
  <2>1. k + 1 \in Nat OBVIOUS
  <2>2. G[k] = f[k].dividend /\ G[k + 1] = f[k + 1].dividend BY <2>1, <1>11
  <2>3. f[k].dividend # <<>> BY <1>8, <1>15
  <2>4. f[k + 1].dividend = LongDivision(f[k].dividend, d).quotient BY <2>3, <1>6
  <2>5. R[k + 1] = Rem(k) BY <1>4, <1>9, <1>10, <1>15
  <2>6. k > 0 => Short(f[k].dividend) BY <1>3
  <2> QED BY <2>2, <2>3, <2>4, <2>5, <2>6
<1>16. Divisions(G, N, R, D, d) BY <1>12, <1>13, <1>14, <1>15 DEF Divisions, M
<1> QED BY <1>8, <1>16 DEF R

-----------------------------------------------------------------------------
(* The number that the digits are. *)

NumberSolves(f, ds, d, len) ==
  f = [n \in 0..Len(ds) |-> IF n = 0 THEN [k \in 1..len |-> 0]
                            ELSE TimesPlus(f[n - 1], d, ds[n])]

LEMMA NumberIsChosen ==
  ASSUME NEW ds, NEW d, NEW len
  PROVE  FromDigits(ds, d, len) = (CHOOSE f : NumberSolves(f, ds, d, len))[Len(ds)]
BY DEF FromDigits, NumberSolves

(* It is found by any table of numbers with these digits. *)
Numbers(g, ds, d, len) ==
  /\ g[0] = [k \in 1..len |-> 0]
  /\ \A n \in Nat : n < Len(ds) => g[n + 1] = TimesPlus(g[n], d, ds[n + 1])

LEMMA NumberIs ==
  ASSUME NEW d, NEW len \in Nat, NEW ds, Len(ds) \in Nat,
         NEW g, Numbers(g, ds, d, len)
  PROVE  FromDigits(ds, d, len) = g[Len(ds)]
<1> DEFINE L == Len(ds)
<1>0. /\ g[0] = [k \in 1..len |-> 0]
      /\ \A n \in Nat : n < L => g[n + 1] = TimesPlus(g[n], d, ds[n + 1])
  BY DEF Numbers
<1>20. L \in Nat OBVIOUS
<1> HIDE DEF L
<1> DEFINE h == [n \in 0..L |-> g[n]]
           zero == [k \in 1..len |-> 0]
<1>1. \A n \in 0..L : h[n] = g[n] OBVIOUS
<1> HIDE DEF zero
<1>2. NumberSolves(h, ds, d, len)
  <2>1. ASSUME NEW n \in 0..L
        PROVE  g[n] = IF n = 0 THEN zero ELSE TimesPlus(h[n - 1], d, ds[n])
    <3>1. CASE n = 0 BY <3>1, <1>0 DEF zero
    <3>2. CASE n # 0
      <4>1. n - 1 \in Nat /\ n - 1 < L /\ (n - 1) + 1 = n /\ n - 1 \in 0..L BY <3>2, <1>20
      <4>2. g[n] = TimesPlus(g[n - 1], d, ds[n]) BY <4>1, <1>0
      <4> QED BY <3>2, <4>1, <4>2, <1>1
    <3> QED BY <3>1, <3>2
  <2> QED BY <2>1 DEF NumberSolves, zero, L
<1> DEFINE f == CHOOSE z : NumberSolves(z, ds, d, len)
<1>3. NumberSolves(f, ds, d, len) BY <1>2
<1>4. FromDigits(ds, d, len) = f[L] BY NumberIsChosen DEF L
<1> HIDE DEF f
<1>5. f[0] = zero
  <2>1. 0 \in 0..L BY <1>20
  <2> QED BY <2>1, <1>3 DEF NumberSolves, zero, L
<1>6. ASSUME NEW n \in Nat, n < L PROVE f[n + 1] = TimesPlus(f[n], d, ds[n + 1])
  <2>1. n + 1 \in 0..L /\ n + 1 # 0 /\ (n + 1) - 1 = n BY <1>6, <1>20
  <2>2. f[n + 1] = IF n + 1 = 0 THEN zero ELSE TimesPlus(f[(n + 1) - 1], d, ds[n + 1])
    BY <2>1, <1>3 DEF NumberSolves, zero, L
  <2> QED BY <2>1, <2>2
<1> DEFINE T == {n \in Nat : n <= L => f[n] = g[n]}
<1>7. 0 \in T BY <1>0, <1>5 DEF zero
<1>8. ASSUME NEW n \in Nat, n < L, n \in T PROVE n + 1 \in T
  <2>1. f[n] = g[n] BY <1>8, <1>20
  <2>2. f[n + 1] = g[n + 1] BY <2>1, <1>0, <1>6, <1>8
  <2> QED BY <2>2
<1>9. 0..L \subseteq T
  <2> HIDE DEF T
  <2> QED BY <1>7, <1>8, <1>20, InductionUpTo
<1>10. f[L] = g[L] BY <1>9, <1>20
<1> QED BY <1>4, <1>10 DEF L

(* The words of a raw string, and its digits: short zeros and the          *)
(* remainders, the last first.                                             *)
ByteAt(r, k) == IF k <= Len(r) THEN r[k] ELSE 0
Words(r) == [n \in 1..((Len(r) + 1) \div 2) |-> 256 * ByteAt(r, 2*n - 1) + ByteAt(r, 2*n)]

LEMMA WordsType ==
  ASSUME NEW r \in Seq(Byte), NEW M, M = (Len(r) + 1) \div 2
  PROVE  /\ M \in Nat /\ Words(r) \in Seq(Unit) /\ Len(Words(r)) = M
         /\ \A n \in 1..M : /\ ByteAt(r, 2 * n - 1) \in Byte /\ ByteAt(r, 2 * n) \in Byte
                            /\ Words(r)[n] = 256 * ByteAt(r, 2*n - 1) + ByteAt(r, 2*n)
<1>1. Len(r) \in Nat /\ \A k \in 1..Len(r) : r[k] \in Byte OBVIOUS
<1>2. M \in Nat BY <1>1
<1>3. ASSUME NEW k \in Nat, k > 0 PROVE ByteAt(r, k) \in Byte
  <2>1. k <= Len(r) => k \in 1..Len(r) BY <1>1, <1>3
  <2>2. 0 \in Byte BY DEF Byte
  <2> QED BY <2>1, <2>2, <1>1 DEF ByteAt
<1>4. ASSUME NEW n \in 1..M
      PROVE  /\ ByteAt(r, 2 * n - 1) \in Byte /\ ByteAt(r, 2 * n) \in Byte
             /\ 256 * ByteAt(r, 2*n - 1) + ByteAt(r, 2*n) \in Unit
  <2>1. 2 * n - 1 \in Nat /\ 2 * n - 1 > 0 /\ 2 * n \in Nat /\ 2 * n > 0 BY <1>2
  <2> DEFINE a == ByteAt(r, 2*n - 1)
             b == ByteAt(r, 2*n)
  <2>2. a \in Byte /\ b \in Byte BY <2>1, <1>3
  <2> HIDE DEF a, b
  <2>3. 256 * a + b \in Unit BY <2>2 DEF Byte, Unit
  <2> QED BY <2>2, <2>3 DEF a, b
<1>5. Words(r) \in [1..M -> Unit] BY <1>4 DEF Words
<1>6. Words(r) \in Seq(Unit) /\ Len(Words(r)) = M BY <1>2, <1>5
<1>7. \A n \in 1..M : Words(r)[n] = 256 * ByteAt(r, 2*n - 1) + ByteAt(r, 2*n)
  BY DEF Words
<1> QED BY <1>2, <1>4, <1>6, <1>7

FullyLong(ds, z, R, N) ==
  /\ z \in Nat /\ ds \in Seq(Nat) /\ Len(ds) = z + N
  /\ \A i \in 1..z : ds[i] = 0
  /\ \A i \in 1..N : ds[z + i] = R[N + 1 - i]

LEMMA AnyIs ==
  ASSUME NEW d \in Divisors, NEW r \in Seq(Byte), NEW N \in Nat, NEW R \in Seq(Nat),
         R = Remainders(Words(r), d), Len(R) = N
  PROVE  \E z : /\ FullyLong(rstr2any(r, d), z, R, N)
                /\ FullLength(Len(r), d) >= N => z = FullLength(Len(r), d) - N
<1> DEFINE out == Reverse(R)
           F == FullLength(Len(r), d)
           short == F - Len(out)
           zeros == IF short > 0 THEN [n \in 1..short |-> 0] ELSE <<>>
           z == IF short > 0 THEN short ELSE 0
<1>1. rstr2any(r, d) = zeros \o out BY DEF rstr2any, Words, ByteAt
<1>2. F \in Int
  <2> DEFINE len == Len(r)
             g == Log2[d]
  <2>1. len \in Nat /\ g \in Nat \ {0} BY StringAssumption
  <2> HIDE DEF len, g
  <2>2. (len * 8 * 100000 + g - 1) \div g \in Int BY <2>1
  <2> QED BY <2>2 DEF FullLength, len, g
<1> HIDE DEF F
<1>3. out \in Seq(Nat) /\ Len(out) = N /\ \A i \in 1..N : out[i] = R[N + 1 - i]
  <2>1. \A i \in 1..N : (N - i) + 1 \in 1..N /\ (N - i) + 1 = N + 1 - i OBVIOUS
  <2>2. out = [i \in 1..N |-> R[(N - i) + 1]] BY DEF Reverse
  <2>3. \A i \in 1..N : R[(N - i) + 1] \in Nat BY <2>1
  <2> HIDE DEF out
  <2>4. out \in [1..N -> Nat] BY <2>2, <2>3
  <2>5. out \in Seq(Nat) /\ Len(out) = N BY <2>4
  <2> QED BY <2>1, <2>2, <2>5
<1> HIDE DEF out
<1>4. short \in Int /\ short = F - N BY <1>2, <1>3
<1> HIDE DEF short
<1>5. z \in Nat /\ zeros \in Seq(Nat) /\ Len(zeros) = z /\ \A i \in 1..z : zeros[i] = 0
  <2>1. CASE short > 0
    <3>1. short \in Nat BY <2>1, <1>4
    <3>2. zeros = [n \in 1..short |-> 0] /\ z = short BY <2>1
    <3> HIDE DEF zeros, z
    <3>3. zeros \in [1..short -> Nat] BY <3>2
    <3>4. zeros \in Seq(Nat) /\ Len(zeros) = short BY <3>1, <3>3
    <3> QED BY <3>1, <3>2, <3>4
  <2>2. CASE ~ (short > 0)
    <3>1. zeros = <<>> /\ z = 0 BY <2>2
    <3> HIDE DEF zeros, z
    <3> QED BY <3>1
  <2> QED BY <2>1, <2>2
<1>6. F >= N => z = F - N BY <1>2, <1>4
<1> DEFINE ds == rstr2any(r, d)
<1> HIDE DEF zeros, z
<1>7. /\ ds \in Seq(Nat) /\ Len(ds) = z + N
      /\ \A i \in 1..(z + N) : ds[i] = IF i <= z THEN zeros[i] ELSE out[i - z]
  <2>1. zeros \o out \in Seq(Nat) /\ Len(zeros \o out) = Len(zeros) + Len(out)
    BY <1>3, <1>5, ConcatProperties
  <2>2. \A i \in 1..(Len(zeros) + Len(out)) :
          (zeros \o out)[i] = IF i <= Len(zeros) THEN zeros[i] ELSE out[i - Len(zeros)]
    BY <1>3, <1>5, ConcatProperties, Zenon
  <2> QED BY <2>1, <2>2, <1>1, <1>3, <1>5
<1> HIDE DEF ds
<1>8. \A i \in 1..z : ds[i] = 0
  <2>1. \A i \in 1..z : i \in 1..(z + N) /\ i <= z BY <1>5
  <2> QED BY <2>1, <1>5, <1>7
<1>9. \A i \in 1..N : ds[z + i] = R[N + 1 - i]
  <2>1. \A i \in 1..N : z + i \in 1..(z + N) /\ ~ (z + i <= z) /\ (z + i) - z = i BY <1>5
  <2>2. \A i \in 1..N : ds[z + i] = out[i]
    <3>1. SUFFICES ASSUME NEW i \in 1..N PROVE ds[z + i] = out[i] OBVIOUS
    <3> DEFINE j == z + i
    <3>2. j \in 1..(z + N) /\ ~ (j <= z) /\ j - z = i BY <2>1
    <3> HIDE DEF j
    <3>3. ds[j] = out[i] BY <3>2, <1>7
    <3> QED BY <3>3 DEF j
  <2> QED BY <2>2, <1>3
<1>10. FullyLong(ds, z, R, N) BY <1>5, <1>7, <1>8, <1>9 DEF FullyLong
<1> QED BY <1>6, <1>10 DEF ds, F

(* A number that is zero. *)
Nought(M) == BytesOf(Padded(<<>>, M), M)

LEMMA NoughtIs ==
  ASSUME NEW d \in Divisors, NEW M \in Nat
  PROVE  /\ Nought(M) = [k \in 1..(2 * M) |-> 0]
         /\ TimesPlus(Nought(M), d, 0) = Nought(M)
<1> DEFINE p == Padded(<<>>, M)
           x == [j \in 0..M |-> 0]
<1>1. p \in [1..M -> Unit]
  <2>1. << >> \in Seq(Unit) /\ Len(<< >>) <= M OBVIOUS
  <2> QED BY <2>1, PaddedType
<1>2. \A j \in 1..M : p[j] = 0 BY PaddedEmpty
<1> HIDE DEF p
<1>3. x \in [0..M -> Below(d)]
  <2>1. 0 \in Below(d) BY DEF Below, Divisors
  <2> QED BY <2>1
<1>4. \A j \in 0..M : x[j] = 0 OBVIOUS
<1> HIDE DEF x
<1>5. Divides(x, p, p, M, d)
  <2>1. 0 \in 0..M /\ \A j \in 1..M : j \in 0..M /\ j - 1 \in 0..M OBVIOUS
  <2>2. Joined(0, 0) = d * 0 + 0 BY DEF Joined, Divisors
  <2> QED BY <2>1, <2>2, <1>2, <1>4 DEF Divides
<1>6. TimesPlus(BytesOf(p, M), d, x[M]) = BytesOf(p, M) BY <1>1, <1>3, <1>5, DivisionUndone
<1>7. x[M] = 0
  <2>1. M \in 0..M OBVIOUS
  <2> QED BY <2>1, <1>4
<1>8. BytesOf(p, M) = [k \in 1..(2 * M) |-> 0]
  <2>1. ASSUME NEW k \in 1..(2 * M)
        PROVE  (IF k % 2 = 1 THEN p[(k + 1) \div 2] \div 256 ELSE p[k \div 2] % 256) = 0
    <3>1. CASE k % 2 = 1
      <4>1. (k + 1) \div 2 \in 1..M BY <3>1
      <4>2. p[(k + 1) \div 2] = 0 BY <4>1, <1>2
      <4>3. 0 \div 256 = 0 OBVIOUS
      <4> QED BY <3>1, <4>2, <4>3
    <3>2. CASE k % 2 # 1
      <4>1. k \div 2 \in 1..M BY <3>2
      <4>2. p[k \div 2] = 0 BY <4>1, <1>2
      <4>3. 0 % 256 = 0 OBVIOUS
      <4> QED BY <3>2, <4>2, <4>3
    <3> QED BY <3>1, <3>2
  <2> QED BY <2>1 DEF BytesOf
<1> QED BY <1>6, <1>7, <1>8 DEF Nought, p

(* The digits are the number again. *)
LEMMA DigitsAreNumber ==
  ASSUME NEW d \in Divisors, NEW D \in Seq(Unit), NEW M \in Nat, Len(D) = M,
         NEW N \in Nat, NEW G, NEW R, Divisions(G, N, R, D, d),
         NEW ds, NEW z, FullyLong(ds, z, R, N)
  PROVE  FromDigits(ds, d, 2 * M) = BytesOf(D, M)
<1> DEFINE B(n) == BytesOf(Padded(G[n], M), M)
           L == z + N
           g == [n \in 0..L |-> IF n <= z THEN Nought(M) ELSE B(L - n)]
<1>1. z \in Nat /\ Len(ds) = L /\ L \in Nat BY DEF FullyLong
<1>2. B(N) = Nought(M) BY DEF Divisions, Nought
<1> HIDE DEF B
<1>3. \A n \in 0..L : g[n] = IF n <= z THEN Nought(M) ELSE B(L - n) OBVIOUS
<1> HIDE DEF L, g
<1>4. \A n \in 0..L : n >= z => g[n] = B(L - n)
  <2>1. SUFFICES ASSUME NEW n \in 0..L, n >= z PROVE g[n] = B(L - n) OBVIOUS
  <2>2. CASE n = z
    <3>1. L - n = N BY <2>2, <1>1 DEF L
    <3> QED BY <2>2, <3>1, <1>1, <1>2, <1>3
  <2>3. CASE n # z
    <3>1. ~ (n <= z) BY <2>1, <2>3, <1>1
    <3> QED BY <3>1, <1>3
  <2> QED BY <2>2, <2>3
<1>5. g[0] = [k \in 1..(2 * M) |-> 0]
  <2>1. 0 \in 0..L /\ 0 <= z BY <1>1
  <2> QED BY <2>1, <1>3, NoughtIs
<1>6. ASSUME NEW n \in Nat, n < L PROVE g[n + 1] = TimesPlus(g[n], d, ds[n + 1])
  <2>0. n \in 0..L /\ n + 1 \in 0..L BY <1>1, <1>6
  <2>1. CASE n < z
    <3>1. n <= z /\ n + 1 <= z /\ n + 1 \in 1..z BY <2>1, <1>1
    <3>2. g[n] = Nought(M) /\ g[n + 1] = Nought(M) BY <2>0, <3>1, <1>3
    <3>3. ds[n + 1] = 0 BY <3>1 DEF FullyLong
    <3> QED BY <3>2, <3>3, NoughtIs
  <2>2. CASE ~ (n < z)
    <3> DEFINE i == n + 1 - z
               k == N - i
               E == G[k]
               r == LongDivision(E, d)
    <3>1. /\ i \in 1..N /\ z + i = n + 1 /\ n >= z /\ n + 1 >= z
          /\ k \in Nat /\ k < N /\ k \in 0..N /\ N + 1 - i = k + 1
          /\ L - n = k + 1 /\ L - (n + 1) = k
      BY <2>2, <1>1, <1>6 DEF L
    <3> HIDE DEF i, k
    <3>2. E \in Seq(Unit) /\ Len(E) <= M BY <3>1 DEF Divisions
    <3>3. G[k + 1] = r.quotient /\ R[k + 1] = r.x BY <3>1 DEF Divisions
    <3>4. ds[n + 1] = r.x
      <4>1. ds[z + i] = R[N + 1 - i] BY <3>1 DEF FullyLong
      <4> QED BY <4>1, <3>1, <3>3
    <3>5. g[n] = B(k + 1) /\ g[n + 1] = B(k) BY <2>0, <3>1, <1>4
    <3> HIDE DEF E
    <3>6. PICK x \in [0..M -> Below(d)] :
            Divides(x, Padded(E, M), Padded(r.quotient, M), M, d) /\ x[M] = r.x
      <4>1. r = LongDivision(E, d) OBVIOUS
      <4> HIDE DEF r
      <4> QED BY <4>1, <3>2, DivisionPadded
    <3>7. r.quotient \in Seq(Unit) /\ Len(r.quotient) <= Len(E)
      BY <3>2, DivisionOfWords, Zenon
    <3> HIDE DEF r
    <3>8. Len(r.quotient) <= M
      <4>1. Len(r.quotient) \in Nat /\ Len(E) \in Nat BY <3>2, <3>7, LenProperties, Zenon
      <4> QED BY <4>1, <3>2, <3>7
    <3> DEFINE p == Padded(E, M)
               q == Padded(r.quotient, M)
    <3>9. p \in [1..M -> Unit] /\ q \in [1..M -> Unit] BY <3>2, <3>7, <3>8, PaddedType
    <3>10. Divides(x, p, q, M, d) BY <3>6
    <3> HIDE DEF p, q
    <3>11. TimesPlus(BytesOf(q, M), d, x[M]) = BytesOf(p, M)
      BY <3>9, <3>10, DivisionUndone
    <3>12. BytesOf(q, M) = B(k + 1) BY <3>3 DEF B, q
    <3>13. BytesOf(p, M) = B(k) BY DEF B, p, E
    <3> QED BY <3>4, <3>5, <3>6, <3>11, <3>12, <3>13
  <2> QED BY <2>1, <2>2
<1>7. FromDigits(ds, d, 2 * M) = g[L]
  <2> DEFINE len == 2 * M
  <2>1. len \in Nat /\ g[0] = [k \in 1..len |-> 0] BY <1>5
  <2> HIDE DEF len
  <2>3. \A n \in Nat : n < L => g[n + 1] = TimesPlus(g[n], d, ds[n + 1]) BY <1>6
  <2>4. Numbers(g, ds, d, len) BY <2>1, <2>3, <1>1 DEF Numbers
  <2>5. Len(ds) \in Nat BY <1>1
  <2>6. FromDigits(ds, d, len) = g[Len(ds)] BY <2>1, <2>4, <2>5, NumberIs
  <2>2. FromDigits(ds, d, len) = g[L] BY <2>6, <1>1
  <2> QED BY <2>2 DEF len
<1>8. g[L] = BytesOf(D, M)
  <2>1. g[L] = B(0)
    <3>1. L \in 0..L /\ L >= z /\ L - L = 0 BY <1>1 DEF L
    <3> QED BY <3>1, <1>4
  <2>2. Padded(D, M) = D
    <3>1. \A j \in 1..M : ~ (j + M <= M) /\ j + M - M = j OBVIOUS
    <3>2. D = [j \in 1..M |-> D[j]] OBVIOUS
    <3>3. Padded(D, M) = [j \in 1..M |-> IF j + M <= M THEN 0 ELSE D[j + M - M]] BY DEF Padded
    <3> QED BY <3>1, <3>2, <3>3
  <2>3. G[0] = D BY DEF Divisions
  <2> QED BY <2>1, <2>2, <2>3 DEF B
<1> QED BY <1>7, <1>8

(* The input with the zero of an odd one. *)
Even(r) == r \o [k \in 1..(Len(r) % 2) |-> 0]

LEMMA EvenIs ==
  ASSUME NEW r \in Seq(Byte), NEW M, M = (Len(r) + 1) \div 2
  PROVE  Len(Even(r)) = 2 * M /\ Even(r) = BytesOf(Words(r), M)
<1> DEFINE len == Len(r)
           o == len % 2
           zs == [k \in 1..o |-> 0]
           W == Words(r)
<1>1. len \in Nat BY LenProperties, Zenon
<1>2. o \in Nat /\ len + o = 2 * M BY <1>1
<1>3. M \in Nat /\ W \in Seq(Unit) /\ Len(W) = M
      /\ \A n \in 1..M : /\ ByteAt(r, 2 * n - 1) \in Byte /\ ByteAt(r, 2 * n) \in Byte
                         /\ W[n] = 256 * ByteAt(r, 2*n - 1) + ByteAt(r, 2*n)
  BY WordsType
<1> HIDE DEF W
<1>4. zs \in Seq(Byte) /\ Len(zs) = o /\ \A i \in 1..o : zs[i] = 0
  <2>1. 0 \in Byte BY DEF Byte
  <2>2. zs = [k \in 1..o |-> 0] OBVIOUS
  <2> HIDE DEF zs, o
  <2>3. zs \in [1..o -> Byte] BY <2>1, <2>2
  <2> QED BY <2>2, <2>3, <1>2
<1> HIDE DEF zs, o, len
<1>5. Even(r) = r \o zs BY DEF Even, zs, o, len
<1>6. r \o zs \in Seq(Byte) /\ Len(r \o zs) = len + o
  BY <1>4, ConcatProperties, Zenon DEF len
<1>7. \A i \in 1..(len + o) : (r \o zs)[i] = IF i <= len THEN r[i] ELSE zs[i - len]
  BY <1>4, ConcatProperties, Zenon DEF len
<1>8. ASSUME NEW i \in 1..(2 * M) PROVE Even(r)[i] = ByteAt(r, i)
  <2>1. CASE i <= len BY <2>1, <1>2, <1>5, <1>7 DEF ByteAt, len
  <2>2. CASE ~ (i <= len)
    <3>1. i - len \in 1..o BY <2>2, <1>1, <1>2
    <3> QED BY <2>2, <3>1, <1>2, <1>4, <1>5, <1>7 DEF ByteAt, len
  <2> QED BY <2>1, <2>2
<1>9. W \in [1..M -> Unit] BY <1>3
<1>10. AreBytes(BytesOf(W, M), W, M) BY <1>3, <1>9, BytesOfType
<1> DEFINE b == BytesOf(W, M)
<1>11. /\ b \in Seq(Byte) /\ Len(b) = 2 * M
       /\ \A j \in 1..M : b[2 * j - 1] = W[j] \div 256 /\ b[2 * j] = W[j] % 256
  BY <1>10 DEF AreBytes
<1> HIDE DEF b
<1>12. ASSUME NEW j \in 1..M
       PROVE  b[2 * j - 1] = ByteAt(r, 2 * j - 1) /\ b[2 * j] = ByteAt(r, 2 * j)
  <2> DEFINE w == W[j]
             s == ByteAt(r, 2 * j - 1)
             t == ByteAt(r, 2 * j)
  <2>1. s \in Byte /\ t \in Byte /\ w = 256 * s + t BY <1>3
  <2>2. b[2 * j - 1] = w \div 256 /\ b[2 * j] = w % 256 BY <1>11
  <2> HIDE DEF w, s, t
  <2>4. s \in Nat /\ t \in Nat /\ t < 256 BY <2>1 DEF Byte
  <2>3. w \div 256 = s /\ w % 256 = t BY <2>1, <2>4
  <2> QED BY <2>2, <2>3 DEF s, t
<1>13. ASSUME NEW i \in 1..(2 * M) PROVE b[i] = ByteAt(r, i)
  <2>1. CASE i % 2 = 1
    <3> DEFINE j == (i + 1) \div 2
    <3>0. j \in Nat /\ i = 2 * j - 1 BY <2>1
    <3>1. j \in 1..M /\ i = 2 * j - 1
      <4>1. i >= 1 /\ i <= 2 * M /\ M \in Nat BY <1>3
      <4> HIDE DEF j
      <4> QED BY <3>0, <4>1
    <3> HIDE DEF j
    <3> QED BY <3>1, <1>12
  <2>2. CASE i % 2 # 1
    <3> DEFINE j == i \div 2
    <3>1. j \in 1..M /\ i = 2 * j BY <2>2, <1>3
    <3> HIDE DEF j
    <3> QED BY <3>1, <1>12
  <2> QED BY <2>1, <2>2
<1>14. Even(r) \in Seq(Byte) /\ Len(Even(r)) = 2 * M BY <1>2, <1>5, <1>6
<1>15. Even(r) = b
  <2> DEFINE e == Even(r)
  <2>1. e \in Seq(Byte) /\ Len(e) = Len(b) /\ \A i \in 1..Len(e) : e[i] = b[i]
    BY <1>8, <1>11, <1>13, <1>14
  <2> HIDE DEF e
  <2>2. e = b BY <2>1, <1>11, SeqEqual
  <2> QED BY <2>2 DEF e
<1> QED BY <1>14, <1>15 DEF b, W

-----------------------------------------------------------------------------
(* Sixteen digits: every division takes the last half byte away. *)

Nibble(w, i) ==
  IF i = 0 THEN w \div 4096 ELSE IF i = 1 THEN (w \div 256) % 16
  ELSE IF i = 2 THEN (w \div 16) % 16 ELSE w % 16

Hex(p, k) == Nibble(p[(k + 3) \div 4], (k - 1) % 4)

LEMMA NibblesOf ==
  ASSUME NEW w \in Unit
  PROVE  /\ \A i \in 0..3 : Nibble(w, i) \in Nat /\ Nibble(w, i) < 16
         /\ w = 4096 * Nibble(w, 0) + 256 * Nibble(w, 1) + 16 * Nibble(w, 2) + Nibble(w, 3)
<1> DEFINE a == w \div 16
           b == a \div 16
           c == b \div 16
           n3 == w % 16
           n2 == a % 16
           n1 == b % 16
<1>1. w \in Nat /\ w <= 65535 BY DEF Unit
<1>2. a \in Nat /\ n3 \in Nat /\ n3 < 16 /\ w = 16 * a + n3 BY <1>1
<1> HIDE DEF a, n3
<1>3. b \in Nat /\ n2 \in Nat /\ n2 < 16 /\ a = 16 * b + n2 BY <1>2
<1> HIDE DEF b, n2
<1>4. c \in Nat /\ n1 \in Nat /\ n1 < 16 /\ b = 16 * c + n1 BY <1>3
<1> HIDE DEF c, n1
<1>5. c < 16 BY <1>1, <1>2, <1>3, <1>4
<1>6. w = 4096 * c + 256 * n1 + 16 * n2 + n3 BY <1>2, <1>3, <1>4
<1>7. w \div 4096 = c BY <1>2, <1>3, <1>4, <1>6
<1>8. (w \div 256) % 16 = n1
  <2>1. w \div 256 = 16 * c + n1 BY <1>2, <1>3, <1>4, <1>6
  <2> QED BY <2>1, <1>4
<1>9. (w \div 16) % 16 = n2 BY DEF n2, a
<1>10. w % 16 = n3 BY DEF n3
<1>11. /\ Nibble(w, 0) = c /\ Nibble(w, 1) = n1 /\ Nibble(w, 2) = n2 /\ Nibble(w, 3) = n3
  <2>1. Nibble(w, 0) = w \div 4096 /\ Nibble(w, 1) = (w \div 256) % 16
        /\ Nibble(w, 2) = (w \div 16) % 16 /\ Nibble(w, 3) = w % 16
    BY DEF Nibble
  <2> QED BY <2>1, <1>7, <1>8, <1>9, <1>10
<1>12. \A i \in 0..3 : i = 0 \/ i = 1 \/ i = 2 \/ i = 3 OBVIOUS
<1> QED BY <1>2, <1>3, <1>4, <1>5, <1>6, <1>11, <1>12

LEMMA NibbleShift ==
  ASSUME NEW q \in Unit, NEW w \in Unit, NEW x \in Below(16), NEW y \in Below(16),
         Joined(y, w) = 16 * q + x
  PROVE  /\ Nibble(q, 0) = y /\ Nibble(q, 1) = Nibble(w, 0) /\ Nibble(q, 2) = Nibble(w, 1)
         /\ Nibble(q, 3) = Nibble(w, 2) /\ x = Nibble(w, 3)
<1> DEFINE q0 == Nibble(q, 0)
           q1 == Nibble(q, 1)
           q2 == Nibble(q, 2)
           q3 == Nibble(q, 3)
           w0 == Nibble(w, 0)
           w1 == Nibble(w, 1)
           w2 == Nibble(w, 2)
           w3 == Nibble(w, 3)
<1>1. 0 \in 0..3 /\ 1 \in 0..3 /\ 2 \in 0..3 /\ 3 \in 0..3 OBVIOUS
<1>2. /\ q0 \in Nat /\ q0 < 16 /\ q1 \in Nat /\ q1 < 16 /\ q2 \in Nat /\ q2 < 16
      /\ q3 \in Nat /\ q3 < 16
  BY <1>1, NibblesOf
<1>3. /\ w0 \in Nat /\ w0 < 16 /\ w1 \in Nat /\ w1 < 16 /\ w2 \in Nat /\ w2 < 16
      /\ w3 \in Nat /\ w3 < 16
  BY <1>1, NibblesOf
<1>4. q = 4096 * q0 + 256 * q1 + 16 * q2 + q3 BY NibblesOf
<1>5. w = 4096 * w0 + 256 * w1 + 16 * w2 + w3 BY NibblesOf
<1>6. 65536 * y + w = 16 * q + x BY DEF Joined
<1>7. x \in Nat /\ x < 16 /\ y \in Nat /\ y < 16 BY DEF Below
<1> HIDE DEF q0, q1, q2, q3, w0, w1, w2, w3
<1>8. x = w3 BY <1>2, <1>3, <1>4, <1>5, <1>6, <1>7
<1>9. q3 = w2 BY <1>2, <1>3, <1>4, <1>5, <1>6, <1>7, <1>8
<1>10. q2 = w1 BY <1>2, <1>3, <1>4, <1>5, <1>6, <1>7, <1>8, <1>9
<1>11. q1 = w0 BY <1>2, <1>3, <1>4, <1>5, <1>6, <1>7, <1>8, <1>9, <1>10
<1>12. q0 = y BY <1>2, <1>3, <1>4, <1>5, <1>6, <1>7, <1>8, <1>9, <1>10, <1>11
<1> QED BY <1>8, <1>9, <1>10, <1>11, <1>12 DEF q0, q1, q2, q3, w0, w1, w2, w3

(* Where a digit is: in word j, after i others. *)
LEMMA HexPlace ==
  ASSUME NEW M \in Nat, NEW k \in 1..(4 * M)
  PROVE  \E j \in 1..M : \E i \in 0..3 :
           /\ k = 4 * (j - 1) + i + 1 /\ (k + 3) \div 4 = j /\ (k - 1) % 4 = i
<1> DEFINE j == (k + 3) \div 4
           i == (k - 1) % 4
<1>1. j \in 1..M /\ i \in 0..3 /\ k = 4 * (j - 1) + i + 1 OBVIOUS
<1> QED BY <1>1

LEMMA HexAt ==
  ASSUME NEW p, NEW j \in Nat \ {0}, NEW i \in 0..3, NEW k, k = 4 * (j - 1) + i + 1
  PROVE  Hex(p, k) = Nibble(p[j], i)
<1>1. (k + 3) \div 4 = j /\ (k - 1) % 4 = i OBVIOUS
<1> QED BY <1>1 DEF Hex

LEMMA HexShift ==
  ASSUME NEW M \in Nat, NEW p \in [1..M -> Unit], NEW q \in [1..M -> Unit],
         NEW x \in [0..M -> Below(16)], Divides(x, p, q, M, 16)
  PROVE  /\ \A k \in 1..(4 * M) : Hex(q, k) = IF k = 1 THEN 0 ELSE Hex(p, k - 1)
         /\ M > 0 => x[M] = Hex(p, 4 * M)
<1>1. ASSUME NEW j \in 1..M
      PROVE  /\ Nibble(q[j], 0) = x[j - 1] /\ Nibble(q[j], 1) = Nibble(p[j], 0)
             /\ Nibble(q[j], 2) = Nibble(p[j], 1) /\ Nibble(q[j], 3) = Nibble(p[j], 2)
             /\ x[j] = Nibble(p[j], 3)
  <2>1. j \in 0..M /\ j - 1 \in 0..M OBVIOUS
  <2>2. Joined(x[j - 1], p[j]) = 16 * q[j] + x[j] BY DEF Divides
  <2>3. q[j] \in Unit /\ p[j] \in Unit /\ x[j] \in Below(16) /\ x[j - 1] \in Below(16)
    BY <2>1
  <2> QED BY <2>2, <2>3, NibbleShift
<1>2. ASSUME NEW k \in 1..(4 * M)
      PROVE  Hex(q, k) = IF k = 1 THEN 0 ELSE Hex(p, k - 1)
  <2>1. PICK j \in 1..M, i \in 0..3 : k = 4 * (j - 1) + i + 1 BY HexPlace
  <2>5. j \in Nat \ {0} OBVIOUS
  <2>2. Hex(q, k) = Nibble(q[j], i) BY <2>1, <2>5, HexAt
  <2>3. CASE i = 0
    <3>1. Hex(q, k) = x[j - 1] BY <2>2, <2>3, <1>1
    <3>2. CASE j = 1
      <4>1. k = 1 BY <2>1, <2>3, <3>2
      <4>2. x[0] = 0 BY DEF Divides
      <4> QED BY <4>1, <4>2, <3>1, <3>2
    <3>3. CASE j # 1
      <4>1. /\ j - 1 \in 1..M /\ j - 1 \in Nat \ {0} /\ 3 \in 0..3 /\ k # 1
            /\ k - 1 = 4 * ((j - 1) - 1) + 3 + 1
        BY <2>1, <2>3, <3>3
      <4> DEFINE l == j - 1
                 h == k - 1
                 t == 3
      <4>2. l \in 1..M /\ l \in Nat \ {0} /\ t \in 0..3 /\ h = 4 * (l - 1) + t + 1
        BY <4>1
      <4>3. Hex(q, k) = x[l] BY <3>1
      <4> HIDE DEF l, h, t
      <4>4. Hex(p, h) = Nibble(p[l], t) BY <4>2, HexAt
      <4>5. x[l] = Nibble(p[l], t) BY <4>2, <1>1 DEF t
      <4>6. Hex(q, k) = Hex(p, h) BY <4>3, <4>4, <4>5
      <4> QED BY <4>1, <4>6 DEF h
    <3> QED BY <3>2, <3>3
  <2>4. CASE i # 0
    <3>1. k # 1 /\ i - 1 \in 0..3 /\ k - 1 = 4 * (j - 1) + (i - 1) + 1 BY <2>1, <2>4
    <3>2. Hex(p, k - 1) = Nibble(p[j], i - 1) BY <3>1, <2>5, HexAt
    <3>3. i = 1 \/ i = 2 \/ i = 3 BY <2>4
    <3>4. Nibble(q[j], i) = Nibble(p[j], i - 1) BY <3>3, <1>1
    <3> QED BY <2>2, <3>1, <3>2, <3>4
  <2> QED BY <2>3, <2>4
<1>3. ASSUME M > 0 PROVE x[M] = Hex(p, 4 * M)
  <2>1. M \in 1..M /\ 3 \in 0..3 /\ M \in Nat \ {0} /\ 4 * M = 4 * (M - 1) + 3 + 1 BY <1>3
  <2>2. Hex(p, 4 * M) = Nibble(p[M], 3) BY <2>1, HexAt
  <2>3. x[M] = Nibble(p[M], 3) BY <2>1, <1>1
  <2> QED BY <2>2, <2>3
<1> QED BY <1>2, <1>3

LEMMA HexNought ==
  ASSUME NEW M \in Nat, NEW D \in Seq(Unit), Len(D) <= M
  PROVE  /\ D = <<>> => \A k \in 1..(4 * M) : Hex(Padded(D, M), k) = 0
         /\ (\A k \in 1..(4 * M) : Hex(Padded(D, M), k) = 0) /\ Short(D) => D = <<>>
<1> DEFINE p == Padded(D, M)
<1>1. p \in [1..M -> Unit] BY PaddedType
<1>2. ASSUME D = <<>>, NEW k \in 1..(4 * M) PROVE Hex(p, k) = 0
  <2>1. PICK j \in 1..M, i \in 0..3 : k = 4 * (j - 1) + i + 1 BY HexPlace
  <2>2. p[j] = 0 BY <1>2, PaddedEmpty
  <2> HIDE DEF p
  <2>5. j \in Nat \ {0} OBVIOUS
  <2>3. Hex(p, k) = Nibble(p[j], i) BY <2>1, <2>5, HexAt
  <2>4. Nibble(0, i) = 0
    <3>1. 0 \div 4096 = 0 /\ (0 \div 256) % 16 = 0 /\ (0 \div 16) % 16 = 0 /\ 0 % 16 = 0
      OBVIOUS
    <3> QED BY <3>1 DEF Nibble
  <2> QED BY <2>2, <2>3, <2>4
<1>3. ASSUME \A k \in 1..(4 * M) : Hex(p, k) = 0, Short(D), D # <<>> PROVE FALSE
  <2> DEFINE L == Len(D)
             j == M - L + 1
  <2>1. L \in Nat /\ L >= 1 BY <1>3
  <2>2. j \in 1..M /\ ~ (j + L <= M) /\ j + L - M = 1 BY <2>1
  <2>3. p[j] = D[1] BY <2>2 DEF Padded
  <2>4. D[1] > 0 BY <1>3 DEF Short
  <2> HIDE DEF p, j
  <2>5. ASSUME NEW i \in 0..3 PROVE Nibble(p[j], i) = 0
    <3> DEFINE k == 4 * (j - 1) + i + 1
    <3>1. k \in 1..(4 * M) /\ j \in Nat \ {0} BY <2>2
    <3>2. Hex(p, k) = Nibble(p[j], i) BY <3>1, HexAt
    <3> QED BY <3>1, <3>2, <1>3
  <2>6. p[j] \in Unit BY <1>1, <2>2
  <2> DEFINE w == p[j]
  <2>7. w = 4096 * Nibble(w, 0) + 256 * Nibble(w, 1) + 16 * Nibble(w, 2) + Nibble(w, 3)
    BY <2>6, NibblesOf
  <2>8. Nibble(w, 0) = 0 /\ Nibble(w, 1) = 0 /\ Nibble(w, 2) = 0 /\ Nibble(w, 3) = 0
    BY <2>5
  <2> HIDE DEF w
  <2>9. w = 0 BY <2>7, <2>8
  <2> QED BY <2>9, <2>3, <2>4 DEF w
<1> QED BY <1>2, <1>3

(* What rstr2hex gives are the half bytes of the words. *)
LEMMA HexOfRaw ==
  ASSUME NEW r \in Seq(Byte), NEW M \in Nat, Len(r) = 2 * M
  PROVE  /\ rstr2hex(r) \in Seq(Nat) /\ Len(rstr2hex(r)) = 4 * M
         /\ \A k \in 1..(4 * M) : rstr2hex(r)[k] = Hex(Words(r), k)
<1> DEFINE W == Words(r)
           h == rstr2hex(r)
<1>1. M = (Len(r) + 1) \div 2 OBVIOUS
<1>2. \A n \in 1..M : /\ ByteAt(r, 2 * n - 1) \in Byte /\ ByteAt(r, 2 * n) \in Byte
                      /\ W[n] = 256 * ByteAt(r, 2*n - 1) + ByteAt(r, 2*n)
  BY <1>1, WordsType
<1>3. \A n \in 1..M : ByteAt(r, 2 * n - 1) = r[2 * n - 1] /\ ByteAt(r, 2 * n) = r[2 * n]
  <2>1. \A n \in 1..M : 2 * n - 1 <= Len(r) /\ 2 * n <= Len(r) OBVIOUS
  <2> QED BY <2>1 DEF ByteAt
<1>4. h = [n \in 1..(4 * M) |->
             IF n % 2 = 1 THEN (r[(n + 1) \div 2] \div 16) % 16 ELSE r[n \div 2] % 16]
  <2>1. 2 * Len(r) = 4 * M OBVIOUS
  <2> QED BY <2>1 DEF rstr2hex
<1> HIDE DEF W, h
<1>5. ASSUME NEW k \in 1..(4 * M) PROVE h[k] = Hex(W, k)
  <2>1. PICK j \in 1..M, i \in 0..3 : k = 4 * (j - 1) + i + 1 BY HexPlace
  <2>2. j \in Nat \ {0} OBVIOUS
  <2>3. Hex(W, k) = Nibble(W[j], i) BY <2>1, <2>2, HexAt
  <2> DEFINE a == r[2 * j - 1]
             b == r[2 * j]
             w == W[j]
  <2>4. a \in Nat /\ a < 256 /\ b \in Nat /\ b < 256 /\ w = 256 * a + b
    <3>1. ByteAt(r, 2 * j - 1) = a /\ ByteAt(r, 2 * j) = b BY <1>3
    <3>2. /\ ByteAt(r, 2 * j - 1) \in Byte /\ ByteAt(r, 2 * j) \in Byte
          /\ w = 256 * ByteAt(r, 2*j - 1) + ByteAt(r, 2*j)
      BY <1>2
    <3> HIDE DEF a, b, w
    <3>3. a \in Byte /\ b \in Byte /\ w = 256 * a + b BY <3>1, <3>2
    <3> QED BY <3>3 DEF Byte
  <2>5. /\ (i = 0 \/ i = 2) => k % 2 = 1
        /\ (i = 1 \/ i = 3) => k % 2 # 1
        /\ i = 0 => (k + 1) \div 2 = 2 * j - 1
        /\ i = 1 => k \div 2 = 2 * j - 1
        /\ i = 2 => (k + 1) \div 2 = 2 * j
        /\ i = 3 => k \div 2 = 2 * j
    BY <2>1
  <2>6. h[k] = IF k % 2 = 1 THEN (r[(k + 1) \div 2] \div 16) % 16 ELSE r[k \div 2] % 16
    BY <1>4
  <2>7. h[k] = IF i = 0 THEN (a \div 16) % 16 ELSE IF i = 1 THEN a % 16
               ELSE IF i = 2 THEN (b \div 16) % 16 ELSE b % 16
    <3>1. i = 0 \/ i = 1 \/ i = 2 \/ i = 3 OBVIOUS
    <3>2. CASE i = 0 BY <3>2, <2>5, <2>6
    <3>3. CASE i = 1 BY <3>3, <2>5, <2>6
    <3>4. CASE i = 2 BY <3>4, <2>5, <2>6
    <3>5. CASE i = 3 BY <3>5, <2>5, <2>6
    <3> QED BY <3>1, <3>2, <3>3, <3>4, <3>5
  <2> HIDE DEF a, b, w
  <2>8. /\ w \div 4096 = (a \div 16) % 16 /\ (w \div 256) % 16 = a % 16
        /\ (w \div 16) % 16 = (b \div 16) % 16 /\ w % 16 = b % 16
    <3> DEFINE ah == a \div 16
               al == a % 16
               bh == b \div 16
               bl == b % 16
    <3>1. /\ ah \in Nat /\ ah < 16 /\ al \in Nat /\ al < 16 /\ a = 16 * ah + al
          /\ bh \in Nat /\ bh < 16 /\ bl \in Nat /\ bl < 16 /\ b = 16 * bh + bl
      BY <2>4
    <3> HIDE DEF ah, al, bh, bl
    <3>2. w = 4096 * ah + 256 * al + 16 * bh + bl BY <3>1, <2>4
    <3>3. w \div 4096 = ah BY <3>1, <3>2
    <3>4. (w \div 256) % 16 = al
      <4>1. w \div 256 = 16 * ah + al BY <3>1, <3>2
      <4> QED BY <4>1, <3>1
    <3>5. (w \div 16) % 16 = bh
      <4>1. w \div 16 = 256 * ah + 16 * al + bh BY <3>1, <3>2
      <4> QED BY <4>1, <3>1
    <3>6. w % 16 = bl BY <3>1, <3>2
    <3>7. ah % 16 = ah /\ bh % 16 = bh BY <3>1
    <3> QED BY <3>3, <3>4, <3>5, <3>6, <3>7 DEF ah, al, bh, bl
  <2>9. Nibble(w, i) = h[k]
    <3>1. i = 0 \/ i = 1 \/ i = 2 \/ i = 3 OBVIOUS
    <3> QED BY <3>1, <2>7, <2>8 DEF Nibble
  <2> QED BY <2>3, <2>9 DEF w
<1>6. ASSUME NEW n \in 1..(4 * M)
      PROVE  (IF n % 2 = 1 THEN (r[(n + 1) \div 2] \div 16) % 16 ELSE r[n \div 2] % 16) \in Nat
  <2>1. \A k \in 1..(2 * M) : r[k] \in Nat BY DEF Byte
  <2>2. CASE n % 2 = 1
    <3>1. (n + 1) \div 2 \in 1..(2 * M) BY <2>2
    <3>2. r[(n + 1) \div 2] \in Nat BY <3>1, <2>1
    <3> QED BY <3>2, <2>2
  <2>3. CASE n % 2 # 1
    <3>1. n \div 2 \in 1..(2 * M) BY <2>3
    <3>2. r[n \div 2] \in Nat BY <3>1, <2>1
    <3> QED BY <3>2, <2>3
  <2> QED BY <2>2, <2>3
<1>7. h \in Seq(Nat) /\ Len(h) = 4 * M
  <2> DEFINE n == 4 * M
  <2>1. h \in [1..n -> Nat] /\ n \in Nat BY <1>4, <1>6
  <2> HIDE DEF n
  <2>2. h \in Seq(Nat) /\ Len(h) = n BY <2>1
  <2> QED BY <2>2 DEF n
<1> QED BY <1>5, <1>7 DEF h, W

(* The digits of a number of whole words. *)
LEMMA HexDigits ==
  ASSUME NEW D \in Seq(Unit), NEW M \in Nat, Len(D) = M,
         NEW N \in Nat, NEW G, NEW R, Divisions(G, N, R, D, 16)
  PROVE  /\ N <= 4 * M
         /\ \A k \in 1..(4 * M) : k + N <= 4 * M => Hex(D, k) = 0
         /\ \A k \in Nat : k < N => R[k + 1] = Hex(D, 4 * M - k)
<1> DEFINE P(n) == Padded(G[n], M)
           T == {n \in Nat : n <= N => \A k \in 1..(4 * M) :
                                Hex(P(n), k) = IF k <= n THEN 0 ELSE Hex(D, k - n)}
<1>1. \A k \in 0..N : G[k] \in Seq(Unit) /\ Len(G[k]) <= M BY DEF Divisions
<1>2. P(0) = D
  <2>1. \A j \in 1..M : ~ (j + M <= M) /\ j + M - M = j OBVIOUS
  <2>2. D = [j \in 1..M |-> D[j]] OBVIOUS
  <2>3. Padded(D, M) = [j \in 1..M |-> IF j + M <= M THEN 0 ELSE D[j + M - M]] BY DEF Padded
  <2>4. G[0] = D BY DEF Divisions
  <2> QED BY <2>1, <2>2, <2>3, <2>4
<1>3. ASSUME NEW n \in Nat, n < N
      PROVE  /\ \A k \in 1..(4 * M) : Hex(P(n + 1), k) = IF k = 1 THEN 0 ELSE Hex(P(n), k - 1)
             /\ M > 0 => R[n + 1] = Hex(P(n), 4 * M)
  <2> DEFINE E == G[n]
             r == LongDivision(E, 16)
  <2>1. n \in 0..N /\ n + 1 \in 0..N BY <1>3
  <2>2. E \in Seq(Unit) /\ Len(E) <= M BY <2>1, <1>1
  <2>3. G[n + 1] = r.quotient /\ R[n + 1] = r.x BY <1>3 DEF Divisions
  <2>4. r.quotient \in Seq(Unit) /\ Len(r.quotient) <= M BY <2>1, <2>3, <1>1
  <2>5. 16 \in Divisors BY DEF Divisors
  <2> HIDE DEF E
  <2>6. PICK x \in [0..M -> Below(16)] :
          Divides(x, Padded(E, M), Padded(r.quotient, M), M, 16) /\ x[M] = r.x
    <3>1. r = LongDivision(E, 16) OBVIOUS
    <3> HIDE DEF r
    <3> QED BY <3>1, <2>2, <2>5, DivisionPadded
  <2> HIDE DEF r
  <2> DEFINE p == Padded(E, M)
             q == Padded(r.quotient, M)
  <2>7. p \in [1..M -> Unit] /\ q \in [1..M -> Unit] BY <2>2, <2>4, PaddedType
  <2>8. Divides(x, p, q, M, 16) BY <2>6
  <2> HIDE DEF p, q
  <2>9. /\ \A k \in 1..(4 * M) : Hex(q, k) = IF k = 1 THEN 0 ELSE Hex(p, k - 1)
        /\ M > 0 => x[M] = Hex(p, 4 * M)
    BY <2>7, <2>8, HexShift
  <2>10. P(n) = p /\ P(n + 1) = q BY <2>3 DEF p, q, E
  <2> HIDE DEF P
  <2> QED BY <2>3, <2>6, <2>9, <2>10
<1> HIDE DEF P
<1>4. 0..N \subseteq T
  <2>1. 0 \in T
    <3>1. \A k \in 1..(4 * M) : ~ (k <= 0) /\ k - 0 = k OBVIOUS
    <3> QED BY <3>1, <1>2
  <2>2. ASSUME NEW n \in Nat, n < N, n \in T PROVE n + 1 \in T
    <3>1. \A k \in 1..(4 * M) : Hex(P(n), k) = IF k <= n THEN 0 ELSE Hex(D, k - n)
      BY <2>2
    <3>2. ASSUME NEW k \in 1..(4 * M)
          PROVE  Hex(P(n + 1), k) = IF k <= n + 1 THEN 0 ELSE Hex(D, k - (n + 1))
      <4>1. Hex(P(n + 1), k) = IF k = 1 THEN 0 ELSE Hex(P(n), k - 1) BY <2>2, <1>3
      <4>2. CASE k = 1
        <5>1. k <= n + 1 BY <4>2
        <5> QED BY <4>1, <4>2, <5>1
      <4>3. CASE k # 1
        <5>1. /\ k - 1 \in 1..(4 * M) /\ (k - 1 <= n <=> k <= n + 1)
              /\ (k - 1) - n = k - (n + 1)
          BY <4>3
        <5>2. Hex(P(n), k - 1) = IF k - 1 <= n THEN 0 ELSE Hex(D, (k - 1) - n)
          BY <5>1, <3>1
        <5>3. CASE k <= n + 1 BY <5>1, <5>2, <5>3, <4>1, <4>3
        <5>4. CASE ~ (k <= n + 1) BY <5>1, <5>2, <5>4, <4>1, <4>3
        <5> QED BY <5>3, <5>4
      <4> QED BY <4>2, <4>3
    <3>3. n + 1 \in Nat OBVIOUS
    <3> QED BY <3>2, <3>3
  <2> HIDE DEF T
  <2> QED BY <2>1, <2>2, InductionUpTo
<1>5. ASSUME NEW n \in Nat, n <= N, NEW k \in 1..(4 * M)
      PROVE  Hex(P(n), k) = IF k <= n THEN 0 ELSE Hex(D, k - n)
  <2>1. n \in 0..N BY <1>5
  <2>2. n \in T BY <2>1, <1>4
  <2> QED BY <2>2, <1>5
<1> HIDE DEF T
<1>6. N <= 4 * M
  <2>1. SUFFICES ASSUME N > 4 * M PROVE FALSE OBVIOUS
  <2> DEFINE n == 4 * M
             E == G[n]
  <2>2. n \in Nat /\ n < N /\ n \in 0..N /\ n <= N BY <2>1
  <2>3. E # <<>> /\ (n > 0 => Short(E)) BY <2>2 DEF Divisions
  <2>4. E \in Seq(Unit) /\ Len(E) <= M BY <2>2, <1>1
  <2>5. M > 0
    <3> HIDE DEF E
    <3>1. Len(E) \in Nat /\ Len(E) # 0 BY <2>3, <2>4
    <3> QED BY <3>1, <2>4
  <2>6. \A k \in 1..n : Hex(P(n), k) = 0
    <3>1. \A k \in 1..n : k <= n OBVIOUS
    <3> HIDE DEF n
    <3> QED BY <3>1, <2>2, <1>5 DEF n
  <2>7. n > 0 BY <2>5
  <2>8. P(n) = Padded(E, M) BY DEF P
  <2>9. Short(E) BY <2>3, <2>7
  <2> HIDE DEF E
  <2> QED BY <2>3, <2>4, <2>6, <2>8, <2>9, HexNought
<1>7. ASSUME NEW k \in 1..(4 * M), k + N <= 4 * M PROVE Hex(D, k) = 0
  <2> DEFINE m == k + N
  <2>1. m \in 1..(4 * M) /\ ~ (m <= N) /\ m - N = k BY <1>7
  <2>2. Hex(P(N), m) = Hex(D, k) BY <2>1, <1>5
  <2>3. P(N) = Padded(<<>>, M) BY DEF P, Divisions
  <2>4. << >> \in Seq(Unit) /\ Len(<< >>) <= M OBVIOUS
  <2>5. Hex(Padded(<<>>, M), m) = 0 BY <2>1, <2>4, HexNought
  <2> QED BY <2>2, <2>3, <2>5
<1>8. ASSUME NEW k \in Nat, k < N PROVE R[k + 1] = Hex(D, 4 * M - k)
  <2>1. M > 0 BY <1>6, <1>8
  <2>2. R[k + 1] = Hex(P(k), 4 * M) BY <2>1, <1>3, <1>8
  <2>3. 4 * M \in 1..(4 * M) /\ ~ (4 * M <= k) /\ k <= N BY <2>1, <1>6, <1>8
  <2>4. Hex(P(k), 4 * M) = Hex(D, 4 * M - k) BY <2>3, <1>5
  <2> QED BY <2>2, <2>4
<1> QED BY <1>6, <1>7, <1>8

LEMMA FullHex ==
  ASSUME NEW len \in Nat
  PROVE  FullLength(len, 16) = 2 * len
<1>1. Log2[16] = 400000 BY StringAssumption
<1>2. (len * 8 * 100000 + 400000 - 1) \div 400000 = 2 * len OBVIOUS
<1> QED BY <1>1, <1>2 DEF FullLength

LEMMA AnyIsHex ==
  ASSUME NEW r \in Seq(Byte), Len(r) % 2 = 0
  PROVE  rstr2any(r, 16) = rstr2hex(r)
<1> DEFINE M == (Len(r) + 1) \div 2
           D == Words(r)
           R == Remainders(D, 16)
           ds == rstr2any(r, 16)
           h == rstr2hex(r)
           K == 4 * M
<1>1. Len(r) \in Nat BY LenProperties, Zenon
<1>2. M \in Nat /\ Len(r) = 2 * M BY <1>1
<1>3. D \in Seq(Unit) /\ Len(D) = M
  <2>1. M = (Len(r) + 1) \div 2 OBVIOUS
  <2> HIDE DEF M
  <2> QED BY <2>1, WordsType
<1> HIDE DEF M
<1>4. h \in Seq(Nat) /\ Len(h) = K /\ \A k \in 1..K : h[k] = Hex(D, k)
  BY <1>2, HexOfRaw
<1>5. 16 \in Divisors BY DEF Divisors
<1>16. PICK N \in Nat : \E G : Divisions(G, N, R, D, 16) BY <1>3, <1>5, DivisionsOf
<1>6. PICK G : Divisions(G, N, R, D, 16) BY <1>16
<1>7. R \in Seq(Nat) /\ Len(R) = N BY <1>6 DEF Divisions
<1> HIDE DEF D
<1>8. /\ N <= K
      /\ \A k \in 1..K : k + N <= K => Hex(D, k) = 0
      /\ \A k \in Nat : k < N => R[k + 1] = Hex(D, K - k)
  BY <1>2, <1>3, <1>6, HexDigits
<1>9. PICK z : /\ FullyLong(ds, z, R, N)
               /\ FullLength(Len(r), 16) >= N => z = FullLength(Len(r), 16) - N
  BY <1>5, <1>7, AnyIs DEF D
<1>10. z = K - N
  <2>1. FullLength(Len(r), 16) = 2 * Len(r) BY <1>1, FullHex
  <2> HIDE DEF R, ds
  <2> QED BY <2>1, <1>2, <1>8, <1>9
<1> HIDE DEF R, ds, h
<1>11. /\ ds \in Seq(Nat) /\ Len(ds) = z + N /\ z \in Nat
       /\ \A i \in 1..z : ds[i] = 0
       /\ \A i \in 1..N : ds[z + i] = R[N + 1 - i]
  BY <1>9 DEF FullyLong
<1>12. K \in Nat /\ Len(ds) = K BY <1>2, <1>10, <1>11
<1> HIDE DEF K
<1>13. ASSUME NEW k \in 1..K PROVE ds[k] = h[k]
  <2>1. CASE k <= z
    <3>1. k \in 1..z /\ k + N <= K BY <2>1, <1>8, <1>10, <1>12
    <3> QED BY <3>1, <1>4, <1>8, <1>11
  <2>2. CASE ~ (k <= z)
    <3> DEFINE i == k - z
               m == N - i
    <3>1. i \in 1..N /\ z + i = k /\ m \in Nat /\ m < N /\ N + 1 - i = m + 1 /\ K - m = k
      BY <2>2, <1>8, <1>10, <1>11, <1>12
    <3> HIDE DEF i, m
    <3>2. ds[z + i] = R[N + 1 - i] BY <3>1, <1>11
    <3>3. R[m + 1] = Hex(D, K - m) BY <3>1, <1>8
    <3> QED BY <3>1, <3>2, <3>3, <1>4
  <2> QED BY <2>1, <2>2
<1>14. ds = h BY <1>4, <1>11, <1>12, <1>13, SeqEqual
<1> QED BY <1>14 DEF ds, h

LEMMA DigitsOf == ASSUME raw \in Seq(Byte) PROVE DigitsKeepTheInput
<1>1. ASSUME NEW d \in Divisors
      PROVE  FromDigits(rstr2any(raw, d), d, Len(Even(raw))) = Even(raw)
  <2> DEFINE M == (Len(raw) + 1) \div 2
             D == Words(raw)
             R == Remainders(D, d)
             ds == rstr2any(raw, d)
  <2>1. M \in Nat /\ D \in Seq(Unit) /\ Len(D) = M
    <3>1. M = (Len(raw) + 1) \div 2 OBVIOUS
    <3> HIDE DEF M
    <3> QED BY <3>1, WordsType
  <2>2. Len(Even(raw)) = 2 * M /\ Even(raw) = BytesOf(D, M)
    <3>1. M = (Len(raw) + 1) \div 2 OBVIOUS
    <3> HIDE DEF M
    <3> QED BY <3>1, EvenIs
  <2> HIDE DEF M
  <2>7. PICK N \in Nat : \E G : Divisions(G, N, R, D, d) BY <2>1, DivisionsOf
  <2>3. PICK G : Divisions(G, N, R, D, d) BY <2>7
  <2>4. R \in Seq(Nat) /\ Len(R) = N BY <2>3 DEF Divisions
  <2>5. PICK z : FullyLong(ds, z, R, N) BY <2>4, AnyIs
  <2> HIDE DEF D, R, ds
  <2>6. FromDigits(ds, d, 2 * M) = BytesOf(D, M) BY <2>1, <2>3, <2>5, DigitsAreNumber
  <2> QED BY <2>2, <2>6 DEF ds
<1>2. Len(raw) % 2 = 0 => rstr2any(raw, 16) = rstr2hex(raw) BY AnyIsHex
<1> QED BY <1>1, <1>2 DEF DigitsKeepTheInput, Even

(* The digits that rstr2any gives, to any of the divisors, are the input   *)
(* again, and the sixteen of them those of rstr2hex: no raw string is too  *)
(* long or has too many zeros in front.                                    *)
THEOREM DigitsAlwaysKeepTheInput == StringSpec => []DigitsKeepTheInput
<1>1. StringTypes => DigitsKeepTheInput BY DigitsOf DEF StringTypes
<1> QED BY <1>1, AllStrings, PTL

=============================================================================

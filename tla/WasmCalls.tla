----------------------------- MODULE WasmCalls ------------------------------
(***************************************************************************)
(* Calls between a page and the compiled code of a.out.js once the runtime *)
(* is initialised: ccall and what it does with the stack, the stack marks  *)
(* of the compiled code, the result that is handed to the page, and the    *)
(* console behind fd_write.  The compiled code is not in the repository:   *)
(* one frame stands for all of its functions between a call from the page  *)
(* and the next call out, and it does what clang has it do, open and close *)
(* scopes with marks, last opened first closed.                            *)
(***************************************************************************)
EXTENDS Integers, SequencesExt

CONSTANTS
  StackMax,    \* the stack in units; its base is 1, 0 is ccall's "none"
  ArgSizes,    \* calls: the sizes of their string and array arguments
  Chunks,      \* what one iov of fd_write may hold
  MaxDepth, MaxMarks, MaxThrows, MaxWritten

ASSUME CallAssumption ==
  /\ StackMax \in Nat \ {0}
  /\ ArgSizes \subseteq Seq(Nat) /\ Chunks \subseteq Seq(Nat)

VARIABLES
  sp,       \* the stack pointer
  saved,    \* LLVM_SAVEDSTACKS
  frames,   \* the calls that have not returned
  thrown,   \* the exceptions so far
  buffers,  \* SYSCALLS.buffers
  printed,  \* the lines given to out and err
  written   \* the bytes given to fd_write, for the properties

stackVars == <<sp, saved, frames, thrown>>
consoleVars == <<buffers, printed, written>>
vars == <<stackVars, consoleVars>>

Base == 1
Streams == {1, 2}
NL == 10
NUL == 0

Top == Last(frames)
InC == frames # <<>> /\ ~Top.js
InPage == frames # <<>> => Top.js

SetTop(frame) == frames' = Append(Front(frames), frame)

-----------------------------------------------------------------------------

(* An exception leaves every frame above the one whose page code catches   *)
(* it, or all; no stack pointer and no mark is put back on the way.        *)
Throw ==
  /\ thrown < MaxThrows
  /\ thrown' = thrown + 1
  /\ \E n \in {0} \cup {k \in 1..Len(frames) : frames[k].js} :
       frames' = SubSeq(frames, 1, n)
  /\ UNCHANGED <<saved, consoleVars>>

(* ccall: the arguments are copied to the stack one by one, the function   *)
(* is entered with one unit for its own frame.  The compiled stackAlloc    *)
(* and prologue raise the pointer, then call abortStackOverflow if it is   *)
(* past the end; the page code that made the call may catch that.          *)
CCall(sizes) ==
  LET entry == sp + SumFunction(sizes)
      past == {t \in {sp + SumFunction(SubSeq(sizes, 1, k)) : k \in 1..Len(sizes)}
                        \cup {entry + 1} : t > StackMax}
  IN /\ InPage /\ Len(frames) < MaxDepth
     /\ \/ \E t \in past : sp' = t /\ (\A u \in past : t <= u) /\ Throw
        \/ /\ past = {}
           /\ sp' = entry + 1
           /\ frames' = Append(frames,
                [base  |-> sp,
                 stack |-> IF sizes = <<>> THEN 0 ELSE sp,
                 entry |-> entry,
                 marks |-> <<>>, js |-> FALSE])
           /\ UNCHANGED <<saved, thrown, consoleVars>>

(* Mutant of ReturnC: ccall puts the stack back when it kept nothing.      *)
ReturnCAlways ==
  /\ InC /\ Top.marks = <<>>
  /\ sp' = Top.stack
  /\ frames' = Front(frames)
  /\ UNCHANGED <<saved, thrown, consoleVars>>

(* The function returns to ccall, which returns to the page. *)
ReturnC ==
  /\ InC /\ Top.marks = <<>>
  /\ sp' = IF Top.stack # 0 THEN Top.stack ELSE Top.entry
  /\ frames' = Front(frames)
  /\ UNCHANGED <<saved, thrown, consoleVars>>

(* Mutant of StackSave: the function is given the number of marks that are *)
(* open in it, not the place of its mark.                                  *)
StackSaveOwnCount ==
  /\ InC /\ Len(Top.marks) < MaxMarks
  /\ saved' = Append(saved, sp)
  /\ SetTop([Top EXCEPT !.marks =
               Append(@, [p |-> Len(Top.marks) + 1, sp |-> sp])])
  /\ UNCHANGED <<sp, thrown, consoleVars>>

(* _llvm_stacksave, at the beginning of a scope. *)
StackSave ==
  /\ InC /\ Len(Top.marks) < MaxMarks
  /\ saved' = Append(saved, sp)
  /\ SetTop([Top EXCEPT !.marks = Append(@, [p |-> Len(saved'), sp |-> sp])])
  /\ UNCHANGED <<sp, thrown, consoleVars>>

Alloca ==
  /\ InC /\ Top.marks # <<>>
  /\ sp' = sp + 1
  /\ IF sp' > StackMax THEN Throw
     ELSE UNCHANGED <<saved, frames, thrown, consoleVars>>

(* _llvm_stackrestore, at its end. *)
StackRestore ==
  /\ InC /\ Top.marks # <<>>
  /\ LET p == Last(Top.marks).p
     IN sp' = saved[p] /\ saved' = RemoveAt(saved, p)
  /\ SetTop([Top EXCEPT !.marks = Front(@)])
  /\ UNCHANGED <<thrown, consoleVars>>

(* _js_output_result with the page's processResult; without one it throws. *)
OutputResult ==
  /\ InC
  /\ \/ SetTop([Top EXCEPT !.js = TRUE]) /\ UNCHANGED <<saved, thrown, consoleVars>>
     \/ Throw
  /\ UNCHANGED sp

ResultTaken ==
  /\ frames # <<>> /\ Top.js
  /\ SetTop([Top EXCEPT !.js = FALSE])
  /\ UNCHANGED <<sp, saved, thrown, consoleVars>>

(* processResult throws, or the memory would have to grow. *)
Fails == frames # <<>> /\ Throw /\ UNCHANGED sp

(* A system call on a stream: SYSCALLS has no getStreamFromFD, and what it *)
(* throws is not an ErrnoError of FS, so the call aborts.                  *)
Syscall == InC /\ Throw /\ UNCHANGED sp

(* A null function pointer is called, or an assertion of the C code fails. *)
NullFunc == InC /\ Throw /\ UNCHANGED sp

-----------------------------------------------------------------------------
(* The console. *)

(* Mutant of PrintChar: the buffer is not emptied after its line.          *)
PrintCharKept(c, curr) ==
  IF curr \in {NUL, NL}
  THEN [c EXCEPT !.printed = Append(@, c.buffer)]
  ELSE [c EXCEPT !.buffer = Append(@, curr)]

PrintChar(c, curr) ==
  IF curr \in {NUL, NL}
  THEN [buffer |-> <<>>, printed |-> Append(c.printed, c.buffer)]
  ELSE [c EXCEPT !.buffer = Append(@, curr)]

(* Any other stream has no buffer: the assertion in printChar aborts.      *)
FdWrite ==
  /\ InC
  /\ \/ \E stream \in Streams, iov \in Chunks :
          LET c == FoldLeft(PrintChar,
                     [buffer |-> buffers[stream], printed |-> printed[stream]], iov)
          IN /\ Len(written[stream]) + Len(iov) <= MaxWritten
             /\ buffers' = [buffers EXCEPT ![stream] = c.buffer]
             /\ printed' = [printed EXCEPT ![stream] = c.printed]
             /\ written' = [written EXCEPT ![stream] = @ \o iov]
             /\ UNCHANGED <<saved, frames, thrown>>
     \/ Throw
  /\ UNCHANGED sp

-----------------------------------------------------------------------------

Init ==
  /\ sp = Base /\ saved = <<>> /\ frames = <<>> /\ thrown = 0
  /\ buffers = [s \in Streams |-> <<>>]
  /\ printed = [s \in Streams |-> <<>>]
  /\ written = [s \in Streams |-> <<>>]

Next ==
  \/ \E sizes \in ArgSizes : CCall(sizes)
  \/ StackSave \/ Alloca \/ StackRestore \/ ReturnC
  \/ OutputResult \/ ResultTaken \/ Fails \/ Syscall \/ NullFunc
  \/ FdWrite

Spec == Init /\ [][Next]_vars

-----------------------------------------------------------------------------

TypeOK ==
  /\ sp \in Nat \ {0} /\ thrown \in Nat
  /\ saved \in Seq(Nat \ {0})
  /\ frames \in Seq([base : Nat, stack : Nat, entry : Nat, js : BOOLEAN,
                     marks : Seq([p : Nat, sp : Nat])])
  /\ buffers \in [Streams -> Seq(Nat)] /\ printed \in [Streams -> Seq(Seq(Nat))]
  /\ written \in [Streams -> Seq(Nat)]

(* The stack of a call under way is its own until it returns: its          *)
(* arguments, its frame and what it took inside a scope lie below the      *)
(* calls it made and below the stack pointer, so nothing is given out      *)
(* twice, though a frame may go on after the frames above it were left by  *)
(* an exception.  Nothing is lost but to exceptions: between two calls of  *)
(* the page the pointer is back at the base unless something was thrown.   *)
StackIsNested ==
  /\ \A k \in 1..Len(frames) :
       LET f == frames[k]
           end == IF k = Len(frames) THEN sp ELSE frames[k + 1].base
       IN /\ f.entry < end
          /\ \A m \in 1..Len(f.marks) : f.marks[m].sp \in (f.entry + 1)..end
  /\ frames = <<>> /\ thrown = 0 => sp = Base

(* A mark gives back the pointer that its own scope saved, though an       *)
(* exception leaves the marks of the frames it abandons in the array and   *)
(* stackrestore takes its own out of the middle; while nothing is thrown   *)
(* the array holds no others.                                              *)
MarksAreOwn ==
  /\ \A k \in 1..Len(frames) : \A m \in 1..Len(frames[k].marks) :
       LET mark == frames[k].marks[m]
       IN mark.p <= Len(saved) /\ saved[mark.p] = mark.sp
  /\ thrown = 0 =>
       Len(saved) = SumFunction([k \in DOMAIN frames |-> Len(frames[k].marks)])

(* Where lines end in a stream of bytes, and what lies before byte k and   *)
(* after the end before it.                                                *)
Ends(bytes) == {k \in DOMAIN bytes : bytes[k] \in {NUL, NL}}

LineBefore(bytes, k) ==
  SubSeq(bytes, Max({0} \cup {e \in Ends(bytes) : e < k}) + 1, k - 1)

(* However the output is cut into writes, and the two streams mixed, what  *)
(* was printed are the lines of what was written; only the last, without   *)
(* its end, is kept back.                                                  *)
LinesAreWhole ==
  \A s \in Streams :
    LET bytes == written[s] IN
    /\ Len(printed[s]) = Cardinality(Ends(bytes))
    /\ \A k \in Ends(bytes) :
         printed[s][Cardinality({e \in Ends(bytes) : e <= k})] = LineBefore(bytes, k)
    /\ buffers[s] = LineBefore(bytes, Len(bytes) + 1)

=============================================================================

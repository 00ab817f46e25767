------------------------------ MODULE BeamMachine ------------------------------
(***************************************************************************)
(* The stack of one BEAM process: frames, calls, returns and catches       *)
(* (beam/opcodes/op_memory.rs, op_execution.rs, op_fun.rs, op_native_fun.rs*)
(* op_try_catch.rs, the stack half of emulator/heap/heap_incremental.rs,   *)
(* and handle_process_exception of the scheduler).                         *)
(*                                                                         *)
(* A code address stands for what the compiler knows at that address: does *)
(* the function have a frame there, what does each Y register hold (a      *)
(* value, or the catch word of a try or a catch), and is it the label an   *)
(* exception resumes at.  Opcodes come in the orders compiled code has:    *)
(* an inner try uses a lower Y register than an outer one, a function with *)
(* a frame deallocates it before it returns, and no tail call is made from *)
(* inside a try.                                                           *)
(***************************************************************************)
EXTENDS Naturals, Sequences, SequencesExt, Collections

CONSTANTS
    MaxFrame,  \* Y registers of a frame
    MaxStack   \* words of the stack
ASSUME BeamMachineAssumption == MaxFrame \in Nat /\ MaxStack \in Nat

Leaf == [framed |-> FALSE, slots |-> << >>, handler |-> 0]
Null == [framed |-> FALSE, slots |-> << >>, handler |-> MaxFrame + 1]
Framed(slots) == [framed |-> TRUE, slots |-> slots, handler |-> 0]
Values(n) == [y \in 1..n |-> "val"]

\* A stack word: a value, a CP, or the catch word of a try or a catch, with its address.
Cell(kind, to) == [kind |-> kind, to |-> to]
Val == Cell("val", Null)
IsCatch(cell) == cell.kind \in {"try", "catch"}
Address == [framed : BOOLEAN, slots : Seq({"val", "try", "catch"}), handler : Nat]
CatchCells == [kind : {"try", "catch"}, to : Address]

VARIABLES
    mStack,    \* the stack, its top first
    mCp,       \* ctx.cp
    mAt,       \* ctx.ip: what the compiler knows there
    mCatches,  \* num_catches
    mPhase,    \* "run", "failed": an exception is on its way, "finished", "terminated", "panic"
    mCalls,    \* history: the function that runs and those that wait for it, as a program means it
    mSpoilt    \* history: the frames are out of step after a defect that is listed in the README
mVars == <<mStack, mCp, mAt, mCatches, mPhase, mCalls, mSpoilt>>

MachineInit ==
    /\ mStack = << >> /\ mCp = Null /\ mAt = Leaf /\ mCatches = 0
    /\ mPhase = "run" /\ mCalls = <<Leaf>> /\ mSpoilt = FALSE

Slots == mAt.slots
NoCatch == \A y \in 1..Len(Slots) : Slots[y] = "val"
Runs == mPhase = "run" /\ ~mSpoilt
Panics == mPhase' = "panic" /\ UNCHANGED <<mStack, mCp, mAt, mCatches, mCalls, mSpoilt>>

-----------------------------------------------------------------------------
(* Frames.                                                                 *)

\* allocate and its variants: gen_alloc makes the Y registers and pushes cp on top.
Allocate(n) ==
    /\ Runs /\ ~mAt.framed /\ Len(mStack) + n + 1 <= MaxStack
    /\ mStack' = <<Cell("cp", mCp)>> \o [y \in 1..n |-> Val] \o mStack
    /\ mAt' = Framed(Values(n)) /\ mCalls' = <<mAt'>> \o Tail(mCalls)
    /\ UNCHANGED <<mCp, mCatches, mPhase, mSpoilt>>

\* stack_deallocate: the CP on top and the n words under it go.
Dropped(n) == SubSeq(mStack, n + 2, Len(mStack))
CpOnTop(n) == n + 1 <= Len(mStack) /\ Head(mStack).kind = "cp"

Deallocate ==
    /\ Runs /\ mAt.framed /\ mAt.handler = 0 /\ NoCatch
    /\ IF ~CpOnTop(Len(Slots)) THEN Panics
       ELSE /\ mCp' = Head(mStack).to /\ mStack' = Dropped(Len(Slots))
            /\ mAt' = Leaf /\ mCalls' = <<Leaf>> \o Tail(mCalls)
            /\ UNCHANGED <<mCatches, mPhase, mSpoilt>>

\* Faulty variant: the CP is not put back.
TrimmedCp(n) == Dropped(n)
Trimmed(n) == <<Head(mStack)>> \o Dropped(n)
\* trim: the first n Y registers go, the CP stays on top.
Trim(n) ==
    /\ Runs /\ mAt.framed /\ mAt.handler = 0 /\ NoCatch /\ n <= Len(Slots)
    /\ IF ~CpOnTop(n) THEN Panics
       ELSE /\ mStack' = Trimmed(n)
            /\ mAt' = Framed(Values(Len(Slots) - n)) /\ mCalls' = <<mAt'>> \o Tail(mCalls)
            /\ UNCHANGED <<mCp, mCatches, mPhase, mSpoilt>>

-----------------------------------------------------------------------------
(* Calls.  A call enters a function of BEAM code, which begins as a leaf,  *)
(* or runs a native function to its end.                                   *)

\* find_and_call_native_fun: the result is stored, or the exception goes on, with a fail
\* label too (the jump there is made and the exception raised all the same).
NativeCall == UNCHANGED mVars \/ (mPhase' = "failed" /\ UNCHANGED <<mStack, mCp, mAt, mCatches, mCalls, mSpoilt>>)
\* bif0 to gc_bif3.
Bif == Runs /\ mAt.handler = 0 /\ NativeCall


Entered ==
    /\ mCp' = mAt /\ mAt' = Leaf /\ mCalls' = <<Leaf>> \o mCalls
    /\ UNCHANGED <<mStack, mCatches, mPhase, mSpoilt>>
Failed == mPhase' = "failed" /\ UNCHANGED <<mStack, mCp, mAt, mCatches, mCalls, mSpoilt>>
MayCall == Runs /\ mAt.framed /\ mAt.handler = 0

Call == MayCall /\ Entered
\* generic_call_ext with save_cp: BEAM code, a native function, or no such function.
CallExt == MayCall /\ (Entered \/ NativeCall)
\* A closure, whose arguments and frozen values must match its arity.
ApplyClosure == Entered \/ Failed
\* An export, of BEAM code or a native function; badarity or undef.
ApplyExport == Entered \/ NativeCall
\* call_fun and call_fun2; anything but a closure and an export is badfun.
CallFun == MayCall /\ (ApplyClosure \/ ApplyExport \/ Failed)
\* fixed_apply with nothing to deallocate.
ApplyOp == MayCall /\ (Entered \/ NativeCall)

\* call_only and call_ext_only: cp is still the caller's.
CallOnly == Runs /\ ~mAt.framed /\ UNCHANGED mVars

\* call_last and call_ext_last.
CallLast ==
    /\ Runs /\ mAt.framed /\ mAt.handler = 0 /\ NoCatch
    /\ IF ~CpOnTop(Len(Slots)) THEN Panics
       ELSE /\ mStack' = Dropped(Len(Slots)) /\ mCp' = Head(mStack).to /\ mAt' = Leaf
            /\ mCalls' = <<Leaf>> \o Tail(mCalls) /\ UNCHANGED <<mCatches, mPhase, mSpoilt>>

\* apply_last: fixed_apply deallocates nothing, and keeps cp where it should not
\* (dealloc = 0) or leaves that of the frame on the stack.
ApplyLast ==
    /\ Runs /\ mAt.framed /\ mAt.handler = 0 /\ NoCatch
    /\ mCp' = (IF Len(Slots) = 0 THEN mAt ELSE mCp) /\ mAt' = Leaf
    /\ mCalls' = <<Leaf>> \o Tail(mCalls) /\ mSpoilt' = TRUE
    /\ UNCHANGED <<mStack, mCatches, mPhase>>

\* return_and_clear_cp, with the stack and the cp it finds.
Returned(stack, cp, phase) ==
    /\ mStack' = stack /\ mCp' = Null /\ UNCHANGED <<mCatches, mSpoilt>>
    /\ IF cp = Null
       THEN /\ mPhase' = (IF stack = << >> THEN "finished" ELSE "panic")
            /\ mAt' = Leaf /\ mCalls' = <<Leaf>>
       ELSE mAt' = cp /\ mCalls' = Tail(mCalls) /\ mPhase' = phase
ReturnOp == Runs /\ ~mAt.framed /\ Returned(mStack, mCp, "run")

\* A native function in a tail call (generic_call_ext without save_cp): the return is
\* made before its result is looked at, so that of a failing one on the empty stack is lost.
NativeTail(fails) ==
    LET phase == IF fails THEN "failed" ELSE "run" IN
    /\ Runs
    /\ \/ ~mAt.framed /\ Returned(mStack, mCp, phase)
       \/ /\ mAt.framed /\ mAt.handler = 0 /\ NoCatch
          /\ IF ~CpOnTop(Len(Slots)) THEN Panics
             ELSE Returned(Dropped(Len(Slots)), Head(mStack).to, phase)

\* func_info, badmatch, case_end and if_end.
NoClause == Runs /\ mAt.handler = 0 /\ Failed
\* raise, try_case_end and raw_raise.
Throw == Runs /\ mAt.handler = 0 /\ Failed

-----------------------------------------------------------------------------
(* Catches.                                                                *)

SetY(y, cell) == [mStack EXCEPT ![y + 1] = cell]
WithSlot(y, kind) == [Slots EXCEPT ![y] = kind]

\* try and catch: the label is written to the Y register as a catch word.
Protect(y, kind) ==
    /\ Runs /\ mAt.framed /\ mAt.handler = 0
    /\ y <= Len(Slots) /\ \A z \in 1..y : Slots[z] = "val"
    /\ mStack' = SetY(y, Cell(kind, [mAt EXCEPT !.slots = WithSlot(y, kind), !.handler = y]))
    /\ mCatches' = mCatches + 1
    /\ mAt' = Framed(WithSlot(y, kind)) /\ mCalls' = <<mAt'>> \o Tail(mCalls)
    /\ UNCHANGED <<mCp, mPhase, mSpoilt>>

\* The Y register is nil again.
Unprotect(y) ==
    /\ mStack' = SetY(y, Val) /\ mCatches' = mCatches - 1
    /\ mAt' = Framed(WithSlot(y, "val")) /\ mCalls' = <<mAt'>> \o Tail(mCalls)
    /\ UNCHANGED <<mCp, mPhase, mSpoilt>>

\* try_end, where the body of the innermost try of the frame ends well.
EndTry(y) ==
    /\ Runs /\ mAt.framed /\ mAt.handler = 0
    /\ y <= Len(Slots) /\ Slots[y] = "try" /\ \A z \in 1..(y - 1) : Slots[z] = "val"
    /\ Unprotect(y)

\* try_case, where an exception resumes in a try.
CaseTry(y) == Runs /\ mAt.handler = y /\ Slots[y] = "try" /\ Unprotect(y)

\* catch_end, where both the body of a catch and its exception end.
CatchEnd(y) ==
    /\ Runs /\ mAt.framed /\ mAt.handler \in {0, y}
    /\ y <= Len(Slots) /\ Slots[y] = "catch" /\ \A z \in 1..(y - 1) : Slots[z] = "val"
    /\ Unprotect(y)

\* unroll_stack_until_catch: the words it may stop at.
CatchWords == {i \in 1..Len(mStack) : IsCatch(mStack[i])}

\* handle_process_exception: the first catch word, one word less than those before it is
\* dropped.  That leaves the CP on top if the word is the first Y register of its frame.
Unwind ==
    /\ mPhase = "failed" /\ ~mSpoilt
    /\ IF mCatches = 0 \/ CatchWords = {}
       THEN /\ mPhase' = "terminated"
            /\ UNCHANGED <<mStack, mCp, mAt, mCatches, mCalls, mSpoilt>>
       ELSE LET i == CHOOSE j \in CatchWords : \A k \in CatchWords : j <= k
                catchers == {c \in 1..Len(mCalls) :
                                \E y \in 1..Len(mCalls[c].slots) : mCalls[c].slots[y] # "val"}
                c == CHOOSE d \in catchers : \A e \in catchers : d <= e
                y == CHOOSE z \in 1..Len(mCalls[c].slots) :
                        /\ mCalls[c].slots[z] # "val"
                        /\ \A x \in 1..(z - 1) : mCalls[c].slots[x] = "val"
            IN  IF i = 1 THEN Panics
                ELSE /\ mStack' = SubSeq(mStack, i - 1, Len(mStack))
                     /\ mAt' = mStack[i].to /\ mCp' = Null /\ mPhase' = "run"
                     /\ mSpoilt' = (Head(mStack').kind # "cp")
                     /\ mCalls' = IF catchers = {} THEN << >>
                                  ELSE <<[mCalls[c] EXCEPT !.handler = y]>> \o SubSeq(mCalls, c + 1, Len(mCalls))
                     /\ UNCHANGED mCatches

MachineNext ==
    \/ \E n \in 0..MaxFrame : Allocate(n) \/ Trim(n)
    \/ Deallocate \/ Bif \/ Call \/ CallExt \/ CallFun \/ ApplyOp \/ CallOnly \/ CallLast \/ ApplyLast
    \/ ReturnOp \/ NoClause \/ Throw \/ Unwind
    \/ \E fails \in BOOLEAN : NativeTail(fails)
    \/ \E y \in 1..MaxFrame :
          EndTry(y) \/ CaseTry(y) \/ CatchEnd(y) \/ \E kind \in {"try", "catch"} : Protect(y, kind)

-----------------------------------------------------------------------------
\* The words a call with a frame stands for: its CP, and its Y registers, where the label
\* of a catch knows the catches outside of it.
FrameOf(calls, i) ==
    LET slots == calls[i].slots IN
    <<Cell("cp", IF i = Len(calls) THEN Null ELSE calls[i + 1])>>
    \o [y \in 1..Len(slots) |->
          IF slots[y] = "val" THEN Val
          ELSE Cell(slots[y], [framed |-> TRUE, handler |-> y,
                               slots |-> [z \in 1..Len(slots) |-> IF z < y THEN "val" ELSE slots[z]]])]
WordsOf(calls, i) == IF calls[i].framed THEN FrameOf(calls, i) ELSE << >>
\* The words of the last n calls, the first of them on top.
Layout(calls) ==
    LET words[n \in 0..Len(calls)] ==
            IF n = 0 THEN << >> ELSE WordsOf(calls, (Len(calls) + 1) - n) \o words[n - 1]
    IN  words[Len(calls)]

(***************************************************************************)
(* The stack is what the calls of the program say: one frame per waiting   *)
(* function, each with the return address of the next, after any mixture   *)
(* of calls, tail calls, returns, trims and exceptions; the address that   *)
(* runs, and cp of a function without a frame, are the right ones, and the *)
(* assertions of stack_deallocate and return_and_clear_cp hold.            *)
(***************************************************************************)
StackIsCalls ==
    /\ mPhase # "panic"
    /\ mPhase = "run" /\ ~mSpoilt =>
        /\ mStack = Layout(mCalls) /\ mAt = Head(mCalls)
        /\ ~mAt.framed => mCp = IF Len(mCalls) = 1 THEN Null ELSE mCalls[2]

(***************************************************************************)
(* num_catches is the number of catch words: otherwise an exception ends a *)
(* process that has a handler, or the search for one runs to the end.      *)
(***************************************************************************)
CatchesCounted == ~mSpoilt => mCatches = Len(Only(mStack, CatchCells))

(***************************************************************************)
(* A handler that is active is found: a process ends by an exception only  *)
(* if none of its calls stands in a try or a catch.                        *)
(***************************************************************************)
NothingEscapes ==
    mPhase = "terminated" =>
        \A i \in 1..Len(mCalls) : \A y \in 1..Len(mCalls[i].slots) : mCalls[i].slots[y] = "val"

(***************************************************************************)
(* The frames, the catch words and the count of open catches of a process  *)
(* agree, so that a return and a throw find their way.                     *)
(***************************************************************************)
FramesSound == StackIsCalls /\ CatchesCounted /\ NothingEscapes

(***************************************************************************)
(* "Drop 1 less word than where the catch was found to preserve that CP"   *)
(* (unroll_stack_until_catch): a handler finds the CP of its frame on top. *)
(***************************************************************************)
HandlerFindsCp == mPhase = "run" /\ mAt.handler # 0 => Head(mStack).kind = "cp"
=============================================================================

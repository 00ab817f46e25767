------------------------------ MODULE BeamLoader ------------------------------
(***************************************************************************)
(* The loader of BEAM files (beam/loader): the chunks of a file are read,  *)
(* atoms and lambdas registered, the code is measured, unpacked into words *)
(* one instruction after another, labels that were used before they were   *)
(* defined are patched, import and lambda indices become pointers, and the *)
(* module is handed over with its function and line tables                 *)
(* (emulator/module.rs).  A code pointer is an offset into the code: the   *)
(* loader makes real pointers while it still appends, so the buffer must   *)
(* not move.                                                               *)
(***************************************************************************)
EXTENDS Naturals, Sequences, SequencesExt

CONSTANTS
    MaxBody   \* instructions in the body of the first function
ASSUME BeamLoaderAssumption == MaxBody \in Nat \ {0}

VARIABLES
    lFile,      \* the chunks still to be read
    lProg,      \* the instructions of the Code chunk
    lStage,     \* "chunks", "measure", "parse", "labels", "imports", "done", "failed"
    lRead,      \* the chunks that were read
    lNext,      \* instructions unpacked so far; then the offset of the code iterator
    lReserved,  \* words reserved for the code
    lCode,      \* the words written so far
    lTables,    \* jump tables on the literal heap, each a sequence of <<value, location>>
    lLabels,    \* label to offset
    lPatches,   \* where a label is still to be filled in
    lFuns,      \* function to offset of its body
    lLines      \* the line table: <<offset, line>>
lVars == <<lFile, lProg, lStage, lRead, lNext, lReserved, lCode, lTables, lLabels, lPatches, lFuns, lLines>>

-----------------------------------------------------------------------------
(* Operands, words and instructions.                                       *)

Word(t, n) == [t |-> t, n |-> n]
NilWord == Word("nil", 0)
Lbl(n) == Word("label", n)        \* load-time label
Atm(n) == Word("ltatom", n)       \* load-time atom index
Lit(n) == Word("ltliteral", n)    \* load-time literal index
Sml(n) == Word("small", n)
Reg(n) == Word("reg", n)
Jmp(pairs) == [t |-> "table", n |-> 0, pairs |-> pairs]
Cp(offset) == Word("cp", offset)

Instr(op, args) == [op |-> op, args |-> args]
Label(n) == Instr("label", <<Sml(n)>>)
Line(n) == Instr("line", <<Sml(n)>>)
FuncInfo(f) == Instr("func_info", <<Atm(1), Atm(f), Sml(0)>>)
Jump(l) == Instr("jump", <<Lbl(l)>>)
Select(f, a, b) == Instr("select_val", <<Reg(0), Lbl(f), Jmp(<< <<Lit(0), Lbl(a)>>, <<Atm(2), Lbl(b)>> >>)>>)
CallExtI(i) == Instr("call_ext", <<Sml(0), Sml(i)>>)
GcBif1(f, i) == Instr("gc_bif1", <<Lbl(f), Sml(0), Sml(i), Reg(0), Reg(1)>>)
MakeFun2(i) == Instr("make_fun2", <<Sml(i)>>)
Move(lit) == Instr("move", <<Lit(lit), Reg(0)>>)
ReturnI == Instr("return", << >>)
BadTerm == Instr("move", <<Word("bad", 0), Reg(0)>>)   \* an extended tag the reader does not know

\* Code as the compiler lays it out: each function behind its func_info, between two labels.
BodyInstr == {Jump(l) : l \in 1..4} \cup {Select(2, 4, 1), Select(4, 2, 2), CallExtI(1), GcBif1(0, 0),
              GcBif1(4, 1), MakeFun2(1), Move(0), Line(7), ReturnI}
Bodies == UNION {[1..n -> BodyInstr] : n \in 1..MaxBody}
Programs ==
    {<<Label(1), Line(5), FuncInfo(2), Label(2)>> \o b \o <<Label(3), Line(6), FuncInfo(3), Label(4)>> \o <<c>> :
        b \in Bodies, c \in {ReturnI, Jump(2), Jump(4)}}
    \cup {<<Label(1), Line(5), FuncInfo(2), Label(2), BadTerm>>}
Chunks == {"AtU8", "Code", "ImpT", "FunT", "LitT", "Line", "Skipped"}
Files == {<<"AtU8", "Code", "Skipped", "ImpT", "FunT", "LitT", "Line">>,
          <<"Code", "LitT", "FunT", "ImpT", "Line", "AtU8">>,
          <<"AtU8", "Unknown", "Code">>, <<"AtU8", "NewerCode">>}

-----------------------------------------------------------------------------
(* Stage 1: the chunks, in the order of the file.                          *)

\* read_chunks: an unknown chunk, or code for a newer machine, ends the load.
ReadChunk ==
    /\ lStage = "chunks" /\ lFile # << >>
    /\ lFile' = Tail(lFile)
    /\ IF Head(lFile) \in Chunks THEN lRead' = lRead \cup {Head(lFile)} /\ UNCHANGED lStage
                                 ELSE lStage' = "failed" /\ UNCHANGED lRead
    /\ UNCHANGED <<lProg, lNext, lReserved, lCode, lTables, lLabels, lPatches, lFuns, lLines>>

\* stage2_register_atoms, set_mod_id and stage2_fill_lambdas.
RegisterAtoms ==
    /\ lStage = "chunks" /\ lFile = << >>
    /\ lStage' = "measure"
    /\ UNCHANGED <<lFile, lProg, lRead, lNext, lReserved, lCode, lTables, lLabels, lPatches, lFuns, lLines>>

-----------------------------------------------------------------------------
(* Stage 2: parse_raw_code, in two passes.                                 *)

\* The first pass counts every instruction, labels and lines too, though they take no words.
CodeSize(prog) == FoldLeft(LAMBDA s, i : s + Len(i.args) + 1, 0, prog)

MeasureCode ==
    /\ lStage = "measure"
    /\ IF \E i \in 1..Len(lProg) : \E j \in 1..Len(lProg[i].args) : lProg[i].args[j].t = "bad"
       THEN lStage' = "failed" /\ UNCHANGED lReserved
       ELSE lStage' = "parse" /\ lReserved' = CodeSize(lProg)
    /\ UNCHANGED <<lFile, lProg, lRead, lNext, lCode, lTables, lLabels, lPatches, lFuns, lLines>>

\* resolve_value: atom indices and literal indices become values; label indices stay.
ResolveValue(a) ==
    CASE a.t = "ltatom" -> (IF a.n = 0 THEN NilWord ELSE Word("atom", a.n))
      [] a.t = "ltliteral" -> Word("literal", a.n)
      [] OTHER -> a

\* A patch is an offset into the code or a jump table.
PatchCode(offset) == Word("code", offset)
PatchTable(i) == Word("jt", i)

\* Faulty variant: a label that is not known yet is written down and forgotten.
MaybeConvertLabelForgets(a, offset, labels) ==
    IF a.n \in DOMAIN labels THEN [word |-> Cp(labels[a.n]), patches |-> << >>]
                             ELSE [word |-> a, patches |-> << >>]
\* maybe_convert_label: a known label becomes its location; another is left to fix_labels.
MaybeConvertLabel(a, offset, labels) ==
    IF a.n \in DOMAIN labels THEN [word |-> Cp(labels[a.n]), patches |-> << >>]
                             ELSE [word |-> a, patches |-> <<PatchCode(offset)>>]

\* store_opcode_args: one word for each operand; tables are always patched later.
StoreArg(st, arg) ==
    LET a == ResolveValue(arg) IN
    IF a.t = "table"
    THEN LET i == Len(st.tables) + 1 IN
         [code |-> Append(st.code, PatchTable(i)),
          tables |-> Append(st.tables, [k \in 1..Len(a.pairs) |-> <<ResolveValue(a.pairs[k][1]), a.pairs[k][2]>>]),
          patches |-> Append(st.patches, PatchTable(i))]
    ELSE IF a.t = "label"
         THEN LET r == MaybeConvertLabel(a, Len(st.code), lLabels) IN
              [st EXCEPT !.code = Append(@, r.word), !.patches = @ \o r.patches]
         ELSE [st EXCEPT !.code = Append(@, a)]
StoreOp(i) ==
    LET st == FoldLeft(StoreArg, [code |-> Append(lCode, Word(i.op, 0)), tables |-> lTables,
                                  patches |-> lPatches], i.args)
    IN  lCode' = st.code /\ lTables' = st.tables /\ lPatches' = st.patches

Extended(f, k, v) == [x \in DOMAIN f \cup {k} |-> IF x = k THEN v ELSE f[x]]

\* One turn of the second pass.
ParseInstr ==
    /\ lStage = "parse" /\ lNext < Len(lProg)
    /\ lNext' = lNext + 1
    /\ LET i == lProg[lNext + 1] IN
       CASE i.op = "label" ->
              lLabels' = Extended(lLabels, i.args[1].n, Len(lCode))
              /\ UNCHANGED <<lCode, lTables, lPatches, lFuns, lLines>>
         [] i.op = "line" ->
              lLines' = Append(lLines, <<Len(lCode), i.args[1].n>>)
              /\ UNCHANGED <<lCode, lTables, lPatches, lFuns, lLabels>>
         [] i.op = "func_info" ->
              StoreOp(i) /\ lFuns' = Extended(lFuns, i.args[2].n, Len(lCode) + 4)
              /\ UNCHANGED <<lLabels, lLines>>
         [] OTHER -> StoreOp(i) /\ UNCHANGED <<lLabels, lFuns, lLines>>
    /\ UNCHANGED <<lFile, lProg, lStage, lRead, lReserved>>

ParsedAll ==
    /\ lStage = "parse" /\ lNext = Len(lProg)
    /\ lStage' = "labels"
    /\ UNCHANGED <<lFile, lProg, lRead, lNext, lReserved, lCode, lTables, lLabels, lPatches, lFuns, lLines>>

-----------------------------------------------------------------------------
(* Stage 3: labels and imports.                                            *)

\* resolve_loadtime_label: label 0 is "nowhere"; an unknown label is a panic.
ResolveLoadtimeLabel(w) == IF w.n > 0 THEN Cp(lLabels[w.n]) ELSE NilWord

\* fix_labels, one patch.
FixLabel ==
    /\ lStage = "labels" /\ lPatches # << >>
    /\ LET p == Head(lPatches) IN
       IF p.t = "code"
       THEN lCode' = [lCode EXCEPT ![p.n + 1] = ResolveLoadtimeLabel(@)] /\ UNCHANGED lTables
       ELSE /\ lTables' = [lTables EXCEPT ![p.n] =
                              [k \in DOMAIN @ |-> <<@[k][1], ResolveLoadtimeLabel(@[k][2])>>]]
            /\ UNCHANGED lCode
    /\ lPatches' = Tail(lPatches)
    /\ UNCHANGED <<lFile, lProg, lStage, lRead, lNext, lReserved, lLabels, lFuns, lLines>>

OpcodeArity(op) ==
    CASE op = "return" -> 0 [] op \in {"jump", "make_fun2"} -> 1 [] op \in {"call_ext", "move"} -> 2
      [] op \in {"func_info", "select_val"} -> 3 [] op = "gc_bif1" -> 5

ImportArg(op) == CASE op = "call_ext" -> 2 [] op = "gc_bif1" -> 3 [] OTHER -> 0
LambdaArg(op) == IF op = "make_fun2" THEN 1 ELSE 0

\* rewrite_import_index_arg and rewrite_lambda_index_arg on the instruction at an offset.
Rewritten(code, offset) ==
    LET op == code[offset + 1].t IN
    IF ImportArg(op) > 0 THEN [code EXCEPT ![offset + ImportArg(op) + 1] = Word("import", @.n)]
    ELSE IF LambdaArg(op) > 0 THEN [code EXCEPT ![offset + LambdaArg(op) + 1] = Word("lambda", @.n)]
    ELSE code

SetupImports ==
    /\ lStage = "labels" /\ lPatches = << >>
    /\ lStage' = "imports" /\ lNext' = 0
    /\ UNCHANGED <<lFile, lProg, lRead, lReserved, lCode, lTables, lLabels, lPatches, lFuns, lLines>>

\* CodeIteratorMut::next steps before it yields, so it never yields the first instruction.
NextOp(offset) == offset + OpcodeArity(lCode[offset + 1].t) + 1
LinkOp ==
    /\ lStage = "imports" /\ NextOp(lNext) < Len(lCode)
    /\ lNext' = NextOp(lNext)
    /\ lCode' = Rewritten(lCode, NextOp(lNext))
    /\ UNCHANGED <<lFile, lProg, lStage, lRead, lReserved, lTables, lLabels, lPatches, lFuns, lLines>>

\* load_finalize: the tables move into the module.
Finalize ==
    /\ lStage = "imports" /\ NextOp(lNext) >= Len(lCode)
    /\ lStage' = "done"
    /\ UNCHANGED <<lFile, lProg, lRead, lNext, lReserved, lCode, lTables, lLabels, lPatches, lFuns, lLines>>

-----------------------------------------------------------------------------
(* The loaded module (emulator/module.rs).                                 *)

NoFun == 0
\* code_reverse_lookup: the function whose body begins closest before the address.
CodeReverseLookup(ip) ==
    LET before == {f \in DOMAIN lFuns : lFuns[f] <= ip} IN
    IF before = {} THEN NoFun ELSE CHOOSE f \in before : \A g \in before : lFuns[g] <= lFuns[f]
\* lookup_line: the last entry at or before the offset.
LookupLine(offset) ==
    LET upto == SelectSeq(lLines, LAMBDA e : e[1] <= offset) IN
    IF upto = << >> THEN 0 ELSE upto[Len(upto)][2]

LoaderInit ==
    /\ lProg \in Programs /\ lFile \in Files
    /\ lStage = "chunks" /\ lRead = {} /\ lNext = 0 /\ lReserved = 0
    /\ lCode = << >> /\ lTables = << >> /\ lLabels = [x \in {} |-> 0] /\ lPatches = << >>
    /\ lFuns = [x \in {} |-> 0] /\ lLines = << >>
LoaderNext ==
    \/ ReadChunk \/ RegisterAtoms \/ MeasureCode \/ ParseInstr \/ ParsedAll
    \/ FixLabel \/ SetupImports \/ LinkOp \/ Finalize
LoaderSpec == LoaderInit /\ [][LoaderNext]_lVars

-----------------------------------------------------------------------------
(* What a loaded module must be, read off the program as the compiler wrote it. *)

Silent == {"label", "line"}
Size(i) == IF i.op \in Silent THEN 0 ELSE Len(i.args) + 1
Offset(k) == FoldLeft(LAMBDA s, i : s + Size(i), 0, SubSeq(lProg, 1, k - 1))
Target(l) == IF l = 0 THEN NilWord ELSE Cp(Offset(CHOOSE k \in 1..Len(lProg) : lProg[k] = Label(l)))
LinkedArg(i, j) ==
    LET a == i.args[j] IN
    CASE a.t = "label" -> Target(a.n)
      [] a.t # "label" /\ j = ImportArg(i.op) -> Word("import", a.n)
      [] a.t # "label" /\ j = LambdaArg(i.op) -> Word("lambda", a.n)
      [] OTHER -> ResolveValue(a)
IsLinked(w, i, j) ==
    IF i.args[j].t = "table"
    THEN /\ w.t = "jt"
         /\ lTables[w.n] = [k \in DOMAIN i.args[j].pairs |->
                               <<ResolveValue(i.args[j].pairs[k][1]), Target(i.args[j].pairs[k][2].n)>>]
    ELSE w = LinkedArg(i, j)

\* A loaded module is the program of its file: each instruction stands where the sizes of
\* those before it put it, and each operand is linked, whether its label was defined before
\* it, after it or in a jump table (parse_raw_code, fix_labels, setup_imports).
CodeIsLinked ==
    lStage = "done" =>
        \A k \in 1..Len(lProg) : Size(lProg[k]) > 0 =>
            /\ lCode[Offset(k) + 1].t = lProg[k].op
            /\ \A j \in 1..Len(lProg[k].args) : IsLinked(lCode[Offset(k) + 1 + j], lProg[k], j)

\* The code never outgrows what the first pass reserved: pointers into it are made while it
\* is still being written (parse_raw_code: "Must do no reallocations").
CodeFits == lStage = "parse" => Len(lCode) <= lReserved

\* Stack traces and calls agree about a loaded module: the body of a function begins at its
\* entry in the function table, an address in the body is traced to that function and to the
\* line that was last announced before it (lookup_fa, code_reverse_lookup, lookup_line).
LookupsInvert ==
    lStage = "done" =>
        \A k \in 1..Len(lProg), f \in 2..3 :
            LET info == CHOOSE m \in 1..Len(lProg) : lProg[m] = FuncInfo(f)
                last == IF f = 2 THEN CHOOSE m \in 1..Len(lProg) : lProg[m] = Label(3) ELSE Len(lProg) + 1
                said == {m \in 1..k : lProg[m].op = "line"}
            IN  (k > info /\ k < last /\ Size(lProg[k]) > 0) =>
                /\ lFuns[f] = Offset(info + 1)
                /\ CodeReverseLookup(Offset(k)) = f
                /\ LookupLine(Offset(k)) = lProg[CHOOSE m \in said : \A q \in said : q <= m].args[1].n

(***************************************************************************)
(* Loaded code is whole: it fits the memory measured for it, its operands  *)
(* are linked, and its line and function tables lead back from any place   *)
(* in it.                                                                  *)
(***************************************************************************)
LoadedCodeSound == CodeIsLinked /\ CodeFits /\ LookupsInvert

\* A call returns to the line it was made on: op_try_catch looks up the return address,
\* which is the address of the next instruction.
ReturnKeepsLine ==
    lStage = "done" =>
        \A k \in 1..Len(lProg) :
            (lProg[k].op = "call_ext" /\ Offset(k) + 3 < Len(lCode)) =>
                LookupLine(Offset(k) + 3) = LookupLine(Offset(k))
=============================================================================

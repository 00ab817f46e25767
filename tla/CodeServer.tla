------------------------------ MODULE CodeServer ------------------------------
(***************************************************************************)
(* The code server of the BEAM emulator (emulator/code_srv/mod.rs): one    *)
(* generation of every loaded module, looked up by calls of other modules  *)
(* (imports, exports, apply, spawn), and the pointers into its code that   *)
(* processes (ip, cp and the return addresses and catch labels on their    *)
(* stacks) and closures (dst) keep.  A generation is known by its version; *)
(* the memory of a generation that is replaced is freed.                   *)
(***************************************************************************)
EXTENDS Naturals, FiniteSets, Sequences

CONSTANTS
    CodeModule,   \* modules
    CodeFun,      \* functions a module may export
    NativeFun,    \* pairs <<module, function>> that are native functions
    FileFuns,     \* sets of functions a compiled file may hold
    CodeProc,     \* processes
    MaxVersion,   \* bound on generations ever loaded
    MaxReturns    \* bound on the return addresses of one process
ASSUME CodeServerAssumption ==
    MaxVersion \in Nat /\ MaxReturns \in Nat /\ NativeFun \subseteq CodeModule \X CodeFun /\ FileFuns \subseteq SUBSET CodeFun

None == 0
Versions == 1..MaxVersion

VARIABLES
    vDisk,      \* module to its file: "absent", "broken" or the functions it holds
    vMods,      \* module to the version that calls find, or None
    vGen,       \* version to the functions of that generation
    vLive,      \* versions whose code is in memory
    vNext,      \* the next version
    vRuns,      \* process to the version its instruction pointer is in, or None
    vBack,      \* process to the versions its return addresses are in, the next one last
    vOf,        \* history: version to module
    vFun,       \* process to its closure: [made, fun, dst], made = None if there is none
    vMissed     \* history: versions a call lacked a function of, and found a file to load instead
vVars == <<vDisk, vMods, vGen, vLive, vNext, vRuns, vBack, vOf, vFun, vMissed>>

Absent == [state |-> "absent", funs |-> {}]
Broken == [state |-> "broken", funs |-> {}]
Beam(funs) == [state |-> "beam", funs |-> funs]
NoClosure == [made |-> None, fun |-> None, dst |-> None]

-----------------------------------------------------------------------------
(* Lookups.                                                                *)

\* Module::lookup through lookup_beam_code.
Exports(m, f) == vMods[m] # None /\ f \in vGen[vMods[m]]

\* Faulty variant: a module that is loaded is loaded again by every lookup.
MustLoadAlways(m, f) == TRUE
\* lookup_beam_code_and_load loads when the lookup fails, also if only the function is missing.
MustLoad(m, f) == ~Exports(m, f)

\* find_module_file and load_module: a file that is broken takes a version all the same.
Unloadable(m) == vDisk[m].state # "beam"
FailToLoad(m) ==
    /\ vNext' = (IF vDisk[m].state = "broken" THEN vNext + 1 ELSE vNext)
    /\ UNCHANGED <<vMods, vGen, vLive, vOf>>
\* module_loaded: the map keeps the new generation only.
ModuleLoaded(m) ==
    /\ vNext' = vNext + 1
    /\ vMods' = [vMods EXCEPT ![m] = vNext]
    /\ vGen' = [vGen EXCEPT ![vNext] = vDisk[m].funs]
    /\ vOf' = [vOf EXCEPT ![vNext] = m]
    /\ vLive' = (vLive \ {vMods[m]}) \cup {vNext}
Kept == UNCHANGED <<vMods, vGen, vLive, vNext, vOf>>

\* A process whose code is gone runs into freed memory: what it does then is not modelled.
Sane(p) == vRuns[p] = None \/ vRuns[p] \in vLive

\* A call goes into version v.  A call that is not the last one
\* of its function leaves a return address.  Calls within a module add nothing to these.
Enter(p, v) ==
    /\ vRuns' = [vRuns EXCEPT ![p] = v]
    /\ vBack' = IF vRuns[p] = None \/ Len(vBack[p]) = MaxReturns THEN vBack
               ELSE [vBack EXCEPT ![p] = Append(@, vRuns[p])]
TailEnter(p, v) == vRuns' = [vRuns EXCEPT ![p] = v] /\ UNCHANGED vBack

\* Import::resolve, call_export, apply and Process::new: a call of m:f, or a new process.
CallBeam(p, m, f) ==
    /\ Sane(p) /\ <<m, f>> \notin NativeFun
    /\ vNext <= MaxVersion
    /\ IF ~MustLoad(m, f) THEN Kept ELSE IF Unloadable(m) THEN FailToLoad(m) ELSE ModuleLoaded(m)
    /\ vMissed' = IF vMods[m] # None /\ f \notin vGen[vMods[m]] /\ ~Unloadable(m)
                  THEN vMissed \cup {vMods[m]} ELSE vMissed
    /\ IF vMods'[m] # None /\ f \in vGen'[vMods'[m]]
       THEN Enter(p, vMods'[m]) \/ TailEnter(p, vMods'[m])
       ELSE UNCHANGED <<vRuns, vBack>>
    /\ UNCHANGED <<vDisk, vFun>>

\* A native function wins over one of the same name in a module (lookup_mfa, get_is_bif).
CallNative(p, m, f) ==
    /\ Sane(p) /\ <<m, f>> \in NativeFun
    /\ UNCHANGED vVars

-----------------------------------------------------------------------------
(* Closures.                                                               *)

\* make_fun2: the mfa is that of the running module's lambda; the address is not known yet.
MakeFun(p, f) ==
    /\ vRuns[p] \in vLive /\ f \in vGen[vRuns[p]]
    /\ vFun' = [vFun EXCEPT ![p] = [made |-> vOf[vRuns[p]], fun |-> f, dst |-> None]]
    /\ UNCHANGED <<vDisk, vMods, vGen, vLive, vNext, vRuns, vBack, vOf, vMissed>>

\* update_location: lookup_beam_code_versioned, which loads nothing.
UpdateLocation(c) == vMods[c.made]

\* call_closure: the cached address if there is one, whatever happened to its module since.
CallClosure(p) ==
    LET c == vFun[p] IN
    /\ Sane(p) /\ c.made # None
    /\ \/ c.dst # None /\ (Enter(p, c.dst) \/ TailEnter(p, c.dst)) /\ UNCHANGED vFun
       \/ /\ c.dst = None /\ Exports(c.made, c.fun)
          /\ vFun' = [vFun EXCEPT ![p].dst = UpdateLocation(c)]
          /\ Enter(p, UpdateLocation(c)) \/ TailEnter(p, UpdateLocation(c))
       \/ c.dst = None /\ ~Exports(c.made, c.fun) /\ UNCHANGED <<vRuns, vBack, vFun>>
    /\ UNCHANGED <<vDisk, vMods, vGen, vLive, vNext, vOf, vMissed>>

\* A return, or an exception that a function further down has a catch for.
ReturnTo(p) ==
    /\ vRuns[p] # None /\ Sane(p)
    /\ \E n \in DOMAIN vBack[p] :
          /\ vRuns' = [vRuns EXCEPT ![p] = vBack[p][n]]
          /\ vBack' = [vBack EXCEPT ![p] = SubSeq(@, 1, n - 1)]
    /\ UNCHANGED <<vDisk, vMods, vGen, vLive, vNext, vOf, vFun, vMissed>>

\* A process passes its closure to another one (send copies the term, the address included).
SendFun(p, q) ==
    /\ p # q /\ Sane(p) /\ vFun[p].made # None
    /\ vFun' = [vFun EXCEPT ![q] = vFun[p]]
    /\ UNCHANGED <<vDisk, vMods, vGen, vLive, vNext, vRuns, vBack, vOf, vMissed>>

ExitProc(p) ==
    /\ vRuns[p] # None /\ Sane(p)
    /\ vRuns' = [vRuns EXCEPT ![p] = None] /\ vBack' = [vBack EXCEPT ![p] = << >>]
    /\ vFun' = [vFun EXCEPT ![p] = NoClosure]
    /\ UNCHANGED <<vDisk, vMods, vGen, vLive, vNext, vOf, vMissed>>

\* The developer compiles a module anew, or removes its file.
FileChanges(m, file) ==
    /\ vDisk[m] # file
    /\ vDisk' = [vDisk EXCEPT ![m] = file]
    /\ UNCHANGED <<vMods, vGen, vLive, vNext, vRuns, vBack, vOf, vFun, vMissed>>

CodeInit ==
    /\ vDisk \in [CodeModule -> {Absent, Beam(CodeFun)}]
    /\ vMods = [m \in CodeModule |-> None] /\ vGen = [v \in Versions |-> {}] /\ vLive = {}
    /\ vNext = 1 /\ vRuns = [p \in CodeProc |-> None] /\ vOf = [v \in Versions |-> None]
    /\ vBack = [p \in CodeProc |-> << >>]
    /\ vFun = [p \in CodeProc |-> NoClosure] /\ vMissed = {}
CodeNext ==
    \/ \E p \in CodeProc, m \in CodeModule, f \in CodeFun : CallBeam(p, m, f) \/ CallNative(p, m, f)
    \/ \E p \in CodeProc, f \in CodeFun : MakeFun(p, f)
    \/ \E p, q \in CodeProc : SendFun(p, q)
    \/ \E p \in CodeProc : CallClosure(p) \/ ReturnTo(p) \/ ExitProc(p)
    \/ \E m \in CodeModule : \E file \in {Absent, Broken} \cup {Beam(fs) : fs \in FileFuns} :
          FileChanges(m, file)
CodeSpec == CodeInit /\ [][CodeNext]_vVars

-----------------------------------------------------------------------------
(* Properties.                                                             *)

Returns(p) == {vBack[p][n] : n \in DOMAIN vBack[p]}
Pointers ==
    {vRuns[p] : p \in CodeProc} \cup {vFun[p].dst : p \in CodeProc} \cup UNION {Returns(p) : p \in CodeProc}
\* The version of its module that calls find, in memory.
Found(v) == v \in vLive /\ vOf[v] \in CodeModule /\ vMods[vOf[v]] = v

\* Whatever is loaded anew beside it, every instruction pointer, return address and address cached
\* in a closure is of code in memory that calls of its module run too, but for those of a version
\* that a call lacked a function of: lookup_beam_code_and_load then takes the file again, and
\* module_loaded frees what runs.  Only pointers that are there already are left in freed code:
\* whatever a step points to anew calls find after it.
OneGenerationRuns ==
    [][/\ \A v \in Pointers' \ {None} : Found(v)' \/ v \in vMissed'
       /\ \A v \in Pointers' \ (Pointers \cup {None}) : Found(v)']_vVars

\* Code that a process may still run or return to stays in memory (the code server
\* "contains 2 versions of module code: current and previous").
RunsLiveCode == Pointers \subseteq vLive \cup {None}
=============================================================================

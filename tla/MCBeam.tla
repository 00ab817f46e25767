-------------------------------- MODULE MCBeam --------------------------------
(***************************************************************************)
(* Model checking of the BEAM emulator: its parts run one per behaviour,   *)
(* chosen in the initial state.  The scheduler runs twice, once with much  *)
(* mail and few processes of one priority, once with processes of every    *)
(* priority and no mail; of the code server's modules one is compiled anew. *)
(***************************************************************************)
EXTENDS BeamScheduler, BeamMachine, BeamMaps, BeamTerms, BeamLoader, TermFormats, CodeServer

CONSTANTS Subjects, m1, m2, fa, fb

VARIABLE subject

MCNumbers == {0, 15, 16, 255, 256, 2047, 2048, 32767, 32768, 70000, 8388608}
MCIntegers32 == {0, 255, 256, -1, -2147483647, 2147483647}
MCModules == {m1, m2}
MCFuns == {fa, fb}
MCNatives == {<<m2, fb>>}
MCFileFuns == {{fa}, {fa, fb}}

\* The parts that do not run are at rest in one state.
Idle(s) == subject # s
SuiteInit ==
    /\ subject \in Subjects
    /\ BeamInit /\ MachineInit /\ MapsInit
    /\ IF subject = "terms" THEN TermsInit ELSE tIn = << >> /\ tOut = << >>
    /\ IF subject = "loader" THEN LoaderInit
       ELSE /\ lProg = << >> /\ lFile = << >> /\ lStage = "failed" /\ lRead = {} /\ lNext = 0 /\ lReserved = 0
            /\ lCode = << >> /\ lTables = << >> /\ lLabels = << >> /\ lPatches = << >> /\ lFuns = << >>
            /\ lLines = << >>
    /\ IF subject = "formats" THEN FormatsInit
       ELSE /\ zMeant = << >> /\ zKind = "none" /\ zTable = FALSE /\ zBytes = << >> /\ zRead = << >>
            /\ zPhase = "read"
    /\ CodeInit /\ (Idle("code") => vDisk = [m \in CodeModule |-> Absent])

Scheduler ==
    /\ subject \in {"mail", "turns"} /\ BeamNext
    /\ subject = "mail" => bNextPid' <= 2 /\ \A p \in DOMAIN bProc' : bProc'[p].prio = "Normal"
    /\ subject = "turns" => \A p \in DOMAIN bProc' : bProc'[p].sent = 0
    /\ UNCHANGED <<mVars, pVars, tVars, lVars, zVars, vVars>>
SuiteNext ==
    /\ UNCHANGED subject
    /\ \/ Scheduler
       \/ subject = "machine" /\ MachineNext /\ UNCHANGED <<bVars, pVars, tVars, lVars, zVars, vVars>>
       \/ subject = "maps" /\ MapsNext /\ UNCHANGED <<bVars, mVars, tVars, lVars, zVars, vVars>>
       \/ subject = "terms" /\ TermsNext /\ UNCHANGED <<bVars, mVars, pVars, lVars, zVars, vVars>>
       \/ subject = "loader" /\ LoaderNext /\ UNCHANGED <<bVars, mVars, pVars, tVars, zVars, vVars>>
       \/ subject = "formats" /\ FormatsNext /\ UNCHANGED <<bVars, mVars, pVars, tVars, lVars, vVars>>
       \/ /\ subject = "code" /\ CodeNext /\ vDisk'[m2] = vDisk[m2]
          /\ UNCHANGED <<bVars, mVars, pVars, tVars, lVars, zVars>>

suiteVars == <<subject, bVars, mVars, pVars, tVars, lVars, zVars, vVars>>
\* The dispatch loop goes on, and a slice of reductions ends.
SuiteSpec ==
    /\ SuiteInit /\ [][SuiteNext]_suiteVars
    /\ WF_bVars(Tick) /\ WF_bVars(bPhase = "slice" /\ OutOfReductions)
===============================================================================

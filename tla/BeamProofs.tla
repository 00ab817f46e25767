------------------------------ MODULE BeamProofs ------------------------------
(***************************************************************************)
(* The BEAM emulator for every value of the constants: one generation of   *)
(* code runs, its scheduler mislays neither processes nor messages, and    *)
(* the stack of a process is what its calls say.                           *)
(***************************************************************************)
EXTENDS BeamScheduler, BeamMachine, CodeServer, DataProofs, FiniteSetTheorems

-----------------------------------------------------------------------------
(* The code server.                                                        *)

Loaded == 0..MaxVersion

ClosureType == [made : CodeModule \union {None}, fun : CodeFun \union {None}, dst : Loaded]

PointsOK == vRuns \in [CodeProc -> Loaded] /\ vBack \in [CodeProc -> Seq(Loaded)] /\ vFun \in [CodeProc -> ClosureType]

CodeTypeOK ==
    /\ vNext \in 1..(MaxVersion + 1)
    /\ vMods \in [CodeModule -> Loaded] /\ vOf \in [Versions -> CodeModule \union {None}]
    /\ vGen \in [Versions -> SUBSET CodeFun]
    /\ vLive \subseteq Versions
    /\ PointsOK
    /\ \A m \in CodeModule : vDisk[m].funs \subseteq CodeFun
    /\ DOMAIN vDisk = CodeModule

CodeInv ==
    /\ CodeTypeOK
    /\ \A m \in CodeModule : vMods[m] # None => vMods[m] < vNext /\ vMods[m] \in vLive /\ vOf[vMods[m]] = m
    /\ \A v \in vLive : v < vNext /\ vOf[v] \in CodeModule
    /\ \A v \in Pointers \ {None} : Found(v) \/ v \in vMissed

\* What a step points to anew, calls find after it.
NewFound == \A v \in Pointers' \ (Pointers \union {None}) : Found(v)'

\* A closure's module is a module (make_fun2 takes it from the code that runs).
LEMMA CodeInvInit == CodeInit => CodeInv
<1> SUFFICES ASSUME CodeInit PROVE CodeInv
  OBVIOUS
<1>1. 1 \in 1..(MaxVersion + 1) /\ None \in Loaded
  BY CodeServerAssumption DEF Loaded, None
<1>2. \A m \in CodeModule : vDisk[m].funs \subseteq CodeFun
  BY DEF CodeInit, Absent, Beam
<1>3. NoClosure \in ClosureType
  BY <1>1 DEF NoClosure, ClosureType
<1>4. CodeTypeOK
  BY <1>1, <1>2, <1>3 DEF CodeInit, CodeTypeOK, PointsOK
<1>5. \A p \in CodeProc : vRuns[p] = None /\ vFun[p].dst = None /\ vBack[p] = << >>
  BY DEF CodeInit, NoClosure
<1>6. Pointers \subseteq {None}
  BY <1>5 DEF Pointers, Returns
<1> QED BY <1>4, <1>6 DEF CodeInit, CodeInv

\* Loading a module takes only its own version from those that calls find.
LEMMA CodeLoads ==
    ASSUME CodeInv, NEW m \in CodeModule, vNext <= MaxVersion, ModuleLoaded(m)
    PROVE  /\ vNext' \in 1..(MaxVersion + 1)
           /\ vMods' \in [CodeModule -> Loaded] /\ vOf' \in [Versions -> CodeModule \union {None}]
           /\ vGen' \in [Versions -> SUBSET CodeFun] /\ vLive' \subseteq Versions
           /\ \A n \in CodeModule : vMods'[n] # None => vMods'[n] < vNext' /\ vMods'[n] \in vLive' /\ vOf'[vMods'[n]] = n
           /\ \A v \in vLive' : v < vNext' /\ vOf'[v] \in CodeModule
           /\ \A v \in vLive : Found(v) /\ v # vMods[m] => Found(v)'
           /\ Found(vMods[m])'
<1>1. vNext \in Versions /\ vNext \in Loaded /\ vNext # None /\ vNext + 1 \in 1..(MaxVersion + 1)
  BY CodeServerAssumption DEF CodeInv, CodeTypeOK, Versions, Loaded, None
<1>2. vMods' = [vMods EXCEPT ![m] = vNext] /\ vOf' = [vOf EXCEPT ![vNext] = m] /\ vLive' = (vLive \ {vMods[m]}) \union {vNext}
      /\ vNext' = vNext + 1 /\ vGen' = [vGen EXCEPT ![vNext] = vDisk[m].funs]
  BY DEF ModuleLoaded
<1>3. \A v \in vLive : v \in Versions /\ v # vNext /\ v < vNext + 1 /\ vOf'[v] = vOf[v]
  BY <1>1, <1>2 DEF CodeInv, CodeTypeOK, Versions
<1>4. vOf'[vNext] = m /\ vMods'[m] = vNext
  BY <1>1, <1>2 DEF CodeInv, CodeTypeOK
<1>5. vNext < vNext + 1
  BY <1>1 DEF Versions
<1>6. \A v \in vLive' : v < vNext' /\ vOf'[v] \in CodeModule
  BY <1>2, <1>3, <1>4, <1>5 DEF CodeInv
<1>7. ASSUME NEW n \in CodeModule, vMods'[n] # None
      PROVE  vMods'[n] < vNext' /\ vMods'[n] \in vLive' /\ vOf'[vMods'[n]] = n
  <2>1. CASE n = m
    BY <2>1, <1>2, <1>4, <1>5
  <2>2. CASE n # m
    <3>1. vMods'[n] = vMods[n]
      BY <2>2, <1>2 DEF CodeInv, CodeTypeOK
    <3>2. vMods[n] \in vLive /\ vOf[vMods[n]] = n
      BY <1>7, <3>1 DEF CodeInv
    <3>3. vMods[n] # vMods[m]
      BY <2>2, <1>7, <3>1, <3>2 DEF CodeInv
    <3> QED BY <1>2, <1>3, <3>1, <3>2, <3>3
  <2> QED BY <2>1, <2>2
<1>8. ASSUME NEW v \in vLive, Found(v), v # vMods[m] PROVE Found(v)'
  <2>1. vOf[v] # m
    BY <1>8 DEF Found
  <2>2. vMods'[vOf[v]] = vMods[vOf[v]]
    BY <1>2, <1>8, <2>1 DEF Found, CodeInv, CodeTypeOK
  <2> QED BY <1>2, <1>3, <1>8, <2>2 DEF Found
<1>9. Found(vMods[m])'
  BY <1>2, <1>4 DEF Found
<1> QED BY <1>1, <1>2, <1>6, <1>7, <1>8, <1>9 DEF CodeInv, CodeTypeOK

\* A call adds one version to the pointers of its process.
LEMMA CodeReaches ==
    ASSUME PointsOK, NEW p \in CodeProc, NEW v \in Loaded, Enter(p, v) \/ TailEnter(p, v)
    PROVE  /\ vRuns' \in [CodeProc -> Loaded] /\ vBack' \in [CodeProc -> Seq(Loaded)]
           /\ \A q \in CodeProc : vRuns'[q] \in Pointers \union {v} /\ Returns(q)' \subseteq Pointers \union {v}
<1>1. vRuns' = [vRuns EXCEPT ![p] = v]
  BY DEF Enter, TailEnter
<1>2. vBack' = vBack \/ vBack' = [vBack EXCEPT ![p] = Append(@, vRuns[p])]
  BY DEF Enter, TailEnter
<1>3. \A q \in CodeProc : vRuns'[q] \in {vRuns[q], v}
  BY <1>1 DEF PointsOK
<1>4. vBack' \in [CodeProc -> Seq(Loaded)]
  <2>1. \A s \in Seq(Loaded) : Append(s, vRuns[p]) \in Seq(Loaded)
    BY DEF PointsOK
  <2> QED BY <1>2, <2>1 DEF PointsOK
<1>5. ASSUME NEW q \in CodeProc PROVE Returns(q)' \subseteq Returns(q) \union {vRuns[q]}
  <2>1. vBack'[q] = vBack[q] \/ vBack'[q] = Append(vBack[q], vRuns[q])
    BY <1>2 DEF PointsOK
  <2>2. vBack[q] \in Seq(Loaded)
    BY DEF PointsOK
  <2>3. \A n \in DOMAIN Append(vBack[q], vRuns[q]) :
          Append(vBack[q], vRuns[q])[n] \in {vBack[q][i] : i \in DOMAIN vBack[q]} \union {vRuns[q]}
    BY <2>2
  <2> QED BY <2>1, <2>3 DEF Returns
<1>6. \A q \in CodeProc : vRuns[q] \in Pointers /\ Returns(q) \subseteq Pointers
  BY DEF Pointers
<1>7. vRuns' \in [CodeProc -> Loaded]
  BY <1>1 DEF PointsOK
<1>8. ASSUME NEW q \in CodeProc
      PROVE  vRuns'[q] \in Pointers \union {v} /\ Returns(q)' \subseteq Pointers \union {v}
  <2>1. vRuns'[q] \in Pointers \union {v}
    BY <1>3, <1>6
  <2>2. Returns(q)' \subseteq Pointers
    BY <1>5, <1>6
  <2> QED BY <2>1, <2>2
<1> QED BY <1>4, <1>7, <1>8

LEMMA CodeEnters ==
    ASSUME PointsOK, NEW p \in CodeProc, NEW v \in Loaded, Enter(p, v) \/ TailEnter(p, v), UNCHANGED vFun
    PROVE  PointsOK' /\ Pointers' \subseteq Pointers \union {v}
<1>1. /\ vRuns' \in [CodeProc -> Loaded] /\ vBack' \in [CodeProc -> Seq(Loaded)]
      /\ \A q \in CodeProc : vRuns'[q] \in Pointers \union {v} /\ Returns(q)' \subseteq Pointers \union {v}
  BY CodeReaches
<1>2. \A q \in CodeProc : vFun'[q].dst \in Pointers
  BY DEF Pointers
<1>3. Pointers' \subseteq Pointers \union {v}
  <2>1. Pointers' = {vRuns'[q] : q \in CodeProc} \union {vFun'[q].dst : q \in CodeProc}
                    \union UNION {Returns(q)' : q \in CodeProc}
    BY DEF Pointers
  <2> QED BY <1>1, <1>2, <2>1
<1> QED BY <1>1, <1>3 DEF PointsOK

LEMMA CodeCalls ==
    ASSUME CodeInv, NEW p \in CodeProc, NEW m \in CodeModule, NEW f \in CodeFun, CallBeam(p, m, f)
    PROVE  CodeInv' /\ NewFound
<1>1. UNCHANGED <<vDisk, vFun>> /\ vNext <= MaxVersion
  BY DEF CallBeam
<1>2. vMissed \subseteq vMissed'
      /\ (vMods[m] # None /\ f \notin vGen[vMods[m]] /\ ~Unloadable(m) => vMods[m] \in vMissed')
  BY DEF CallBeam
<1>3. \/ vMods'[m] # None /\ (Enter(p, vMods'[m]) \/ TailEnter(p, vMods'[m]))
      \/ UNCHANGED <<vRuns, vBack>>
  BY DEF CallBeam
<1>4. ASSUME vMods' \in [CodeModule -> Loaded]
      PROVE  PointsOK' /\ Pointers' \subseteq Pointers \union ({vMods'[m]} \ {None})
  <2>1. CASE vMods'[m] # None /\ (Enter(p, vMods'[m]) \/ TailEnter(p, vMods'[m]))
    BY <1>1, <1>4, <2>1, CodeEnters DEF CodeInv, CodeTypeOK
  <2>2. CASE UNCHANGED <<vRuns, vBack>>
    BY <1>1, <2>2 DEF CodeInv, CodeTypeOK, PointsOK, Pointers, Returns
  <2> QED BY <1>3, <2>1, <2>2
<1>5. CASE ModuleLoaded(m) /\ MustLoad(m, f) /\ ~Unloadable(m)
  <2>1. PointsOK' /\ Pointers' \subseteq Pointers \union {vMods'[m]}
    BY <1>1, <1>4, <1>5, CodeLoads
  <2>2. CodeTypeOK'
    BY <1>1, <1>5, <2>1, CodeLoads DEF CodeInv, CodeTypeOK
  <2>3. Found(vMods[m])'
    BY <1>1, <1>5, CodeLoads
  <2>4. vMods[m] # None => vMods[m] \in vMissed'
    BY <1>2, <1>5 DEF MustLoad, Exports
  <2>5. ASSUME NEW v \in Pointers, v # None PROVE Found(v)' \/ v \in vMissed'
    <3>1. Found(v) \/ v \in vMissed
      BY <2>5 DEF CodeInv
    <3>2. CASE Found(v)
      BY <1>1, <1>5, <2>4, <2>5, <3>2, CodeLoads DEF Found
    <3> QED BY <1>2, <3>1, <3>2
  <2>6. \A v \in Pointers' \ {None} : Found(v)' \/ v \in vMissed'
    BY <2>1, <2>3, <2>5 DEF Found
  <2>7. NewFound
    BY <2>1, <2>3 DEF NewFound, Found
  <2> QED BY <1>1, <1>5, <2>2, <2>6, <2>7, CodeLoads DEF CodeInv
<1>6. CASE UNCHANGED <<vMods, vGen, vLive, vOf>> /\ vNext' \in {vNext, vNext + 1}
  <2>1. vNext' \in 1..(MaxVersion + 1) /\ vNext <= vNext'
    BY <1>1, <1>6, CodeServerAssumption DEF CodeInv, CodeTypeOK
  <2>2. PointsOK' /\ Pointers' \subseteq Pointers \union ({vMods[m]} \ {None})
    BY <1>4, <1>6 DEF CodeInv, CodeTypeOK
  <2>3. CodeTypeOK'
    BY <1>1, <1>6, <2>1, <2>2 DEF CodeInv, CodeTypeOK
  <2>4. \A v : Found(v)' <=> Found(v)
    BY <1>6 DEF Found
  <2>5. vMods[m] # None => Found(vMods[m])
    BY DEF CodeInv, Found
  <2>6. (\A v \in Pointers' \ {None} : Found(v)' \/ v \in vMissed') /\ NewFound
    BY <1>2, <2>2, <2>4, <2>5 DEF CodeInv, NewFound
  <2>7. \A n \in CodeModule : vMods'[n] # None => vMods'[n] < vNext' /\ vMods'[n] \in vLive' /\ vOf'[vMods'[n]] = n
    <3>1. \A n \in CodeModule : vMods[n] # None => vMods[n] < vNext'
      BY <2>1 DEF CodeInv, CodeTypeOK, Loaded
    <3> QED BY <1>6, <3>1 DEF CodeInv
  <2>8. \A v \in vLive' : v < vNext' /\ vOf'[v] \in CodeModule
    <3>1. \A v \in vLive : v < vNext'
      BY <2>1 DEF CodeInv, CodeTypeOK, Versions
    <3> QED BY <1>6, <3>1 DEF CodeInv
  <2> QED BY <2>3, <2>6, <2>7, <2>8 DEF CodeInv
<1> QED BY <1>5, <1>6 DEF CallBeam, FailToLoad, Kept

\* What moves pointers only: to versions that a pointer or a lookup had.
LEMMA CodePoints ==
    ASSUME CodeInv, UNCHANGED <<vDisk, vMods, vGen, vLive, vNext, vOf, vMissed>>, PointsOK',
           \A v \in Pointers' : v = None \/ v \in Pointers \/ Found(v)
    PROVE  CodeInv' /\ NewFound
<1>1. CodeTypeOK'
  BY DEF CodeInv, CodeTypeOK
<1>2. \A v : Found(v)' <=> Found(v)
  BY DEF Found
<1>3. (\A v \in Pointers' \ {None} : Found(v)' \/ v \in vMissed') /\ NewFound
  BY <1>2 DEF CodeInv, NewFound
<1> QED BY <1>1, <1>3 DEF CodeInv

LEMMA CodeInvNext == CodeInv /\ [CodeNext]_vVars => CodeInv' /\ NewFound
<1> SUFFICES ASSUME CodeInv, [CodeNext]_vVars PROVE CodeInv' /\ NewFound
  OBVIOUS
<1>0. PointsOK /\ None \in Loaded
  BY CodeServerAssumption DEF CodeInv, CodeTypeOK, Loaded, None
<1>7. CASE UNCHANGED vVars
  <2>1. PointsOK' /\ Pointers' = Pointers
    BY <1>0, <1>7 DEF vVars, PointsOK, Pointers, Returns
  <2> QED BY <1>7, <2>1, CodePoints DEF vVars
<1>1. ASSUME NEW p \in CodeProc, NEW m \in CodeModule, NEW f \in CodeFun, CallBeam(p, m, f) \/ CallNative(p, m, f)
      PROVE  CodeInv' /\ NewFound
  <2>1. CASE CallBeam(p, m, f)
    BY <2>1, CodeCalls
  <2>2. CASE CallNative(p, m, f)
    BY <2>2, <1>7 DEF CallNative
  <2> QED BY <1>1, <2>1, <2>2
<1>2. ASSUME NEW p \in CodeProc, NEW f \in CodeFun, MakeFun(p, f) PROVE CodeInv' /\ NewFound
  <2>1. vOf[vRuns[p]] \in CodeModule
    BY <1>2 DEF MakeFun, CodeInv
  <2>2. [made |-> vOf[vRuns[p]], fun |-> f, dst |-> None] \in ClosureType
    BY <1>0, <2>1 DEF ClosureType
  <2>3. UNCHANGED <<vRuns, vBack>> /\ vFun' \in [CodeProc -> ClosureType]
    BY <1>0, <1>2, <2>2 DEF MakeFun, PointsOK
  <2>4. \A q \in CodeProc : vFun'[q].dst = None \/ vFun'[q] = vFun[q]
    BY <1>0, <1>2 DEF MakeFun, PointsOK
  <2>5. PointsOK' /\ \A v \in Pointers' : v = None \/ v \in Pointers
    BY <1>0, <2>3, <2>4 DEF PointsOK, Pointers, Returns
  <2> QED BY <1>2, <2>5, CodePoints DEF MakeFun
<1>3. ASSUME NEW p \in CodeProc, NEW q \in CodeProc, SendFun(p, q) PROVE CodeInv' /\ NewFound
  <2>1. UNCHANGED <<vRuns, vBack>> /\ vFun' \in [CodeProc -> ClosureType]
    BY <1>0, <1>3 DEF SendFun, PointsOK
  <2>2. \A r \in CodeProc : vFun'[r] = vFun[r] \/ vFun'[r] = vFun[p]
    BY <1>0, <1>3 DEF SendFun, PointsOK
  <2>3. PointsOK' /\ \A v \in Pointers' : v \in Pointers
    BY <1>0, <2>1, <2>2 DEF PointsOK, Pointers, Returns
  <2> QED BY <1>3, <2>3, CodePoints DEF SendFun
<1>4. ASSUME NEW p \in CodeProc, CallClosure(p) PROVE CodeInv' /\ NewFound
  <2> DEFINE c == vFun[p]
  <2>0. c \in ClosureType /\ c.made \in CodeModule /\ UNCHANGED <<vDisk, vMods, vGen, vLive, vNext, vOf, vMissed>>
    BY <1>0, <1>4 DEF CallClosure, PointsOK, ClosureType
  <2>1. CASE c.dst # None /\ (Enter(p, c.dst) \/ TailEnter(p, c.dst)) /\ UNCHANGED vFun
    <3>1. c.dst \in Loaded /\ c.dst \in Pointers
      BY <2>0 DEF ClosureType, Pointers
    <3>2. PointsOK' /\ Pointers' \subseteq Pointers
      BY <1>0, <2>1, <3>1, CodeEnters
    <3> QED BY <2>0, <3>2, CodePoints
  <2>2. CASE /\ Exports(c.made, c.fun)
             /\ vFun' = [vFun EXCEPT ![p].dst = UpdateLocation(c)]
             /\ Enter(p, UpdateLocation(c)) \/ TailEnter(p, UpdateLocation(c))
    <3>1. PICK v \in Loaded : v = UpdateLocation(c)
      BY <2>0 DEF UpdateLocation, CodeInv, CodeTypeOK
    <3>2. v # None /\ Found(v)
      BY <2>0, <2>2, <3>1 DEF Exports, UpdateLocation, CodeInv, Found
    <3>3. PICK d \in ClosureType : d = [c EXCEPT !.dst = v]
      BY <2>0 DEF ClosureType
    <3>4. d.dst = v /\ vFun' = [vFun EXCEPT ![p] = d]
      BY <2>0, <2>2, <3>1, <3>3 DEF ClosureType
    <3>5. \A q \in CodeProc : vFun'[q] = vFun[q] \/ vFun'[q].dst = v
      BY <1>0, <3>4 DEF PointsOK
    <3>6. vFun' \in [CodeProc -> ClosureType]
      BY <1>0, <3>4 DEF PointsOK
    <3>7. vRuns' \in [CodeProc -> Loaded] /\ vBack' \in [CodeProc -> Seq(Loaded)]
          /\ \A q \in CodeProc : vRuns'[q] \in Pointers \union {v} /\ Returns(q)' \subseteq Pointers \union {v}
      BY <1>0, <2>2, <3>1, CodeReaches
    <3>8. \A q \in CodeProc : vFun'[q].dst \in Pointers \union {v}
      BY <3>5 DEF Pointers
    <3>9. Pointers' = {vRuns'[q] : q \in CodeProc} \union {vFun'[q].dst : q \in CodeProc}
                      \union UNION {Returns(q)' : q \in CodeProc}
      BY DEF Pointers
    <3>10. \A w \in Pointers' : w = v \/ w \in Pointers
      BY <3>7, <3>8, <3>9
    <3>11. PointsOK'
      BY <3>6, <3>7 DEF PointsOK
    <3> QED BY <2>0, <3>1, <3>2, <3>10, <3>11, CodePoints
  <2>3. CASE UNCHANGED <<vRuns, vBack, vFun>>
    BY <1>7, <2>0, <2>3 DEF vVars
  <2> QED BY <1>4, <2>1, <2>2, <2>3 DEF CallClosure
<1>5. ASSUME NEW p \in CodeProc, ReturnTo(p) PROVE CodeInv' /\ NewFound
  <2>1. PICK n \in DOMAIN vBack[p] :
          vRuns' = [vRuns EXCEPT ![p] = vBack[p][n]] /\ vBack' = [vBack EXCEPT ![p] = SubSeq(@, 1, n - 1)]
    BY <1>5 DEF ReturnTo
  <2>2. vBack[p] \in Seq(Loaded) /\ n \in 1..Len(vBack[p]) /\ vBack[p][n] \in Loaded
    BY <1>0, <2>1 DEF PointsOK
  <2>3. SubSeq(vBack[p], 1, n - 1) \in Seq(Loaded)
        /\ \A i \in DOMAIN SubSeq(vBack[p], 1, n - 1) : i \in DOMAIN vBack[p] /\ SubSeq(vBack[p], 1, n - 1)[i] = vBack[p][i]
    BY <2>2
  <2>4. vRuns' \in [CodeProc -> Loaded] /\ vBack' \in [CodeProc -> Seq(Loaded)] /\ UNCHANGED vFun
    BY <1>0, <1>5, <2>1, <2>2, <2>3 DEF ReturnTo, PointsOK
  <2>5. \A q \in CodeProc : vRuns'[q] = vRuns[q] \/ vRuns'[q] \in Returns(p)
    BY <1>0, <2>1 DEF PointsOK, Returns
  <2>6. \A q \in CodeProc : Returns(q)' \subseteq Returns(q)
    BY <1>0, <2>1, <2>3 DEF PointsOK, Returns
  <2>7. PointsOK' /\ \A v \in Pointers' : v \in Pointers
    BY <1>0, <2>4, <2>5, <2>6 DEF PointsOK, Pointers
  <2> QED BY <1>5, <2>7, CodePoints DEF ReturnTo
<1>6. ASSUME NEW p \in CodeProc, ExitProc(p) PROVE CodeInv' /\ NewFound
  <2>1. NoClosure \in ClosureType /\ NoClosure.dst = None
    BY <1>0 DEF NoClosure, ClosureType
  <2>2. PointsOK'
    BY <1>0, <1>6, <2>1 DEF ExitProc, PointsOK
  <2>3. \A q \in CodeProc : /\ vRuns'[q] = None \/ vRuns'[q] = vRuns[q]
                            /\ vFun'[q].dst = None \/ vFun'[q] = vFun[q]
                            /\ vBack'[q] = << >> \/ vBack'[q] = vBack[q]
    BY <1>0, <1>6, <2>1 DEF ExitProc, PointsOK
  <2>4. \A q \in CodeProc : Returns(q)' \subseteq Returns(q)
    BY <2>3 DEF Returns
  <2>5. \A v \in Pointers' : v = None \/ v \in Pointers
    BY <2>3, <2>4 DEF Pointers
  <2> QED BY <1>6, <2>2, <2>5, CodePoints DEF ExitProc
<1>8. ASSUME NEW m \in CodeModule, NEW file \in {Absent, Broken} \union {Beam(fs) : fs \in FileFuns},
             FileChanges(m, file)
      PROVE  CodeInv' /\ NewFound
  <2>1. file.funs \subseteq CodeFun
    BY CodeServerAssumption DEF Absent, Broken, Beam
  <2>2. (\A n \in CodeModule : vDisk'[n].funs \subseteq CodeFun) /\ DOMAIN vDisk' = CodeModule
    BY <1>8, <2>1 DEF FileChanges, CodeInv, CodeTypeOK
  <2>3. UNCHANGED <<vMods, vGen, vLive, vNext, vRuns, vBack, vOf, vFun, vMissed>>
    BY <1>8 DEF FileChanges
  <2>4. PointsOK' /\ Pointers' = Pointers
    BY <1>0, <2>3 DEF PointsOK, Pointers, Returns
  <2>5. \A v : Found(v)' <=> Found(v)
    BY <2>3 DEF Found
  <2> QED BY <2>2, <2>3, <2>4, <2>5 DEF CodeInv, CodeTypeOK, NewFound
<1> QED BY <1>1, <1>2, <1>3, <1>4, <1>5, <1>6, <1>7, <1>8 DEF CodeNext

(***************************************************************************)
(* Whatever modules are loaded anew, every pointer into code (instruction  *)
(* pointer, return address, address in a closure) is of the generation     *)
(* that calls of its module run, unless a call lacked a function of it and *)
(* found a file to load, and what a step points to anew is always of that  *)
(* generation (emulator/code_srv/mod.rs lookup_beam_code_and_load,         *)
(* module_loaded), for any modules, files that change and processes.       *)
(***************************************************************************)
THEOREM OneGeneration == CodeSpec => OneGenerationRuns
<1>1. CodeInv' /\ NewFound =>
        /\ \A v \in Pointers' \ {None} : Found(v)' \/ v \in vMissed'
        /\ \A v \in Pointers' \ (Pointers \union {None}) : Found(v)'
  BY DEF CodeInv, NewFound
<1> QED BY <1>1, CodeInvInit, CodeInvNext, PTL DEF CodeSpec, OneGenerationRuns

-----------------------------------------------------------------------------
(* The scheduler: where the processes are.                                 *)

Places == {"code", "handler", "loop_rec", "match", "wait"}
BeamProcessType ==
    [prio : Prio, catches : Nat, inbox : Seq(Nat), read : Nat, sent : Nat, got : Nat, at : Places]

\* Everybody of P is in C, waits, is stranded or stands once in a queue, all apart.
Housed(P, Q, W, S, C) ==
    /\ \A p \in DOMAIN P : P[p].prio \in Prio
    /\ \A q \in Prio : Q[q] \in Seq(DOMAIN P)
    /\ \A q \in Prio : \A i \in 1..Len(Q[q]) : P[Q[q][i]].prio = q /\ Q[q][i] \notin W /\ Q[q][i] \notin C
    /\ \A q \in Prio : \A i, j \in 1..Len(Q[q]) : Q[q][i] = Q[q][j] => i = j
    /\ W \subseteq DOMAIN P /\ C \intersect W = {}
    /\ \A p \in DOMAIN P : p \in C \/ p \in W \/ p \in S \/ \E i \in 1..Len(Q[P[p].prio]) : Q[P[p].prio][i] = p

Running == {bCurrent} \ {NoPid}

SchedTypeOK ==
    /\ bNextPid \in 1..MaxBeamPids /\ bAdvantage \in Nat
    /\ Registered \subseteq 0..(bNextPid - 1)
    /\ \A p \in Registered : bProc[p] \in BeamProcessType
    /\ bCurrent \in Registered \union {NoPid}
    /\ bPhase \in {"tick", "slice", "stopped", "halted", "dangling"}
    /\ bPhase = "slice" => bCurrent # NoPid
    /\ bQueue = [q \in Prio |-> bQueue[q]]

\* What an inbox holds: messages received, then those that are not; and what is known of
\* its process where it stands.
MailKept(p) ==
    /\ p.got <= p.sent
    /\ Len(p.inbox) = p.read + (p.sent - p.got)
    /\ \A i \in 1..p.read : p.inbox[i] = NonValue
    /\ \A i \in (p.read + 1)..Len(p.inbox) : p.inbox[i] = p.got + (i - p.read)
    /\ p.got = p.sent => p.read = 0
    /\ p.at = "wait" => p.read = 0
    /\ p.at = "match" => p.inbox # << >>
    /\ p.at = "handler" => p.catches > 0

SchedInv ==
    /\ SchedTypeOK /\ Housed(bProc, bQueue, bWaiting, bStranded, Running)
    /\ \A p \in Registered : MailKept(bProc[p])

LEMMA NoPidUnregistered == SchedTypeOK => NoPid \notin Registered
  BY BeamSchedulerAssumption DEF SchedTypeOK, NoPid

\* next_process_pick_from_the_queues takes from a queue that has an entry.
LEMMA PickThere ==
    ASSUME NEW Q, Pick(Q) # "None"
    PROVE  Pick(Q) \in Prio /\ Q[Pick(Q)] # << >>
<1> DEFINE order == IF bAdvantage < NormalAdvantage THEN <<"High", "Normal", "Low">>
                    ELSE <<"High", "Low", "Normal">>
           ready == {i \in 1..3 : Q[order[i]] # << >>}
           first == CHOOSE i \in ready : \A j \in ready : i <= j
<1>1. \A i \in 1..3 : order[i] \in Prio
  BY DEF Prio
<1>2. ready # {} /\ Pick(Q) = order[first]
  BY DEF Pick
<1>3. \E i \in ready : \A j \in ready : i <= j
  <2>1. ready \subseteq Nat
    OBVIOUS
  <2> QED BY <1>2, <2>1, LeastThere
<1>4. first \in ready
  BY <1>3
<1> QED BY <1>1, <1>2, <1>4

LEMMA TailElements ==
    ASSUME NEW A, NEW s \in Seq(A), s # << >>
    PROVE  /\ Head(s) \in A /\ Tail(s) \in Seq(A) /\ Len(s) >= 1 /\ Head(s) = s[1] /\ Len(Tail(s)) = Len(s) - 1
           /\ \A i \in 1..Len(Tail(s)) : i + 1 \in 1..Len(s) /\ Tail(s)[i] = s[i + 1]
           /\ \A i \in 2..Len(s) : i - 1 \in 1..Len(Tail(s)) /\ Tail(s)[i - 1] = s[i]
  BY HeadTailProperties

\* Whoever is picked is taken from its queue.
LEMMA PickedHoused ==
    ASSUME NEW P, NEW Q, NEW W, NEW S, Housed(P, Q, W, S, {}), NoPid \notin DOMAIN P,
           Q = [q \in Prio |-> Q[q]], PickNext(Q)
    PROVE  /\ Housed(P, bQueue', W, S, Running') /\ bCurrent' \in DOMAIN P \union {NoPid}
           /\ bPhase' \in {"slice", "stopped"} /\ (bPhase' = "slice" => bCurrent' # NoPid)
           /\ bQueue' = [q \in Prio |-> bQueue'[q]]
           /\ bAdvantage' \in {bAdvantage, bAdvantage + 1, 0}
<1>1. CASE Pick(Q) = "None"
  BY <1>1 DEF PickNext, Running
<1>2. CASE Pick(Q) # "None"
  <2>1. PICK k \in Prio : k = Pick(Q) /\ Q[k] # << >>
    BY <1>2, PickThere
  <2>2. PICK c : c = Head(Q[k])
    OBVIOUS
  <2>3. bCurrent' = c /\ bQueue' = [Q EXCEPT ![k] = Tail(@)] /\ bPhase' = "slice" /\ bAdvantage' = bAdvantage
    BY <1>2, <2>1, <2>2 DEF PickNext
  <2>4. Q[k] \in Seq(DOMAIN P)
    BY DEF Housed
  <2>5. /\ c \in DOMAIN P /\ Tail(Q[k]) \in Seq(DOMAIN P) /\ Len(Q[k]) >= 1 /\ c = Q[k][1]
        /\ \A i \in 1..Len(Tail(Q[k])) : i + 1 \in 1..Len(Q[k]) /\ Tail(Q[k])[i] = Q[k][i + 1]
        /\ \A i \in 2..Len(Q[k]) : i - 1 \in 1..Len(Tail(Q[k])) /\ Tail(Q[k])[i - 1] = Q[k][i]
    BY <2>1, <2>2, <2>4, TailElements
  <2>6. bQueue'[k] = Tail(Q[k]) /\ \A q \in Prio : q # k => bQueue'[q] = Q[q]
    BY <2>3
  <2>7. 1 \in 1..Len(Q[k]) /\ P[c].prio = k /\ c \notin W /\ c # NoPid
    <3>1. 1 \in 1..Len(Q[k])
      BY <2>4, <2>5, LenProperties
    <3> QED BY <2>5, <3>1 DEF Housed
  <2>8. ASSUME NEW q \in Prio, NEW i \in 1..Len(bQueue'[q])
        PROVE  P[bQueue'[q][i]].prio = q /\ bQueue'[q][i] \notin W /\ bQueue'[q][i] \notin {c}
    <3>1. CASE q # k
      BY <2>6, <2>7, <3>1 DEF Housed
    <3>2. CASE q = k
      <4>1. i \in Nat /\ i + 1 \in 1..Len(Q[k]) /\ bQueue'[q][i] = Q[k][i + 1]
        BY <2>5, <2>6, <3>2
      <4>2. i + 1 # 1
        BY <4>1
      <4>3. Q[k][i + 1] # Q[k][1]
        <5>1. PICK m \in 1..Len(Q[k]) : m = i + 1 /\ m # 1
          BY <4>1, <4>2
        <5>0. \A i1, i2 \in 1..Len(Q[k]) : Q[k][i1] = Q[k][i2] => i1 = i2
          BY DEF Housed
        <5>2. Q[k][m] # Q[k][1]
          BY <2>7, <5>0, <5>1
        <5> QED BY <5>1, <5>2
      <4>4. P[Q[k][i + 1]].prio = k /\ Q[k][i + 1] \notin W
        BY <4>1 DEF Housed
      <4> QED BY <2>5, <3>2, <4>1, <4>3, <4>4
    <3> QED BY <3>1, <3>2
  <2>9. ASSUME NEW q \in Prio, NEW i \in 1..Len(bQueue'[q]), NEW j \in 1..Len(bQueue'[q]), bQueue'[q][i] = bQueue'[q][j]
        PROVE  i = j
    <3>1. CASE q # k
      BY <2>6, <2>9, <3>1 DEF Housed
    <3>2. CASE q = k
      <4>1. i + 1 \in 1..Len(Q[k]) /\ j + 1 \in 1..Len(Q[k]) /\ Q[k][i + 1] = Q[k][j + 1]
        BY <2>5, <2>6, <2>9, <3>2
      <4>2. i + 1 = j + 1
        BY <4>1 DEF Housed
      <4> QED BY <4>2
    <3> QED BY <3>1, <3>2
  <2>10. ASSUME NEW p \in DOMAIN P
         PROVE  p \in {c} \/ p \in W \/ p \in S \/ \E i \in 1..Len(bQueue'[P[p].prio]) : bQueue'[P[p].prio][i] = p
    <3>1. p \in W \/ p \in S \/ \E i \in 1..Len(Q[P[p].prio]) : Q[P[p].prio][i] = p
      BY DEF Housed
    <3>2. ASSUME NEW i \in 1..Len(Q[P[p].prio]), Q[P[p].prio][i] = p, p # c, P[p].prio = k
          PROVE  \E j \in 1..Len(bQueue'[k]) : bQueue'[k][j] = p
      <4>1. i \in 2..Len(Q[k])
        BY <2>5, <3>2
      <4> QED BY <2>5, <2>6, <3>2, <4>1
    <3>0. P[p].prio \in Prio
      BY DEF Housed
    <3>3. P[p].prio # k => bQueue'[P[p].prio] = Q[P[p].prio]
      BY <2>6, <3>0
    <3> QED BY <3>1, <3>2, <3>3
  <2>11. ASSUME NEW q \in Prio PROVE bQueue'[q] \in Seq(DOMAIN P)
    <3>1. Q[q] \in Seq(DOMAIN P)
      BY DEF Housed
    <3>2. q = k => bQueue'[q] = Tail(Q[k])
      BY <2>6
    <3> QED BY <2>5, <2>6, <3>1, <3>2
  <2>12. Housed(P, bQueue', W, S, {c})
    BY <2>7, <2>8, <2>9, <2>10, <2>11 DEF Housed
  <2>13. Running' = {c}
    BY <2>3, <2>7 DEF Running
  <2> QED BY <2>3, <2>5, <2>7, <2>12, <2>13
<1> QED BY <1>1, <1>2

\* A process of C goes to the end of its queue.
LEMMA RequeuedHoused ==
    ASSUME NEW P, NEW Q, NEW W, NEW S, NEW C, NEW c \in DOMAIN P, c \in C, Housed(P, Q, W, S, C),
           Q = [q \in Prio |-> Q[q]], NEW R, R = [Q EXCEPT ![P[c].prio] = Append(@, c)]
    PROVE  Housed(P, R, W, S, C \ {c}) /\ R = [q \in Prio |-> R[q]]
<1>1. PICK k \in Prio : k = P[c].prio
  BY DEF Housed
<1>2. PICK n \in Nat : n = Len(Q[k]) /\ Q[k] \in Seq(DOMAIN P)
  BY LenProperties DEF Housed
<1>0. R[k] = Append(Q[k], c)
  BY <1>1
<1>3. R[k] \in Seq(DOMAIN P) /\ Len(R[k]) = n + 1 /\ R[k][n + 1] = c /\ \A i \in 1..n : R[k][i] = Q[k][i]
  <2>1. PICK A : A = DOMAIN P
    OBVIOUS
  <2>2. PICK s \in Seq(A) : s = Q[k]
    BY <1>2, <2>1
  <2>3. c \in A
    BY <2>1
  <2>4. Append(s, c) \in Seq(A) /\ Len(Append(s, c)) = Len(s) + 1
    BY <2>3, AppendProperties
  <2>5. Append(s, c)[Len(s) + 1] = c /\ \A i \in 1..Len(s) : Append(s, c)[i] = s[i]
    BY <2>3, AppendProperties
  <2> QED BY <1>0, <1>2, <2>1, <2>2, <2>4, <2>5
<1>4. \A q \in Prio : q # k => R[q] = Q[q]
  BY <1>1
<1>5. n + 1 \in 1..(n + 1) /\ \A i \in 1..(n + 1) : i = n + 1 \/ i \in 1..n
  BY <1>2
<1>6. ASSUME NEW q \in Prio, NEW i \in 1..Len(R[q])
      PROVE  P[R[q][i]].prio = q /\ R[q][i] \notin W /\ R[q][i] \notin C \ {c}
  BY <1>1, <1>2, <1>3, <1>4, <1>5 DEF Housed
<1>7. ASSUME NEW q \in Prio, NEW i \in 1..Len(R[q]), NEW j \in 1..Len(R[q]), R[q][i] = R[q][j]
      PROVE  i = j
  BY <1>2, <1>3, <1>4, <1>5, <1>7 DEF Housed
<1>8. ASSUME NEW p \in DOMAIN P
      PROVE  p \in C \ {c} \/ p \in W \/ p \in S \/ \E i \in 1..Len(R[P[p].prio]) : R[P[p].prio][i] = p
  <2>1. CASE p = c
    <3>1. n + 1 \in 1..Len(R[k]) /\ R[k][n + 1] = p
      BY <1>3, <1>5, <2>1
    <3>2. P[p].prio = k
      BY <1>1, <2>1
    <3>3. \E i \in 1..Len(R[k]) : R[k][i] = p
      BY <3>1
    <3> QED BY <3>2, <3>3
  <2>2. CASE p # c /\ P[p].prio # k
    <3>0. P[p].prio \in Prio
      BY DEF Housed
    <3>1. PICK m \in Prio : m = P[p].prio
      BY <3>0
    <3>2. R[m] = Q[m]
      BY <1>4, <2>2, <3>1
    <3>3. p \in C \/ p \in W \/ p \in S \/ \E i \in 1..Len(Q[m]) : Q[m][i] = p
      BY <3>1 DEF Housed
    <3> QED BY <2>2, <3>1, <3>2, <3>3
  <2>3. CASE p # c /\ P[p].prio = k
    <3>1. p \in C \/ p \in W \/ p \in S \/ \E i \in 1..n : Q[k][i] = p
      BY <1>2, <2>3 DEF Housed
    <3>2. \A i \in 1..n : i \in 1..Len(R[k])
      BY <1>2, <1>3
    <3>3. \A i \in 1..n : Q[k][i] = p => \E j \in 1..Len(R[k]) : R[k][j] = p
      BY <1>3, <3>2
    <3>4. p \in C \/ p \in W \/ p \in S \/ \E i \in 1..Len(R[k]) : R[k][i] = p
      BY <3>1, <3>3
    <3> QED BY <2>3, <3>4
  <2> QED BY <2>1, <2>2, <2>3
<1>9. \A q \in Prio : R[q] \in Seq(DOMAIN P)
  BY <1>3, <1>4 DEF Housed
<1>10. Housed(P, R, W, S, C \ {c})
  BY <1>6, <1>7, <1>8, <1>9 DEF Housed
<1> QED BY <1>10


\* A sequence is one of whatever set has its elements.
LEMMA NarrowSeq ==
    ASSUME NEW A, NEW B, NEW s \in Seq(A), \A i \in 1..Len(s) : s[i] \in B
    PROVE  s \in Seq(B)
<1>1. s \in [1..Len(s) -> A] /\ Len(s) \in Nat
  BY LenProperties
<1>2. s \in [1..Len(s) -> B]
  BY <1>1
<1> QED BY <1>1, <1>2, SeqDef

\* The end of a process: it is not in a queue, and waits no longer.
LEMMA LeftHoused ==
    ASSUME NEW P, NEW Q, NEW W, NEW S, NEW c, Housed(P, Q, W, S, {c}),
           NEW R, R = [p \in DOMAIN P \ {c} |-> P[p]]
    PROVE  Housed(R, Q, W \ {c}, S, {})
<1>1. DOMAIN R = DOMAIN P \ {c} /\ \A p \in DOMAIN R : R[p] = P[p]
  OBVIOUS
<1>2. ASSUME NEW q \in Prio PROVE Q[q] \in Seq(DOMAIN R)
  <2>1. PICK s \in Seq(DOMAIN P) : s = Q[q]
    BY DEF Housed
  <2>2. \A i \in 1..Len(s) : s[i] \in DOMAIN P
    BY <2>1, ElementOfSeq
  <2>3. \A i \in 1..Len(s) : s[i] # c
    BY <2>1 DEF Housed
  <2>4. \A i \in 1..Len(s) : s[i] \in DOMAIN R
    BY <1>1, <2>2, <2>3
  <2>5. s \in Seq(DOMAIN R)
    BY <2>4, NarrowSeq
  <2> QED BY <2>1, <2>5
<1>3. ASSUME NEW q \in Prio, NEW i \in 1..Len(Q[q])
      PROVE  R[Q[q][i]].prio = q /\ Q[q][i] \notin W \ {c} /\ Q[q][i] \notin {}
  <2>1. Q[q][i] \in DOMAIN R
    BY <1>2, ElementOfSeq
  <2>2. P[Q[q][i]].prio = q /\ Q[q][i] \notin W
    BY DEF Housed
  <2> QED BY <1>1, <2>1, <2>2
<1>4. ASSUME NEW p \in DOMAIN R
      PROVE  p \in {} \/ p \in W \ {c} \/ p \in S \/ \E i \in 1..Len(Q[R[p].prio]) : Q[R[p].prio][i] = p
  <2>1. R[p] = P[p] /\ p \in DOMAIN P /\ p # c
    BY <1>1
  <2>2. p \in W \/ p \in S \/ \E i \in 1..Len(Q[P[p].prio]) : Q[P[p].prio][i] = p
    BY <2>1 DEF Housed
  <2> QED BY <2>1, <2>2
<1> QED BY <1>1, <1>2, <1>3, <1>4 DEF Housed

\* A process that goes to wait, or is stranded.
LEMMA WaitsHoused ==
    ASSUME NEW P, NEW Q, NEW W, NEW S, NEW c \in DOMAIN P, Housed(P, Q, W, S, {c})
    PROVE  Housed(P, Q, W \union {c}, S, {}) /\ Housed(P, Q, W, S \union {c}, {})
<1>1. \A q \in Prio : \A i \in 1..Len(Q[q]) : Q[q][i] \notin W \union {c}
  BY DEF Housed
<1> QED BY <1>1 DEF Housed

\* What the running process does with itself or another one's mail.
LEMMA SameHoused ==
    ASSUME NEW P, NEW Q, NEW W, NEW S, NEW C, Housed(P, Q, W, S, C),
           NEW R, DOMAIN R = DOMAIN P, \A p \in DOMAIN P : R[p].prio = P[p].prio
    PROVE  Housed(R, Q, W, S, C)
<1>1. ASSUME NEW q \in Prio, NEW i \in 1..Len(Q[q]) PROVE R[Q[q][i]].prio = q
  <2>1. Q[q][i] \in DOMAIN P
    BY ElementOfSeq DEF Housed
  <2> QED BY <2>1 DEF Housed
<1>2. ASSUME NEW p \in DOMAIN R
      PROVE  p \in C \/ p \in W \/ p \in S \/ \E i \in 1..Len(Q[R[p].prio]) : Q[R[p].prio][i] = p
  <2>1. PICK k : k = P[p].prio /\ k = R[p].prio
    OBVIOUS
  <2>2. p \in C \/ p \in W \/ p \in S \/ \E i \in 1..Len(Q[k]) : Q[k][i] = p
    BY <2>1 DEF Housed
  <2> QED BY <2>1, <2>2
<1> QED BY <1>1, <1>2 DEF Housed

\* A new process of its own.
LEMMA NewHoused ==
    ASSUME NEW P, NEW Q, NEW W, NEW S, NEW C, Housed(P, Q, W, S, C), NEW n, n \notin DOMAIN P,
           NEW x, x.prio \in Prio, NEW R, R = [p \in DOMAIN P \union {n} |-> IF p = n THEN x ELSE P[p]]
    PROVE  Housed(R, Q, W, S, C \union {n})
<1>1. DOMAIN R = DOMAIN P \union {n} /\ R[n] = x /\ \A p \in DOMAIN P : R[p] = P[p]
  OBVIOUS
<1>2. \A q \in Prio : Q[q] \in Seq(DOMAIN R)
  BY <1>1, SeqMonotonic DEF Housed
<1>3. ASSUME NEW q \in Prio, NEW i \in 1..Len(Q[q])
      PROVE  R[Q[q][i]].prio = q /\ Q[q][i] \notin W /\ Q[q][i] \notin C \union {n}
  <2>1. Q[q][i] \in DOMAIN P
    BY ElementOfSeq DEF Housed
  <2>2. P[Q[q][i]].prio = q /\ Q[q][i] \notin W /\ Q[q][i] \notin C
    BY DEF Housed
  <2> QED BY <1>1, <2>1, <2>2
<1>4. ASSUME NEW p \in DOMAIN R
      PROVE  p \in C \union {n} \/ p \in W \/ p \in S \/ \E i \in 1..Len(Q[R[p].prio]) : Q[R[p].prio][i] = p
  <2>1. CASE p = n
    BY <2>1
  <2>2. CASE p # n
    <3>1. R[p] = P[p] /\ p \in DOMAIN P
      BY <1>1, <2>2
    <3>2. p \in C \/ p \in W \/ p \in S \/ \E i \in 1..Len(Q[P[p].prio]) : Q[P[p].prio][i] = p
      BY <3>1 DEF Housed
    <3> QED BY <3>1, <3>2
  <2> QED BY <2>1, <2>2
<1>5. \A p \in DOMAIN R : R[p].prio \in Prio
  BY <1>1 DEF Housed
<1>6. W \subseteq DOMAIN R /\ (C \union {n}) \intersect W = {}
  BY <1>1 DEF Housed
<1>7. \A q \in Prio : \A i, j \in 1..Len(Q[q]) : Q[q][i] = Q[q][j] => i = j
  BY DEF Housed
<1> QED BY <1>2, <1>3, <1>4, <1>5, <1>6, <1>7 DEF Housed


-----------------------------------------------------------------------------
(* The scheduler: mailboxes.                                               *)

LEMMA ModSmall == ASSUME NEW n \in Nat, NEW a \in 0..(n - 1) PROVE a % n = a
  OBVIOUS

\* step_over stays where it is on a message that is not received.
LEMMA StepOverStays ==
    ASSUME NEW b \in Seq(Nat), NEW r \in 0..(Len(b) - 1), b[r + 1] # NonValue
    PROVE  StepOver(b, r).inbox = b /\ StepOver(b, r).read = r
<1> DEFINE n == Len(b)
           turns == {k \in 0..(n - 1) : b[((r + k) % n) + 1] # NonValue}
           first == CHOOSE k \in turns : \A j \in turns : k <= j
<1>0. n \in Nat \ {0} /\ r \in Nat /\ r + 0 = r /\ r \in 0..(n - 1)
  BY LenProperties
<1>1. r % n = r
  BY <1>0, ModSmall
<1>2. 0 \in turns /\ turns \subseteq Nat
  BY <1>0, <1>1
<1>3. first = 0
  <2>1. \A j \in turns : 0 <= j
    BY <1>2
  <2>2. first \in turns /\ \A j \in turns : first <= j
    BY <1>2, <2>1
  <2> QED BY <1>2, <2>2
<1>4. StepOver(b, r) = [inbox |-> b, read |-> (r + first) % n]
  BY <1>0, <1>2 DEF StepOver
<1>5. StepOver(b, r) = [inbox |-> b, read |-> (r + 0) % n]
  BY <1>3, <1>4
<1>6. (r + 0) % n = r
  BY <1>0, <1>1
<1> QED BY <1>5, <1>6

\* It goes to the next one from one that is received now.
LEMMA StepOverMoves ==
    ASSUME NEW b \in Seq(Nat), NEW r \in Nat, r + 1 < Len(b), b[r + 1] = NonValue, b[r + 2] # NonValue
    PROVE  StepOver(b, r).inbox = b /\ StepOver(b, r).read = r + 1
<1> DEFINE n == Len(b)
           turns == {k \in 0..(n - 1) : b[((r + k) % n) + 1] # NonValue}
           first == CHOOSE k \in turns : \A j \in turns : k <= j
<1>1. n \in Nat \ {0} /\ r + 0 = r /\ (r + 1) + 1 = r + 2 /\ 1 \in 0..(n - 1)
  BY LenProperties
<1>2. r % n = r /\ (r + 1) % n = r + 1
  <2>1. r \in 0..(n - 1) /\ r + 1 \in 0..(n - 1)
    BY <1>1
  <2> QED BY <1>1, <2>1, ModSmall
<1>3. 0 \notin turns /\ 1 \in turns /\ turns \subseteq Nat
  BY <1>1, <1>2
<1>4. first = 1
  <2>1. \A j \in turns : 1 <= j
    <3>1. \A j \in turns : j \in Nat /\ j # 0
      BY <1>3
    <3> QED BY <3>1
  <2>2. first \in turns /\ \A j \in turns : first <= j
    BY <1>3, <2>1
  <2>3. first <= 1 /\ 1 <= first /\ first \in Nat
    BY <1>3, <2>1, <2>2
  <2> HIDE DEF first
  <2> QED BY <2>3
<1>5. StepOver(b, r) = [inbox |-> b, read |-> (r + first) % n]
  BY <1>1, <1>3 DEF StepOver
<1>6. StepOver(b, r) = [inbox |-> b, read |-> (r + 1) % n]
  BY <1>4, <1>5
<1> QED BY <1>2, <1>6

\* It clears an inbox of received messages.
LEMMA StepOverClears ==
    ASSUME NEW b \in Seq(Nat), NEW r \in Nat, \A i \in 1..Len(b) : b[i] = NonValue
    PROVE  StepOver(b, r).inbox = << >> /\ StepOver(b, r).read = 0
<1> DEFINE n == Len(b)
           turns == {k \in 0..(n - 1) : b[((r + k) % n) + 1] # NonValue}
<1>1. ASSUME NEW k \in 0..(n - 1) PROVE b[((r + k) % n) + 1] = NonValue
  <2>1. n \in Nat \ {0} /\ r + k \in Nat
    BY LenProperties
  <2>2. (r + k) % n \in 0..(n - 1)
    BY <2>1
  <2>3. PICK m \in 0..(n - 1) : m = (r + k) % n
    BY <2>2
  <2>4. m + 1 \in 1..n
    BY <2>1
  <2> QED BY <2>3, <2>4
<1>2. turns = {}
  BY <1>1
<1> QED BY <1>2 DEF StepOver


\* A process of the registry, with its mailbox.
Sound(p) == p \in BeamProcessType /\ MailKept(p)

LEMMA NewSound == ASSUME NEW x \in Prio PROVE Sound(NewProcess(x)) /\ NewProcess(x).prio = x
<1>1. << >> \in Seq(Nat) /\ Len(<< >>) = 0
  BY EmptySeq
<1>2. NewProcess(x) \in BeamProcessType
  BY <1>1 DEF NewProcess, BeamProcessType, Places
<1> QED BY <1>1, <1>2 DEF Sound, NewProcess, MailKept

LEMMA DeliveredSound ==
    ASSUME NEW p, Sound(p), NEW r, r = [p EXCEPT !.inbox = Append(@, p.sent + 1), !.sent = @ + 1]
    PROVE  Sound(r) /\ r.prio = p.prio
<1>1. p.inbox \in Seq(Nat) /\ p.sent \in Nat /\ p.got \in Nat /\ p.read \in Nat
  BY DEF Sound, BeamProcessType
<1>2. PICK n \in Nat : n = Len(p.inbox)
  BY <1>1, LenProperties
<1>3. /\ Append(p.inbox, p.sent + 1) \in Seq(Nat) /\ Len(Append(p.inbox, p.sent + 1)) = n + 1
      /\ Append(p.inbox, p.sent + 1)[n + 1] = p.sent + 1
      /\ \A i \in 1..n : Append(p.inbox, p.sent + 1)[i] = p.inbox[i]
  BY <1>1, <1>2, AppendProperties
<1>4. /\ r.inbox = Append(p.inbox, p.sent + 1) /\ r.sent = p.sent + 1 /\ r.got = p.got /\ r.read = p.read
      /\ r.prio = p.prio /\ r.at = p.at /\ r.catches = p.catches /\ r \in BeamProcessType
  <2>1. PICK b \in Seq(Nat) : b = Append(p.inbox, p.sent + 1)
    BY <1>3
  <2>2. p \in BeamProcessType /\ p.sent + 1 \in Nat
    BY <1>1 DEF Sound
  <2>3. r = [p EXCEPT !.inbox = b, !.sent = p.sent + 1]
    BY <2>1, <2>2 DEF BeamProcessType
  <2>4. r.inbox = b /\ r.sent = p.sent + 1 /\ r \in BeamProcessType
    BY <2>2, <2>3 DEF BeamProcessType
  <2>5. r.got = p.got /\ r.read = p.read /\ r.prio = p.prio /\ r.at = p.at /\ r.catches = p.catches
    BY <2>2, <2>3 DEF BeamProcessType
  <2> QED BY <2>1, <2>4, <2>5
<1>5. n = p.read + (p.sent - p.got) /\ p.got <= p.sent
  BY <1>2 DEF Sound, MailKept
<1>6. \A i \in 1..r.read : r.inbox[i] = NonValue
  <2>1. \A i \in 1..p.read : p.inbox[i] = NonValue
    BY DEF Sound, MailKept
  <2>2. \A i \in 1..p.read : i \in 1..n
    BY <1>1, <1>5
  <2> QED BY <1>3, <1>4, <2>1, <2>2
<1>7. \A i \in (r.read + 1)..Len(r.inbox) : r.inbox[i] = r.got + (i - r.read)
  <2>1. \A i \in (p.read + 1)..n : p.inbox[i] = p.got + (i - p.read)
    BY <1>2 DEF Sound, MailKept
  <2>2. \A i \in (p.read + 1)..(n + 1) : (i \in 1..n /\ i \in (p.read + 1)..n) \/ i = n + 1
    BY <1>1, <1>2
  <2>3. p.sent + 1 = p.got + ((n + 1) - p.read)
    BY <1>1, <1>5
  <2> QED BY <1>3, <1>4, <2>1, <2>2, <2>3
<1>8. (r.at = "wait" => r.read = 0) /\ (r.at = "handler" => r.catches > 0)
  BY <1>4 DEF Sound, MailKept
<1>9. r.inbox # << >>
  BY <1>1, <1>3, <1>4
<1>10. r.got <= r.sent /\ Len(r.inbox) = r.read + (r.sent - r.got) /\ r.got # r.sent
  BY <1>1, <1>3, <1>4, <1>5
<1> QED BY <1>4, <1>6, <1>7, <1>8, <1>9, <1>10 DEF Sound, MailKept

\* Moves of the process outside of its mailbox.
MayMove(p, c, at) ==
    /\ c \in Nat /\ at \in Places
    /\ at = "wait" => p.read = 0
    /\ at = "match" => p.inbox # << >>
    /\ at = "handler" => c > 0
Moved(p, c, at) == [p EXCEPT !.catches = c, !.at = at]

LEMMA MovedSound ==
    ASSUME NEW p, Sound(p), NEW c, NEW at, MayMove(p, c, at)
    PROVE  Sound(Moved(p, c, at)) /\ Moved(p, c, at).prio = p.prio
<1>0. PICK r : r = Moved(p, c, at)
  OBVIOUS
<1>1. /\ r \in BeamProcessType /\ r.inbox = p.inbox /\ r.sent = p.sent /\ r.got = p.got /\ r.read = p.read
      /\ r.prio = p.prio /\ r.at = at /\ r.catches = c
  BY <1>0 DEF Sound, BeamProcessType, Moved, MayMove
<1>2. Sound(r)
  BY <1>1 DEF Sound, MailKept, MayMove
<1> QED BY <1>0, <1>1, <1>2

\* Where the read index stands while there is mail.
LEMMA OldestUnread ==
    ASSUME NEW p, Sound(p), p.inbox # << >>
    PROVE  /\ p.read \in 0..(Len(p.inbox) - 1) /\ p.inbox[p.read + 1] = p.got + 1 /\ p.got + 1 # NonValue
           /\ p.got < p.sent /\ HaveUnread(p)
<1>1. p.inbox \in Seq(Nat) /\ p.sent \in Nat /\ p.got \in Nat /\ p.read \in Nat
  BY DEF Sound, BeamProcessType
<1>2. Len(p.inbox) \in Nat \ {0}
  BY <1>1, EmptySeq, LenProperties
<1>3. p.got <= p.sent /\ Len(p.inbox) = p.read + (p.sent - p.got) /\ (p.got = p.sent => p.read = 0)
  BY DEF Sound, MailKept
<1>4. p.got < p.sent /\ p.read < Len(p.inbox)
  BY <1>1, <1>2, <1>3
<1>5. \A i \in (p.read + 1)..Len(p.inbox) : p.inbox[i] = p.got + (i - p.read)
  BY DEF Sound, MailKept
<1>6. p.read + 1 \in (p.read + 1)..Len(p.inbox) /\ (p.read + 1) - p.read = 1
  BY <1>1, <1>2, <1>4
<1>7. p.inbox[p.read + 1] = p.got + 1
  BY <1>5, <1>6
<1> QED BY <1>1, <1>2, <1>4, <1>7 DEF NonValue, HaveUnread


\* loop_rec_end leaves the mailbox as it is.
LeavesMail(p, m, r) ==
    m = StepOver(p.inbox, p.read) /\ r = [p EXCEPT !.read = m.read, !.inbox = m.inbox, !.at = "loop_rec"]

LEMMA LeftSound ==
    ASSUME NEW p, NEW m, NEW r, Sound(p), p.inbox # << >>, LeavesMail(p, m, r)
    PROVE  Sound(r) /\ r.prio = p.prio
<1>0. m = StepOver(p.inbox, p.read) /\ r = [p EXCEPT !.read = m.read, !.inbox = m.inbox, !.at = "loop_rec"]
  BY DEF LeavesMail
<1>1. p.read \in 0..(Len(p.inbox) - 1) /\ p.inbox[p.read + 1] # NonValue /\ p.inbox \in Seq(Nat)
  BY OldestUnread DEF Sound, BeamProcessType
<1>2. m.inbox = p.inbox /\ m.read = p.read
  BY <1>0, <1>1, StepOverStays
<1>3. PICK c \in Nat : c = p.catches
  BY DEF Sound, BeamProcessType
<1>4. PICK at \in Places : at = "loop_rec"
  BY DEF Places
<1>5. r = Moved(p, c, at)
  BY <1>0, <1>2, <1>3, <1>4 DEF Sound, BeamProcessType, Moved
<1>6. MayMove(p, c, at)
  BY <1>3, <1>4 DEF MayMove
<1> QED BY <1>5, <1>6, MovedSound

\* The mailbox in numbers, as MailKept has it.
Kept4(b, r, g, s) ==
    /\ g <= s /\ Len(b) = r + (s - g)
    /\ \A i \in 1..r : b[i] = NonValue
    /\ \A i \in (r + 1)..Len(b) : b[i] = g + (i - r)
    /\ g = s => r = 0

\* remove_message: it was the oldest one, and the index goes to the next.
LEMMA RemovedKept ==
    ASSUME NEW b \in Seq(Nat), NEW r \in Nat, NEW g \in Nat, NEW s \in Nat, Kept4(b, r, g, s),
           r < Len(b), NEW d, d = [b EXCEPT ![r + 1] = NonValue], NEW m, m = StepOver(d, r)
    PROVE  m.inbox \in Seq(Nat) /\ m.read \in Nat /\ Kept4(m.inbox, m.read, g + 1, s)
<1>1. PICK n \in Nat : n = Len(b) /\ b \in [1..n -> Nat]
  BY LenProperties
<1>2. r + 1 \in 1..n /\ n = r + (s - g) /\ g < s
  BY <1>1 DEF Kept4
<1>3. d \in [1..n -> Nat] /\ d[r + 1] = NonValue /\ \A i \in 1..n : i # r + 1 => d[i] = b[i]
  BY <1>1, <1>2 DEF NonValue
<1>4. d \in Seq(Nat) /\ Len(d) = n
  BY <1>3, SeqDef, LenProperties
<1>5. \A i \in 1..r : b[i] = NonValue
  BY DEF Kept4
<1>6. \A i \in (r + 1)..n : b[i] = g + (i - r)
  BY <1>1 DEF Kept4
<1>7. \A i \in 1..(r + 1) : d[i] = NonValue
  <2>1. \A i \in 1..(r + 1) : i \in 1..n /\ (i = r + 1 \/ i \in 1..r)
    BY <1>2
  <2> QED BY <1>3, <1>5, <2>1
<1>8. \A i \in (r + 2)..n : d[i] = (g + 1) + (i - (r + 1))
  <2>1. \A i \in (r + 2)..n : i \in 1..n /\ i # r + 1 /\ i \in (r + 1)..n
    OBVIOUS
  <2>2. \A i \in (r + 2)..n : d[i] = g + (i - r)
    BY <1>3, <1>6, <2>1
  <2> QED BY <2>2
<1>9. CASE r + 1 < n
  <2>1. r + 2 \in (r + 2)..n /\ (r + 2) - (r + 1) = 1
    BY <1>9
  <2>2. d[r + 2] = (g + 1) + 1
    BY <1>8, <2>1
  <2>3. d[r + 2] # NonValue
    BY <2>2 DEF NonValue
  <2>4. m.inbox = d /\ m.read = r + 1
    BY <1>3, <1>4, <1>9, <2>3, StepOverMoves
  <2>5. (r + 1) + 1 = r + 2 /\ g + 1 <= s /\ n = (r + 1) + (s - (g + 1)) /\ g + 1 # s
    BY <1>2, <1>9
  <2>6. Kept4(d, r + 1, g + 1, s)
    BY <1>4, <1>7, <1>8, <2>5 DEF Kept4
  <2>7. Kept4(m.inbox, m.read, g + 1, s)
    BY <2>4, <2>6
  <2>8. m.inbox \in Seq(Nat)
    BY <1>4, <2>4
  <2>9. m.read \in Nat
    BY <2>4
  <2> QED BY <2>7, <2>8, <2>9
<1>10. CASE r + 1 = n
  <2>1. \A i \in 1..Len(d) : d[i] = NonValue
    BY <1>4, <1>7, <1>10
  <2>2. m.inbox = << >> /\ m.read = 0
    BY <1>4, <2>1, StepOverClears
  <2>3. << >> \in Seq(Nat) /\ Len(<< >>) = 0
    BY EmptySeq
  <2>4. g + 1 = s
    BY <1>2, <1>10
  <2>5. Kept4(<< >>, 0, g + 1, s)
    BY <2>3, <2>4 DEF Kept4
  <2>6. Kept4(m.inbox, m.read, g + 1, s)
    BY <2>2, <2>5
  <2>7. m.inbox \in Seq(Nat)
    BY <2>2, <2>3
  <2>8. m.read \in Nat
    BY <2>2
  <2> QED BY <2>6, <2>7, <2>8
<1> QED BY <1>2, <1>9, <1>10

TakesMail(p, b, m, r) ==
    /\ b = [p.inbox EXCEPT ![p.read + 1] = NonValue] /\ m = StepOver(b, p.read)
    /\ r = [p EXCEPT !.got = p.inbox[p.read + 1], !.inbox = m.inbox, !.read = m.read, !.at = "code"]

LEMMA RemovedSound ==
    ASSUME NEW p, NEW b, NEW m, NEW r, Sound(p), p.inbox # << >>, TakesMail(p, b, m, r)
    PROVE  Sound(r) /\ r.prio = p.prio
<1>0. /\ b = [p.inbox EXCEPT ![p.read + 1] = NonValue] /\ m = StepOver(b, p.read)
      /\ r = [p EXCEPT !.got = p.inbox[p.read + 1], !.inbox = m.inbox, !.read = m.read, !.at = "code"]
  BY DEF TakesMail
<1>1. PICK box \in Seq(Nat), rd \in Nat, gt \in Nat, st \in Nat :
          box = p.inbox /\ rd = p.read /\ gt = p.got /\ st = p.sent
  BY DEF Sound, BeamProcessType
<1>2. rd < Len(box) /\ box[rd + 1] = gt + 1
  BY <1>1, OldestUnread DEF HaveUnread
<1>3. Kept4(box, rd, gt, st)
  BY <1>1 DEF Sound, MailKept, Kept4
<1>4. b = [box EXCEPT ![rd + 1] = NonValue] /\ m = StepOver(b, rd)
  BY <1>0, <1>1
<1>5. m.inbox \in Seq(Nat) /\ m.read \in Nat /\ Kept4(m.inbox, m.read, gt + 1, st)
  BY <1>2, <1>3, <1>4, RemovedKept
<1>6. PICK x \in Seq(Nat), y \in Nat, g \in Nat, at \in Places :
          x = m.inbox /\ y = m.read /\ g = gt + 1 /\ at = "code"
  BY <1>5 DEF Places
<1>7. p \in BeamProcessType /\ r = [p EXCEPT !.got = g, !.inbox = x, !.read = y, !.at = at]
  BY <1>0, <1>1, <1>2, <1>6 DEF Sound
<1>8. /\ r \in BeamProcessType /\ r.prio = p.prio /\ r.inbox = x /\ r.read = y
      /\ r.got = g /\ r.sent = p.sent /\ r.at = at
  BY <1>7 DEF BeamProcessType
<1>9. Kept4(x, y, g, st)
  BY <1>5, <1>6
<1>10. MailKept(r)
  BY <1>1, <1>6, <1>8, <1>9 DEF MailKept, Kept4
<1> QED BY <1>8, <1>10 DEF Sound

\* reset_read_index of a process that waits: it had nothing to read over.
LEMMA TimedOutSound ==
    ASSUME NEW p, Sound(p), p.at = "wait", NEW r, r = [p EXCEPT !.read = 0, !.at = "code"]
    PROVE  Sound(r) /\ r.prio = p.prio
<1>1. PICK c \in Nat, at \in Places : c = p.catches /\ at = "code"
  BY DEF Sound, BeamProcessType, Places
<1>2. p.read = 0
  BY DEF Sound, MailKept
<1>3. r = Moved(p, c, at)
  BY <1>1, <1>2 DEF Sound, BeamProcessType, Moved
<1>4. MayMove(p, c, at)
  BY <1>1 DEF MayMove
<1> QED BY <1>3, <1>4, MovedSound


-----------------------------------------------------------------------------
(* The scheduler: the steps.                                               *)

BeamSchedSpec == BeamInit /\ [][BeamNext]_bVars

AllSound(P) == \A p \in DOMAIN P : Sound(P[p])

LEMMA SchedAllSound == SchedInv <=> /\ SchedTypeOK /\ Housed(bProc, bQueue, bWaiting, bStranded, Running)
                                    /\ AllSound(bProc)
  BY DEF SchedInv, SchedTypeOK, AllSound, Sound, Registered

LEMMA SchedInvInit == BeamInit => SchedInv
<1> SUFFICES ASSUME BeamInit PROVE SchedInv
  OBVIOUS
<1>1. Sound(NewProcess("Normal")) /\ NewProcess("Normal").prio = "Normal"
  BY NewSound DEF Prio
<1>2. DOMAIN bProc = {0} /\ bProc[0] = NewProcess("Normal")
  BY DEF BeamInit
<1>3. AllSound(bProc)
  BY <1>1, <1>2 DEF AllSound
<1>4. Running = {}
  BY DEF Running, BeamInit
<1>5. /\ bQueue["Normal"] = <<0>> /\ Len(<<0>>) = 1 /\ <<0>>[1] = 0
      /\ bQueue["High"] = << >> /\ bQueue["Low"] = << >> /\ Len(<< >>) = 0
  BY DEF BeamInit, Prio
<1>6. \A q \in Prio : bQueue[q] \in Seq(DOMAIN bProc)
  <2>1. <<0>> \in Seq({0})
    BY OneSeq
  <2>2. << >> \in Seq({0})
    BY EmptySeq
  <2> QED BY <1>2, <1>5, <2>1, <2>2 DEF Prio
<1>7. ASSUME NEW q \in Prio, NEW i \in 1..Len(bQueue[q]) PROVE q = "Normal" /\ i = 1 /\ bQueue[q][i] = 0
  <2>1. q = "Normal"
    BY <1>5 DEF Prio
  <2>2. i = 1
    <3>1. Len(bQueue[q]) = 1
      BY <1>5, <2>1
    <3>2. i \in 1..1
      BY <3>1
    <3> QED BY <3>2
  <2> QED BY <1>5, <2>1, <2>2
<1>8. 1 \in 1..Len(bQueue["Normal"]) /\ bQueue["Normal"][1] = 0
  BY <1>5
<1>9. bWaiting = {} /\ bStranded = {}
  BY DEF BeamInit
<1>10. Housed(bProc, bQueue, bWaiting, bStranded, Running)
  BY <1>1, <1>2, <1>4, <1>6, <1>7, <1>8, <1>9 DEF Housed, Prio
<1>11. SchedTypeOK
  <2>1. bProc[0] \in BeamProcessType
    BY <1>1, <1>2 DEF Sound
  <2>2. bQueue = [q \in Prio |-> bQueue[q]]
    BY DEF BeamInit
  <2> QED BY <1>2, <2>1, <2>2, BeamSchedulerAssumption DEF BeamInit, SchedTypeOK, Registered, NoPid
<1> QED BY <1>3, <1>10, <1>11, SchedAllSound

\* The slice of a process is over, and the next one is picked.
LEMMA Switched ==
    ASSUME SchedInv, NEW P, P = bProc', NEW Q, Housed(P, Q, bWaiting', bStranded', {}),
           Q = [q \in Prio |-> Q[q]], PickNext(Q), bNextPid' = bNextPid,
           DOMAIN P \subseteq Registered, AllSound(P)
    PROVE  SchedInv'
<1>1. NoPid \notin DOMAIN P
  BY NoPidUnregistered DEF SchedInv
<1>2. PICK W, S : W = bWaiting' /\ S = bStranded'
  OBVIOUS
<1>3. Housed(P, Q, W, S, {})
  BY <1>2
<1>4. /\ Housed(P, bQueue', W, S, Running') /\ bCurrent' \in DOMAIN P \union {NoPid}
      /\ bPhase' \in {"slice", "stopped"} /\ (bPhase' = "slice" => bCurrent' # NoPid)
      /\ bQueue' = [q \in Prio |-> bQueue'[q]]
      /\ bAdvantage' \in {bAdvantage, bAdvantage + 1, 0}
  BY <1>1, <1>3, PickedHoused
<1>5. SchedTypeOK'
  <2>1. \A p \in DOMAIN P : P[p] \in BeamProcessType
    BY DEF AllSound, Sound
  <2>2. bNextPid \in 1..MaxBeamPids /\ bAdvantage \in Nat /\ Registered \subseteq 0..(bNextPid - 1)
    BY DEF SchedInv, SchedTypeOK
  <2> QED BY <1>4, <2>1, <2>2 DEF SchedTypeOK, Registered, NoPid
<1>6. Housed(bProc, bQueue, bWaiting, bStranded, Running)' /\ AllSound(bProc)'
  BY <1>2, <1>4
<1>7. (SchedTypeOK /\ Housed(bProc, bQueue, bWaiting, bStranded, Running) /\ AllSound(bProc) => SchedInv)'
  BY SchedAllSound, PTL
<1> QED BY <1>5, <1>6, <1>7

LEMMA Wider == ASSUME NEW a \in Nat, NEW b \in Nat, a <= b PROVE 0..(a - 1) \subseteq 0..(b - 1)
  OBVIOUS

\* One process changes, and keeps its priority.
LEMMA Replaced ==
    ASSUME SchedInv, NEW p \in Registered, NEW x, Sound(x), x.prio = bProc[p].prio,
           bProc' = [bProc EXCEPT ![p] = x], bNextPid' \in bNextPid..MaxBeamPids,
           UNCHANGED <<bQueue, bWaiting, bAdvantage, bCurrent, bStranded>>,
           bPhase' \in {"tick", "slice", "halted"}, bPhase' = "slice" => bCurrent # NoPid
    PROVE  SchedInv'
<1>1. PICK P : P = bProc'
  OBVIOUS
<1>2. DOMAIN P = Registered /\ P[p] = x /\ \A q \in Registered : q # p => P[q] = bProc[q]
  BY <1>1 DEF Registered
<1>3. AllSound(bProc) /\ Housed(bProc, bQueue, bWaiting, bStranded, Running) /\ SchedTypeOK
  BY SchedAllSound
<1>4. AllSound(P)
  BY <1>2, <1>3 DEF AllSound, Registered
<1>5. \A q \in DOMAIN bProc : P[q].prio = bProc[q].prio
  BY <1>2 DEF Registered
<1>6. Housed(P, bQueue, bWaiting, bStranded, Running)
  BY <1>2, <1>3, <1>5, SameHoused DEF Registered
<1>7. Running' = Running
  BY DEF Running, NoPid
<1>8. SchedTypeOK'
  <2>1. \A q \in DOMAIN P : P[q] \in BeamProcessType
    BY <1>4 DEF AllSound, Sound
  <2>2. bNextPid \in 1..MaxBeamPids /\ Registered \subseteq 0..(bNextPid - 1)
    BY <1>3 DEF SchedTypeOK
  <2>3. bNextPid' \in 1..MaxBeamPids /\ Registered \subseteq 0..(bNextPid' - 1)
    <3>1. PICK a \in Nat, b \in Nat : a = bNextPid /\ b = bNextPid' /\ a <= b /\ 1 <= a /\ b <= MaxBeamPids
      BY <2>2, BeamSchedulerAssumption
    <3>2. 0..(a - 1) \subseteq 0..(b - 1)
      BY <3>1, Wider
    <3>3. bNextPid' \in 1..MaxBeamPids
      BY <3>1, BeamSchedulerAssumption
    <3>4. Registered \subseteq 0..(a - 1)
      BY <2>2, <3>1
    <3> QED BY <3>1, <3>2, <3>3, <3>4
  <2>4. bAdvantage \in Nat /\ bCurrent \in Registered \union {NoPid} /\ bQueue = [q \in Prio |-> bQueue[q]]
    BY <1>3 DEF SchedTypeOK
  <2>5. Registered' = Registered
    BY <1>1, <1>2 DEF Registered
  <2> QED BY <1>1, <1>2, <2>1, <2>3, <2>4, <2>5 DEF SchedTypeOK, NoPid
<1>9. Housed(bProc, bQueue, bWaiting, bStranded, Running)' /\ AllSound(bProc)'
  BY <1>1, <1>4, <1>6, <1>7
<1>10. (SchedTypeOK /\ Housed(bProc, bQueue, bWaiting, bStranded, Running) /\ AllSound(bProc) => SchedInv)'
  BY SchedAllSound, PTL
<1> QED BY <1>8, <1>9, <1>10


\* The process that runs.
LEMMA RunningSound ==
    ASSUME SchedInv, bCurrent # NoPid
    PROVE  /\ bCurrent \in Registered /\ Sound(Self) /\ Self = bProc[bCurrent] /\ Running = {bCurrent}
           /\ Self.at \in Places /\ Self.catches \in Nat
<1>1. bCurrent \in Registered /\ AllSound(bProc)
  BY SchedAllSound DEF SchedTypeOK
<1>2. Sound(Self)
  BY <1>1 DEF AllSound, Self, Registered
<1> QED BY <1>1, <1>2 DEF Self, Running, Sound, BeamProcessType

LEMMA TickKept == SchedInv /\ Tick => SchedInv'
<1> SUFFICES ASSUME SchedInv, Tick PROVE SchedInv'
  OBVIOUS
<1>1. SchedTypeOK /\ Housed(bProc, bQueue, bWaiting, bStranded, Running) /\ AllSound(bProc)
  BY SchedAllSound
<1>2. bQueue = [q \in Prio |-> bQueue[q]]
  BY <1>1 DEF SchedTypeOK
<1>3. CASE bCurrent = NoPid /\ PickNext(bQueue) /\ UNCHANGED <<bProc, bWaiting, bNextPid, bStranded>>
  <2>1. PICK P : P = bProc'
    OBVIOUS
  <2>2. Running = {}
    BY <1>3 DEF Running
  <2>3. Housed(P, bQueue, bWaiting', bStranded', {}) /\ AllSound(P) /\ DOMAIN P \subseteq Registered
    BY <1>1, <1>3, <2>1, <2>2 DEF Registered
  <2> QED BY <1>2, <1>3, <2>1, <2>3, Switched
<1>4. CASE bCurrent # NoPid /\ TickYielded
  <2>1. PICK P : P = bProc'
    OBVIOUS
  <2>2. P = bProc /\ bWaiting' = bWaiting /\ bStranded' = bStranded /\ bNextPid' = bNextPid
    BY <1>4, <2>1 DEF TickYielded
  <2>3. PICK R : R = Enqueued(bQueue, bCurrent)
    OBVIOUS
  <2>4. R = [bQueue EXCEPT ![P[bCurrent].prio] = Append(@, bCurrent)]
    BY <2>2, <2>3 DEF Enqueued
  <2>5. bCurrent \in DOMAIN P /\ bCurrent \in Running /\ Running \ {bCurrent} = {}
    BY <1>4, <2>2, RunningSound DEF Registered
  <2>6. Housed(P, bQueue, bWaiting, bStranded, Running)
    BY <1>1, <2>2
  <2>7. Housed(P, R, bWaiting, bStranded, Running \ {bCurrent}) /\ R = [q \in Prio |-> R[q]]
    BY <1>2, <2>4, <2>5, <2>6, RequeuedHoused
  <2>8. Housed(P, R, bWaiting', bStranded', {}) /\ AllSound(P) /\ DOMAIN P \subseteq Registered
    BY <1>1, <2>2, <2>5, <2>7 DEF Registered
  <2>9. PickNext(R)
    BY <1>4, <2>3 DEF TickYielded
  <2> QED BY <2>1, <2>2, <2>7, <2>8, <2>9, Switched
<1>5. CASE bCurrent # NoPid /\ TickFinished
  <2>1. PICK P : P = bProc'
    OBVIOUS
  <2>2. P = [p \in DOMAIN bProc \ {bCurrent} |-> bProc[p]]
    BY <1>5, <2>1 DEF TickFinished, Terminated, Registered
  <2>3. PickNext(bQueue) /\ bWaiting' = bWaiting \ {bCurrent} /\ bNextPid' = bNextPid /\ bStranded' = bStranded
    BY <1>5 DEF TickFinished
  <2>4. Housed(bProc, bQueue, bWaiting, bStranded, {bCurrent})
    BY <1>1, <1>5, RunningSound
  <2>5. Housed(P, bQueue, bWaiting \ {bCurrent}, bStranded, {})
    BY <2>2, <2>4, LeftHoused
  <2>6. AllSound(P) /\ DOMAIN P \subseteq Registered
    BY <1>1, <2>2 DEF AllSound, Registered
  <2>7. Housed(P, bQueue, bWaiting', bStranded', {})
    BY <2>3, <2>5
  <2> QED BY <1>2, <2>1, <2>3, <2>6, <2>7, Switched
<1>6. CASE bCurrent # NoPid /\ TickCaught
  <2>1. PICK x : x = Moved(Self, Self.catches, "handler")
    OBVIOUS
  <2>2. bCurrent \in Registered /\ Sound(Self) /\ Self = bProc[bCurrent] /\ Self.catches \in Nat
    BY <1>6, RunningSound
  <2>3. Sound(x) /\ x.prio = bProc[bCurrent].prio
    BY <1>6, <2>1, <2>2, MovedSound DEF MayMove, Places, TickCaught
  <2>4. bProc' = [bProc EXCEPT ![bCurrent].at = "handler"]
    BY <1>6 DEF TickCaught
  <2>5. x = [bProc[bCurrent] EXCEPT !.at = "handler"]
    BY <2>1, <2>2 DEF Moved, Sound, BeamProcessType
  <2>6. bProc' = [bProc EXCEPT ![bCurrent] = x]
    BY <2>4, <2>5
  <2>7. /\ UNCHANGED <<bQueue, bWaiting, bAdvantage, bCurrent, bStranded>>
        /\ bPhase' \in {"tick", "slice", "halted"} /\ (bPhase' = "slice" => bCurrent # NoPid)
    BY <1>6 DEF TickCaught
  <2>8. bNextPid' \in bNextPid..MaxBeamPids
    BY <1>1, <1>6, BeamSchedulerAssumption DEF TickCaught, SchedTypeOK
  <2> QED BY <2>2, <2>3, <2>6, <2>7, <2>8, Replaced
<1>7. CASE bCurrent # NoPid /\ TickWaits
  <2>1. PICK P : P = bProc'
    OBVIOUS
  <2>2. P = bProc /\ bNextPid' = bNextPid /\ PickNext(bQueue)
    BY <1>7, <2>1 DEF TickWaits
  <2>3. bCurrent \in DOMAIN P /\ Housed(P, bQueue, bWaiting, bStranded, {bCurrent})
    BY <1>1, <1>7, <2>2, RunningSound DEF Registered
  <2>4. /\ Housed(P, bQueue, bWaiting \union {bCurrent}, bStranded, {})
        /\ Housed(P, bQueue, bWaiting, bStranded \union {bCurrent}, {})
    BY <2>3, WaitsHoused
  <2>5. \/ bWaiting' = bWaiting /\ bStranded' = bStranded \union {bCurrent}
        \/ bWaiting' = bWaiting \union {bCurrent} /\ bStranded' = bStranded
    BY <1>7 DEF TickWaits
  <2>6. Housed(P, bQueue, bWaiting', bStranded', {})
    BY <2>4, <2>5
  <2>7. AllSound(P) /\ DOMAIN P \subseteq Registered
    BY <1>1, <2>2 DEF Registered
  <2> QED BY <1>2, <2>1, <2>2, <2>6, <2>7, Switched
<1> QED BY <1>3, <1>4, <1>5, <1>6, <1>7 DEF Tick


\* An opcode that changes the running process alone.
LEMMA WentOn ==
    ASSUME SchedInv, bPhase = "slice", NEW x, Sound(x), x.prio = Self.prio, GoOn(x)
    PROVE  SchedInv'
<1>1. bCurrent # NoPid /\ bNextPid \in Nat /\ bNextPid <= MaxBeamPids /\ MaxBeamPids \in Nat
  BY BeamSchedulerAssumption DEF SchedInv, SchedTypeOK
<1>2. bCurrent \in Registered /\ Self = bProc[bCurrent]
  BY <1>1, RunningSound
<1>3. /\ bProc' = [bProc EXCEPT ![bCurrent] = x] /\ bPhase' = "slice" /\ bNextPid' = bNextPid
      /\ UNCHANGED <<bQueue, bWaiting, bAdvantage, bCurrent, bStranded>>
  BY DEF GoOn
<1>4. bNextPid' \in bNextPid..MaxBeamPids
  BY <1>1, <1>3
<1> QED BY <1>1, <1>2, <1>3, <1>4, Replaced

LEMMA WentTo ==
    ASSUME SchedInv, bPhase = "slice", NEW at, MayMove(Self, Self.catches, at), NEW res, EndSlice(res, at),
           bNextPid' \in bNextPid..MaxBeamPids
    PROVE  SchedInv'
<1>1. bCurrent # NoPid
  BY DEF SchedInv, SchedTypeOK
<1>2. bCurrent \in Registered /\ Self = bProc[bCurrent] /\ Sound(Self)
  BY <1>1, RunningSound
<1>3. PICK x : x = Moved(Self, Self.catches, at)
  OBVIOUS
<1>4. Sound(x) /\ x.prio = bProc[bCurrent].prio
  BY <1>2, <1>3, MovedSound
<1>5. x = [bProc[bCurrent] EXCEPT !.at = at]
  BY <1>2, <1>3 DEF Moved, Sound, BeamProcessType
<1>6. bProc' = [bProc EXCEPT ![bCurrent].at = at]
  BY DEF EndSlice
<1>7. bProc' = [bProc EXCEPT ![bCurrent] = x]
  BY <1>5, <1>6
<1>8. /\ UNCHANGED <<bQueue, bWaiting, bAdvantage, bCurrent, bStranded>>
      /\ bPhase' \in {"tick", "slice", "halted"} /\ (bPhase' = "slice" => bCurrent # NoPid)
  BY DEF EndSlice
<1> QED BY <1>2, <1>4, <1>7, <1>8, Replaced

\* The running process spawns another one.
LEMMA SpawnKept ==
    ASSUME SchedInv, bPhase = "slice", NEW prio \in Prio, Spawn(prio)
    PROVE  SchedInv'
<1>1. SchedTypeOK /\ Housed(bProc, bQueue, bWaiting, bStranded, Running) /\ AllSound(bProc)
  BY SchedAllSound
<1>2. PICK n \in Nat : n = bNextPid /\ 1 <= n /\ n < MaxBeamPids /\ MaxBeamPids \in Nat
  BY <1>1, BeamSchedulerAssumption DEF Spawn, SchedTypeOK
<1>3. Registered \subseteq 0..(n - 1) /\ n \notin Registered
  <2>1. n \notin 0..(n - 1)
    OBVIOUS
  <2> QED BY <1>1, <1>2, <2>1 DEF SchedTypeOK
<1>4. PICK x : x = NewProcess(prio) /\ Sound(x) /\ x.prio = prio
  BY NewSound
<1>5. PICK P : P = bProc' /\ P = [p \in DOMAIN bProc \union {n} |-> IF p = n THEN x ELSE bProc[p]]
  BY <1>2, <1>4 DEF Spawn, Registered
<1>6. Housed(P, bQueue, bWaiting, bStranded, Running \union {n})
  <2>1. PICK B : B = bProc
    OBVIOUS
  <2>2. Housed(B, bQueue, bWaiting, bStranded, Running) /\ n \notin DOMAIN B /\ x.prio \in Prio
    BY <1>1, <1>3, <1>4, <2>1 DEF Registered
  <2>3. P = [p \in DOMAIN B \union {n} |-> IF p = n THEN x ELSE B[p]]
    BY <1>5, <2>1
  <2> QED BY <2>2, <2>3, NewHoused
<1>7. n \in DOMAIN P /\ P[n] = x /\ \A p \in Registered : P[p] = bProc[p] /\ p \in DOMAIN P
  BY <1>3, <1>5 DEF Registered
<1>8. PICK R : R = bQueue' /\ R = [bQueue EXCEPT ![P[n].prio] = Append(@, n)]
  BY <1>2, <1>4, <1>7 DEF Spawn
<1>9. Running' = Running /\ n \notin Running
  <2>1. bCurrent' = bCurrent
    BY DEF Spawn
  <2>2. bCurrent \in Registered \union {NoPid}
    BY <1>1 DEF SchedTypeOK
  <2> QED BY <1>3, <2>1, <2>2 DEF Running, NoPid
<1>10. Housed(P, R, bWaiting, bStranded, Running) /\ R = [q \in Prio |-> R[q]]
  <2>1. bQueue = [q \in Prio |-> bQueue[q]]
    BY <1>1 DEF SchedTypeOK
  <2>2. PICK C : C = Running \union {n}
    OBVIOUS
  <2>3. n \in C /\ C \ {n} = Running
    BY <1>9, <2>2
  <2>4. Housed(P, bQueue, bWaiting, bStranded, C)
    BY <1>6, <2>2
  <2>5. Housed(P, R, bWaiting, bStranded, C \ {n}) /\ R = [q \in Prio |-> R[q]]
    BY <1>7, <1>8, <2>1, <2>3, <2>4, RequeuedHoused
  <2> QED BY <2>3, <2>5
<1>11. AllSound(P)
  BY <1>1, <1>4, <1>5 DEF AllSound
<1>12. SchedTypeOK'
  <2>1. bNextPid' = n + 1 /\ UNCHANGED <<bAdvantage, bCurrent>> /\ bPhase' \in {"slice", "dangling"}
    BY <1>2 DEF Spawn
  <2>2. n + 1 \in 1..MaxBeamPids /\ 0..(n - 1) \subseteq 0..((n + 1) - 1) /\ n \in 0..((n + 1) - 1)
    <3>1. n + 1 \in Nat /\ 1 <= n + 1 /\ n + 1 <= MaxBeamPids /\ n <= n + 1
      BY <1>2
    <3>2. 0..(n - 1) \subseteq 0..((n + 1) - 1)
      BY <3>1, Wider
    <3> QED BY <1>2, <3>1, <3>2
  <2>3. DOMAIN P \subseteq 0..((n + 1) - 1)
    BY <1>3, <1>5, <2>2 DEF Registered
  <2>4. \A p \in DOMAIN P : P[p] \in BeamProcessType
    BY <1>11 DEF AllSound, Sound
  <2>5. bCurrent \in DOMAIN P \union {NoPid} /\ bAdvantage \in Nat /\ bCurrent # NoPid /\ bPhase = "slice"
    BY <1>1, <1>7 DEF SchedTypeOK
  <2> QED BY <1>5, <1>8, <1>10, <2>1, <2>2, <2>3, <2>4, <2>5 DEF SchedTypeOK, Registered, NoPid
<1>13. bWaiting' = bWaiting /\ bStranded' = bStranded
  BY DEF Spawn
<1>14. Housed(bProc, bQueue, bWaiting, bStranded, Running)' /\ AllSound(bProc)'
  BY <1>5, <1>8, <1>9, <1>10, <1>11, <1>13
<1>15. (SchedTypeOK /\ Housed(bProc, bQueue, bWaiting, bStranded, Running) /\ AllSound(bProc) => SchedInv)'
  BY SchedAllSound, PTL
<1> QED BY <1>12, <1>14, <1>15


\* A message is delivered; nobody is woken, since current_queue is never set.
LEMMA SendKept ==
    ASSUME SchedInv, bPhase = "slice", NEW pid \in BeamPid, Send(pid)
    PROVE  SchedInv'
<1>1. SchedTypeOK /\ AllSound(bProc)
  BY SchedAllSound
<1>2. pid \in Registered /\ bProc' = [bProc EXCEPT ![pid] = Deliver(pid)]
  BY DEF Send
<1>3. PICK x : x = Deliver(pid)
  OBVIOUS
<1>4. PICK p : p = bProc[pid]
  OBVIOUS
<1>5. Sound(p)
  BY <1>1, <1>2, <1>4 DEF AllSound, Registered
<1>6. x = [p EXCEPT !.inbox = Append(@, p.sent + 1), !.sent = @ + 1]
  BY <1>3, <1>4 DEF Deliver
<1>7. Sound(x) /\ x.prio = bProc[pid].prio
  BY <1>4, <1>5, <1>6, DeliveredSound
<1>8. bProc' = [bProc EXCEPT ![pid] = x]
  BY <1>2, <1>3
<1>9. ~Woken(pid)
  BY DEF Woken, CurrentQueue
<1>10. /\ UNCHANGED <<bQueue, bWaiting, bAdvantage, bCurrent, bStranded>>
       /\ bPhase' \in {"tick", "slice", "halted"} /\ (bPhase' = "slice" => bCurrent # NoPid)
  BY <1>1, <1>9 DEF Send, SchedTypeOK
<1>11. bNextPid' \in bNextPid..MaxBeamPids
  BY <1>1, BeamSchedulerAssumption DEF Send, SchedTypeOK
<1> QED BY <1>2, <1>7, <1>8, <1>10, <1>11, Replaced

LEMMA OpcodeKept ==
    ASSUME SchedInv, bPhase = "slice", Opcode \/ OutOfReductions
    PROVE  SchedInv'
<1>1. bCurrent # NoPid /\ SchedTypeOK
  BY DEF SchedInv, SchedTypeOK
<1>2. /\ bCurrent \in Registered /\ Sound(Self) /\ Self.at \in Places /\ Self.catches \in Nat
  BY <1>1, RunningSound
<1>3. PICK p : p = Self
  OBVIOUS
<1>4. /\ p.at \in Places /\ p.catches \in Nat /\ p.read \in Nat
      /\ (p.at = "wait" => p.read = 0) /\ (p.at = "match" => p.inbox # << >>)
      /\ (p.at = "handler" => p.catches > 0)
  BY <1>2, <1>3 DEF Sound, MailKept, BeamProcessType
<1>5. \A at \in Places : at \notin {"wait", "match", "handler"} => MayMove(p, p.catches, at)
  BY <1>4 DEF MayMove
<1>6. MayMove(p, p.catches, p.at)
  BY <1>4 DEF MayMove
<1>7. UNCHANGED bNextPid \/ (bNextPid < MaxBeamPids /\ bNextPid' = bNextPid + 1) => bNextPid' \in bNextPid..MaxBeamPids
  BY <1>1, BeamSchedulerAssumption DEF SchedTypeOK
<1>8. ASSUME NEW c \in Nat, NEW at, MayMove(p, c, at), GoOn(Moved(p, c, at)) PROVE SchedInv'
  <2>1. PICK x : x = Moved(p, c, at)
    OBVIOUS
  <2>2. Sound(p)
    BY <1>2, <1>3
  <2>3. Sound(x) /\ x.prio = Self.prio
    BY <1>3, <1>8, <2>1, <2>2, MovedSound
  <2> QED BY <1>8, <2>1, <2>3, WentOn
<1>9. \A c \in Nat, at \in Places : Moved(p, c, at) = [p EXCEPT !.catches = c, !.at = at]
  BY DEF Moved
<1>10. \A c \in Nat : [p EXCEPT !.catches = c] = [p EXCEPT !.catches = c, !.at = p.at]
  BY <1>2, <1>3 DEF Sound, BeamProcessType
<1>11. \A at \in Places : [p EXCEPT !.at = at] = [p EXCEPT !.catches = p.catches, !.at = at]
  BY <1>2, <1>3 DEF Sound, BeamProcessType
<1>12. ASSUME NEW pid \in BeamPid, Send(pid) PROVE SchedInv'
  BY <1>12, SendKept
<1>13. ASSUME NEW prio \in Prio, Spawn(prio) PROVE SchedInv'
  BY <1>13, SpawnKept
<1>14. CASE SpawnUndefined \/ Raise \/ Return \/ Wait \/ OutOfReductions
  <2>1. PICK at, res : /\ EndSlice(res, at) /\ bNextPid' \in bNextPid..MaxBeamPids
                       /\ at = p.at \/ at \in {"code", "loop_rec"}
    BY <1>3, <1>7, <1>14 DEF SpawnUndefined, Raise, Return, Wait, OutOfReductions
  <2>2. MayMove(Self, Self.catches, at)
    BY <1>3, <1>5, <1>6, <2>1 DEF Places
  <2> QED BY <2>1, <2>2, WentTo
<1>15. CASE Try
  <2>1. PICK c \in Nat : c = p.catches + 1
    BY <1>4
  <2>2. GoOn([p EXCEPT !.catches = c]) /\ MayMove(p, c, p.at)
    BY <1>3, <1>4, <1>15, <2>1 DEF Try, MayMove
  <2>3. GoOn(Moved(p, c, p.at))
    BY <1>4, <1>9, <1>10, <2>2
  <2> QED BY <1>8, <2>2, <2>3
<1>16. CASE TryEnd
  <2>1. PICK c \in Nat : c = p.catches - 1
    BY <1>3, <1>4, <1>16 DEF TryEnd
  <2>2. GoOn([p EXCEPT !.catches = c]) /\ MayMove(p, c, p.at)
    BY <1>3, <1>4, <1>16, <2>1 DEF TryEnd, MayMove
  <2>3. GoOn(Moved(p, c, p.at))
    BY <1>4, <1>9, <1>10, <2>2
  <2> QED BY <1>8, <2>2, <2>3
<1>17. CASE TryCase
  <2>1. PICK c \in Nat, at \in Places : c = p.catches - 1 /\ at = "code"
    BY <1>3, <1>4, <1>17 DEF TryCase, Places
  <2>2. GoOn([p EXCEPT !.catches = c, !.at = at]) /\ MayMove(p, c, at)
    BY <1>3, <1>4, <1>17, <2>1 DEF TryCase, MayMove
  <2> QED BY <1>8, <1>9, <2>2
<1>18. CASE Receive \/ LoopRec
  <2>1. PICK at \in Places : GoOn([p EXCEPT !.at = at]) /\ (at = "loop_rec" \/ at = "wait" \/ at = "match")
                             /\ (at = "wait" => p.inbox = << >>) /\ (at = "match" => p.inbox # << >>)
    BY <1>3, <1>18 DEF Receive, LoopRec, Places
  <2>2. p.inbox = << >> => p.read = 0
    <3>1. PICK n \in Nat, r \in Nat, s \in Nat, g \in Nat :
              n = Len(p.inbox) /\ r = p.read /\ s = p.sent /\ g = p.got
      BY <1>2, <1>3, LenProperties DEF Sound, BeamProcessType
    <3>2. g <= s /\ n = r + (s - g)
      BY <1>2, <1>3, <3>1 DEF Sound, MailKept
    <3>3. p.inbox = << >> => n = 0
      BY <3>1
    <3> QED BY <3>1, <3>2, <3>3
  <2>3. MayMove(p, p.catches, at)
    BY <1>4, <2>1, <2>2 DEF MayMove
  <2>4. GoOn(Moved(p, p.catches, at))
    BY <1>4, <1>9, <1>11, <2>1
  <2> QED BY <1>4, <1>8, <2>3, <2>4
<1>19. CASE LoopRecEnd
  <2>1. PICK m, x : /\ m = StepOver(p.inbox, p.read) /\ GoOn(x)
                    /\ x = [p EXCEPT !.read = m.read, !.inbox = m.inbox, !.at = "loop_rec"]
    BY <1>3, <1>19 DEF LoopRecEnd
  <2>2. Sound(p) /\ p.inbox # << >>
    BY <1>2, <1>3, <1>4, <1>19 DEF LoopRecEnd
  <2>3. LeavesMail(p, m, x)
    BY <2>1 DEF LeavesMail
  <2>4. Sound(x) /\ x.prio = p.prio
    BY <2>2, <2>3, LeftSound
  <2> QED BY <1>3, <2>1, <2>4, WentOn
<1>20. CASE RemoveMessage
  <2>1. PICK b, m, x : /\ b = [p.inbox EXCEPT ![p.read + 1] = NonValue] /\ m = StepOver(b, p.read) /\ GoOn(x)
                       /\ x = [p EXCEPT !.got = p.inbox[p.read + 1], !.inbox = m.inbox, !.read = m.read, !.at = "code"]
    BY <1>3, <1>20 DEF RemoveMessage
  <2>2. Sound(p) /\ p.inbox # << >>
    BY <1>2, <1>3, <1>4, <1>20 DEF RemoveMessage
  <2>3. TakesMail(p, b, m, x)
    BY <2>1 DEF TakesMail
  <2>4. Sound(x) /\ x.prio = p.prio
    BY <2>2, <2>3, RemovedSound
  <2> QED BY <1>3, <2>1, <2>4, WentOn
<1>21. CASE Timeout
  <2>1. PICK x : GoOn(x) /\ x = [p EXCEPT !.read = 0, !.at = "code"]
    BY <1>3, <1>21 DEF Timeout
  <2>2. Sound(p) /\ p.at = "wait"
    BY <1>2, <1>3, <1>21 DEF Timeout
  <2>3. Sound(x) /\ x.prio = Self.prio
    BY <1>3, <2>1, <2>2, TimedOutSound
  <2> QED BY <2>1, <2>3, WentOn
<1>22. CASE FatalError
  <2>1. /\ SchedTypeOK' /\ Running' = Running /\ UNCHANGED <<bProc, bQueue, bWaiting, bStranded>>
    BY <1>1, <1>22 DEF FatalError, SchedTypeOK, Running, Registered, NoPid
  <2>2. Registered' = Registered
    BY <2>1 DEF Registered
  <2> QED BY <2>1, <2>2 DEF SchedInv
<1> QED BY <1>12, <1>13, <1>14, <1>15, <1>16, <1>17, <1>18, <1>19, <1>20, <1>21, <1>22 DEF Opcode

LEMMA SchedInvNext == SchedInv /\ [BeamNext]_bVars => SchedInv'
<1> SUFFICES ASSUME SchedInv, [BeamNext]_bVars PROVE SchedInv'
  OBVIOUS
<1>1. CASE UNCHANGED bVars
  <2>1. Registered' = Registered /\ Running' = Running
    BY <1>1 DEF bVars, Registered, Running, NoPid
  <2>2. SchedTypeOK'
    BY <1>1, <2>1 DEF bVars, SchedInv, SchedTypeOK, NoPid
  <2> QED BY <1>1, <2>1, <2>2 DEF bVars, SchedInv
<1> QED BY <1>1, TickKept, OpcodeKept DEF BeamNext


-----------------------------------------------------------------------------
(* The scheduler: what the invariant says.                                 *)

LEMMA OnlyAll ==
    ASSUME NEW A, NEW s \in Seq(A)
    PROVE  Only(s, A) = s
<1> DEFINE H == {u \in Seq(A) : Only(u, A) = u}
<1>1. << >> \in H
  BY OnlyNone, EmptySeq
<1>2. ASSUME NEW u \in Seq(A), NEW e \in A, u \in H PROVE Append(u, e) \in H
  <2>1. Append(u, e) \in Seq(A)
    BY AppendProperties
  <2>2. Only(Append(u, e), A) = IF e \in A THEN Append(Only(u, A), e) ELSE Only(u, A)
    BY OnlyAppend
  <2> QED BY <1>2, <2>1, <2>2
<1>3. GrowsIn(A, H)
  BY <1>1, <1>2 DEF GrowsIn
<1> HIDE DEF H
<1>4. s \in H
  BY <1>3, ByAppending
<1> QED BY <1>4 DEF H

\* The messages of an inbox.
Unreceived(b, g, s) == Only(b, Nat \ {NonValue}) = [i \in 1..(s - g) |-> g + i]

LEMMA KeptMessages ==
    ASSUME NEW b \in Seq(Nat), NEW r \in Nat, NEW g \in Nat, NEW s \in Nat, Kept4(b, r, g, s)
    PROVE  Unreceived(b, g, s)
<1>1. PICK n \in Nat, k \in Nat : n = Len(b) /\ k = s - g /\ n = r + k
  BY LenProperties DEF Kept4
<1>2. PICK u, v : u = SubSeq(b, 1, r) /\ v = SubSeq(b, r + 1, n)
  OBVIOUS
<1>3. b = u \o v
  <2>1. 1 \in 1..(n + 1) /\ r \in (1 - 1)..n /\ n \in (r)..n
    BY <1>1
  <2>2. SubSeq(b, 1, r) \o SubSeq(b, r + 1, n) = SubSeq(b, 1, n)
    BY <1>1, <2>1, ConcatAdjacentSubSeq
  <2>3. SubSeq(b, 1, n) = b
    BY <1>1, SubSeqFull
  <2> QED BY <1>2, <2>2, <2>3
<1>4. u \in Seq({NonValue})
  <2>1. \A i \in 1..r : b[i] \in {NonValue}
    BY DEF Kept4
  <2> QED BY <1>2, <2>1, SubSeqProperties
<1>5. (n - (r + 1)) + 1 = k /\ (r + 1 <= n <=> k # 0)
  BY <1>1
<1>6. v \in Seq(Nat \ {NonValue})
  <2>1. \A i \in (r + 1)..n : b[i] = g + (i - r)
    BY <1>1 DEF Kept4
  <2>2. \A i \in (r + 1)..n : g + (i - r) \in Nat \ {NonValue}
    BY <1>1 DEF NonValue
  <2>3. \A i \in (r + 1)..n : b[i] \in Nat \ {NonValue}
    BY <2>1, <2>2
  <2> QED BY <1>2, <2>3, SubSeqProperties
<1>7. v = [i \in 1..k |-> g + i]
  <2>1. Len(v) = k /\ v \in [1..k -> Nat \ {NonValue}]
    <3>0. \A i \in (r + 1)..n : i \in 1..Len(b)
      BY <1>1
    <3>1. \A i \in (r + 1)..n : b[i] \in Nat
      BY <3>0, ElementOfSeq
    <3>2. Len(v) = IF r + 1 <= n THEN (n - (r + 1)) + 1 ELSE 0
      BY <1>2, <3>1, SubSeqProperties
    <3>3. Len(v) = k
      BY <1>5, <3>2
    <3> QED BY <1>6, <3>3, LenProperties
  <2>2. \A i \in 1..k : v[i] = b[((r + 1) + i) - 1]
    BY <1>2, <1>5, SliceElements
  <2>3. ASSUME NEW i \in 1..k PROVE v[i] = g + i
    <3>1. ((r + 1) + i) - 1 = r + i /\ r + i \in (r + 1)..n /\ (r + i) - r = i
      BY <1>1
    <3>2. \A j \in (r + 1)..n : b[j] = g + (j - r)
      BY <1>1 DEF Kept4
    <3>3. b[r + i] = g + ((r + i) - r)
      BY <3>1, <3>2
    <3> QED BY <2>2, <3>1, <3>3
  <2> QED BY <2>1, <2>3
<1>8. u \in Seq(Nat) /\ v \in Seq(Nat)
  BY <1>4, <1>6, SeqMonotonic DEF NonValue
<1>9. Only(b, Nat \ {NonValue}) = Only(u, Nat \ {NonValue}) \o Only(v, Nat \ {NonValue})
  BY <1>3, <1>8, OnlyConcat
<1>10. Only(u, Nat \ {NonValue}) = << >>
  <2>1. (Nat \ {NonValue}) \cap {NonValue} = {}
    OBVIOUS
  <2> QED BY <1>4, <2>1, OnlyNothing
<1>11. Only(v, Nat \ {NonValue}) = v
  BY <1>6, OnlyAll
<1>12. << >> \o v = v
  BY <1>8, ConcatEmptySeq
<1> QED BY <1>1, <1>7, <1>9, <1>10, <1>11, <1>12 DEF Unreceived


\* Where a process stands has one name.
LEMMA HousedOnce ==
    ASSUME NEW P, NEW Q, NEW W, NEW S, NEW C, Housed(P, Q, W, S, C), NEW p \in DOMAIN P,
           NEW x, "current" \notin Prio, "waiting" \notin Prio,
           x = (IF p \in C THEN {"current"} ELSE {}) \cup (IF p \in W THEN {"waiting"} ELSE {})
               \cup {q \in Prio : p \in ToSet(Q[q])}
    PROVE  /\ Cardinality(x) = 1 \/ (x = {} /\ p \in S)
           /\ x \cap Prio \subseteq {P[p].prio}
<1>1. PICK k \in Prio : k = P[p].prio
  BY DEF Housed
<1>2. ASSUME NEW q \in Prio, p \in ToSet(Q[q]) PROVE q = k /\ p \notin C /\ p \notin W
  <2>1. PICK s \in Seq(DOMAIN P) : s = Q[q]
    BY DEF Housed
  <2>2. PICK i \in 1..Len(s) : s[i] = p
    BY <1>2, <2>1, LenProperties DEF ToSet
  <2>3. \A j \in 1..Len(Q[q]) : P[Q[q][j]].prio = q /\ Q[q][j] \notin W /\ Q[q][j] \notin C
    BY DEF Housed
  <2> QED BY <1>1, <2>1, <2>2, <2>3
<1>3. x \cap Prio \subseteq {k}
  BY <1>2
<1>4. CASE p \in C
  <2>1. p \notin W
    BY <1>4 DEF Housed
  <2>2. x = {"current"}
    BY <1>2, <1>4, <2>1
  <2> QED BY <1>1, <1>3, <2>2, FS_Singleton
<1>5. CASE p \notin C /\ p \in W
  <2>1. x = {"waiting"}
    BY <1>2, <1>5
  <2> QED BY <1>1, <1>3, <2>1, FS_Singleton
<1>6. CASE p \notin C /\ p \notin W /\ p \in ToSet(Q[k])
  <2>1. x = {k}
    BY <1>2, <1>6
  <2> QED BY <1>1, <1>3, <2>1, FS_Singleton
<1>7. CASE p \notin C /\ p \notin W /\ p \notin ToSet(Q[k])
  <2>1. x = {}
    BY <1>2, <1>7
  <2>2. PICK s \in Seq(DOMAIN P) : s = Q[k]
    BY DEF Housed
  <2>3. \A i \in 1..Len(s) : s[i] # p
    BY <1>7, <2>2, LenProperties DEF ToSet
  <2>4. p \in C \/ p \in W \/ p \in S \/ \E i \in 1..Len(Q[k]) : Q[k][i] = p
    BY <1>1 DEF Housed
  <2>5. p \in S
    BY <1>7, <2>2, <2>3, <2>4
  <2> QED BY <2>1, <2>5
<1> QED BY <1>4, <1>5, <1>6, <1>7

LEMMA SchedOneHome == SchedInv => OneHome
<1> SUFFICES ASSUME SchedInv PROVE OneHome
  OBVIOUS
<1>1. SchedTypeOK /\ Housed(bProc, bQueue, bWaiting, bStranded, Running) /\ NoPid \notin Registered
  BY NoPidUnregistered DEF SchedInv
<1>2. "current" \notin Prio /\ "waiting" \notin Prio
  BY DEF Prio
<1>3. ASSUME NEW p \in Registered
      PROVE  LET homes == (IF p = bCurrent THEN {"current"} ELSE {})
                          \cup (IF p \in bWaiting THEN {"waiting"} ELSE {})
                          \cup {q \in Prio : p \in ToSet(bQueue[q])}
             IN  /\ Cardinality(homes) = 1 \/ (homes = {} /\ p \in bStranded)
                 /\ homes \cap Prio \subseteq {bProc[p].prio}
  <2>1. PICK x : x = (IF p \in Running THEN {"current"} ELSE {}) \cup (IF p \in bWaiting THEN {"waiting"} ELSE {})
                     \cup {q \in Prio : p \in ToSet(bQueue[q])}
    OBVIOUS
  <2>2. p \in Running <=> p = bCurrent
    BY <1>1 DEF Running
  <2>3. p \in DOMAIN bProc
    BY DEF Registered
  <2>4. /\ Cardinality(x) = 1 \/ (x = {} /\ p \in bStranded)
        /\ x \cap Prio \subseteq {bProc[p].prio}
    BY <1>1, <1>2, <2>1, <2>3, HousedOnce
  <2> QED BY <2>1, <2>2, <2>4
<1>4. ASSUME NEW q \in Prio PROVE IsInjective(bQueue[q]) /\ ToSet(bQueue[q]) \subseteq Registered
  <2>1. PICK s \in Seq(Registered) : s = bQueue[q]
    BY <1>1 DEF Housed, Registered
  <2>2. DOMAIN s = 1..Len(s) /\ \A i \in 1..Len(s) : s[i] \in Registered
    BY LenProperties, ElementOfSeq
  <2>3. \A i, j \in 1..Len(s) : s[i] = s[j] => i = j
    BY <1>1, <2>1 DEF Housed
  <2> QED BY <2>1, <2>2, <2>3 DEF IsInjective, ToSet
<1>5. bWaiting \subseteq Registered /\ bCurrent \in Registered \cup {NoPid} /\ (bPhase = "slice" => bCurrent # NoPid)
  BY <1>1 DEF SchedTypeOK, Housed, Registered
<1> QED BY <1>3, <1>4, <1>5 DEF OneHome

LEMMA SchedMailInOrder == SchedInv => MailInOrder
<1> SUFFICES ASSUME SchedInv, NEW pid \in Registered
             PROVE  LET p == bProc[pid] IN
                    /\ Only(p.inbox, Nat \ {NonValue}) = [i \in 1..(p.sent - p.got) |-> p.got + i]
                    /\ p.inbox # << >> => HaveUnread(p) /\ p.inbox[p.read + 1] = p.got + 1
  BY DEF MailInOrder
<1>1. PICK p : p = bProc[pid]
  OBVIOUS
<1>2. Sound(p)
  BY <1>1, SchedAllSound DEF AllSound, Registered
<1>3. p.inbox \in Seq(Nat) /\ p.read \in Nat /\ p.got \in Nat /\ p.sent \in Nat /\ Kept4(p.inbox, p.read, p.got, p.sent)
  BY <1>2 DEF Sound, BeamProcessType, MailKept, Kept4
<1>4. Only(p.inbox, Nat \ {NonValue}) = [i \in 1..(p.sent - p.got) |-> p.got + i]
  <2>1. PICK b \in Seq(Nat), r \in Nat, g \in Nat, s \in Nat : b = p.inbox /\ r = p.read /\ g = p.got /\ s = p.sent
    BY <1>3
  <2>2. Kept4(b, r, g, s)
    BY <1>3, <2>1
  <2>3. Unreceived(b, g, s)
    BY <2>2, KeptMessages
  <2> QED BY <2>1, <2>3 DEF Unreceived
<1>5. p.inbox # << >> => HaveUnread(p) /\ p.inbox[p.read + 1] = p.got + 1
  BY <1>2, OldestUnread
<1> QED BY <1>1, <1>4, <1>5

(***************************************************************************)
(* Whatever is spawned, sent, received, raised and caught, every process   *)
(* of the emulator is current, waits, stands once in the queue of its      *)
(* priority or was stranded with mail by tick (emulator/scheduler.rs), and *)
(* every mailbox holds the messages after the last one received, in order, *)
(* with the read index on the oldest (emulator/mailbox.rs); up to a spawn  *)
(* that makes the table of processes grow (emulator/process_registry.rs),  *)
(* which moves the running process under the pointers of dispatch.         *)
(***************************************************************************)
THEOREM ProcessesAndMailKept == BeamSchedSpec => []NothingMislaid
<1>1. SchedInv => NothingMislaid
  BY SchedOneHome, SchedMailInOrder DEF NothingMislaid
<1> QED BY <1>1, SchedInvInit, SchedInvNext, PTL DEF BeamSchedSpec


-----------------------------------------------------------------------------
(* Sequences from their first element on.                                  *)

LEMMA ConsFacts ==
    ASSUME NEW A, NEW e \in A, NEW r \in Seq(A), NEW h, h = <<e>> \o r
    PROVE  /\ h \in Seq(A) /\ Len(h) = Len(r) + 1 /\ h # << >> /\ h[1] = e /\ Head(h) = e /\ Tail(h) = r
           /\ \A i \in 1..Len(r) : h[i + 1] = r[i]
<1>1. PICK one : one \in Seq(A) /\ one = <<e>> /\ Len(one) = 1 /\ one[1] = e
  <2>1. Len(<<e>>) = 1 /\ <<e>>[1] = e
    OBVIOUS
  <2> QED BY <2>1, OneSeq
<1>2. PICK M \in Nat : M = Len(r)
  BY LenProperties
<1>3. h \in Seq(A) /\ Len(h) = 1 + M /\ \A i \in 1..(1 + M) : h[i] = IF i <= 1 THEN one[i] ELSE r[i - 1]
  <2>1. h = one \o r
    BY <1>1
  <2>2. h \in Seq(A) /\ Len(h) = Len(one) + Len(r)
    BY <2>1, ConcatProperties
  <2>3. \A i \in 1..(Len(one) + Len(r)) : h[i] = IF i <= Len(one) THEN one[i] ELSE r[i - Len(one)]
    BY <2>1, ConcatProperties
  <2> QED BY <1>1, <1>2, <2>2, <2>3
<1>4. \A i \in 1..M : i + 1 \in 1..(1 + M) /\ ~(i + 1 <= 1) /\ (i + 1) - 1 = i
  OBVIOUS
<1>5. \A i \in 1..M : h[i + 1] = r[i]
  BY <1>3, <1>4
<1>6. h # << >> /\ h[1] = e
  <2>1. 1 \in 1..(1 + M) /\ 1 + M # 0
    OBVIOUS
  <2> QED BY <1>1, <1>3, <2>1, EmptySeq
<1> QED BY <1>2, <1>3, <1>5, <1>6, HeadTailOne

IsCons(s, A) == s = <<Head(s)>> \o Tail(s) /\ Head(s) \in A /\ Tail(s) \in Seq(A) /\ Len(Tail(s)) = Len(s) - 1

LEMMA ConsOf ==
    ASSUME NEW A, NEW s \in Seq(A), s # << >>
    PROVE  IsCons(s, A)
<1>1. Head(s) \in A /\ Tail(s) \in Seq(A) /\ Len(s) >= 1 /\ Head(s) = s[1] /\ Len(Tail(s)) = Len(s) - 1
  BY TailElements
<1>2. Len(s) \in Nat /\ 1 \in 1..Len(s) /\ Len(s) \in 1..Len(s)
  BY <1>1, LenProperties
<1>3. SubSeq(s, 1, Len(s)) = <<s[1]>> \o SubSeq(s, 1 + 1, Len(s))
  BY <1>2, SubSeqRecursiveFirst
<1>4. SubSeq(s, 1, Len(s)) = s /\ Tail(s) = SubSeq(s, 2, Len(s)) /\ 1 + 1 = 2
  BY SubSeqFull, TailIsSubSeq
<1>5. s = <<Head(s)>> \o Tail(s)
  BY <1>1, <1>3, <1>4
<1> QED BY <1>1, <1>5 DEF IsCons

\* A set that holds the empty sequence, and a sequence with one more in front if it holds it,
\* holds every sequence.
GrowsInFront(A, H) == << >> \in H /\ \A e \in A, u \in Seq(A) : u \in H => (<<e>> \o u) \in H

LEMMA ByPrepending ==
    ASSUME NEW A, NEW H, GrowsInFront(A, H)
    PROVE  \A s \in Seq(A) : s \in H
<1> DEFINE T == {n \in Nat : \E s \in Seq(A) : Len(s) = n /\ s \notin H}
<1>1. ASSUME T # {} PROVE FALSE
  <2>1. T \subseteq Nat
    OBVIOUS
  <2>2. PICK z \in T : \A y \in T : z <= y
    BY <1>1, <2>1, LeastThere
  <2>3. PICK s \in Seq(A) : Len(s) = z /\ s \notin H
    BY <2>2
  <2>4. s # << >>
    BY <2>3 DEF GrowsInFront
  <2>5. PICK e \in A, u \in Seq(A) : s = <<e>> \o u /\ Len(u) = Len(s) - 1
    BY <2>4, ConsOf DEF IsCons
  <2>6. Len(u) \in Nat /\ ~(z <= Len(u)) /\ z \in Nat
    BY <2>1, <2>2, <2>3, <2>5, LenProperties
  <2>7. u \in H
    BY <2>2, <2>6
  <2>8. (<<e>> \o u) \in H
    BY <2>7 DEF GrowsInFront
  <2> QED BY <2>3, <2>5, <2>8
<1>2. ASSUME NEW s \in Seq(A) PROVE s \in H
  <2>1. Len(s) \in Nat
    BY LenProperties
  <2> QED BY <1>1, <2>1
<1> QED BY <1>2

Associates(s, t, u) == (s \o t) \o u = s \o (t \o u)

LEMMA ConcatAssociates ==
    ASSUME NEW A, NEW s \in Seq(A), NEW t \in Seq(A), NEW u \in Seq(A)
    PROVE  Associates(s, t, u)
  BY ConcatAssociative DEF Associates

\* A sequence of one, some more, and a rest.
Stacked(a, r, b) == (<<a>> \o r) \o b

IsStacked(A, s, a, r, b) ==
    /\ s \in Seq(A) /\ Len(s) = (Len(r) + 1) + Len(b) /\ Head(s) = a /\ s # << >> /\ s[1] = a
    /\ s = <<a>> \o (r \o b) /\ (r \o b) \in Seq(A) /\ Len(r) \in Nat /\ Len(b) \in Nat
    /\ \A i \in 1..Len(r) : s[i + 1] = r[i]

LEMMA StackedFacts ==
    ASSUME NEW A, NEW a \in A, NEW r \in Seq(A), NEW b \in Seq(A), NEW s, s = Stacked(a, r, b)
    PROVE  IsStacked(A, s, a, r, b)
<1>1. <<a>> \in Seq(A)
  BY OneSeq
<1>2. s = <<a>> \o (r \o b) /\ (r \o b) \in Seq(A) /\ Len(r \o b) = Len(r) + Len(b)
  BY <1>1, ConcatAssociative, ConcatProperties DEF Stacked
<1>3. /\ s \in Seq(A) /\ Len(s) = Len(r \o b) + 1 /\ s # << >> /\ Head(s) = a /\ s[1] = a
      /\ \A i \in 1..Len(r \o b) : s[i + 1] = (r \o b)[i]
  BY <1>2, ConsFacts
<1>4. Len(r) \in Nat /\ Len(b) \in Nat
  BY LenProperties
<1>5. \A i \in 1..(Len(r) + Len(b)) : (r \o b)[i] = IF i <= Len(r) THEN r[i] ELSE b[i - Len(r)]
  BY ConcatProperties
<1>6. \A i \in 1..Len(r) : i \in 1..(Len(r) + Len(b)) /\ i <= Len(r)
  BY <1>4
<1> QED BY <1>2, <1>3, <1>4, <1>5, <1>6 DEF IsStacked

\* Whatever is on top of it, the rest is the rest.
RestIs(s, r, b) == SubSeq(s, Len(r) + 2, Len(s)) = b

LEMMA RestOfStacked ==
    ASSUME NEW A, NEW a \in A, NEW r \in Seq(A), NEW b \in Seq(A), NEW s, s = Stacked(a, r, b)
    PROVE  RestIs(s, r, b)
<1>1. PICK x : x = <<a>> \o r
  OBVIOUS
<1>2. x \in Seq(A) /\ Len(x) = Len(r) + 1 /\ s = x \o b /\ Len(r) \in Nat /\ Len(b) \in Nat
  BY <1>1, ConsFacts, LenProperties DEF Stacked
<1>3. Len(s) = Len(x) + Len(b)
  BY <1>2, ConcatProperties
<1>4. CASE b = << >>
  <2>1. Len(s) < Len(r) + 2 /\ Len(s) \in Int /\ Len(r) + 2 \in Int
    BY <1>2, <1>3, <1>4, EmptySeq
  <2>2. SubSeq(s, Len(r) + 2, Len(s)) = << >>
    BY <2>1, SubSeqEmpty
  <2> QED BY <1>4, <2>2 DEF RestIs
<1>5. CASE b # << >>
  <2>1. Len(b) \in Nat \ {0}
    BY <1>5, EmptySeq
  <2>2. /\ Len(r) + 2 \in (Len(x) + 1)..(Len(x) + Len(b)) /\ Len(s) \in (Len(x) + 1)..(Len(x) + Len(b))
        /\ (Len(r) + 2) - Len(x) = 1 /\ Len(s) - Len(x) = Len(b)
    BY <1>2, <1>3, <2>1
  <2>3. SubSeq(x \o b, Len(r) + 2, Len(s)) = SubSeq(b, (Len(r) + 2) - Len(x), Len(s) - Len(x))
    BY <1>2, <2>2, SubSeqOfConcat2
  <2>4. SubSeq(b, 1, Len(b)) = b
    BY SubSeqFull
  <2> QED BY <1>2, <2>2, <2>3, <2>4 DEF RestIs
<1> QED BY <1>4, <1>5

\* Some that stand under the first one go.
IsTrimmed(A, s, n, a, r, b) ==
    /\ <<Head(s)>> \o SubSeq(s, n + 2, Len(s)) = Stacked(a, SubSeq(r, n + 1, Len(r)), b)
    /\ SubSeq(r, n + 1, Len(r)) \in Seq(A) /\ Len(SubSeq(r, n + 1, Len(r))) = Len(r) - n
    /\ \A i \in 1..(Len(r) - n) : SubSeq(r, n + 1, Len(r))[i] = r[n + i]

LEMMA StackedTrimmed ==
    ASSUME NEW A, NEW a \in A, NEW r \in Seq(A), NEW b \in Seq(A), NEW s, s = Stacked(a, r, b), NEW n \in 0..Len(r)
    PROVE  IsTrimmed(A, s, n, a, r, b)
<1>1. PICK u, v : u = SubSeq(r, 1, n) /\ v = SubSeq(r, n + 1, Len(r))
  OBVIOUS
<1>2. PICK N \in Nat : N = Len(r) /\ n \in 0..N /\ n \in Nat
  BY LenProperties
<1>3. \A i \in 1..N : r[i] \in A
  BY <1>2, ElementOfSeq
<1>4. u \in Seq(A) /\ Len(u) = n
  <2>1. \A i \in 1..n : i \in 1..N
    BY <1>2
  <2>2. u \in Seq(A) /\ Len(u) = IF 1 <= n THEN (n - 1) + 1 ELSE 0
    BY <1>1, <1>2, <1>3, <2>1, SubSeqProperties
  <2> QED BY <1>2, <2>2
<1>5. v \in Seq(A) /\ Len(v) = N - n /\ \A i \in 1..(N - n) : v[i] = r[n + i]
  <2>1. \A i \in (n + 1)..N : i \in 1..N
    BY <1>2
  <2>2. v \in Seq(A) /\ Len(v) = IF n + 1 <= N THEN (N - (n + 1)) + 1 ELSE 0
    BY <1>1, <1>2, <1>3, <2>1, SubSeqProperties
  <2>3. \A i \in 1..((N - (n + 1)) + 1) : v[i] = r[((n + 1) + i) - 1]
    BY <1>1, <1>2, SliceElements
  <2>4. (N - (n + 1)) + 1 = N - n /\ \A i \in 1..(N - n) : ((n + 1) + i) - 1 = n + i
    BY <1>2
  <2> QED BY <1>2, <2>2, <2>3, <2>4
<1>6. u \o v = r
  <2>1. 1 \in 1..(Len(r) + 1) /\ n \in (1 - 1)..Len(r) /\ Len(r) \in n..Len(r)
    BY <1>2
  <2>2. SubSeq(r, 1, n) \o SubSeq(r, n + 1, Len(r)) = SubSeq(r, 1, Len(r))
    BY <2>1, ConcatAdjacentSubSeq
  <2> QED BY <1>1, <2>2, SubSeqFull
<1>7. s = Stacked(a, u, v \o b) /\ (v \o b) \in Seq(A)
  <2>1. PICK one \in Seq(A), top \in Seq(A) : one = <<a>> /\ top = one \o u
    BY <1>4, OneSeq, ConcatProperties
  <2>2. one \o (u \o v) = top \o v
    <3>1. Associates(one, u, v)
      BY <1>4, <1>5, ConcatAssociates
    <3>2. (one \o u) \o v = one \o (u \o v)
      BY <3>1 DEF Associates
    <3> QED BY <2>1, <3>2
  <2>3. (top \o v) \o b = top \o (v \o b)
    <3>1. Associates(top, v, b)
      BY <1>5, ConcatAssociates
    <3> QED BY <3>1 DEF Associates
  <2>4. (v \o b) \in Seq(A)
    BY <1>5, ConcatProperties
  <2> QED BY <1>6, <2>1, <2>2, <2>3, <2>4 DEF Stacked
<1>8. SubSeq(s, n + 2, Len(s)) = v \o b
  <2>1. PICK c \in Seq(A) : c = v \o b
    BY <1>7
  <2>2. s = Stacked(a, u, c)
    BY <1>7, <2>1
  <2>3. RestIs(s, u, c)
    BY <1>4, <2>2, RestOfStacked
  <2> QED BY <1>4, <2>1, <2>3 DEF RestIs
<1>9. Head(s) = a
  <2>1. IsStacked(A, s, a, r, b)
    BY StackedFacts
  <2> QED BY <2>1 DEF IsStacked
<1>10. <<a>> \o (v \o b) = Stacked(a, v, b)
  <2>1. PICK x : x = Stacked(a, v, b)
    OBVIOUS
  <2>2. IsStacked(A, x, a, v, b)
    BY <1>5, <2>1, StackedFacts
  <2> QED BY <2>1, <2>2 DEF IsStacked
<1> QED BY <1>1, <1>2, <1>5, <1>8, <1>9, <1>10 DEF IsTrimmed

\* One element changes.
IsChanged(A, w, s, k, e) ==
    w \in Seq(A) /\ Len(w) = Len(s) /\ \A j \in 1..Len(s) : w[j] = IF j = k THEN e ELSE s[j]

LEMMA ChangedIs ==
    ASSUME NEW A, NEW s \in Seq(A), NEW k \in 1..Len(s), NEW e \in A, NEW w, w = [s EXCEPT ![k] = e]
    PROVE  IsChanged(A, w, s, k, e)
  BY ExceptSeq DEF IsChanged

\* One of those that stand under the first one changes.
LEMMA StackedChanged ==
    ASSUME NEW A, NEW a \in A, NEW r \in Seq(A), NEW b \in Seq(A), NEW s, s = Stacked(a, r, b),
           NEW y \in 1..Len(r), NEW e \in A,
           NEW q, IsChanged(A, q, r, y, e), NEW w, IsChanged(A, w, s, y + 1, e)
    PROVE  w = Stacked(a, q, b)
<1>1. PICK t : t = Stacked(a, q, b)
  OBVIOUS
<1>2. PICK N \in Nat, M \in Nat : N = Len(r) /\ M = Len(b) /\ y \in 1..N /\ y \in Nat
  BY LenProperties
<1>3. q \in Seq(A) /\ Len(q) = N /\ \A j \in 1..N : q[j] = IF j = y THEN e ELSE r[j]
  BY <1>2 DEF IsChanged
<1>4. s \in Seq(A) /\ Len(s) = (N + 1) + M /\ s[1] = a /\ s = <<a>> \o (r \o b) /\ (r \o b) \in Seq(A)
  <2>1. IsStacked(A, s, a, r, b)
    BY StackedFacts
  <2> QED BY <1>2, <2>1 DEF IsStacked
<1>5. t \in Seq(A) /\ Len(t) = (N + 1) + M /\ t[1] = a /\ t = <<a>> \o (q \o b) /\ (q \o b) \in Seq(A)
  <2>1. IsStacked(A, t, a, q, b)
    BY <1>1, <1>3, StackedFacts
  <2> QED BY <1>2, <1>3, <2>1 DEF IsStacked
<1>6. /\ Len(r \o b) = N + M /\ Len(q \o b) = N + M
      /\ \A i \in 1..(N + M) : (r \o b)[i] = IF i <= N THEN r[i] ELSE b[i - N]
      /\ \A i \in 1..(N + M) : (q \o b)[i] = IF i <= N THEN q[i] ELSE b[i - N]
  <2>1. /\ Len(r \o b) = Len(r) + Len(b)
        /\ \A i \in 1..(Len(r) + Len(b)) : (r \o b)[i] = IF i <= Len(r) THEN r[i] ELSE b[i - Len(r)]
    BY ConcatProperties
  <2>2. /\ Len(q \o b) = Len(q) + Len(b)
        /\ \A i \in 1..(Len(q) + Len(b)) : (q \o b)[i] = IF i <= Len(q) THEN q[i] ELSE b[i - Len(q)]
    BY <1>3, ConcatProperties
  <2> QED BY <1>2, <1>3, <2>1, <2>2
<1>7. \A i \in 1..(N + M) : s[i + 1] = (r \o b)[i] /\ t[i + 1] = (q \o b)[i]
  <2>1. PICK c \in Seq(A), d \in Seq(A) : c = r \o b /\ d = q \o b /\ Len(c) = N + M /\ Len(d) = N + M
    BY <1>4, <1>5, <1>6
  <2>2. s = <<a>> \o c /\ t = <<a>> \o d
    BY <1>4, <1>5, <2>1
  <2>3. (\A i \in 1..Len(c) : s[i + 1] = c[i]) /\ (\A i \in 1..Len(d) : t[i + 1] = d[i])
    BY <2>2, ConsFacts
  <2> QED BY <2>1, <2>3
<1>9. w \in Seq(A) /\ Len(w) = (N + 1) + M /\ \A j \in 1..((N + 1) + M) : w[j] = IF j = y + 1 THEN e ELSE s[j]
  BY <1>4 DEF IsChanged
<1>10. ASSUME NEW j \in 1..((N + 1) + M) PROVE w[j] = t[j]
  <2>1. CASE j = 1
    BY <1>2, <1>4, <1>5, <1>9, <2>1
  <2>2. CASE j # 1
    <3>1. PICK i \in 1..(N + M) : j = i + 1
      <4>1. j - 1 \in 1..(N + M) /\ j = (j - 1) + 1
        BY <2>2
      <4> QED BY <4>1
    <3>2. w[j] = IF i = y THEN e ELSE (r \o b)[i]
      <4>1. j = y + 1 <=> i = y
        BY <1>2, <3>1
      <4>2. w[j] = IF j = y + 1 THEN e ELSE s[j]
        BY <1>9
      <4>3. s[j] = (r \o b)[i]
        BY <1>7, <3>1
      <4> QED BY <4>1, <4>2, <4>3
    <3>3. t[j] = (q \o b)[i]
      BY <1>7, <3>1
    <3>4. i <= N => i \in 1..N
      BY <3>1
    <3> QED BY <1>2, <1>3, <1>6, <3>1, <3>2, <3>3, <3>4
  <2> QED BY <2>1, <2>2
<1>11. w = t
  BY <1>5, <1>9, <1>10, SeqEqual
<1> QED BY <1>1, <1>11

Changing(A, a, r, b, s, y, e, q, w) ==
    /\ a \in A /\ r \in Seq(A) /\ b \in Seq(A) /\ s = Stacked(a, r, b) /\ y \in 1..Len(r) /\ e \in A
    /\ IsChanged(A, q, r, y, e) /\ IsChanged(A, w, s, y + 1, e)

LEMMA ChangesUnder ==
    ASSUME NEW A, NEW a, NEW r, NEW b, NEW s, NEW y, NEW e, NEW q, NEW w, Changing(A, a, r, b, s, y, e, q, w)
    PROVE  w = Stacked(a, q, b)
  BY StackedChanged DEF Changing

\* How many of a sequence are in S.
Count(s, S) == Len(Only(s, S))
One(e, S) == IF e \in S THEN 1 ELSE 0

LEMMA CountType == ASSUME NEW A, NEW s \in Seq(A), NEW S PROVE Count(s, S) \in Nat /\ Only(s, S) \in Seq(A \cap S)
  BY OnlyType, LenProperties DEF Count

LEMMA CountConcat ==
    ASSUME NEW A, NEW s \in Seq(A), NEW t \in Seq(A), NEW S
    PROVE  Count(s \o t, S) = Count(s, S) + Count(t, S)
<1>1. Only(s, S) \in Seq(A \cap S) /\ Only(t, S) \in Seq(A \cap S)
  BY CountType
<1> QED BY <1>1, OnlyConcat, ConcatProperties DEF Count

LEMMA CountOne == ASSUME NEW A, NEW e \in A, NEW S PROVE Count(<<e>>, S) = One(e, S)
<1>1. << >> \in Seq(A) /\ Append(<< >>, e) = <<e>> /\ Len(<< >>) = 0
  BY EmptySeq
<1>2. Only(<<e>>, S) = IF e \in S THEN Append(<< >>, e) ELSE << >>
  <2>1. PICK none \in Seq(A) : none = << >>
    BY <1>1
  <2>2. Only(Append(none, e), S) = IF e \in S THEN Append(Only(none, S), e) ELSE Only(none, S)
    BY OnlyAppend
  <2> QED BY <1>1, <2>1, <2>2, OnlyNone
<1>3. Len(Append(<< >>, e)) = 1
  BY <1>1, AppendProperties
<1> QED BY <1>1, <1>2, <1>3 DEF Count, One

LEMMA CountNone ==
    ASSUME NEW A, NEW s \in Seq(A), NEW S, \A i \in 1..Len(s) : s[i] \notin S
    PROVE  Count(s, S) = 0
<1>1. s \in Seq(A \ S)
  BY NarrowSeq, ElementOfSeq
<1>2. (A \ S) \cap S = {} /\ S \cap (A \ S) = {}
  OBVIOUS
<1>3. Only(s, S) = << >>
  BY <1>1, <1>2, OnlyNothing
<1> QED BY <1>3, EmptySeq DEF Count


\* s is e before u.
Joins(s, e, u) == s = <<e>> \o u

LEMMA ConsFirst ==
    ASSUME NEW A, NEW x \in A, NEW u \in Seq(A), NEW s, Joins(s, x, u), NEW e \in A,
           NEW w, IsChanged(A, w, s, 1, e)
    PROVE  Joins(w, e, u)
<1>1. PICK N \in Nat : N = Len(u)
  BY LenProperties
<1>2. s \in Seq(A) /\ Len(s) = N + 1 /\ s[1] = x /\ \A i \in 1..N : s[i + 1] = u[i]
  BY <1>1, ConsFacts DEF Joins
<1>3. PICK t : t = <<e>> \o u
  OBVIOUS
<1>4. t \in Seq(A) /\ Len(t) = N + 1 /\ t[1] = e /\ \A i \in 1..N : t[i + 1] = u[i]
  BY <1>1, <1>3, ConsFacts
<1>5. w \in Seq(A) /\ Len(w) = N + 1 /\ \A j \in 1..(N + 1) : w[j] = IF j = 1 THEN e ELSE s[j]
  BY <1>2 DEF IsChanged
<1>6. ASSUME NEW j \in 1..(N + 1) PROVE w[j] = t[j]
  <2>1. CASE j = 1
    BY <1>4, <1>5, <2>1
  <2>2. CASE j # 1
    <3>1. j - 1 \in 1..N /\ (j - 1) + 1 = j
      BY <2>2
    <3>2. PICK i \in 1..N : j = i + 1
      BY <3>1
    <3>3. w[j] = s[j]
      BY <1>5, <2>2
    <3> QED BY <1>2, <1>4, <3>2, <3>3
  <2> QED BY <2>1, <2>2
<1>7. w = t
  BY <1>4, <1>5, <1>6, SeqEqual
<1> QED BY <1>3, <1>7 DEF Joins

LEMMA ConsOther ==
    ASSUME NEW A, NEW x \in A, NEW u \in Seq(A), NEW s, Joins(s, x, u), NEW e \in A, NEW y \in 1..Len(u),
           NEW q, IsChanged(A, q, u, y, e), NEW w, IsChanged(A, w, s, y + 1, e)
    PROVE  Joins(w, x, q) /\ q \in Seq(A)
<1>1. PICK none \in Seq(A) : none = << >>
  BY EmptySeq
<1>2. s \in Seq(A) /\ q \in Seq(A)
  BY ConsFacts DEF Joins, IsChanged
<1>3. s = Stacked(x, u, none)
  <2>1. s \o none = s
    BY <1>1, <1>2, ConcatEmptySeq
  <2> QED BY <2>1 DEF Stacked, Joins
<1>4. w = Stacked(x, q, none)
  BY <1>3, StackedChanged
<1>5. PICK t \in Seq(A) : t = <<x>> \o q
  BY <1>2, ConsFacts
<1>6. t \o none = t
  BY <1>1, ConcatEmptySeq
<1> QED BY <1>2, <1>4, <1>5, <1>6 DEF Stacked, Joins

ConsCounted(s, x, v, S) == Count(s, S) = One(x, S) + Count(v, S) /\ Count(v, S) \in Nat /\ One(x, S) \in Nat

LEMMA CountCons ==
    ASSUME NEW A, NEW x \in A, NEW v \in Seq(A), NEW S, NEW s, Joins(s, x, v)
    PROVE  ConsCounted(s, x, v, S)
<1>1. PICK one \in Seq(A) : one = <<x>>
  BY OneSeq
<1>2. Count(one \o v, S) = Count(one, S) + Count(v, S)
  BY CountConcat
<1>3. Count(v, S) \in Nat /\ One(x, S) \in Nat
  BY CountType DEF One
<1> QED BY <1>1, <1>2, <1>3, CountOne DEF Joins, ConsCounted

CountMoves(w, s, j, x, S) == Count(w, S) + One(s[j], S) = Count(s, S) + One(x, S)
CountChanges(A, s, S) ==
    \A j \in 1..Len(s), x \in A : \A w : IsChanged(A, w, s, j, x) => CountMoves(w, s, j, x, S)

LEMMA SameMore ==
    ASSUME NEW z \in Nat, NEW k \in Nat, NEW m \in Nat, NEW u \in Nat, NEW x \in Nat, k + u = m + x
    PROVE  (z + k) + u = (z + m) + x
  OBVIOUS

LEMMA CountChangesCons ==
    ASSUME NEW A, NEW z \in A, NEW u \in Seq(A), NEW S, CountChanges(A, u, S), NEW s, Joins(s, z, u)
    PROVE  CountChanges(A, s, S)
<1>1. s \in Seq(A) /\ Len(s) = Len(u) + 1 /\ s[1] = z /\ \A i \in 1..Len(u) : s[i + 1] = u[i]
  BY ConsFacts DEF Joins
<1>2. ASSUME NEW j \in 1..Len(s), NEW x \in A, NEW w, IsChanged(A, w, s, j, x)
      PROVE  CountMoves(w, s, j, x, S)
  <2>1. ConsCounted(s, z, u, S)
    BY CountCons
  <2>2. One(x, S) \in Nat
    BY DEF One
  <2>3. CASE j = 1
    <3>1. IsChanged(A, w, s, 1, x)
      BY <1>2, <2>3
    <3>2. Joins(w, x, u)
      BY <3>1, ConsFirst
    <3>3. ConsCounted(w, x, u, S)
      BY <3>2, CountCons
    <3> QED BY <1>1, <2>1, <2>2, <2>3, <3>3 DEF ConsCounted, CountMoves
  <2>4. CASE j # 1
    <3>1. PICK i \in 1..Len(u) : j = i + 1
      <4>1. Len(u) \in Nat
        BY LenProperties
      <4>2. j - 1 \in 1..Len(u) /\ j = (j - 1) + 1
        BY <1>1, <2>4, <4>1
      <4> QED BY <4>2
    <3>2. PICK q : q = [u EXCEPT ![i] = x]
      OBVIOUS
    <3>3. IsChanged(A, q, u, i, x) /\ IsChanged(A, w, s, i + 1, x)
      BY <1>2, <3>1, <3>2, ChangedIs
    <3>4. Joins(w, z, q) /\ q \in Seq(A)
      BY <3>3, ConsOther
    <3>5. ConsCounted(w, z, q, S)
      BY <3>4, CountCons
    <3>6. CountMoves(q, u, i, x, S)
      BY <3>3 DEF CountChanges
    <3>7. s[j] = u[i] /\ One(u[i], S) \in Nat
      BY <1>1, <3>1 DEF One
    <3>8. One(u[i], S) = One(s[j], S) /\ One(s[j], S) \in Nat
      BY <3>7
    <3>9. /\ Count(q, S) \in Nat /\ Count(u, S) \in Nat /\ One(z, S) \in Nat
          /\ Count(w, S) = One(z, S) + Count(q, S) /\ Count(s, S) = One(z, S) + Count(u, S)
      BY <2>1, <3>5 DEF ConsCounted
    <3>10. Count(q, S) + One(s[j], S) = Count(u, S) + One(x, S)
      BY <3>6, <3>8 DEF CountMoves
    <3>11. (One(z, S) + Count(q, S)) + One(s[j], S) = (One(z, S) + Count(u, S)) + One(x, S)
      <4>1. PICK n \in Nat, k \in Nat, m \in Nat :
               n = One(z, S) /\ k = Count(q, S) /\ m = Count(u, S)
        BY <3>9
      <4>2. PICK o \in Nat, p \in Nat : o = One(s[j], S) /\ p = One(x, S)
        BY <2>2, <3>8
      <4>3. k + o = m + p
        BY <3>10, <4>1, <4>2
      <4>4. (n + k) + o = (n + m) + p
        BY <4>3, SameMore
      <4> QED BY <4>1, <4>2, <4>4
    <3> QED BY <3>9, <3>11 DEF CountMoves
  <2> QED BY <2>3, <2>4
<1> QED BY <1>2 DEF CountChanges

\* One element of a sequence changes what is counted by itself.
LEMMA CountExcept ==
    ASSUME NEW A, NEW r \in Seq(A), NEW S
    PROVE  CountChanges(A, r, S)
<1> DEFINE H == {s \in Seq(A) : CountChanges(A, s, S)}
<1>1. << >> \in H
  BY EmptySeq DEF CountChanges
<1>2. ASSUME NEW z \in A, NEW u \in Seq(A), u \in H PROVE (<<z>> \o u) \in H
  <2>1. PICK s : s = <<z>> \o u
    OBVIOUS
  <2>2. Joins(s, z, u) /\ s \in Seq(A)
    BY <2>1, ConsFacts DEF Joins
  <2>3. CountChanges(A, s, S)
    BY <1>2, <2>2, CountChangesCons
  <2> QED BY <2>1, <2>2, <2>3
<1>3. GrowsInFront(A, H)
  BY <1>1, <1>2 DEF GrowsInFront
<1> HIDE DEF H
<1>4. r \in H
  BY <1>3, ByPrepending
<1> QED BY <1>4 DEF H


-----------------------------------------------------------------------------
(* What a stack of calls looks like.                                       *)

SlotKind == {"val", "try", "catch"}
Word == [kind : {"val", "cp", "try", "catch"}, to : Address]

\* A function without a frame has nothing on the stack.
Place == {c \in Address : c.framed \/ c = Leaf}

\* Where a function returns to when those of rest wait for it.
BackTo(rest) == IF rest = << >> THEN Null ELSE Head(rest)

\* The slots as the label of the y-th one knows them.
Blanked(slots, y) == [z \in 1..Len(slots) |-> IF z < y THEN "val" ELSE slots[z]]
Register(slots, y) ==
    IF slots[y] = "val" THEN Val
    ELSE Cell(slots[y], [framed |-> TRUE, handler |-> y, slots |-> Blanked(slots, y)])
Registers(c) == [y \in 1..Len(c.slots) |-> Register(c.slots, y)]

LEMMA SeqFunction == ASSUME NEW A, NEW n \in Nat, NEW f \in [1..n -> A] PROVE f \in Seq(A) /\ Len(f) = n
<1>1. f \in Seq(A)
  BY SeqDef
<1>2. Len(f) \in Nat /\ DOMAIN f = 1..Len(f)
  BY <1>1, LenProperties
<1> QED BY <1>1, <1>2

LEMMA BlankedType ==
    ASSUME NEW slots \in Seq(SlotKind), NEW y \in Nat
    PROVE  Blanked(slots, y) \in Seq(SlotKind) /\ Len(Blanked(slots, y)) = Len(slots)
<1>1. PICK n \in Nat : n = Len(slots)
  BY LenProperties
<1>2. \A z \in 1..n : slots[z] \in SlotKind
  BY <1>1, ElementOfSeq
<1>3. Blanked(slots, y) \in [1..n -> SlotKind]
  BY <1>1, <1>2 DEF Blanked, SlotKind
<1> QED BY <1>1, <1>3, SeqFunction

LEMMA NullType == Null \in Address /\ Leaf \in Place /\ Leaf \in Address /\ ~Null.framed /\ ~Leaf.framed
<1>1. << >> \in Seq({"val", "try", "catch"})
  BY EmptySeq
<1> QED BY <1>1, BeamMachineAssumption DEF Null, Leaf, Address, Place

LEMMA RegisterType ==
    ASSUME NEW slots \in Seq(SlotKind), NEW y \in 1..Len(slots)
    PROVE  Register(slots, y) \in Word
<1>1. slots[y] \in SlotKind /\ y \in Nat
  BY ElementOfSeq
<1>2. PICK b \in Seq(SlotKind) : b = Blanked(slots, y)
  BY <1>1, BlankedType
<1>3. [framed |-> TRUE, handler |-> y, slots |-> b] \in Address
  BY <1>1 DEF Address, SlotKind
<1> QED BY <1>1, <1>2, <1>3, NullType DEF Register, Word, Cell, Val, SlotKind

LEMMA RegistersType ==
    ASSUME NEW c \in Address
    PROVE  Registers(c) \in Seq(Word) /\ Len(Registers(c)) = Len(c.slots)
<1>1. PICK slots \in Seq(SlotKind) : slots = c.slots
  BY DEF Address, SlotKind
<1>2. PICK n \in Nat : n = Len(slots)
  BY LenProperties
<1>3. \A y \in 1..n : Register(slots, y) \in Word
  BY <1>2, RegisterType
<1>4. Registers(c) \in [1..n -> Word]
  BY <1>1, <1>2, <1>3 DEF Registers
<1> QED BY <1>1, <1>2, <1>4, SeqFunction

\* The words of a call, those of rest below it.
WordsOn(c, rest) == IF c.framed THEN <<Cell("cp", BackTo(rest))>> \o Registers(c) ELSE << >>

LEMMA BackType == ASSUME NEW rest \in Seq(Address) PROVE BackTo(rest) \in Address
  BY NullType, HeadTailProperties DEF BackTo

LEMMA CpType == ASSUME NEW rest \in Seq(Address) PROVE Cell("cp", BackTo(rest)) \in Word
  BY BackType DEF Cell, Word

LEMMA WordsOnType == ASSUME NEW c \in Address, NEW rest \in Seq(Address) PROVE WordsOn(c, rest) \in Seq(Word)
<1>1. PICK top \in Word, r \in Seq(Word) : top = Cell("cp", BackTo(rest)) /\ r = Registers(c)
  BY CpType, RegistersType
<1>2. <<top>> \o r \in Seq(Word)
  BY ConsFacts
<1>3. << >> \in Seq(Word)
  BY EmptySeq
<1> QED BY <1>1, <1>2, <1>3 DEF WordsOn

\* The words of the i-th call, by the calls from it on.
LEMMA WordsAre ==
    ASSUME NEW calls, NEW i, calls[i].framed
    PROVE  WordsOf(calls, i) = <<Cell("cp", IF i = Len(calls) THEN Null ELSE calls[i + 1])>> \o Registers(calls[i])
<1>1. PICK slots : slots = calls[i].slots
  OBVIOUS
<1>2. \A y \in 1..Len(slots) :
          Register(slots, y) = IF slots[y] = "val" THEN Val
                               ELSE Cell(slots[y], [framed |-> TRUE, handler |-> y,
                                       slots |-> [z \in 1..Len(slots) |-> IF z < y THEN "val" ELSE slots[z]]])
  BY DEF Register, Blanked
<1>3. Registers(calls[i]) = [y \in 1..Len(slots) |->
          IF slots[y] = "val" THEN Val
          ELSE Cell(slots[y], [framed |-> TRUE, handler |-> y,
                               slots |-> [z \in 1..Len(slots) |-> IF z < y THEN "val" ELSE slots[z]]])]
  BY <1>1, <1>2 DEF Registers
<1> QED BY <1>1, <1>3 DEF WordsOf, FrameOf


\* The words of a call are those of its function on what waits for it.
LEMMA WordsFirst ==
    ASSUME NEW c \in Address, NEW rest \in Seq(Address), NEW calls, Joins(calls, c, rest)
    PROVE  WordsOf(calls, 1) = WordsOn(c, rest)
<1>1. PICK n \in Nat : n = Len(rest)
  BY LenProperties
<1>2. Len(calls) = n + 1 /\ calls[1] = c /\ \A i \in 1..n : calls[i + 1] = rest[i]
  BY <1>1, ConsFacts DEF Joins
<1>3. CASE ~c.framed
  BY <1>2, <1>3 DEF WordsOf, WordsOn
<1>4. CASE c.framed
  <2>1. PICK back : back = IF 1 = Len(calls) THEN Null ELSE calls[1 + 1]
    OBVIOUS
  <2>2. WordsOf(calls, 1) = <<Cell("cp", back)>> \o Registers(c)
    BY <1>2, <1>4, <2>1, WordsAre
  <2>3. CASE rest = << >>
    <3>1. n = 0
      BY <1>1, <2>3, EmptySeq
    <3>2. back = Null
      BY <1>2, <2>1, <3>1
    <3> QED BY <1>4, <2>2, <2>3, <3>2 DEF WordsOn, BackTo
  <2>4. CASE rest # << >>
    <3>1. n # 0
      BY <1>1, <2>4, EmptySeq
    <3>2. 1 \in 1..n /\ 1 # n + 1
      BY <3>1
    <3>3. back = rest[1]
      BY <1>2, <2>1, <3>2
    <3>4. Head(rest) = rest[1]
      BY <2>4, HeadTailProperties
    <3> QED BY <1>4, <2>2, <2>4, <3>3, <3>4 DEF WordsOn, BackTo
  <2> QED BY <2>3, <2>4
<1> QED BY <1>3, <1>4

\* A call in front does not change the words of those behind it.
LEMMA WordsShift ==
    ASSUME NEW c \in Address, NEW rest \in Seq(Address), NEW calls, Joins(calls, c, rest), NEW i \in 1..Len(rest)
    PROVE  WordsOf(calls, i + 1) = WordsOf(rest, i)
<1>1. PICK n \in Nat : n = Len(rest) /\ i \in 1..n
  BY LenProperties
<1>2. Len(calls) = n + 1 /\ \A j \in 1..n : calls[j + 1] = rest[j]
  BY <1>1, ConsFacts DEF Joins
<1>3. calls[i + 1] = rest[i]
  BY <1>1, <1>2
<1>4. (i + 1 = n + 1 <=> i = n) /\ (i # n => i + 1 \in 1..n)
  BY <1>1
<1>5. (IF i + 1 = Len(calls) THEN Null ELSE calls[(i + 1) + 1]) = (IF i = Len(rest) THEN Null ELSE rest[i + 1])
  BY <1>1, <1>2, <1>4
<1>6. CASE rest[i].framed
  <2>1. PICK c1, c2 : /\ c1 = (IF i + 1 = Len(calls) THEN Null ELSE calls[(i + 1) + 1])
                      /\ c2 = (IF i = Len(rest) THEN Null ELSE rest[i + 1])
    OBVIOUS
  <2>2. WordsOf(rest, i) = <<Cell("cp", c2)>> \o Registers(rest[i])
    BY <1>6, <2>1, WordsAre
  <2>3. WordsOf(calls, i + 1) = <<Cell("cp", c1)>> \o Registers(calls[i + 1])
    BY <1>3, <1>6, <2>1, WordsAre
  <2> QED BY <1>3, <1>5, <2>1, <2>2, <2>3
<1>7. CASE ~rest[i].framed
  BY <1>3, <1>7 DEF WordsOf
<1> QED BY <1>6, <1>7

\* Every call is a function on what waits for it.
LEMMA WordsType ==
    ASSUME NEW calls \in Seq(Address)
    PROVE  \A i \in 1..Len(calls) : WordsOf(calls, i) \in Seq(Word)
<1> DEFINE H == {s \in Seq(Address) : \A i \in 1..Len(s) : WordsOf(s, i) \in Seq(Word)}
<1>1. << >> \in H
  BY EmptySeq
<1>2. ASSUME NEW c \in Address, NEW u \in Seq(Address), u \in H PROVE (<<c>> \o u) \in H
  <2>1. PICK s : s = <<c>> \o u
    OBVIOUS
  <2>2. Joins(s, c, u) /\ s \in Seq(Address) /\ Len(s) = Len(u) + 1
    BY <2>1, ConsFacts DEF Joins
  <2>3. ASSUME NEW i \in 1..Len(s) PROVE WordsOf(s, i) \in Seq(Word)
    <3>1. CASE i = 1
      <4>1. WordsOf(s, 1) = WordsOn(c, u)
        BY <2>2, WordsFirst
      <4> QED BY <3>1, <4>1, WordsOnType
    <3>2. CASE i # 1
      <4>1. PICK j \in 1..Len(u) : i = j + 1
        <5>1. Len(u) \in Nat
          BY LenProperties
        <5>2. i - 1 \in 1..Len(u) /\ i = (i - 1) + 1
          BY <2>2, <3>2, <5>1
        <5> QED BY <5>2
      <4>2. WordsOf(s, j + 1) = WordsOf(u, j)
        BY <2>2, WordsShift
      <4> QED BY <1>2, <4>1, <4>2
    <3> QED BY <3>1, <3>2
  <2> QED BY <2>1, <2>2, <2>3
<1>3. GrowsInFront(Address, H)
  BY <1>1, <1>2 DEF GrowsInFront
<1> HIDE DEF H
<1>4. calls \in H
  BY <1>3, ByPrepending
<1> QED BY <1>4 DEF H

\* The words of the last n calls.
LayoutOf(w, calls) ==
    w = [n \in 0..Len(calls) |-> IF n = 0 THEN << >> ELSE WordsOf(calls, (Len(calls) + 1) - n) \o w[n - 1]]

LEMMA LayoutThere ==
    ASSUME NEW calls \in Seq(Address)
    PROVE  \E w \in [0..Len(calls) -> Seq(Word)] : LayoutOf(w, calls)
<1>1. PICK N \in Nat : N = Len(calls)
  BY LenProperties
<1>2. PICK X, none : X = Seq(Word) /\ none = << >>
  OBVIOUS
<1>3. PICK G : G = [p \in (1..N) \X X |-> WordsOf(calls, (N + 1) - p[1]) \o p[2]]
  OBVIOUS
<1>4. \A m \in 1..N, x \in X : G[<<m, x>>] = WordsOf(calls, (N + 1) - m) \o x
  BY <1>3
<1>5. StaysIn(G, N, X)
  <2>1. \A m \in 1..N : (N + 1) - m \in 1..N
    OBVIOUS
  <2>2. \A m \in 1..N : WordsOf(calls, (N + 1) - m) \in Seq(Word)
    BY <1>1, <2>1, WordsType
  <2>3. \A m \in 1..N, x \in X : WordsOf(calls, (N + 1) - m) \o x \in X
    BY <1>2, <2>2, ConcatProperties
  <2> QED BY <1>4, <2>3 DEF StaysIn
<1>6. none \in X
  BY <1>2, EmptySeq
<1>7. PICK w \in [0..N -> X] : Along(w, N, none, G)
  BY <1>5, <1>6, Iterates
<1>8. ASSUME NEW n \in 0..N
      PROVE  w[n] = IF n = 0 THEN << >> ELSE WordsOf(calls, (N + 1) - n) \o w[n - 1]
  <2>1. n # 0 => n \in 1..N /\ n - 1 \in 0..N
    OBVIOUS
  <2> QED BY <1>2, <1>4, <1>7, <2>1 DEF Along
<1>9. w = [n \in 0..N |-> IF n = 0 THEN << >> ELSE WordsOf(calls, (N + 1) - n) \o w[n - 1]]
  BY <1>7, <1>8
<1> QED BY <1>1, <1>2, <1>7, <1>9 DEF LayoutOf

\* The last N calls have the same words.
AgreeBelow(s, t, N) ==
    /\ N <= Len(s) /\ N <= Len(t)
    /\ \A n \in 1..N : WordsOf(s, (Len(s) + 1) - n) = WordsOf(t, (Len(t) + 1) - n)

LEMMA LayoutSame ==
    ASSUME NEW s \in Seq(Address), NEW t \in Seq(Address), NEW N \in Nat, AgreeBelow(s, t, N),
           NEW k, NEW l, LayoutOf(k, s), LayoutOf(l, t)
    PROVE  k[N] = l[N]
<1>0. Len(s) \in Nat /\ Len(t) \in Nat
  BY LenProperties
<1> DEFINE T == {n \in 0..N : k[n] # l[n]}
<1>1. \A n \in 0..N : n \in 0..Len(s) /\ n \in 0..Len(t)
  BY <1>0 DEF AgreeBelow
<1>2. \A n \in 0..N : k[n] = IF n = 0 THEN << >> ELSE WordsOf(s, (Len(s) + 1) - n) \o k[n - 1]
  BY <1>1 DEF LayoutOf
<1>3. \A n \in 0..N : l[n] = IF n = 0 THEN << >> ELSE WordsOf(t, (Len(t) + 1) - n) \o l[n - 1]
  BY <1>1 DEF LayoutOf
<1>4. ASSUME T # {} PROVE FALSE
  <2>1. T \subseteq Nat
    OBVIOUS
  <2>2. PICK z \in T : \A y \in T : z <= y
    BY <1>4, <2>1, LeastThere
  <2>3. 0 \in 0..N
    OBVIOUS
  <2>4. z # 0 /\ z \in 0..N
    BY <1>2, <1>3, <2>2, <2>3
  <2>5. z - 1 \in 0..N /\ ~(z <= z - 1) /\ z \in 1..N
    BY <2>4
  <2>6. k[z - 1] = l[z - 1]
    BY <2>2, <2>5
  <2>7. WordsOf(s, (Len(s) + 1) - z) = WordsOf(t, (Len(t) + 1) - z)
    BY <2>5 DEF AgreeBelow
  <2>8. k[z] = l[z]
    BY <1>2, <1>3, <2>4, <2>6, <2>7
  <2> QED BY <2>2, <2>8
<1>5. N \in 0..N
  OBVIOUS
<1> QED BY <1>4, <1>5

LEMMA LayoutIs ==
    ASSUME NEW calls \in Seq(Address), NEW w, LayoutOf(w, calls)
    PROVE  Layout(calls) = w[Len(calls)]
<1> DEFINE words == CHOOSE f : LayoutOf(f, calls)
<1>1. LayoutOf(words, calls)
  OBVIOUS
<1>2. Layout(calls) = words[Len(calls)]
  BY DEF Layout, LayoutOf
<1> HIDE DEF words
<1>3. Len(calls) \in Nat /\ AgreeBelow(calls, calls, Len(calls))
  BY LenProperties DEF AgreeBelow
<1>4. words[Len(calls)] = w[Len(calls)]
  BY <1>1, <1>3, LayoutSame
<1> QED BY <1>2, <1>4


LEMMA LayoutType == ASSUME NEW calls \in Seq(Address) PROVE Layout(calls) \in Seq(Word)
<1>1. PICK w \in [0..Len(calls) -> Seq(Word)] : LayoutOf(w, calls)
  BY LayoutThere
<1>2. Len(calls) \in 0..Len(calls)
  BY LenProperties
<1> QED BY <1>1, <1>2, LayoutIs

LEMMA LayoutNone == Layout(<< >>) = << >>
<1>1. PICK none \in Seq(Address) : none = << >> /\ Len(none) = 0
  BY EmptySeq
<1>2. PICK w : LayoutOf(w, none)
  BY LayoutThere
<1>3. w[0] = << >>
  BY <1>1, <1>2 DEF LayoutOf
<1> QED BY <1>1, <1>2, <1>3, LayoutIs

\* The stack of a function and of those that wait for it.
StackOf(c, rest) == IF c.framed THEN Stacked(Cell("cp", BackTo(rest)), Registers(c), Layout(rest)) ELSE Layout(rest)
Pushed(calls, c, rest) == Layout(calls) = WordsOn(c, rest) \o Layout(rest) /\ Layout(calls) = StackOf(c, rest)

LEMMA LayoutPush ==
    ASSUME NEW c \in Address, NEW rest \in Seq(Address), NEW calls, Joins(calls, c, rest)
    PROVE  Pushed(calls, c, rest)
<1>1. calls \in Seq(Address) /\ Len(calls) = Len(rest) + 1
  BY ConsFacts DEF Joins
<1>2. PICK N \in Nat : N = Len(rest)
  BY LenProperties
<1>3. PICK k : LayoutOf(k, calls)
  BY <1>1, LayoutThere
<1>4. PICK l : LayoutOf(l, rest)
  BY LayoutThere
<1>5. AgreeBelow(calls, rest, N)
  <2>1. ASSUME NEW n \in 1..N
        PROVE  WordsOf(calls, (Len(calls) + 1) - n) = WordsOf(rest, (Len(rest) + 1) - n)
    <3>1. PICK i \in 1..Len(rest) : i = (N + 1) - n
      <4>1. (N + 1) - n \in 1..N
        OBVIOUS
      <4> QED BY <1>2, <4>1
    <3>2. (Len(calls) + 1) - n = i + 1 /\ (Len(rest) + 1) - n = i
      BY <1>1, <1>2, <3>1
    <3> QED BY <3>2, WordsShift
  <2>2. N <= Len(calls) /\ N <= Len(rest)
    BY <1>1, <1>2
  <2> QED BY <2>1, <2>2 DEF AgreeBelow
<1>6. k[N] = l[N]
  BY <1>1, <1>3, <1>4, <1>5, LayoutSame
<1>7. k[N + 1] = WordsOf(calls, 1) \o k[N]
  <2>1. N + 1 \in 0..Len(calls) /\ N + 1 # 0 /\ (N + 1) - 1 = N /\ (Len(calls) + 1) - (N + 1) = 1
    BY <1>1, <1>2
  <2>2. k[N + 1] = WordsOf(calls, (Len(calls) + 1) - (N + 1)) \o k[(N + 1) - 1]
    BY <1>3, <2>1 DEF LayoutOf
  <2> QED BY <2>1, <2>2
<1>8. Layout(calls) = k[N + 1] /\ Layout(rest) = l[N]
  BY <1>1, <1>2, <1>3, <1>4, LayoutIs
<1>9. Layout(calls) = WordsOn(c, rest) \o Layout(rest)
  BY <1>6, <1>7, <1>8, WordsFirst
<1>10. CASE c.framed
  BY <1>9, <1>10 DEF WordsOn, StackOf, Stacked, Pushed
<1>11. CASE ~c.framed
  <2>1. << >> \o Layout(rest) = Layout(rest)
    BY LayoutType, ConcatEmptySeq
  <2> QED BY <1>9, <1>11, <2>1 DEF WordsOn, StackOf, Pushed
<1> QED BY <1>10, <1>11

\* What a framed function and those that wait for it have on the stack.
IsFrame(stack, c, rest) ==
    /\ IsStacked(Word, stack, Cell("cp", BackTo(rest)), Registers(c), Layout(rest))
    /\ Len(Registers(c)) = Len(c.slots) /\ Registers(c) \in Seq(Word) /\ Layout(rest) \in Seq(Word)
    /\ Cell("cp", BackTo(rest)) \in Word

LEMMA FrameFacts ==
    ASSUME NEW c \in Address, NEW rest \in Seq(Address), NEW stack,
           stack = Stacked(Cell("cp", BackTo(rest)), Registers(c), Layout(rest))
    PROVE  IsFrame(stack, c, rest)
<1>1. PICK top \in Word, r \in Seq(Word), b \in Seq(Word) :
          top = Cell("cp", BackTo(rest)) /\ r = Registers(c) /\ b = Layout(rest) /\ Len(r) = Len(c.slots)
  BY CpType, RegistersType, LayoutType
<1>2. IsStacked(Word, stack, top, r, b)
  BY <1>1, StackedFacts
<1> QED BY <1>1, <1>2 DEF IsFrame

\* One catch word for each slot that is no value.
LEMMA RegisterCatches ==
    ASSUME NEW slots \in Seq(SlotKind), NEW y \in 1..Len(slots)
    PROVE  Register(slots, y) \in CatchCells <=> slots[y] # "val"
<1>1. Register(slots, y) \in Word /\ slots[y] \in SlotKind
  BY RegisterType, ElementOfSeq
<1>2. slots[y] # "val" => Register(slots, y).kind = slots[y]
  BY DEF Register, Cell
<1>3. slots[y] = "val" => Register(slots, y).kind = "val"
  BY DEF Register, Cell, Val
<1>4. \A w \in Word : w \in CatchCells <=> w.kind \in {"try", "catch"}
  BY DEF Word, CatchCells
<1> QED BY <1>1, <1>2, <1>3, <1>4 DEF SlotKind

LEMMA NoCatchIn == Val \notin CatchCells /\ \A a : Cell("cp", a) \notin CatchCells
  BY DEF Val, Cell, CatchCells

LEMMA CountStacked ==
    ASSUME NEW A, NEW a \in A, NEW r \in Seq(A), NEW b \in Seq(A), NEW S
    PROVE  Count(Stacked(a, r, b), S) = One(a, S) + (Count(r, S) + Count(b, S))
<1>1. PICK u \in Seq(A) : u = r \o b
  BY ConcatProperties
<1>2. Count(u, S) = Count(r, S) + Count(b, S)
  BY <1>1, CountConcat
<1>3. Stacked(a, r, b) = <<a>> \o u
  <2>1. PICK s : s = Stacked(a, r, b)
    OBVIOUS
  <2>2. IsStacked(A, s, a, r, b)
    BY <2>1, StackedFacts
  <2> QED BY <1>1, <2>1, <2>2 DEF IsStacked
<1>4. PICK s : Joins(s, a, u) /\ s = Stacked(a, r, b)
  BY <1>3 DEF Joins
<1>5. ConsCounted(s, a, u, S)
  BY <1>4, CountCons
<1> QED BY <1>2, <1>4, <1>5 DEF ConsCounted

\* Values are no catch words.
Catches(s) == Count(s, CatchCells)

LEMMA NoneCaught ==
    ASSUME NEW c \in Address, \A y \in 1..Len(c.slots) : c.slots[y] = "val"
    PROVE  Catches(Registers(c)) = 0
<1>1. PICK slots \in Seq(SlotKind) : slots = c.slots
  BY DEF Address, SlotKind
<1>2. \A y \in 1..Len(slots) : Register(slots, y) \notin CatchCells
  BY <1>1, RegisterCatches
<1>3. PICK r \in Seq(Word) : r = Registers(c) /\ Len(r) = Len(slots)
  BY <1>1, RegistersType
<1>4. \A y \in 1..Len(r) : r[y] \notin CatchCells
  BY <1>1, <1>2, <1>3 DEF Registers
<1> QED BY <1>3, <1>4, CountNone DEF Catches

FrameCatches(stack, c, rest) == Catches(stack) = Catches(Registers(c)) + Catches(Layout(rest))

LEMMA CatchesOfFrame ==
    ASSUME NEW c \in Address, NEW rest \in Seq(Address), NEW stack,
           stack = Stacked(Cell("cp", BackTo(rest)), Registers(c), Layout(rest))
    PROVE  FrameCatches(stack, c, rest) /\ Catches(Layout(rest)) \in Nat /\ Catches(Registers(c)) \in Nat
<1>1. PICK top \in Word, r \in Seq(Word), b \in Seq(Word) :
          top = Cell("cp", BackTo(rest)) /\ r = Registers(c) /\ b = Layout(rest)
  BY CpType, RegistersType, LayoutType
<1>2. Count(stack, CatchCells) = One(top, CatchCells) + (Count(r, CatchCells) + Count(b, CatchCells))
  BY <1>1, CountStacked
<1>3. One(top, CatchCells) = 0
  BY <1>1, NoCatchIn DEF One
<1>4. Count(r, CatchCells) \in Nat /\ Count(b, CatchCells) \in Nat
  BY CountType
<1> QED BY <1>1, <1>2, <1>3, <1>4 DEF Catches, FrameCatches


\* The handler that runs is the innermost of its function.
HeadOK(c) ==
    c.handler # 0 => /\ c.handler \in 1..Len(c.slots) /\ c.slots[c.handler] # "val"
                     /\ \A z \in 1..(c.handler - 1) : c.slots[z] = "val"
Waiting(rest) == \A i \in 1..Len(rest) : rest[i].framed /\ rest[i].handler = 0

\* Those of rest wait for the function at at, and the stack says so.
Stands(rest, calls, at, stack, cp, catches) ==
    /\ rest \in Seq(Address) /\ Waiting(rest) /\ at \in Place /\ HeadOK(at) /\ Joins(calls, at, rest)
    /\ stack = StackOf(at, rest) /\ (~at.framed => cp = BackTo(rest)) /\ catches = Catches(stack)

MachineInv ==
    /\ mPhase \in {"run", "failed", "finished", "terminated"}
    /\ ~mSpoilt => \E rest : Stands(rest, mCalls, mAt, mStack, mCp, mCatches)
    /\ NothingEscapes

\* What a step leaves that no exception ends.
Carried ==
    /\ mPhase' \in {"run", "failed", "finished"}
    /\ ~mSpoilt' => \E rest : Stands(rest, mCalls', mAt', mStack', mCp', mCatches')

LEMMA CarriedInv == Carried => MachineInv'
  BY DEF Carried, MachineInv, NothingEscapes

\* A leaf that stands on the words of rest.
LEMMA LeafStands ==
    ASSUME NEW rest \in Seq(Address), Waiting(rest), NEW catches, catches = Catches(Layout(rest))
    PROVE  Stands(rest, <<Leaf>> \o rest, Leaf, Layout(rest), BackTo(rest), catches)
  BY NullType DEF Stands, HeadOK, Leaf, Joins, StackOf

LEMMA MachineInvInit == MachineInit => MachineInv
<1> SUFFICES ASSUME MachineInit PROVE MachineInv
  OBVIOUS
<1>1. PICK none \in Seq(Address) : none = << >> /\ Len(none) = 0
  BY EmptySeq
<1>2. Waiting(none)
  BY <1>1 DEF Waiting
<1>3. Layout(none) = << >> /\ BackTo(none) = Null
  BY <1>1, LayoutNone DEF BackTo
<1>4. Catches(<< >>) = 0
  BY <1>1, OnlyNone DEF Catches, Count
<1>5. Stands(none, <<Leaf>> \o none, Leaf, Layout(none), BackTo(none), 0)
  BY <1>2, <1>3, <1>4, LeafStands
<1>6. <<Leaf>> \o none = <<Leaf>>
  <2>1. PICK one \in Seq(Address) : one = <<Leaf>>
    BY NullType, OneSeq
  <2>2. one \o << >> = one
    BY ConcatEmptySeq
  <2> QED BY <1>1, <2>1, <2>2
<1>7. Stands(none, mCalls, mAt, mStack, mCp, mCatches)
  BY <1>3, <1>5, <1>6 DEF MachineInit
<1> QED BY <1>7 DEF MachineInit, MachineInv, NothingEscapes

\* The calls are the function that runs and those that wait.
LEMMA StandsCalls ==
    ASSUME NEW rest, NEW calls, NEW at, NEW stack, NEW cp, NEW catches, Stands(rest, calls, at, stack, cp, catches)
    PROVE  /\ at \in Address /\ calls \in Seq(Address) /\ Head(calls) = at /\ Tail(calls) = rest
           /\ Len(calls) = Len(rest) + 1 /\ calls # << >> /\ calls[1] = at
           /\ \A i \in 1..Len(rest) : calls[i + 1] = rest[i]
<1>1. at \in Address /\ rest \in Seq(Address) /\ calls = <<at>> \o rest
  BY DEF Stands, Place, Joins
<1> QED BY <1>1, ConsFacts

\* A call: the function that runs waits for a leaf.
LEMMA EnteredStands ==
    ASSUME NEW rest, NEW calls, NEW at, NEW stack, NEW cp, NEW catches, Stands(rest, calls, at, stack, cp, catches),
           at.framed, at.handler = 0
    PROVE  Stands(calls, <<Leaf>> \o calls, Leaf, stack, at, catches)
<1>1. /\ at \in Address /\ calls \in Seq(Address) /\ Head(calls) = at /\ Len(calls) = Len(rest) + 1
      /\ calls # << >> /\ calls[1] = at /\ \A i \in 1..Len(rest) : calls[i + 1] = rest[i]
  BY StandsCalls
<1>2. Waiting(calls)
  <2>1. ASSUME NEW i \in 1..Len(calls) PROVE calls[i].framed /\ calls[i].handler = 0
    <3>1. Len(rest) \in Nat
      BY LenProperties DEF Stands
    <3>2. i = 1 \/ (i - 1 \in 1..Len(rest) /\ i = (i - 1) + 1)
      BY <1>1, <3>1
    <3>3. i = 1 \/ \E j \in 1..Len(rest) : i = j + 1
      BY <3>2
    <3> QED BY <1>1, <3>3 DEF Stands, Waiting
  <2> QED BY <2>1 DEF Waiting
<1>3. Pushed(calls, at, rest)
  BY <1>1, LayoutPush DEF Stands
<1>4. Layout(calls) = stack
  BY <1>3 DEF Pushed, Stands
<1>5. BackTo(calls) = at
  BY <1>1 DEF BackTo
<1>6. catches = Catches(Layout(calls))
  BY <1>4 DEF Stands
<1> QED BY <1>1, <1>2, <1>4, <1>5, <1>6, LeafStands

\* The frame goes: a leaf is left, and the return address.
GoesOff(rest, stack, n) ==
    /\ n + 1 <= Len(stack) /\ Head(stack) = Cell("cp", BackTo(rest))
    /\ SubSeq(stack, n + 2, Len(stack)) = Layout(rest)

LEMMA FrameGoes ==
    ASSUME NEW rest, NEW calls, NEW at, NEW stack, NEW cp, NEW catches, Stands(rest, calls, at, stack, cp, catches),
           at.framed, \A y \in 1..Len(at.slots) : at.slots[y] = "val"
    PROVE  GoesOff(rest, stack, Len(at.slots)) /\ Stands(rest, <<Leaf>> \o rest, Leaf, Layout(rest), BackTo(rest), catches)
<1>1. at \in Address /\ rest \in Seq(Address) /\ Waiting(rest) /\ catches = Catches(stack)
  BY DEF Stands, Place
<1>2. PICK top \in Word, r \in Seq(Word), b \in Seq(Word) :
          top = Cell("cp", BackTo(rest)) /\ r = Registers(at) /\ b = Layout(rest) /\ Len(r) = Len(at.slots)
  BY <1>1, CpType, RegistersType, LayoutType
<1>3. stack = Stacked(top, r, b)
  BY <1>2 DEF Stands, StackOf
<1>4. IsStacked(Word, stack, top, r, b)
  BY <1>3, StackedFacts
<1>5. RestIs(stack, r, b)
  BY <1>3, RestOfStacked
<1>6. GoesOff(rest, stack, Len(at.slots))
  <2>1. Len(r) + 1 <= Len(stack)
    BY <1>4 DEF IsStacked
  <2> QED BY <1>2, <1>4, <1>5, <2>1 DEF IsStacked, RestIs, GoesOff
<1>7. FrameCatches(stack, at, rest) /\ Catches(Layout(rest)) \in Nat
  BY <1>1, <1>2, <1>3, CatchesOfFrame
<1>8. Catches(Registers(at)) = 0
  BY <1>1, NoneCaught
<1>9. catches = Catches(Layout(rest))
  BY <1>1, <1>7, <1>8 DEF FrameCatches
<1> QED BY <1>1, <1>6, <1>9, LeafStands


\* A new frame, whose registers are values.
LEMMA ValuesType ==
    ASSUME NEW n \in Nat
    PROVE  /\ Framed(Values(n)) \in Place /\ Framed(Values(n)).slots \in Seq(SlotKind) /\ Len(Framed(Values(n)).slots) = n
           /\ Framed(Values(n)).framed /\ Framed(Values(n)).handler = 0
           /\ \A y \in 1..n : Framed(Values(n)).slots[y] = "val"
<1>1. Values(n) \in [1..n -> SlotKind] /\ \A y \in 1..n : Values(n)[y] = "val"
  BY DEF Values, SlotKind
<1>2. Values(n) \in Seq(SlotKind) /\ Len(Values(n)) = n
  BY <1>1, SeqFunction
<1> QED BY <1>1, <1>2 DEF Framed, Place, Address, SlotKind

LEMMA ValueRegisters ==
    ASSUME NEW n \in Nat
    PROVE  Registers(Framed(Values(n))) = [y \in 1..n |-> Val]
<1>1. PICK c : c = Framed(Values(n))
  OBVIOUS
<1>2. Len(c.slots) = n /\ \A y \in 1..n : c.slots[y] = "val"
  BY <1>1, ValuesType
<1>3. \A y \in 1..n : Register(c.slots, y) = Val
  BY <1>2 DEF Register
<1> QED BY <1>1, <1>2, <1>3 DEF Registers

LEMMA FrameStands ==
    ASSUME NEW rest \in Seq(Address), Waiting(rest), NEW n \in Nat,
           NEW stack, stack = Stacked(Cell("cp", BackTo(rest)), [y \in 1..n |-> Val], Layout(rest)),
           NEW cp, NEW catches, catches = Catches(Layout(rest))
    PROVE  Stands(rest, <<Framed(Values(n))>> \o rest, Framed(Values(n)), stack, cp, catches)
<1>1. PICK at \in Place : at = Framed(Values(n))
  BY ValuesType
<1>2. at \in Address /\ at.framed /\ at.handler = 0 /\ \A y \in 1..Len(at.slots) : at.slots[y] = "val"
  BY <1>1, ValuesType DEF Place
<1>3. stack = Stacked(Cell("cp", BackTo(rest)), Registers(at), Layout(rest))
  BY <1>1, ValueRegisters
<1>4. FrameCatches(stack, at, rest) /\ Catches(Layout(rest)) \in Nat
  BY <1>2, <1>3, CatchesOfFrame
<1>5. Catches(Registers(at)) = 0
  BY <1>2, NoneCaught
<1>6. catches = Catches(stack)
  BY <1>4, <1>5 DEF FrameCatches
<1> QED BY <1>1, <1>2, <1>3, <1>6 DEF Stands, HeadOK, Joins, StackOf

LEMMA AllocatedStands ==
    ASSUME NEW rest, NEW calls, NEW at, NEW stack, NEW cp, NEW catches, Stands(rest, calls, at, stack, cp, catches),
           ~at.framed, NEW n \in Nat
    PROVE  Stands(rest, <<Framed(Values(n))>> \o rest, Framed(Values(n)),
                  <<Cell("cp", cp)>> \o [y \in 1..n |-> Val] \o stack, cp, catches)
<1>1. rest \in Seq(Address) /\ Waiting(rest) /\ stack = Layout(rest) /\ cp = BackTo(rest) /\ catches = Catches(stack)
  BY DEF Stands, StackOf
<1>2. PICK s : s = <<Cell("cp", cp)>> \o [y \in 1..n |-> Val] \o stack
  OBVIOUS
<1>3. s = Stacked(Cell("cp", BackTo(rest)), [y \in 1..n |-> Val], Layout(rest))
  BY <1>1, <1>2 DEF Stacked
<1>4. catches = Catches(Layout(rest))
  BY <1>1
<1> QED BY <1>1, <1>2, <1>3, <1>4, FrameStands

LEMMA TrimmedStands ==
    ASSUME NEW rest, NEW calls, NEW at, NEW stack, NEW cp, NEW catches, Stands(rest, calls, at, stack, cp, catches),
           at.framed, \A y \in 1..Len(at.slots) : at.slots[y] = "val", NEW n \in 0..Len(at.slots)
    PROVE  /\ n + 1 <= Len(stack) /\ Head(stack).kind = "cp"
           /\ Stands(rest, <<Framed(Values(Len(at.slots) - n))>> \o rest, Framed(Values(Len(at.slots) - n)),
                     <<Head(stack)>> \o SubSeq(stack, n + 2, Len(stack)), cp, catches)
<1>1. at \in Address /\ rest \in Seq(Address) /\ Waiting(rest) /\ catches = Catches(stack)
  BY DEF Stands, Place
<1>2. PICK top \in Word, r \in Seq(Word), b \in Seq(Word) :
          top = Cell("cp", BackTo(rest)) /\ r = Registers(at) /\ b = Layout(rest) /\ Len(r) = Len(at.slots)
  BY <1>1, CpType, RegistersType, LayoutType
<1>3. stack = Stacked(top, r, b)
  BY <1>2 DEF Stands, StackOf
<1>4. IsStacked(Word, stack, top, r, b)
  BY <1>3, StackedFacts
<1>5. n + 1 <= Len(stack) /\ Head(stack).kind = "cp"
  <2>1. Len(stack) = (Len(r) + 1) + Len(b) /\ Len(b) \in Nat /\ Len(r) \in Nat /\ Head(stack) = top
    BY <1>4 DEF IsStacked
  <2> QED BY <1>2, <2>1 DEF Cell
<1>6. PICK m \in Nat : m = Len(r) - n
  <2>1. PICK k \in Nat : k = Len(r) /\ n \in 0..k
    BY <1>2, LenProperties
  <2>2. k - n \in Nat
    BY <2>1
  <2> QED BY <2>1, <2>2
<1> DEFINE v == SubSeq(r, n + 1, Len(r))
           w == <<Head(stack)>> \o SubSeq(stack, n + 2, Len(stack))
<1>7. n \in 0..Len(r) /\ m = Len(at.slots) - n
  BY <1>2, <1>6
<1>8. w = Stacked(top, v, b) /\ v \in Seq(Word) /\ Len(v) = m /\ \A i \in 1..m : v[i] = r[n + i]
  <2>1. IsTrimmed(Word, stack, n, top, r, b)
    BY <1>3, <1>7, StackedTrimmed
  <2> QED BY <1>6, <2>1 DEF IsTrimmed
<1> HIDE DEF v
<1>9. v = [y \in 1..m |-> Val]
  <2>1. ASSUME NEW i \in 1..m PROVE v[i] = Val
    <3>1. PICK j \in 1..Len(at.slots) : j = n + i
      <4>1. Len(r) \in Nat /\ n + i \in 1..Len(r)
        BY <1>6, <1>7, LenProperties
      <4> QED BY <1>2, <4>1
    <3>2. r[j] = Register(at.slots, j)
      BY <1>2 DEF Registers
    <3>3. r[j] = Val
      BY <3>2 DEF Register
    <3> QED BY <1>8, <3>1, <3>3
  <2>2. DOMAIN v = 1..m
    BY <1>8, LenProperties
  <2>3. v = [y \in 1..m |-> v[y]]
    BY <1>8, <2>2
  <2> QED BY <2>1, <2>3
<1>10. catches = Catches(b)
  <2>1. FrameCatches(stack, at, rest) /\ Catches(Layout(rest)) \in Nat
    BY <1>1, <1>2, <1>3, CatchesOfFrame
  <2>2. Catches(Registers(at)) = 0
    BY <1>1, NoneCaught
  <2> QED BY <1>1, <1>2, <2>1, <2>2 DEF FrameCatches
<1> HIDE DEF w
<1>11. w = Stacked(Cell("cp", BackTo(rest)), [y \in 1..m |-> Val], Layout(rest)) /\ catches = Catches(Layout(rest))
  BY <1>2, <1>8, <1>9, <1>10
<1>12. Stands(rest, <<Framed(Values(m))>> \o rest, Framed(Values(m)), w, cp, catches)
  BY <1>1, <1>11, FrameStands
<1> QED BY <1>5, <1>7, <1>12 DEF w

\* A return from a leaf: the function that waited runs, or none is left.
ReturnedTo(rest, stack, catches) ==
    /\ BackTo(rest) = Null <=> rest = << >>
    /\ rest # << >> => \E later : Stands(later, rest, BackTo(rest), stack, Null, catches)
    /\ rest = << >> => stack = << >> /\ Stands(<< >>, <<Leaf>>, Leaf, << >>, Null, catches)

LEMMA ReturnStands ==
    ASSUME NEW rest, NEW calls, NEW cp, NEW stack, NEW catches, Stands(rest, calls, Leaf, stack, cp, catches)
    PROVE  cp = BackTo(rest) /\ ReturnedTo(rest, stack, catches)
<1>1. rest \in Seq(Address) /\ Waiting(rest) /\ stack = Layout(rest) /\ cp = BackTo(rest) /\ catches = Catches(stack)
  BY NullType DEF Stands, StackOf
<1>2. CASE rest = << >>
  <2>1. stack = << >> /\ BackTo(rest) = Null
    BY <1>1, <1>2, LayoutNone DEF BackTo
  <2>2. Stands(rest, <<Leaf>> \o rest, Leaf, Layout(rest), BackTo(rest), catches)
    BY <1>1, LeafStands
  <2>3. PICK one \in Seq(Address) : one = <<Leaf>>
    BY NullType, OneSeq
  <2>4. one \o << >> = one
    BY ConcatEmptySeq
  <2>5. <<Leaf>> \o rest = <<Leaf>>
    BY <1>2, <2>3, <2>4
  <2>6. Stands(<< >>, <<Leaf>>, Leaf, << >>, Null, catches)
    BY <1>1, <1>2, <2>1, <2>2, <2>5
  <2> QED BY <1>1, <1>2, <2>1, <2>6 DEF ReturnedTo
<1>3. CASE rest # << >>
  <2>1. PICK d \in Address, later \in Seq(Address) : rest = <<d>> \o later /\ d = Head(rest) /\ Len(later) = Len(rest) - 1
    BY <1>1, <1>3, ConsOf DEF IsCons
  <2>2. /\ Joins(rest, d, later) /\ Len(rest) = Len(later) + 1 /\ Len(later) \in Nat /\ rest[1] = d
        /\ \A i \in 1..Len(later) : rest[i + 1] = later[i]
    BY <2>1, ConsFacts, LenProperties DEF Joins
  <2>3. d.framed /\ d.handler = 0
    <3>1. 1 \in 1..Len(rest)
      BY <2>2
    <3> QED BY <1>1, <2>2, <3>1 DEF Waiting
  <2>4. Waiting(later)
    <3>1. \A i \in 1..Len(later) : i + 1 \in 1..Len(rest)
      BY <2>2
    <3> QED BY <1>1, <2>2, <3>1 DEF Waiting
  <2>5. Pushed(rest, d, later)
    BY <2>2, LayoutPush
  <2>6. Stands(later, rest, d, stack, Null, catches)
    BY <1>1, <2>2, <2>3, <2>4, <2>5 DEF Stands, Place, HeadOK, Pushed
  <2>7. BackTo(rest) = d /\ BackTo(rest) # Null
    BY <1>3, <2>1, <2>3, NullType DEF BackTo
  <2> QED BY <1>1, <1>3, <2>6, <2>7 DEF ReturnedTo
<1> QED BY <1>2, <1>3


\* The slots below the y-th are values.
ValuesBelow(slots, y) == \A z \in 1..(y - 1) : slots[z] = "val"

LEMMA BlankedSame ==
    ASSUME NEW slots \in Seq(SlotKind), NEW y \in 1..Len(slots), ValuesBelow(slots, y)
    PROVE  Blanked(slots, y) = slots
<1>1. PICK n \in Nat : n = Len(slots) /\ y \in 1..n
  BY LenProperties
<1>2. \A z \in 1..n : z < y => z \in 1..(y - 1)
  BY <1>1
<1>3. \A z \in 1..n : (IF z < y THEN "val" ELSE slots[z]) = slots[z]
  BY <1>2 DEF ValuesBelow
<1>4. slots = [z \in 1..n |-> slots[z]]
  BY <1>1, LenProperties
<1>5. [z \in 1..n |-> IF z < y THEN "val" ELSE slots[z]] = [z \in 1..n |-> slots[z]]
  BY <1>3
<1> QED BY <1>1, <1>4, <1>5 DEF Blanked

\* The label of the first slot that is no value.
LEMMA RegisterFirst ==
    ASSUME NEW slots \in Seq(SlotKind), NEW y \in 1..Len(slots), ValuesBelow(slots, y), slots[y] # "val"
    PROVE  Register(slots, y) = Cell(slots[y], [framed |-> TRUE, handler |-> y, slots |-> slots])
  BY BlankedSame DEF Register

\* A slot changes above values: the words of the others stay.
LEMMA RegisterOther ==
    ASSUME NEW slots \in Seq(SlotKind), NEW y \in 1..Len(slots), ValuesBelow(slots, y), NEW k \in SlotKind,
           NEW other, IsChanged(SlotKind, other, slots, y, k), NEW z \in 1..Len(slots), z # y
    PROVE  Register(other, z) = Register(slots, z)
<1>1. PICK n \in Nat : n = Len(slots) /\ y \in 1..n /\ z \in 1..n
  BY LenProperties
<1>2. Len(other) = n /\ \A x \in 1..n : other[x] = IF x = y THEN k ELSE slots[x]
  BY <1>1 DEF IsChanged
<1>3. other[z] = slots[z]
  BY <1>1, <1>2
<1>4. CASE slots[z] = "val"
  BY <1>3, <1>4 DEF Register
<1>5. CASE slots[z] # "val"
  <2>1. z \notin 1..(y - 1)
    BY <1>5 DEF ValuesBelow
  <2>2. \A x \in 1..n : ~(x < z) => x # y
    BY <1>1, <2>1
  <2>3. \A x \in 1..n : (IF x < z THEN "val" ELSE other[x]) = (IF x < z THEN "val" ELSE slots[x])
    BY <1>2, <2>2
  <2>4. Blanked(other, z) = Blanked(slots, z)
    BY <1>1, <1>2, <2>3 DEF Blanked
  <2> QED BY <1>3, <2>4 DEF Register
<1> QED BY <1>4, <1>5

LEMMA FramedType ==
    ASSUME NEW slots \in Seq(SlotKind)
    PROVE  Framed(slots) \in Address /\ Framed(slots).framed /\ Framed(slots).handler = 0 /\ Framed(slots).slots = slots
  BY DEF Framed, Address, SlotKind

\* One slot of the function that runs becomes k, and its word too.
SlotSet(rest, at, stack, w, y, k, other, catches) ==
    /\ \A cp : (~at.framed => cp = BackTo(rest)) =>
                  Stands(rest, <<Framed(other)>> \o rest, Framed(other), w, cp, Catches(w))
    /\ Catches(w) \in Nat /\ catches \in Nat
    /\ Catches(w) + (IF at.slots[y] # "val" THEN 1 ELSE 0) = catches + (IF k # "val" THEN 1 ELSE 0)

LEMMA SlotStands ==
    ASSUME NEW rest, NEW calls, NEW at, NEW stack, NEW cp, NEW catches, Stands(rest, calls, at, stack, cp, catches),
           at.framed, NEW y \in 1..Len(at.slots), ValuesBelow(at.slots, y), NEW k \in SlotKind,
           NEW other, IsChanged(SlotKind, other, at.slots, y, k),
           NEW w, IsChanged(Word, w, stack, y + 1, Register(other, y))
    PROVE  SlotSet(rest, at, stack, w, y, k, other, catches)
<1>1. at \in Address /\ rest \in Seq(Address) /\ Waiting(rest) /\ catches = Catches(stack)
  BY DEF Stands, Place
<1>2. PICK slots \in Seq(SlotKind) : slots = at.slots /\ y \in 1..Len(slots)
  BY <1>1 DEF Address, SlotKind
<1>3. PICK top \in Word, r \in Seq(Word), b \in Seq(Word) :
          top = Cell("cp", BackTo(rest)) /\ r = Registers(at) /\ b = Layout(rest) /\ Len(r) = Len(slots)
  BY <1>1, <1>2, CpType, RegistersType, LayoutType
<1>4. stack = Stacked(top, r, b)
  BY <1>3 DEF Stands, StackOf
<1>5. IsChanged(SlotKind, other, slots, y, k)
  BY <1>2
<1>6. other \in Seq(SlotKind) /\ Len(other) = Len(slots) /\ other[y] = k
  BY <1>5, <1>2 DEF IsChanged
<1>7. PICK e \in Word : e = Register(other, y)
  BY <1>2, <1>6, RegisterType
<1>8. PICK new \in Address : new = Framed(other) /\ new.framed /\ new.handler = 0 /\ new.slots = other
  BY <1>6, FramedType
<1>9. PICK q \in Seq(Word) : q = Registers(new) /\ Len(q) = Len(other)
  BY <1>8, RegistersType
<1>10. y \in 1..Len(r)
  BY <1>2, <1>3
<1>11. IsStacked(Word, stack, top, r, b)
  BY <1>4, StackedFacts
<1>12. PICK j \in 1..Len(stack) : j = y + 1 /\ stack[j] = r[y] /\ stack \in Seq(Word)
  <2>1. y + 1 \in 1..Len(stack)
    BY <1>10, <1>11 DEF IsStacked
  <2> QED BY <1>10, <1>11, <2>1 DEF IsStacked
<1>13. IsChanged(Word, q, r, y, e)
  <2>1. PICK n \in Nat : n = Len(slots) /\ n = Len(r) /\ n = Len(q)
    BY <1>3, <1>6, <1>9, LenProperties
  <2>2. ASSUME NEW z \in 1..n PROVE q[z] = IF z = y THEN e ELSE r[z]
    <3>1. q[z] = Register(other, z)
      BY <1>6, <1>8, <1>9, <2>1 DEF Registers
    <3>2. CASE z = y
      BY <1>7, <3>1, <3>2
    <3>3. CASE z # y
      <4>1. r[z] = Register(slots, z)
        BY <1>2, <1>3, <2>1 DEF Registers
      <4>2. Register(other, z) = Register(slots, z)
        <5>1. z \in 1..Len(slots) /\ z # y /\ ValuesBelow(slots, y)
          BY <1>2, <2>1, <3>3
        <5> QED BY <1>2, <1>5, <5>1, RegisterOther
      <4> QED BY <3>1, <3>3, <4>1, <4>2
    <3> QED BY <3>2, <3>3
  <2> QED BY <2>1, <2>2 DEF IsChanged
<1>14. w = Stacked(top, q, b)
  <2>1. IsChanged(Word, w, stack, y + 1, e)
    BY <1>7
  <2>2. Changing(Word, top, r, b, stack, y, e, q, w)
    BY <1>4, <1>10, <1>13, <2>1 DEF Changing
  <2> QED BY <2>2, ChangesUnder
<1>15. w = StackOf(new, rest)
  BY <1>3, <1>8, <1>9, <1>14 DEF StackOf
<1>16. ASSUME NEW back, ~at.framed => back = BackTo(rest)
       PROVE  Stands(rest, <<Framed(other)>> \o rest, Framed(other), w, back, Catches(w))
  BY <1>1, <1>8, <1>15 DEF Stands, Place, HeadOK, Joins
<1>17. CountMoves(w, stack, j, e, CatchCells) /\ w \in Seq(Word)
  <2>1. IsChanged(Word, w, stack, j, e)
    BY <1>7, <1>12
  <2>2. CountChanges(Word, stack, CatchCells)
    BY <1>12, CountExcept
  <2>3. CountMoves(w, stack, j, e, CatchCells)
    BY <2>1, <2>2 DEF CountChanges
  <2> QED BY <2>1, <2>3 DEF IsChanged
<1>18. One(stack[j], CatchCells) = IF at.slots[y] # "val" THEN 1 ELSE 0
  <2>1. stack[j] = Register(slots, y)
    BY <1>2, <1>3, <1>12 DEF Registers
  <2>2. Register(slots, y) \in CatchCells <=> slots[y] # "val"
    BY <1>2, RegisterCatches
  <2> QED BY <1>2, <2>1, <2>2 DEF One
<1>19. One(e, CatchCells) = IF k # "val" THEN 1 ELSE 0
  <2>1. y \in 1..Len(other)
    BY <1>2, <1>6
  <2>2. Register(other, y) \in CatchCells <=> other[y] # "val"
    BY <1>6, <2>1, RegisterCatches
  <2> QED BY <1>6, <1>7, <2>2 DEF One
<1>20. Catches(w) \in Nat /\ Catches(stack) \in Nat
  BY <1>12, <1>17, CountType DEF Catches
<1> QED BY <1>1, <1>16, <1>17, <1>18, <1>19, <1>20 DEF SlotSet, CountMoves, Catches


-----------------------------------------------------------------------------
(* Where an exception finds its handler.                                   *)

Catcher(c) == \E y \in 1..Len(c.slots) : c.slots[y] # "val"
\* The k-th call is the first with a handler.
FirstAt(calls, k) == k \in 1..Len(calls) /\ Catcher(calls[k]) /\ \A j \in 1..(k - 1) : ~Catcher(calls[j])

\* Those that wait for the k-th call, and the words above its frame, none of them a catch word.
After(calls, k) == SubSeq(calls, k + 1, Len(calls))
CaughtUnder(calls, k, X) ==
    /\ X \in Seq(Word) /\ After(calls, k) \in Seq(Address)
    /\ Layout(calls) = X \o StackOf(calls[k], After(calls, k))
    /\ \A i \in 1..Len(X) : X[i] \notin CatchCells
FirstFound(calls) == \A k : FirstAt(calls, k) => \E X : CaughtUnder(calls, k, X)

LEMMA AfterFirst ==
    ASSUME NEW c \in Address, NEW rest \in Seq(Address), NEW calls, Joins(calls, c, rest)
    PROVE  After(calls, 1) = rest
<1>1. calls \in Seq(Address) /\ calls # << >> /\ Tail(calls) = rest
  BY ConsFacts DEF Joins
<1>2. Tail(calls) = SubSeq(calls, 2, Len(calls))
  BY <1>1, TailIsSubSeq
<1> QED BY <1>1, <1>2 DEF After

LEMMA AfterOther ==
    ASSUME NEW c \in Address, NEW rest \in Seq(Address), NEW calls, Joins(calls, c, rest), NEW j \in 1..Len(rest)
    PROVE  After(calls, j + 1) = After(rest, j)
<1>1. PICK n \in Nat : n = Len(rest) /\ j \in 1..n /\ j \in Nat
  BY LenProperties
<1>2. PICK one \in Seq(Address) : one = <<c>> /\ Len(one) = 1
  <2>1. Len(<<c>>) = 1
    OBVIOUS
  <2> QED BY <2>1, OneSeq
<1>3. Len(calls) = n + 1 /\ calls = one \o rest
  BY <1>1, <1>2, ConsFacts DEF Joins
<1>4. CASE j = n
  <2>1. SubSeq(calls, (j + 1) + 1, Len(calls)) = << >>
    BY <1>1, <1>3, <1>4, SubSeqEmpty
  <2>2. SubSeq(rest, j + 1, Len(rest)) = << >>
    BY <1>1, <1>4, SubSeqEmpty
  <2> QED BY <2>1, <2>2 DEF After
<1>5. CASE j # n
  <2>1. /\ (j + 1) + 1 \in (Len(one) + 1)..(Len(one) + Len(rest)) /\ n + 1 \in (Len(one) + 1)..(Len(one) + Len(rest))
        /\ ((j + 1) + 1) - Len(one) = j + 1 /\ (n + 1) - Len(one) = n
    BY <1>1, <1>2, <1>5
  <2>2. SubSeq(one \o rest, (j + 1) + 1, n + 1) = SubSeq(rest, ((j + 1) + 1) - Len(one), (n + 1) - Len(one))
    BY <2>1, SubSeqOfConcat2
  <2> QED BY <1>1, <1>3, <2>1, <2>2 DEF After
<1> QED BY <1>4, <1>5

\* A call without a handler has no catch word.
LEMMA NoWordCatches ==
    ASSUME NEW c \in Address, NEW rest \in Seq(Address), ~Catcher(c)
    PROVE  \A i \in 1..Len(WordsOn(c, rest)) : WordsOn(c, rest)[i] \notin CatchCells
<1>1. CASE ~c.framed
  <2>1. Len(WordsOn(c, rest)) = 0
    BY <1>1, EmptySeq DEF WordsOn
  <2> QED BY <2>1
<1>2. CASE c.framed
  <2>1. PICK top \in Word, r \in Seq(Word) : top = Cell("cp", BackTo(rest)) /\ r = Registers(c) /\ Len(r) = Len(c.slots)
    BY CpType, RegistersType
  <2>2. \A y \in 1..Len(r) : r[y] = Val
    BY <2>1 DEF Registers, Register, Catcher
  <2>3. PICK s : s = <<top>> \o r
    OBVIOUS
  <2>4. s[1] = top /\ Len(s) = Len(r) + 1 /\ \A i \in 1..Len(r) : s[i + 1] = r[i]
    BY <2>3, ConsFacts
  <2>5. ASSUME NEW i \in 1..Len(s) PROVE s[i] \notin CatchCells
    <3>1. Len(r) \in Nat
      BY LenProperties
    <3>2. i = 1 \/ (i - 1 \in 1..Len(r) /\ i = (i - 1) + 1)
      BY <2>4, <3>1
    <3>3. i = 1 \/ \E j \in 1..Len(r) : i = j + 1
      BY <3>2
    <3>4. s[i] = top \/ s[i] = Val
      BY <2>2, <2>4, <3>3
    <3> QED BY <2>1, <3>4, NoCatchIn
  <2> QED BY <1>2, <2>1, <2>3, <2>5 DEF WordsOn
<1> QED BY <1>1, <1>2

NoneIn(s) == \A i \in 1..Len(s) : s[i] \notin CatchCells

LEMMA NoneJoined ==
    ASSUME NEW s \in Seq(Word), NEW t \in Seq(Word), NoneIn(s), NoneIn(t)
    PROVE  NoneIn(s \o t)
<1>1. PICK n \in Nat, m \in Nat : n = Len(s) /\ m = Len(t)
  BY LenProperties
<1>2. PICK y : y = s \o t
  OBVIOUS
<1>3. y \in Seq(Word) /\ Len(y) = n + m /\ \A i \in 1..(n + m) : y[i] = IF i <= n THEN s[i] ELSE t[i - n]
  BY <1>1, <1>2, ConcatProperties
<1>4. \A i \in 1..(n + m) : (i <= n => i \in 1..n) /\ (~(i <= n) => i - n \in 1..m)
  OBVIOUS
<1>5. \A i \in 1..(n + m) : y[i] \notin CatchCells
  BY <1>1, <1>3, <1>4 DEF NoneIn
<1> QED BY <1>2, <1>3, <1>5 DEF NoneIn

\* The handler of a function is under the words of those it called.
LEMMA CaughtDeeper ==
    ASSUME NEW c \in Address, NEW u \in Seq(Address), NEW calls, Joins(calls, c, u), FirstFound(u)
    PROVE  FirstFound(calls)
<1> SUFFICES ASSUME NEW k, FirstAt(calls, k) PROVE \E X : CaughtUnder(calls, k, X)
  BY DEF FirstFound
<1>1. /\ calls \in Seq(Address) /\ Len(calls) = Len(u) + 1 /\ calls[1] = c
      /\ \A i \in 1..Len(u) : calls[i + 1] = u[i]
  BY ConsFacts DEF Joins
<1>2. Pushed(calls, c, u)
  BY LayoutPush
<1>3. CASE k = 1
  <2>1. After(calls, 1) = u
    BY AfterFirst
  <2>2. PICK none \in Seq(Word) : none = << >> /\ Len(none) = 0
    BY EmptySeq
  <2>3. none \o Layout(calls) = Layout(calls)
    BY <1>1, <2>2, LayoutType, ConcatEmptySeq
  <2>4. CaughtUnder(calls, 1, none)
    BY <1>1, <1>2, <2>1, <2>2, <2>3 DEF Pushed, CaughtUnder
  <2> QED BY <1>3, <2>4
<1>4. CASE k # 1
  <2>1. PICK j \in 1..Len(u) : k = j + 1 /\ k \in Nat
    <3>1. Len(u) \in Nat /\ k \in 1..Len(calls)
      BY LenProperties DEF FirstAt
    <3>2. k - 1 \in 1..Len(u) /\ k = (k - 1) + 1
      BY <1>1, <1>4, <3>1
    <3> QED BY <3>1, <3>2
  <2>2. FirstAt(u, j)
    <3>1. \A i \in 1..(j - 1) : i \in 1..Len(u) /\ i + 1 \in 1..(k - 1)
      <4>1. Len(u) \in Nat
        BY LenProperties
      <4> QED BY <2>1, <4>1
    <3>2. \A i \in 1..(j - 1) : ~Catcher(calls[i + 1])
      BY <3>1 DEF FirstAt
    <3>3. Catcher(u[j])
      BY <1>1, <2>1 DEF FirstAt
    <3> QED BY <1>1, <3>1, <3>2, <3>3 DEF FirstAt
  <2>3. ~Catcher(c)
    <3>1. 1 \in 1..(k - 1)
      BY <2>1
    <3> QED BY <1>1, <3>1 DEF FirstAt
  <2>4. PICK X : CaughtUnder(u, j, X)
    BY <2>2 DEF FirstFound
  <2>5. PICK v \in Seq(Word), d \in Address, r \in Seq(Address) : v = WordsOn(c, u) /\ d = calls[k] /\ d = u[j] /\ r = After(u, j) /\ r = After(calls, k)
    <3>1. After(calls, j + 1) = After(u, j)
      BY AfterOther
    <3>2. u[j] \in Address /\ u[j] = calls[k]
      BY <1>1, <2>1, ElementOfSeq
    <3>3. After(u, j) \in Seq(Address) /\ After(u, j) = After(calls, k)
      BY <2>1, <2>4, <3>1 DEF CaughtUnder
    <3> QED BY <3>2, <3>3, WordsOnType
  <2>6. X \in Seq(Word) /\ Layout(u) = X \o StackOf(d, r) /\ \A i \in 1..Len(X) : X[i] \notin CatchCells
    BY <2>4, <2>5 DEF CaughtUnder
  <2>8. StackOf(d, r) \in Seq(Word)
    <3>1. PICK z : Joins(z, d, r)
      BY DEF Joins
    <3>2. z \in Seq(Address)
      BY <3>1, ConsFacts DEF Joins
    <3>3. Pushed(z, d, r)
      BY <3>1, LayoutPush
    <3> QED BY <3>2, <3>3, LayoutType DEF Pushed
  <2>9. Layout(calls) = (v \o X) \o StackOf(d, r)
    <3>1. PICK b \in Seq(Word) : b = StackOf(d, r)
      BY <2>8
    <3>2. Associates(v, X, b)
      BY <2>6, ConcatAssociates
    <3> QED BY <1>2, <2>5, <2>6, <3>1, <3>2 DEF Associates, Pushed
  <2>10. (v \o X) \in Seq(Word) /\ \A i \in 1..Len(v \o X) : (v \o X)[i] \notin CatchCells
    <3>1. NoneIn(v) /\ NoneIn(X)
      BY <2>3, <2>5, <2>6, NoWordCatches DEF NoneIn
    <3>2. NoneIn(v \o X)
      BY <2>6, <3>1, NoneJoined
    <3> QED BY <2>6, <3>2, ConcatProperties DEF NoneIn
  <2>11. CaughtUnder(calls, k, v \o X)
    BY <2>5, <2>9, <2>10 DEF CaughtUnder
  <2> QED BY <2>11
<1> QED BY <1>3, <1>4

LEMMA CatcherFound ==
    ASSUME NEW calls \in Seq(Address)
    PROVE  FirstFound(calls)
<1> DEFINE H == {s \in Seq(Address) : FirstFound(s)}
<1>1. << >> \in H
  <2>1. << >> \in Seq(Address) /\ Len(<< >>) = 0
    BY EmptySeq
  <2> QED BY <2>1 DEF FirstFound, FirstAt
<1>2. ASSUME NEW c \in Address, NEW u \in Seq(Address), u \in H PROVE (<<c>> \o u) \in H
  <2>1. PICK s : s = <<c>> \o u
    OBVIOUS
  <2>2. Joins(s, c, u) /\ s \in Seq(Address)
    BY <2>1, ConsFacts DEF Joins
  <2>3. FirstFound(s)
    BY <1>2, <2>2, CaughtDeeper
  <2> QED BY <2>1, <2>2, <2>3
<1>3. GrowsInFront(Address, H)
  BY <1>1, <1>2 DEF GrowsInFront
<1> HIDE DEF H
<1>4. calls \in H
  BY <1>3, ByPrepending
<1> QED BY <1>4 DEF H


\* Without a handler there is no catch word.
LEMMA NoCatcher ==
    ASSUME NEW calls \in Seq(Address), \A i \in 1..Len(calls) : ~Catcher(calls[i])
    PROVE  NoneIn(Layout(calls))
<1> DEFINE H == {s \in Seq(Address) : (\A i \in 1..Len(s) : ~Catcher(s[i])) => NoneIn(Layout(s))}
<1>1. << >> \in H
  BY EmptySeq, LayoutNone DEF NoneIn
<1>2. ASSUME NEW c \in Address, NEW u \in Seq(Address), u \in H PROVE (<<c>> \o u) \in H
  <2>1. PICK s : s = <<c>> \o u
    OBVIOUS
  <2>2. Joins(s, c, u) /\ s \in Seq(Address) /\ Len(s) = Len(u) + 1 /\ s[1] = c /\ \A i \in 1..Len(u) : s[i + 1] = u[i]
    BY <2>1, ConsFacts DEF Joins
  <2>3. ASSUME \A i \in 1..Len(s) : ~Catcher(s[i]) PROVE NoneIn(Layout(s))
    <3>1. Len(u) \in Nat
      BY LenProperties
    <3>2. 1 \in 1..Len(s) /\ \A i \in 1..Len(u) : i + 1 \in 1..Len(s)
      BY <2>2, <3>1
    <3>3. ~Catcher(c) /\ \A i \in 1..Len(u) : ~Catcher(u[i])
      BY <2>2, <2>3, <3>2
    <3>4. NoneIn(Layout(u))
      BY <1>2, <3>3
    <3>5. NoneIn(WordsOn(c, u))
      BY <3>3, NoWordCatches DEF NoneIn
    <3>6. PICK v \in Seq(Word), b \in Seq(Word) : v = WordsOn(c, u) /\ b = Layout(u)
      BY WordsOnType, LayoutType
    <3>7. NoneIn(v \o b)
      BY <3>4, <3>5, <3>6, NoneJoined
    <3>8. Pushed(s, c, u)
      BY <2>2, LayoutPush
    <3> QED BY <3>6, <3>7, <3>8 DEF Pushed
  <2> QED BY <2>1, <2>2, <2>3
<1>3. GrowsInFront(Address, H)
  BY <1>1, <1>2 DEF GrowsInFront
<1> HIDE DEF H
<1>4. calls \in H
  BY <1>3, ByPrepending
<1> QED BY <1>4 DEF H

\* What the search for a catch word finds.
HandlerAt(stack, d, R, y, i) ==
    /\ stack \in Seq(Word) /\ i \in 1..Len(stack) /\ i \in Nat /\ i # 1
    /\ stack[i] = Cell(d.slots[y], [framed |-> TRUE, handler |-> y, slots |-> d.slots])
    /\ stack[i] \in CatchCells /\ \A j \in 1..(i - 1) : stack[j] \notin CatchCells
    /\ y = 1 => SubSeq(stack, i - 1, Len(stack)) = StackOf(d, R)
    /\ y # 1 => Head(SubSeq(stack, i - 1, Len(stack))) = Val
    /\ Catches(stack) = Catches(StackOf(d, R)) /\ Head(StackOf(d, R)).kind = "cp"

LEMMA HandlerFound ==
    ASSUME NEW d \in Address, d.framed, NEW R \in Seq(Address), NEW X \in Seq(Word), NoneIn(X),
           NEW y \in 1..Len(d.slots), ValuesBelow(d.slots, y), d.slots[y] # "val",
           NEW stack, stack = X \o StackOf(d, R)
    PROVE  HandlerAt(stack, d, R, y, (Len(X) + 1) + y)
<1>1. PICK slots \in Seq(SlotKind) : slots = d.slots /\ y \in 1..Len(slots)
  BY DEF Address, SlotKind
<1>2. PICK top \in Word, r \in Seq(Word), b \in Seq(Word) :
          top = Cell("cp", BackTo(R)) /\ r = Registers(d) /\ b = Layout(R) /\ Len(r) = Len(slots)
  BY <1>1, CpType, RegistersType, LayoutType
<1>3. PICK f : f = StackOf(d, R)
  OBVIOUS
<1>4. f = Stacked(top, r, b)
  BY <1>2, <1>3 DEF StackOf
<1>5. IsStacked(Word, f, top, r, b)
  BY <1>4, StackedFacts
<1>6. PICK n \in Nat, x \in Nat, m \in Nat : n = Len(r) /\ x = Len(X) /\ m = Len(f) /\ m >= n + 1 /\ y \in 1..n /\ y \in Nat
  <2>1. Len(f) = (Len(r) + 1) + Len(b) /\ Len(r) \in Nat /\ Len(b) \in Nat /\ Len(X) \in Nat
    BY <1>5, LenProperties DEF IsStacked
  <2>2. Len(f) \in Nat /\ Len(f) >= Len(r) + 1
    BY <2>1
  <2> QED BY <1>1, <1>2, <2>1, <2>2
<1>7. f \in Seq(Word) /\ f[1] = top /\ Head(f) = top /\ \A z \in 1..n : f[z + 1] = Register(slots, z)
  <2>1. \A z \in 1..n : r[z] = Register(slots, z)
    BY <1>1, <1>2, <1>6 DEF Registers
  <2> QED BY <1>5, <1>6, <2>1 DEF IsStacked
<1>8. /\ stack \in Seq(Word) /\ Len(stack) = x + m
      /\ \A j \in 1..(x + m) : stack[j] = IF j <= x THEN X[j] ELSE f[j - x]
  BY <1>3, <1>6, <1>7, ConcatProperties
<1>9. PICK i \in Nat : i = (x + 1) + y /\ i \in 1..(x + m) /\ i # 1 /\ ~(i <= x) /\ i - x = y + 1
  <2>1. y \in 1..(m - 1) /\ m - 1 \in Nat
    BY <1>6
  <2>2. (x + 1) + y \in Nat /\ (x + 1) + y \in 1..(x + m) /\ (x + 1) + y # 1 /\ ~((x + 1) + y <= x)
    BY <1>6, <2>1
  <2>3. ((x + 1) + y) - x = y + 1
    BY <1>6
  <2> QED BY <2>2, <2>3
<1>10. stack[i] = Register(slots, y)
  BY <1>6, <1>7, <1>8, <1>9
<1>11. stack[i] = Cell(slots[y], [framed |-> TRUE, handler |-> y, slots |-> slots])
  BY <1>1, <1>10, RegisterFirst
<1>12. stack[i] \in CatchCells
  BY <1>1, <1>10, RegisterCatches
<1>13. ASSUME NEW j \in 1..(i - 1) PROVE stack[j] \notin CatchCells
  <2>1. j \in 1..(x + m)
    BY <1>6, <1>9
  <2>5. j \in Nat /\ x \in Nat
    BY <1>6, <1>9
  <2>2. CASE j <= x
    <3>1. j \in 1..Len(X)
      BY <1>6, <2>2
    <3>2. stack[j] = X[j]
      BY <1>8, <2>1, <2>2
    <3> QED BY <3>1, <3>2 DEF NoneIn
  <2>3. CASE j = x + 1
    <3>1. ~(j <= x) /\ j - x = 1
      BY <2>3, <2>5
    <3>2. stack[j] = top
      BY <1>7, <1>8, <2>1, <3>1
    <3> QED BY <1>2, <3>2, NoCatchIn
  <2>4. CASE j > x + 1
    <3>1. PICK z \in 1..(y - 1) : j - x = z + 1 /\ z \in 1..n
      <4>1. (j - x) - 1 \in 1..(y - 1) /\ j - x = ((j - x) - 1) + 1 /\ (j - x) - 1 \in 1..n
        BY <1>6, <1>9, <2>4
      <4> QED BY <4>1
    <3>2. stack[j] = Register(slots, z)
      <4>1. ~(j <= x)
        BY <2>4, <2>5
      <4>2. stack[j] = f[j - x]
        BY <1>8, <2>1, <4>1
      <4>3. f[z + 1] = Register(slots, z)
        BY <1>7, <3>1
      <4> QED BY <3>1, <4>2, <4>3
    <3>3. Register(slots, z) = Val
      BY <1>1, <3>1 DEF ValuesBelow, Register
    <3> QED BY <3>2, <3>3, NoCatchIn
  <2>6. j <= x \/ j = x + 1 \/ j > x + 1
    BY <2>5
  <2> QED BY <2>2, <2>3, <2>4, <2>6
<1>14. SubSeq(stack, i - 1, Len(stack)) = SubSeq(f, y, m)
  <2>1. i - 1 \in (Len(X) + 1)..(Len(X) + Len(f)) /\ x + m \in (Len(X) + 1)..(Len(X) + Len(f))
    BY <1>6, <1>9
  <2>2. (i - 1) - Len(X) = y /\ (x + m) - Len(X) = m
    BY <1>6, <1>9
  <2>3. SubSeq(X \o f, i - 1, x + m) = SubSeq(f, (i - 1) - Len(X), (x + m) - Len(X))
    BY <1>7, <2>1, SubSeqOfConcat2
  <2> QED BY <1>3, <1>8, <2>2, <2>3
<1>15. y = 1 => SubSeq(stack, i - 1, Len(stack)) = f
  BY <1>6, <1>7, <1>14, SubSeqFull
<1>16. ASSUME y # 1 PROVE Head(SubSeq(stack, i - 1, Len(stack))) = Val
  <2>1. PICK z \in 1..(y - 1) : y = z + 1 /\ z \in 1..n
    <3>1. y - 1 \in 1..(y - 1) /\ y = (y - 1) + 1 /\ y - 1 \in 1..n
      BY <1>6, <1>16
    <3> QED BY <3>1
  <2>2. f[y] = Val
    BY <1>1, <1>7, <2>1 DEF ValuesBelow, Register
  <2>3. y \in Int /\ m \in Int /\ (m - y) + 1 >= 1 /\ 1 \in 1..((m - y) + 1)
    BY <1>6
  <2>4. PICK g : g = SubSeq(f, y, m)
    OBVIOUS
  <2>5. g[1] = f[y]
    <3>1. g[1] = f[(y + 1) - 1]
      BY <2>3, <2>4, SliceElements
    <3>2. (y + 1) - 1 = y
      BY <1>6
    <3> QED BY <3>1, <3>2
  <2>6. g \in Seq(Word) /\ g # << >>
    <3>1. \A j \in y..m : f[j] \in Word
      <4>1. \A j \in y..m : j \in 1..Len(f)
        BY <1>6
      <4> QED BY <1>7, <4>1, ElementOfSeq
    <3>2. g \in Seq(Word) /\ Len(g) = IF y <= m THEN (m - y) + 1 ELSE 0
      BY <2>3, <2>4, <3>1, SubSeqProperties
    <3> QED BY <2>3, <3>2, EmptySeq
  <2>7. Head(g) = g[1]
    BY <2>6, HeadTailProperties
  <2> QED BY <1>14, <2>2, <2>4, <2>5, <2>7
<1>17. Catches(stack) = Catches(f)
  <2>1. Count(X, CatchCells) = 0
    BY CountNone DEF NoneIn
  <2>2. Count(stack, CatchCells) = Count(X, CatchCells) + Count(f, CatchCells) /\ Count(f, CatchCells) \in Nat
    BY <1>3, <1>7, CountConcat, CountType
  <2> QED BY <2>1, <2>2 DEF Catches
<1>18. Head(f).kind = "cp"
  BY <1>2, <1>7 DEF Cell
<1> QED BY <1>1, <1>3, <1>6, <1>8, <1>9, <1>11, <1>12, <1>13, <1>15, <1>16, <1>17, <1>18 DEF HandlerAt


\* The handler runs in its function, and those that waited for it wait still.
Resumed(d, y) == [framed |-> TRUE, handler |-> y, slots |-> d.slots]

LEMMA ResumedIs ==
    ASSUME NEW d \in Address, d.framed, NEW y \in Nat
    PROVE  /\ [d EXCEPT !.handler = y] = Resumed(d, y) /\ Resumed(d, y) \in Address
           /\ Resumed(d, y).framed /\ Resumed(d, y).slots = d.slots /\ Resumed(d, y).handler = y
<1>1. PICK r : r = [d EXCEPT !.handler = y]
  OBVIOUS
<1>2. r \in Address
  BY <1>1 DEF Address
<1>3. r = [framed |-> r.framed, slots |-> r.slots, handler |-> r.handler]
  BY <1>2 DEF Address
<1>4. r.framed = d.framed /\ r.slots = d.slots /\ r.handler = y
  BY <1>1 DEF Address
<1>5. d.framed = TRUE
  BY DEF Address
<1>6. r = [framed |-> TRUE, handler |-> y, slots |-> d.slots]
  BY <1>3, <1>4, <1>5
<1>7. r = Resumed(d, y)
  BY <1>6 DEF Resumed
<1> QED BY <1>1, <1>2, <1>4, <1>7

Resumes(R, d, y) ==
    /\ d \in Address /\ d.framed /\ [d EXCEPT !.handler = y] = Resumed(d, y)
    /\ Stands(R, <<Resumed(d, y)>> \o R, Resumed(d, y), StackOf(d, R), Null, Catches(StackOf(d, R)))

LEMMA HandlerStands ==
    ASSUME NEW rest, NEW calls, NEW at, NEW stack, NEW cp, NEW catches, Stands(rest, calls, at, stack, cp, catches),
           NEW k, FirstAt(calls, k), NEW d, d = calls[k], NEW R, R = After(calls, k), R \in Seq(Address),
           NEW y \in 1..Len(d.slots), ValuesBelow(d.slots, y), d.slots[y] # "val"
    PROVE  Resumes(R, d, y)
<1>1. /\ at \in Address /\ calls \in Seq(Address) /\ Len(calls) = Len(rest) + 1 /\ calls[1] = at
      /\ \A i \in 1..Len(rest) : calls[i + 1] = rest[i]
  BY StandsCalls
<1>2. PICK n \in Nat : n = Len(rest) /\ Len(calls) = n + 1 /\ k \in 1..(n + 1) /\ k \in Nat
  <2>1. Len(rest) \in Nat
    BY LenProperties DEF Stands
  <2> QED BY <1>1, <2>1 DEF FirstAt
<1>3. \A j \in 2..(n + 1) : calls[j].framed /\ calls[j].handler = 0
  <2>1. ASSUME NEW j \in 2..(n + 1) PROVE calls[j].framed /\ calls[j].handler = 0
    <3>1. j - 1 \in 1..n /\ j = (j - 1) + 1
      OBVIOUS
    <3>2. PICK i \in 1..n : j = i + 1
      BY <3>1
    <3>3. calls[j] = rest[i]
      BY <1>1, <1>2, <3>2
    <3> QED BY <1>2, <3>3 DEF Stands, Waiting
  <2> QED BY <2>1
<1>4. d \in Address
  BY <1>1, <1>2, ElementOfSeq
<1>5. d.framed
  <2>1. CASE k = 1
    <3>1. ~at.framed => at = Leaf
      BY DEF Stands, Place
    <3>2. Len(Leaf.slots) = 0
      BY EmptySeq DEF Leaf
    <3> QED BY <1>1, <2>1, <3>1, <3>2
  <2>2. CASE k # 1
    <3>1. k \in 2..(n + 1)
      BY <1>2, <2>2
    <3> QED BY <1>3, <3>1
  <2> QED BY <2>1, <2>2
<1>6. [d EXCEPT !.handler = y] = Resumed(d, y)
  BY <1>4, <1>5, ResumedIs
<1>8. PICK to \in Address : to = Resumed(d, y) /\ to.framed /\ to.slots = d.slots /\ to.handler = y
  BY <1>4, <1>5, ResumedIs
<1>9. HeadOK(to)
  BY <1>8 DEF HeadOK, ValuesBelow
<1>10. Waiting(R)
  <2>1. Len(R) = (n + 1) - k /\ \A i \in 1..((n + 1) - k) : R[i] = calls[k + i]
    <3>1. \A i \in (k + 1)..(n + 1) : i \in 1..Len(calls)
      BY <1>2
    <3>2. \A i \in (k + 1)..(n + 1) : calls[i] \in Address
      BY <1>1, <3>1, ElementOfSeq
    <3>3. Len(R) = (IF k + 1 <= n + 1 THEN ((n + 1) - (k + 1)) + 1 ELSE 0)
      BY <1>2, <3>2, SubSeqProperties DEF After
    <3>4. \A i \in 1..(((n + 1) - (k + 1)) + 1) : R[i] = calls[((k + 1) + i) - 1]
      BY <1>2, SliceElements DEF After
    <3>5. ((n + 1) - (k + 1)) + 1 = (n + 1) - k /\ \A i \in 1..((n + 1) - k) : ((k + 1) + i) - 1 = k + i
      BY <1>2
    <3> QED BY <1>2, <3>3, <3>4, <3>5
  <2>2. \A i \in 1..((n + 1) - k) : k + i \in 2..(n + 1)
    BY <1>2
  <2> QED BY <1>3, <2>1, <2>2 DEF Waiting
<1>11. StackOf(to, R) = StackOf(d, R)
  BY <1>5, <1>8 DEF StackOf, Registers
<1>12. Stands(R, <<to>> \o R, to, StackOf(d, R), Null, Catches(StackOf(d, R)))
  BY <1>8, <1>9, <1>10, <1>11 DEF Stands, Place, Joins
<1> QED BY <1>4, <1>5, <1>6, <1>8, <1>12 DEF Resumes

LEMMA LeastIs ==
    ASSUME NEW S, S \subseteq Nat, NEW i \in S, \A k \in S : i <= k
    PROVE  (CHOOSE j \in S : \A k \in S : j <= k) = i
<1>1. \A j \in S : (\A k \in S : j <= k) => j = i
  <2>1. ASSUME NEW j \in S, \A k \in S : j <= k PROVE j = i
    <3>1. j <= i /\ i <= j /\ i \in Nat /\ j \in Nat
      BY <2>1
    <3> QED BY <3>1
  <2> QED BY <2>1
<1> QED BY <1>1

\* The first call with a handler, and the innermost of its handlers.
LEMMA FirstThere ==
    ASSUME NEW calls \in Seq(Address), NEW m \in 1..Len(calls), Catcher(calls[m])
    PROVE  \E k : FirstAt(calls, k)
<1> DEFINE S == {c \in 1..Len(calls) : Catcher(calls[c])}
<1>1. S \subseteq Nat /\ S # {} /\ Len(calls) \in Nat
  BY LenProperties
<1>2. PICK k \in S : \A j \in S : k <= j
  BY <1>1, LeastThere
<1>3. \A j \in 1..(k - 1) : j \in 1..Len(calls) /\ ~(k <= j)
  BY <1>1
<1> QED BY <1>2, <1>3 DEF FirstAt

LEMMA InnermostThere ==
    ASSUME NEW c \in Address, Catcher(c)
    PROVE  \E y \in 1..Len(c.slots) : c.slots[y] # "val" /\ ValuesBelow(c.slots, y)
<1> DEFINE S == {y \in 1..Len(c.slots) : c.slots[y] # "val"}
<1>0. Len(c.slots) \in Nat
  BY LenProperties DEF Address
<1>1. S \subseteq Nat /\ S # {}
  BY <1>0 DEF Catcher
<1>2. PICK y \in S : \A z \in S : y <= z
  BY <1>1, LeastThere
<1>3. \A z \in 1..(y - 1) : z \in 1..Len(c.slots) /\ ~(y <= z)
  BY <1>0
<1> QED BY <1>2, <1>3 DEF ValuesBelow


\* The words of the stack that an exception may stop at.
LEMMA WordCatches == ASSUME NEW w \in Word PROVE IsCatch(w) <=> w \in CatchCells
  BY DEF IsCatch, Word, CatchCells

\* A process that an exception ends stands in no try and no catch.
LEMMA UnwindEnds ==
    ASSUME NEW rest, Stands(rest, mCalls, mAt, mStack, mCp, mCatches), Unwind,
           \A i \in 1..Len(mCalls) : ~Catcher(mCalls[i]), MachineInv
    PROVE  MachineInv'
<1>1. mCalls \in Seq(Address)
  BY StandsCalls
<1>2. PICK d \in Address : mCalls = <<d>> \o rest /\ d = mAt /\ rest \in Seq(Address)
  BY DEF Stands, Place, Joins
<1>3. NoneIn(mStack) /\ mStack \in Seq(Word)
  <2>1. Pushed(mCalls, d, rest)
    BY <1>2, LayoutPush DEF Joins
  <2>2. mStack = Layout(mCalls)
    BY <1>2, <2>1 DEF Pushed, Stands
  <2> QED BY <1>1, <2>2, NoCatcher, LayoutType
<1>4. CatchWords = {}
  <2>1. \A i \in 1..Len(mStack) : mStack[i] \in Word
    BY <1>3, ElementOfSeq
  <2> QED BY <1>3, <2>1, WordCatches DEF NoneIn, CatchWords
<1>5. mPhase' = "terminated" /\ UNCHANGED <<mStack, mCp, mAt, mCatches, mCalls, mSpoilt>>
  BY <1>4 DEF Unwind
<1>6. Stands(rest, mCalls', mAt', mStack', mCp', mCatches')
  BY <1>5
<1>7. NothingEscapes'
  BY <1>5 DEF NothingEscapes, Catcher
<1> QED BY <1>5, <1>6, <1>7 DEF MachineInv

\* What the search for a catch word does with the calls.
UnwindTo(i, c, y, found) ==
    IF i = 1 THEN Panics
    ELSE /\ mStack' = SubSeq(mStack, i - 1, Len(mStack))
         /\ mAt' = mStack[i].to /\ mCp' = Null /\ mPhase' = "run"
         /\ mSpoilt' = (Head(mStack').kind # "cp")
         /\ mCalls' = IF ~found THEN << >>
                      ELSE <<[mCalls[c] EXCEPT !.handler = y]>> \o SubSeq(mCalls, c + 1, Len(mCalls))
         /\ UNCHANGED mCatches

LEMMA UnwindIs ==
    ASSUME Unwind, mCatches # 0, CatchWords # {}
    PROVE  LET i == CHOOSE j \in CatchWords : \A k \in CatchWords : j <= k
               catchers == {c \in 1..Len(mCalls) : Catcher(mCalls[c])}
               c == CHOOSE d \in catchers : \A e \in catchers : d <= e
               y == CHOOSE z \in 1..Len(mCalls[c].slots) :
                       /\ mCalls[c].slots[z] # "val"
                       /\ \A x \in 1..(z - 1) : mCalls[c].slots[x] = "val"
           IN  UnwindTo(i, c, y, catchers # {})
  BY DEF Unwind, UnwindTo, Catcher

LEMMA UnwindGoes ==
    ASSUME NEW i, NEW c, NEW y, Unwind, mCatches # 0,
           i \in CatchWords, \A k \in CatchWords : i <= k,
           mCalls \in Seq(Address), FirstAt(mCalls, c),
           y \in 1..Len(mCalls[c].slots), mCalls[c].slots[y] # "val", ValuesBelow(mCalls[c].slots, y)
    PROVE  UnwindTo(i, c, y, TRUE)
<1>1. PICK S : S = {x \in 1..Len(mCalls) : Catcher(mCalls[x])}
  OBVIOUS
<1>2. CatchWords \subseteq Nat /\ S \subseteq Nat /\ Len(mCalls) \in Nat
  BY <1>1, LenProperties DEF CatchWords
<1>3. (CHOOSE j \in CatchWords : \A k \in CatchWords : j <= k) = i
  BY <1>2, LeastIs
<1>4. c \in S /\ c \in Nat /\ \A k \in S : c <= k
  <2>1. c \in S /\ c \in Nat
    BY <1>1, <1>2 DEF FirstAt
  <2>2. ASSUME NEW k \in S PROVE c <= k
    <3>1. k \in Nat /\ k >= 1 /\ Catcher(mCalls[k])
      BY <1>1
    <3>2. k < c => k \in 1..(c - 1)
      BY <2>1, <3>1
    <3> QED BY <2>1, <3>1, <3>2 DEF FirstAt
  <2> QED BY <2>1, <2>2
<1>5. (CHOOSE d \in S : \A e \in S : d <= e) = c
  BY <1>2, <1>4, LeastIs
<1>6. PICK slots : slots = mCalls[c].slots
  OBVIOUS
<1>7. (CHOOSE z \in 1..Len(slots) : slots[z] # "val" /\ \A x \in 1..(z - 1) : slots[x] = "val") = y
  <2>1. ASSUME NEW z \in 1..Len(slots), slots[z] # "val", \A x \in 1..(z - 1) : slots[x] = "val" PROVE z = y
    <3>1. z \in Nat /\ y \in Nat /\ z >= 1 /\ y >= 1
      BY <1>6
    <3>2. (z < y => z \in 1..(y - 1)) /\ (y < z => y \in 1..(z - 1))
      BY <3>1
    <3> QED BY <1>6, <2>1, <3>1, <3>2 DEF ValuesBelow
  <2>2. y \in 1..Len(slots) /\ slots[y] # "val" /\ \A x \in 1..(y - 1) : slots[x] = "val"
    BY <1>6 DEF ValuesBelow
  <2> QED BY <2>1, <2>2
<1>8. CatchWords # {} /\ S # {}
  BY <1>4
<1>9. LET ii == CHOOSE j \in CatchWords : \A k \in CatchWords : j <= k
          cc == CHOOSE d \in S : \A e \in S : d <= e
          yy == CHOOSE z \in 1..Len(mCalls[cc].slots) :
                   /\ mCalls[cc].slots[z] # "val"
                   /\ \A x \in 1..(z - 1) : mCalls[cc].slots[x] = "val"
      IN  UnwindTo(ii, cc, yy, S # {})
  BY <1>1, <1>8, UnwindIs
<1>10. UnwindTo(i, c, y, S # {})
  BY <1>3, <1>5, <1>6, <1>7, <1>9
<1> QED BY <1>8, <1>10 DEF UnwindTo


LEMMA UnwindResumes ==
    ASSUME NEW rest, Stands(rest, mCalls, mAt, mStack, mCp, mCatches), Unwind, ~mSpoilt,
           NEW m \in 1..Len(mCalls), Catcher(mCalls[m])
    PROVE  Carried
<1>1. mCalls \in Seq(Address) /\ rest \in Seq(Address)
  BY StandsCalls DEF Stands
<1>2. PICK k : FirstAt(mCalls, k)
  BY <1>1, FirstThere
<1>3. PICK X : CaughtUnder(mCalls, k, X)
  BY <1>1, <1>2, CatcherFound DEF FirstFound
<1>4. PICK R \in Seq(Address), d \in Address : R = After(mCalls, k) /\ d = mCalls[k] /\ Catcher(d)
  <2>1. mCalls[k] \in Address /\ Catcher(mCalls[k])
    BY <1>1, <1>2, ElementOfSeq DEF FirstAt
  <2> QED BY <1>3, <2>1 DEF CaughtUnder
<1>5. PICK y \in 1..Len(d.slots) : d.slots[y] # "val" /\ ValuesBelow(d.slots, y)
  BY <1>4, InnermostThere
<1>6. /\ d.framed /\ [d EXCEPT !.handler = y] = Resumed(d, y)
      /\ Stands(R, <<Resumed(d, y)>> \o R, Resumed(d, y), StackOf(d, R), Null, Catches(StackOf(d, R)))
  <2>1. Resumes(R, d, y)
    BY <1>2, <1>4, <1>5, HandlerStands
  <2> QED BY <2>1 DEF Resumes
<1>7. PICK i : i = (Len(X) + 1) + y
  OBVIOUS
<1>8. mStack = X \o StackOf(d, R) /\ X \in Seq(Word) /\ NoneIn(X)
  <2>1. PICK at \in Address : at = mAt /\ Joins(mCalls, at, rest)
    BY DEF Stands, Place
  <2>2. Pushed(mCalls, at, rest)
    BY <1>1, <2>1, LayoutPush
  <2>3. mStack = Layout(mCalls)
    BY <2>1, <2>2 DEF Pushed, Stands
  <2> QED BY <1>3, <1>4, <2>3 DEF CaughtUnder, NoneIn
<1>9. HandlerAt(mStack, d, R, y, i)
  BY <1>5, <1>6, <1>7, <1>8, HandlerFound
<1>10. i \in CatchWords /\ \A j \in CatchWords : i <= j
  <2>1. \A j \in 1..Len(mStack) : mStack[j] \in Word
    BY <1>9, ElementOfSeq DEF HandlerAt
  <2>2. CatchWords = {j \in 1..Len(mStack) : mStack[j] \in CatchCells}
    BY <2>1, WordCatches DEF CatchWords
  <2>3. i \in CatchWords
    BY <1>9, <2>2 DEF HandlerAt
  <2>4. ASSUME NEW j \in CatchWords PROVE i <= j
    <3>1. j \in 1..Len(mStack) /\ mStack[j] \in CatchCells /\ i \in Nat /\ j \in Nat
      BY <1>9, <2>2 DEF HandlerAt
    <3>2. j < i => j \in 1..(i - 1)
      BY <3>1
    <3>3. j \notin 1..(i - 1)
      BY <1>9, <3>1 DEF HandlerAt
    <3> QED BY <3>1, <3>2, <3>3
  <2> QED BY <2>3, <2>4
<1>11. mCatches = Catches(StackOf(d, R)) /\ mCatches # 0
  <2>1. mCatches = Catches(mStack) /\ mStack \in Seq(Word)
    BY <1>9 DEF Stands, HandlerAt
  <2>2. Catches(mStack) # 0
    <3>1. PICK w \in Word : w = mStack[i] /\ w \in CatchCells /\ i \in 1..Len(mStack)
      BY <1>9, ElementOfSeq DEF HandlerAt
    <3>2. Val \in Word
      BY NullType DEF Val, Cell, Word
    <3>3. PICK s : s = [mStack EXCEPT ![i] = Val]
      OBVIOUS
    <3>4. IsChanged(Word, s, mStack, i, Val)
      BY <2>1, <3>1, <3>2, <3>3, ChangedIs
    <3>5. CountMoves(s, mStack, i, Val, CatchCells)
      <4>1. CountChanges(Word, mStack, CatchCells)
        BY <2>1, CountExcept
      <4> QED BY <3>1, <3>2, <3>4, <4>1 DEF CountChanges
    <3>6. Count(s, CatchCells) \in Nat /\ Count(mStack, CatchCells) \in Nat
      BY <2>1, <3>4, CountType DEF IsChanged
    <3>7. One(mStack[i], CatchCells) = 1 /\ One(Val, CatchCells) = 0
      BY <3>1, NoCatchIn DEF One
    <3> QED BY <3>5, <3>6, <3>7 DEF CountMoves, Catches
  <2> QED BY <1>9, <2>1, <2>2 DEF HandlerAt
<1>12. UnwindTo(i, k, y, TRUE)
  BY <1>1, <1>2, <1>4, <1>5, <1>10, <1>11, UnwindGoes
<1>13. i # 1 /\ mStack[i].to = Resumed(d, y)
  BY <1>9 DEF HandlerAt, Cell, Resumed
<1>14. /\ mStack' = SubSeq(mStack, i - 1, Len(mStack)) /\ mAt' = Resumed(d, y) /\ mCp' = Null /\ mPhase' = "run"
       /\ mSpoilt' = (Head(mStack').kind # "cp") /\ mCatches' = mCatches
       /\ mCalls' = <<Resumed(d, y)>> \o R
  BY <1>4, <1>6, <1>12, <1>13 DEF UnwindTo, After
<1>15. CASE y = 1
  <2>1. mStack' = StackOf(d, R)
    BY <1>9, <1>14, <1>15 DEF HandlerAt
  <2>2. Stands(R, mCalls', mAt', mStack', mCp', mCatches')
    BY <1>6, <1>11, <1>14, <2>1
  <2> QED BY <1>14, <2>2 DEF Carried
<1>16. CASE y # 1
  <2>1. Head(mStack').kind = "val"
    BY <1>9, <1>14, <1>16 DEF HandlerAt, Val, Cell
  <2>2. mSpoilt'
    BY <1>14, <2>1
  <2> QED BY <1>14, <2>2 DEF Carried
<1> QED BY <1>15, <1>16

LEMMA UnwindKept == MachineInv /\ Unwind => MachineInv'
<1> SUFFICES ASSUME MachineInv, Unwind PROVE MachineInv'
  OBVIOUS
<1>1. PICK rest : Stands(rest, mCalls, mAt, mStack, mCp, mCatches) /\ ~mSpoilt
  BY DEF MachineInv, Unwind
<1>2. CASE \A i \in 1..Len(mCalls) : ~Catcher(mCalls[i])
  BY <1>1, <1>2, UnwindEnds
<1>3. CASE \E i \in 1..Len(mCalls) : Catcher(mCalls[i])
  <2>1. PICK m \in 1..Len(mCalls) : Catcher(mCalls[m])
    BY <1>3
  <2>2. Carried
    BY <1>1, <2>1, UnwindResumes
  <2> QED BY <2>2, CarriedInv
<1> QED BY <1>2, <1>3

-----------------------------------------------------------------------------
(* The other steps.                                                        *)

\* Nothing but the phase changes.
LEMMA PhaseKept ==
    ASSUME MachineInv, Runs, UNCHANGED <<mStack, mCp, mAt, mCatches, mCalls, mSpoilt>>, mPhase' \in {"run", "failed"}
    PROVE  Carried
<1>1. PICK rest : Stands(rest, mCalls, mAt, mStack, mCp, mCatches)
  BY DEF MachineInv, Runs
<1>2. Stands(rest, mCalls', mAt', mStack', mCp', mCatches')
  BY <1>1
<1> QED BY <1>2 DEF Carried

LEMMA NativeKept == ASSUME MachineInv, Runs, NativeCall \/ Failed \/ UNCHANGED mVars PROVE Carried
<1>1. UNCHANGED <<mStack, mCp, mAt, mCatches, mCalls, mSpoilt>> /\ mPhase' \in {"run", "failed"}
  BY DEF NativeCall, Failed, mVars, Runs
<1> QED BY <1>1, PhaseKept

LEMMA EnteredKept == ASSUME MachineInv, MayCall, Entered PROVE Carried
<1>1. PICK rest : Stands(rest, mCalls, mAt, mStack, mCp, mCatches)
  BY DEF MachineInv, MayCall, Runs
<1>2. Stands(mCalls, <<Leaf>> \o mCalls, Leaf, mStack, mAt, mCatches)
  BY <1>1, EnteredStands DEF MayCall
<1>3. Stands(mCalls, mCalls', mAt', mStack', mCp', mCatches')
  BY <1>2 DEF Entered
<1> QED BY <1>3 DEF Carried, Entered, MayCall, Runs

LEMMA CallsKept == ASSUME MachineInv, Bif \/ Call \/ CallExt \/ CallFun \/ ApplyOp \/ CallOnly \/ NoClause \/ Throw PROVE Carried
<1>1. CASE Bif \/ CallOnly \/ NoClause \/ Throw
  BY <1>1, NativeKept DEF Bif, CallOnly, NoClause, Throw
<1>2. CASE Call \/ CallExt \/ CallFun \/ ApplyOp
  <2>1. MayCall /\ (Entered \/ NativeCall \/ Failed)
    BY <1>2 DEF Call, CallExt, CallFun, ApplyOp, ApplyClosure, ApplyExport
  <2> QED BY <2>1, EnteredKept, NativeKept DEF MayCall
<1> QED BY <1>1, <1>2

LEMMA AllocateKept == ASSUME MachineInv, NEW n \in Nat, Allocate(n) PROVE Carried
<1>1. PICK rest : Stands(rest, mCalls, mAt, mStack, mCp, mCatches)
  BY DEF MachineInv, Allocate, Runs
<1>2. Tail(mCalls) = rest
  BY <1>1, StandsCalls
<1>3. Stands(rest, <<Framed(Values(n))>> \o rest, Framed(Values(n)),
             <<Cell("cp", mCp)>> \o [y \in 1..n |-> Val] \o mStack, mCp, mCatches)
  BY <1>1, AllocatedStands DEF Allocate
<1>4. Stands(rest, mCalls', mAt', mStack', mCp', mCatches')
  BY <1>2, <1>3 DEF Allocate
<1> QED BY <1>4 DEF Carried, Allocate, Runs

\* A frame of values goes: what stack_deallocate asserts holds.
LEMMA DroppedStands ==
    ASSUME MachineInv, Runs, mAt.framed, NoCatch
    PROVE  /\ CpOnTop(Len(Slots))
           /\ \E rest : /\ Tail(mCalls) = rest
                        /\ Stands(rest, <<Leaf>> \o rest, Leaf, Dropped(Len(Slots)), Head(mStack).to, mCatches)
<1>1. PICK rest : Stands(rest, mCalls, mAt, mStack, mCp, mCatches)
  BY DEF MachineInv, Runs
<1>2. Tail(mCalls) = rest
  BY <1>1, StandsCalls
<1>3. \A y \in 1..Len(mAt.slots) : mAt.slots[y] = "val"
  BY DEF NoCatch, Slots
<1>4. /\ GoesOff(rest, mStack, Len(mAt.slots))
      /\ Stands(rest, <<Leaf>> \o rest, Leaf, Layout(rest), BackTo(rest), mCatches)
  BY <1>1, <1>3, FrameGoes
<1>5. Dropped(Len(Slots)) = Layout(rest) /\ Len(Slots) + 1 <= Len(mStack) /\ Head(mStack) = Cell("cp", BackTo(rest))
  BY <1>4 DEF GoesOff, Dropped, Slots
<1>7. Head(mStack).kind = "cp" /\ Head(mStack).to = BackTo(rest)
  BY <1>5 DEF Cell
<1>6. Stands(rest, <<Leaf>> \o rest, Leaf, Dropped(Len(Slots)), Head(mStack).to, mCatches)
  BY <1>4, <1>5, <1>7
<1> QED BY <1>2, <1>5, <1>6, <1>7 DEF CpOnTop

LEMMA DeallocateKept == ASSUME MachineInv, Deallocate \/ CallLast PROVE Carried
<1>1. Runs /\ mAt.framed /\ NoCatch
  BY DEF Deallocate, CallLast
<1>2. CpOnTop(Len(Slots))
  BY <1>1, DroppedStands
<1>3. PICK rest : /\ Tail(mCalls) = rest
                  /\ Stands(rest, <<Leaf>> \o rest, Leaf, Dropped(Len(Slots)), Head(mStack).to, mCatches)
  BY <1>1, DroppedStands
<1>4. /\ mCp' = Head(mStack).to /\ mStack' = Dropped(Len(Slots)) /\ mAt' = Leaf /\ mCalls' = <<Leaf>> \o Tail(mCalls)
      /\ UNCHANGED <<mCatches, mPhase, mSpoilt>>
  BY <1>2 DEF Deallocate, CallLast
<1>5. Stands(rest, mCalls', mAt', mStack', mCp', mCatches')
  BY <1>3, <1>4
<1> QED BY <1>1, <1>4, <1>5 DEF Carried, Runs


LEMMA TrimKept == ASSUME MachineInv, NEW n \in Nat, Trim(n) PROVE Carried
<1>1. PICK rest : Stands(rest, mCalls, mAt, mStack, mCp, mCatches)
  BY DEF MachineInv, Trim, Runs
<1>2. Tail(mCalls) = rest
  BY <1>1, StandsCalls
<1>3. (\A y \in 1..Len(mAt.slots) : mAt.slots[y] = "val") /\ mAt.framed /\ n \in 0..Len(mAt.slots)
  <2>1. mAt \in Address
    BY <1>1, StandsCalls
  <2>2. Len(mAt.slots) \in Nat
    BY <2>1, LenProperties DEF Address
  <2> QED BY <2>2 DEF NoCatch, Slots, Trim
<1>4. /\ n + 1 <= Len(mStack) /\ Head(mStack).kind = "cp"
      /\ Stands(rest, <<Framed(Values(Len(mAt.slots) - n))>> \o rest, Framed(Values(Len(mAt.slots) - n)),
                <<Head(mStack)>> \o SubSeq(mStack, n + 2, Len(mStack)), mCp, mCatches)
  BY <1>1, <1>3, TrimmedStands
<1>5. CpOnTop(n)
  BY <1>4 DEF CpOnTop
<1>6. /\ mStack' = <<Head(mStack)>> \o SubSeq(mStack, n + 2, Len(mStack))
      /\ mAt' = Framed(Values(Len(mAt.slots) - n)) /\ mCalls' = <<mAt'>> \o Tail(mCalls)
      /\ UNCHANGED <<mCp, mCatches, mPhase, mSpoilt>>
  BY <1>5 DEF Trim, Trimmed, Dropped, Slots
<1>7. Stands(rest, mCalls', mAt', mStack', mCp', mCatches')
  BY <1>2, <1>4, <1>6
<1> QED BY <1>6, <1>7 DEF Carried, Trim, Runs

\* A return with the words of those that wait.
LEMMA ReturnedKept ==
    ASSUME NEW rest, NEW stack, NEW cp, Stands(rest, <<Leaf>> \o rest, Leaf, stack, cp, mCatches), Tail(mCalls) = rest,
           NEW phase \in {"run", "failed"}, Returned(stack, cp, phase)
    PROVE  Carried
<1>1. cp = BackTo(rest) /\ ReturnedTo(rest, stack, mCatches)
  BY ReturnStands
<1>2. mStack' = stack /\ mCp' = Null /\ mCatches' = mCatches
  BY DEF Returned
<1>3. CASE rest = << >>
  <2>1. cp = Null /\ stack = << >> /\ Stands(<< >>, <<Leaf>>, Leaf, << >>, Null, mCatches)
    BY <1>1, <1>3 DEF ReturnedTo
  <2>2. mPhase' = "finished" /\ mAt' = Leaf /\ mCalls' = <<Leaf>>
    BY <2>1 DEF Returned
  <2>3. Stands(<< >>, mCalls', mAt', mStack', mCp', mCatches')
    BY <1>2, <2>1, <2>2
  <2> QED BY <2>2, <2>3 DEF Carried
<1>4. CASE rest # << >>
  <2>1. cp # Null
    BY <1>1, <1>4 DEF ReturnedTo
  <2>2. PICK later : Stands(later, rest, BackTo(rest), stack, Null, mCatches)
    BY <1>1, <1>4 DEF ReturnedTo
  <2>3. mAt' = cp /\ mCalls' = rest /\ mPhase' = phase
    BY <2>1 DEF Returned
  <2>4. Stands(later, mCalls', mAt', mStack', mCp', mCatches')
    BY <1>1, <1>2, <2>2, <2>3
  <2> QED BY <2>3, <2>4 DEF Carried
<1> QED BY <1>3, <1>4

LEMMA ReturnsKept == ASSUME MachineInv, ReturnOp \/ \E fails \in BOOLEAN : NativeTail(fails) PROVE Carried
<1>0. Runs
  BY DEF ReturnOp, NativeTail
<1>1. PICK rest : Stands(rest, mCalls, mAt, mStack, mCp, mCatches)
  BY <1>0 DEF MachineInv, Runs
<1>2. Tail(mCalls) = rest /\ mCalls = <<mAt>> \o rest
  BY <1>1, StandsCalls DEF Stands, Joins
<1>3. ~mAt.framed => mAt = Leaf
  BY <1>1 DEF Stands, Place
<1>4. ASSUME ~mAt.framed, NEW phase \in {"run", "failed"}, Returned(mStack, mCp, phase) PROVE Carried
  <2>1. Stands(rest, <<Leaf>> \o rest, Leaf, mStack, mCp, mCatches)
    BY <1>1, <1>2, <1>3, <1>4
  <2> QED BY <1>2, <1>4, <2>1, ReturnedKept
<1>5. CASE ReturnOp
  BY <1>4, <1>5 DEF ReturnOp
<1>6. CASE \E fails \in BOOLEAN : NativeTail(fails)
  <2>1. PICK fails \in BOOLEAN : NativeTail(fails)
    BY <1>6
  <2>2. PICK phase \in {"run", "failed"} : phase = IF fails THEN "failed" ELSE "run"
    OBVIOUS
  <2>3. CASE ~mAt.framed
    <3>1. Returned(mStack, mCp, phase)
      BY <2>1, <2>2, <2>3 DEF NativeTail
    <3> QED BY <1>4, <2>3, <3>1
  <2>4. CASE mAt.framed
    <3>1. NoCatch
      BY <2>1, <2>4 DEF NativeTail
    <3>2. CpOnTop(Len(Slots))
      BY <1>0, <2>4, <3>1, DroppedStands
    <3>3. PICK r : Tail(mCalls) = r /\ Stands(r, <<Leaf>> \o r, Leaf, Dropped(Len(Slots)), Head(mStack).to, mCatches)
      BY <1>0, <2>4, <3>1, DroppedStands
    <3>4. Returned(Dropped(Len(Slots)), Head(mStack).to, phase)
      BY <2>1, <2>2, <2>4, <3>2 DEF NativeTail
    <3> QED BY <3>3, <3>4, ReturnedKept
  <2> QED BY <2>3, <2>4
<1> QED BY <1>5, <1>6

LEMMA ApplyLastKept == ASSUME MachineInv, ApplyLast PROVE Carried
  BY DEF ApplyLast, Carried, Runs

\* A slot of the function that runs changes, with its word and the count.
LEMMA SlotKept ==
    ASSUME MachineInv, Runs, mAt.framed, NEW y \in 1..Len(Slots), ValuesBelow(Slots, y), NEW k \in SlotKind,
           NEW word, word = Register(WithSlot(y, k), y),
           mStack' = SetY(y, word), mAt' = Framed(WithSlot(y, k)), mCalls' = <<mAt'>> \o Tail(mCalls),
           UNCHANGED <<mCp, mPhase, mSpoilt>>,
           mCatches' + (IF Slots[y] # "val" THEN 1 ELSE 0) = mCatches + (IF k # "val" THEN 1 ELSE 0),
           mCatches' \in Int
    PROVE  Carried
<1>1. PICK rest : Stands(rest, mCalls, mAt, mStack, mCp, mCatches)
  BY DEF MachineInv, Runs
<1>2. Tail(mCalls) = rest /\ mAt \in Address /\ rest \in Seq(Address)
  BY <1>1, StandsCalls DEF Stands
<1>3. PICK other : other = WithSlot(y, k)
  OBVIOUS
<1>4. IsChanged(SlotKind, other, mAt.slots, y, k) /\ y \in 1..Len(mAt.slots)
  <2>1. mAt.slots \in Seq(SlotKind)
    BY <1>2 DEF Address, SlotKind
  <2> QED BY <1>3, <2>1, ChangedIs DEF WithSlot, Slots
<1>5. PICK w : w = mStack'
  OBVIOUS
<1>6. IsChanged(Word, w, mStack, y + 1, Register(other, y))
  <2>1. IsFrame(mStack, mAt, rest)
    BY <1>1, <1>2, FrameFacts DEF Stands, StackOf
  <2>2. PICK j \in 1..Len(mStack) : j = y + 1 /\ mStack \in Seq(Word)
    <3>1. y + 1 \in 1..Len(mStack) /\ mStack \in Seq(Word)
      BY <1>4, <2>1 DEF IsFrame, IsStacked
    <3> QED BY <3>1
  <2>3. word \in Word
    <3>1. other \in Seq(SlotKind) /\ y \in 1..Len(other)
      BY <1>4 DEF IsChanged
    <3> QED BY <1>3, <3>1, RegisterType
  <2>4. w = [mStack EXCEPT ![j] = word]
    BY <1>5, <2>2 DEF SetY
  <2>5. IsChanged(Word, w, mStack, j, word)
    BY <2>2, <2>3, <2>4, ChangedIs
  <2> QED BY <1>3, <2>2, <2>5
<1>7. SlotSet(rest, mAt, mStack, w, y, k, other, mCatches)
  BY <1>1, <1>4, <1>6, SlotStands DEF Slots
<1>8. mCatches' = Catches(w)
  <2>1. /\ Catches(w) \in Nat /\ mCatches \in Nat
        /\ Catches(w) + (IF Slots[y] # "val" THEN 1 ELSE 0) = mCatches + (IF k # "val" THEN 1 ELSE 0)
    BY <1>7 DEF SlotSet, Slots
  <2>2. PICK a \in 0..1 : a = (IF Slots[y] # "val" THEN 1 ELSE 0)
    OBVIOUS
  <2>3. PICK m \in Int, n \in Int : m = mCatches' /\ n = Catches(w)
    BY <2>1
  <2>4. m + a = n + a
    BY <2>1, <2>2, <2>3
  <2>5. m = n
    BY <2>4
  <2> QED BY <2>3, <2>5
<1>9. Stands(rest, <<Framed(other)>> \o rest, Framed(other), w, mCp, Catches(w))
  <2>1. ~mAt.framed => mCp = BackTo(rest)
    OBVIOUS
  <2> QED BY <1>7, <2>1 DEF SlotSet
<1>10. Stands(rest, mCalls', mAt', mStack', mCp', mCatches')
  BY <1>2, <1>3, <1>5, <1>8, <1>9
<1> QED BY <1>10 DEF Carried, Runs


\* What runs is a function of the program, and its catches are counted.
LEMMA RunsTyped ==
    ASSUME MachineInv, Runs
    PROVE  mAt \in Place /\ HeadOK(mAt) /\ mAt.slots \in Seq(SlotKind) /\ mCatches \in Nat
<1>1. PICK rest : Stands(rest, mCalls, mAt, mStack, mCp, mCatches)
  BY DEF MachineInv, Runs
<1>2. PICK at \in Address : at = mAt /\ Joins(mCalls, at, rest) /\ rest \in Seq(Address)
  BY <1>1 DEF Stands, Place
<1>3. Pushed(mCalls, at, rest) /\ mCalls \in Seq(Address)
  BY <1>1, <1>2, LayoutPush, StandsCalls
<1>4. mStack \in Seq(Word) /\ mCatches = Catches(mStack)
  BY <1>1, <1>2, <1>3, LayoutType DEF Stands, Pushed
<1>5. mCatches \in Nat
  BY <1>4, CountType DEF Catches
<1> QED BY <1>1, <1>2, <1>5 DEF Stands, Address, SlotKind

\* The label of a try that is set up.
Label(d, other, y) == [d EXCEPT !.slots = other, !.handler = y]

LEMMA LabelIs ==
    ASSUME NEW d \in Address, d.framed, NEW other \in Seq(SlotKind), NEW y \in Nat, NEW to, to = Label(d, other, y)
    PROVE  to = [framed |-> TRUE, handler |-> y, slots |-> other]
<1>0. to = [d EXCEPT !.slots = other, !.handler = y]
  BY DEF Label
<1>1. PICK r : r = [d EXCEPT !.slots = other]
  OBVIOUS
<1>2. r \in Address /\ r.framed = d.framed /\ r.slots = other
  BY <1>1 DEF Address, SlotKind
<1>3. to = [r EXCEPT !.handler = y]
  BY <1>0, <1>1
<1>4. to = Resumed(r, y)
  BY <1>2, <1>3, ResumedIs
<1> QED BY <1>2, <1>4 DEF Resumed

LEMMA ProtectKept == ASSUME MachineInv, NEW y \in 1..MaxFrame, NEW kind \in {"try", "catch"}, Protect(y, kind) PROVE Carried
<1>1. Runs /\ mAt.framed /\ y <= Len(Slots) /\ \A z \in 1..y : Slots[z] = "val"
  BY DEF Protect
<1>2. Slots \in Seq(SlotKind) /\ mCatches \in Nat /\ mAt \in Address
  BY <1>1, RunsTyped DEF Slots, Place
<1>3. y \in 1..Len(Slots) /\ y \in Nat
  BY <1>1, <1>2, LenProperties
<1>4. Slots[y] = "val" /\ ValuesBelow(Slots, y)
  BY <1>1, <1>3 DEF ValuesBelow
<1>5. PICK other : other = WithSlot(y, kind)
  OBVIOUS
<1>6. IsChanged(SlotKind, other, Slots, y, kind)
  BY <1>2, <1>3, <1>5, ChangedIs DEF WithSlot, SlotKind
<1>7. other \in Seq(SlotKind) /\ y \in 1..Len(other) /\ other[y] = kind /\ ValuesBelow(other, y)
  <2>1. other \in Seq(SlotKind) /\ Len(other) = Len(Slots) /\ \A z \in 1..Len(Slots) : other[z] = IF z = y THEN kind ELSE Slots[z]
    BY <1>6 DEF IsChanged
  <2>2. \A z \in 1..(y - 1) : z \in 1..Len(Slots) /\ z # y /\ z \in 1..y
    BY <1>3
  <2>3. \A z \in 1..(y - 1) : other[z] = "val"
    BY <1>1, <2>1, <2>2
  <2> QED BY <1>3, <2>1, <2>3 DEF ValuesBelow
<1>8. PICK to : to = [mAt EXCEPT !.slots = other, !.handler = y]
  OBVIOUS
<1>9. to = [framed |-> TRUE, handler |-> y, slots |-> other]
  <2>1. to = Label(mAt, other, y)
    BY <1>8 DEF Label
  <2>2. mAt \in Address /\ mAt.framed /\ other \in Seq(SlotKind) /\ y \in Nat
    BY <1>1, <1>2, <1>3, <1>7
  <2> QED BY <2>1, <2>2, LabelIs
<1>10. Register(other, y) = Cell(kind, to)
  <2>1. Register(other, y) = Cell(other[y], [framed |-> TRUE, handler |-> y, slots |-> other])
    BY <1>7, RegisterFirst
  <2> QED BY <1>7, <1>9, <2>1
<1>11. PICK word : word = Cell(kind, to)
  OBVIOUS
<1>12. /\ mStack' = SetY(y, word) /\ mAt' = Framed(WithSlot(y, kind)) /\ mCalls' = <<mAt'>> \o Tail(mCalls)
       /\ UNCHANGED <<mCp, mPhase, mSpoilt>> /\ mCatches' = mCatches + 1
  BY <1>5, <1>8, <1>11 DEF Protect
<1>13. word = Register(WithSlot(y, kind), y)
  BY <1>5, <1>10, <1>11
<1>14. mCatches' + (IF Slots[y] # "val" THEN 1 ELSE 0) = mCatches + (IF kind # "val" THEN 1 ELSE 0) /\ mCatches' \in Int
  BY <1>2, <1>4, <1>12
<1>15. kind \in SlotKind
  BY DEF SlotKind
<1> QED BY <1>1, <1>3, <1>4, <1>12, <1>13, <1>14, <1>15, SlotKept

LEMMA UnprotectKept ==
    ASSUME MachineInv, Runs, NEW y \in 1..Len(Slots), mAt.framed, Slots[y] # "val", ValuesBelow(Slots, y), Unprotect(y)
    PROVE  Carried
<1>1. Slots \in Seq(SlotKind) /\ mCatches \in Nat
  BY RunsTyped DEF Slots
<1>2. PICK other : other = WithSlot(y, "val")
  OBVIOUS
<1>3. "val" \in SlotKind
  BY DEF SlotKind
<1>4. IsChanged(SlotKind, other, Slots, y, "val")
  BY <1>1, <1>2, <1>3, ChangedIs DEF WithSlot
<1>5. Register(other, y) = Val
  BY <1>4 DEF IsChanged, Register
<1>6. /\ mStack' = SetY(y, Val) /\ mAt' = Framed(WithSlot(y, "val")) /\ mCalls' = <<mAt'>> \o Tail(mCalls)
      /\ UNCHANGED <<mCp, mPhase, mSpoilt>> /\ mCatches' = mCatches - 1
  BY DEF Unprotect
<1>7. Val = Register(WithSlot(y, "val"), y)
  BY <1>2, <1>5
<1>8. mCatches' + (IF Slots[y] # "val" THEN 1 ELSE 0) = mCatches + (IF "val" # "val" THEN 1 ELSE 0) /\ mCatches' \in Int
  BY <1>1, <1>6
<1> QED BY <1>3, <1>6, <1>7, <1>8, SlotKept

LEMMA EndsKept == ASSUME MachineInv, NEW y \in 1..MaxFrame, EndTry(y) \/ CaseTry(y) \/ CatchEnd(y) PROVE Carried
<1>0. Runs /\ Unprotect(y)
  BY DEF EndTry, CaseTry, CatchEnd
<1>1. mAt \in Place /\ HeadOK(mAt) /\ Slots \in Seq(SlotKind)
  BY <1>0, RunsTyped DEF Slots
<1>2. Len(Slots) \in Nat
  BY <1>1, LenProperties
<1>3. CASE EndTry(y) \/ CatchEnd(y)
  <2>1. mAt.framed /\ y \in 1..Len(Slots) /\ Slots[y] # "val" /\ ValuesBelow(Slots, y)
    BY <1>2, <1>3 DEF EndTry, CatchEnd, ValuesBelow
  <2> QED BY <1>0, <2>1, UnprotectKept
<1>4. CASE CaseTry(y)
  <2>1. mAt.handler = y /\ y # 0
    BY <1>4 DEF CaseTry
  <2>2. y \in 1..Len(Slots) /\ Slots[y] # "val" /\ ValuesBelow(Slots, y)
    BY <1>1, <2>1 DEF HeadOK, Slots, ValuesBelow
  <2>3. mAt.framed
    BY <1>1, <2>1 DEF Place, Leaf
  <2> QED BY <1>0, <2>2, <2>3, UnprotectKept
<1> QED BY <1>3, <1>4

LEMMA MachineInvNext == MachineInv /\ [MachineNext]_mVars => MachineInv'
<1> SUFFICES ASSUME MachineInv, [MachineNext]_mVars PROVE MachineInv'
  OBVIOUS
<1>1. CASE UNCHANGED mVars
  <2>1. MachineInv' <=> MachineInv
    BY <1>1 DEF mVars, MachineInv, NothingEscapes
  <2> QED BY <2>1
<1>2. CASE \E n \in 0..MaxFrame : Allocate(n) \/ Trim(n)
  <2>1. PICK n \in Nat : Allocate(n) \/ Trim(n)
    BY <1>2
  <2> QED BY <2>1, AllocateKept, TrimKept, CarriedInv
<1>3. CASE Bif \/ Call \/ CallExt \/ CallFun \/ ApplyOp \/ CallOnly \/ NoClause \/ Throw
  BY <1>3, CallsKept, CarriedInv
<1>4. CASE Deallocate \/ CallLast
  BY <1>4, DeallocateKept, CarriedInv
<1>5. CASE ApplyLast
  BY <1>5, ApplyLastKept, CarriedInv
<1>6. CASE ReturnOp \/ \E fails \in BOOLEAN : NativeTail(fails)
  BY <1>6, ReturnsKept, CarriedInv
<1>7. CASE Unwind
  BY <1>7, UnwindKept
<1>8. CASE \E y \in 1..MaxFrame :
              EndTry(y) \/ CaseTry(y) \/ CatchEnd(y) \/ \E kind \in {"try", "catch"} : Protect(y, kind)
  BY <1>8, EndsKept, ProtectKept, CarriedInv
<1> QED BY <1>1, <1>2, <1>3, <1>4, <1>5, <1>6, <1>7, <1>8 DEF MachineNext

LEMMA MachineFramesSound == MachineInv => FramesSound
<1> SUFFICES ASSUME MachineInv PROVE StackIsCalls /\ CatchesCounted /\ NothingEscapes
  BY DEF FramesSound
<1>1. ASSUME ~mSpoilt
      PROVE  /\ mStack = Layout(mCalls) /\ mAt = Head(mCalls) /\ mCatches = Len(Only(mStack, CatchCells))
             /\ ~mAt.framed => mCp = IF Len(mCalls) = 1 THEN Null ELSE mCalls[2]
  <2>1. PICK rest : Stands(rest, mCalls, mAt, mStack, mCp, mCatches)
    BY <1>1 DEF MachineInv
  <2>2. PICK at \in Address : at = mAt /\ Joins(mCalls, at, rest) /\ rest \in Seq(Address)
    BY <2>1 DEF Stands, Place
  <2>3. Pushed(mCalls, at, rest)
    BY <2>2, LayoutPush
  <2>4. mStack = Layout(mCalls) /\ mCatches = Len(Only(mStack, CatchCells))
    BY <2>1, <2>2, <2>3 DEF Pushed, Stands, Catches, Count
  <2>5. Head(mCalls) = mAt /\ Len(mCalls) = Len(rest) + 1 /\ \A i \in 1..Len(rest) : mCalls[i + 1] = rest[i]
    BY <2>1, StandsCalls
  <2>6. BackTo(rest) = IF Len(mCalls) = 1 THEN Null ELSE mCalls[2]
    <3>1. Len(rest) \in Nat /\ (rest = << >> <=> Len(rest) = 0)
      BY <2>2, LenProperties, EmptySeq
    <3>2. CASE rest = << >>
      BY <2>5, <3>1, <3>2 DEF BackTo
    <3>3. CASE rest # << >>
      <4>1. 1 \in 1..Len(rest) /\ Len(mCalls) # 1
        BY <2>5, <3>1, <3>3
      <4>2. mCalls[2] = rest[1] /\ Head(rest) = rest[1]
        BY <2>2, <2>5, <3>3, <4>1, HeadTailProperties
      <4> QED BY <3>3, <4>1, <4>2 DEF BackTo
    <3> QED BY <3>2, <3>3
  <2> QED BY <2>1, <2>4, <2>5, <2>6 DEF Stands
<1> QED BY <1>1 DEF MachineInv, StackIsCalls, CatchesCounted

MachineSpec == MachineInit /\ [][MachineNext]_mVars

(***************************************************************************)
(* After any mixture of calls, tail calls, returns, trims, catches and     *)
(* exceptions the stack holds one frame per waiting function, each with    *)
(* the address its caller resumes at, num_catches counts the catch words,  *)
(* no assertion of stack_deallocate fails, and no exception ends a process *)
(* that stands in a try (emulator/heap/heap_incremental.rs, op_memory.rs,  *)
(* op_execution.rs, op_try_catch.rs).                                      *)
(***************************************************************************)
THEOREM FramesAreSound == MachineSpec => []FramesSound
  BY MachineInvInit, MachineInvNext, MachineFramesSound, PTL DEF MachineSpec
=============================================================================

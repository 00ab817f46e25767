------------------------------- MODULE BeamMaps -------------------------------
(***************************************************************************)
(* The maps of the BEAM emulator: the flat map of term/boxed/map.rs, the   *)
(* functions of the maps module (native_fun/maps/ops.rs) and the map       *)
(* opcodes (beam/opcodes/op_map.rs), applied to one map after another.     *)
(* Keys are small integers, which cmp_terms orders as numbers.  A map is   *)
(* reserved one word too little (Map::storage_size counts the box header,  *)
(* not struct Map): the value of its last pair lies beyond its words, and  *)
(* what the process allocates next on its heap is written over it.         *)
(***************************************************************************)
EXTENDS Naturals, Sequences, SequencesExt

CONSTANTS
    MaxKey,    \* keys are 1..MaxKey
    MaxValue,  \* values are 1..MaxValue
    MaxPairs   \* pairs of the map that is operated on
ASSUME BeamMapsAssumption == MaxKey \in Nat /\ MaxValue \in Nat /\ MaxPairs \in Nat

MapKey == 1..MaxKey
MapValue == 1..MaxValue
NoValue == 0
Junk == MaxValue + 1   \* a word that a later allocation has written
Pair == [k : MapKey, v : MapValue]

VARIABLES
    pMap,     \* the pairs of the map, in the order they are stored
    pRoom,    \* the pairs it was reserved for
    pMeant,   \* history: the keys of the map, as the functions are documented
    pPut,     \* history: the pairs put into it whose key has been in it ever since
    pRegs,    \* destination registers of get_map_elements
    pTaken,   \* history: did the last get_map_elements fall through (not jump)
    pPhase    \* "run", "badkey": the last operation raised, "hung": a search does not end,
              \* "undefined": the keys of pairs beyond the room are overwritten; the model ends
pVars == <<pMap, pRoom, pMeant, pPut, pRegs, pTaken, pPhase>>

-----------------------------------------------------------------------------
(* The flat map.                                                           *)

Outcome(kind, pos) == [kind |-> kind, pos |-> pos]

\* get_flatmap: positions count from 0; the loop of a range that does not shrink has no end.
RECURSIVE FlatSearch(_, _, _, _)
FlatSearch(pairs, key, a, b) ==
    LET median == a + ((b - a) \div 2)
        k == pairs[median + 1].k
    IN  IF k = key THEN Outcome("FoundAt", median)
        ELSE IF k < key
             THEN IF a = b THEN Outcome("ClosestLarger", a + 1) ELSE FlatSearch(pairs, key, a, median)
             ELSE IF a = b THEN Outcome("ClosestLarger", a)
                  ELSE IF median = a THEN Outcome("Hangs", a) ELSE FlatSearch(pairs, key, median, b)

GetFlatmap(pairs, key) ==
    IF pairs = << >> THEN Outcome("ClosestLarger", 0) ELSE FlatSearch(pairs, key, 0, Len(pairs) - 1)

Hung == <<[k |-> NoValue, v |-> NoValue]>>
IsHung(pairs) == pairs = Hung

\* Faulty variant: the pairs after the place of a new key are not moved on.
MapAddUnshifted(pairs, p) ==
    IF IsHung(pairs) THEN Hung
    ELSE LET at == GetFlatmap(pairs, p.k) IN
         IF at.kind = "Hangs" THEN Hung
         ELSE IF at.pos < Len(pairs) THEN [pairs EXCEPT ![at.pos + 1] = p] ELSE Append(pairs, p)
\* Map::add: a key that is found is overwritten, another inserted where the search ended.
MapAdd(pairs, p) ==
    IF IsHung(pairs) THEN Hung
    ELSE LET at == GetFlatmap(pairs, p.k) IN
         CASE at.kind = "FoundAt" -> [pairs EXCEPT ![at.pos + 1] = p]
           [] at.kind = "ClosestLarger" -> InsertAt(pairs, at.pos + 1, p)
           [] at.kind = "Hangs" -> Hung
AddAll(pairs, more) == FoldLeft(MapAdd, pairs, more)

\* Map::get: what the search found, and the value.
ValueAt(pairs, key) == pairs[GetFlatmap(pairs, key).pos + 1].v
Finds(pairs, key) == GetFlatmap(pairs, key).kind = "FoundAt"
Hangs(pairs, key) == GetFlatmap(pairs, key).kind = "Hangs"

-----------------------------------------------------------------------------
(* Operations.  An operation in which a search does not end never returns. *)

\* What the pairs are once something was allocated after them.
Overwritten(pairs, room) == [i \in 1..Len(pairs) |-> IF i = room THEN [pairs[i] EXCEPT !.v = Junk] ELSE pairs[i]]
\* create_into comes before the pairs of the source are read.
Source == Overwritten(pMap, pRoom)
KeysOf(pairs) == {pairs[i].k : i \in 1..Len(pairs)}

Stays(phase) == pPhase' = phase /\ UNCHANGED <<pMap, pRoom, pMeant, pPut, pRegs, pTaken>>
\* The code between two operations uses the registers for other things.
FreeRegs == <<NoValue, NoValue>>
Becomes(pairs, room, meant, put) ==
    /\ pMap' = pairs /\ pRoom' = room /\ pMeant' = meant
    /\ pPut' = {p \in put : p.k \in KeysOf(pairs)}
    /\ pPhase' = "run" /\ pRegs' = FreeRegs /\ pTaken' = FALSE
\* An operation that allocates a map of so many pairs and copies.
Builds(pairs, room, meant, put) ==
    IF Len(pMap) > pRoom THEN Stays("undefined")
    ELSE IF IsHung(pairs) THEN Stays("hung") ELSE Becomes(pairs, room, meant, put)

\* The process allocates something else.
HeapAlloc == IF Len(pMap) > pRoom THEN Stays("undefined") ELSE Becomes(Source, pRoom, pMeant, pPut)

Lists == UNION {[1..n -> Pair] : n \in 0..2}

\* maps:put/3: is_some of the key, then all pairs and the new one into a new map.
MapsPut(p) ==
    LET count == IF Finds(pMap, p.k) THEN Len(pMap) ELSE Len(pMap) + 1 IN
    IF Hangs(pMap, p.k) THEN Stays("hung")
    ELSE Builds(AddAll(<< >>, Append(Source, p)), count, pMeant \cup {p.k}, pPut \cup {p})

\* maps:remove/2: nothing changes if the key is not found; otherwise all other pairs are copied.
MapsRemove(key) ==
    LET meant == pMeant \ {key} IN
    IF Hangs(pMap, key) THEN Stays("hung")
    ELSE IF ~Finds(pMap, key) THEN Becomes(pMap, pRoom, meant, pPut)
    ELSE Builds(AddAll(<< >>, SelectSeq(Source, LAMBDA p : p.k # key)), Len(pMap) - 1, meant, pPut)

\* maps:from_list/1 and maps:new/0.
MapsFromList(pairs) == Becomes(AddAll(<< >>, pairs), Len(pairs), KeysOf(pairs), ToSet(pairs))

\* maps:merge/2 with a map of at most two pairs, whose values go before.
MapsMerge(pairs) ==
    LET other == AddAll(<< >>, pairs) IN
    IF pMap = << >> THEN MapsFromList(pairs)
    ELSE IF other = << >> THEN Becomes(pMap, pRoom, pMeant, pPut)
    ELSE Builds(AddAll(AddAll(<< >>, Source), Overwritten(other, Len(pairs))), Len(pMap) + Len(other),
                pMeant \cup KeysOf(pairs), pPut \cup ToSet(pairs))

PutMapAssoc(pairs) ==
    Builds(AddAll(<< >>, Source \o pairs), Len(pMap) + Len(pairs), pMeant \cup KeysOf(pairs), pPut \cup ToSet(pairs))

\* put_map_exact: every key is looked for before anything is built.
PutMapExact(pairs) ==
    LET hang == \E i \in 1..Len(pairs) :
                   Hangs(pMap, pairs[i].k) /\ \A j \in 1..(i - 1) : Finds(pMap, pairs[j].k)
        all == \A i \in 1..Len(pairs) : Finds(pMap, pairs[i].k)
    IN  \/ hang /\ Stays("hung")
        \/ ~hang /\ ~all /\ Stays("badkey")
        \/ all /\ Builds(AddAll(<< >>, Source \o pairs), Len(pMap), pMeant \cup KeysOf(pairs), pPut \cup ToSet(pairs))

\* get_map_elements: a pass that looks for every key, and a pass that stores; it jumps if a
\* key is missing.  has_map_fields is the first pass alone.
GetMapElements(keys) ==
    LET hang == \E i \in 1..Len(keys) :
                   Hangs(pMap, keys[i]) /\ \A j \in 1..(i - 1) : Finds(pMap, keys[j])
        all == pMap # << >> /\ \A i \in 1..Len(keys) : Finds(pMap, keys[i])
    IN  \/ hang /\ Stays("hung")
        \/ /\ ~hang
           /\ pRegs' = (IF all THEN [i \in 1..Len(pRegs) |-> ValueAt(pMap, keys[i])] ELSE pRegs)
           /\ pTaken' = all
           /\ pPhase' = "run" /\ UNCHANGED <<pMap, pRoom, pMeant, pPut>>

\* maps:get, find, is_key and has_map_fields: a value, none, or no end.
MapsGet(key) == Hangs(pMap, key) /\ Stays("hung")

MapsInit ==
    /\ pMap = << >> /\ pRoom = 0 /\ pMeant = {} /\ pPut = {} /\ pRegs = FreeRegs
    /\ pTaken = FALSE /\ pPhase = "run"

MapsNext ==
    /\ pPhase \notin {"hung", "undefined"}
    /\ \/ HeapAlloc
       \/ \E p \in Pair : (Finds(pMap, p.k) \/ Len(pMap) < MaxPairs) /\ MapsPut(p)
       \/ \E key \in MapKey : MapsRemove(key) \/ MapsGet(key)
       \/ \E pairs \in Lists :
             \/ Len(pMap) + Len(pairs) <= MaxPairs /\ MapsMerge(pairs)
             \/ MapsFromList(pairs)
       \/ \E pairs \in Lists \ {<< >>} :
             \/ Len(pMap) + Len(pairs) <= MaxPairs /\ PutMapAssoc(pairs)
             \/ PutMapExact(pairs)
       \/ \E keys \in MapKey \X MapKey : GetMapElements(keys)

-----------------------------------------------------------------------------
Usable == pPhase \notin {"hung", "undefined"}

(***************************************************************************)
(* No key is lost and no value moved to another key: every key put and not *)
(* removed is among the pairs, and every value is one put under its key or *)
(* the word of a later allocation, even where a search went astray,        *)
(* however maps were copied, merged and updated on the way (Map::add moves *)
(* the pairs after the place it takes).                                    *)
(***************************************************************************)
PairsKept ==
    Usable => /\ pMeant \subseteq KeysOf(pMap)
              /\ \A p \in ToSet(pMap) : p.v = Junk \/ p \in pPut

(***************************************************************************)
(* A match that fails stores nothing ("we need to not partially store",    *)
(* get_map_elements); one that succeeds stores in every register a value   *)
(* put under the key it names, or the word of a later allocation.          *)
(***************************************************************************)
MatchAllOrNothingStep ==
    pRegs' \notin {pRegs, FreeRegs} =>
        /\ pTaken'
        /\ \E keys \in MapKey \X MapKey : \A i \in 1..Len(pRegs) :
              /\ Finds(pMap, keys[i])
              /\ pRegs'[i] = Junk \/ [k |-> keys[i], v |-> pRegs'[i]] \in pPut

(***************************************************************************)
(* Until a map holds more pairs than it was reserved for, maps keep their  *)
(* keys and values but for the last one of a full map, and a match of      *)
(* several keys reads all of them or none.                                 *)
(***************************************************************************)
MapsKept == [][PairsKept' /\ MatchAllOrNothingStep]_pVars

KeysSorted(pairs) == \A i, j \in 1..Len(pairs) : i < j => pairs[i].k < pairs[j].k

(***************************************************************************)
(* "The key is less than median, step left" (get_flatmap): the search of a *)
(* sorted map finds the keys it holds.                                     *)
(***************************************************************************)
SortedMapIsSearched ==
    Usable /\ KeysSorted(pMap) => \A key \in KeysOf(pMap) : Finds(pMap, key)
=============================================================================

--------------------------------- MODULE Ets ---------------------------------
(***************************************************************************)
(* Tables in memory (agent_rt/ets.rs): one registry of tables with an      *)
(* owner, an heir and an access type.  The registry is used by one thread  *)
(* at a time; what is hard is who owns a table after deaths.               *)
(***************************************************************************)
EXTENDS Naturals, FiniteSets, TableAccess

CONSTANTS
    EPid,           \* processes
    EKey, EValue,   \* keys and values
    MaxTables,      \* max_tables
    MaxTableSize,   \* max_entries_per_table
    MaxTableId      \* bound: tables ever created

ASSUME EtsAssumption ==
    MaxTables \in Nat /\ MaxTableSize \in Nat /\ MaxTableId \in Nat

VARIABLES
    eTables,    \* tables, by TableId
    eNextId,    \* NEXT_TABLE_ID
    eDead,      \* processes whose death was handled
    eLate       \* history: tables inherited by a process dead already

eVars == <<eTables, eNextId, eDead, eLate>>

NoHeir == "none"
EtsAlive == EPid \ eDead

EtsInit ==
    /\ eTables = << >> /\ eNextId = 1 /\ eDead = {} /\ eLate = {}

Changed(id, data) == [eTables EXCEPT ![id].data = data]

EtsCreate(access, owner, heir) ==
    /\ Cardinality(DOMAIN eTables) < MaxTables /\ eNextId <= MaxTableId
    /\ eNextId' = eNextId + 1
    /\ eTables' = [t \in DOMAIN eTables \union {eNextId} |->
                     IF t \in DOMAIN eTables THEN eTables[t]
                     ELSE [access |-> access, owner |-> owner, heir |-> heir, data |-> << >>]]
    /\ UNCHANGED <<eDead, eLate>>

EtsDestroy(id, caller) ==
    /\ eTables[id].owner = caller
    /\ eTables' = [t \in DOMAIN eTables \ {id} |-> eTables[t]]
    /\ UNCHANGED <<eNextId, eDead, eLate>>

EtsPut(id, k, v, caller) ==
    LET t == eTables[id]
    IN  /\ MayWrite(t, caller)
        /\ k \in DOMAIN t.data \/ Cardinality(DOMAIN t.data) < MaxTableSize
        /\ eTables' = Changed(id, [x \in DOMAIN t.data \union {k} |->
                                     IF x = k THEN v ELSE t.data[x]])
        /\ UNCHANGED <<eNextId, eDead, eLate>>

EtsDeleteKey(id, k, caller) ==
    LET t == eTables[id]
    IN  /\ MayWrite(t, caller)
        /\ eTables' = Changed(id, [x \in DOMAIN t.data \ {k} |-> t.data[x]])
        /\ UNCHANGED <<eNextId, eDead, eLate>>

\* get(), keys(), scan(), filter() and count() select from this.
EtsEntries(id, caller) == IF MayRead(eTables[id], caller) THEN eTables[id].data ELSE << >>

Inherited(t) == [t EXCEPT !.owner = t.heir, !.heir = NoHeir]

\* handle_process_death
EtsDeath(p) ==
    LET own == {id \in DOMAIN eTables : eTables[id].owner = p}
        orphans == {id \in own : eTables[id].heir = NoHeir}
    IN  /\ eDead' = eDead \union {p}
        /\ eTables' = [id \in DOMAIN eTables \ orphans |->
                         IF id \in own THEN Inherited(eTables[id]) ELSE eTables[id]]
        /\ eLate' = eLate \union {id \in own \ orphans : eTables[id].heir \in eDead \union {p}}
        /\ UNCHANGED eNextId

EtsNext ==
    \/ \E p \in EtsAlive :
          \/ \E access \in AccessType, heir \in EPid \union {NoHeir} : EtsCreate(access, p, heir)
          \/ \E id \in DOMAIN eTables :
                \/ EtsDestroy(id, p)
                \/ \E k \in EKey : EtsDeleteKey(id, k, p) \/ \E v \in EValue : EtsPut(id, k, v, p)
          \/ EtsDeath(p)

-----------------------------------------------------------------------------
(***************************************************************************)
(* handle_process_death() leaves no table to the dead, save those whose    *)
(* heir was dead before it inherited: every other table has an owner alive *)
(* who reads it, a table with a dead owner has no heir left, and an heir   *)
(* that is named is named by a living owner, so a table is inherited at    *)
(* most once.  The limits hold.                                            *)
(***************************************************************************)
TablesHaveOwners ==
    /\ \A id \in DOMAIN eTables :
          LET t == eTables[id]
          IN  /\ t.owner \in eDead => id \in eLate
              /\ id \notin eLate => \E p \in EtsAlive : EtsEntries(id, p) = t.data
              /\ t.heir # NoHeir => t.owner \notin eDead
              /\ Cardinality(DOMAIN t.data) <= MaxTableSize
    /\ Cardinality(DOMAIN eTables) <= MaxTables
=============================================================================

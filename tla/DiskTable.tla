------------------------------ MODULE DiskTable ------------------------------
(***************************************************************************)
(* What a DETS table promises about the disk, without its files.  contents *)
(* is the table a restart would find.  An operation is first asked for and *)
(* then takes effect, all of it at once, or is dropped by a crash.         *)
(* The promise ends with the first failed write, a call after close() or a *)
(* put of null, which the log cannot tell from no value, and is renewed by *)
(* the next open().                                                        *)
(***************************************************************************)
EXTENDS Sequences

VARIABLES
    contents,   \* key -> value, for the keys in the table
    asked,      \* the operation not in effect yet, if any: << >> or <<op>>
    healthy     \* no call has failed since open()

dtVars == <<contents, asked, healthy>>

\* An operation is [key, put, value]: a put, or the deletion of the key.
DtApply(table, op) ==
    IF op.put
    THEN [k \in DOMAIN table \union {op.key} |-> IF k = op.key THEN op.value ELSE table[k]]
    ELSE [k \in DOMAIN table \ {op.key} |-> table[k]]

DtInit == contents = << >> /\ asked = << >> /\ healthy = TRUE

DtAsk == asked = << >> /\ Len(asked') = 1 /\ UNCHANGED <<contents, healthy>>

DtTakeEffect ==
    /\ asked # << >>
    /\ contents' = DtApply(contents, asked[1]) /\ asked' = << >>
    /\ UNCHANGED healthy

DtRestart == asked' = << >> /\ UNCHANGED contents /\ healthy' = TRUE

DtDrop == asked' = << >> /\ UNCHANGED <<contents, healthy>>

DtFail == healthy' = FALSE /\ UNCHANGED contents

DtNext ==
    \/ DtAsk
    \/ DtTakeEffect \/ DtRestart \/ DtDrop \/ DtFail
    \/ ~healthy

DtSpec == DtInit /\ [][DtNext]_dtVars
=============================================================================

----------------------------- MODULE TableAccess -----------------------------
(***************************************************************************)
(* Who may use a table: AccessType (ets.rs), shared by the tables in       *)
(* memory and on disk.  t is anything with an access and an owner.         *)
(***************************************************************************)
AccessType == {"Public", "Protected", "Private"}

\* check_write_access, check_write
MayWrite(t, caller) == t.access = "Public" \/ caller = t.owner

\* check_read_access, check_read
MayRead(t, caller) == t.access # "Private" \/ caller = t.owner
=============================================================================

--------------------------- MODULE MCSupervision ---------------------------
(* Supervision trees for TLC; each .cfg picks one.                         *)
EXTENDS Supervision

\* One specification of each strategy.
EachStrategy == {
    [strategy |-> "RestForOne", restarts |-> <<"Permanent", "Permanent">>],
    [strategy |-> "OneForAll",  restarts |-> <<"Transient", "Permanent">>],
    [strategy |-> "OneForOne",  restarts |-> <<"Permanent", "Temporary">>]}

\* A single supervised child.
OneChild == {[strategy |-> "OneForOne", restarts |-> <<"Permanent">>]}
=============================================================================

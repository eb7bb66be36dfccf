-------------------------- MODULE MCModuleManager --------------------------
(***************************************************************************)
(* Instances of ModuleManager for TLC: every dependency graph over a small *)
(* set of modules whose lists repeat no module, cyclic graphs included.    *)
(***************************************************************************)
EXTENDS ModuleManager

\* Lists of at most two dependencies.
ShortLists == {<<>>} \cup {<<m>> : m \in Module}
                     \cup {l \in Module \X Module : l[1] # l[2]}
=============================================================================

------------------------------ MODULE MCFinder -------------------------------
(***************************************************************************)
(* A root directory, one below it, and one below that.                     *)
(***************************************************************************)
EXTENDS Finder

MCDirs == {"r", "ra", "rab"}
MCPathOrder == <<"r", "ra", "rab">>
MCParentOf == [d \in MCDirs \ {"r"} |-> IF d = "rab" THEN "ra" ELSE "r"]

\* The tree changes between runs only, in every way.
MCQuietRuns ==
    [excludes |-> {{}, {"ra"}}, threads |-> 2, ignoreNotExist |-> FALSE,
     duringRun |-> {}, betweenRuns |-> Changes, runs |-> 3]

\* Files and permissions change between any two calls of a run too.
MCBusyRuns ==
    [excludes |-> {{}}, threads |-> 2, ignoreNotExist |-> TRUE,
     duringRun |-> {"create", "delete", "chmod"},
     betweenRuns |-> {"create", "mkdir", "remove"}, runs |-> 3]

\* Directories do as well, with a db of one and of two blocks.
MCWildRuns(n) ==
    [excludes |-> {{}}, threads |-> n, ignoreNotExist |-> FALSE,
     duringRun |-> {"create", "mkdir", "remove"}, betweenRuns |-> {"create", "mkdir", "remove"},
     runs |-> 2]

MCWorlds == {MCQuietRuns, MCBusyRuns, MCWildRuns(1), MCWildRuns(2)}

\* Two runs, and little changes: for the failing ReadDir.
MCSteadyRuns ==
    [excludes |-> {{}}, threads |-> 2, ignoreNotExist |-> FALSE,
     duringRun |-> {}, betweenRuns |-> {"create", "mkdir"}, runs |-> 2]

MCSteadyWorlds == {MCSteadyRuns}
=============================================================================

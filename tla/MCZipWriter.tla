----------------------------- MODULE MCZipWriter -----------------------------
(***************************************************************************)
(* An archive with every kind of entry: a directory, a file that fits, one *)
(* that is split into blocks and is larger than the memory capacity, a     *)
(* symlink, and a second file in blocks: as many such files as CPUs.       *)
(***************************************************************************)
EXTENDS ZipWriter

MCEntries == <<
    [kind |-> "dir", blocks |-> 0, size |-> 0],
    [kind |-> "file", blocks |-> 0, size |-> 1],
    [kind |-> "file", blocks |-> 2, size |-> 3],
    [kind |-> "symlink", blocks |-> 0, size |-> 0],
    [kind |-> "file", blocks |-> 2, size |-> 2] >>
=============================================================================

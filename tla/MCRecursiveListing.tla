------------------------ MODULE MCRecursiveListing --------------------------
(***************************************************************************)
(* Instances of RecursiveListing and FileListing for TLC: all trees of N   *)
(* directories, or one directory in detail.                                *)
(***************************************************************************)
EXTENDS RecursiveListing, FileListing

Stat(c, a, m, s) ==
  [ctime |-> c, atime |-> a, mtime |-> m, size |-> s, blocks |-> s + 1, named |-> s < 5]
MCStats == {Stat(1, 3, 2, 0), Stat(2, 2, 3, 2), Stat(3, 2, 2, 5)}
MCOptionSets ==
  {{}, {"a", "r"}, {"S", "a"}, {"S", "t", "r", "A"}, {"t", "A"}, {"t", "c", "l", "a"},
   {"t", "u", "a"}, {"c", "l", "a"}, {"c", "u", "a"}, {"u", "r", "a"}}

\* A tree of which nothing can be read, and a directory that has been listed.
NoTree ==
  /\ parent = [d \in Dirs |-> d - 1] /\ name = [d \in Dirs |-> CHOOSE n \in PlainNames : TRUE]
  /\ access = [d \in Dirs |-> "closed"] /\ showAll = FALSE
  /\ start = Root /\ cwd = Root /\ stack = <<>> /\ out = <<>> /\ pending = {}
  /\ status = "done"
NoDirectory ==
  /\ options = {"l"} /\ entries = <<>> /\ filename = <<>> /\ attr = [f \in Files |-> Gone]
  /\ changes = MaxChanges /\ step = "crashed" /\ i = 1 /\ j = 1 /\ tmp = Gone
  /\ total = 0 /\ printed = <<>>

ListingSpec ==
  /\ (Init /\ NoDirectory) \/ (NoTree /\ FileInit)
  /\ [][(Next /\ UNCHANGED fileVars) \/ (FileNext /\ UNCHANGED vars)]_<<vars, fileVars>>
=============================================================================

-------------------------- MODULE RecursiveListing --------------------------
(***************************************************************************)
(* myls -R: list_dir and list_content_dir of myls/myls.c, which walk a     *)
(* tree of directories by changing into each one, looking the next name up *)
(* in the current directory and coming back with chdir("..").  The state   *)
(* is the C stack and the working directory.  Files, columns and the order *)
(* within a listing are left out: the recursion follows readdir's order.   *)
(* chdir fails where a directory may not be entered, and no result of it   *)
(* is looked at.                                                           *)
(***************************************************************************)
EXTENDS Integers, Sequences, SequencesExt

CONSTANTS
  N,            \* the directories are 1..N and 0, the root
  PlainNames, HiddenNames, DotsNames,  \* names "x", ".x" and "..x"
  FileNames,    \* names that are also given to files that are not directories
  FrameLimit    \* frames of about 1 MB each that the C stack has room for

ASSUME TreeBounds == N \in Nat /\ FrameLimit \in Nat \ {0}

Root == 0
Dirs == 1..N
Names == PlainNames \cup HiddenNames \cup DotsNames
ASSUME SomeNames == FileNames \subseteq Names /\ IsFiniteSet(FileNames)

VARIABLES
  parent, name,  \* the tree, numbered from the top
  start,         \* the global cwd: the working directory main was started in
  access,        \* "open", "noread" (opendir fails), "noexec" (chdir fails) or "closed"
  showAll,       \* options & (OP_a | OP_A)
  cwd,           \* the working directory
  pending,       \* the arguments list_dir has not come to
  stack,         \* a frame of list_content_dir: its _path and the rest of dirRev
  out,           \* the listings: the heading and the directory it was read from
  status         \* "run", "done", "crashed" by the stack's overflow, or "refused"

tree == <<parent, name, start, access, showAll>>
vars == <<tree, cwd, pending, stack, out, status>>

Children(d) == {e \in Dirs : parent[e] = d}
NamesIn(d) == {name[e] : e \in Children(d)}
Up(d) == IF d = Root THEN Root ELSE parent[d]

\* What the permissions of a directory allow; the root has them all.
Searchable(d) == d # Root => access[d] \in {"open", "noread"}
Readable(d) == d # Root => access[d] \in {"open", "noexec"}

\* The directory that a name leads to from the directory d, if there is one.
Lookup(d, n) == {e \in Children(d) : Searchable(d) /\ name[e] = n}

\* The start and all directories above it can be entered.
Reachable == \E S \in SUBSET (0..N) : start \in S /\ \A d \in S : Searchable(d) /\ Up(d) \in S

\* After main has looked at the arguments: with one that it cannot find it lists nothing.
Init ==
  /\ parent \in {p \in [Dirs -> 0..N] : \A d \in Dirs : p[d] < d}
  /\ name \in [Dirs -> Names]
  /\ \A d, e \in Dirs : d # e /\ parent[d] = parent[e] => name[d] # name[e]
  /\ access \in [Dirs -> {"open", "noread", "noexec", "closed"}]
  /\ showAll \in BOOLEAN
  /\ start \in 0..N /\ cwd = start /\ stack = <<>> /\ out = <<>>
  /\ pending = NamesIn(start)
  /\ status \in IF Searchable(start) THEN {"run", "refused"} ELSE {"refused"}

\* The test of the options the wrong way round.
FollowedUnlessAll(n) == n \in PlainNames \/ (n \in HiddenNames /\ ~showAll)

\* The names the recursion does not follow (myls.c:370-376).
Followed(n) == n \in PlainNames \/ (n \in HiddenNames /\ showAll)

\* chdir("..") in the directory d.
Climb(d) == IF Searchable(d) /\ Searchable(Up(d)) THEN Up(d) ELSE d

\* The callee comes back too, before it returns.
BackTwice(depth, d) ==
  IF depth > 0 THEN Climb(Climb(d)) ELSE IF Reachable THEN start ELSE d

\* list_dir does not come back.
BackFromSubOnly(depth, d) == IF depth > 0 THEN Climb(d) ELSE d

\* The caller's chdir after a call: list_dir returns to the start, by its absolute path,
\* a frame of list_content_dir to the parent of wherever the call left it.
Back(depth, d) ==
  IF depth > 0 THEN Climb(d) ELSE IF Reachable THEN start ELSE d

\* The names of d that may be noted in dirRev: S_ISDIR of an lstat in the directory at
\* that.  After a chdir that failed the name may stand for another file there, or the
\* lstat fails and leaves what fstat held.
Noted(d, at) ==
  IF at = d THEN {NamesIn(d)}
  ELSE {noted \in SUBSET (NamesIn(d) \cup FileNames) :
          \A n \in NamesIn(d) : Lookup(at, n) # {} => n \in noted}

\* list_content_dir(n, path): what it does up to its first recursive call.
CannotOpen(n, depth, s) ==
  /\ depth < FrameLimit
  /\ \A d \in Lookup(cwd, n) : ~Readable(d)
  /\ cwd' = Back(depth, cwd)
  /\ stack' = s
  /\ UNCHANGED <<out, status>>

Overflow(depth) ==
  /\ depth = FrameLimit
  /\ status' = "crashed"
  /\ UNCHANGED <<cwd, stack, out>>

List(n, depth, s, path) ==
  /\ depth < FrameLimit
  /\ \E d \in Lookup(cwd, n) :
       /\ Readable(d)
       /\ cwd' = IF Searchable(d) THEN d ELSE cwd
       /\ out' = Append(out, [heading |-> Append(path, n), dir |-> d])
       /\ \E noted \in Noted(d, cwd') :
            \E subs \in SetToSeqs({m \in noted : Followed(m)}) :
              stack' = Append(s, [path |-> Append(path, n), todo |-> subs])
  /\ UNCHANGED status

ListContent(n, depth, s, path) ==
  CannotOpen(n, depth, s) \/ Overflow(depth) \/ List(n, depth, s, path)

\* list_dir, the next argument.
Argument ==
  /\ status = "run" /\ stack = <<>>
  /\ \E a \in pending : pending' = pending \ {a} /\ ListContent(a, 0, stack, <<>>)
  /\ UNCHANGED tree

\* The recursive call for the next sub-directory of the top frame.
Recurse ==
  /\ status = "run" /\ stack # <<>>
  /\ LET top == Last(stack) IN
     /\ top.todo # <<>>
     /\ ListContent(Head(top.todo), Len(stack),
                    Append(Front(stack), [top EXCEPT !.todo = Tail(@)]), top.path)
  /\ UNCHANGED <<tree, pending>>

Return ==
  /\ status = "run" /\ stack # <<>> /\ Last(stack).todo = <<>>
  /\ stack' = Front(stack)
  /\ cwd' = Back(Len(stack) - 1, cwd)
  /\ UNCHANGED <<tree, pending, out, status>>

Exit ==
  /\ status = "run" /\ stack = <<>> /\ pending = {}
  /\ status' = "done"
  /\ UNCHANGED <<tree, cwd, pending, stack, out>>

Terminated == status # "run" /\ UNCHANGED vars

Next == Argument \/ Recurse \/ Return \/ Exit \/ Terminated

Spec == Init /\ [][Next]_vars

-----------------------------------------------------------------------------
\* The path from the start to a directory, or <<>> if it is not below the start.
PathTo(d) ==
  LET path[e \in 0..N] ==
        IF e = Root THEN <<>>
        ELSE IF parent[e] = start THEN <<name[e]>>
        ELSE IF path[parent[e]] = <<>> THEN <<>>
        ELSE Append(path[parent[e]], name[e])
  IN path[d]

\* Everything below an argument can be read, and the start can be come back to.
Accessible(a) ==
  Reachable /\ \A d \in Dirs : PathTo(d) # <<>> /\ Head(PathTo(d)) = a => access[d] = "open"

\* Types; a heading is as long as the stack is deep.
TypeOK ==
  /\ cwd \in 0..N /\ start \in 0..N
  /\ pending \subseteq Names
  /\ stack \in Seq([path : Seq(Names), todo : Seq(Names)])
  /\ \A i \in DOMAIN stack : Len(stack[i].path) = i
  /\ Len(stack) <= FrameLimit
  /\ out \in Seq([heading : Seq(Names), dir : Dirs])
  /\ status \in {"run", "done", "crashed", "refused"}

\* A listing stands under the path of the directory it was read from
\* (myls.c:317, the parameter path is the parent directory, for the output).
ListedUnderItsOwnPath == \A i \in DOMAIN out : out[i].heading = PathTo(out[i].dir)

\* A directory that cannot be read spoils no other argument's listings: the working
\* directory is the start again, whatever was left behind (myls.c:309), as long as the
\* start can be reached by its path.
FaultsStayInTheirArgument == \A i \in DOMAIN out :
  Accessible(Head(out[i].heading)) => out[i].heading = PathTo(out[i].dir)

\* When every argument was found and the start can be come back to, every directory
\* below an argument that could all be read has been listed once at the end, except
\* below hidden names without -a or -A and below names "..x".
EverythingListed == status = "done" => \A d \in Dirs :
  LET p == PathTo(d) IN
  /\ p # <<>> /\ Accessible(Head(p))
  /\ \A i \in 2..Len(p) : p[i] \in PlainNames \cup (IF showAll THEN HiddenNames ELSE {})
  =>
    Cardinality({i \in DOMAIN out : out[i].dir = d /\ out[i].heading = p}) = 1

\* Types, and the recursion is no deeper than the tree, so that it cannot overflow the
\* stack, as long as everything can be read.
DepthOfTheTree == TypeOK /\ ((status = "crashed" \/ Len(stack) > N) => \E d \in Dirs : access[d] # "open")
=============================================================================

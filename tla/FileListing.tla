---------------------------- MODULE FileListing ----------------------------
(***************************************************************************)
(* myls/myls.c: list_file with order, cmp, info and list_single, which     *)
(* read the files' attributes again and again by name, for the total, for  *)
(* every comparison and for every line, while other programs may change or *)
(* remove the files.  strcmp's order of the names is that of the numbers   *)
(* they are; columns and separators are left out.                          *)
(***************************************************************************)
EXTENDS Integers, Sequences, FiniteSetsExt, SequencesExt

CONSTANTS
  Files,         \* the entries of a directory
  HiddenFiles,   \* those whose names begin with "."
  DotFiles,      \* those of them named ".", ".." or "..x"
  DotDotFiles,   \* those of them named "..x"
  Stats,         \* what lstat may give: times, size, blocks, and whether the
                 \* user and the group have names
  OptionSets,    \* the options typed
  IntMax,        \* of the int that cmp returns
  MaxChanges,    \* bound on the changes by other programs
  Gone

\* A directory has the entries "." and ".." at least.
ASSUME FileSets == /\ DotDotFiles \subseteq DotFiles
                   /\ DotFiles \subseteq HiddenFiles /\ HiddenFiles \subseteq Files
                   /\ Files \subseteq Nat /\ IsFiniteSet(Files) /\ Files # {}
ASSUME IntWidth == IntMax \in Nat
ASSUME GoneIsNoStat == Gone \notin Stats
ASSUME StatFields ==
  \A s \in Stats : /\ \A field \in {"ctime", "atime", "mtime", "size", "blocks"} : s[field] \in Int
                   /\ s.named \in BOOLEAN

VARIABLES
  options,
  entries,     \* the directory as readdir gave it
  attr,        \* the attributes of each file now
  changes,
  filename,    \* the array
  step,        \* "total", "order", "info", "done" or "crashed"
  i, j, tmp,   \* of the loops, from 1
  total,
  printed

fileVars == <<options, entries, attr, changes, filename, step, i, j, tmp, total, printed>>

\* The test of list_file (257) and list_single (412).
Shown(f) ==
  f \in HiddenFiles => "a" \in options \/ ("A" \in options /\ f \notin DotFiles)

\* A structure that lstat has not filled holds anything.
Lstat(f) == IF attr[f] = Gone THEN Stats ELSE {attr[f]}

\* The conversion of a difference of times or sizes to int.
ToInt(d) == ((d + IntMax + 1) % (2 * (IntMax + 1))) - (IntMax + 1)

\* -t looked at before -S.
OpTimeFirst ==
  LET time == IF "c" \in options THEN "ctime" ELSE IF "u" \in options THEN "atime" ELSE "mtime"
  IN IF "t" \in options THEN time
     ELSE IF "S" \in options THEN "size"
     ELSE IF "l" \notin options /\ options \cap {"c", "u"} # {} THEN time
     ELSE "name"

\* op of order: the field that is compared, or the name.
Op ==
  LET time == IF "c" \in options THEN "ctime" ELSE IF "u" \in options THEN "atime" ELSE "mtime"
  IN IF "S" \in options THEN "size"
     ELSE IF "t" \in options THEN time
     ELSE IF "l" \notin options /\ options \cap {"c", "u"} # {} THEN time
     ELSE "name"

Cmp(f, g) ==
  IF Op = "name" THEN {f - g} ELSE {ToInt(s[2][Op] - s[1][Op]) : s \in Lstat(f) \X Lstat(g)}

FileInit ==
  /\ options \in OptionSets
  /\ entries \in SetToSeqs(Files) /\ filename = entries
  /\ attr \in [Files -> Stats] /\ changes = 0
  /\ step = "total" /\ i = 1 /\ j = 1 /\ tmp = entries[1]
  /\ total = 0 /\ printed = <<>>

\* Another program writes a file or removes it.
Change ==
  /\ step \notin {"done", "crashed"} /\ changes < MaxChanges /\ changes' = changes + 1
  /\ \E f \in Files, s \in Stats \cup {Gone} : attr[f] # s /\ attr' = [attr EXCEPT ![f] = s]
  /\ UNCHANGED <<options, entries, filename, step, i, j, tmp, total, printed>>

\* order's next turn of the outer loop.
Insert(n) == i' = n /\ j' = n /\ tmp' = filename'[n]

\* One turn of the loop that sums the blocks.
Count ==
  /\ step = "total"
  /\ IF Shown(filename[i]) THEN \E s \in Lstat(filename[i]) : total' = total + s.blocks
     ELSE UNCHANGED total
  /\ IF i < Len(filename) THEN i' = i + 1 /\ UNCHANGED <<step, j, tmp, filename>>
     ELSE IF i = 1 THEN step' = "info" /\ UNCHANGED <<i, j, tmp, filename>>
     ELSE step' = "order" /\ UNCHANGED filename /\ Insert(2)
  /\ UNCHANGED <<options, entries, attr, changes, printed>>

MovesUp(c) == IF "r" \in options THEN c < 0 ELSE c > 0

\* The name goes back where it was taken from.
FillWhereTaken == filename' = [filename EXCEPT ![i] = tmp]
FillHole == filename' = [filename EXCEPT ![j] = tmp]

\* A comparison of order's inner loop and what follows it: the name before the hole
\* moves up, or tmp fills the hole and the next name is taken out.
Compare ==
  /\ step = "order"
  /\ \/ /\ j > 1 /\ \E c \in Cmp(filename[j - 1], tmp) : MovesUp(c)
        /\ filename' = [filename EXCEPT ![j] = filename[j - 1]] /\ j' = j - 1
        /\ UNCHANGED <<step, i, tmp>>
     \/ /\ j > 1 => \E c \in Cmp(filename[j - 1], tmp) : ~MovesUp(c)
        /\ FillHole
        /\ IF i < Len(filename) THEN Insert(i + 1) /\ UNCHANGED step
           ELSE step' = "info" /\ i' = 1 /\ UNCHANGED <<j, tmp>>
  /\ UNCHANGED <<options, entries, attr, changes, total, printed>>

\* The file's user or group is not in the system's lists.
Unnamed(f) == attr[f] # Gone /\ ~attr[f].named

\* list_single: with -l a user or a group without a name, or a time that ctime does not
\* take, is a null pointer that is followed.  A removed file may have any of them.
ListSingle ==
  /\ step = "info"
  /\ LET f == filename[i]
         long == Shown(f) /\ "l" \in options
     IN \/ /\ ~(long /\ Unnamed(f))
           /\ printed' = IF Shown(f) THEN Append(printed, f) ELSE printed
           /\ step' = IF i < Len(filename) THEN step ELSE "done"
           /\ i' = i + 1
        \/ /\ long /\ (attr[f] = Gone \/ Unnamed(f))
           /\ step' = "crashed" /\ UNCHANGED <<i, printed>>
  /\ UNCHANGED <<options, entries, attr, changes, filename, j, tmp, total>>

ListFile == Count \/ Compare \/ ListSingle
FileListed == step \in {"done", "crashed"} /\ UNCHANGED fileVars

FileNext == ListFile \/ Change \/ FileListed
FileSpec == FileInit /\ [][FileNext]_fileVars
-----------------------------------------------------------------------------
\* The names that the comments at OP_a and OP_A (myls.c:34, :35) say are listed.
AskedFor(f) ==
  f \in HiddenFiles => "a" \in options \/ ("A" \in options /\ f \notin DotFiles \ DotDotFiles)

\* Whatever the comparisons answer while the files change, sorting loses and doubles no
\* name: with tmp in the hole the array is the directory.  What is printed is the names
\* that the comments at the options say, each once, but -A leaves out the names "..x",
\* which its comment does not say.  Only -l fails, and only on a file that was removed or
\* whose user or group has no name.
NoneLost ==
  /\ step = "order" =>
       IsInjective([filename EXCEPT ![j] = tmp]) /\ ToSet([filename EXCEPT ![j] = tmp]) = Files
  /\ step = "done" =>
       /\ IsInjective(printed)
       /\ ToSet(printed) = {f \in Files : AskedFor(f) /\ (f \in DotDotFiles => "a" \in options)}
  /\ step = "crashed" => "l" \in options /\ \E f \in Files : attr[f] = Gone \/ Unnamed(f)

\* What the comments at OP_c, OP_S, OP_r, OP_t and OP_u (myls.c:36, :38, :50, :53, :54)
\* say the order is: f is listed before g, entries that are equal in the order of the
\* directory.
Later(f, g, field) == attr[f][field] > attr[g][field]
Precedes(f, g) ==
  LET time == IF "c" \in options THEN "ctime" ELSE IF "u" \in options THEN "atime" ELSE "mtime"
      byTime == "t" \in options \/ ("l" \notin options /\ time # "mtime")
      first(a, b) == IF "S" \in options THEN Later(a, b, "size")
                     ELSE IF byTime THEN Later(a, b, time) ELSE a < b
      readFirst == \E m, n \in DOMAIN entries : m < n /\ entries[m] = f /\ entries[n] = g
  IN IF "r" \in options THEN first(g, f) \/ (~first(f, g) /\ readFirst)
     ELSE first(f, g) \/ (~first(g, f) /\ readFirst)

\* No difference of the field that is compared is cut by the conversion to int.
Fits == Op # "name" => \A f, g \in Files : attr[f][Op] - attr[g][Op] <= IntMax

\* A directory that does not change is listed in the order that the options name, as
\* long as no two sizes or times lie further apart than an int holds, and its total is
\* that of the files listed.
SortedAsAsked == step = "done" /\ changes = 0 =>
  /\ total = MapThenSumSet(LAMBDA f : attr[f].blocks, ToSet(printed))
  /\ Fits => \A m, n \in DOMAIN printed : m < n => Precedes(printed[m], printed[n])
=============================================================================

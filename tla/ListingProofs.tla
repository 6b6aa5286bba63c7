---------------------------- MODULE ListingProofs ---------------------------
(***************************************************************************)
(* Proofs about myls.  First FileListing: the insertion sort, whatever its *)
(* comparisons answer, and what is printed, for any directory and any      *)
(* number of changes to it, and in which order if there are none.  Then    *)
(* RecursiveListing: where the recursion is, what it has listed and how    *)
(* deep it is, for any tree of directories.                                *)
(***************************************************************************)
EXTENDS RecursiveListing, FileListing, SequenceTheorems, FiniteSetTheorems,
        WellFoundedInduction, TLAPS

\* Induction over the numbers, for a set of them.
LEMMA InductionOverNat ==
  ASSUME NEW S,
         \A n \in Nat : (\A m \in Nat : m < n => m \in S) => n \in S
  PROVE  \A n \in Nat : n \in S
<1> DEFINE R == {ss \in Nat \X Nat : ss[1] < ss[2]}
           T == {n \in Nat : n \notin S}
<1>1. IsWellFoundedOn(R, Nat)
  BY NatLessThanWellFounded DEF OpToRel
<1>2. \A y, z \in Nat : y < z => <<y, z>> \in R
  OBVIOUS
<1>3. ASSUME T # {} PROVE FALSE
  <2>1. T \in SUBSET Nat
    OBVIOUS
  <2>2. PICK x \in T : \A y \in T : ~(<<y, x>> \in R)
    <3> HIDE DEF R, T
    <3> QED
      BY <1>1, <1>3, <2>1, WFMin
  <2>3. \A m \in Nat : m < x => m \in S
    <3> SUFFICES ASSUME NEW m \in Nat, m < x, m \notin S PROVE FALSE
      OBVIOUS
    <3>1. m \in T /\ x \in Nat
      OBVIOUS
    <3>2. <<m, x>> \in R
      <4> HIDE DEF R
      <4> QED
        BY <1>2, <3>1
    <3> QED
      BY <2>2, <3>1, <3>2, Zenon
  <2> QED
    BY <2>3
<1> QED
  BY <1>3

-----------------------------------------------------------------------------
\* FileListing.

Length == Cardinality(Files)

\* An arrangement of the directory: every name at one place.
Arrangement(s) ==
  /\ s \in [1..Length -> Files]
  /\ \A a, b \in 1..Length : s[a] = s[b] => a = b
  /\ \A f \in Files : \E a \in 1..Length : s[a] = f

Hole == [filename EXCEPT ![j] = tmp]

\* What is printed before the turn n of the last loop.
PrintedBefore(n) ==
  /\ printed \in Seq(Files)
  /\ \A a, b \in 1..Len(printed) : printed[a] = printed[b] => a = b
  /\ \A a \in 1..Len(printed) :
       Shown(printed[a]) /\ \E k \in 1..Length : k < n /\ printed[a] = filename[k]
  /\ \A k \in 1..Length : k < n /\ Shown(filename[k]) =>
       \E a \in 1..Len(printed) : printed[a] = filename[k]

SortInv ==
  /\ filename \in [1..Length -> Files]
  /\ step \in {"total", "order", "info", "done", "crashed"}
  /\ step # "order" => Arrangement(filename)
  /\ step \in {"total", "order"} => printed = <<>>
  /\ step = "total" => i \in 1..Length
  /\ step = "order" => /\ i \in 2..Length /\ j \in 1..i /\ tmp \in Files
                       /\ Arrangement(Hole)
  /\ step = "info" => i \in 1..Length /\ PrintedBefore(i)
  /\ step = "done" => PrintedBefore(Length + 1)
  /\ step = "crashed" => "l" \in options /\ \E f \in Files : attr[f] = Gone \/ Unnamed(f)

LEMMA LengthType == Length \in Nat /\ 1 \in 1..Length
<1>1. Length \in Nat /\ Length # 0
  BY FileSets, FS_CardinalityType, FS_EmptySet DEF Length
<1> QED
  BY <1>1

\* readdir gives every entry once.
LEMMA InitSortInv == FileInit => SortInv
<1> SUFFICES ASSUME FileInit PROVE SortInv
  OBVIOUS
<1>1. /\ entries \in [1..Length -> Files]
      /\ \A a, b \in 1..Length : entries[a] = entries[b] => a = b
  BY DEF FileInit, SetToSeqs, Length
<1>2. entries \in Injection(1..Length, Files)
  BY <1>1 DEF Injection, IsInjective
<1>3. IsFiniteSet(1..Length) /\ Cardinality(1..Length) = Length
  <2>1. 1 \in Int /\ Length \in Int /\ ~(1 > Length)
    BY LengthType
  <2>2. /\ IsFiniteSet(1..Length)
        /\ Cardinality(1..Length) = IF 1 > Length THEN 0 ELSE Length - 1 + 1
    BY <2>1, FS_Interval
  <2> QED
    BY <2>1, <2>2
<1>4. entries \in Surjection(1..Length, Files)
  BY <1>2, <1>3, FileSets, FS_Injection DEF Length
<1>5. Arrangement(entries)
  BY <1>1, <1>4 DEF Arrangement, Surjection
<1> QED
  BY <1>1, <1>5, LengthType DEF FileInit, SortInv

\* The tail of printed once it has grown.
LEMMA PrintOne ==
  ASSUME Arrangement(filename), i \in 1..Length, PrintedBefore(i), filename' = filename,
         options' = options,
         printed' = IF Shown(filename[i]) THEN Append(printed, filename[i]) ELSE printed
  PROVE  \A n : n = i + 1 => PrintedBefore(n)'
<1> SUFFICES ASSUME NEW n, n = i + 1 PROVE PrintedBefore(n)'
  OBVIOUS
<1> USE LengthType
<1>1. \A f : Shown(f)' = Shown(f)
  BY DEF Shown
<1>2. filename[i] \in Files /\ Len(printed) \in Nat
  BY DEF Arrangement, PrintedBefore
<1>3. CASE ~Shown(filename[i])
  <2>1. \A k \in 1..Length : (k < n /\ k # i => k < i) /\ (k < i => k < n)
    OBVIOUS
  <2> QED
    BY <1>1, <1>3, <2>1 DEF PrintedBefore
<1>4. CASE Shown(filename[i])
  <2>1. /\ printed' \in Seq(Files) /\ Len(printed') = Len(printed) + 1
        /\ printed'[Len(printed) + 1] = filename[i]
        /\ \A a \in 1..Len(printed) : printed'[a] = printed[a]
    BY <1>2, <1>4, AppendProperties DEF PrintedBefore
  <2>2. \A a \in 1..Len(printed') : a \in 1..Len(printed) \/ a = Len(printed) + 1
    BY <1>2, <2>1
  <2>3. \A a \in 1..Len(printed) : printed[a] # filename[i]
    <3> SUFFICES ASSUME NEW a \in 1..Len(printed), printed[a] = filename[i] PROVE FALSE
      OBVIOUS
    <3>1. PICK k \in 1..Length : k < i /\ printed[a] = filename[k]
      BY DEF PrintedBefore
    <3>2. k = i
      BY <3>1 DEF Arrangement
    <3> QED
      BY <3>1, <3>2
  <2>4. \A a, b \in 1..Len(printed') : printed'[a] = printed'[b] => a = b
    BY <2>1, <2>2, <2>3 DEF PrintedBefore
  <2>5. \A a \in 1..Len(printed') :
          Shown(printed'[a]) /\ \E k \in 1..Length : k < n /\ printed'[a] = filename[k]
    BY <1>4, <2>1, <2>2 DEF PrintedBefore
  <2>6. \A k \in 1..Length : k < n /\ Shown(filename[k]) =>
          \E a \in 1..Len(printed') : printed'[a] = filename[k]
    <3>1. Len(printed) + 1 \in 1..Len(printed') /\ 1..Len(printed) \subseteq 1..Len(printed')
      BY <1>2, <2>1
    <3>2. \A k \in 1..Length : k < n => k < i \/ k = i
      OBVIOUS
    <3> QED
      BY <2>1, <3>1, <3>2 DEF PrintedBefore
  <2>7. (\A a \in 1..Len(printed) :
           Shown(printed[a]) /\ \E k \in 1..Length : k < n /\ printed[a] = filename[k])'
    BY <1>1, <2>5
  <2>8. (\A k \in 1..Length : k < n /\ Shown(filename[k]) =>
           \E a \in 1..Len(printed) : printed[a] = filename[k])'
    BY <1>1, <2>6
  <2> QED
    BY <2>1, <2>4, <2>7, <2>8 DEF PrintedBefore
<1> QED
  BY <1>3, <1>4

-----------------------------------------------------------------------------
\* A neighbour that moves up and tmp change places in the arrangement.
LEMMA SwapKeepsArrangement ==
  ASSUME NEW s, Arrangement(s), NEW k \in 2..Length,
         NEW r, r = [[s EXCEPT ![k] = s[k - 1]] EXCEPT ![k - 1] = s[k]]
  PROVE  Arrangement(r)
<1> USE LengthType
<1>1. k \in 1..Length /\ k - 1 \in 1..Length /\ k # k - 1
  OBVIOUS
<1>2. s \in [1..Length -> Files]
  BY DEF Arrangement
<1>3. /\ r \in [1..Length -> Files]
      /\ r[k - 1] = s[k] /\ r[k] = s[k - 1]
      /\ \A a \in 1..Length : a # k /\ a # k - 1 => r[a] = s[a]
  BY <1>1, <1>2
<1> DEFINE h == k - 1
<1>4. h \in 1..Length /\ k \in 1..Length /\ h # k /\ r[h] = s[k] /\ r[k] = s[h]
      /\ \A a \in 1..Length : a # k /\ a # h => r[a] = s[a]
  BY <1>1, <1>3
<1> HIDE DEF h
<1>5. \A a, b \in 1..Length : r[a] = r[b] => a = b
  BY <1>4 DEF Arrangement
<1>6. \A f \in Files : \E a \in 1..Length : r[a] = f
  BY <1>4 DEF Arrangement
<1> QED
  BY <1>3, <1>5, <1>6 DEF Arrangement

\* A comparison and the move after it: nothing depends on what it answers.
LEMMA CompareKeepsSortInv ==
  ASSUME SortInv, Compare
  PROVE  SortInv'
<1> USE LengthType
<1>1. /\ step = "order" /\ i \in 2..Length /\ j \in 1..i /\ tmp \in Files /\ Arrangement(Hole)
      /\ filename \in [1..Length -> Files] /\ printed = <<>> /\ printed' = <<>>
  BY DEF SortInv, Compare
<1>2. Hole \in [1..Length -> Files] /\ j \in 1..Length
  BY <1>1 DEF Hole
<1>3. Len(filename) = Length
  BY <1>1
<1>4. CASE /\ j > 1 /\ filename' = [filename EXCEPT ![j] = filename[j - 1]] /\ j' = j - 1
           /\ UNCHANGED <<step, i, tmp>>
  <2>1. j \in 2..Length /\ j - 1 \in 1..Length
    BY <1>1, <1>2, <1>4
  <2>2. filename' \in [1..Length -> Files]
    BY <1>1, <1>4, <2>1
  <2>3. Hole' = [[Hole EXCEPT ![j] = Hole[j - 1]] EXCEPT ![j - 1] = Hole[j]]
    <3>1. Hole' = [[filename EXCEPT ![j] = filename[j - 1]] EXCEPT ![j - 1] = tmp]
      BY <1>4 DEF Hole
    <3>2. Hole[j] = tmp /\ Hole[j - 1] = filename[j - 1]
      BY <1>1, <2>1 DEF Hole
    <3> DEFINE k == j - 1
    <3>3. k \in 1..Length /\ j \in 1..Length /\ k # j
      BY <2>1
    <3> HIDE DEF k
    <3>4. [[filename EXCEPT ![j] = filename[k]] EXCEPT ![k] = tmp]
            = [[[filename EXCEPT ![j] = tmp] EXCEPT ![j] = filename[k]] EXCEPT ![k] = tmp]
      BY <1>1, <3>3
    <3> QED
      BY <3>1, <3>2, <3>4 DEF Hole, k
  <2>4. \A r : r = Hole' => Arrangement(r)
    BY <1>1, <2>1, <2>3, SwapKeepsArrangement
  <2>5. Arrangement(Hole)'
    BY <2>4 DEF Arrangement
  <2> QED
    BY <1>1, <1>4, <2>1, <2>2, <2>5 DEF SortInv
<1>5. CASE /\ FillHole
           /\ IF i < Len(filename) THEN Insert(i + 1) /\ UNCHANGED step
              ELSE step' = "info" /\ i' = 1 /\ UNCHANGED <<j, tmp>>
  <2>1. filename' = Hole /\ filename' \in [1..Length -> Files]
    BY <1>2, <1>5 DEF FillHole, Hole
  <2>2. Arrangement(filename)'
    BY <1>1, <2>1 DEF Arrangement
  <2>3. CASE i < Len(filename)
    <3>1. i' = i + 1 /\ j' = i + 1 /\ tmp' = filename'[i + 1] /\ step' = "order"
      BY <1>1, <1>5, <2>3 DEF Insert
    <3>2. i' \in 2..Length /\ j' \in 1..i' /\ j' \in 1..Length /\ tmp' \in Files
      BY <1>1, <1>3, <2>1, <2>3, <3>1
    <3>3. Hole' = filename'
      BY <2>1, <3>1, <3>2 DEF Hole
    <3>4. Arrangement(Hole)'
      BY <2>2, <3>3 DEF Arrangement
    <3> QED
      BY <1>1, <2>1, <3>1, <3>2, <3>4 DEF SortInv
  <2>4. CASE ~(i < Len(filename))
    <3>1. step' = "info" /\ i' = 1
      BY <1>5, <2>4
    <3>2. \A n : n = 1 => PrintedBefore(n)'
      BY <1>1 DEF PrintedBefore
    <3>3. PrintedBefore(i)'
      BY <3>1, <3>2 DEF PrintedBefore
    <3> QED
      BY <1>1, <2>1, <2>2, <3>1, <3>3 DEF SortInv
  <2> QED
    BY <2>3, <2>4
<1> QED
  BY <1>4, <1>5 DEF Compare

\* The loop that sums the blocks.
LEMMA CountKeepsSortInv ==
  ASSUME SortInv, Count
  PROVE  SortInv'
<1> USE LengthType
<1>1. /\ step = "total" /\ i \in 1..Length /\ Arrangement(filename) /\ filename' = filename
      /\ filename \in [1..Length -> Files] /\ printed = <<>> /\ printed' = <<>>
  BY DEF SortInv, Count
<1>2. Len(filename) = Length
  BY <1>1
<1>3. Arrangement(filename)'
  BY <1>1 DEF Arrangement
<1>4. CASE i < Len(filename) /\ i' = i + 1 /\ step' = step
  BY <1>1, <1>2, <1>3, <1>4 DEF SortInv
<1>5. CASE i = 1 /\ ~(i < Len(filename)) /\ step' = "info" /\ i' = i
  <2>1. \A n : n = 1 => PrintedBefore(n)'
    BY <1>1 DEF PrintedBefore
  <2>2. PrintedBefore(i)'
    BY <1>5, <2>1 DEF PrintedBefore
  <2> QED
    BY <1>1, <1>3, <1>5, <2>2 DEF SortInv
<1>6. CASE i # 1 /\ ~(i < Len(filename)) /\ step' = "order" /\ Insert(2)
  <2>1. i' = 2 /\ j' = 2 /\ tmp' = filename'[2] /\ 2 \in 1..Length
    BY <1>1, <1>2, <1>6 DEF Insert
  <2>2. Hole' = filename' /\ tmp' \in Files
    BY <1>1, <2>1 DEF Hole
  <2>3. Arrangement(Hole)'
    BY <1>3, <2>2 DEF Arrangement
  <2> QED
    BY <1>1, <1>3, <1>6, <2>1, <2>2, <2>3 DEF SortInv
<1> QED
  BY <1>4, <1>5, <1>6 DEF Count

LEMMA ListSingleKeepsSortInv ==
  ASSUME SortInv, ListSingle
  PROVE  SortInv'
<1> USE LengthType
<1>1. /\ step = "info" /\ i \in 1..Length /\ Arrangement(filename) /\ PrintedBefore(i)
      /\ UNCHANGED <<filename, options, attr>> /\ filename \in [1..Length -> Files]
  BY DEF SortInv, ListSingle
<1>2. Len(filename) = Length
  BY <1>1
<1>3. Arrangement(filename)'
  BY <1>1 DEF Arrangement
<1>4. CASE /\ printed' = IF Shown(filename[i]) THEN Append(printed, filename[i]) ELSE printed
           /\ step' = IF i < Len(filename) THEN step ELSE "done"
           /\ i' = i + 1
  <2>1. \A n : n = i + 1 => PrintedBefore(n)'
    BY <1>1, <1>4, PrintOne
  <2>2. CASE i < Len(filename)
    <3>1. \A n : n = i' => PrintedBefore(n)'
      BY <1>4, <2>1
    <3>2. PrintedBefore(i)'
      BY <3>1 DEF PrintedBefore
    <3> QED
      BY <1>1, <1>2, <1>3, <1>4, <2>2, <3>2 DEF SortInv
  <2>3. CASE ~(i < Len(filename))
    <3>1. i + 1 = Length + 1 /\ step' = "done"
      BY <1>1, <1>2, <1>4, <2>3
    <3>2. PrintedBefore(Length + 1)'
      BY <2>1, <3>1
    <3> QED
      BY <1>1, <1>3, <3>1, <3>2 DEF SortInv
  <2> QED
    BY <2>2, <2>3
<1>5. CASE /\ "l" \in options /\ (attr[filename[i]] = Gone \/ Unnamed(filename[i]))
           /\ step' = "crashed"
  <2>1. filename[i] \in Files /\ attr' = attr /\ \A f : Unnamed(f)' <=> Unnamed(f)
    BY <1>1 DEF Unnamed
  <2>2. "l" \in options' /\ \E f \in Files : attr'[f] = Gone \/ Unnamed(f)'
    BY <1>1, <1>5, <2>1
  <2> QED
    BY <1>1, <1>3, <1>5, <2>2 DEF SortInv
<1> QED
  BY <1>4, <1>5 DEF ListSingle

\* A change by another program touches no name.
LEMMA ChangeKeepsSortInv ==
  ASSUME SortInv, Change
  PROVE  SortInv'
<1>1. /\ UNCHANGED <<options, filename, step, i, j, tmp, printed>> /\ step # "crashed"
  BY DEF Change
<1>2. \A f : Shown(f)' = Shown(f)
  BY <1>1 DEF Shown
<1>3. Arrangement(filename)' = Arrangement(filename) /\ Arrangement(Hole)' = Arrangement(Hole)
  BY <1>1 DEF Arrangement, Hole
<1>4. PrintedBefore(i)' = PrintedBefore(i) /\ PrintedBefore(Length + 1)' = PrintedBefore(Length + 1)
  BY <1>1, <1>2 DEF PrintedBefore
<1> QED
  BY <1>1, <1>3, <1>4 DEF SortInv

LEMMA NextKeepsSortInv == SortInv /\ [FileNext]_fileVars => SortInv'
<1> SUFFICES ASSUME SortInv, [FileNext]_fileVars PROVE SortInv'
  OBVIOUS
<1>1. CASE UNCHANGED fileVars
  BY <1>1 DEF fileVars, SortInv, Arrangement, Hole, PrintedBefore, Shown, Unnamed
<1> QED
  BY <1>1, CountKeepsSortInv, CompareKeepsSortInv, ListSingleKeepsSortInv, ChangeKeepsSortInv
     DEF FileNext, ListFile, FileListed

-----------------------------------------------------------------------------
\* For a directory of any size, any attributes and any number of changes by other
\* programs: order loses and doubles no name, whatever cmp answers, and list_file prints
\* the names that the comments at the options say, each once, but no "..x" with -A, or it
\* follows a null pointer, with -l and for a file that was removed or whose user or group
\* has no name (myls.c:34-35, :209-228, :250-270, :407-440, :543-552).
THEOREM NamesKept == FileSpec => []NoneLost
<1>1. SortInv => NoneLost
  <2> SUFFICES ASSUME SortInv PROVE NoneLost
    OBVIOUS
  <2>1. ASSUME step = "order"
        PROVE  IsInjective(Hole) /\ ToSet(Hole) = Files
    <3>1. Arrangement(Hole)
      BY <2>1 DEF SortInv
    <3>2. DOMAIN Hole = 1..Length
      BY <3>1 DEF Arrangement
    <3> QED
      BY <3>1, <3>2 DEF Arrangement, IsInjective, ToSet
  <2>2. ASSUME step = "done"
        PROVE  /\ IsInjective(printed)
               /\ ToSet(printed) = {f \in Files : AskedFor(f)
                                                 /\ (f \in DotDotFiles => "a" \in options)}
    <3>1. PrintedBefore(Length + 1) /\ Arrangement(filename)
      BY <2>2 DEF SortInv
    <3>2. DOMAIN printed = 1..Len(printed) /\ \A a \in 1..Len(printed) : printed[a] \in Files
      BY <3>1 DEF PrintedBefore
    <3>3. \A k \in 1..Length : k < Length + 1
      BY LengthType
    <3>4. ASSUME NEW f \in Files, Shown(f) PROVE f \in ToSet(printed)
      BY <3>1, <3>2, <3>3, <3>4 DEF PrintedBefore, Arrangement, ToSet
    <3>5. ToSet(printed) \subseteq {f \in Files : Shown(f)}
      BY <3>1, <3>2 DEF PrintedBefore, ToSet
    <3>6. IsInjective(printed)
      BY <3>1, <3>2 DEF PrintedBefore, IsInjective
    <3>7. \A f \in Files : Shown(f) <=> AskedFor(f) /\ (f \in DotDotFiles => "a" \in options)
      BY FileSets DEF Shown, AskedFor
    <3> QED
      BY <3>4, <3>5, <3>6, <3>7
  <2>3. step = "crashed" => "l" \in options /\ \E f \in Files : attr[f] = Gone \/ Unnamed(f)
    BY DEF SortInv
  <2> QED
    BY <2>1, <2>2, <2>3 DEF NoneLost, Hole
<1> QED
  BY <1>1, InitSortInv, NextKeepsSortInv, PTL DEF FileSpec

-----------------------------------------------------------------------------
\* The total of a set of files.
Blocks(a, S) == MapThenSumSet(LAMBDA f : a[f].blocks, S)

\* What MapThenSumSet says of a set T, given what it says of T without one file.
SumStep(a, g, T) == IF T = {} THEN 0
                    ELSE a[CHOOSE x \in T : TRUE].blocks + g[T \ {CHOOSE x \in T : TRUE}]
Sums(a, S) == CHOOSE g : g = [T \in SUBSET S |-> SumStep(a, g, T)]

LEMMA SumsAre ==
  ASSUME NEW a, NEW S, IsFiniteSet(S)
  PROVE  \A T \in SUBSET S : Sums(a, S)[T] = SumStep(a, Sums(a, S), T)
<1> DEFINE Upto(n) == {T \in SUBSET S : Cardinality(T) < n}
           Good == {n \in Nat : \E g : g = [T \in Upto(n) |-> SumStep(a, g, T)]}
<1>1. ASSUME NEW T \in SUBSET S, T # {}
      PROVE  /\ T \ {CHOOSE x \in T : TRUE} \in SUBSET S /\ Cardinality(T) \in Nat
             /\ Cardinality(T \ {CHOOSE x \in T : TRUE}) = Cardinality(T) - 1
  <2> DEFINE x == CHOOSE y \in T : TRUE
  <2>1. x \in T
    BY <1>1
  <2>2. IsFiniteSet(T)
    BY FS_Subset
  <2> HIDE DEF x
  <2>3. Cardinality(T) \in Nat /\ Cardinality(T \ {x}) = Cardinality(T) - 1
    BY <2>1, <2>2, FS_CardinalityType, FS_RemoveElement
  <2> QED
    BY <2>1, <2>3 DEF x
<1>2. ASSUME NEW n \in Nat, \A m \in Nat : m < n => m \in Good
      PROVE  n \in Good
  <2>1. CASE n = 0
    <3>1. Upto(n) = {}
      <4> SUFFICES ASSUME NEW T \in SUBSET S, Cardinality(T) < n PROVE FALSE
        OBVIOUS
      <4>1. Cardinality(T) \in Nat
        BY FS_Subset, FS_CardinalityType
      <4> QED
        BY <2>1, <4>1
    <3> DEFINE g == [T \in Upto(n) |-> 0]
    <3>2. g = [T \in Upto(n) |-> SumStep(a, g, T)]
      BY <3>1
    <3> QED
      BY <3>2
  <2>2. CASE n # 0
    <3>1. PICK h : h = [T \in Upto(n - 1) |-> SumStep(a, h, T)]
      <4>1. n - 1 \in Good
        <5>1. n - 1 \in Nat /\ n - 1 < n
          BY <2>2
        <5> HIDE DEF Good
        <5> QED
          BY <1>2, <5>1
      <4> QED
        BY <4>1
    <3> DEFINE g == [T \in Upto(n) |-> SumStep(a, h, T)]
    <3>2. ASSUME NEW T \in Upto(n - 1) PROVE T \in Upto(n) /\ g[T] = h[T]
      <4>1. T \in SUBSET S /\ Cardinality(T) \in Nat
        BY FS_Subset, FS_CardinalityType
      <4>2. T \in Upto(n)
        BY <2>2, <3>2, <4>1
      <4>3. h[T] = SumStep(a, h, T)
        BY <3>1, <3>2
      <4> HIDE DEF Upto
      <4> QED
        BY <4>2, <4>3
    <3>3. ASSUME NEW T \in Upto(n) PROVE SumStep(a, g, T) = SumStep(a, h, T)
      <4>1. CASE T = {}
        BY <4>1 DEF SumStep
      <4>2. CASE T # {}
        <5> DEFINE R == T \ {CHOOSE x \in T : TRUE}
        <5>1. R \in SUBSET S /\ Cardinality(R) = Cardinality(T) - 1 /\ Cardinality(T) \in Nat
          BY <1>1, <4>2
        <5>2. R \in Upto(n - 1)
          BY <5>1
        <5>3. g[R] = h[R]
          <6> HIDE DEF R, g, Upto
          <6> QED
            BY <3>2, <5>2
        <5> HIDE DEF g, Upto
        <5> QED
          BY <4>2, <5>3 DEF SumStep
      <4> QED
        BY <4>1, <4>2
    <3>4. g = [T \in Upto(n) |-> SumStep(a, g, T)]
      <4>1. [T \in Upto(n) |-> SumStep(a, g, T)] = [T \in Upto(n) |-> SumStep(a, h, T)]
        <5> HIDE DEF g, Upto
        <5> QED
          BY <3>3
      <4> QED
        BY <4>1
    <3> QED
      BY <3>4
  <2> QED
    BY <2>1, <2>2
<1>3. \A n \in Nat : n \in Good
  <2>1. \A n \in Nat : (\A m \in Nat : m < n => m \in Good) => n \in Good
    BY <1>2
  <2> HIDE DEF Good
  <2> QED
    BY <2>1, InductionOverNat
<1>4. Upto(Cardinality(S) + 1) = SUBSET S /\ Cardinality(S) + 1 \in Nat
  <2>1. Cardinality(S) \in Nat
    BY FS_CardinalityType
  <2>2. ASSUME NEW T \in SUBSET S PROVE Cardinality(T) < Cardinality(S) + 1
    <3>1. Cardinality(T) \in Nat /\ Cardinality(T) <= Cardinality(S)
      BY FS_Subset, FS_CardinalityType
    <3> QED
      BY <2>1, <3>1
  <2> QED
    BY <2>1, <2>2
<1>5. \E g : g = [T \in SUBSET S |-> SumStep(a, g, T)]
  <2>1. Cardinality(S) + 1 \in Good
    <3> HIDE DEF Good
    <3> QED
      BY <1>3, <1>4
  <2>2. \E g : g = [T \in Upto(Cardinality(S) + 1) |-> SumStep(a, g, T)]
    <3> HIDE DEF Upto
    <3> QED
      BY <2>1
  <2> HIDE DEF Upto
  <2> QED
    BY <1>4, <2>2
<1>6. Sums(a, S) = [T \in SUBSET S |-> SumStep(a, Sums(a, S), T)]
  BY <1>5 DEF Sums
<1> QED
  BY <1>6

LEMMA ChosenLess ==
  ASSUME NEW T \in SUBSET Files, NEW x \in T
  PROVE  /\ T \ {x} \in SUBSET Files /\ Cardinality(T) \in Nat
         /\ Cardinality(T \ {x}) \in Nat /\ Cardinality(T \ {x}) < Cardinality(T)
<1>1. IsFiniteSet(T) /\ IsFiniteSet(T \ {x})
  BY FileSets, FS_Subset
<1>2. Cardinality(T) \in Nat /\ Cardinality(T \ {x}) \in Nat
  BY <1>1, FS_CardinalityType
<1>3. Cardinality(T \ {x}) = Cardinality(T) - 1
  BY <1>1, FS_RemoveElement
<1> QED
  BY <1>2, <1>3

\* Sums over a smaller set are the same.
LEMMA SumsAgree ==
  ASSUME NEW a, NEW R \in SUBSET Files
  PROVE  \A T \in SUBSET R : Sums(a, R)[T] = Sums(a, Files)[T]
<1> DEFINE Good == {n \in Nat : \A T \in SUBSET R :
                      Cardinality(T) = n => Sums(a, R)[T] = Sums(a, Files)[T]}
<1>1. IsFiniteSet(R) /\ IsFiniteSet(Files)
  BY FileSets, FS_Subset
<1>2. ASSUME NEW T \in SUBSET R
      PROVE  /\ Sums(a, R)[T] = SumStep(a, Sums(a, R), T)
             /\ Sums(a, Files)[T] = SumStep(a, Sums(a, Files), T)
  <2>1. T \in SUBSET Files
    OBVIOUS
  <2> QED
    BY <1>1, <2>1, SumsAre
<1>3. ASSUME NEW n \in Nat, \A m \in Nat : m < n => m \in Good,
             NEW T \in SUBSET R, Cardinality(T) = n
      PROVE  Sums(a, R)[T] = Sums(a, Files)[T]
  <2>1. CASE T = {}
    BY <1>2, <2>1 DEF SumStep
  <2>2. CASE T # {}
    <3> DEFINE x == CHOOSE y \in T : TRUE
               U == T \ {x}
    <3>1. x \in T
      BY <2>2
    <3>2. U \in SUBSET R /\ Cardinality(U) \in Nat /\ Cardinality(U) < n
      <4> HIDE DEF x, Good
      <4> QED
        BY <1>3, <3>1, ChosenLess
    <3>3. Sums(a, R)[U] = Sums(a, Files)[U]
      <4> HIDE DEF U
      <4> QED
        BY <1>3, <3>2
    <3> HIDE DEF Good
    <3> QED
      BY <1>2, <2>2, <3>3 DEF SumStep
  <2> QED
    BY <2>1, <2>2
<1>4. \A n \in Nat : n \in Good
  <2>1. \A n \in Nat : (\A m \in Nat : m < n => m \in Good) => n \in Good
    BY <1>3
  <2> HIDE DEF Good
  <2> QED
    BY <2>1, InductionOverNat
<1>5. ASSUME NEW T \in SUBSET R PROVE Cardinality(T) \in Nat
  BY FileSets, FS_Subset, FS_CardinalityType
<1> QED
  BY <1>4, <1>5

\* The total with one file more.
LEMMA BlocksAdd ==
  ASSUME NEW a \in [Files -> Stats]
  PROVE  /\ Blocks(a, {}) = 0
         /\ \A S \in SUBSET Files : \A f \in Files \ S :
              Blocks(a, S \cup {f}) = Blocks(a, S) + a[f].blocks
         /\ \A S \in SUBSET Files : Blocks(a, S) \in Int
<1> DEFINE V(T) == Sums(a, Files)[T]
<1>1. IsFiniteSet(Files)
  BY FileSets
<1>2. ASSUME NEW S \in SUBSET Files PROVE Blocks(a, S) = V(S)
  <2>1. Blocks(a, S) = Sums(a, S)[S]
    BY DEF Blocks, MapThenSumSet, MapThenFoldSet, Sums, SumStep
  <2> QED
    BY <2>1, SumsAgree
<1>3. \A T \in SUBSET Files : V(T) = SumStep(a, Sums(a, Files), T)
  BY <1>1, SumsAre
<1>4. V({}) = 0
  BY <1>3 DEF SumStep
<1>5. \A f \in Files : a[f].blocks \in Int
  BY StatFields
<1> DEFINE Removes(T) == V(T) \in Int /\ \A f \in T : V(T) = V(T \ {f}) + a[f].blocks
           Good == {n \in Nat : \A T \in SUBSET Files : Cardinality(T) = n => Removes(T)}
<1>6. ASSUME NEW n \in Nat, \A m \in Nat : m < n => m \in Good,
             NEW T \in SUBSET Files, Cardinality(T) = n
      PROVE  Removes(T)
  <2>1. CASE T = {}
    BY <1>4, <2>1
  <2>2. CASE T # {}
    <3>1. ASSUME NEW x \in T PROVE Removes(T \ {x})
      <4>1. T \ {x} \in SUBSET Files /\ Cardinality(T \ {x}) \in Nat /\ Cardinality(T \ {x}) < n
        BY <1>6, ChosenLess
      <4>2. Cardinality(T \ {x}) \in Good
        <5> HIDE DEF Good
        <5> QED
          BY <1>6, <4>1
      <4> HIDE DEF Removes
      <4> QED
        BY <4>1, <4>2
    <3>2. PICK x \in T : V(T) = a[x].blocks + V(T \ {x})
      <4>1. (CHOOSE y \in T : TRUE) \in T
        BY <2>2
      <4>2. V(T) = a[CHOOSE y \in T : TRUE].blocks + V(T \ {CHOOSE y \in T : TRUE})
        BY <1>3, <2>2 DEF SumStep
      <4> HIDE DEF V
      <4> QED
        BY <4>1, <4>2
    <3> HIDE DEF V, Good
    <3>3. V(T \ {x}) \in Int /\ a[x].blocks \in Int /\ V(T) \in Int
      BY <1>5, <3>1, <3>2
    <3>4. ASSUME NEW f \in T, f # x PROVE V(T) = V(T \ {f}) + a[f].blocks
      <4>1. f \in T \ {x} /\ x \in T \ {f}
        BY <3>4
      <4>2. V(T \ {x}) = V((T \ {x}) \ {f}) + a[f].blocks
        BY <3>1, <4>1
      <4>3. V(T \ {f}) = V((T \ {f}) \ {x}) + a[x].blocks /\ V(T \ {f}) \in Int
        BY <3>1, <4>1
      <4>4. (T \ {x}) \ {f} = (T \ {f}) \ {x}
        OBVIOUS
      <4>5. V((T \ {f}) \ {x}) \in Int
        <5>1. T \ {f} \in SUBSET Files /\ Cardinality(T \ {f}) \in Nat /\ Cardinality(T \ {f}) < n
          BY <1>6, ChosenLess
        <5>2. Cardinality((T \ {f}) \ {x}) \in Nat /\ (T \ {f}) \ {x} \in SUBSET Files
              /\ Cardinality((T \ {f}) \ {x}) < n
          BY <4>1, <5>1, ChosenLess
        <5>3. Cardinality((T \ {f}) \ {x}) \in Good
          BY <1>6, <5>2
        <5> QED
          BY <5>2, <5>3 DEF Good
      <4> DEFINE p == V((T \ {f}) \ {x})
      <4>6. V(T) = a[x].blocks + (p + a[f].blocks) /\ V(T \ {f}) = p + a[x].blocks /\ p \in Int
        BY <3>2, <4>2, <4>3, <4>4, <4>5
      <4>7. a[f].blocks \in Int /\ a[x].blocks \in Int
        BY <1>5
      <4> HIDE DEF p
      <4> QED
        BY <4>6, <4>7
    <3>5. V(T) = V(T \ {x}) + a[x].blocks
      BY <3>2, <3>3
    <3> QED
      BY <3>3, <3>4, <3>5
  <2> QED
    BY <2>1, <2>2
<1>7. \A n \in Nat : n \in Good
  <2>1. \A n \in Nat : (\A m \in Nat : m < n => m \in Good) => n \in Good
    BY <1>6
  <2> HIDE DEF Good
  <2> QED
    BY <2>1, InductionOverNat
<1>8. ASSUME NEW T \in SUBSET Files PROVE Removes(T)
  <2>1. Cardinality(T) \in Nat
    BY FileSets, FS_Subset, FS_CardinalityType
  <2> HIDE DEF Removes
  <2> QED
    BY <1>7, <2>1
<1>9. ASSUME NEW S \in SUBSET Files, NEW f \in Files \ S
      PROVE  Blocks(a, S \cup {f}) = Blocks(a, S) + a[f].blocks
  <2>1. S \cup {f} \in SUBSET Files /\ f \in S \cup {f} /\ (S \cup {f}) \ {f} = S
    OBVIOUS
  <2> HIDE DEF V
  <2>2. V(S \cup {f}) = V((S \cup {f}) \ {f}) + a[f].blocks
    BY <1>8, <2>1
  <2> QED
    BY <1>2, <2>1, <2>2
<1>10. {} \in SUBSET Files
  OBVIOUS
<1> HIDE DEF V
<1> QED
  BY <1>2, <1>4, <1>8, <1>9, <1>10

-----------------------------------------------------------------------------
\* What cmp compares, as a number: less comes first.
Value(f) == IF Op = "name" THEN f ELSE -attr[f][Op]
Rank(f) == IF "r" \in options THEN -Value(f) ELSE Value(f)
ReadFirst(f, g) == \E m, n \in 1..Length : m < n /\ entries[m] = f /\ entries[n] = g
Before(f, g) == Rank(f) < Rank(g) \/ (Rank(f) = Rank(g) /\ ReadFirst(f, g))

LEMMA RankType ==
  ASSUME attr \in [Files -> Stats]
  PROVE  /\ Op \in {"name", "size", "ctime", "atime", "mtime"}
         /\ \A f \in Files : Value(f) \in Int /\ Rank(f) \in Int /\ f \in Int
         /\ Op # "name" => \A f \in Files : attr[f][Op] \in Int
<1>1. Op \in {"name", "size", "ctime", "atime", "mtime"}
  BY DEF Op
<1>2. ASSUME Op # "name", NEW f \in Files PROVE attr[f][Op] \in Int
  BY <1>1, <1>2, StatFields
<1>3. ASSUME NEW f \in Files PROVE f \in Int
  BY FileSets
<1>4. ASSUME NEW f \in Files PROVE Value(f) \in Int
  BY <1>2, <1>3 DEF Value
<1> QED
  BY <1>1, <1>2, <1>3, <1>4 DEF Rank

\* The comments on the options and op of order agree.
LEMMA PrecedesIsBefore ==
  ASSUME attr \in [Files -> Stats], entries \in [1..Length -> Files],
         NEW f \in Files, NEW g \in Files
  PROVE  Before(f, g) => Precedes(f, g)
<1> DEFINE time == IF "c" \in options THEN "ctime" ELSE IF "u" \in options THEN "atime" ELSE "mtime"
           byTime == "t" \in options \/ ("l" \notin options /\ time # "mtime")
           first(a, b) == IF "S" \in options THEN Later(a, b, "size")
                          ELSE IF byTime THEN Later(a, b, time) ELSE a < b
<1>1. ASSUME NEW a \in Files, NEW b \in Files PROVE first(a, b) <=> Value(a) < Value(b)
  <2>1. Op = IF "S" \in options THEN "size" ELSE IF byTime THEN time ELSE "name"
    BY DEF Op
  <2>2. CASE Op = "name"
    <3>1. "S" \notin options /\ ~byTime
      BY <2>1, <2>2
    <3> QED
      BY <2>2, <3>1 DEF Value
  <2>3. CASE Op # "name"
    <3>1. first(a, b) <=> attr[a][Op] > attr[b][Op]
      BY <2>1, <2>3 DEF Later
    <3>2. attr[a][Op] \in Int /\ attr[b][Op] \in Int
      BY <2>3, RankType
    <3>3. Value(a) = -attr[a][Op] /\ Value(b) = -attr[b][Op]
      BY <2>3 DEF Value
    <3> HIDE DEF first
    <3> QED
      BY <3>1, <3>2, <3>3
  <2> QED
    BY <2>2, <2>3
<1>2. DOMAIN entries = 1..Length
  OBVIOUS
<1> DEFINE readFirst == \E m, n \in DOMAIN entries : m < n /\ entries[m] = f /\ entries[n] = g
<1>3. readFirst <=> ReadFirst(f, g)
  BY <1>2 DEF ReadFirst
<1>4. Precedes(f, g) <=> IF "r" \in options THEN first(g, f) \/ (~first(f, g) /\ readFirst)
                         ELSE first(f, g) \/ (~first(g, f) /\ readFirst)
  BY DEF Precedes
<1> HIDE DEF first, readFirst
<1>5. Value(f) \in Int /\ Value(g) \in Int
  BY RankType
<1> QED
  BY <1>1, <1>3, <1>4, <1>5 DEF Before, Rank

\* A difference that fits an int is not changed by the conversion.
LEMMA ToIntOfSmall ==
  ASSUME NEW d \in Int, d <= IntMax, -d <= IntMax
  PROVE  ToInt(d) = d
<1> DEFINE w == 2 * (IntMax + 1)
           x == d + IntMax + 1
<1>1. w \in Nat \ {0} /\ x \in Nat /\ x < w
  BY IntWidth
<1>2. x % w = x
  <2> HIDE DEF x, w
  <2> QED
    BY <1>1
<1> QED
  BY <1>2, IntWidth DEF ToInt

LEMMA CmpCompares ==
  ASSUME attr \in [Files -> Stats], Fits, NEW f \in Files, NEW g \in Files
  PROVE  /\ (\E c \in Cmp(f, g) : MovesUp(c)) => Rank(g) < Rank(f)
         /\ (\E c \in Cmp(f, g) : ~MovesUp(c)) => Rank(f) <= Rank(g)
<1>1. Value(f) \in Int /\ Value(g) \in Int
  BY RankType
<1>2. Cmp(f, g) = {Value(f) - Value(g)}
  <2>1. CASE Op = "name"
    BY <2>1 DEF Cmp, Value
  <2>2. CASE Op # "name"
    <3>1. attr[f] \in Stats /\ attr[g] \in Stats /\ attr[f] # Gone /\ attr[g] # Gone
      BY GoneIsNoStat
    <3>2. attr[f][Op] \in Int /\ attr[g][Op] \in Int
      BY <2>2, RankType
    <3>3. Lstat(f) \X Lstat(g) = {<<attr[f], attr[g]>>}
      BY <3>1 DEF Lstat
    <3>4. Cmp(f, g) = {ToInt(attr[g][Op] - attr[f][Op])}
      <4>1. Cmp(f, g) = {ToInt(s[2][Op] - s[1][Op]) : s \in Lstat(f) \X Lstat(g)}
        BY <2>2 DEF Cmp
      <4>2. <<attr[f], attr[g]>>[1] = attr[f] /\ <<attr[f], attr[g]>>[2] = attr[g]
        OBVIOUS
      <4> QED
        BY <3>3, <4>1, <4>2
    <3> DEFINE d == attr[g][Op] - attr[f][Op]
    <3>5. d \in Int /\ d <= IntMax /\ -d <= IntMax
      BY <2>2, <3>2, IntWidth DEF Fits
    <3>6. ToInt(d) = d
      <4> HIDE DEF d
      <4> QED
        BY <3>5, ToIntOfSmall
    <3>7. Value(f) - Value(g) = d
      BY <2>2, <3>2 DEF Value
    <3> QED
      BY <3>4, <3>6, <3>7
  <2> QED
    BY <2>1, <2>2
<1> QED
  BY <1>1, <1>2 DEF MovesUp, Rank

LEMMA BeforeTransitive ==
  ASSUME attr \in [Files -> Stats], Arrangement(entries),
         NEW f \in Files, NEW g \in Files, NEW h \in Files, Before(f, g), Before(g, h)
  PROVE  Before(f, h)
<1>1. Rank(f) \in Int /\ Rank(g) \in Int /\ Rank(h) \in Int
  BY RankType
<1>2. ReadFirst(f, g) /\ ReadFirst(g, h) => ReadFirst(f, h)
  <2> SUFFICES ASSUME ReadFirst(f, g), ReadFirst(g, h) PROVE ReadFirst(f, h)
    OBVIOUS
  <2>1. PICK m, n \in 1..Length : m < n /\ entries[m] = f /\ entries[n] = g
    BY DEF ReadFirst
  <2>2. PICK k, l \in 1..Length : k < l /\ entries[k] = g /\ entries[l] = h
    BY DEF ReadFirst
  <2>3. n = k
    BY <2>1, <2>2 DEF Arrangement
  <2>4. m < l
    BY <2>1, <2>2, <2>3
  <2> QED
    BY <2>1, <2>2, <2>4 DEF ReadFirst
<1> QED
  BY <1>1, <1>2 DEF Before

-----------------------------------------------------------------------------
\* A directory that has not changed since it was read: the total so far, and the names
\* before the turn of the outer loop are in order, with those behind the hole after tmp.
ListedFiles == {f \in Files : Shown(f)}
CountedBefore(n) == {f \in ListedFiles : \E k \in 1..Length : k < n /\ entries[k] = f}
SortedBefore ==
  /\ \A a, b \in 1..i : a < b /\ a # j /\ b # j => Before(filename[a], filename[b])
  /\ \A b \in 1..i : j < b => Before(tmp, filename[b])
Sorted(s) == \A a, b \in 1..Len(s) : a < b => Before(s[a], s[b])

OrderInv ==
  /\ changes \in Nat
  /\ changes = 0 =>
       /\ attr \in [Files -> Stats] /\ Arrangement(entries)
       /\ IF step = "total" THEN filename = entries /\ total = Blocks(attr, CountedBefore(i))
          ELSE total = Blocks(attr, ListedFiles)
       /\ step = "order" => /\ tmp = entries[i]
                            /\ \A k \in 1..Length : k > i => filename[k] = entries[k]
                            /\ Fits => SortedBefore
       /\ step \in {"info", "done"} /\ Fits => Sorted(filename) /\ Sorted(printed)

LEMMA InitOrderInv == FileInit => OrderInv
<1> SUFFICES ASSUME FileInit PROVE OrderInv
  OBVIOUS
<1>1. SortInv
  BY InitSortInv
<1>2. /\ attr \in [Files -> Stats] /\ changes = 0 /\ step = "total" /\ i = 1 /\ total = 0
      /\ filename = entries
  BY DEF FileInit
<1>3. Arrangement(entries)
  BY <1>1, <1>2 DEF SortInv
<1>4. CountedBefore(1) = {}
  BY DEF CountedBefore
<1>5. Blocks(attr, {}) = 0
  BY <1>2, BlocksAdd
<1> QED
  BY <1>2, <1>3, <1>4, <1>5 DEF OrderInv

\* What does not depend on where the sort is.
LEMMA SameOrder ==
  ASSUME UNCHANGED <<options, entries, attr>>
  PROVE  /\ \A f, g : Before(f, g)' <=> Before(f, g)
         /\ Fits' <=> Fits
         /\ ListedFiles' = ListedFiles
         /\ \A n : CountedBefore(n)' = CountedBefore(n)
         /\ \A S : Blocks(attr, S)' = Blocks(attr, S)
<1>1. Op' = Op
  BY DEF Op
<1>2. \A f : Shown(f)' <=> Shown(f)
  BY DEF Shown
<1>3. \A f : Rank(f)' = Rank(f)
  BY <1>1 DEF Rank, Value
<1>4. \A f, g : ReadFirst(f, g)' <=> ReadFirst(f, g)
  BY DEF ReadFirst
<1>5. \A f, g : Before(f, g)' <=> Before(f, g)
  BY <1>3, <1>4 DEF Before
<1>6. Fits' <=> Fits
  BY <1>1 DEF Fits
<1>7. ListedFiles' = ListedFiles
  BY <1>2 DEF ListedFiles
<1>8. \A n : CountedBefore(n)' = CountedBefore(n)
  BY <1>7 DEF CountedBefore
<1> QED
  BY <1>5, <1>6, <1>7, <1>8

\* One turn of the first loop counts one file.
LEMMA CountedOne ==
  ASSUME Arrangement(entries), attr \in [Files -> Stats], i \in 1..Length,
         total = Blocks(attr, CountedBefore(i)), filename = entries,
         IF Shown(filename[i]) THEN \E s \in Lstat(filename[i]) : total' = total + s.blocks
         ELSE UNCHANGED total
  PROVE  total' = Blocks(attr, CountedBefore(i + 1))
<1> USE LengthType
<1> DEFINE f == entries[i]
<1>1. f \in Files /\ attr[f] \in Stats /\ attr[f] # Gone
  BY GoneIsNoStat DEF Arrangement
<1>2. \A k \in 1..Length : k < i + 1 <=> k < i \/ k = i
  OBVIOUS
<1>3. CountedBefore(i) \in SUBSET Files
  BY DEF CountedBefore, ListedFiles
<1>4. CASE Shown(f)
  <2>1. CountedBefore(i + 1) = CountedBefore(i) \cup {f}
    BY <1>1, <1>2, <1>4 DEF CountedBefore, ListedFiles
  <2>2. f \notin CountedBefore(i)
    <3> SUFFICES ASSUME NEW k \in 1..Length, k < i, entries[k] = f PROVE FALSE
      BY DEF CountedBefore
    <3>1. k = i
      BY DEF Arrangement
    <3> QED
      BY <3>1
  <2>3. total' = total + attr[f].blocks
    BY <1>1, <1>4 DEF Lstat
  <2> HIDE DEF f
  <2> QED
    BY <1>1, <1>3, <2>1, <2>2, <2>3, BlocksAdd
<1>5. CASE ~Shown(f)
  <2>1. CountedBefore(i + 1) = CountedBefore(i)
    BY <1>2, <1>5 DEF CountedBefore, ListedFiles
  <2> QED
    BY <1>5, <2>1
<1> QED
  BY <1>4, <1>5

LEMMA CountKeepsOrderInv == ASSUME SortInv, OrderInv, Count PROVE OrderInv'
<1> USE LengthType
<1>1. /\ step = "total" /\ i \in 1..Length /\ Arrangement(filename)
      /\ filename \in [1..Length -> Files] /\ printed = <<>> /\ printed' = <<>>
      /\ UNCHANGED <<options, entries, attr, changes, filename>> /\ changes \in Nat
  BY DEF SortInv, OrderInv, Count
<1>2. Len(filename) = Length
  BY <1>1
<1> SUFFICES ASSUME changes = 0 PROVE OrderInv'
  BY <1>1 DEF OrderInv
<1>3. /\ attr \in [Files -> Stats] /\ Arrangement(entries) /\ filename = entries
      /\ total = Blocks(attr, CountedBefore(i))
  BY <1>1 DEF OrderInv
<1>4. total' = Blocks(attr, CountedBefore(i + 1))
  BY <1>1, <1>3, CountedOne DEF Count
<1>5. Arrangement(entries)'
  BY <1>1, <1>3 DEF Arrangement
<1>6. CASE i < Length /\ i' = i + 1 /\ step' = step
  <2>1. CountedBefore(i)' = CountedBefore(i + 1)
    <3>1. CountedBefore(i)' = {f \in ListedFiles' : \E k \in 1..Length : k < i' /\ entries'[k] = f}
      BY DEF CountedBefore
    <3> QED
      BY <1>1, <1>6, <3>1, SameOrder DEF CountedBefore
  <2>2. total' = Blocks(attr, CountedBefore(i))'
    BY <1>1, <1>4, <2>1
  <2> QED
    BY <1>1, <1>3, <1>5, <1>6, <2>2 DEF OrderInv
<1>7. CASE i = Length
  <2>1. CountedBefore(i + 1) = ListedFiles
    <3>1. \A k \in 1..Length : k < i + 1
      BY <1>7
    <3> QED
      BY <1>3, <3>1 DEF CountedBefore, ListedFiles, Arrangement
  <2>2. total' = Blocks(attr, ListedFiles)'
    <3>1. ListedFiles' = ListedFiles
      BY <1>1, SameOrder
    <3> QED
      BY <1>1, <1>4, <2>1, <3>1
  <2>3. CASE i = 1 /\ step' = "info"
    <3>1. Sorted(filename)' /\ Sorted(printed)'
      BY <1>1, <1>2, <1>7, <2>3 DEF Sorted
    <3> QED
      BY <1>1, <1>3, <1>5, <2>2, <2>3, <3>1 DEF OrderInv
  <2>4. CASE i # 1 /\ step' = "order" /\ Insert(2)
    <3>1. i' = 2 /\ j' = 2 /\ tmp' = entries'[2] /\ 2 \in 1..Length
      BY <1>1, <1>3, <1>7, <2>4 DEF Insert
    <3>2. SortedBefore'
      BY <3>1 DEF SortedBefore
    <3>3. \A k \in 1..Length : k > i' => filename'[k] = entries'[k]
      BY <1>1, <1>3
    <3> QED
      BY <1>1, <1>3, <1>5, <2>2, <2>4, <3>1, <3>2, <3>3 DEF OrderInv
  <2> QED
    BY <1>1, <1>2, <1>7, <2>3, <2>4 DEF Count
<1> QED
  BY <1>1, <1>2, <1>6, <1>7 DEF Count

\* Before the hole stand names that were read before tmp.
LEMMA ReadBefore ==
  ASSUME Arrangement(entries), Arrangement(Hole), filename \in [1..Length -> Files],
         i \in 2..Length, j \in 1..i, tmp = entries[i],
         \A k \in 1..Length : k > i => filename[k] = entries[k],
         NEW a \in 1..i, a # j
  PROVE  filename[a] \in Files /\ ReadFirst(filename[a], tmp)
<1> USE LengthType
<1>1. /\ i \in 1..Length /\ j \in 1..Length /\ a \in 1..Length
      /\ \A k \in 1..Length : Hole[k] = IF k = j THEN tmp ELSE filename[k]
  BY DEF Hole
<1>2. filename[a] \in Files
  BY <1>1
<1>3. PICK c \in 1..Length : entries[c] = filename[a]
  BY <1>2 DEF Arrangement
<1>4. ASSUME c > i PROVE FALSE
  <2>1. Hole[c] = Hole[a] /\ c # a
    BY <1>1, <1>3, <1>4
  <2> QED
    BY <1>1, <2>1 DEF Arrangement
<1>5. ASSUME c = i PROVE FALSE
  <2>1. Hole[j] = Hole[a]
    BY <1>1, <1>3, <1>5
  <2> QED
    BY <1>1, <2>1 DEF Arrangement
<1>6. c < i
  BY <1>1, <1>4, <1>5
<1> QED
  BY <1>1, <1>2, <1>3, <1>6 DEF ReadFirst

\* A comparison moves a name that comes after tmp, or tmp has found its place.
LEMMA CompareKeepsOrderInv == ASSUME SortInv, OrderInv, Compare PROVE OrderInv'
<1> USE LengthType
<1>1. /\ step = "order" /\ i \in 2..Length /\ j \in 1..i /\ tmp \in Files /\ Arrangement(Hole)
      /\ filename \in [1..Length -> Files] /\ printed = <<>> /\ printed' = <<>>
      /\ UNCHANGED <<options, entries, attr, changes, total>> /\ changes \in Nat
  BY DEF SortInv, OrderInv, Compare
<1>2. Len(filename) = Length
  BY <1>1
<1> SUFFICES ASSUME changes = 0 PROVE OrderInv'
  BY <1>1 DEF OrderInv
<1>3. /\ attr \in [Files -> Stats] /\ Arrangement(entries) /\ total = Blocks(attr, ListedFiles)
      /\ tmp = entries[i] /\ \A k \in 1..Length : k > i => filename[k] = entries[k]
      /\ Fits => SortedBefore
  BY <1>1 DEF OrderInv
<1>4. Arrangement(entries)' /\ total' = Blocks(attr, ListedFiles)'
  <2>1. ListedFiles' = ListedFiles
    BY <1>1, SameOrder
  <2> QED
    BY <1>1, <1>3, <2>1 DEF Arrangement
<1>5. \A a \in 1..i : a # j => filename[a] \in Files /\ ReadFirst(filename[a], tmp)
  BY <1>1, <1>3, ReadBefore
<1>6. CASE /\ j > 1 /\ \E c \in Cmp(filename[j - 1], tmp) : MovesUp(c)
           /\ filename' = [filename EXCEPT ![j] = filename[j - 1]] /\ j' = j - 1
           /\ UNCHANGED <<step, i, tmp>>
  <2>1. j - 1 \in 1..i /\ j - 1 # j /\ i \in 1..Length /\ j \in 1..Length /\ filename[j - 1] \in Files
    BY <1>1, <1>6
  <2>2. \A k \in 1..Length : filename'[k] = IF k = j THEN filename[j - 1] ELSE filename[k]
    BY <1>1, <1>6
  <2>3. ASSUME Fits PROVE SortedBefore'
    <3>1. Rank(tmp) < Rank(filename[j - 1])
      BY <1>1, <1>3, <1>6, <2>1, <2>3, CmpCompares
    <3>2. Before(tmp, filename[j - 1])
      BY <3>1 DEF Before
    <3>3. ASSUME NEW a \in 1..i, NEW b \in 1..i, a < b, a # j - 1, b # j - 1
          PROVE  Before(filename'[a], filename'[b])
      <4>1. a \in 1..Length /\ b \in 1..Length
        BY <2>1
      <4>2. CASE a = j
        <5>1. b # j /\ j - 1 < b /\ filename'[a] = filename[j - 1] /\ filename'[b] = filename[b]
          BY <2>1, <2>2, <3>3, <4>1, <4>2
        <5> QED
          BY <1>3, <2>1, <2>3, <5>1 DEF SortedBefore
      <4>3. CASE b = j
        <5>1. a # j /\ a < j - 1 /\ filename'[b] = filename[j - 1] /\ filename'[a] = filename[a]
          BY <2>1, <2>2, <3>3, <4>1, <4>3
        <5> QED
          BY <1>3, <2>1, <2>3, <5>1 DEF SortedBefore
      <4>4. CASE a # j /\ b # j
        <5>1. filename'[a] = filename[a] /\ filename'[b] = filename[b]
          BY <2>2, <4>1, <4>4
        <5> QED
          BY <1>3, <2>3, <3>3, <4>4, <5>1 DEF SortedBefore
      <4> QED
        BY <4>2, <4>3, <4>4
    <3>4. ASSUME NEW b \in 1..i, j - 1 < b PROVE Before(tmp, filename'[b])
      <4>1. b \in 1..Length /\ (b = j \/ j < b)
        BY <1>1, <2>1, <3>4
      <4>2. CASE b = j
        BY <2>2, <3>2, <4>1, <4>2
      <4>3. CASE j < b
        <5>1. filename'[b] = filename[b]
          BY <2>1, <2>2, <4>1, <4>3
        <5> QED
          BY <1>3, <2>3, <4>3, <5>1 DEF SortedBefore
      <4> QED
        BY <4>1, <4>2, <4>3
    <3>5. \A f, g : Before(f, g)' <=> Before(f, g)
      BY <1>1, SameOrder
    <3>6. \A a, b \in 1..i' : a < b /\ a # j' /\ b # j' => Before(filename'[a], filename'[b])
      BY <1>6, <3>3
    <3>7. \A b \in 1..i' : j' < b => Before(tmp', filename'[b])
      BY <1>6, <3>4
    <3>8. (\A a, b \in 1..i : a < b /\ a # j /\ b # j => Before(filename[a], filename[b]))'
      BY <3>5, <3>6
    <3>9. (\A b \in 1..i : j < b => Before(tmp, filename[b]))'
      BY <3>5, <3>7
    <3> QED
      BY <3>8, <3>9 DEF SortedBefore
  <2>4. \A k \in 1..Length : k > i' => filename'[k] = entries'[k]
    BY <1>1, <1>3, <1>6, <2>1, <2>2
  <2>5. Fits' <=> Fits
    BY <1>1, SameOrder
  <2> QED
    BY <1>1, <1>3, <1>4, <1>6, <2>3, <2>4, <2>5 DEF OrderInv
<1>7. CASE /\ j > 1 => \E c \in Cmp(filename[j - 1], tmp) : ~MovesUp(c)
           /\ filename' = [filename EXCEPT ![j] = tmp]
           /\ IF i < Len(filename) THEN Insert(i + 1) /\ UNCHANGED step
              ELSE step' = "info" /\ i' = 1 /\ UNCHANGED <<j, tmp>>
  <2>1. i \in 1..Length /\ j \in 1..Length
    BY <1>1
  <2>2. \A k \in 1..Length : filename'[k] = IF k = j THEN tmp ELSE filename[k]
    BY <1>1, <1>7
  <2>3. ASSUME Fits, NEW a \in 1..i, NEW b \in 1..i, a < b
        PROVE  Before(filename'[a], filename'[b])
    <3>1. a \in 1..Length /\ b \in 1..Length
      BY <2>1
    <3>2. CASE a = j
      <4>1. filename'[a] = tmp /\ filename'[b] = filename[b] /\ j < b
        BY <2>1, <2>2, <2>3, <3>1, <3>2
      <4> QED
        BY <1>3, <2>3, <4>1 DEF SortedBefore
    <3>3. CASE b = j
      <4>1. filename'[b] = tmp /\ filename'[a] = filename[a] /\ a # j /\ j > 1
            /\ j - 1 \in 1..i /\ j - 1 # j /\ (a = j - 1 \/ a < j - 1)
        BY <2>1, <2>2, <2>3, <3>1, <3>3
      <4>2. filename[j - 1] \in Files /\ ReadFirst(filename[j - 1], tmp) /\ filename[a] \in Files
        BY <1>5, <4>1
      <4>3. Rank(filename[j - 1]) <= Rank(tmp)
        BY <1>1, <1>3, <1>7, <2>3, <4>1, <4>2, CmpCompares
      <4>4. Rank(filename[j - 1]) \in Int /\ Rank(tmp) \in Int
        BY <1>1, <1>3, <4>2, RankType
      <4>5. Before(filename[j - 1], tmp)
        BY <4>2, <4>3, <4>4 DEF Before
      <4>6. CASE a = j - 1
        BY <4>1, <4>5, <4>6
      <4>7. CASE a < j - 1
        <5>1. Before(filename[a], filename[j - 1])
          BY <1>3, <2>3, <4>1, <4>7 DEF SortedBefore
        <5>2. Before(filename[a], tmp)
          BY <1>1, <1>3, <4>2, <4>5, <5>1, BeforeTransitive
        <5> QED
          BY <4>1, <5>2
      <4> QED
        BY <4>1, <4>6, <4>7
    <3>4. CASE a # j /\ b # j
      <4>1. filename'[a] = filename[a] /\ filename'[b] = filename[b]
        BY <2>2, <3>1, <3>4
      <4> QED
        BY <1>3, <2>3, <3>4, <4>1 DEF SortedBefore
    <3> QED
      BY <3>2, <3>3, <3>4
  <2>4. \A f, g : Before(f, g)' <=> Before(f, g)
    BY <1>1, SameOrder
  <2>5. Fits' <=> Fits
    BY <1>1, SameOrder
  <2>6. CASE i < Length /\ Insert(i + 1) /\ step' = step
    <3>1. i' = i + 1 /\ j' = i + 1 /\ tmp' = filename'[i + 1] /\ i + 1 \in 1..Length /\ i + 1 # j
      BY <1>1, <2>6 DEF Insert
    <3>2. \A k \in 1..Length : k > i => filename'[k] = entries[k]
      BY <1>1, <1>3, <2>2
    <3>3. tmp' = entries'[i'] /\ \A k \in 1..Length : k > i' => filename'[k] = entries'[k]
      BY <1>1, <3>1, <3>2
    <3>4. ASSUME Fits PROVE SortedBefore'
      <4>1. \A a \in 1..i' : a # j' => a \in 1..i
        BY <1>1, <3>1
      <4>2. \A a, b \in 1..i' : a < b /\ a # j' /\ b # j' => Before(filename'[a], filename'[b])
        BY <2>3, <3>4, <4>1
      <4>3. (\A a, b \in 1..i : a < b /\ a # j /\ b # j => Before(filename[a], filename[b]))'
        BY <2>4, <4>2
      <4>4. \A b \in 1..i' : ~(j' < b)
        BY <1>1, <3>1
      <4> QED
        BY <4>3, <4>4 DEF SortedBefore
    <3> QED
      BY <1>1, <1>3, <1>4, <2>5, <2>6, <3>3, <3>4 DEF OrderInv
  <2>7. CASE i = Length /\ step' = "info"
    <3>1. filename' \in [1..Length -> Files] /\ Len(filename') = Length
      BY <1>1, <1>7
    <3>2. ASSUME Fits PROVE Sorted(filename)' /\ Sorted(printed)'
      <4>1. \A a, b \in 1..Len(filename') : a < b => Before(filename'[a], filename'[b])
        BY <2>3, <2>7, <3>1, <3>2
      <4>2. Sorted(filename)'
        BY <2>4, <4>1 DEF Sorted
      <4> QED
        BY <1>1, <4>2 DEF Sorted
    <3> QED
      BY <1>1, <1>3, <1>4, <2>5, <2>7, <3>2 DEF OrderInv
  <2> QED
    BY <1>1, <1>2, <1>7, <2>6, <2>7
<1> QED
  BY <1>6, <1>7 DEF Compare, FillHole

\* What is printed is in the order of the array.
LEMMA ListSingleKeepsOrderInv == ASSUME SortInv, OrderInv, ListSingle PROVE OrderInv'
<1> USE LengthType
<1>1. /\ step = "info" /\ i \in 1..Length /\ Arrangement(filename) /\ PrintedBefore(i)
      /\ filename \in [1..Length -> Files]
      /\ UNCHANGED <<options, entries, attr, changes, filename, total>> /\ changes \in Nat
  BY DEF SortInv, OrderInv, ListSingle
<1>2. Len(filename) = Length
  BY <1>1
<1> SUFFICES ASSUME changes = 0 PROVE OrderInv'
  BY <1>1 DEF OrderInv
<1>3. /\ attr \in [Files -> Stats] /\ Arrangement(entries) /\ total = Blocks(attr, ListedFiles)
      /\ Fits => Sorted(filename) /\ Sorted(printed)
  BY <1>1 DEF OrderInv
<1>4. Arrangement(entries)' /\ total' = Blocks(attr, ListedFiles)'
  <2>1. ListedFiles' = ListedFiles
    BY <1>1, SameOrder
  <2> QED
    BY <1>1, <1>3, <2>1 DEF Arrangement
<1>5. \A f, g : Before(f, g)' <=> Before(f, g)
  BY <1>1, SameOrder
<1>6. Fits' <=> Fits
  BY <1>1, SameOrder
<1>7. step' \in {"info", "done", "crashed"}
  BY <1>1 DEF ListSingle
<1>8. ASSUME Fits, step' \in {"info", "done"} PROVE Sorted(printed)'
  <2>1. printed' = IF Shown(filename[i]) THEN Append(printed, filename[i]) ELSE printed
    BY <1>8 DEF ListSingle
  <2>2. printed \in Seq(Files) /\ filename[i] \in Files /\ Len(printed) \in Nat
    BY <1>1 DEF PrintedBefore
  <2>3. ASSUME NEW a \in 1..Len(printed) PROVE Before(printed[a], filename[i])
    <3>1. PICK k \in 1..Length : k < i /\ printed[a] = filename[k]
      BY <1>1 DEF PrintedBefore
    <3> QED
      BY <1>1, <1>2, <1>3, <1>8, <3>1 DEF Sorted
  <2>4. \A a, b \in 1..Len(printed') : a < b => Before(printed'[a], printed'[b])
    <3>1. CASE printed' = printed
      BY <1>3, <1>8, <3>1 DEF Sorted
    <3>2. CASE printed' = Append(printed, filename[i])
      <4>1. /\ Len(printed') = Len(printed) + 1 /\ printed'[Len(printed) + 1] = filename[i]
            /\ \A a \in 1..Len(printed) : printed'[a] = printed[a]
        BY <2>2, <3>2, AppendProperties
      <4> SUFFICES ASSUME NEW a \in 1..Len(printed'), NEW b \in 1..Len(printed'), a < b
                   PROVE  Before(printed'[a], printed'[b])
        OBVIOUS
      <4>2. a \in 1..Len(printed) /\ (b \in 1..Len(printed) \/ b = Len(printed) + 1)
        BY <2>2, <4>1
      <4>3. CASE b = Len(printed) + 1
        BY <2>3, <4>1, <4>2, <4>3
      <4>4. CASE b \in 1..Len(printed)
        BY <1>3, <1>8, <4>1, <4>2, <4>4 DEF Sorted
      <4> QED
        BY <4>2, <4>3, <4>4
    <3> QED
      BY <2>1, <3>1, <3>2
  <2> QED
    BY <1>5, <2>4 DEF Sorted
<1>9. ASSUME Fits PROVE Sorted(filename)'
  <2>1. \A a, b \in 1..Len(filename') : a < b => Before(filename'[a], filename'[b])
    BY <1>1, <1>3, <1>9 DEF Sorted
  <2> QED
    BY <1>5, <2>1 DEF Sorted
<1> QED
  BY <1>1, <1>3, <1>4, <1>6, <1>7, <1>8, <1>9 DEF OrderInv

LEMMA NextKeepsOrderInv == SortInv /\ OrderInv /\ [FileNext]_fileVars => OrderInv'
<1> SUFFICES ASSUME SortInv, OrderInv, [FileNext]_fileVars PROVE OrderInv'
  OBVIOUS
<1>1. CASE UNCHANGED fileVars
  <2>1. UNCHANGED <<options, entries, attr, changes, filename, step, i, j, tmp, total, printed>>
    BY <1>1 DEF fileVars
  <2>2. /\ \A f, g : Before(f, g)' <=> Before(f, g)
        /\ Fits' <=> Fits
        /\ ListedFiles' = ListedFiles
        /\ CountedBefore(i)' = CountedBefore(i)
    <3>1. CountedBefore(i)' = {f \in ListedFiles' : \E k \in 1..Length : k < i' /\ entries'[k] = f}
      BY DEF CountedBefore
    <3> QED
      BY <2>1, <3>1, SameOrder DEF CountedBefore
  <2>3. Arrangement(entries)' <=> Arrangement(entries)
    BY <2>1 DEF Arrangement
  <2>4. SortedBefore' <=> SortedBefore
    BY <2>1, <2>2 DEF SortedBefore
  <2>5. (Sorted(filename)' <=> Sorted(filename)) /\ (Sorted(printed)' <=> Sorted(printed))
    BY <2>1, <2>2 DEF Sorted
  <2>6. /\ Blocks(attr, ListedFiles)' = Blocks(attr, ListedFiles)
        /\ Blocks(attr, CountedBefore(i))' = Blocks(attr, CountedBefore(i))
    BY <2>1, <2>2
  <2> QED
    BY <2>1, <2>2, <2>3, <2>4, <2>5, <2>6 DEF OrderInv
<1>2. CASE Change
  <2>1. changes' = changes + 1 /\ changes \in Nat
    BY <1>2 DEF Change, OrderInv
  <2>2. changes' \in Nat /\ changes' # 0
    BY <2>1
  <2> QED
    BY <2>2 DEF OrderInv
<1> QED
  BY <1>1, <1>2, CountKeepsOrderInv, CompareKeepsOrderInv, ListSingleKeepsOrderInv
     DEF FileNext, ListFile, FileListed

\* For a directory of any size that does not change, any attributes and options: what is
\* printed is in the order that the options name, entries that are equal in the order of
\* the directory, as long as no difference of two sizes or times is cut to an int, and
\* the total is that of the files printed (myls.c:178-228, :250-292, :410-434).
THEOREM SortsAsAsked == FileSpec => []SortedAsAsked
<1>1. SortInv /\ OrderInv => SortedAsAsked
  <2> SUFFICES ASSUME SortInv, OrderInv, step = "done", changes = 0
               PROVE  /\ total = MapThenSumSet(LAMBDA f : attr[f].blocks, ToSet(printed))
                      /\ Fits => \A m, n \in DOMAIN printed : m < n => Precedes(printed[m], printed[n])
    BY DEF SortedAsAsked
  <2> USE LengthType
  <2>1. /\ attr \in [Files -> Stats] /\ Arrangement(entries) /\ total = Blocks(attr, ListedFiles)
        /\ Fits => Sorted(printed)
        /\ PrintedBefore(Length + 1) /\ Arrangement(filename)
    BY DEF SortInv, OrderInv
  <2>2. printed \in Seq(Files) /\ DOMAIN printed = 1..Len(printed)
    BY <2>1 DEF PrintedBefore
  <2>3. ToSet(printed) = ListedFiles
    <3>1. \A a \in 1..Len(printed) : printed[a] \in Files /\ Shown(printed[a])
      BY <2>1, <2>2 DEF PrintedBefore
    <3>2. ASSUME NEW f \in Files, Shown(f) PROVE \E a \in 1..Len(printed) : printed[a] = f
      <4>1. PICK k \in 1..Length : filename[k] = f
        BY <2>1 DEF Arrangement
      <4>2. k < Length + 1
        OBVIOUS
      <4> QED
        BY <2>1, <3>2, <4>1, <4>2 DEF PrintedBefore
    <3> QED
      BY <2>2, <3>1, <3>2 DEF ToSet, ListedFiles
  <2>4. total = MapThenSumSet(LAMBDA f : attr[f].blocks, ToSet(printed))
    BY <2>1, <2>3 DEF Blocks
  <2>5. ASSUME Fits, NEW m \in DOMAIN printed, NEW n \in DOMAIN printed, m < n
        PROVE  Precedes(printed[m], printed[n])
    <3>1. printed[m] \in Files /\ printed[n] \in Files /\ Before(printed[m], printed[n])
      BY <2>1, <2>2, <2>5 DEF Sorted
    <3>2. entries \in [1..Length -> Files]
      BY <2>1 DEF Arrangement
    <3> QED
      BY <2>1, <3>1, <3>2, PrecedesIsBefore
  <2> QED
    BY <2>4, <2>5
<1>2. SortInv /\ OrderInv /\ [FileNext]_fileVars => (SortInv /\ OrderInv)'
  BY NextKeepsSortInv, NextKeepsOrderInv
<1>3. FileInit => SortInv /\ OrderInv
  BY InitSortInv, InitOrderInv
<1> QED
  BY <1>1, <1>2, <1>3, PTL DEF FileSpec

-----------------------------------------------------------------------------
\* RecursiveListing.  The tree main is started on, which no step changes.
TreeInv ==
  /\ parent \in [Dirs -> 0..N] /\ \A d \in Dirs : parent[d] < d
  /\ name \in [Dirs -> Names]
  /\ \A d, e \in Dirs : parent[d] = parent[e] /\ name[d] = name[e] => d = e
  /\ start \in 0..N

\* The frames: a path continues that of the frame below by a name that frame does not
\* hold any more, and no name is held twice.
Nested(s) ==
  \A k \in 1..Len(s) :
    /\ \A a, b \in 1..Len(s[k].todo) : s[k].todo[a] = s[k].todo[b] => a = b
    /\ \A m \in 1..Len(s) : k < m =>
         /\ \A l \in 1..k : s[m].path[l] = s[k].path[l]
         /\ \A a \in 1..Len(s[k].todo) : s[k].todo[a] # s[m].path[k + 1]
FrameInv ==
  /\ stack = <<>> /\ Reachable => cwd = start
  /\ stack # <<>> => stack[1].path[1] \notin pending
  /\ pending \subseteq NamesIn(start)
  /\ status = "done" => stack = <<>> /\ pending = {}
  /\ status = "crashed" => stack # <<>>
  /\ Nested(stack)

\* Below an argument that can all be read, frame k lists the directory e of its path,
\* the names it holds are directories of e, and the working directory is the top
\* frame's; and e is at least k, because the tree is numbered from the top.
Visits(k, e) ==
  /\ PathTo(e) = stack[k].path /\ k <= e
  /\ k = Len(stack) => cwd = e
  /\ \A a \in 1..Len(stack[k].todo) : Lookup(e, stack[k].todo[a]) # {}
WalkInv ==
  stack # <<>> /\ Accessible(stack[1].path[1]) =>
    /\ \A k \in 1..Len(stack) : \E e \in Dirs : Visits(k, e)
    /\ status = "crashed" => FrameLimit < N

\* The headings are not empty, and right below an argument that can all be read.
HeadingInv == \A k \in 1..Len(out) :
  /\ out[k].heading # <<>>
  /\ Accessible(out[k].heading[1]) => out[k].heading = PathTo(out[k].dir)

\* The directories EverythingListed speaks of.
Due(d) ==
  /\ PathTo(d) # <<>> /\ Accessible(PathTo(d)[1])
  /\ \A k \in 2..Len(PathTo(d)) : Followed(PathTo(d)[k])

ListingsOf(d) == {k \in 1..Len(out) : out[k].dir = d /\ out[k].heading = PathTo(d)}

\* Frame k holds the next name on the path to d: the recursion has yet to go that way.
Holds(k, d) ==
  /\ k < Len(PathTo(d))
  /\ \A m \in 1..k : stack[k].path[m] = PathTo(d)[m]
  /\ \E a \in 1..Len(stack[k].todo) : stack[k].todo[a] = PathTo(d)[k + 1]
Awaited(d) == PathTo(d)[1] \in pending \/ \E k \in 1..Len(stack) : Holds(k, d)

DueInv == \A d \in Dirs : Due(d) =>
  IF Awaited(d) THEN ListingsOf(d) = {} ELSE \E k \in 1..Len(out) : ListingsOf(d) = {k}

WalkIInv == TypeOK /\ TreeInv /\ FrameInv /\ WalkInv /\ HeadingInv /\ DueInv

\* What PathTo says of e, given what it says of the parent.
PathStep(f, e) ==
  IF e = Root THEN <<>>
  ELSE IF parent[e] = start THEN <<name[e]>>
  ELSE IF f[parent[e]] = <<>> THEN <<>>
  ELSE Append(f[parent[e]], name[e])

LEMMA PathExists ==
  ASSUME TreeInv
  PROVE  \E f : f = [e \in 0..N |-> PathStep(f, e)]
<1> USE TreeBounds DEF Root, Dirs
<1> DEFINE S == {n \in Nat : n <= N => \E f : f = [e \in 0..n |-> PathStep(f, e)]}
<1>1. ASSUME NEW n \in Nat, \A m \in Nat : m < n => m \in S, n <= N
      PROVE  \E f : f = [e \in 0..n |-> PathStep(f, e)]
  <2>1. CASE n = 0
    <3> DEFINE g == [e \in 0..n |-> <<>>]
    <3>1. \A e \in 0..n : PathStep(g, e) = <<>>
      BY <2>1 DEF PathStep
    <3>2. g = [e \in 0..n |-> PathStep(g, e)]
      BY <3>1
    <3> QED
      BY <3>2
  <2>2. CASE n # 0
    <3>1. n - 1 \in S
      BY <1>1, <2>2
    <3>2. PICK f : f = [e \in 0..(n - 1) |-> PathStep(f, e)]
      BY <1>1, <2>2, <3>1
    <3> DEFINE g == [e \in 0..n |-> IF e < n THEN f[e] ELSE PathStep(f, n)]
    <3>3. \A e \in 0..n : e # Root => parent[e] \in 0..(n - 1) /\ e \in Dirs
      BY <1>1 DEF TreeInv
    <3>4. \A e \in 0..n : PathStep(g, e) = PathStep(f, e)
      <4> SUFFICES ASSUME NEW e \in 0..n PROVE PathStep(g, e) = PathStep(f, e)
        OBVIOUS
      <4>1. CASE e = Root
        BY <4>1 DEF PathStep
      <4>2. CASE e # Root
        <5>1. g[parent[e]] = f[parent[e]]
          BY <3>3, <4>2
        <5> HIDE DEF g
        <5> QED
          BY <4>2, <5>1 DEF PathStep
      <4> QED
        BY <4>1, <4>2
    <3>5. \A e \in 0..n : g[e] = PathStep(f, e)
      BY <3>2
    <3>6. g = [e \in 0..n |-> PathStep(g, e)]
      BY <3>4, <3>5
    <3> QED
      BY <3>6
  <2> QED
    BY <2>1, <2>2
<1>2. \A n \in Nat : n \in S
  <2>1. \A n \in Nat : (\A m \in Nat : m < n => m \in S) => n \in S
    BY <1>1
  <2> HIDE DEF S
  <2> QED
    BY <2>1, InductionOverNat
<1> QED
  BY <1>2

\* The definition of PathTo, unfolded once.
LEMMA PathToIs ==
  ASSUME TreeInv
  PROVE  /\ PathTo(Root) = <<>>
         /\ \A d \in Dirs : PathTo(d) = IF parent[d] = start THEN <<name[d]>>
                                        ELSE IF PathTo(parent[d]) = <<>> THEN <<>>
                                        ELSE Append(PathTo(parent[d]), name[d])
<1> USE TreeBounds DEF Root, Dirs
<1> DEFINE f == CHOOSE g : g = [e \in 0..N |-> PathStep(g, e)]
<1>1. f = [e \in 0..N |-> PathStep(f, e)]
  BY PathExists
<1>2. \A d : PathTo(d) = f[d]
  BY DEF PathTo, PathStep
<1> HIDE DEF f
<1>3. \A e \in 0..N : PathTo(e) = PathStep(f, e)
  BY <1>1, <1>2
<1>4. \A d \in Dirs : parent[d] \in 0..N /\ d \in 0..N /\ d # 0
  BY DEF TreeInv
<1>5. 0 \in 0..N
  OBVIOUS
<1> QED
  BY <1>2, <1>3, <1>4, <1>5 DEF PathStep
LEMMA PathType ==
  ASSUME TreeInv
  PROVE  \A d \in 0..N : PathTo(d) \in Seq(Names)
<1> USE TreeBounds DEF Root, Dirs
<1> DEFINE S == {n \in Nat : n <= N => PathTo(n) \in Seq(Names)}
<1>1. ASSUME NEW n \in Nat, \A m \in Nat : m < n => m \in S, n <= N
      PROVE  PathTo(n) \in Seq(Names)
  <2>1. CASE n = 0
    <3>1. PathTo(0) = <<>> /\ <<>> \in Seq(Names)
      BY PathToIs
    <3> QED
      BY <2>1, <3>1
  <2>2. CASE n # 0
    <3>1. n \in Dirs /\ parent[n] \in Nat /\ parent[n] < n /\ parent[n] <= N /\ name[n] \in Names
      BY <1>1, <2>2 DEF TreeInv
    <3>2. PathTo(parent[n]) \in Seq(Names)
      BY <1>1, <3>1
    <3>3. /\ <<>> \in Seq(Names)
          /\ <<name[n]>> \in Seq(Names)
          /\ Append(PathTo(parent[n]), name[n]) \in Seq(Names)
      BY <3>1, <3>2
    <3>4. PathTo(n) = IF parent[n] = start THEN <<name[n]>>
                      ELSE IF PathTo(parent[n]) = <<>> THEN <<>>
                      ELSE Append(PathTo(parent[n]), name[n])
      BY <3>1, PathToIs
    <3> QED
      BY <3>3, <3>4
  <2> QED
    BY <2>1, <2>2
<1>2. \A n \in Nat : (\A m \in Nat : m < n => m \in S) => n \in S
  BY <1>1
<1>3. \A n \in Nat : n \in S
  <2> HIDE DEF S
  <2> QED
    BY <1>2, InductionOverNat
<1> QED
  BY <1>3

\* The directories one step below d, and the only way to be two steps below one.
LEMMA PathOfChild ==
  ASSUME TreeInv, NEW d \in Dirs, PathTo(d) # <<>>
  PROVE  /\ Len(PathTo(d)) \in Nat \ {0} /\ PathTo(d)[Len(PathTo(d))] = name[d]
         /\ parent[d] = start => PathTo(d) = <<name[d]>>
         /\ parent[d] # start =>
              /\ parent[d] \in Dirs /\ PathTo(parent[d]) # <<>>
              /\ PathTo(d) = Append(PathTo(parent[d]), name[d])
              /\ Len(PathTo(d)) = Len(PathTo(parent[d])) + 1 /\ Len(PathTo(d)) > 1
              /\ \A k \in 1..Len(PathTo(parent[d])) : PathTo(d)[k] = PathTo(parent[d])[k]
<1> USE TreeBounds DEF Root, Dirs
<1>1. name[d] \in Names /\ parent[d] \in 0..N
  BY DEF TreeInv
<1>2. CASE parent[d] = start
  <2>1. PathTo(d) = <<name[d]>>
    BY <1>2, PathToIs
  <2> QED
    BY <1>2, <2>1
<1>3. CASE parent[d] # start
  <2>1. PathTo(parent[d]) # <<>> /\ PathTo(d) = Append(PathTo(parent[d]), name[d])
    BY <1>3, PathToIs
  <2>2. parent[d] \in Dirs
    BY <1>1, <2>1, PathToIs
  <2>3. PathTo(parent[d]) \in Seq(Names)
    BY <1>1, PathType
  <2> DEFINE p == PathTo(parent[d])
  <2>4. Len(p) \in Nat \ {0} /\ \A k \in 1..Len(p) : Append(p, name[d])[k] = p[k]
    <3> HIDE DEF p
    <3> QED
      BY <2>1, <2>3 DEF p
  <2>5. Len(Append(p, name[d])) = Len(p) + 1 /\ Append(p, name[d])[Len(p) + 1] = name[d]
    <3> HIDE DEF p
    <3> QED
      BY <2>3, <1>1 DEF p
  <2> QED
    BY <1>3, <2>1, <2>2, <2>4, <2>5
<1> QED
  BY <1>2, <1>3

LEMMA AppendsAgree ==
  ASSUME NEW p \in Seq(Names), NEW q \in Seq(Names), NEW a \in Names, NEW b \in Names,
         Append(p, a) = Append(q, b)
  PROVE  p = q
<1>1. Len(p) = Len(q)
  BY Len(Append(p, a)) = Len(p) + 1, Len(Append(q, b)) = Len(q) + 1
<1>2. \A m \in 1..Len(p) : p[m] = q[m]
  <2> SUFFICES ASSUME NEW m \in 1..Len(p) PROVE p[m] = q[m]
    OBVIOUS
  <2>1. Append(p, a)[m] = p[m]
    OBVIOUS
  <2>2. Append(q, b)[m] = q[m]
    BY <1>1
  <2> QED
    BY <2>1, <2>2
<1> QED
  BY <1>1, <1>2, SeqEqual

\* A path leads to one directory.
LEMMA PathIsUnique ==
  ASSUME TreeInv
  PROVE  \A d, e \in Dirs : PathTo(d) # <<>> /\ PathTo(d) = PathTo(e) => d = e
<1> USE TreeBounds DEF Root, Dirs
<1> DEFINE S == {n \in Nat : n \in Dirs /\ PathTo(n) # <<>> =>
                   \A e \in Dirs : PathTo(n) = PathTo(e) => n = e}
<1>1. ASSUME NEW n \in Nat, \A m \in Nat : m < n => m \in S,
             n \in Dirs, PathTo(n) # <<>>, NEW e \in Dirs, PathTo(n) = PathTo(e)
      PROVE  n = e
  <2>1. name[n] = name[e]
    BY <1>1, PathOfChild
  <2>2. CASE parent[n] = start
    <3>1. Len(PathTo(n)) = 1
      BY <1>1, <2>2, PathOfChild
    <3>2. parent[e] = start
      BY <1>1, <3>1, PathOfChild
    <3> QED
      BY <1>1, <2>1, <2>2, <3>2 DEF TreeInv
  <2>3. CASE parent[n] # start
    <3>1. parent[e] # start
      BY <1>1, <2>3, PathOfChild
    <3> DEFINE p == PathTo(parent[n])
               q == PathTo(parent[e])
    <3>2. /\ p # <<>> /\ p \in Seq(Names) /\ q \in Seq(Names)
          /\ parent[n] \in Dirs /\ parent[e] \in Dirs /\ parent[n] < n
          /\ Append(p, name[n]) = Append(q, name[e])
          /\ name[n] \in Names /\ name[e] \in Names
      <4>1. PathTo(e) # <<>>
        BY <1>1
      <4>2. p # <<>> /\ parent[n] \in Dirs /\ PathTo(n) = Append(p, name[n])
        BY <1>1, <2>3, PathOfChild
      <4>3. parent[e] \in Dirs /\ PathTo(e) = Append(q, name[e])
        BY <3>1, <4>1, PathOfChild
      <4>4. p \in Seq(Names) /\ q \in Seq(Names)
        BY <4>2, <4>3, PathType
      <4>5. parent[n] < n /\ name[n] \in Names /\ name[e] \in Names
        BY <1>1, <4>2 DEF TreeInv
      <4> QED
        BY <1>1, <4>2, <4>3, <4>4, <4>5
    <3>3. p = q
      <4> HIDE DEF p, q
      <4> QED
        BY <3>2, AppendsAgree
    <3>4. parent[n] \in S
      BY <1>1, <3>2
    <3>5. parent[n] = parent[e]
      BY <3>2, <3>3, <3>4
    <3> QED
      BY <1>1, <2>1, <3>5 DEF TreeInv
  <2> QED
    BY <2>2, <2>3
<1>2. \A n \in Nat : (\A m \in Nat : m < n => m \in S) => n \in S
  BY <1>1
<1>3. \A n \in Nat : n \in S
  <2> HIDE DEF S
  <2> QED
    BY <1>2, InductionOverNat
<1> QED
  BY <1>3

\* Every beginning of a path leads to a directory.
LEMMA PathsBegin ==
  ASSUME TreeInv
  PROVE  \A d \in Dirs : \A k \in 1..Len(PathTo(d)) : \E e \in Dirs :
           /\ Len(PathTo(e)) = k
           /\ \A m \in 1..k : PathTo(e)[m] = PathTo(d)[m]
<1> USE TreeBounds DEF Root, Dirs
<1> DEFINE Q(n, k, e) == Len(PathTo(e)) = k /\ \A m \in 1..k : PathTo(e)[m] = PathTo(n)[m]
           S == {n \in Nat : n \in Dirs => \A k \in 1..Len(PathTo(n)) : \E e \in Dirs : Q(n, k, e)}
<1>1. ASSUME NEW n \in Nat, \A m \in Nat : m < n => m \in S,
             n \in Dirs, NEW k \in 1..Len(PathTo(n))
      PROVE  \E e \in Dirs : Q(n, k, e)
  <2>1. CASE k = Len(PathTo(n))
    BY <1>1, <2>1
  <2>2. CASE k # Len(PathTo(n))
    <3>1. PathTo(n) \in Seq(Names) /\ Len(PathTo(n)) \in Nat
      BY <1>1, PathType
    <3>2. PathTo(n) # <<>>
      BY <1>1, <3>1
    <3>3. parent[n] # start
      BY <1>1, <2>2, <3>2, PathOfChild
    <3>4. /\ parent[n] \in Dirs /\ parent[n] \in S /\ k \in 1..Len(PathTo(parent[n]))
          /\ \A m \in 1..Len(PathTo(parent[n])) : PathTo(n)[m] = PathTo(parent[n])[m]
      <4>1. parent[n] \in Dirs /\ parent[n] < n
        BY <1>1, <3>2, <3>3, PathOfChild DEF TreeInv
      <4>2. /\ Len(PathTo(n)) = Len(PathTo(parent[n])) + 1
            /\ \A m \in 1..Len(PathTo(parent[n])) : PathTo(n)[m] = PathTo(parent[n])[m]
        BY <1>1, <3>2, <3>3, PathOfChild
      <4>3. Len(PathTo(parent[n])) \in Nat
        BY <4>1, PathType
      <4>4. k \in 1..Len(PathTo(parent[n]))
        BY <1>1, <2>2, <3>1, <4>2, <4>3
      <4>5. parent[n] \in S
        <5> HIDE DEF S
        <5> QED
          BY <1>1, <4>1
      <4> HIDE DEF S
      <4> QED
        BY <4>1, <4>2, <4>4, <4>5
    <3>5. PICK e \in Dirs : Q(parent[n], k, e)
      BY <3>4
    <3>6. \A m \in 1..k : m \in 1..Len(PathTo(parent[n]))
      BY <3>4
    <3>7. \A m \in 1..k : PathTo(e)[m] = PathTo(n)[m]
      BY <3>4, <3>5, <3>6
    <3> QED
      BY <3>5, <3>7
  <2> QED
    BY <2>1, <2>2
<1>2. \A n \in Nat : (\A m \in Nat : m < n => m \in S) => n \in S
  BY <1>1
<1>3. \A n \in Nat : n \in S
  <2> HIDE DEF S
  <2> QED
    BY <1>2, InductionOverNat
<1> QED
  BY <1>3
\* What is below the start has a larger number.
LEMMA BelowStart ==
  ASSUME TreeInv
  PROVE  \A d \in Dirs : PathTo(d) # <<>> => start < d
<1> USE TreeBounds DEF Root, Dirs
<1> DEFINE S == {n \in Nat : n \in Dirs /\ PathTo(n) # <<>> => start < n}
<1>1. ASSUME NEW n \in Nat, \A m \in Nat : m < n => m \in S, n \in Dirs, PathTo(n) # <<>>
      PROVE  start < n
  <2>1. parent[n] < n /\ parent[n] \in 0..N /\ start \in 0..N
    BY <1>1 DEF TreeInv
  <2>2. CASE parent[n] = start
    BY <2>1, <2>2
  <2>3. CASE parent[n] # start
    <3>1. parent[n] \in Dirs /\ PathTo(parent[n]) # <<>>
      BY <1>1, <2>3, PathOfChild
    <3>2. start < parent[n]
      BY <1>1, <2>1, <3>1
    <3> QED
      BY <2>1, <3>2
  <2> QED
    BY <2>2, <2>3
<1>2. \A n \in Nat : (\A m \in Nat : m < n => m \in S) => n \in S
  BY <1>1
<1>3. \A n \in Nat : n \in S
  <2> HIDE DEF S
  <2> QED
    BY <1>2, InductionOverNat
<1> QED
  BY <1>3

\* One step further down.
LEMMA ChildPath ==
  ASSUME TreeInv, NEW e \in Dirs, PathTo(e) # <<>>, NEW d \in Dirs, parent[d] = e
  PROVE  /\ PathTo(d) = Append(PathTo(e), name[d]) /\ PathTo(d) # <<>> /\ e < d
         /\ Len(PathTo(e)) \in Nat \ {0} /\ Len(PathTo(d)) = Len(PathTo(e)) + 1
         /\ \A k \in 1..Len(PathTo(e)) : PathTo(d)[k] = PathTo(e)[k]
         /\ PathTo(d)[Len(PathTo(e)) + 1] = name[d]
<1> USE TreeBounds DEF Root, Dirs
<1>1. start < e /\ start \in 0..N
  BY BelowStart DEF TreeInv
<1>2. PathTo(d) = Append(PathTo(e), name[d])
  BY <1>1, PathToIs
<1>3. PathTo(e) \in Seq(Names) /\ name[d] \in Names /\ e < d
  BY PathType DEF TreeInv
<1> DEFINE p == PathTo(e)
<1>4. /\ Len(p) \in Nat \ {0} /\ \A k \in 1..Len(p) : Append(p, name[d])[k] = p[k]
      /\ Len(Append(p, name[d])) = Len(p) + 1 /\ Append(p, name[d])[Len(p) + 1] = name[d]
      /\ Append(p, name[d]) # <<>>
  <2> HIDE DEF p
  <2> QED
    BY <1>3 DEF p
<1> QED
  BY <1>2, <1>3, <1>4

LEMMA FirstPath ==
  ASSUME TreeInv, NEW d \in Dirs, parent[d] = start
  PROVE  PathTo(d) = <<name[d]>> /\ Len(PathTo(d)) = 1 /\ PathTo(d)[1] = name[d]
BY PathToIs

\* A path that goes on below q goes on with the name of a directory in q.
LEMMA NextAfter ==
  ASSUME TreeInv, NEW d \in Dirs, NEW q \in Dirs, PathTo(q) # <<>>,
         Len(PathTo(q)) < Len(PathTo(d)),
         \A m \in 1..Len(PathTo(q)) : PathTo(d)[m] = PathTo(q)[m]
  PROVE  PathTo(d)[Len(PathTo(q)) + 1] \in NamesIn(q)
<1> USE TreeBounds DEF Root, Dirs
<1> DEFINE n == Len(PathTo(q))
<1>1. PathTo(q) \in Seq(Names) /\ PathTo(d) \in Seq(Names)
  BY PathType
<1>2. n \in Nat \ {0} /\ Len(PathTo(d)) \in Nat
  <2> DEFINE p == PathTo(q)
  <2>1. p \in Seq(Names) /\ p # <<>>
    BY <1>1
  <2> HIDE DEF p
  <2>2. Len(p) \in Nat \ {0}
    BY <2>1
  <2> QED
    BY <1>1, <2>2 DEF p
<1>3. n + 1 \in 1..Len(PathTo(d))
  BY <1>2
<1>4. PICK e \in Dirs : /\ Len(PathTo(e)) = n + 1
                        /\ \A m \in 1..(n + 1) : PathTo(e)[m] = PathTo(d)[m]
  BY <1>3, PathsBegin
<1>5. PathTo(e) # <<>>
  <2>1. Len(PathTo(e)) # 0
    BY <1>2, <1>4
  <2> QED
    BY <2>1
<1>6. parent[e] # start
  BY <1>2, <1>4, <1>5, PathOfChild
<1>7. /\ parent[e] \in Dirs /\ PathTo(parent[e]) # <<>>
      /\ Len(PathTo(e)) = Len(PathTo(parent[e])) + 1
      /\ \A k \in 1..Len(PathTo(parent[e])) : PathTo(e)[k] = PathTo(parent[e])[k]
      /\ PathTo(e)[Len(PathTo(e))] = name[e]
  BY <1>5, <1>6, PathOfChild
<1>8. PathTo(parent[e]) \in Seq(Names)
  BY <1>7, PathType
<1>9. PathTo(parent[e]) = PathTo(q)
  <2>1. Len(PathTo(parent[e])) = n
    <3>1. Len(PathTo(parent[e])) \in Nat
      BY <1>8
    <3> QED
      BY <1>2, <1>4, <1>7, <3>1
  <2>2. \A k \in 1..n : PathTo(parent[e])[k] = PathTo(q)[k]
    BY <1>2, <1>4, <1>7, <2>1
  <2> QED
    BY <1>1, <1>8, <2>1, <2>2, SeqEqual
<1>10. parent[e] = q
  BY <1>7, <1>9, PathIsUnique
<1>11. PathTo(d)[n + 1] = name[e]
  BY <1>2, <1>4, <1>7
<1> QED
  BY <1>10, <1>11 DEF NamesIn, Children

LEMMA FirstName ==
  ASSUME TreeInv, NEW d \in Dirs, PathTo(d) # <<>>
  PROVE  PathTo(d)[1] \in NamesIn(start)
<1> USE TreeBounds DEF Root, Dirs
<1>1. PathTo(d) \in Seq(Names)
  BY PathType
<1>2. 1 \in 1..Len(PathTo(d))
  BY <1>1
<1>3. PICK e \in Dirs : Len(PathTo(e)) = 1 /\ \A m \in 1..1 : PathTo(e)[m] = PathTo(d)[m]
  BY <1>2, PathsBegin
<1>4. PathTo(e) # <<>>
  BY <1>3
<1>5. parent[e] = start
  <2>1. Len(PathTo(e)) = 1 /\ ~(Len(PathTo(e)) > 1)
    BY <1>3
  <2> QED
    BY <1>4, <2>1, PathOfChild
<1>6. name[e] = PathTo(d)[1]
  BY <1>3, <1>5, FirstPath
<1> QED
  BY <1>5, <1>6 DEF NamesIn, Children

LEMMA SameTree ==
  ASSUME UNCHANGED tree
  PROVE  /\ \A d : PathTo(d)' = PathTo(d)
         /\ Reachable' = Reachable
         /\ \A a : Accessible(a)' = Accessible(a)
         /\ \A d : NamesIn(d)' = NamesIn(d)
         /\ \A d, n : Lookup(d, n)' = Lookup(d, n)
         /\ \A n : Followed(n)' = Followed(n)
         /\ TreeInv' = TreeInv
<1>1. \A d : PathTo(d)' = PathTo(d)
  BY DEF tree, PathTo, Root
<1>a. Reachable' = Reachable
  BY DEF tree, Reachable, Searchable, Up, Root
<1>2. \A a : Accessible(a)' = Accessible(a)
  BY <1>1, <1>a DEF tree, Accessible
<1>3. \A d : NamesIn(d)' = NamesIn(d)
  BY DEF tree, NamesIn, Children
<1>4. \A d, n : Lookup(d, n)' = Lookup(d, n)
  BY DEF tree, Lookup, Children, Searchable
<1>5. \A n : Followed(n)' = Followed(n)
  BY DEF tree, Followed
<1>6. TreeInv' = TreeInv
  BY DEF tree, TreeInv
<1> QED
  BY <1>1, <1>a, <1>2, <1>3, <1>4, <1>5, <1>6
\* The names in a directory, in the order readdir may give them.
LEMMA SetAsSeq ==
  ASSUME NEW T, IsFiniteSet(T), NEW f \in SetToSeqs(T)
  PROVE  /\ f \in Seq(T) /\ Len(f) \in Nat
         /\ \A a, b \in 1..Len(f) : f[a] = f[b] => a = b
         /\ \A x \in T : \E a \in 1..Len(f) : f[a] = x
<1> DEFINE n == Cardinality(T)
<1>1. n \in Nat
  BY FS_CardinalityType
<1>2. f \in [1..n -> T] /\ \A a, b \in 1..n : f[a] = f[b] => a = b
  BY DEF SetToSeqs
<1>3. f \in Seq(T) /\ Len(f) = n
  BY <1>1, <1>2
<1>4. f \in Injection(1..n, T)
  BY <1>2 DEF Injection, IsInjective
<1>5. IsFiniteSet(1..n) /\ Cardinality(1..n) = n
  <2>1. 1 \in Int /\ n \in Int /\ ~(1 > n + 1)
    BY <1>1
  <2>2. IsFiniteSet(1..n) /\ Cardinality(1..n) = IF 1 > n THEN 0 ELSE n - 1 + 1
    BY <2>1, FS_Interval
  <2> QED
    BY <1>1, <2>2
<1>6. f \in Surjection(1..n, T)
  BY <1>4, <1>5, FS_Injection
<1> QED
  BY <1>1, <1>2, <1>3, <1>6 DEF Surjection

LEMMA NamesFinite ==
  ASSUME NEW d, NEW noted \in SUBSET (NamesIn(d) \cup FileNames)
  PROVE  IsFiniteSet({m \in noted : Followed(m)})
<1>1. IsFiniteSet(Dirs)
  BY TreeBounds, FS_Interval DEF Dirs
<1>2. IsFiniteSet(Children(d))
  BY <1>1, FS_Subset DEF Children
<1> DEFINE f == [e \in Children(d) |-> name[e]]
<1>3. f \in Surjection(Children(d), NamesIn(d))
  BY DEF Surjection, NamesIn
<1>4. IsFiniteSet(NamesIn(d))
  BY <1>2, <1>3, FS_Surjection
<1>5. IsFiniteSet(NamesIn(d) \cup FileNames)
  BY <1>4, SomeNames, FS_Union
<1> QED
  BY <1>5, FS_Subset

Frames == [path : Seq(Names), todo : Seq(Names)]

LEMMA Popped ==
  ASSUME NEW S, NEW s \in Seq(S), s # <<>>
  PROVE  /\ Len(s) \in Nat \ {0} /\ Front(s) \in Seq(S) /\ Len(Front(s)) = Len(s) - 1
         /\ \A k \in 1..(Len(s) - 1) : Front(s)[k] = s[k]
         /\ Last(s) = s[Len(s)] /\ Last(s) \in S
<1>1. Len(s) \in Nat \ {0} /\ s[Len(s)] \in S
  BY EmptySeq
<1>2. /\ SubSeq(s, 1, Len(s) - 1) \in Seq(S) /\ Len(SubSeq(s, 1, Len(s) - 1)) = Len(s) - 1
      /\ \A k \in 1..(Len(s) - 1) : SubSeq(s, 1, Len(s) - 1)[k] = s[k]
  <2> DEFINE n == Len(s) - 1
             t == SubSeq(s, 1, n)
  <2>1. n \in Nat /\ 1 \in Int /\ n \in Int /\ \A k \in 1..n : s[k] \in S
    BY <1>1
  <2> HIDE DEF n
  <2>2. Len(t) = n
    BY <2>1
  <2>3. \A k \in 1..n : t[k] = s[k]
    BY <2>1
  <2>4. t \in Seq(S)
    BY <2>1
  <2> QED
    BY <2>2, <2>3, <2>4 DEF n
<1> QED
  BY <1>1, <1>2 DEF Front, Last

\* The top frame without the name it goes on with.
TakeNext(s) == Append(Front(s), [Last(s) EXCEPT !.todo = Tail(@)])

LEMMA NextTaken ==
  ASSUME NEW s \in Seq(Frames), s # <<>>, Last(s).todo # <<>>
  PROVE  /\ TakeNext(s) \in Seq(Frames) /\ TakeNext(s) # <<>> /\ Len(TakeNext(s)) = Len(s)
         /\ \A k \in 1..(Len(s) - 1) : TakeNext(s)[k] = s[k]
         /\ TakeNext(s)[Len(s)].path = s[Len(s)].path
         /\ Len(s[Len(s)].todo) \in Nat \ {0}
         /\ Len(TakeNext(s)[Len(s)].todo) = Len(s[Len(s)].todo) - 1
         /\ \A a \in 1..(Len(s[Len(s)].todo) - 1) :
              TakeNext(s)[Len(s)].todo[a] = s[Len(s)].todo[a + 1]
<1>1. Last(s) = s[Len(s)] /\ Last(s) \in Frames /\ Len(s) \in Nat \ {0}
  BY Popped
<1>2. /\ Front(s) \in Seq(Frames) /\ Len(Front(s)) = Len(s) - 1
      /\ \A k \in 1..(Len(s) - 1) : Front(s)[k] = s[k]
  BY Popped
<1> DEFINE t == Last(s).todo
           top == [Last(s) EXCEPT !.todo = Tail(@)]
<1>3. t \in Seq(Names) /\ t # <<>>
  BY <1>1 DEF Frames
<1>4. /\ Len(t) \in Nat \ {0} /\ Tail(t) \in Seq(Names) /\ Len(Tail(t)) = Len(t) - 1
      /\ \A a \in 1..(Len(t) - 1) : Tail(t)[a] = t[a + 1]
  <2> HIDE DEF t
  <2> QED
    BY <1>3, HeadTailProperties
<1>5. top \in Frames /\ top.path = Last(s).path /\ top.todo = Tail(t)
  <2> HIDE DEF t
  <2>1. Last(s) \in Frames /\ Tail(t) \in Seq(Names)
    BY <1>1, <1>4
  <2> QED
    BY <2>1 DEF Frames, t
<1> HIDE DEF top, t
<1>6. /\ TakeNext(s) = Append(Front(s), top)
  BY DEF TakeNext, top
<1>7. /\ Append(Front(s), top) \in Seq(Frames) /\ Append(Front(s), top) # <<>>
      /\ Len(Append(Front(s), top)) = Len(s)
      /\ \A k \in 1..(Len(s) - 1) : Append(Front(s), top)[k] = Front(s)[k]
      /\ Append(Front(s), top)[Len(s)] = top
  BY <1>1, <1>2, <1>5, AppendProperties
<1>8. \A k \in 1..(Len(s) - 1) : TakeNext(s)[k] = s[k]
  BY <1>2, <1>6, <1>7
<1>9. TakeNext(s)[Len(s)] = top
  BY <1>6, <1>7
<1>10. s[Len(s)].todo = t /\ s[Len(s)].path = top.path /\ TakeNext(s)[Len(s)].todo = Tail(t)
  BY <1>1, <1>5, <1>9 DEF t
<1> QED
  BY <1>4, <1>5, <1>6, <1>7, <1>8, <1>9, <1>10
LEMMA InitWalkIInv == Init => WalkIInv
<1> SUFFICES ASSUME Init PROVE WalkIInv
  OBVIOUS
<1> USE DEF Init
<1>1. TreeInv
  <2>1. /\ parent \in [Dirs -> 0..N] /\ \A d \in Dirs : parent[d] < d
        /\ name \in [Dirs -> Names] /\ start \in 0..N
    OBVIOUS
  <2> QED
    BY <2>1 DEF TreeInv
<1>2. pending \subseteq Names
  BY <1>1 DEF NamesIn, Children, TreeInv
<1>3. /\ Len(stack) = 0 /\ DOMAIN stack = {} /\ stack \in Seq([path : Seq(Names), todo : Seq(Names)])
      /\ out \in Seq([heading : Seq(Names), dir : Dirs]) /\ Len(out) = 0
  OBVIOUS
<1>4. TypeOK
  BY <1>1, <1>2, <1>3, TreeBounds DEF TypeOK, TreeInv
<1>5. FrameInv /\ WalkInv /\ HeadingInv
  <2>1. Nested(stack)
    BY <1>3 DEF Nested
  <2> QED
    BY <1>3, <2>1 DEF FrameInv, WalkInv, HeadingInv
<1>6. DueInv
  <2> SUFFICES ASSUME NEW d \in Dirs, Due(d) PROVE Awaited(d) /\ ListingsOf(d) = {}
    BY DEF DueInv
  <2>1. PathTo(d)[1] \in pending
    BY <1>1, FirstName DEF Due
  <2> QED
    BY <1>3, <2>1 DEF Awaited, ListingsOf
<1> QED
  BY <1>1, <1>4, <1>5, <1>6 DEF WalkIInv

\* A step that only changes the status.
LEMMA OnlyStatus ==
  ASSUME WalkIInv, UNCHANGED <<tree, cwd, pending, stack, out>>,
         status' \in {"run", "done", "crashed", "refused"},
         status' = "done" => stack = <<>> /\ pending = {},
         status' = "crashed" => stack # <<>>,
         status' = "crashed" /\ stack # <<>> /\ Accessible(stack[1].path[1]) => FrameLimit < N
  PROVE  WalkIInv'
<1> USE DEF WalkIInv
<1>1. TypeOK'
  BY DEF TypeOK, tree
<1>2. TreeInv'
  BY SameTree DEF tree
<1>3. FrameInv'
  BY SameTree DEF FrameInv, tree
<1>4. WalkInv'
  <2>1. \A k, e : Visits(k, e)' = Visits(k, e)
    BY SameTree DEF Visits
  <2>2. Accessible(stack[1].path[1])' = Accessible(stack[1].path[1])
    BY SameTree
  <2> QED
    BY <2>1, <2>2 DEF WalkInv
<1>5. HeadingInv'
  BY SameTree DEF HeadingInv
<1>6. DueInv'
  <2>1. \A d : Due(d)' = Due(d)
    BY SameTree DEF Due
  <2>2. \A d : ListingsOf(d)' = ListingsOf(d)
    BY SameTree DEF ListingsOf
  <2>3. \A d : Awaited(d)' = Awaited(d)
    <3>1. \A k, d : Holds(k, d)' = Holds(k, d)
      BY SameTree DEF Holds
    <3> QED
      BY <3>1, SameTree DEF Awaited
  <2> QED
    BY <2>1, <2>2, <2>3 DEF DueInv
<1> QED
  BY <1>1, <1>2, <1>3, <1>4, <1>5, <1>6

\* The arguments of a recursive call.
LEMMA TopFrame ==
  ASSUME TypeOK, stack # <<>>
  PROVE  /\ Len(stack) \in Nat \ {0} /\ stack \in Seq(Frames)
         /\ Last(stack) = stack[Len(stack)] /\ Last(stack) \in Frames
         /\ \A k \in 1..Len(stack) : /\ stack[k] \in Frames /\ Len(stack[k].path) = k
                                     /\ Len(stack[k].todo) \in Nat
         /\ Last(stack).todo # <<>> =>
              /\ Len(Last(stack).todo) \in Nat \ {0}
              /\ Head(Last(stack).todo) = Last(stack).todo[1]
<1>1. stack \in Seq(Frames)
  BY DEF TypeOK, Frames
<1>2. \A k \in 1..Len(stack) : stack[k] \in Frames /\ Len(stack[k].path) = k
  <2>1. DOMAIN stack = 1..Len(stack) /\ \A k \in 1..Len(stack) : stack[k] \in Frames
    BY <1>1
  <2>2. \A k \in DOMAIN stack : Len(stack[k].path) = k
    BY DEF TypeOK
  <2> QED
    BY <2>1, <2>2
<1>3. Len(stack) \in Nat \ {0} /\ Last(stack) = stack[Len(stack)] /\ Last(stack) \in Frames
  BY <1>1, Popped
<1>4. \A f \in Frames : /\ Len(f.todo) \in Nat
                        /\ f.todo # <<>> => Len(f.todo) # 0 /\ Head(f.todo) = f.todo[1]
  BY DEF Frames
<1> QED
  BY <1>1, <1>2, <1>3, <1>4

\* Below a readable argument the recursive call finds a directory it can list.
LEMMA CallFinds ==
  ASSUME TypeOK, TreeInv, WalkInv, stack # <<>>, Last(stack).todo # <<>>,
         Accessible(stack[1].path[1]),
         \A k \in 1..Len(stack) : stack[k].path[1] = stack[1].path[1]
  PROVE  \E d \in Dirs :
           /\ Lookup(cwd, Head(Last(stack).todo)) = {d} /\ access[d] = "open"
           /\ PathTo(d) # <<>> /\ PathTo(d) = Append(Last(stack).path, Head(Last(stack).todo))
           /\ Len(stack) < d /\ Len(PathTo(d)) = Len(stack) + 1
           /\ \A k \in 1..Len(stack) : PathTo(d)[k] = Last(stack).path[k]
           /\ PathTo(d)[Len(stack) + 1] = Head(Last(stack).todo)
<1> DEFINE K == Len(stack)
           n == Head(Last(stack).todo)
<1>1. /\ K \in Nat \ {0} /\ Last(stack) = stack[K] /\ Len(stack[K].path) = K
      /\ n = stack[K].todo[1] /\ 1 \in 1..Len(stack[K].todo) /\ K \in 1..K /\ 1 \in 1..K
  BY TopFrame
<1>2. PICK e \in Dirs : Visits(K, e)
  BY <1>1 DEF WalkInv
<1>3. PathTo(e) = stack[K].path /\ K <= e /\ cwd = e /\ Lookup(e, n) # {}
  BY <1>1, <1>2 DEF Visits
<1>4. PICK d \in Lookup(e, n) : TRUE
  BY <1>3
<1>5. d \in Dirs /\ parent[d] = e /\ name[d] = n /\ Searchable(e)
  BY <1>4 DEF Lookup, Children
<1>6. Lookup(cwd, n) = {d}
  BY <1>3, <1>4, <1>5 DEF Lookup, Children, TreeInv
<1>7. Len(PathTo(e)) = K /\ PathTo(e) # <<>>
  BY <1>1, <1>3
<1>8. /\ PathTo(d) = Append(PathTo(e), n) /\ PathTo(d) # <<>> /\ e < d
      /\ Len(PathTo(d)) = K + 1
      /\ \A k \in 1..K : PathTo(d)[k] = PathTo(e)[k]
      /\ PathTo(d)[K + 1] = n
  BY <1>5, <1>7, ChildPath
<1>9. Head(PathTo(d)) = stack[1].path[1]
  <2>1. PathTo(d)[1] = stack[1].path[1]
    BY <1>1, <1>3, <1>8
  <2> QED
    BY <1>8, <2>1
<1>10. access[d] = "open"
  BY <1>5, <1>8, <1>9 DEF Accessible
<1>11. K < d
  <2>1. K \in Int /\ e \in Int /\ d \in Int
    BY <1>1, <1>5, TreeBounds DEF Dirs
  <2>2. K <= e /\ e < d
    BY <1>3, <1>8
  <2> HIDE DEF K
  <2> QED
    BY <2>1, <2>2
<1>12. Last(stack).path = PathTo(e)
  BY <1>1, <1>3
<1> HIDE DEF K, n
<1>13. /\ PathTo(d) = Append(Last(stack).path, n)
       /\ \A k \in 1..K : PathTo(d)[k] = Last(stack).path[k]
  BY <1>8, <1>12
<1> QED
  BY <1>5, <1>6, <1>8, <1>10, <1>11, <1>13 DEF K, n
\* Nothing DueInv speaks of changes.
LEMMA SameDue ==
  ASSUME DueInv, UNCHANGED <<tree, out>>,
         \A d \in Dirs : Due(d) => Awaited(d)' = Awaited(d)
  PROVE  DueInv'
<1>1. \A d : Due(d)' = Due(d)
  BY SameTree DEF Due
<1>2. \A d : ListingsOf(d)' = ListingsOf(d)
  BY SameTree DEF ListingsOf
<1> QED
  BY <1>1, <1>2 DEF DueInv

\* All frames belong to the same argument.
LEMMA SameArgument ==
  ASSUME TypeOK, FrameInv, stack # <<>>
  PROVE  \A k \in 1..Len(stack) : stack[k].path[1] = stack[1].path[1]
<1> SUFFICES ASSUME NEW k \in 1..Len(stack), k # 1
             PROVE  stack[k].path[1] = stack[1].path[1]
  OBVIOUS
<1>1. Len(stack) \in Nat \ {0}
  BY TopFrame
<1>2. 1 \in 1..Len(stack) /\ 1 < k /\ 1 \in 1..1
  BY <1>1
<1> QED
  BY <1>2 DEF FrameInv, Nested

LEMMA ReturnKeeps ==
  ASSUME WalkIInv, Return
  PROVE  WalkIInv'
<1> USE DEF WalkIInv
<1> DEFINE K == Len(stack)
<1>1. /\ UNCHANGED tree /\ pending' = pending /\ out' = out /\ status' = status /\ status = "run"
      /\ stack # <<>> /\ Last(stack).todo = <<>> /\ cwd' = Back(K - 1, cwd)
      /\ stack' = Front(stack)
  BY DEF Return
<1>2. /\ K \in Nat \ {0} /\ stack \in Seq(Frames) /\ Last(stack) = stack[K]
      /\ \A k \in 1..K : stack[k] \in Frames /\ Len(stack[k].path) = k
      /\ Len(stack[K].todo) = 0
  <2>1. Len(<<>>) = 0
    OBVIOUS
  <2> QED
    BY <1>1, <2>1, TopFrame
<1>3. /\ stack' \in Seq(Frames) /\ Len(stack') = K - 1
      /\ \A k \in 1..(K - 1) : stack'[k] = stack[k]
  BY <1>1, <1>2, Popped
<1>4. \A k \in 1..(K - 1) : k \in 1..K
  BY <1>2
<1> HIDE DEF K
<1>5. TypeOK'
  <2>1. cwd' \in 0..N
    BY <1>1, TreeBounds DEF TypeOK, Back, Climb, Up, TreeInv, Root, Dirs
  <2>2. Len(stack') <= FrameLimit /\ \A k \in DOMAIN stack' : Len(stack'[k].path) = k
    <3>1. K <= FrameLimit /\ DOMAIN stack' = 1..(K - 1)
      BY <1>2, <1>3 DEF TypeOK, K
    <3> QED
      BY <1>2, <1>3, <1>4, <3>1, TreeBounds
  <2> QED
    BY <1>1, <1>3, <2>1, <2>2 DEF TypeOK, tree, Frames
<1>6. TreeInv'
  BY <1>1, SameTree
<1>7. FrameInv'
  <2>1. stack' = <<>> /\ Reachable => cwd' = start
    <3> SUFFICES ASSUME stack' = <<>>, Reachable PROVE cwd' = start
      OBVIOUS
    <3>1. K - 1 = 0
      BY <1>3
    <3> QED
      BY <1>1, <3>1 DEF Back
  <2>2. stack' # <<>> => stack'[1].path[1] \notin pending
    <3> SUFFICES ASSUME stack' # <<>> PROVE stack'[1].path[1] \notin pending
      OBVIOUS
    <3>1. Len(stack') # 0
      BY <1>3
    <3>2. 1 \in 1..(K - 1)
      BY <1>2, <1>3, <3>1
    <3> QED
      BY <1>1, <1>3, <3>2 DEF FrameInv
  <2>3. Nested(stack')
    <3>1. /\ \A k \in 1..Len(stack') : k \in 1..Len(stack) /\ stack'[k] = stack[k]
          /\ Nested(stack)
      BY <1>3, <1>4 DEF FrameInv, K
    <3>2. ASSUME NEW k \in 1..Len(stack')
          PROVE  /\ \A a, b \in 1..Len(stack'[k].todo) :
                      stack'[k].todo[a] = stack'[k].todo[b] => a = b
                 /\ \A m \in 1..Len(stack') : k < m =>
                      /\ \A l \in 1..k : stack'[m].path[l] = stack'[k].path[l]
                      /\ \A a \in 1..Len(stack'[k].todo) :
                           stack'[k].todo[a] # stack'[m].path[k + 1]
      <4>1. k \in 1..Len(stack) /\ stack'[k] = stack[k]
        BY <3>1
      <4>2. \A a, b \in 1..Len(stack[k].todo) : stack[k].todo[a] = stack[k].todo[b] => a = b
        BY <3>1, <4>1 DEF Nested
      <4>3. ASSUME NEW m \in 1..Len(stack'), k < m
            PROVE  /\ \A l \in 1..k : stack'[m].path[l] = stack'[k].path[l]
                   /\ \A a \in 1..Len(stack'[k].todo) :
                        stack'[k].todo[a] # stack'[m].path[k + 1]
        <5>1. m \in 1..Len(stack) /\ stack'[m] = stack[m]
          BY <3>1
        <5> QED
          BY <3>1, <4>1, <4>3, <5>1 DEF Nested
      <4> QED
        BY <4>1, <4>2, <4>3
    <3> QED
      BY <3>2 DEF Nested
  <2>4. pending' \subseteq NamesIn(start)'
    BY <1>1, SameTree DEF FrameInv, tree
  <2>5. status' # "done"
    BY <1>1
  <2>6. start' = start /\ Reachable' = Reachable
    BY <1>1, SameTree DEF tree
  <2> QED
    BY <1>1, <1>3, <2>1, <2>2, <2>3, <2>4, <2>5, <2>6 DEF FrameInv
<1>8. WalkInv'
  <2> SUFFICES ASSUME stack' # <<>>, Accessible(stack[1].path[1])'
               PROVE  \A k \in 1..Len(stack') : \E e \in Dirs : Visits(k, e)'
    BY <1>1 DEF WalkInv
  <2>1. Len(stack') # 0
    BY <1>3
  <2>2. K - 1 \in 1..(K - 1) /\ 1 \in 1..(K - 1) /\ K > 1
    BY <1>2, <1>3, <2>1
  <2>3. Accessible(stack[1].path[1])
    <3>1. stack'[1].path[1] = stack[1].path[1]
      BY <1>3, <2>2
    <3> QED
      BY <1>1, <3>1, SameTree
  <2>4. \A k \in 1..K : \E e \in Dirs : Visits(k, e)
    BY <1>1, <2>3 DEF WalkInv, K
  <2>5. PICK top \in Dirs : Visits(K, top)
    BY <1>2, <2>4
  <2>6. PathTo(top) = stack[K].path /\ cwd = top /\ Len(PathTo(top)) = K /\ PathTo(top) # <<>>
    <3>1. PathTo(top) = stack[K].path /\ cwd = top
      BY <2>5 DEF Visits, K
    <3>2. Len(PathTo(top)) = K
      BY <1>2, <3>1
    <3>3. PathTo(top) # <<>>
      BY <1>2, <3>2
    <3> QED
      BY <3>1, <3>2, <3>3
  <2>7. /\ parent[top] \in Dirs /\ PathTo(parent[top]) # <<>>
        /\ Len(PathTo(parent[top])) = K - 1
        /\ \A l \in 1..(K - 1) : PathTo(parent[top])[l] = stack[K].path[l]
    <3>1. parent[top] # start
      <4>1. parent[top] = start => Len(PathTo(top)) = 1
        BY <2>6, PathOfChild
      <4> QED
        BY <1>2, <2>2, <2>6, <4>1
    <3>2. /\ parent[top] \in Dirs /\ PathTo(parent[top]) # <<>>
          /\ Len(PathTo(top)) = Len(PathTo(parent[top])) + 1
          /\ \A l \in 1..Len(PathTo(parent[top])) : PathTo(top)[l] = PathTo(parent[top])[l]
      BY <2>6, <3>1, PathOfChild
    <3>3. Len(PathTo(parent[top])) \in Nat
      BY <3>2, PathType DEF Dirs
    <3>4. Len(PathTo(parent[top])) = K - 1
      BY <1>2, <2>6, <3>2, <3>3
    <3> QED
      BY <2>6, <3>2, <3>4
  <2>a. access[top] = "open" /\ access[parent[top]] = "open"
    <3>1. stack[K].path[1] = stack[1].path[1]
      BY <1>1, <1>2, SameArgument DEF K
    <3>2. Head(PathTo(top)) = stack[1].path[1]
      BY <2>6, <3>1
    <3>3. Head(PathTo(parent[top])) = stack[1].path[1]
      BY <2>2, <2>7, <3>1
    <3> QED
      BY <2>3, <2>6, <2>7, <3>2, <3>3 DEF Accessible
  <2>8. ASSUME NEW k \in 1..(K - 1) PROVE \E e \in Dirs : Visits(k, e)'
    <3>1. PICK e \in Dirs : Visits(k, e)
      BY <1>4, <2>4
    <3>2. k = K - 1 => cwd' = e
      <4> SUFFICES ASSUME k = K - 1 PROVE cwd' = e
        OBVIOUS
      <4>1. PathTo(e) = stack[k].path /\ Len(PathTo(e)) = K - 1
        BY <1>2, <1>4, <3>1 DEF Visits
      <4>2. \A l \in 1..(K - 1) : stack[K].path[l] = stack[k].path[l]
        <5>1. k < K /\ k \in 1..K /\ K \in 1..K
          BY <1>2
        <5>2. Nested(stack) /\ K = Len(stack)
          BY DEF FrameInv, K
        <5> QED
          BY <5>1, <5>2 DEF Nested
      <4>3. PathTo(parent[top]) = PathTo(e)
        <5>1. PathTo(parent[top]) \in Seq(Names) /\ PathTo(e) \in Seq(Names)
          BY <2>7, PathType DEF Dirs
        <5> QED
          BY <2>7, <4>1, <4>2, <5>1, SeqEqual
      <4>4. parent[top] = e
        BY <2>7, <4>3, PathIsUnique
      <4>5. cwd' = Up(top)
        <5>1. Searchable(top) /\ Searchable(Up(top))
          BY <2>7, <2>a, TreeBounds DEF Searchable, Up, Root, Dirs
        <5> QED
          BY <1>1, <1>2, <2>2, <2>6, <5>1 DEF Back, Climb
      <4> QED
        BY <4>4, <4>5, TreeBounds DEF Up, Root, Dirs
    <3>3. Visits(k, e)'
      <4>1. /\ PathTo(e)' = stack'[k].path /\ k <= e
            /\ \A a \in 1..Len(stack'[k].todo) : Lookup(e, stack'[k].todo[a]) # {}
        BY <1>1, <1>3, <3>1, SameTree DEF Visits
      <4>2. \A n : Lookup(e, n)' = Lookup(e, n)
        BY <1>1, SameTree
      <4> QED
        BY <1>3, <3>2, <4>1, <4>2 DEF Visits
    <3> QED
      BY <3>3
  <2> QED
    BY <1>3, <2>8
<1>9. HeadingInv'
  BY <1>1, SameTree DEF HeadingInv
<1>10. DueInv'
  <2> SUFFICES ASSUME NEW d \in Dirs PROVE Awaited(d)' = Awaited(d)
    BY <1>1, SameDue
  <2>1. ASSUME NEW k \in 1..(K - 1) PROVE Holds(k, d)' = Holds(k, d)
    <3>1. stack'[k] = stack[k]
      BY <1>3
    <3>2. PathTo(d)' = PathTo(d)
      BY <1>1, SameTree
    <3> QED
      BY <3>1, <3>2 DEF Holds
  <2>2. ~Holds(K, d)
    BY <1>2 DEF Holds
  <2>3. \A k \in 1..K : k \in 1..(K - 1) \/ k = K
    BY <1>2
  <2>4. (\E k \in 1..K : Holds(k, d)) <=> (\E k \in 1..(K - 1) : Holds(k, d)')
    BY <1>4, <2>1, <2>2, <2>3
  <2>5. PathTo(d)' = PathTo(d) /\ pending' = pending
    BY <1>1, SameTree
  <2> QED
    BY <1>3, <2>4, <2>5 DEF Awaited, K
<1> QED
  BY <1>5, <1>6, <1>7, <1>8, <1>9, <1>10
\* The top frame goes on with its next name.
LEMMA NestedNext ==
  ASSUME NEW s \in Seq(Frames), s # <<>>, Last(s).todo # <<>>, Nested(s)
  PROVE  /\ Nested(TakeNext(s))
         /\ \A k \in 1..Len(s) :
              /\ TakeNext(s)[k].path = s[k].path
              /\ \A a \in 1..Len(TakeNext(s)[k].todo) : \E b \in 1..Len(s[k].todo) :
                   TakeNext(s)[k].todo[a] = s[k].todo[b]
         /\ \A a \in 1..Len(TakeNext(s)[Len(s)].todo) :
              TakeNext(s)[Len(s)].todo[a] # s[Len(s)].todo[1]
         /\ \A b \in 1..Len(s[Len(s)].todo) : b = 1 \/
              \E a \in 1..Len(TakeNext(s)[Len(s)].todo) :
                TakeNext(s)[Len(s)].todo[a] = s[Len(s)].todo[b]
<1> DEFINE K == Len(s)
           t == s[K].todo
           g == TakeNext(s)
<1>1. /\ K \in Nat \ {0} /\ Len(t) \in Nat \ {0} /\ Len(g) = K /\ Len(g[K].todo) = Len(t) - 1
      /\ g[K].path = s[K].path /\ \A k \in 1..(K - 1) : g[k] = s[k]
      /\ \A a \in 1..(Len(t) - 1) : g[K].todo[a] = t[a + 1]
  BY NextTaken, Popped
<1> HIDE DEF g
<1>2. \A a \in 1..(Len(t) - 1) : a + 1 \in 1..Len(t) /\ a + 1 # 1
  BY <1>1
<1>3. \A k \in 1..K : k = K \/ k \in 1..(K - 1)
  BY <1>1
<1>4. \A k \in 1..K : g[k].path = s[k].path
  BY <1>1, <1>3
<1>5. \A k \in 1..K : \A a \in 1..Len(g[k].todo) : \E b \in 1..Len(s[k].todo) :
        g[k].todo[a] = s[k].todo[b]
  <2> SUFFICES ASSUME NEW k \in 1..K, NEW a \in 1..Len(g[k].todo)
               PROVE  \E b \in 1..Len(s[k].todo) : g[k].todo[a] = s[k].todo[b]
    OBVIOUS
  <2>1. CASE k = K
    BY <1>1, <1>2, <2>1
  <2>2. CASE k \in 1..(K - 1)
    BY <1>1, <2>2
  <2> QED
    BY <1>3, <2>1, <2>2
<1>6. \A a, b \in 1..Len(t) : t[a] = t[b] => a = b
  BY <1>1 DEF Nested
<1>7. \A a \in 1..Len(g[K].todo) : g[K].todo[a] # t[1]
  BY <1>1, <1>2, <1>6
<1>8. \A k \in 1..K : \A a, b \in 1..Len(g[k].todo) : g[k].todo[a] = g[k].todo[b] => a = b
  <2> SUFFICES ASSUME NEW k \in 1..K, NEW a \in 1..Len(g[k].todo), NEW b \in 1..Len(g[k].todo),
                      g[k].todo[a] = g[k].todo[b]
               PROVE  a = b
    OBVIOUS
  <2>1. CASE k = K
    <3>1. a \in 1..(Len(t) - 1) /\ b \in 1..(Len(t) - 1) /\ g[K].todo[a] = g[K].todo[b]
      BY <1>1, <2>1
    <3>2. t[a + 1] = t[b + 1] /\ a + 1 \in 1..Len(t) /\ b + 1 \in 1..Len(t)
      BY <1>1, <1>2, <3>1
    <3>3. a + 1 = b + 1
      BY <1>6, <3>2
    <3> QED
      BY <1>1, <3>1, <3>3
  <2>2. CASE k \in 1..(K - 1)
    BY <1>1, <2>2 DEF Nested
  <2> QED
    BY <1>3, <2>1, <2>2
<1>9. Nested(g)
  <2> SUFFICES ASSUME NEW k \in 1..K, NEW m \in 1..K, k < m
               PROVE  /\ \A l \in 1..k : g[m].path[l] = g[k].path[l]
                      /\ \A a \in 1..Len(g[k].todo) : g[k].todo[a] # g[m].path[k + 1]
    BY <1>1, <1>8 DEF Nested
  <2>1. /\ \A l \in 1..k : s[m].path[l] = s[k].path[l]
        /\ \A a \in 1..Len(s[k].todo) : s[k].todo[a] # s[m].path[k + 1]
    BY DEF Nested
  <2> QED
    BY <1>4, <1>5, <2>1
<1>10. \A b \in 1..Len(t) : b = 1 \/ \E a \in 1..Len(g[K].todo) : g[K].todo[a] = t[b]
  <2> SUFFICES ASSUME NEW b \in 1..Len(t), b # 1
               PROVE  \E a \in 1..Len(g[K].todo) : g[K].todo[a] = t[b]
    OBVIOUS
  <2>1. b - 1 \in 1..(Len(t) - 1) /\ (b - 1) + 1 = b
    BY <1>1
  <2> QED
    BY <1>1, <2>1
<1> QED
  BY <1>4, <1>5, <1>7, <1>9, <1>10 DEF g

\* A frame is pushed.
LEMMA NestedPush ==
  ASSUME NEW s \in Seq(Frames), NEW f \in Frames, Nested(s),
         \A a, b \in 1..Len(f.todo) : f.todo[a] = f.todo[b] => a = b,
         s # <<>> => /\ \A l \in 1..Len(s) : f.path[l] = s[Len(s)].path[l]
                     /\ \A a \in 1..Len(s[Len(s)].todo) :
                          s[Len(s)].todo[a] # f.path[Len(s) + 1]
  PROVE  Nested(Append(s, f))
<1> DEFINE K == Len(s)
           g == Append(s, f)
<1>1. /\ K \in Nat /\ Len(g) = K + 1 /\ g[K + 1] = f
      /\ \A k \in 1..K : g[k] = s[k]
  BY AppendProperties
<1>2. K # 0 => s # <<>>
  OBVIOUS
<1> HIDE DEF g
<1>3. \A k \in 1..(K + 1) : k = K + 1 \/ k \in 1..K
  BY <1>1
<1>4. \A k \in 1..(K + 1) : \A a, b \in 1..Len(g[k].todo) : g[k].todo[a] = g[k].todo[b] => a = b
  BY <1>1, <1>3 DEF Nested
<1>5. ASSUME NEW k \in 1..(K + 1), NEW m \in 1..(K + 1), k < m
      PROVE  /\ \A l \in 1..k : g[m].path[l] = g[k].path[l]
             /\ \A a \in 1..Len(g[k].todo) : g[k].todo[a] # g[m].path[k + 1]
  <2>1. k \in 1..K /\ K # 0 /\ K \in 1..K
    BY <1>1, <1>5
  <2>2. CASE m \in 1..K
    <3>1. g[k] = s[k] /\ g[m] = s[m]
      BY <1>1, <2>1, <2>2
    <3>2. /\ \A l \in 1..k : s[m].path[l] = s[k].path[l]
          /\ \A a \in 1..Len(s[k].todo) : s[k].todo[a] # s[m].path[k + 1]
      <4>1. k \in 1..Len(s) /\ m \in 1..Len(s)
        BY <2>1, <2>2
      <4> HIDE DEF K
      <4> QED
        BY <1>5, <4>1 DEF Nested
    <3> QED
      BY <3>1, <3>2
  <2>3. CASE m = K + 1 /\ k = K
    BY <1>1, <1>2, <2>1, <2>3
  <2>4. CASE m = K + 1 /\ k < K
    <3>1. \A l \in 1..K : f.path[l] = s[K].path[l]
      BY <1>2, <2>1
    <3>2. /\ \A l \in 1..k : s[K].path[l] = s[k].path[l]
          /\ \A a \in 1..Len(s[k].todo) : s[k].todo[a] # s[K].path[k + 1]
      BY <2>1, <2>4 DEF Nested
    <3>3. k + 1 \in 1..K /\ \A l \in 1..k : l \in 1..K
      BY <2>1, <2>4
    <3> QED
      BY <1>1, <2>1, <2>4, <3>1, <3>2, <3>3
  <2> QED
    BY <1>1, <1>3, <2>1, <2>2, <2>3, <2>4
<1> QED
  BY <1>1, <1>4, <1>5 DEF Nested, g
Under(q, d) == Len(q) <= Len(PathTo(d)) /\ \A m \in 1..Len(q) : PathTo(d)[m] = q[m]
HoldsIn(s, k, d) ==
  /\ k < Len(PathTo(d))
  /\ \A m \in 1..k : s[k].path[m] = PathTo(d)[m]
  /\ \E a \in 1..Len(s[k].todo) : s[k].todo[a] = PathTo(d)[k + 1]

\* list_content_dir is about to be called for the name n, with the frames g below it
\* and the arguments pend to come; q is the path of what it will list.
CallReady(g, n, P, q, pend) ==
  /\ g \in Seq(Frames) /\ Nested(g) /\ \A k \in 1..Len(g) : Len(g[k].path) = k
  /\ n \in Names /\ q \in Seq(Names) /\ Len(q) = Len(g) + 1 /\ q[Len(g) + 1] = n
  /\ q = Append(P, n)
  /\ g # <<>> => /\ \A k \in 1..Len(g) : q[k] = g[Len(g)].path[k] /\ g[k].path[1] = q[1]
                 /\ \A a \in 1..Len(g[Len(g)].todo) : g[Len(g)].todo[a] # n
  /\ pend \subseteq NamesIn(start) /\ q[1] \notin pend
  /\ Accessible(q[1]) =>
       /\ \E d \in Dirs : /\ Lookup(cwd, n) = {d} /\ access[d] = "open"
                          /\ PathTo(d) = q /\ Len(g) < d
       /\ \A k \in 1..Len(g) : \E e \in Dirs :
            /\ PathTo(e) = g[k].path /\ k <= e
            /\ \A a \in 1..Len(g[k].todo) : Lookup(e, g[k].todo[a]) # {}
  /\ \A d \in Dirs : Due(d) =>
       (Awaited(d) <=> \/ PathTo(d)[1] \in pend
                       \/ \E k \in 1..Len(g) : HoldsIn(g, k, d)
                       \/ Under(q, d))

LEMMA ArgumentReady ==
  ASSUME WalkIInv, stack = <<>>, NEW n \in pending
  PROVE  CallReady(<<>>, n, <<>>, <<n>>, pending \ {n})
<1> USE DEF WalkIInv
<1>1. pending \subseteq NamesIn(start) /\ n \in NamesIn(start) /\ n \in Names
  BY DEF FrameInv, TypeOK
<1>2. PICK d \in Dirs : parent[d] = start /\ name[d] = n
  BY <1>1 DEF NamesIn, Children
<1>3. Accessible(n) => Lookup(cwd, n) = {d}
  <2> SUFFICES ASSUME Accessible(n) PROVE Lookup(cwd, n) = {d}
    OBVIOUS
  <2>1. cwd = start /\ Searchable(start)
    BY DEF FrameInv, Accessible, Reachable
  <2> QED
    BY <1>2, <2>1 DEF Lookup, Children, TreeInv
<1>4. PathTo(d) = <<n>>
  BY <1>2, FirstPath
<1>5. Accessible(n) => access[d] = "open"
  BY <1>4 DEF Accessible
<1>6. 0 < d
  BY TreeBounds DEF Dirs
<1>7. /\ <<>> \in Seq(Frames) /\ Len(<<>>) = 0 /\ Nested(<<>>) /\ <<n>> \in Seq(Names)
      /\ Len(<<n>>) = 1 /\ <<n>>[1] = n /\ <<n>> = Append(<<>>, n)
  BY <1>1 DEF Nested
<1>8. ASSUME NEW e \in Dirs, Due(e)
      PROVE  Awaited(e) <=> PathTo(e)[1] \in pending \ {n} \/ Under(<<n>>, e)
  <2>1. PathTo(e) \in Seq(Names) /\ PathTo(e) # <<>>
    BY <1>8, PathType DEF Due, Dirs
  <2>2. 1 <= Len(PathTo(e))
    <3> DEFINE p == PathTo(e)
    <3> HIDE DEF p
    <3>1. p \in Seq(Names) /\ p # <<>>
      BY <2>1 DEF p
    <3>2. 1 <= Len(p)
      BY <3>1
    <3> QED
      BY <3>2 DEF p
  <2>3. Under(<<n>>, e) <=> PathTo(e)[1] = n
    BY <1>7, <2>2 DEF Under
  <2>4. Awaited(e) <=> PathTo(e)[1] \in pending
    BY DEF Awaited
  <2> QED
    BY <2>3, <2>4
<1>9. \E e \in Dirs : /\ Accessible(n) => Lookup(cwd, n) = {e} /\ access[e] = "open"
                     /\ PathTo(e) = <<n>> /\ 0 < e
  BY <1>3, <1>4, <1>5, <1>6
<1> QED
  BY <1>1, <1>7, <1>8, <1>9 DEF CallReady

LEMMA RecurseReady ==
  ASSUME WalkIInv, status = "run", stack # <<>>, Last(stack).todo # <<>>
  PROVE  CallReady(TakeNext(stack), Head(Last(stack).todo), Last(stack).path,
                   Append(Last(stack).path, Head(Last(stack).todo)), pending)
<1> USE DEF WalkIInv
<1> DEFINE K == Len(stack)
           n == Head(Last(stack).todo)
           P == Last(stack).path
           g == TakeNext(stack)
           q == Append(P, n)
<1>1. /\ K \in Nat \ {0} /\ stack \in Seq(Frames) /\ Last(stack) = stack[K]
      /\ \A k \in 1..K : stack[k] \in Frames /\ Len(stack[k].path) = k
      /\ n = stack[K].todo[1] /\ Len(stack[K].todo) \in Nat \ {0}
  BY TopFrame
<1>2. P \in Seq(Names) /\ Len(P) = K /\ n \in Names /\ stack[K].todo \in Seq(Names)
  <2>1. stack[K] \in Frames /\ Len(stack[K].path) = K
    BY <1>1
  <2> QED
    BY <1>1, <2>1 DEF Frames
<1>3. /\ q \in Seq(Names) /\ Len(q) = K + 1 /\ q[K + 1] = n
      /\ \A k \in 1..K : q[k] = P[k]
  <2> HIDE DEF P, n
  <2> QED
    BY <1>2, AppendProperties
<1>4. Nested(stack)
  BY DEF FrameInv
<1>5. /\ g \in Seq(Frames) /\ Len(g) = K /\ g # <<>>
  BY <1>1, NextTaken
<1>6. /\ Nested(g)
      /\ \A k \in 1..K : g[k].path = stack[k].path
      /\ \A k \in 1..K : \A a \in 1..Len(g[k].todo) : \E b \in 1..Len(stack[k].todo) :
           g[k].todo[a] = stack[k].todo[b]
      /\ \A a \in 1..Len(g[K].todo) : g[K].todo[a] # n
      /\ \A b \in 1..Len(stack[K].todo) : b = 1 \/
           \E a \in 1..Len(g[K].todo) : g[K].todo[a] = stack[K].todo[b]
  <2>1. /\ stack \in Seq(Frames) /\ stack # <<>> /\ Last(stack).todo # <<>>
        /\ n = stack[Len(stack)].todo[1]
    BY <1>1
  <2> HIDE DEF n
  <2> QED
    BY <1>4, <2>1, NestedNext
<1>7. \A k \in 1..(K - 1) : g[k] = stack[k]
  BY <1>1, NextTaken
<1>8. \A k \in 1..K : stack[k].path[1] = stack[1].path[1]
  BY <1>1, SameArgument
<1>9. K \in 1..K /\ 1 \in 1..K /\ q[1] = stack[1].path[1]
  <2>1. K \in 1..K /\ 1 \in 1..K
    BY <1>1
  <2> QED
    BY <1>1, <1>3, <1>8, <2>1
<1>10. pending \subseteq NamesIn(start) /\ q[1] \notin pending
  BY <1>9 DEF FrameInv
<1>11. ASSUME Accessible(q[1])
       PROVE  /\ \E d \in Dirs : /\ Lookup(cwd, n) = {d} /\ access[d] = "open"
                                 /\ PathTo(d) = q /\ K < d
              /\ \A k \in 1..K : \E e \in Dirs :
                   /\ PathTo(e) = g[k].path /\ k <= e
                   /\ \A a \in 1..Len(g[k].todo) : Lookup(e, g[k].todo[a]) # {}
  <2>1. Accessible(stack[1].path[1])
    BY <1>9, <1>11
  <2>2. \E d \in Dirs : /\ Lookup(cwd, n) = {d} /\ access[d] = "open"
                        /\ PathTo(d) = q /\ K < d
    BY <1>8, <2>1, CallFinds
  <2>3. ASSUME NEW k \in 1..K
        PROVE  \E e \in Dirs : /\ PathTo(e) = g[k].path /\ k <= e
                   /\ \A a \in 1..Len(g[k].todo) : Lookup(e, g[k].todo[a]) # {}
    <3>1. PICK e \in Dirs : Visits(k, e)
      BY <2>1 DEF WalkInv
    <3> HIDE DEF g
    <3>2. /\ PathTo(e) = stack[k].path /\ k <= e
          /\ \A b \in 1..Len(stack[k].todo) : Lookup(e, stack[k].todo[b]) # {}
      BY <3>1 DEF Visits
    <3>3. \A a \in 1..Len(g[k].todo) : \E b \in 1..Len(stack[k].todo) :
            g[k].todo[a] = stack[k].todo[b]
      BY <1>6
    <3>4. \A a \in 1..Len(g[k].todo) : Lookup(e, g[k].todo[a]) # {}
      BY <3>2, <3>3
    <3>5. g[k].path = stack[k].path
      BY <1>6
    <3> QED
      BY <3>2, <3>4, <3>5
  <2> QED
    BY <2>2, <2>3
<1>12. ASSUME NEW d \in Dirs
       PROVE  Awaited(d) <=> \/ PathTo(d)[1] \in pending
                             \/ \E k \in 1..K : HoldsIn(g, k, d)
                             \/ Under(q, d)
  <2>1. PathTo(d) \in Seq(Names) /\ Len(PathTo(d)) \in Nat
    BY PathType DEF Dirs
  <2> HIDE DEF g, q, K
  <2>2. \A k \in 1..(K - 1) : HoldsIn(g, k, d) <=> Holds(k, d)
    BY <1>7 DEF Holds, HoldsIn
  <2>3. \A k \in 1..K : k = K \/ k \in 1..(K - 1)
    BY <1>1
  <2>4. \A k \in 1..(K - 1) : k \in 1..K
    BY <1>1
  <2>5. ASSUME HoldsIn(g, K, d) PROVE Holds(K, d)
    <3>1. /\ K < Len(PathTo(d)) /\ \A m \in 1..K : stack[K].path[m] = PathTo(d)[m]
      BY <1>6, <1>9, <2>5 DEF HoldsIn
    <3>2. PICK a \in 1..Len(g[K].todo) : g[K].todo[a] = PathTo(d)[K + 1]
      BY <2>5 DEF HoldsIn
    <3>3. PICK b \in 1..Len(stack[K].todo) : g[K].todo[a] = stack[K].todo[b]
      BY <1>6, <1>9
    <3> QED
      BY <3>1, <3>2, <3>3 DEF Holds
  <2>6. ASSUME Under(q, d) PROVE Holds(K, d)
    <3>1. K < Len(PathTo(d)) /\ K + 1 \in 1..Len(q) /\ \A k \in 1..K : k \in 1..Len(q)
      BY <1>1, <1>3, <2>1, <2>6 DEF Under
    <3>2. PathTo(d)[K + 1] = n /\ \A m \in 1..K : PathTo(d)[m] = P[m]
      BY <1>3, <2>6, <3>1 DEF Under
    <3>3. 1 \in 1..Len(stack[K].todo) /\ stack[K].todo[1] = n /\ P = stack[K].path
      BY <1>1
    <3> QED
      BY <3>1, <3>2, <3>3 DEF Holds
  <2>7. ASSUME Holds(K, d) PROVE HoldsIn(g, K, d) \/ Under(q, d)
    <3>1. /\ K < Len(PathTo(d)) /\ \A m \in 1..K : PathTo(d)[m] = P[m]
      BY <1>1, <2>7 DEF Holds
    <3>2. PICK b \in 1..Len(stack[K].todo) : stack[K].todo[b] = PathTo(d)[K + 1]
      BY <2>7 DEF Holds
    <3>3. CASE b = 1
      <4>1. PathTo(d)[K + 1] = n
        BY <1>1, <3>2, <3>3
      <4>2. \A m \in 1..(K + 1) : m = K + 1 \/ m \in 1..K
        BY <1>1
      <4>3. \A m \in 1..(K + 1) : PathTo(d)[m] = q[m]
        BY <1>3, <3>1, <4>1, <4>2
      <4>4. K + 1 <= Len(PathTo(d))
        BY <1>1, <2>1, <3>1
      <4> QED
        BY <1>3, <4>3, <4>4 DEF Under
    <3>4. CASE b # 1
      <4>1. PICK a \in 1..Len(g[K].todo) : g[K].todo[a] = stack[K].todo[b]
        BY <1>6, <3>4
      <4>2. \A m \in 1..K : g[K].path[m] = PathTo(d)[m]
        <5>1. g[K].path = stack[K].path
          BY <1>6, <1>9
        <5>2. stack[K].path = P
          BY <1>1
        <5> HIDE DEF g, P
        <5> QED
          BY <3>1, <5>1, <5>2
      <4> QED
        BY <3>1, <3>2, <4>1, <4>2 DEF HoldsIn
    <3> QED
      BY <3>3, <3>4
  <2>8. (\E k \in 1..K : Holds(k, d)) <=> (\E k \in 1..K : HoldsIn(g, k, d)) \/ Under(q, d)
    BY <1>9, <2>2, <2>3, <2>4, <2>5, <2>6, <2>7
  <2> QED
    BY <2>8 DEF Awaited, K
<1>13. \A k \in 1..K : Len(g[k].path) = k /\ q[k] = g[K].path[k] /\ g[k].path[1] = q[1]
  <2>1. \A k \in 1..K : Len(stack[k].path) = k /\ g[k].path = stack[k].path
    BY <1>1, <1>6
  <2>2. P = g[K].path
    <3>1. g[K].path = stack[K].path
      BY <1>9, <2>1
    <3> QED
      BY <1>1, <3>1
  <2> HIDE DEF g, q, P, n
  <2> QED
    BY <1>3, <1>8, <1>9, <2>1, <2>2
<1> HIDE DEF g, q, n, P
<1>14. q = Append(P, n)
  BY DEF q
<1>15. CallReady(g, n, P, q, pending)
  BY <1>2, <1>3, <1>5, <1>6, <1>10, <1>11, <1>12, <1>13, <1>14 DEF CallReady
<1> QED
  BY <1>15 DEF g, q, n, P
\* A directory that cannot be opened is passed over.
LEMMA CannotOpenKeeps ==
  ASSUME WalkIInv, NEW g, NEW n, NEW P, NEW q, NEW pend, CallReady(g, n, P, q, pend),
         status = "run", pending' = pend, UNCHANGED tree, CannotOpen(n, Len(g), g)
  PROVE  WalkIInv'
<1> USE DEF WalkIInv
<1> DEFINE K == Len(g)
<1>1. /\ g \in Seq(Frames) /\ K \in Nat /\ Nested(g) /\ \A k \in 1..K : Len(g[k].path) = k
      /\ pend \subseteq NamesIn(start) /\ q[1] \notin pend
      /\ g # <<>> => \A k \in 1..K : g[k].path[1] = q[1]
  BY DEF CallReady
<1>2. /\ stack' = g /\ cwd' = Back(K, cwd) /\ out' = out /\ status' = status
      /\ \A d \in Lookup(cwd, n) : ~Readable(d)
      /\ K < FrameLimit
  BY DEF CannotOpen
<1>3. ~Accessible(q[1])
  <2> SUFFICES ASSUME Accessible(q[1]) PROVE FALSE
    OBVIOUS
  <2>1. PICK d \in Dirs : Lookup(cwd, n) = {d} /\ access[d] = "open"
    BY DEF CallReady
  <2>2. ~Readable(d)
    BY <1>2, <2>1
  <2> QED
    BY <2>1, <2>2 DEF Readable
<1>4. g # <<>> => 1 \in 1..K
  BY <1>1
<1>5. TypeOK'
  <2>1. cwd' \in 0..N
    BY <1>2, TreeBounds DEF TypeOK, Back, Climb, Up, TreeInv, Root, Dirs
  <2>2. pending' \subseteq Names
    BY <1>1 DEF NamesIn, Children, TreeInv
  <2>3. \A k \in DOMAIN stack' : Len(stack'[k].path) = k
    <3>1. DOMAIN g = 1..K
      BY <1>1
    <3> QED
      BY <1>1, <1>2, <3>1
  <2>4. Len(g) <= FrameLimit
    BY <1>1, <1>2, TreeBounds
  <2> QED
    BY <1>1, <1>2, <2>1, <2>2, <2>3, <2>4 DEF TypeOK, tree, Frames
<1>6. TreeInv'
  BY SameTree
<1>7. FrameInv'
  <2>1. stack' = <<>> /\ Reachable => cwd' = start
    <3>1. g = <<>> => K = 0
      OBVIOUS
    <3> QED
      BY <1>2, <3>1 DEF Back
  <2>2. stack' # <<>> => stack'[1].path[1] \notin pending'
    BY <1>1, <1>2, <1>4
  <2>3. pending' \subseteq NamesIn(start)'
    <3>1. start' = start /\ NamesIn(start)' = NamesIn(start)
      BY SameTree DEF tree
    <3> QED
      BY <1>1, <3>1
  <2>4. Nested(stack)' /\ status' = "run" /\ start' = start /\ Reachable' = Reachable
    <3>1. Nested(stack)'
      BY <1>1, <1>2 DEF Nested
    <3> QED
      BY <1>2, <3>1, SameTree DEF tree
  <2> QED
    BY <2>1, <2>2, <2>3, <2>4 DEF FrameInv
<1>8. WalkInv'
  <2>1. stack' # <<>> => ~Accessible(stack[1].path[1])'
    <3> SUFFICES ASSUME g # <<>> PROVE ~Accessible(stack[1].path[1])'
      BY <1>2
    <3>1. stack'[1].path[1] = q[1]
      BY <1>1, <1>2, <1>4
    <3> QED
      BY <1>3, <3>1, SameTree
  <2> QED
    BY <2>1 DEF WalkInv
<1>9. HeadingInv'
  BY <1>2, SameTree DEF HeadingInv
<1>10. DueInv'
  <2> SUFFICES ASSUME NEW d \in Dirs, Due(d) PROVE Awaited(d)' = Awaited(d)
    BY <1>2, SameDue
  <2>1. ~Under(q, d)
    <3> SUFFICES ASSUME Under(q, d) PROVE FALSE
      OBVIOUS
    <3>1. Len(q) = K + 1
      BY DEF CallReady
    <3>2. 1 \in 1..Len(q)
      BY <1>1, <3>1
    <3>3. PathTo(d)[1] = q[1]
      BY <3>2 DEF Under
    <3> QED
      BY <1>3, <3>3 DEF Due
  <2>2. Awaited(d) <=> \/ PathTo(d)[1] \in pend \/ \E k \in 1..K : HoldsIn(g, k, d)
    BY <2>1 DEF CallReady
  <2>3. \A k : Holds(k, d)' <=> HoldsIn(g, k, d)
    BY <1>2, SameTree DEF Holds, HoldsIn
  <2>4. Awaited(d)' <=> \/ PathTo(d)[1] \in pend \/ \E k \in 1..K : HoldsIn(g, k, d)
    BY <1>2, <2>3, SameTree DEF Awaited
  <2>5. Awaited(d) \in BOOLEAN /\ Awaited(d)' \in BOOLEAN
    BY DEF Awaited
  <2> QED
    BY <2>2, <2>4, <2>5
<1> QED
  BY <1>5, <1>6, <1>7, <1>8, <1>9, <1>10
\* A directory is listed, and its sub-directories are noted.
LEMMA ListKeeps ==
  ASSUME WalkIInv, NEW g, NEW n, NEW P, NEW q, NEW pend, CallReady(g, n, P, q, pend),
         status = "run", pending' = pend, UNCHANGED tree, List(n, Len(g), g, P)
  PROVE  WalkIInv'
<1> USE DEF WalkIInv
<1> DEFINE K == Len(g)
<1>1. /\ g \in Seq(Frames) /\ K \in Nat /\ Nested(g) /\ \A k \in 1..K : Len(g[k].path) = k
      /\ q \in Seq(Names) /\ Len(q) = K + 1 /\ q = Append(P, n) /\ q[K + 1] = n
      /\ pend \subseteq NamesIn(start) /\ q[1] \notin pend
      /\ g # <<>> => \A k \in 1..K : g[k].path[1] = q[1] /\ q[k] = g[K].path[k]
      /\ g # <<>> => \A a \in 1..Len(g[K].todo) : g[K].todo[a] # n
  BY DEF CallReady
<1>2. PICK d \in Lookup(cwd, n) :
        /\ K < FrameLimit /\ status' = status
        /\ cwd' = IF Searchable(d) THEN d ELSE cwd
        /\ out' = Append(out, [heading |-> Append(P, n), dir |-> d])
        /\ \E noted \in Noted(d, cwd') :
             \E subs \in SetToSeqs({m \in noted : Followed(m)}) :
               stack' = Append(g, [path |-> Append(P, n), todo |-> subs])
  BY DEF List
<1>a. PICK noted \in Noted(d, cwd') : \E subs \in SetToSeqs({m \in noted : Followed(m)}) :
         stack' = Append(g, [path |-> Append(P, n), todo |-> subs])
  BY <1>2
<1>3. PICK subs \in SetToSeqs({m \in noted : Followed(m)}) :
        stack' = Append(g, [path |-> Append(P, n), todo |-> subs])
  BY <1>a
<1> DEFINE f == [path |-> q, todo |-> subs]
           new == [heading |-> q, dir |-> d]
           L == Len(out)
<1>4. d \in Dirs
  BY DEF Lookup, Children
<1>5. noted \in SUBSET (NamesIn(d) \cup FileNames) /\ (cwd' = d => noted = NamesIn(d))
  BY DEF Noted
<1>6. /\ subs \in Seq({m \in noted : Followed(m)}) /\ Len(subs) \in Nat
      /\ \A a, b \in 1..Len(subs) : subs[a] = subs[b] => a = b
      /\ \A m \in noted : Followed(m) => \E a \in 1..Len(subs) : subs[a] = m
  <2>1. IsFiniteSet({m \in noted : Followed(m)})
    BY <1>5, NamesFinite
  <2> DEFINE T == {m \in noted : Followed(m)}
  <2>2. /\ subs \in Seq(T) /\ Len(subs) \in Nat
        /\ \A a, b \in 1..Len(subs) : subs[a] = subs[b] => a = b
        /\ \A m \in T : \E a \in 1..Len(subs) : subs[a] = m
    <3>1. IsFiniteSet(T) /\ subs \in SetToSeqs(T)
      BY <2>1
    <3> HIDE DEF T
    <3> QED
      BY <3>1, SetAsSeq
  <2> QED
    BY <2>2
<1>7. noted = NamesIn(d) => \A a \in 1..Len(subs) : subs[a] \in NamesIn(d)
  BY <1>6
<1>8. NamesIn(d) \cup FileNames \subseteq Names /\ subs \in Seq(Names)
  <2>1. NamesIn(d) \cup FileNames \subseteq Names
    BY SomeNames DEF NamesIn, Children, TreeInv
  <2> QED
    BY <1>5, <1>6, <2>1
<1>9. f \in Frames /\ f.path = q /\ f.todo = subs
  BY <1>1, <1>8 DEF Frames
<1>10. /\ stack' = Append(g, f) /\ stack' \in Seq(Frames) /\ Len(stack') = K + 1
       /\ stack'[K + 1] = f /\ \A k \in 1..K : stack'[k] = g[k]
  <2>1. stack' = Append(g, f)
    BY <1>1, <1>3
  <2> HIDE DEF f
  <2> QED
    BY <1>1, <1>9, <2>1, AppendProperties
<1>11. /\ L \in Nat /\ out' \in Seq([heading : Seq(Names), dir : Dirs]) /\ Len(out') = L + 1
       /\ out'[L + 1] = new /\ \A k \in 1..L : out'[k] = out[k]
  <2>1. new \in [heading : Seq(Names), dir : Dirs] /\ out' = Append(out, new)
    BY <1>1, <1>2, <1>4
  <2>2. out \in Seq([heading : Seq(Names), dir : Dirs])
    BY DEF TypeOK
  <2> HIDE DEF new
  <2> QED
    BY <2>1, <2>2, AppendProperties
<1> HIDE DEF f, K, L
<1>12. /\ \A k \in 1..(K + 1) : k = K + 1 \/ k \in 1..K
       /\ \A k \in 1..(L + 1) : k = L + 1 \/ k \in 1..L
       /\ K + 1 \in 1..(K + 1) /\ L + 1 \in 1..(L + 1)
       /\ \A k \in 1..L : k \in 1..(L + 1) /\ k # L + 1
       /\ \A k \in 1..K : k \in 1..(K + 1) /\ k # K + 1
  BY <1>1, <1>11 DEF K
<1>13. K # 0 => g # <<>>
  BY <1>1 DEF K
<1>14. \A k \in 1..(K + 1) : stack'[k].path[1] = q[1]
  <2> SUFFICES ASSUME NEW k \in 1..(K + 1) PROVE stack'[k].path[1] = q[1]
    OBVIOUS
  <2>1. CASE k = K + 1
    BY <1>9, <1>10, <2>1
  <2>2. CASE k \in 1..K
    <3>1. K # 0
      BY <1>1, <2>2 DEF K
    <3> QED
      BY <1>1, <1>10, <1>13, <2>2, <3>1 DEF K
  <2> QED
    BY <1>12, <2>1, <2>2
<1>15. TypeOK'
  <2>1. cwd' \in 0..N
    BY <1>2, <1>4, TreeBounds DEF TypeOK, Dirs
  <2>2. pending' \subseteq Names
    BY <1>1 DEF NamesIn, Children, TreeInv
  <2>3. \A k \in DOMAIN stack' : Len(stack'[k].path) = k
    <3>1. DOMAIN stack' = 1..(K + 1)
      BY <1>1, <1>10 DEF K
    <3>2. Len(stack'[K + 1].path) = K + 1
      BY <1>1, <1>9, <1>10 DEF K
    <3>3. \A k \in 1..K : Len(stack'[k].path) = k
      BY <1>1, <1>10 DEF K
    <3> QED
      BY <1>12, <3>1, <3>2, <3>3
  <2>4. Len(stack') <= FrameLimit
    BY <1>1, <1>2, <1>10, TreeBounds DEF K
  <2> QED
    BY <1>2, <1>10, <1>11, <2>1, <2>2, <2>3, <2>4 DEF TypeOK, tree, Frames
<1>16. TreeInv'
  BY SameTree
<1>17. FrameInv'
  <2>1. stack' # <<>> /\ stack'[1].path[1] \notin pending'
    <3>1. Len(stack') # 0 /\ 1 \in 1..(K + 1)
      BY <1>1, <1>10 DEF K
    <3>2. stack' # <<>>
      BY <3>1
    <3> QED
      BY <1>1, <1>14, <3>1, <3>2
  <2>2. pending' \subseteq NamesIn(start)'
    <3>1. start' = start /\ NamesIn(start)' = NamesIn(start)
      BY SameTree DEF tree
    <3> QED
      BY <1>1, <3>1
  <2>3. Nested(stack')
    <3>1. g # <<>> => /\ \A l \in 1..K : f.path[l] = g[K].path[l]
                      /\ \A a \in 1..Len(g[K].todo) : g[K].todo[a] # f.path[K + 1]
      BY <1>1, <1>9 DEF K
    <3>2. \A a, b \in 1..Len(f.todo) : f.todo[a] = f.todo[b] => a = b
      BY <1>6, <1>9
    <3>3. Nested(Append(g, f))
      BY <1>1, <1>9, <3>1, <3>2, NestedPush DEF K
    <3> QED
      BY <1>10, <3>3
  <2>4. Nested(stack)' /\ status' # "done"
    BY <1>2, <2>3
  <2> QED
    BY <2>1, <2>2, <2>4 DEF FrameInv
<1>18. ASSUME Accessible(q[1])
       PROVE  /\ Lookup(cwd, n) = {d} /\ PathTo(d) = q /\ K < d /\ cwd' = d
              /\ noted = NamesIn(d) /\ Searchable(d)
  <2>1. PICK dd \in Dirs : /\ Lookup(cwd, n) = {dd} /\ access[dd] = "open"
                           /\ PathTo(dd) = q /\ K < dd
    BY <1>18 DEF CallReady, K
  <2>2. dd = d
    BY <2>1
  <2>3. cwd' = d /\ Searchable(d)
    BY <1>2, <2>1, <2>2 DEF Searchable
  <2> QED
    BY <1>5, <2>1, <2>2, <2>3
<1>19. WalkInv'
  <2> SUFFICES ASSUME Accessible(stack[1].path[1])'
               PROVE  \A k \in 1..(K + 1) : \E e \in Dirs : Visits(k, e)'
    BY <1>2, <1>10 DEF WalkInv
  <2>1. Accessible(q[1])
    <3>1. 1 \in 1..(K + 1)
      BY <1>1 DEF K
    <3>2. stack'[1].path[1] = q[1]
      BY <1>14, <3>1
    <3> QED
      BY <3>2, SameTree
  <2>2. Visits(K + 1, d)'
    <3>1. K + 1 <= d
      BY <1>1, <1>4, <1>18, <2>1, TreeBounds DEF K, Dirs
    <3>2. PathTo(d)' = stack'[K + 1].path
      BY <1>9, <1>10, <1>18, <2>1, SameTree
    <3>3. \A a \in 1..Len(stack'[K + 1].todo) : Lookup(d, stack'[K + 1].todo[a]) # {}
      BY <1>7, <1>9, <1>10, <1>18, <2>1 DEF Lookup, NamesIn
    <3>4. \A m : Lookup(d, m)' = Lookup(d, m)
      BY SameTree
    <3>5. cwd' = d
      BY <1>18, <2>1
    <3> QED
      BY <3>1, <3>2, <3>3, <3>4, <3>5 DEF Visits
  <2>3. ASSUME NEW k \in 1..K PROVE \E e \in Dirs : Visits(k, e)'
    <3>1. PICK e \in Dirs : /\ PathTo(e) = g[k].path /\ k <= e
                            /\ \A a \in 1..Len(g[k].todo) : Lookup(e, g[k].todo[a]) # {}
      BY <2>1 DEF CallReady, K
    <3>2. stack'[k] = g[k] /\ k # Len(stack')
      BY <1>10, <1>12
    <3>3. PathTo(e)' = PathTo(e) /\ \A m : Lookup(e, m)' = Lookup(e, m)
      BY SameTree
    <3> QED
      BY <3>1, <3>2, <3>3 DEF Visits
  <2> QED
    BY <1>4, <1>12, <2>2, <2>3
<1>20. HeadingInv'
  <2>1. \A e : PathTo(e)' = PathTo(e)
    BY SameTree
  <2>2. \A a : Accessible(a)' = Accessible(a)
    BY SameTree
  <2>3. q # <<>>
    <3>1. Len(q) # 0
      BY <1>1 DEF K
    <3> QED
      BY <3>1
  <2>4. \A k \in 1..(L + 1) :
          /\ out'[k].heading # <<>>
          /\ Accessible(out'[k].heading[1]) => out'[k].heading = PathTo(out'[k].dir)
    <3>1. \A k \in 1..L :
            /\ out'[k].heading # <<>>
            /\ Accessible(out'[k].heading[1]) => out'[k].heading = PathTo(out'[k].dir)
      BY <1>11 DEF HeadingInv, L
    <3>2. /\ out'[L + 1].heading = q /\ out'[L + 1].dir = d
      BY <1>11
    <3>3. /\ out'[L + 1].heading # <<>>
          /\ Accessible(out'[L + 1].heading[1]) =>
               out'[L + 1].heading = PathTo(out'[L + 1].dir)
      BY <1>18, <2>3, <3>2
    <3> QED
      BY <1>12, <3>1, <3>3
  <2> QED
    BY <1>11, <2>1, <2>2, <2>4 DEF HeadingInv
<1>21. DueInv'
  <2> SUFFICES ASSUME NEW e \in Dirs, Due(e)
               PROVE  /\ Awaited(e)' => ListingsOf(e)' = {}
                      /\ ~Awaited(e)' => \E k \in 1..(L + 1) : ListingsOf(e)' = {k}
    <3>1. \A e \in Dirs : Due(e)' = Due(e)
      BY SameTree DEF Due
    <3> QED
      BY <1>11, <3>1 DEF DueInv
  <2>1. PathTo(e)' = PathTo(e) /\ PathTo(e) \in Seq(Names) /\ Len(PathTo(e)) \in Nat
    BY PathType, SameTree DEF Dirs
  <2>2. Accessible(PathTo(e)[1]) /\ PathTo(e) # <<>>
    BY DEF Due
  <2>3. Awaited(e) <=> \/ PathTo(e)[1] \in pend
                       \/ \E k \in 1..K : HoldsIn(g, k, e)
                       \/ Under(q, e)
    BY DEF CallReady, K
  <2>4. \A k \in 1..K : Holds(k, e)' <=> HoldsIn(g, k, e)
    BY <1>10, <2>1 DEF Holds, HoldsIn
  <2>5. Awaited(e)' <=> \/ PathTo(e)[1] \in pend
                        \/ \E k \in 1..K : HoldsIn(g, k, e)
                        \/ Holds(K + 1, e)'
    BY <1>10, <1>12, <2>1, <2>4 DEF Awaited
  <2>6. /\ Awaited(e) => ListingsOf(e) = {}
        /\ ~Awaited(e) => \E k \in 1..L : ListingsOf(e) = {k}
    BY DEF DueInv, L
  <2>7. ListingsOf(e)' = ListingsOf(e) \cup
          (IF d = e /\ q = PathTo(e) THEN {L + 1} ELSE {})
    <3>1. out'[L + 1].heading = q /\ out'[L + 1].dir = d
      BY <1>11
    <3>2. \A k \in 1..(L + 1) : k \in ListingsOf(e)' <=>
            (out'[k].dir = e /\ out'[k].heading = PathTo(e))
      BY <1>11, <2>1 DEF ListingsOf
    <3>3. \A k \in 1..L : k \in ListingsOf(e)' <=> k \in ListingsOf(e)
      BY <1>11, <1>12, <3>2 DEF ListingsOf, L
    <3>4. ListingsOf(e) \subseteq 1..L /\ ListingsOf(e)' \subseteq 1..(L + 1)
      BY <1>11 DEF ListingsOf, L
    <3>5. L + 1 \in ListingsOf(e)' <=> d = e /\ q = PathTo(e)
      BY <1>12, <3>1, <3>2
    <3> QED
      BY <1>12, <3>3, <3>4, <3>5
  <2>8. CASE d = e /\ q = PathTo(e)
    <3>1. Under(q, e)
      BY <1>1, <2>8 DEF Under, K
    <3>2. ListingsOf(e)' = {L + 1}
      BY <2>3, <2>6, <2>7, <2>8, <3>1
    <3>3. PathTo(e)[1] \notin pend
      BY <1>1, <2>8
    <3>4. ~Holds(K + 1, e)'
      <4>1. Len(PathTo(e)) = K + 1 /\ ~(K + 1 < K + 1)
        BY <1>1, <2>8 DEF K
      <4> QED
        BY <2>1, <4>1 DEF Holds
    <3>5. \A k \in 1..K : ~HoldsIn(g, k, e)
      <4> SUFFICES ASSUME NEW k \in 1..K, NEW a \in 1..Len(g[k].todo)
                   PROVE  g[k].todo[a] # PathTo(e)[k + 1]
        BY DEF HoldsIn
      <4>1. k \in 1..(K + 1) /\ K + 1 \in 1..(K + 1) /\ k < K + 1
        BY <1>1 DEF K
      <4>2. stack'[k] = g[k] /\ stack'[K + 1].path = q
        BY <1>9, <1>10
      <4>3. Nested(stack')
        <5>1. Nested(stack)'
          BY <1>17 DEF FrameInv
        <5> QED
          BY <5>1 DEF Nested
      <4>4. \A b \in 1..Len(stack'[k].todo) :
              stack'[k].todo[b] # stack'[K + 1].path[k + 1]
        BY <1>10, <4>1, <4>3 DEF Nested
      <4> QED
        BY <2>8, <4>2, <4>4
    <3>6. ~Awaited(e)'
      BY <2>5, <3>3, <3>4, <3>5
    <3> QED
      BY <1>12, <3>2, <3>6
  <2>9. CASE ~(d = e /\ q = PathTo(e))
    <3>1. ListingsOf(e)' = ListingsOf(e)
      BY <2>7, <2>9
    <3>2. ASSUME Under(q, e) PROVE Holds(K + 1, e)'
      <4>1. Accessible(q[1])
        <5>1. 1 \in 1..Len(q)
          BY <1>1 DEF K
        <5>2. PathTo(e)[1] = q[1]
          BY <3>2, <5>1 DEF Under
        <5> QED
          BY <2>2, <5>2
      <4>2. PathTo(d) = q /\ noted = NamesIn(d) /\ Len(PathTo(d)) = K + 1 /\ PathTo(d) # <<>>
        <5>1. PathTo(d) = q /\ noted = NamesIn(d)
          BY <1>18, <4>1
        <5>2. Len(q) = K + 1 /\ Len(q) # 0
          BY <1>1 DEF K
        <5> QED
          BY <5>1, <5>2
      <4>3. /\ K + 1 <= Len(PathTo(e))
            /\ \A m \in 1..(K + 1) : PathTo(e)[m] = q[m]
        BY <3>2, <4>2 DEF Under
      <4>4. Len(PathTo(e)) # K + 1
        <5> SUFFICES ASSUME Len(PathTo(e)) = K + 1 PROVE FALSE
          OBVIOUS
        <5>1. PathTo(e) = q
          BY <1>1, <2>1, <4>2, <4>3, SeqEqual
        <5>2. d = e
          BY <1>4, <4>2, <5>1, PathIsUnique
        <5> QED
          BY <2>9, <5>1, <5>2
      <4>5. K + 1 < Len(PathTo(e)) /\ (K + 1) + 1 \in 2..Len(PathTo(e))
        BY <1>1, <2>1, <4>3, <4>4 DEF K
      <4>6. PathTo(e)[(K + 1) + 1] \in NamesIn(d)
        BY <1>4, <4>2, <4>3, <4>5, NextAfter
      <4>7. Followed(PathTo(e)[(K + 1) + 1])
        BY <4>5 DEF Due
      <4>8. PICK a \in 1..Len(subs) : subs[a] = PathTo(e)[(K + 1) + 1]
        BY <1>6, <4>2, <4>6, <4>7
      <4>9. stack'[K + 1].path = q /\ stack'[K + 1].todo = subs
        BY <1>9, <1>10
      <4> QED
        BY <2>1, <4>3, <4>5, <4>8, <4>9 DEF Holds
    <3>3. ASSUME Holds(K + 1, e)' PROVE Under(q, e)
      <4>1. K + 1 < Len(PathTo(e)) /\ \A m \in 1..(K + 1) : stack'[K + 1].path[m] = PathTo(e)[m]
        BY <2>1, <3>3 DEF Holds
      <4>2. stack'[K + 1].path = q /\ Len(q) = K + 1
        BY <1>1, <1>9, <1>10 DEF K
      <4>3. K + 1 <= Len(PathTo(e))
        BY <1>1, <2>1, <4>1 DEF K
      <4> QED
        BY <4>1, <4>2, <4>3 DEF Under
    <3>4. Awaited(e)' <=> Awaited(e)
      BY <2>3, <2>5, <3>2, <3>3
    <3> QED
      BY <1>12, <2>6, <3>1, <3>4
  <2> QED
    BY <2>8, <2>9
<1> QED
  BY <1>15, <1>16, <1>17, <1>19, <1>20, <1>21
LEMMA ArgumentKeeps ==
  ASSUME WalkIInv, Argument
  PROVE  WalkIInv'
<1>1. status = "run" /\ stack = <<>> /\ UNCHANGED tree
  BY DEF Argument
<1>2. PICK a \in pending : pending' = pending \ {a} /\ ListContent(a, 0, stack, <<>>)
  BY DEF Argument
<1>3. CallReady(<<>>, a, <<>>, <<a>>, pending \ {a}) /\ Len(<<>>) = 0 /\ stack = <<>>
  BY <1>1, ArgumentReady
<1>4. CASE CannotOpen(a, 0, stack)
  <2>1. CannotOpen(a, Len(<<>>), <<>>)
    BY <1>3, <1>4
  <2> QED
    BY <1>1, <1>2, <1>3, <2>1, CannotOpenKeeps
<1>5. CASE Overflow(0)
  BY <1>5, TreeBounds DEF Overflow
<1>6. CASE List(a, 0, stack, <<>>)
  <2>1. List(a, Len(<<>>), <<>>, <<>>)
    BY <1>3, <1>6
  <2> QED
    BY <1>1, <1>2, <1>3, <2>1, ListKeeps
<1> QED
  BY <1>2, <1>4, <1>5, <1>6 DEF ListContent

LEMMA RecurseKeeps ==
  ASSUME WalkIInv, Recurse
  PROVE  WalkIInv'
<1> DEFINE n == Head(Last(stack).todo)
           P == Last(stack).path
           g == TakeNext(stack)
<1>1. /\ status = "run" /\ stack # <<>> /\ UNCHANGED tree /\ pending' = pending
      /\ Last(stack).todo # <<>> /\ ListContent(n, Len(stack), g, P)
  BY DEF Recurse, TakeNext
<1>2. CallReady(g, n, P, Append(P, n), pending)
  BY <1>1, RecurseReady
<1>3. Len(g) = Len(stack) /\ Len(stack) <= FrameLimit
  BY <1>1, TopFrame, NextTaken DEF WalkIInv, TypeOK
<1>4. CASE CannotOpen(n, Len(stack), g)
  <2>1. CannotOpen(n, Len(g), g)
    BY <1>3, <1>4
  <2> HIDE DEF g, n, P
  <2> QED
    BY <1>1, <1>2, <2>1, CannotOpenKeeps
<1>5. CASE Overflow(Len(stack))
  <2>1. UNCHANGED <<tree, cwd, pending, stack, out>> /\ status' = "crashed" /\ Len(stack) = FrameLimit
    BY <1>1, <1>5 DEF Overflow
  <2>2. ASSUME Accessible(stack[1].path[1]) PROVE FrameLimit < N
    <3>1. \A k \in 1..Len(stack) : stack[k].path[1] = stack[1].path[1]
      BY <1>1, SameArgument DEF WalkIInv
    <3>2. PICK d \in Dirs : Len(stack) < d
      BY <1>1, <2>2, <3>1, CallFinds DEF WalkIInv
    <3> QED
      BY <2>1, <3>2, TreeBounds DEF Dirs
  <2> QED
    BY <1>1, <2>1, <2>2, OnlyStatus
<1>6. CASE List(n, Len(stack), g, P)
  <2>1. List(n, Len(g), g, P)
    BY <1>3, <1>6
  <2> HIDE DEF g, n, P
  <2> QED
    BY <1>1, <1>2, <2>1, ListKeeps
<1> QED
  BY <1>1, <1>4, <1>5, <1>6 DEF ListContent

LEMMA NextKeepsWalkIInv == WalkIInv /\ [Next]_vars => WalkIInv'
<1> SUFFICES ASSUME WalkIInv, [Next]_vars PROVE WalkIInv'
  OBVIOUS
<1>1. CASE Argument
  BY <1>1, ArgumentKeeps
<1>2. CASE Recurse
  BY <1>2, RecurseKeeps
<1>3. CASE Return
  BY <1>3, ReturnKeeps
<1>4. CASE Exit
  BY <1>4, OnlyStatus DEF Exit
<1>5. CASE UNCHANGED vars
  <2>1. /\ UNCHANGED <<tree, cwd, pending, stack, out>> /\ status' = status
    BY <1>5 DEF vars
  <2>2. /\ status \in {"run", "done", "crashed", "refused"}
        /\ status = "done" => stack = <<>> /\ pending = {}
        /\ status = "crashed" => stack # <<>>
        /\ status = "crashed" /\ stack # <<>> /\ Accessible(stack[1].path[1]) => FrameLimit < N
    BY DEF WalkIInv, TypeOK, FrameInv, WalkInv
  <2> QED
    BY <2>1, <2>2, OnlyStatus
<1> QED
  BY <1>1, <1>2, <1>3, <1>4, <1>5 DEF Next, Terminated

\* The recursion keeps its place: the invariant of the walk, in every reachable state.
THEOREM WalkInvariance == Spec => []WalkIInv
BY InitWalkIInv, NextKeepsWalkIInv, PTL DEF Spec

\* A directory that cannot be read spoils only the listings of its own argument, for
\* every tree, every set of options and any depth: list_dir's chdir(cwd) after the
\* call makes up for whatever the frames below left behind (myls.c:309), as long as that
\* chdir itself does not fail: every directory from the root to the start can be entered.
THEOREM FaultsStay == Spec => []FaultsStayInTheirArgument
<1>1. WalkIInv => FaultsStayInTheirArgument
  <2> SUFFICES ASSUME WalkIInv, NEW k \in DOMAIN out, Accessible(Head(out[k].heading))
               PROVE  out[k].heading = PathTo(out[k].dir)
    BY DEF FaultsStayInTheirArgument
  <2>1. k \in 1..Len(out) /\ out[k].heading \in Seq(Names)
    <3> DEFINE R == [heading : Seq(Names), dir : Dirs]
    <3>1. out \in Seq(R) /\ \A r \in R : r.heading \in Seq(Names)
      BY DEF WalkIInv, TypeOK
    <3> HIDE DEF R
    <3>2. k \in 1..Len(out) /\ out[k] \in R
      BY <3>1
    <3> QED
      BY <3>1, <3>2
  <2>2. Head(out[k].heading) = out[k].heading[1]
    BY <2>1 DEF WalkIInv, HeadingInv
  <2> QED
    BY <2>1, <2>2 DEF WalkIInv, HeadingInv
<1> QED
  BY <1>1, WalkInvariance, PTL

\* Every directory the options ask for, below an argument that can all be read, has
\* been listed exactly once when the program ends, if main found all its arguments
\* (myls.c:145-148) and chdir(cwd) does not fail (:309).
THEOREM ListedOnce == Spec => []EverythingListed
<1>1. WalkIInv => EverythingListed
  <2> SUFFICES ASSUME WalkIInv, status = "done", NEW d \in Dirs,
                      PathTo(d) # <<>>, Accessible(Head(PathTo(d))),
                      \A k \in 2..Len(PathTo(d)) :
                        PathTo(d)[k] \in PlainNames \cup (IF showAll THEN HiddenNames ELSE {})
               PROVE  Cardinality({k \in DOMAIN out : out[k].dir = d
                                                      /\ out[k].heading = PathTo(d)}) = 1
    BY DEF EverythingListed
  <2>1. PathTo(d) \in Seq(Names) /\ Head(PathTo(d)) = PathTo(d)[1]
    BY PathType DEF WalkIInv, Dirs
  <2>2. \A k \in 2..Len(PathTo(d)) : Followed(PathTo(d)[k])
    BY DEF Followed
  <2>3. Due(d)
    BY <2>1, <2>2 DEF Due
  <2>4. stack = <<>> /\ pending = {}
    BY DEF WalkIInv, FrameInv
  <2>5. ~Awaited(d)
    BY <2>4 DEF Awaited
  <2>6. PICK k : ListingsOf(d) = {k}
    BY <2>3, <2>5 DEF WalkIInv, DueInv
  <2>7. DOMAIN out = 1..Len(out)
    BY DEF WalkIInv, TypeOK
  <2> QED
    BY <2>6, <2>7, FS_Singleton DEF ListingsOf
<1> QED
  BY <1>1, WalkInvariance, PTL

\* The types, and: as long as everything can be read, the recursion is no deeper than
\* the tree and does not overflow the stack, if the stack has room for a frame for
\* each directory of the tree.
THEOREM DepthBounded ==
  ASSUME N <= FrameLimit
  PROVE  Spec => []DepthOfTheTree
<1>1. WalkIInv => DepthOfTheTree
  <2> SUFFICES ASSUME WalkIInv, \A d \in Dirs : access[d] = "open"
               PROVE  ~(status = "crashed") /\ ~(Len(stack) > N)
    BY DEF DepthOfTheTree, WalkIInv
  <2>1. \A a : Accessible(a)
    <3>1. \A d \in 0..N : Searchable(d) /\ Up(d) \in 0..N
      BY TreeBounds DEF WalkIInv, TreeInv, Searchable, Up, Root, Dirs
    <3>2. start \in 0..N
      BY DEF WalkIInv, TreeInv
    <3>3. Reachable
      BY <3>1, <3>2 DEF Reachable
    <3> QED
      BY <3>3 DEF Accessible
  <2>2. CASE stack = <<>>
    BY <2>2, TreeBounds DEF WalkIInv, FrameInv
  <2>3. CASE stack # <<>>
    <3>1. \A k \in 1..Len(stack) : \E e \in Dirs : Visits(k, e)
      BY <2>1, <2>3 DEF WalkIInv, WalkInv
    <3>2. status # "crashed"
      BY <2>1, <2>3, TreeBounds DEF WalkIInv, WalkInv
    <3>3. Len(stack) \in Nat \ {0} /\ Len(stack) \in 1..Len(stack)
      BY <2>3, TopFrame DEF WalkIInv
    <3>4. PICK e \in Dirs : Visits(Len(stack), e)
      BY <3>1, <3>3
    <3>5. Len(stack) <= e
      BY <3>4 DEF Visits
    <3> QED
      BY <3>2, <3>3, <3>5, TreeBounds DEF Dirs
  <2> QED
    BY <2>2, <2>3
<1> QED
  BY <1>1, WalkInvariance, PTL
=============================================================================

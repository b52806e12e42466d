--------------------------- MODULE DiskSinksProofs ---------------------------
(***************************************************************************)
(* Proofs about the sinks that write files. FileLogger, for every number   *)
(* and size of files and every width of the index: the files of the sink   *)
(* are those of a window that moves with the current index, none outgrows  *)
(* the limit, the files of the first run are linked to each other without  *)
(* gaps, so that what is kept is the end of what was logged, and a restart *)
(* goes on where the sink was. ErrorLogger, for every capacity: the buffer *)
(* holds the last entries of the run, and a file is a copy of its front,   *)
(* that of one run of the process.                                         *)
(*                                                                         *)
(* An index is in the window when it is less than MaxFiles behind the      *)
(* current one, counted around the end of the indexes.                     *)
(***************************************************************************)
EXTENDS DiskSinks, FiniteSetTheorems, SequenceTheorems, WellFoundedInduction, TLAPS

(* How far an index is behind another one.                                 *)
Behind(c, i) == IF i <= c THEN c - i ELSE c - i + Width

(* Serving, the sink has files of its window only, but for those it is     *)
(* still to remove; so has one that has stopped without being in the middle*)
(* of its construction.                                                    *)
Windowed ==
    MaxFiles > 0 =>
        /\ pc \notin {"down", "list"} =>
               \A i \in Present : i \in doomed \/ Behind(current, i) < MaxFiles
        /\ pc \in {"down", "list"} /\ last # -1 => \A i \in Present : Behind(last, i) < MaxFiles

Cleaning == doomed \subseteq Index /\ (doomed # {} <=> pc = "clean") /\ last \in Index \cup {-1}

(* What log_event has made sure of on its way to the write.                *)
Writing ==
    /\ pc \in {"rotate", "renew", "write"} => logged < MaxLogged /\ size > 0 /\ (MaxSize > 0 => size <= MaxSize)
    /\ pc = "rotate" => current \in Present \/ Present = {}
    /\ pc = "renew" /\ MaxFiles > 0 => current \notin Present
    /\ pc = "write" /\ MaxSize > 0 /\ current \in Present => files[current].size + size <= MaxSize

Unstarted ==
    /\ starts = 0 => Present = {} /\ pc = "down"
    /\ starts = 1 /\ pc \in {"list", "clean"} => Present = {}

Ent(i)   == files[i].entries
Final(i) == Ent(i)[Len(Ent(i))]

(* In the first run every file holds consecutive entries, the last file    *)
(* ends with the last entry, and each one goes on where the one before     *)
(* ended, but for a file that is due and not written yet.                  *)
Runs == \A i \in Present : Len(Ent(i)) > 0 /\ \A x \in 1..Len(Ent(i)) : Ent(i)[x] = Ent(i)[1] + x - 1

Links ==
    \A i \in Present :
        /\ i = current => Final(i) = logged
        /\ i # current /\ U32(i + 1) \in Present => Ent(U32(i + 1))[1] = Final(i) + 1
        /\ i # current /\ U32(i + 1) \notin Present => U32(i + 1) = current /\ Final(i) = logged

Chain == starts = 1 /\ pc # "down" /\ MaxFiles > 0 => Runs /\ Links

(* The parts of the type: the files, and the rest.                         *)
FilesOK ==
    /\ files = [i \in Present |-> files[i]] /\ Present \subseteq Index /\ (Present # {} => dir)
    /\ \A i \in Present : files[i].size \in Nat \ {0} /\ Ent(i) \in Seq(1..MaxLogged)

RestOK ==
    /\ dir \in BOOLEAN /\ current \in Index /\ pc \in {"down", "list", "clean", "idle", "rotate", "renew", "write"}
    /\ size \in Nat /\ logged \in 0..MaxLogged /\ starts \in 0..MaxStarts

FileInv == FilesOK /\ RestOK /\ Cleaning /\ Windowed /\ SizeKept /\ Writing /\ Unstarted /\ Chain

-------------------------------------------------------------------------------
(* A set of natural numbers has a least element: what the proofs have in   *)
(* place of induction.                                                     *)
LEMMA LeastOf ==
  ASSUME NEW T, T \subseteq Nat, T # {}
  PROVE  \E x \in T : \A y \in T : x <= y
<1> DEFINE R == OpToRel(<, Nat)
<1>1. IsWellFoundedOn(R, Nat)
      BY NatLessThanWellFounded
<1>2. PICK x \in T : \A y \in T : ~(<<y, x>> \in R)
  <2> HIDE DEF R
  <2> QED BY <1>1, WFMin
<1>3. \A y \in Nat : y < x => <<y, x>> \in R
      BY DEF OpToRel
<1> HIDE DEF R
<1>4. \A y \in T : ~(y < x)
      BY <1>2, <1>3
<1>5. x \in Nat
      OBVIOUS
<1>6. \A y \in T : x <= y
      BY <1>4, <1>5
<1> QED BY <1>6

(* One that is bounded has a greatest element.                             *)
LEMMA GreatestOf ==
  ASSUME NEW T, NEW n \in Nat, T \subseteq 0..n, T # {}
  PROVE  \E x \in T : \A y \in T : y <= x
<1> DEFINE D == {k \in 0..n : n - k \in T}
<1>1. D # {}
  <2>1. PICK x \in T : x \in 0..n
        OBVIOUS
  <2>2. n - x \in 0..n /\ n - (n - x) = x
        BY <2>1
  <2>3. n - x \in D
        BY <2>1, <2>2
  <2> QED BY <2>3
<1>2. D \subseteq Nat
      OBVIOUS
<1>3. PICK d \in D : \A e \in D : d <= e
  <2> HIDE DEF D
  <2> QED BY <1>1, <1>2, LeastOf
<1>4. n - d \in T /\ d \in 0..n
      OBVIOUS
<1>5. ASSUME NEW y \in T PROVE y <= n - d
  <2>1. y \in 0..n
        OBVIOUS
  <2>2. n - y \in 0..n /\ n - (n - y) = y
        BY <2>1
  <2>3. n - y \in D
        BY <2>2
  <2>4. d <= n - y
        BY <1>3, <2>3
  <2> QED BY <1>4, <2>1, <2>4
<1> QED BY <1>4, <1>5

-------------------------------------------------------------------------------
(* Arithmetic on indexes: one turn up or down.                             *)
LEMMA Wraps ==
  ASSUME NEW n \in Int, -Width <= n, n < 2 * Width
  PROVE  U32(n) = IF n < 0 THEN n + Width ELSE IF n < Width THEN n ELSE n - Width
<1> Width \in Nat /\ Width > 0
    BY SizeAssumption, WidthAssumption
<1>1. CASE n < 0
  <2>1. n + Width \in 0..(Width - 1)
        BY <1>1
  <2>2. n % Width = n + Width
        BY <1>1, <2>1
  <2> QED BY <1>1, <2>2 DEF U32
<1>2. CASE n >= 0 /\ n < Width
      BY <1>2 DEF U32
<1>3. CASE n >= Width
      BY <1>3 DEF U32
<1> QED BY <1>1, <1>2, <1>3

(* The window has the indexes less than MaxFiles behind.                   *)
LEMMA WindowMembers ==
  ASSUME current \in Index, MaxFiles > 0, NEW i \in Index, Behind(current, i) < MaxFiles
  PROVE  i \in Window
<1> DEFINE k == Behind(current, i)
<1>1. k \in 0..(MaxFiles - 1)
      BY SizeAssumption, WidthAssumption DEF Behind, Index
<1>2. U32(current - k) = i
  <2>1. current - k \in Int /\ -Width <= current - k /\ current - k < 2 * Width
        BY SizeAssumption, WidthAssumption, <1>1 DEF Index
  <2>2. U32(current - k) = IF current - k < 0 THEN current - k + Width
                           ELSE IF current - k < Width THEN current - k ELSE current - k - Width
    <3> HIDE DEF k
    <3> QED BY <2>1, Wraps
  <2> QED BY <2>2, WidthAssumption DEF Behind, Index
<1> HIDE DEF k
<1> QED BY <1>1, <1>2 DEF Window

(* The files that stay at a construction are those of the window (156-182).*)
LEMMA OldFilesAreOut ==
  ASSUME NEW c \in Index, NEW i \in Present, i \in Index, MaxFiles > 0
  PROVE  i \notin OldFiles(c) <=> Behind(c, i) < MaxFiles
<1>1. /\ Width \in Nat /\ MaxFiles \in Nat /\ MaxFiles + 1 < Width /\ c \in 0..(Width - 1) /\ i \in 0..(Width - 1)
      BY SizeAssumption, WidthAssumption DEF Index
<1> DEFINE m == U32(c - MaxFiles + 1)
<1>2. m = IF c - MaxFiles + 1 < 0 THEN c - MaxFiles + 1 + Width ELSE c - MaxFiles + 1
  <2>1. c - MaxFiles + 1 \in Int /\ -Width <= c - MaxFiles + 1 /\ c - MaxFiles + 1 < Width
        BY <1>1
  <2> QED BY <1>1, <2>1, Wraps
<1>3. i \in OldFiles(c) <=> IF m > c THEN i < m /\ i > c ELSE i < m \/ i > c
      BY DEF OldFiles
<1> HIDE DEF m
<1>4. CASE c - MaxFiles + 1 < 0
  <2>1. m = c - MaxFiles + 1 + Width /\ m > c
        BY <1>1, <1>2, <1>4
  <2> QED BY <1>1, <1>3, <1>4, <2>1 DEF Behind
<1>5. CASE c - MaxFiles + 1 >= 0
  <2>1. m = c - MaxFiles + 1 /\ ~(m > c)
        BY <1>1, <1>2, <1>5
  <2> QED BY <1>1, <1>3, <1>5, <2>1 DEF Behind
<1> QED BY <1>1, <1>4, <1>5
(* The index after which a gap comes is one of a file (142-151).           *)
IsLast(j) == \A k \in Present : k > j => k - j >= MaxFiles

LEMMA GapExists ==
  ASSUME Present \subseteq Index, Present # {}
  PROVE  LastBeforeGap \in Present /\ IsLast(LastBeforeGap) /\ \A j \in Present : j < LastBeforeGap => ~IsLast(j)
<1>1. Width \in Nat /\ Width > 0
      BY SizeAssumption, WidthAssumption
<1> DEFINE T == {j \in Present : IsLast(j)}
<1>2. T # {}
  <2>1. Present \subseteq 0..(Width - 1) /\ Width - 1 \in Nat
        BY <1>1 DEF Index
  <2>2. PICK i \in Present : \A k \in Present : k <= i
        BY <2>1, GreatestOf
  <2>3. \A k \in Present : ~(k > i)
        BY <2>1, <2>2
  <2>4. IsLast(i)
        BY <2>3 DEF IsLast
  <2> QED BY <2>4
<1>3. T \subseteq Nat
  <2>1. Index \subseteq Nat
        BY <1>1 DEF Index
  <2> QED BY <2>1
<1>4. PICK i \in T : \A j \in T : i <= j
  <2> HIDE DEF T
  <2> QED BY <1>2, <1>3, LeastOf
<1>5. \A j \in Present : j < i => ~IsLast(j)
  <2>1. \A j \in T : ~(j < i)
        BY <1>3, <1>4
  <2> QED BY <2>1
<1>6. \E k \in Present : IsLast(k) /\ \A j \in Present : j < k => ~IsLast(j)
      BY <1>5
<1>7. LastBeforeGap = CHOOSE k \in Present : IsLast(k) /\ \A j \in Present : j < k => ~IsLast(j)
      BY DEF LastBeforeGap, IsLast
<1> QED BY <1>6, <1>7

(* What initialize_fs goes on with is an index (153).                      *)
LEMMA LatestIsIndex ==
  ASSUME Present \subseteq Index, Present # {}
  PROVE  Latest \in Index
<1>1. Width \in Nat /\ Width > 0
      BY SizeAssumption, WidthAssumption
<1>2. LastBeforeGap \in 0..(Width - 1)
      BY GapExists DEF Index
<1> DEFINE below == {j \in Present : j < LastBeforeGap}
<1>3. below \subseteq 0..(LastBeforeGap - 1)
  <2> SUFFICES ASSUME NEW j \in Present, j < LastBeforeGap PROVE j \in 0..(LastBeforeGap - 1)
      OBVIOUS
  <2>1. j \in 0..(Width - 1)
        BY DEF Index
  <2> QED BY <1>1, <1>2, <2>1
<1> HIDE DEF below
<1>4. IsFiniteSet(0..(LastBeforeGap - 1)) /\ Cardinality(0..(LastBeforeGap - 1)) = LastBeforeGap
  <2> DEFINE b == LastBeforeGap - 1
  <2>1. b \in Int /\ b + 1 = LastBeforeGap /\ b - 0 + 1 = LastBeforeGap /\ (0 > b => LastBeforeGap = 0)
        BY <1>2
  <2> HIDE DEF b
  <2>2. IsFiniteSet(0..b) /\ Cardinality(0..b) = IF 0 > b THEN 0 ELSE b - 0 + 1
        BY <2>1, FS_Interval
  <2>3. Cardinality(0..b) = LastBeforeGap
        BY <2>1, <2>2
  <2> QED BY <2>2, <2>3 DEF b
<1>5. IsFiniteSet(below) /\ Cardinality(below) <= LastBeforeGap
      BY <1>3, <1>4, FS_Subset
<1>6. Cardinality(below) \in Nat
      BY <1>5, FS_CardinalityType
<1>7. Cardinality(below) \in 0..(Width - 1)
      BY <1>1, <1>2, <1>5, <1>6
<1> QED BY <1>7 DEF Latest, below, Index

(* The window moves up by one, and the file that falls out is removed      *)
(* (79-89).                                                                *)
LEMMA WindowMoves ==
  ASSUME current \in Index, MaxFiles > 0, NEW i \in Index, Behind(current, i) < MaxFiles
  PROVE  /\ i # U32(U32(current + 1) - MaxFiles) => Behind(U32(current + 1), i) < MaxFiles
         /\ i # U32(current + 1)
<1>1. /\ Width \in Nat /\ MaxFiles \in Nat /\ MaxFiles + 1 < Width
      /\ current \in 0..(Width - 1) /\ i \in 0..(Width - 1)
      BY SizeAssumption, WidthAssumption DEF Index
<1> DEFINE n == U32(current + 1)
           r == U32(n - MaxFiles)
<1>2. n = IF current + 1 < Width THEN current + 1 ELSE 0
  <2>1. current + 1 \in Int /\ -Width <= current + 1 /\ current + 1 < 2 * Width /\ ~(current + 1 < 0)
        BY <1>1
  <2> DEFINE c == current + 1
  <2>2. U32(c) = IF c < 0 THEN c + Width ELSE IF c < Width THEN c ELSE c - Width
    <3> HIDE DEF c
    <3> QED BY <2>1, Wraps DEF c
  <2> QED BY <1>1, <2>1, <2>2
<1>3. n \in 0..(Width - 1)
      BY <1>1, <1>2
<1>4. r = IF n - MaxFiles < 0 THEN n - MaxFiles + Width ELSE n - MaxFiles
  <2> HIDE DEF n
  <2>1. n - MaxFiles \in Int /\ -Width <= n - MaxFiles /\ n - MaxFiles < Width
        BY <1>1, <1>3
  <2> QED BY <1>1, <2>1, Wraps
<1> HIDE DEF n, r
<1>5. i # r => Behind(n, i) < MaxFiles
  <2>1. CASE current + 1 < Width
        BY <1>1, <1>2, <1>4, <2>1 DEF Behind
  <2>2. CASE ~(current + 1 < Width)
        BY <1>1, <1>2, <1>4, <2>2 DEF Behind
  <2> QED BY <2>1, <2>2
<1>6. i # n
      BY <1>1, <1>2 DEF Behind
<1> QED BY <1>5, <1>6 DEF n, r

-------------------------------------------------------------------------------
(* What removing files leaves.                                             *)
LEMMA RemoveKeeps ==
  ASSUME FilesOK, NEW set, files' = Remove(set), dir' \/ dir' = dir
  PROVE  /\ Present' = Present \ set /\ \A i \in Present' : files'[i] = files[i]
         /\ FilesOK' /\ (SizeKept => SizeKept')
<1>1. Present' = Present \ set
      BY DEF Present, Remove
<1>2. \A i \in Present \ set : files'[i] = files[i]
      BY DEF Remove
<1>3. files' = [i \in Present' |-> files'[i]]
      BY <1>1, <1>2 DEF Remove
<1>4. FilesOK'
      BY <1>1, <1>2, <1>3 DEF FilesOK, Ent
<1>5. SizeKept => SizeKept'
      BY <1>1, <1>2 DEF SizeKept
<1> QED BY <1>1, <1>2, <1>4, <1>5

LEMMA FileInitially == Init => FileInv
<1> SUFFICES ASSUME Init PROVE FileInv
    OBVIOUS
<1>1. Present = {} /\ files = [i \in {} |-> files[i]]
      BY DEF Init, Present
<1>2. FilesOK /\ SizeKept /\ Windowed /\ Cleaning
      BY <1>1 DEF FilesOK, SizeKept, Windowed, Cleaning, Init
<1>3. 0 \in Index /\ 0 \in 0..MaxLogged /\ 0 \in 0..MaxStarts
      BY SizeAssumption, WidthAssumption, BoundAssumption DEF Index
<1> QED BY <1>1, <1>2, <1>3 DEF Init, FileInv, RestOK, Writing, Unstarted, Chain

(* The constructor makes sure that there is a directory (25-36, 107).      *)
LEMMA ConstructKeeps == FileInv /\ Construct => FileInv'
<1> SUFFICES ASSUME FileInv, Construct PROVE FileInv'
    OBVIOUS
<1>1. FilesOK /\ RestOK /\ Cleaning /\ Windowed /\ SizeKept /\ Unstarted
      BY DEF FileInv
<1>2. /\ pc = "down" /\ starts < MaxStarts /\ pc' = "list" /\ dir' = TRUE /\ current' = 0
      /\ starts' = starts + 1 /\ files' = files /\ doomed' = doomed /\ size' = size
      /\ logged' = logged /\ last' = last
      BY DEF Construct
<1>3. starts \in Nat /\ starts' \in 0..MaxStarts /\ starts' # 0
      BY <1>1, <1>2, BoundAssumption DEF RestOK
<1>4. 0 \in Index
      BY SizeAssumption, WidthAssumption DEF Index
<1>5. Present' = Present
      BY <1>2 DEF Present
<1>6. FilesOK' /\ SizeKept'
      BY <1>1, <1>2, <1>5 DEF FilesOK, SizeKept, Ent
<1>7. RestOK' /\ Cleaning'
      BY <1>1, <1>2, <1>3, <1>4 DEF RestOK, Cleaning
<1>8. Windowed'
      BY <1>1, <1>2, <1>5 DEF Windowed, Behind
<1>9. Writing'
      BY <1>2 DEF Writing
<1>10. starts' = 1 => Present' = {}
      BY <1>1, <1>2, <1>3, <1>5 DEF Unstarted
<1>11. Unstarted'
      BY <1>3, <1>10 DEF Unstarted
<1>12. Chain'
      BY <1>10 DEF Chain, Runs, Links
<1> QED BY <1>6, <1>7, <1>8, <1>9, <1>11, <1>12 DEF FileInv

(* It looks for files and decides where to go on (109-159): what is not in *)
(* the new window is to be removed.                                        *)
LEMMA DetectKeeps == FileInv /\ Detect => FileInv'
<1> SUFFICES ASSUME FileInv, Detect PROVE FileInv'
    OBVIOUS
<1>1. /\ FilesOK /\ RestOK /\ Cleaning /\ Windowed /\ SizeKept /\ Unstarted
      /\ Present \subseteq Index /\ current \in Index
      BY DEF FileInv, FilesOK, RestOK
<1>2. /\ pc = "list" /\ pc' = Cleaned(doomed') /\ dir' = dir /\ files' = files /\ size' = size
      /\ logged' = logged /\ starts' = starts /\ last' = last
      BY DEF Detect
<1>3. pc' \in {"idle", "clean"} /\ (doomed' # {} <=> pc' = "clean")
      BY <1>2 DEF Cleaned
<1>4. Present' = Present
      BY <1>2 DEF Present
<1>5. FilesOK' /\ SizeKept'
      BY <1>1, <1>2, <1>4 DEF FilesOK, SizeKept, Ent
<1>6. /\ current' \in Index /\ doomed' \subseteq Index
      /\ MaxFiles > 0 => \A i \in Present : i \in doomed' \/ Behind(current', i) < MaxFiles
      /\ Present = {} => doomed' = {}
  <2>1. CASE Present = {}
        BY <1>1, <1>2, <2>1 DEF Detect, Cleaning
  <2>2. CASE Present # {}
    <3>1. current' = Latest /\ doomed' = OldFiles(Latest) /\ Latest \in Index
          BY <1>1, <2>2, LatestIsIndex DEF Detect
    <3>2. doomed' \subseteq Index
          BY <1>1, <3>1 DEF OldFiles
    <3>3. MaxFiles > 0 => \A i \in Present : i \in doomed' \/ Behind(current', i) < MaxFiles
          BY <1>1, <3>1, OldFilesAreOut
    <3> QED BY <2>2, <3>1, <3>2, <3>3
  <2> QED BY <2>1, <2>2
<1>7. RestOK' /\ Cleaning'
      BY <1>1, <1>2, <1>3, <1>6 DEF RestOK, Cleaning
<1>8. Windowed'
      BY <1>3, <1>4, <1>6 DEF Windowed, Behind
<1>9. Writing'
      BY <1>3 DEF Writing
<1>10. starts' = 1 => Present' = {}
      BY <1>1, <1>2, <1>4 DEF Unstarted
<1>11. Unstarted'
      BY <1>1, <1>2, <1>10 DEF Unstarted
<1>12. Chain'
      BY <1>10 DEF Chain, Runs, Links
<1> QED BY <1>5, <1>7, <1>8, <1>9, <1>11, <1>12 DEF FileInv

(* It removes a file that it does not keep (161-182).                      *)
LEMMA CleanKeeps == FileInv /\ Clean => FileInv'
<1> SUFFICES ASSUME FileInv, Clean PROVE FileInv'
    OBVIOUS
<1>1. FilesOK /\ RestOK /\ Cleaning /\ Windowed /\ SizeKept /\ Unstarted
      BY DEF FileInv
<1>2. PICK i \in doomed : files' = Remove({i}) /\ doomed' = doomed \ {i}
      BY DEF Clean
<1>3. /\ pc = "clean" /\ pc' = Cleaned(doomed') /\ dir' = dir /\ current' = current /\ size' = size
      /\ logged' = logged /\ starts' = starts /\ last' = last
      BY DEF Clean
<1>4. pc' \in {"idle", "clean"} /\ (doomed' # {} <=> pc' = "clean")
      BY <1>3 DEF Cleaned
<1>5. Present' = Present \ {i} /\ FilesOK' /\ SizeKept'
      BY <1>1, <1>2, <1>3, RemoveKeeps
<1>6. RestOK' /\ Cleaning'
      BY <1>1, <1>2, <1>3, <1>4 DEF RestOK, Cleaning
<1>7. Windowed'
      BY <1>1, <1>2, <1>3, <1>4, <1>5 DEF Windowed, Behind
<1>8. Writing'
      BY <1>4 DEF Writing
<1>9. starts' = 1 => Present' = {}
      BY <1>1, <1>3, <1>5 DEF Unstarted
<1>10. Unstarted'
      BY <1>1, <1>3, <1>9 DEF Unstarted
<1>11. Chain'
      BY <1>9 DEF Chain, Runs, Links
<1> QED BY <1>5, <1>6, <1>7, <1>8, <1>10, <1>11 DEF FileInv

(* The oldest index of a window is the next of none in it.                 *)
LEMMA OldestIsNoNext ==
  ASSUME NEW c \in Index, NEW i \in Index, U32(i + 1) = U32(c - MaxFiles)
  PROVE  ~(Behind(c, i) < MaxFiles)
<1>1. /\ Width \in Nat /\ MaxFiles \in Nat /\ MaxFiles + 1 < Width
      /\ c \in 0..(Width - 1) /\ i \in 0..(Width - 1)
      BY SizeAssumption, WidthAssumption DEF Index
<1> DEFINE a == i + 1
           b == c - MaxFiles
<1>2. a \in Int /\ -Width <= a /\ a < 2 * Width /\ b \in Int /\ -Width <= b /\ b < 2 * Width
      BY <1>1
<1>3. /\ U32(a) = IF a < 0 THEN a + Width ELSE IF a < Width THEN a ELSE a - Width
      /\ U32(b) = IF b < 0 THEN b + Width ELSE IF b < Width THEN b ELSE b - Width
  <2> HIDE DEF a, b
  <2> QED BY <1>2, Wraps
<1>4. (IF i + 1 < Width THEN i + 1 ELSE 0) = IF c - MaxFiles < 0 THEN c - MaxFiles + Width ELSE c - MaxFiles
  <2>1. U32(a) = IF i + 1 < Width THEN i + 1 ELSE 0
        BY <1>1, <1>3
  <2>2. U32(b) = IF c - MaxFiles < 0 THEN c - MaxFiles + Width ELSE c - MaxFiles
        BY <1>1, <1>3
  <2> QED BY <2>1, <2>2
<1> QED BY <1>1, <1>4 DEF Behind

(* log_event up to the decision to rotate (67-76).                         *)
LEMMA LogKeeps == ASSUME FileInv, NEW s \in Sizes, Log(s) PROVE FileInv'
<1>1. FilesOK /\ RestOK /\ Cleaning /\ Windowed /\ SizeKept /\ Writing /\ Unstarted /\ Chain
      BY DEF FileInv
<1>2. /\ pc = "idle" /\ pc' \in {"rotate", "write"} /\ logged < MaxLogged
      /\ size' = IF MaxSize > 0 /\ s > MaxSize THEN MaxSize ELSE s
      /\ dir' = dir /\ files' = files /\ current' = current /\ logged' = logged /\ starts' = starts
      /\ doomed' = doomed /\ last' = last
      BY DEF Log
<1>3. size' \in Nat \ {0} /\ (MaxSize > 0 => size' <= MaxSize) /\ MaxSize \in Nat
      BY <1>2, SizeAssumption
<1>4. FilesOK' /\ SizeKept' /\ Windowed' /\ Unstarted' /\ Cleaning'
      BY <1>1, <1>2 DEF FilesOK, SizeKept, Windowed, Unstarted, Cleaning, Present, Ent, Behind
<1>5. RestOK'
      BY <1>1, <1>2, <1>3 DEF RestOK
<1>6. Chain'
      BY <1>1, <1>2 DEF Chain, Runs, Links, Present, Ent, Final
<1>7. Writing'
  <2>1. pc' = IF current \in Present /\ (files[current].size + size' > MaxSize \/ MaxSize = 0)
              THEN "rotate" ELSE "write"
        BY DEF Log
  <2>2. current \in Present => files[current].size \in Nat
        BY <1>1 DEF FilesOK
  <2>3. pc' = "rotate" => current \in Present
        BY <2>1
  <2>4. pc' = "write" /\ MaxSize > 0 /\ current \in Present => files[current].size + size' <= MaxSize
        BY <1>3, <2>1, <2>2
  <2> QED BY <1>2, <1>3, <2>3, <2>4 DEF Writing, Present
<1> QED BY <1>4, <1>5, <1>6, <1>7 DEF FileInv

(* The next index is taken and the oldest file removed (79-89).            *)
LEMMA RotateKeeps == FileInv /\ Rotate => FileInv'
<1> SUFFICES ASSUME FileInv, Rotate PROVE FileInv'
    OBVIOUS
<1>1. /\ FilesOK /\ RestOK /\ Cleaning /\ Windowed /\ SizeKept /\ Writing /\ Unstarted /\ Chain
      /\ Present \subseteq Index /\ current \in Index
      BY DEF FileInv, FilesOK, RestOK
<1>2. /\ pc = "rotate" /\ pc' = "renew" /\ dir' /\ current' = U32(current + 1)
      /\ size' = size /\ logged' = logged /\ starts' = starts /\ doomed' = doomed /\ last' = last
      BY DEF Rotate
<1>3. current' \in Index
      BY <1>2, WidthAssumption, <1>1 DEF U32, Index
<1>4. RestOK' /\ Unstarted' /\ Cleaning' /\ doomed = {}
      BY <1>1, <1>2, <1>3 DEF RestOK, Unstarted, Cleaning, Rotate
<1>5. CASE ~(MaxFiles > 0)
  <2>1. files' = files
        BY <1>5 DEF Rotate
  <2>2. FilesOK' /\ SizeKept'
        BY <1>1, <1>2, <2>1 DEF FilesOK, SizeKept, Present, Ent
  <2>3. Windowed' /\ Writing' /\ Chain'
        BY <1>1, <1>2, <1>5 DEF Windowed, Writing, Chain
  <2> QED BY <1>4, <2>2, <2>3 DEF FileInv
<1>6. CASE MaxFiles > 0
  <2> DEFINE r == U32(current' - MaxFiles)
  <2>1. files' = Remove({r})
        BY <1>6 DEF Rotate
  <2> HIDE DEF r
  <2>2. /\ Present' = Present \ {r} /\ \A i \in Present' : files'[i] = files[i]
        /\ FilesOK' /\ SizeKept'
        BY <1>1, <1>2, <2>1, RemoveKeeps
  <2>3. \A i \in Present : (i # r => Behind(current', i) < MaxFiles) /\ i # current'
    <3> SUFFICES ASSUME NEW i \in Present PROVE (i # r => Behind(current', i) < MaxFiles) /\ i # current'
        OBVIOUS
    <3>1. i \in Index /\ Behind(current, i) < MaxFiles
          BY <1>1, <1>2, <1>4, <1>6 DEF Windowed
    <3> QED BY <1>1, <1>2, <1>6, <3>1, WindowMoves DEF r
  <2>4. Windowed'
        BY <1>2, <2>2, <2>3 DEF Windowed, Behind
  <2>5. Writing'
        BY <1>1, <1>2, <2>2, <2>3 DEF Writing
  <2>6. Chain'
    <3> SUFFICES ASSUME starts = 1 PROVE Runs' /\ Links'
        BY <1>2 DEF Chain
    <3>1. Runs /\ Links
          BY <1>1, <1>2, <1>6 DEF Chain
    <3>2. \A i \in Present' : i \in Present /\ i # r /\ Ent(i)' = Ent(i) /\ Final(i)' = Final(i)
          BY <2>2 DEF Ent, Final
    <3>3. Runs'
          BY <3>1, <3>2 DEF Runs
    <3>4. ASSUME NEW i \in Present'
          PROVE  /\ i # current'
                 /\ U32(i + 1) \in Present' => Ent(U32(i + 1))'[1] = Final(i)' + 1
                 /\ U32(i + 1) \notin Present' => U32(i + 1) = current' /\ Final(i)' = logged
      <4>1. i # current'
            BY <2>3, <3>2
      <4>2. CASE i = current
        <5>1. U32(i + 1) = current' /\ current' \notin Present'
              BY <1>2, <2>2, <2>3, <4>2
        <5>2. Final(i)' = logged
              BY <3>1, <3>2, <4>2 DEF Links
        <5> QED BY <4>1, <5>1, <5>2
      <4>3. CASE i # current
        <5>1. U32(i + 1) \in Present
              BY <1>1, <1>2, <3>1, <3>2, <4>3 DEF Links, Writing
        <5>2. U32(i + 1) # r
          <6>1. i \in Index /\ Behind(current', i) < MaxFiles
                BY <1>1, <2>3, <3>2
          <6> QED BY <1>3, <6>1, OldestIsNoNext DEF r
        <5>3. U32(i + 1) \in Present'
              BY <2>2, <5>1, <5>2
        <5>4. Ent(U32(i + 1))[1] = Final(i) + 1
              BY <3>1, <3>2, <4>3, <5>1 DEF Links
        <5> QED BY <3>2, <4>1, <5>3, <5>4
      <4> QED BY <4>2, <4>3
    <3>5. Links'
          BY <1>2, <3>4 DEF Links
    <3> QED BY <3>3, <3>5
  <2> QED BY <1>4, <2>2, <2>4, <2>5, <2>6 DEF FileInv
<1> QED BY <1>5, <1>6

(* A file that has the new index is removed (93-94): there is none while   *)
(* the number of files is limited.                                         *)
LEMMA RenewKeeps == FileInv /\ Renew => FileInv'
<1> SUFFICES ASSUME FileInv, Renew PROVE FileInv'
    OBVIOUS
<1>1. FilesOK /\ RestOK /\ Cleaning /\ Windowed /\ SizeKept /\ Writing /\ Unstarted /\ Chain
      BY DEF FileInv
<1>2. /\ pc = "renew" /\ pc' = "write" /\ files' = Remove({current}) /\ dir' = dir
      /\ current' = current /\ size' = size /\ logged' = logged /\ starts' = starts
      /\ doomed' = doomed /\ last' = last
      BY DEF Renew
<1>3. /\ Present' = Present \ {current} /\ \A i \in Present' : files'[i] = files[i]
      /\ FilesOK' /\ SizeKept'
      BY <1>1, <1>2, RemoveKeeps
<1>4. RestOK' /\ Unstarted' /\ Cleaning'
      BY <1>1, <1>2, <1>3 DEF RestOK, Unstarted, Cleaning
<1>5. Windowed'
      BY <1>1, <1>2, <1>3 DEF Windowed, Behind
<1>6. Writing'
      BY <1>1, <1>2, <1>3 DEF Writing
<1>7. Chain'
  <2> SUFFICES ASSUME MaxFiles > 0, starts = 1 PROVE Runs' /\ Links'
      BY <1>2 DEF Chain
  <2>1. Present' = Present /\ Runs /\ Links
        BY <1>1, <1>2, <1>3 DEF Writing, Chain
  <2>2. \A i \in Present : Ent(i)' = Ent(i) /\ Final(i)' = Final(i)
        BY <1>3, <2>1 DEF Ent, Final
  <2>3. Runs'
        BY <2>1, <2>2 DEF Runs
  <2>4. Links'
        BY <1>2, <2>1, <2>2 DEF Links
  <2> QED BY <2>3, <2>4
<1> QED BY <1>3, <1>4, <1>5, <1>6, <1>7 DEF FileInv

(* The entry is appended to the current file (98-101).                     *)
LEMMA WriteKeeps == FileInv /\ Write => FileInv'
<1> SUFFICES ASSUME FileInv, Write PROVE FileInv'
    OBVIOUS
<1>1. /\ FilesOK /\ RestOK /\ Cleaning /\ Windowed /\ SizeKept /\ Writing /\ Unstarted /\ Chain
      /\ Present \subseteq Index /\ current \in Index
      BY DEF FileInv, FilesOK, RestOK
<1>2. /\ pc = "write" /\ pc' = "idle" /\ logged' = logged + 1
      /\ dir' = dir /\ current' = current /\ size' = size /\ starts' = starts
      /\ doomed' = doomed /\ last' = last
      BY DEF Write
<1>3. /\ logged < MaxLogged /\ size \in Nat \ {0} /\ logged \in Nat /\ MaxLogged \in Nat /\ MaxSize \in Nat
      /\ (MaxSize > 0 => size <= MaxSize)
      BY <1>1, <1>2, SizeAssumption, BoundAssumption DEF Writing, RestOK
<1>4. logged' \in 1..MaxLogged
      BY <1>2, <1>3
<1>5. RestOK'
      BY <1>1, <1>2, <1>4 DEF RestOK
<1>6. starts # 0
      BY <1>1, <1>2 DEF Unstarted
<1>7. Unstarted' /\ Writing' /\ Cleaning'
      BY <1>1, <1>2, <1>6 DEF Unstarted, Writing, Cleaning
<1>8. CASE ~dir
  <2>1. Present = {} /\ files' = files
        BY <1>1, <1>8 DEF FilesOK, Write
  <2>2. Present' = {}
        BY <2>1 DEF Present
  <2>3. FilesOK' /\ SizeKept' /\ Windowed'
        BY <1>1, <2>1, <2>2 DEF FilesOK, SizeKept, Windowed
  <2>4. Chain'
        BY <2>2 DEF Chain, Runs, Links
  <2> QED BY <1>5, <1>7, <2>3, <2>4 DEF FileInv
<1>9. CASE dir
  <2> DEFINE old == IF current \in Present THEN files[current] ELSE [size |-> 0, entries |-> <<>>]
             e   == old.entries
             new == [size |-> old.size + size, entries |-> Append(e, logged')]
  <2>1. files' = [i \in Present \cup {current} |-> IF i = current THEN new ELSE files[i]]
        BY <1>9 DEF Write
  <2>2. old.size \in Nat /\ e \in Seq(1..MaxLogged)
    <3>1. CASE current \in Present
      <4>1. files[current].size \in Nat \ {0} /\ files[current].entries \in Seq(1..MaxLogged)
            BY <1>1, <3>1 DEF FilesOK, Ent
      <4> QED BY <3>1, <4>1
    <3>2. CASE current \notin Present
      <4>1. <<>> \in Seq(1..MaxLogged)
            OBVIOUS
      <4> QED BY <3>2, <4>1
    <3> QED BY <3>1, <3>2
  <2>3. MaxSize > 0 => old.size + size <= MaxSize
        BY <1>1, <1>2, <1>3 DEF Writing
  <2>4. new.size \in Nat \ {0} /\ (MaxSize > 0 => new.size <= MaxSize)
        BY <1>3, <2>2, <2>3
  <2>5. /\ new.entries \in Seq(1..MaxLogged) /\ Len(new.entries) = Len(e) + 1
        /\ \A x \in 1..Len(e) : new.entries[x] = e[x]
        /\ new.entries[Len(e) + 1] = logged' /\ Len(e) \in Nat
        BY <1>4, <2>2, AppendProperties, LenProperties
  <2>6. current \in Present => e = Ent(current)
        BY DEF Ent
  <2>7. current \notin Present => e = <<>> /\ Len(e) = 0
        OBVIOUS
  <2> HIDE DEF new, e, old
  <2>8. /\ Present' = Present \cup {current} /\ files'[current] = new
        /\ \A i \in Present : i # current => files'[i] = files[i]
        BY <2>1 DEF Present
  <2>9. files' = [i \in Present' |-> files'[i]]
        BY <2>1, <2>8
  <2>10. FilesOK'
    <3>1. \A i \in Present' : files'[i].size \in Nat \ {0} /\ Ent(i)' \in Seq(1..MaxLogged)
          BY <1>1, <2>4, <2>5, <2>8 DEF FilesOK, Ent
    <3> QED BY <1>1, <1>2, <1>9, <2>8, <2>9, <3>1 DEF FilesOK
  <2>11. SizeKept'
        BY <1>1, <2>4, <2>8 DEF SizeKept
  <2>12. Windowed'
    <3>1. MaxFiles > 0 => Behind(current, current) < MaxFiles
          BY <1>1, WidthAssumption, SizeAssumption DEF Behind, Index
    <3> QED BY <1>1, <1>2, <2>8, <3>1 DEF Windowed, Behind
  <2>13. Chain'
    <3> SUFFICES ASSUME MaxFiles > 0, starts = 1 PROVE Runs' /\ Links'
        BY <1>2 DEF Chain
    <3>1. Runs /\ Links
          BY <1>1, <1>2 DEF Chain
    <3>2. Ent(current)' = new.entries /\ Final(current)' = logged'
          BY <1>2, <2>5, <2>8 DEF Ent, Final
    <3>3. \A i \in Present : i # current => Ent(i)' = Ent(i) /\ Final(i)' = Final(i)
          BY <2>8 DEF Ent, Final
    <3>4. Ent(current)'[1] = IF current \in Present THEN Ent(current)[1] ELSE logged'
      <4>1. CASE current \in Present
        <5>1. Len(e) > 0 /\ 1 \in 1..Len(e)
              BY <2>5, <2>6, <3>1, <4>1 DEF Runs
        <5>2. new.entries[1] = e[1]
              BY <2>5, <5>1
        <5> QED BY <2>6, <3>2, <4>1, <5>2
      <4>2. CASE current \notin Present
        <5>1. new.entries[0 + 1] = logged'
              BY <2>5, <2>7, <4>2
        <5> QED BY <3>2, <4>2, <5>1
      <4> QED BY <4>1, <4>2
    <3>5. ASSUME NEW x \in 1..(Len(e) + 1) PROVE Ent(current)'[x] = Ent(current)'[1] + x - 1
      <4>1. CASE current \in Present
        <5>1. /\ Len(e) > 0 /\ \A y \in 1..Len(e) : e[y] = e[1] + y - 1
              /\ e[Len(e)] = logged
              BY <2>6, <3>1, <4>1 DEF Runs, Links, Final
        <5>2. e[1] \in Nat /\ e[Len(e)] = e[1] + Len(e) - 1
          <6>1. 1 \in 1..Len(e) /\ Len(e) \in 1..Len(e)
                BY <2>5, <5>1
          <6>2. e[1] \in 1..MaxLogged
                BY <2>2, <6>1, ElementOfSeq
          <6> QED BY <5>1, <6>1, <6>2, <1>3, SMTT(30)
        <5>3. CASE x \in 1..Len(e)
              BY <2>5, <2>6, <3>2, <3>4, <4>1, <5>1, <5>3
        <5>4. CASE x = Len(e) + 1
          <6>1. Ent(current)'[x] = logged + 1
                BY <1>2, <2>5, <3>2, <5>4
          <6>2. Ent(current)'[1] = e[1]
                BY <2>6, <3>4, <4>1
          <6>3. e[1] + x - 1 = logged + 1
                BY <1>3, <2>5, <5>1, <5>2, <5>4
          <6> QED BY <6>1, <6>2, <6>3
        <5> QED BY <2>5, <5>3, <5>4
      <4>2. CASE current \notin Present
        <5>1. x = 1
              BY <2>7, <4>2
        <5> QED BY <1>4, <3>4, <4>2, <5>1
      <4> QED BY <4>1, <4>2
    <3>6. Runs'
      <4>1. Len(Ent(current)') = Len(e) + 1 /\ Len(e) + 1 > 0
            BY <2>5, <3>2
      <4>2. \A i \in Present : i # current =>
               Len(Ent(i)') > 0 /\ \A x \in 1..Len(Ent(i)') : Ent(i)'[x] = Ent(i)'[1] + x - 1
            BY <3>1, <3>3 DEF Runs
      <4> QED BY <1>2, <2>8, <3>5, <4>1, <4>2 DEF Runs
    <3>7. ASSUME NEW i \in Present', i # current
          PROVE  /\ U32(i + 1) \in Present' => Ent(U32(i + 1))'[1] = Final(i)' + 1
                 /\ U32(i + 1) \notin Present' => U32(i + 1) = current' /\ Final(i)' = logged'
      <4>1. i \in Present /\ Final(i)' = Final(i)
            BY <2>8, <3>3, <3>7
      <4>2. CASE U32(i + 1) \in Present
        <5>1. Ent(U32(i + 1))[1] = Final(i) + 1
              BY <3>1, <3>7, <4>1, <4>2 DEF Links
        <5>2. Ent(U32(i + 1))'[1] = Ent(U32(i + 1))[1]
          <6>1. CASE U32(i + 1) = current
                BY <1>2, <3>4, <4>2, <6>1 DEF Ent
          <6>2. CASE U32(i + 1) # current
                BY <3>3, <4>2, <6>2
          <6> QED BY <6>1, <6>2
        <5> QED BY <2>8, <4>1, <4>2, <5>1, <5>2
      <4>3. CASE U32(i + 1) \notin Present
        <5>1. U32(i + 1) = current /\ Final(i) = logged
              BY <3>1, <3>7, <4>1, <4>3 DEF Links
        <5> QED BY <1>2, <2>8, <3>4, <4>1, <4>3, <5>1
      <4> QED BY <4>2, <4>3
    <3>8. Links'
          BY <1>2, <3>2, <3>7 DEF Links
    <3> QED BY <3>6, <3>8
  <2> QED BY <1>5, <1>7, <2>10, <2>11, <2>12, <2>13 DEF FileInv
<1> QED BY <1>8, <1>9

(* The process stops, the user removes the directory, or nothing happens.  *)
LEMMA OthersKeep == FileInv /\ (Down \/ UserRemoves \/ Over \/ UNCHANGED vars) => FileInv'
<1>1. ASSUME FileInv, Down PROVE FileInv'
  <2>1. FilesOK' /\ SizeKept' /\ RestOK'
        BY <1>1 DEF FileInv, FilesOK, RestOK, SizeKept, Present, Ent, Down
  <2>2. Cleaning'
        BY <1>1 DEF FileInv, Cleaning, RestOK, Down
  <2>3. Windowed'
        BY <1>1 DEF FileInv, Cleaning, RestOK, Windowed, Present, Behind, Down
  <2>4. Writing' /\ Unstarted' /\ Chain'
        BY <1>1 DEF FileInv, Writing, Unstarted, Chain, Present, Down
  <2> QED BY <2>1, <2>2, <2>3, <2>4 DEF FileInv
<1>2. ASSUME FileInv, UserRemoves PROVE FileInv'
  <2>1. Present' = {} /\ files' = [i \in Present' |-> files'[i]]
        BY <1>2 DEF UserRemoves, Present
  <2>2. FilesOK' /\ SizeKept' /\ Windowed'
        BY <2>1 DEF FilesOK, SizeKept, Windowed
  <2>3. RestOK' /\ Writing' /\ Unstarted' /\ Cleaning'
        BY <1>2, <2>1 DEF FileInv, RestOK, Writing, Unstarted, Cleaning, UserRemoves
  <2>4. Chain'
        BY <2>1 DEF Chain, Runs, Links
  <2> QED BY <2>2, <2>3, <2>4 DEF FileInv
<1>3. ASSUME FileInv, UNCHANGED vars PROVE FileInv'
  <2>1. FilesOK' /\ SizeKept' /\ Windowed' /\ RestOK'
        BY <1>3 DEF FileInv, FilesOK, RestOK, SizeKept, Windowed, Present, Ent, Behind, vars
  <2>2. Writing' /\ Unstarted' /\ Cleaning'
        BY <1>3 DEF FileInv, Writing, Unstarted, Cleaning, Present, vars
  <2>3. Chain'
        BY <1>3 DEF FileInv, Chain, Runs, Links, Present, Ent, Final, vars
  <2> QED BY <2>1, <2>2, <2>3 DEF FileInv
<1> QED BY <1>1, <1>2, <1>3 DEF Over

LEMMA FileInvHolds == Spec => []FileInv
<1>1. FileInv /\ [Next]_vars => FileInv'
      BY ConstructKeeps, DetectKeeps, CleanKeeps, LogKeeps, RotateKeeps, RenewKeeps, WriteKeeps, OthersKeep DEF Next
<1> QED BY FileInitially, <1>1, PTL DEF Spec

(* The file sink has its steps when it is the one that is configured.      *)
LEMMA DiskIsFile == DiskSpec => Spec
<1>1. DiskInit => Init
      BY DEF DiskInit
<1>2. [DiskNext]_diskVars => [Next]_vars
      BY DEF DiskNext, diskVars
<1> QED BY <1>1, <1>2, PTL DEF DiskSpec, Spec

(* The sink has no files but those of its window and, while a construction *)
(* has not come to them, those it is still to remove, and none that is     *)
(* bigger than the limit, at every construction, rotation, wrap of the     *)
(* index, stop of the process and loss of the directory (67-101, 142-182). *)
THEOREM LimitsHold == DiskSpec => []WithinLimits
<1>1. FileInv => WithinLimits
  <2> SUFFICES ASSUME FileInv PROVE WithinLimits
      OBVIOUS
  <2>1. Present \subseteq Index /\ current \in Index /\ Windowed /\ SizeKept
        BY DEF FileInv, FilesOK, RestOK
  <2>2. ASSUME pc \notin {"down", "list"} PROVE Present \subseteq Window \cup doomed
    <3>1. CASE MaxFiles = 0
          BY <2>1, <3>1 DEF Window
    <3>2. CASE MaxFiles # 0
      <4>1. MaxFiles > 0
            BY <3>2, SizeAssumption
      <4> QED BY <2>1, <2>2, <4>1, WindowMembers DEF Windowed
    <3> QED BY <3>1, <3>2
  <2> QED BY <2>1, <2>2 DEF WithinLimits, OnlyWindow
<1> QED BY DiskIsFile, FileInvHolds, <1>1, PTL

-------------------------------------------------------------------------------
(* What is kept, file by file. The recursive function exists: the least    *)
(* length it did not exist for would be one more than one it exists for.   *)
At(n)    == U32(current - n + 1)
Piece(n) == IF At(n) \in Present THEN files[At(n)].entries ELSE << >>

Collects(f, m) == f = [n \in 0..m |-> IF n = 0 THEN << >> ELSE Piece(n) \o f[n - 1]]

LEMMA CollectionExists == \E f : Collects(f, MaxFiles)
<1>1. MaxFiles \in Nat
      BY SizeAssumption
<1> DEFINE T == {m \in Nat : ~\E f : Collects(f, m)}
<1>2. SUFFICES ASSUME T # {} PROVE FALSE
      BY <1>1
<1>3. PICK m \in T : \A y \in T : m <= y
  <2>1. T \subseteq Nat
        OBVIOUS
  <2> HIDE DEF T
  <2> QED BY <1>2, <2>1, LeastOf
<1>4. m \in Nat /\ ~\E f : Collects(f, m)
      OBVIOUS
<1>5. CASE m = 0
  <2> DEFINE g == [n \in 0..0 |-> << >>]
  <2>1. g = [n \in 0..0 |-> IF n = 0 THEN << >> ELSE Piece(n) \o g[n - 1]]
        OBVIOUS
  <2> QED BY <1>4, <1>5, <2>1 DEF Collects
<1>6. CASE m # 0
  <2>1. m - 1 \in Nat /\ ~(m <= m - 1)
        BY <1>4, <1>6
  <2>2. m - 1 \notin T
        BY <1>3, <2>1
  <2>3. PICK f : Collects(f, m - 1)
        BY <2>1, <2>2
  <2> DEFINE g == [n \in 0..m |-> IF n = m THEN Piece(n) \o f[n - 1] ELSE f[n]]
  <2>4. ASSUME NEW n \in 0..m
        PROVE  g[n] = IF n = 0 THEN << >> ELSE Piece(n) \o g[n - 1]
    <3>1. CASE n = m
      <4>1. n # 0 /\ n - 1 \in 0..m /\ n - 1 # m
            BY <1>4, <1>6, <3>1
      <4>2. g[n - 1] = f[n - 1] /\ g[n] = Piece(n) \o f[n - 1]
            BY <3>1, <4>1
      <4> QED BY <4>1, <4>2
    <3>2. CASE n # m
      <4>1. n \in 0..(m - 1)
            BY <1>4, <3>2
      <4>2. g[n] = f[n]
            BY <3>2
      <4>3. f[n] = IF n = 0 THEN << >> ELSE Piece(n) \o f[n - 1]
            BY <2>3, <4>1 DEF Collects
      <4>4. n # 0 => n - 1 \in 0..m /\ n - 1 # m
            BY <1>4, <4>1
      <4>5. n # 0 => g[n - 1] = f[n - 1]
            BY <4>4
      <4> QED BY <4>2, <4>3, <4>5
    <3> QED BY <3>1, <3>2
  <2>5. g = [n \in 0..m |-> g[n]]
        OBVIOUS
  <2>6. Collects(g, m)
    <3> HIDE DEF g
    <3> QED BY <2>4, <2>5 DEF Collects
  <2> QED BY <1>4, <2>6
<1> QED BY <1>5, <1>6

LEMMA EntriesUnfold ==
  \A n \in 0..MaxFiles : Entries[n] = IF n = 0 THEN << >> ELSE Piece(n) \o Entries[n - 1]
<1>1. Entries = CHOOSE f : Collects(f, MaxFiles)
      BY DEF Entries, Collects, Piece, At
<1>2. Collects(Entries, MaxFiles)
      BY <1>1, CollectionExists
<1> QED BY <1>2 DEF Collects

(* The last n files of the window: the end of what was logged, and the     *)
(* file before them ends where they start.                                 *)
Upto(n) ==
    /\ Entries[n] \in Seq(Nat)
    /\ \A x \in 1..Len(Entries[n]) : Entries[n][x] = logged - Len(Entries[n]) + x
    /\ n < MaxFiles /\ At(n + 1) \in Present => Final(At(n + 1)) = logged - Len(Entries[n])

LEMMA AtValue ==
  ASSUME current \in Index, NEW n \in 1..MaxFiles
  PROVE  At(n) = IF current - n + 1 < 0 THEN current - n + 1 + Width ELSE current - n + 1
<1>1. Width \in Nat /\ MaxFiles \in Nat /\ MaxFiles + 1 < Width /\ current \in 0..(Width - 1)
      BY SizeAssumption, WidthAssumption DEF Index
<1> DEFINE c == current - n + 1
<1>2. c \in Int /\ -Width <= c /\ c < Width
      BY <1>1
<1>3. U32(c) = IF c < 0 THEN c + Width ELSE IF c < Width THEN c ELSE c - Width
  <2> HIDE DEF c
  <2> QED BY <1>1, <1>2, Wraps
<1> QED BY <1>2, <1>3 DEF At

LEMMA AtFollows ==
  ASSUME current \in Index, NEW n \in 1..MaxFiles
  PROVE  /\ At(n) \in Index /\ (n = 1 <=> At(n) = current)
         /\ n < MaxFiles => U32(At(n + 1) + 1) = At(n)
<1>1. Width \in Nat /\ MaxFiles \in Nat /\ MaxFiles + 1 < Width /\ current \in 0..(Width - 1)
      BY SizeAssumption, WidthAssumption DEF Index
<1>2. At(n) = IF current - n + 1 < 0 THEN current - n + 1 + Width ELSE current - n + 1
      BY AtValue
<1>3. At(n) \in Index /\ (n = 1 <=> At(n) = current)
      BY <1>1, <1>2 DEF Index
<1>4. ASSUME n < MaxFiles PROVE U32(At(n + 1) + 1) = At(n)
  <2> DEFINE k == n + 1
             a == At(k)
             b == a + 1
  <2>1. k \in 1..MaxFiles
        BY <1>1, <1>4
  <2>2. a = IF current - k + 1 < 0 THEN current - k + 1 + Width ELSE current - k + 1
    <3> HIDE DEF k
    <3> QED BY <2>1, AtValue
  <2> HIDE DEF a
  <2>3. a = IF current - n < 0 THEN current - n + Width ELSE current - n
        BY <1>1, <2>2
  <2>4. b \in Int /\ -Width <= b /\ b < 2 * Width
        BY <1>1, <2>3
  <2>5. U32(b) = IF b < 0 THEN b + Width ELSE IF b < Width THEN b ELSE b - Width
    <3> HIDE DEF b
    <3> QED BY <2>4, Wraps
  <2>6. U32(b) = At(n)
        BY <1>1, <1>2, <2>3, <2>5
  <2> QED BY <2>6 DEF a, b
<1> QED BY <1>3, <1>4

LEMMA UptoGrows ==
  ASSUME FileInv, pc # "down", starts = 1, NEW n \in 1..MaxFiles, Upto(n - 1)
  PROVE  Upto(n)
<1>1. /\ FilesOK /\ Runs /\ Links /\ current \in Index /\ logged \in Nat /\ MaxLogged \in Nat /\ MaxFiles \in Nat
      BY SizeAssumption, BoundAssumption DEF FileInv, Chain, RestOK
<1> DEFINE rest == Entries[n - 1]
           file == Piece(n)
           i    == At(n)
<1>2. n \in 0..MaxFiles /\ n # 0 /\ n - 1 < MaxFiles /\ n - 1 + 1 = n
      BY <1>1
<1>3. Entries[n] = file \o rest
      BY <1>2, EntriesUnfold
<1>4. /\ rest \in Seq(Nat) /\ \A x \in 1..Len(rest) : rest[x] = logged - Len(rest) + x
      /\ i \in Present => Final(i) = logged - Len(rest)
      BY <1>2 DEF Upto
<1>5. file \in Seq(Nat) /\ (i \in Present => file = Ent(i)) /\ (i \notin Present => file = << >>)
  <2>1. CASE i \in Present
    <3>1. file = Ent(i) /\ Ent(i) \in Seq(1..MaxLogged)
          BY <1>1, <2>1 DEF FilesOK, Piece, Ent
    <3>2. Ent(i) \in Seq(Nat)
      <4>1. 1..MaxLogged \subseteq Nat
            BY <1>1
      <4> QED BY <3>1, <4>1, SeqMonotonic
    <3> QED BY <2>1, <3>1, <3>2
  <2>2. CASE i \notin Present
        BY <2>2 DEF Piece
  <2> QED BY <2>1, <2>2
<1> HIDE DEF rest, file, i
<1> DEFINE l == Len(file)
           m == Len(rest)
<1>6. l \in Nat /\ m \in Nat
      BY <1>4, <1>5, LenProperties
<1>7. \A x \in 1..l : file[x] = logged - m - l + x
  <2> SUFFICES ASSUME NEW x \in 1..l PROVE file[x] = logged - m - l + x
      OBVIOUS
  <2>1. l > 0
        BY <1>6
  <2>2. i \in Present /\ file = Ent(i)
        BY <1>5, <2>1
  <2>3. /\ \A y \in 1..l : file[y] = file[1] + y - 1
        /\ file[l] = logged - m
        BY <1>1, <1>4, <2>2 DEF Runs, Final
  <2>4. 1 \in 1..l /\ l \in 1..l
        BY <1>6, <2>1
  <2>5. file[1] \in Nat
        BY <1>5, <2>4, ElementOfSeq
  <2>6. file[1] + l - 1 = logged - m /\ file[x] = file[1] + x - 1
        BY <2>3, <2>4
  <2> HIDE DEF l, m
  <2> QED BY <1>1, <1>6, <2>5, <2>6
<1>8. /\ Entries[n] \in Seq(Nat) /\ Len(Entries[n]) = l + m
      /\ \A x \in 1..(l + m) : Entries[n][x] = IF x <= l THEN file[x] ELSE rest[x - l]
      BY <1>3, <1>4, <1>5, ConcatProperties
<1>9. ASSUME NEW x \in 1..(l + m) PROVE Entries[n][x] = logged - (l + m) + x
  <2>1. CASE x <= l
    <3>1. x \in 1..l
          BY <1>6, <2>1
    <3>2. Entries[n][x] = logged - m - l + x
          BY <1>7, <1>8, <2>1, <3>1
    <3> HIDE DEF l, m
    <3> QED BY <1>1, <1>6, <3>2
  <2>2. CASE ~(x <= l)
    <3>1. x - l \in 1..m
          BY <1>6, <2>2
    <3>2. Entries[n][x] = logged - m + (x - l)
          BY <1>4, <1>8, <2>2, <3>1
    <3> HIDE DEF l, m
    <3> QED BY <1>1, <1>6, <3>2
  <2> QED BY <2>1, <2>2
<1>10. ASSUME n < MaxFiles, At(n + 1) \in Present PROVE Final(At(n + 1)) = logged - (l + m)
  <2> DEFINE j == At(n + 1)
             k == n + 1
  <2>1. k \in 1..MaxFiles /\ k # 1
        BY <1>1, <1>10
  <2>2. j # current
    <3> HIDE DEF k
    <3>1. At(k) # current
          BY <1>1, <2>1, AtFollows
    <3> QED BY <3>1 DEF k
  <2>3. U32(j + 1) = i
        BY <1>1, <1>10, AtFollows DEF i
  <2> HIDE DEF j
  <2>4. j \in Present
        BY <1>10 DEF j
  <2>5. CASE i \in Present
    <3>1. file[1] = Final(j) + 1
          BY <1>1, <1>5, <2>2, <2>3, <2>4, <2>5 DEF Links
    <3>2. l > 0 /\ 1 \in 1..l
          BY <1>1, <1>5, <1>6, <2>5 DEF Runs
    <3>3. file[1] = logged - m - l + 1
          BY <1>7, <3>2
    <3>4. Final(j) \in Int
      <4>1. Ent(j) \in Seq(1..MaxLogged) /\ Len(Ent(j)) > 0
            BY <1>1, <2>4 DEF FilesOK, Runs
      <4>2. Len(Ent(j)) \in 1..Len(Ent(j))
            BY <4>1, LenProperties
      <4>3. Final(j) \in 1..MaxLogged
            BY <4>1, <4>2, ElementOfSeq DEF Final
      <4> QED BY <4>3
    <3> HIDE DEF l, m
    <3>5. Final(j) = logged - (l + m)
          BY <1>1, <1>6, <3>1, <3>3, <3>4
    <3> QED BY <3>5 DEF j
  <2>6. CASE i \notin Present
    <3>1. i = current /\ Final(j) = logged
          BY <1>1, <2>2, <2>3, <2>4, <2>6 DEF Links
    <3>2. n = 1 /\ l = 0
          BY <1>1, <1>5, <2>6, <3>1, AtFollows DEF i
    <3>3. m = 0
      <4>1. Entries[0] = << >>
            BY <1>1, EntriesUnfold
      <4> QED BY <3>2, <4>1 DEF rest
    <3> HIDE DEF l, m
    <3> QED BY <1>1, <3>1, <3>2, <3>3 DEF j
  <2> QED BY <2>5, <2>6
<1> QED BY <1>8, <1>9, <1>10 DEF Upto

LEMMA UptoAll ==
  ASSUME FileInv, pc # "down", starts = 1, MaxFiles > 0
  PROVE  \A n \in 0..MaxFiles : Upto(n)
<1>1. MaxFiles \in Nat
      BY SizeAssumption
<1> DEFINE T == {n \in 0..MaxFiles : ~Upto(n)}
<1>2. SUFFICES ASSUME T # {} PROVE FALSE
      OBVIOUS
<1>3. PICK n \in T : \A y \in T : n <= y
  <2>1. T \subseteq Nat
        OBVIOUS
  <2> HIDE DEF T
  <2> QED BY <1>2, <2>1, LeastOf
<1>4. n \in 0..MaxFiles /\ ~Upto(n)
      OBVIOUS
<1>5. CASE n = 0
  <2>1. Entries[0] = << >>
        BY <1>1, EntriesUnfold
  <2>2. Entries[0] \in Seq(Nat) /\ Len(Entries[0]) = 0
        BY <2>1
  <2> DEFINE one == 0 + 1
  <2>3. one \in 1..MaxFiles /\ one = 1
        BY <1>1
  <2>4. current \in Index /\ Links /\ logged \in Nat
        BY DEF FileInv, Chain, RestOK
  <2>5. At(one) = current
    <3> HIDE DEF one
    <3> QED BY <2>3, <2>4, AtFollows
  <2>6. current \in Present => Final(current) = logged - 0
        BY <2>4 DEF Links
  <2>7. Upto(0)
        BY <2>2, <2>5, <2>6 DEF Upto
  <2> QED BY <1>4, <1>5, <2>7
<1>6. CASE n # 0
  <2>1. n \in 1..MaxFiles /\ n - 1 \in 0..MaxFiles /\ ~(n <= n - 1)
        BY <1>1, <1>4, <1>6
  <2>2. Upto(n - 1)
        BY <1>3, <2>1
  <2> QED BY <1>4, <2>1, <2>2, UptoGrows
<1> QED BY <1>5, <1>6

(* What the first run of the sink keeps on the disk is the end of what was *)
(* logged, in order and without a gap, however it rotates, wraps, is       *)
(* stopped or loses its directory (67-101).                                *)
THEOREM NoGaps == DiskSpec => []KeptIsSuffix
<1>1. FileInv => KeptIsSuffix
  <2> SUFFICES ASSUME FileInv, pc # "down", starts = 1, MaxFiles > 0
               PROVE  Kept = [n \in 1..Len(Kept) |-> logged - Len(Kept) + n]
      BY DEF KeptIsSuffix
  <2>1. MaxFiles \in 0..MaxFiles
        BY SizeAssumption
  <2>2. /\ Kept \in Seq(Nat)
        /\ \A x \in 1..Len(Kept) : Kept[x] = logged - Len(Kept) + x
        BY <2>1, UptoAll DEF Upto, Kept
  <2>3. Kept = [n \in 1..Len(Kept) |-> Kept[n]]
        BY <2>2
  <2> QED BY <2>2, <2>3
<1> QED BY DiskIsFile, FileInvHolds, <1>1, PTL

(* While the files reach down to index 0 they have one gap at most, between*)
(* the last file and the end of the indexes; it is wide enough to be    *)
(* found when the window takes up no more than half of them.               *)
LEMMA GapIsLast ==
  ASSUME FileInv, pc = "list", last # -1, 0..last \subseteq Present, MaxFiles > 0, 2 * MaxFiles <= Width + 1
  PROVE  Latest = last
<1>1. /\ Width \in Nat /\ MaxFiles \in Nat /\ MaxFiles + 1 < Width /\ last \in 0..(Width - 1)
      /\ Present \subseteq 0..(Width - 1) /\ Windowed
      BY SizeAssumption, WidthAssumption DEF FileInv, FilesOK, Cleaning, Index
<1>2. last \in Present /\ last \in 0..last
      BY <1>1
<1>3. IsLast(last)
  <2> SUFFICES ASSUME NEW k \in Present, k > last PROVE k - last >= MaxFiles
      BY DEF IsLast
  <2>1. k \in 0..(Width - 1) /\ Behind(last, k) < MaxFiles
        BY <1>1 DEF Windowed
  <2>2. last - k + Width < MaxFiles
        BY <1>1, <2>1 DEF Behind
  <2> QED BY <1>1, <2>1, <2>2
<1>4. ASSUME NEW j \in Present, j < last PROVE ~IsLast(j)
  <2>1. j \in 0..(Width - 1) /\ Behind(last, j) < MaxFiles
        BY <1>1 DEF Windowed
  <2>2. last - j < MaxFiles
        BY <1>1, <1>4, <2>1 DEF Behind
  <2>3. j + 1 \in 0..last /\ j + 1 > j /\ (j + 1) - j = 1 /\ ~(1 >= MaxFiles)
        BY <1>1, <1>4, <2>1, <2>2
  <2> QED BY <2>3 DEF IsLast
<1>5. /\ LastBeforeGap \in Present /\ IsLast(LastBeforeGap)
      /\ \A j \in Present : j < LastBeforeGap => ~IsLast(j)
      BY <1>1, <1>2, GapExists DEF Index
<1>6. LastBeforeGap = last
  <2>1. ~(LastBeforeGap < last) /\ ~(last < LastBeforeGap)
        BY <1>2, <1>3, <1>4, <1>5
  <2> QED BY <1>1, <1>5, <2>1
<1> DEFINE below == {j \in Present : j < last}
           b     == last - 1
<1>7. below = 0..b
  <2>1. ASSUME NEW j \in below PROVE j \in 0..b
    <3>1. j \in 0..(Width - 1) /\ j < last
          BY <1>1
    <3> QED BY <1>1, <3>1
  <2>2. ASSUME NEW j \in 0..b PROVE j \in below
    <3>1. j \in 0..last /\ j < last
          BY <1>1
    <3> QED BY <3>1
  <2> HIDE DEF below, b
  <2> QED BY <2>1, <2>2
<1>8. b \in Int /\ (0 > b => last = 0) /\ b - 0 + 1 = last
      BY <1>1
<1> HIDE DEF b
<1>9. Cardinality(0..b) = IF 0 > b THEN 0 ELSE b - 0 + 1
      BY <1>8, FS_Interval
<1>10. Cardinality(0..b) = last
      BY <1>8, <1>9
<1> QED BY <1>6, <1>7, <1>10 DEF Latest

(* A restart goes on with the last file and finds none to remove, while the*)
(* files reach down to index 0 (142-182): for a limited number of files,   *)
(* and no more of them than half of the indexes.                           *)
THEOREM RestartIsExact ==
  ASSUME MaxFiles > 0, 2 * MaxFiles <= Width + 1
  PROVE  DiskSpec => RestartContinues
<1> DEFINE Goal == Detect /\ last # -1 /\ 0..last \subseteq Present => current' = last /\ doomed' = {}
<1>1. ASSUME FileInv PROVE [Goal]_vars
  <2> SUFFICES ASSUME Detect, last # -1, 0..last \subseteq Present
               PROVE  current' = last /\ doomed' = {}
      OBVIOUS
  <2>1. Present \subseteq Index /\ last \in Index /\ Windowed /\ pc = "list"
        BY <1>1 DEF FileInv, FilesOK, Cleaning, Detect
  <2>2. last \in 0..last
        BY <2>1, WidthAssumption DEF Index
  <2>3. Latest = last
        BY <1>1, <2>1, GapIsLast
  <2>4. current' = last /\ doomed' = OldFiles(last)
        BY <2>2, <2>3 DEF Detect
  <2>5. \A i \in Present : i \notin OldFiles(last)
        BY <2>1, OldFilesAreOut DEF Windowed
  <2>6. OldFiles(last) \subseteq Present
        BY DEF OldFiles
  <2> QED BY <2>4, <2>5, <2>6
<1>2. DiskSpec => [][Goal]_vars
  <2> HIDE DEF Goal
  <2> QED BY DiskIsFile, FileInvHolds, <1>1, PTL
<1> QED BY <1>2 DEF RestartContinues

-------------------------------------------------------------------------------
(* The error sink. Its buffer holds the last entries of the run, consecutive*)
(* and up to the newest one. A file is named before it is there, and while *)
(* it is written, unless it was removed, it is the front of the buffer.    *)
Min2(a, b) == IF a <= b THEN a ELSE b

Buffered ==
    /\ m_entries \in Seq(Error!LogEntry) /\ entriesLogged \in 0..MaxErrorsLogged
    /\ since \in 1..(entriesLogged + 1)
    /\ Len(m_entries) = Min2(Capacity, entriesLogged - since + 1)
    /\ \A i \in 1..Len(m_entries) :
         m_entries[i] = [run |-> since, number |-> entriesLogged - Len(m_entries) + i]

(* Entries of the run of the first, with the numbers that follow it.       *)
OneRun(f) == \A i \in 1..Len(f) : f[i].run = f[1].run /\ f[i].number = f[1].number + i - 1

ErrorFilesOK ==
    /\ errorFiles = [p \in Places |-> errorFiles[p]]
    /\ \A p \in Places :
         /\ Error!Ids(p) \subseteq 1..MaxIds
         /\ \A n \in Error!Ids(p) :
              /\ errorFiles[p][n] \in Seq(Error!LogEntry) /\ Len(errorFiles[p][n]) <= Capacity
              /\ OneRun(errorFiles[p][n])

Flushing ==
    /\ errorPc \in {"idle", "named", "writing"} /\ place \in Places /\ id \in 0..MaxIds /\ written \in 0..Capacity
    /\ errorPc # "idle" => id \in 1..MaxIds
    /\ errorPc = "named" => id \notin Error!Ids(place)
    /\ errorPc = "writing" =>
         /\ written <= Len(m_entries)
         /\ id \in Error!Ids(place) =>
              /\ Len(errorFiles[place][id]) = written
              /\ \A i \in 1..written : errorFiles[place][id][i] = m_entries[i]

ErrorInv == Buffered /\ ErrorFilesOK /\ Flushing

LEMMA ErrorInitially == Error!Init => ErrorInv
<1> SUFFICES ASSUME Error!Init PROVE ErrorInv
    OBVIOUS
<1>1. Buffered
  <2>1. m_entries = << >> /\ entriesLogged = 0 /\ since = 1
        BY DEF Error!Init
  <2>2. m_entries \in Seq(Error!LogEntry) /\ Len(m_entries) = 0
        BY <2>1
  <2> QED BY <2>1, <2>2, CapacityAssumption DEF Buffered, Min2
<1>2. errorFiles = [p \in Places |-> << >>] /\ \A p \in Places : Error!Ids(p) = {}
      BY DEF Error!Init, Error!Ids
<1>3. errorFiles = [p \in Places |-> errorFiles[p]]
      BY <1>2
<1>4. ErrorFilesOK
      BY <1>2, <1>3 DEF ErrorFilesOK
<1>5. Flushing
      BY CapacityAssumption DEF Error!Init, Flushing
<1> QED BY <1>1, <1>4, <1>5 DEF ErrorInv

(* An entry is put into the circular buffer (110-115).                     *)
LEMMA PushKeeps ==
  ASSUME Buffered, entriesLogged < MaxErrorsLogged, entriesLogged' = entriesLogged + 1,
         m_entries' = Error!PushBack(m_entries, Error!Logged(entriesLogged')), since' = since
  PROVE  Buffered'
<1> DEFINE e == entriesLogged + 1
           x == [run |-> since, number |-> e]
           l == Len(m_entries)
<1>1. /\ m_entries \in Seq(Error!LogEntry) /\ entriesLogged \in Nat /\ MaxErrorsLogged \in Nat
      /\ Capacity \in Nat /\ since \in Nat /\ 1 <= since /\ since <= entriesLogged + 1
      /\ l = Min2(Capacity, entriesLogged - since + 1) /\ l \in Nat
      /\ \A i \in 1..l : m_entries[i] = [run |-> since, number |-> entriesLogged - l + i]
      BY CapacityAssumption, LenProperties DEF Buffered
<1>2. e \in 1..MaxErrorsLogged /\ entriesLogged' = e /\ entriesLogged' \in 0..MaxErrorsLogged
      BY <1>1
<1>3. since' \in 1..(entriesLogged' + 1)
      BY <1>1, <1>2
<1>4. m_entries' = Error!PushBack(m_entries, x) /\ x \in Error!LogEntry
  <2>1. since \in 1..(MaxErrorsLogged + 1)
        BY <1>1
  <2> QED BY <1>2, <2>1 DEF Error!Logged, Error!LogEntry
<1> HIDE DEF x
<1>5. ASSUME m_entries' \in Seq(Error!LogEntry), Len(m_entries') = Min2(Capacity, e - since + 1),
             \A i \in 1..Len(m_entries') : m_entries'[i] = [run |-> since, number |-> e - Len(m_entries') + i]
      PROVE  Buffered'
      BY <1>2, <1>3, <1>5 DEF Buffered
<1> HIDE DEF e
<1>6. CASE Capacity = 0
  <2>1. m_entries' = << >>
        BY <1>4, <1>6 DEF Error!PushBack
  <2>2. m_entries' \in Seq(Error!LogEntry) /\ Len(m_entries') = 0
        BY <2>1, EmptySeq
  <2>3. Min2(Capacity, e - since + 1) = 0
        BY <1>1, <1>6 DEF Min2, e
  <2> QED BY <1>5, <2>2, <2>3
<1>7. CASE Capacity # 0 /\ l < Capacity
  <2>1. m_entries' = Append(m_entries, x)
        BY <1>4, <1>7 DEF Error!PushBack
  <2>2. /\ m_entries' \in Seq(Error!LogEntry) /\ Len(m_entries') = l + 1
        /\ \A i \in 1..l : m_entries'[i] = m_entries[i]
        /\ m_entries'[l + 1] = x
    <3> DEFINE q == Append(m_entries, x)
    <3>1. /\ q \in Seq(Error!LogEntry) /\ Len(q) = l + 1
          /\ \A i \in 1..l : q[i] = m_entries[i]
          /\ q[l + 1] = x
          BY <1>1, <1>4, AppendProperties
    <3> HIDE DEF q
    <3> QED BY <2>1, <3>1 DEF q
  <2>3. l + 1 = Min2(Capacity, e - since + 1)
        BY <1>1, <1>7 DEF Min2, e
  <2>4. ASSUME NEW i \in 1..(l + 1) PROVE m_entries'[i] = [run |-> since, number |-> e - (l + 1) + i]
    <3>1. CASE i \in 1..l
      <4>1. m_entries'[i] = [run |-> since, number |-> entriesLogged - l + i]
            BY <1>1, <2>2, <3>1
      <4>2. e - (l + 1) + i = entriesLogged - l + i
        <5> HIDE DEF l
        <5> QED BY <1>1, <3>1 DEF e
      <4> QED BY <4>1, <4>2
    <3>2. CASE i = l + 1
      <4>1. m_entries'[i] = x
            BY <2>2, <3>2
      <4>2. e = e - (l + 1) + i
        <5> HIDE DEF l
        <5> QED BY <1>1, <3>2 DEF e
      <4> QED BY <4>1, <4>2 DEF x
    <3> QED BY <1>1, <3>1, <3>2
  <2> QED BY <1>5, <2>2, <2>3, <2>4
<1>8. CASE Capacity # 0 /\ ~(l < Capacity)
  <2> DEFINE t == Tail(m_entries)
  <2>1. m_entries' = Append(t, x)
        BY <1>4, <1>8 DEF Error!PushBack
  <2>2. l > 0 /\ l = Capacity
        BY <1>1, <1>8 DEF Min2
  <2>3. m_entries # << >>
        BY <1>1, <2>2
  <2>4. /\ t \in Seq(Error!LogEntry) /\ Len(t) = l - 1
        /\ \A i \in 1..Len(t) : t[i] = m_entries[i + 1]
        BY <1>1, <2>3, HeadTailProperties
  <2> HIDE DEF t
  <2>5. /\ m_entries' \in Seq(Error!LogEntry) /\ Len(m_entries') = l
        /\ \A i \in 1..(l - 1) : m_entries'[i] = m_entries[i + 1]
        /\ m_entries'[l] = x
    <3> DEFINE q == Append(t, x)
    <3>1. /\ q \in Seq(Error!LogEntry) /\ Len(q) = Len(t) + 1
          /\ \A i \in 1..Len(t) : q[i] = t[i]
          /\ q[Len(t) + 1] = x
          BY <1>4, <2>4, AppendProperties
    <3>2. Len(t) + 1 = l
          BY <1>1, <2>4
    <3> HIDE DEF q
    <3> QED BY <2>1, <2>4, <3>1, <3>2 DEF q
  <2>6. l = Min2(Capacity, e - since + 1)
        BY <1>1, <2>2 DEF Min2, e
  <2>7. ASSUME NEW i \in 1..l PROVE m_entries'[i] = [run |-> since, number |-> e - l + i]
    <3>1. CASE i \in 1..(l - 1)
      <4>1. i + 1 \in 1..l
            BY <1>1, <3>1
      <4>2. m_entries'[i] = [run |-> since, number |-> entriesLogged - l + (i + 1)]
            BY <1>1, <2>5, <3>1, <4>1
      <4>3. e - l + i = entriesLogged - l + (i + 1)
        <5> HIDE DEF l
        <5> QED BY <1>1, <3>1 DEF e
      <4> QED BY <4>2, <4>3
    <3>2. CASE i = l
      <4>1. e = e - l + i
            BY <1>1, <3>2 DEF e
      <4> QED BY <2>5, <3>2, <4>1 DEF x
    <3> QED BY <1>1, <3>1, <3>2
  <2> QED BY <1>5, <2>5, <2>6, <2>7
<1> QED BY <1>6, <1>7, <1>8

(* The number determined for a file is that of none (40-72).               *)
LEMMA NextIdIsFree ==
  ASSUME NEW p \in Places, ErrorFilesOK
  PROVE  Error!NextId(p) \in Nat \ {0} /\ Error!NextId(p) \notin Error!Ids(p)
<1> DEFINE S == Error!Ids(p) \cup {0}
           b == CHOOSE n \in S : \A k \in Error!Ids(p) : k <= n
<1>1. S \subseteq 0..MaxIds /\ S # {} /\ MaxIds \in Nat
      BY CapacityAssumption DEF ErrorFilesOK
<1>2. \E n \in S : \A k \in S : k <= n
  <2> HIDE DEF S
  <2> QED BY <1>1, GreatestOf
<1>3. b \in S /\ \A k \in Error!Ids(p) : k <= b
      BY <1>2
<1>4. Error!NextId(p) = b + 1
      BY DEF Error!NextId
<1> HIDE DEF b
<1>5. b \in 0..MaxIds
  <2> HIDE DEF S
  <2> QED BY <1>1, <1>3
<1>6. ~(b + 1 <= b)
      BY <1>5
<1> QED BY <1>3, <1>4, <1>5, <1>6

(* Logging an entry; an error determines its file as well (110-116).       *)
LEMMA ErrorLogKeeps ==
  ErrorInv /\ (Error!LogInfo \/ \E p \in Places : Error!LogError(p)) => ErrorInv'
<1>1. ASSUME ErrorInv, Error!LogInfo PROVE ErrorInv'
  <2>1. /\ errorPc = "idle" /\ entriesLogged < MaxErrorsLogged /\ entriesLogged' = entriesLogged + 1
        /\ m_entries' = Error!PushBack(m_entries, Error!Logged(entriesLogged')) /\ since' = since
        /\ UNCHANGED <<errorFiles, errorPc, place, id, written>>
        BY <1>1 DEF Error!LogInfo
  <2>2. Buffered /\ ErrorFilesOK /\ Flushing
        BY <1>1 DEF ErrorInv
  <2>3. Buffered'
        BY <2>1, <2>2, PushKeeps
  <2>4. ErrorFilesOK'
        BY <2>1, <2>2 DEF ErrorFilesOK, Error!Ids
  <2>5. Flushing'
        BY <2>1, <2>2 DEF Flushing
  <2> QED BY <2>3, <2>4, <2>5 DEF ErrorInv
<1>2. ASSUME ErrorInv, NEW p \in Places, Error!LogError(p) PROVE ErrorInv'
  <2>1. /\ errorPc = "idle" /\ entriesLogged < MaxErrorsLogged /\ entriesLogged' = entriesLogged + 1
        /\ m_entries' = Error!PushBack(m_entries, Error!Logged(entriesLogged')) /\ since' = since
        /\ place' = p /\ id' = Error!NextId(p) /\ errorPc' = "named" /\ Error!NextId(p) <= MaxIds
        /\ UNCHANGED <<errorFiles, written>>
        BY <1>2 DEF Error!LogError
  <2>2. Buffered /\ ErrorFilesOK /\ Flushing
        BY <1>2 DEF ErrorInv
  <2>3. Buffered'
        BY <2>1, <2>2, PushKeeps
  <2>4. ErrorFilesOK' /\ Error!Ids(p)' = Error!Ids(p)
        BY <2>1, <2>2 DEF ErrorFilesOK, Error!Ids
  <2>5. Error!NextId(p) \in 1..MaxIds /\ Error!NextId(p) \notin Error!Ids(p)
        BY <2>1, <2>2, NextIdIsFree, CapacityAssumption
  <2>6. id' \in 1..MaxIds /\ id' \in 0..MaxIds /\ place' \in Places /\ written' \in 0..Capacity
        BY <2>1, <2>2, <2>5, CapacityAssumption DEF Flushing
  <2>7. id' \notin Error!Ids(place)'
        BY <2>1, <2>5 DEF Error!Ids
  <2>8. Flushing'
        BY <2>1, <2>6, <2>7 DEF Flushing
  <2> QED BY <2>3, <2>4, <2>8 DEF ErrorInv
<1> QED BY <1>1, <1>2

(* The file is opened (77-91): it is a new one.                            *)
LEMMA OpenKeeps == ErrorInv /\ Error!Open => ErrorInv'
<1> SUFFICES ASSUME ErrorInv, Error!Open PROVE ErrorInv'
    OBVIOUS
<1>1. Buffered /\ ErrorFilesOK /\ Flushing
      BY DEF ErrorInv
<1>2. /\ errorPc = "named" /\ errorPc' = "writing" /\ written' = 0
      /\ UNCHANGED <<m_entries, place, id, entriesLogged, since>>
      BY DEF Error!Open
<1>3. id \notin Error!Ids(place) /\ id \in 1..MaxIds /\ place \in Places /\ id \in 0..MaxIds
      BY <1>1, <1>2 DEF Flushing
<1> DEFINE new == [k \in Error!Ids(place) \cup {id} |-> IF k = id THEN << >> ELSE errorFiles[place][k]]
<1>4. errorFiles' = [errorFiles EXCEPT ![place] = new]
      BY <1>3 DEF Error!Open
<1>5. /\ DOMAIN new = Error!Ids(place) \cup {id} /\ new[id] = << >>
      /\ \A k \in Error!Ids(place) : new[k] = errorFiles[place][k]
      BY <1>3
<1> HIDE DEF new
<1>6. /\ errorFiles' = [p \in Places |-> errorFiles'[p]] /\ errorFiles'[place] = new
      /\ \A p \in Places : p # place => errorFiles'[p] = errorFiles[p]
      BY <1>1, <1>3, <1>4 DEF ErrorFilesOK
<1>7. /\ Error!Ids(place)' = Error!Ids(place) \cup {id}
      /\ \A p \in Places : p # place => Error!Ids(p)' = Error!Ids(p)
      BY <1>2, <1>5, <1>6 DEF Error!Ids
<1>8. Buffered'
      BY <1>1, <1>2 DEF Buffered
<1>9. ErrorFilesOK'
  <2>1. << >> \in Seq(Error!LogEntry) /\ Len(<< >>) = 0 /\ 0 <= Capacity
        BY EmptySeq, CapacityAssumption
  <2>2. ASSUME NEW n \in Error!Ids(place) \cup {id}
        PROVE  /\ new[n] \in Seq(Error!LogEntry) /\ Len(new[n]) <= Capacity
               /\ OneRun(new[n])
    <3>1. CASE n = id
          BY <1>5, <2>1, <3>1 DEF OneRun
    <3>2. CASE n # id
      <4>1. n \in Error!Ids(place) /\ new[n] = errorFiles[place][n]
            BY <1>5, <3>2
      <4> QED BY <1>1, <1>3, <4>1 DEF ErrorFilesOK
    <3> QED BY <3>1, <3>2
  <2>3. ASSUME NEW p \in Places PROVE Error!Ids(p)' \subseteq 1..MaxIds
    <3>1. Error!Ids(p) \subseteq 1..MaxIds
          BY <1>1 DEF ErrorFilesOK
    <3>2. CASE p = place
      <4>1. Error!Ids(p)' = Error!Ids(p) \cup {id}
            BY <1>2, <1>7, <3>2 DEF Error!Ids
      <4> QED BY <1>3, <3>1, <4>1
    <3>3. CASE p # place
          BY <1>7, <3>1, <3>3
    <3> QED BY <3>2, <3>3
  <2>4. ASSUME NEW p \in Places, NEW n \in Error!Ids(p)'
        PROVE  /\ errorFiles'[p][n] \in Seq(Error!LogEntry) /\ Len(errorFiles'[p][n]) <= Capacity
               /\ OneRun(errorFiles'[p][n])
    <3>1. CASE p = place
          BY <1>2, <1>6, <1>7, <2>2, <3>1
    <3>2. CASE p # place
          BY <1>1, <1>6, <1>7, <3>2 DEF ErrorFilesOK
    <3> QED BY <3>1, <3>2
  <2> QED BY <1>6, <2>3, <2>4 DEF ErrorFilesOK
<1>10. Flushing'
  <2>1. errorFiles'[place'][id'] = << >> /\ Len(<< >>) = 0 /\ 0 <= Len(m_entries')
        BY <1>1, <1>2, <1>5, <1>6, EmptySeq, LenProperties DEF Buffered
  <2>2. errorPc' = "writing" =>
          /\ written' <= Len(m_entries')
          /\ Len(errorFiles'[place'][id']) = written'
          /\ \A i \in 1..written' : errorFiles'[place'][id'][i] = m_entries'[i]
        BY <1>2, <2>1
  <2> QED BY <1>2, <1>3, <2>2, CapacityAssumption DEF Flushing
<1> QED BY <1>8, <1>9, <1>10 DEF ErrorInv

(* An entry of the buffer goes to the file, if that is still there (93-105).*)
LEMMA ErrorWriteKeeps == ErrorInv /\ Error!Write => ErrorInv'
<1> SUFFICES ASSUME ErrorInv, Error!Write PROVE ErrorInv'
    OBVIOUS
<1>1. Buffered /\ ErrorFilesOK /\ Flushing
      BY DEF ErrorInv
<1>2. /\ errorPc = "writing" /\ written < Len(m_entries) /\ written' = written + 1
      /\ UNCHANGED <<m_entries, errorPc, place, id, entriesLogged, since>>
      BY DEF Error!Write
<1>3. Buffered'
      BY <1>1, <1>2 DEF Buffered
<1>4. place \in Places /\ id \in 1..MaxIds /\ id \in 0..MaxIds /\ written \in Nat
      BY <1>1, <1>2 DEF Flushing
<1>5. /\ m_entries \in Seq(Error!LogEntry) /\ Len(m_entries) \in Nat /\ Len(m_entries) <= Capacity
      /\ Capacity \in Nat /\ entriesLogged \in Nat
      /\ \A i \in 1..Len(m_entries) :
           m_entries[i] = [run |-> since, number |-> entriesLogged - Len(m_entries) + i]
  <2>1. m_entries \in Seq(Error!LogEntry) /\ Len(m_entries) \in Nat /\ Capacity \in Nat
        BY <1>1, LenProperties, CapacityAssumption DEF Buffered
  <2> QED BY <1>1, <2>1 DEF Buffered, Min2
<1>6. /\ written' \in 0..Capacity /\ written' \in 1..Len(m_entries) /\ written' <= Len(m_entries)
      /\ m_entries[written'] \in Error!LogEntry
  <2>1. written' \in 0..Capacity /\ written' \in 1..Len(m_entries) /\ written' <= Len(m_entries)
        BY <1>2, <1>4, <1>5
  <2> QED BY <1>5, <2>1, ElementOfSeq
<1>7. CASE id \notin Error!Ids(place)
  <2>1. errorFiles' = errorFiles
        BY <1>7 DEF Error!Write
  <2>2. ErrorFilesOK'
        BY <1>1, <2>1 DEF ErrorFilesOK, Error!Ids
  <2>3. Flushing'
        BY <1>2, <1>4, <1>6, <1>7, <2>1 DEF Flushing, Error!Ids
  <2> QED BY <1>3, <2>2, <2>3 DEF ErrorInv
<1>8. CASE id \in Error!Ids(place)
  <2> DEFINE old == errorFiles[place][id]
             new == Append(old, m_entries[written'])
  <2>1. errorFiles' = [errorFiles EXCEPT ![place] = [@ EXCEPT ![id] = new]]
        BY <1>8 DEF Error!Write
  <2>2. /\ old \in Seq(Error!LogEntry) /\ Len(old) = written
        /\ \A i \in 1..written : old[i] = m_entries[i]
        BY <1>1, <1>2, <1>4, <1>8 DEF ErrorFilesOK, Flushing
  <2> HIDE DEF old
  <2>3. /\ new \in Seq(Error!LogEntry) /\ Len(new) = written'
        /\ \A i \in 1..written : new[i] = old[i]
        /\ new[written'] = m_entries[written']
        BY <1>2, <1>6, <2>2, AppendProperties
  <2>4. \A i \in 1..written' : new[i] = m_entries[i]
        BY <1>2, <1>4, <2>2, <2>3
  <2> HIDE DEF new
  <2>5. OneRun(new)
    <3> SUFFICES ASSUME NEW i \in 1..written'
                 PROVE  new[i].run = new[1].run /\ new[i].number = new[1].number + i - 1
        BY <2>3 DEF OneRun
    <3>1. 1 \in 1..written' /\ 1 \in 1..Len(m_entries) /\ i \in 1..Len(m_entries)
          BY <1>5, <1>6
    <3>2. /\ new[1] = [run |-> since, number |-> entriesLogged - Len(m_entries) + 1]
          /\ new[i] = [run |-> since, number |-> entriesLogged - Len(m_entries) + i]
          BY <1>5, <2>4, <3>1
    <3> QED BY <1>5, <1>6, <3>2
  <2>6. /\ errorFiles' = [p \in Places |-> errorFiles'[p]]
        /\ errorFiles'[place] = [errorFiles[place] EXCEPT ![id] = new]
        /\ \A p \in Places : p # place => errorFiles'[p] = errorFiles[p]
        BY <1>1, <1>4, <2>1 DEF ErrorFilesOK
  <2>7. \A p \in Places : Error!Ids(p)' = Error!Ids(p)
    <3> SUFFICES ASSUME NEW p \in Places PROVE DOMAIN errorFiles'[p] = DOMAIN errorFiles[p]
        BY DEF Error!Ids
    <3> QED BY <2>6
  <2>8. /\ errorFiles'[place][id] = new
        /\ \A n \in Error!Ids(place) : n # id => errorFiles'[place][n] = errorFiles[place][n]
        BY <1>8, <2>6 DEF Error!Ids
  <2>9. written' <= Capacity
        BY <1>5, <1>6
  <2>10. ErrorFilesOK'
    <3>1. \A p \in Places : Error!Ids(p)' \subseteq 1..MaxIds
          BY <1>1, <2>7 DEF ErrorFilesOK
    <3>2. ASSUME NEW p \in Places, NEW n \in Error!Ids(p)
          PROVE  /\ errorFiles'[p][n] \in Seq(Error!LogEntry) /\ Len(errorFiles'[p][n]) <= Capacity
                 /\ OneRun(errorFiles'[p][n])
      <4>1. CASE p = place /\ n = id
            BY <2>3, <2>5, <2>8, <2>9, <4>1
      <4>2. CASE ~(p = place /\ n = id)
        <5>1. errorFiles'[p][n] = errorFiles[p][n]
              BY <2>6, <2>8, <4>2
        <5> QED BY <1>1, <5>1 DEF ErrorFilesOK
      <4> QED BY <4>1, <4>2
    <3> QED BY <2>6, <2>7, <3>1, <3>2 DEF ErrorFilesOK
  <2>11. Flushing'
    <3>1. /\ Len(errorFiles'[place'][id']) = written'
          /\ \A i \in 1..written' : errorFiles'[place'][id'][i] = m_entries'[i]
          BY <1>2, <2>3, <2>4, <2>8
    <3> QED BY <1>2, <1>4, <1>6, <3>1 DEF Flushing
  <2> QED BY <1>3, <2>10, <2>11 DEF ErrorInv
<1> QED BY <1>7, <1>8

(* The process restarts: the buffer is empty, the files stay.              *)
LEMMA ErrorRestartKeeps == ErrorInv /\ Error!Restart => ErrorInv'
<1> SUFFICES ASSUME ErrorInv, Error!Restart PROVE ErrorInv'
    OBVIOUS
<1>1. Buffered /\ ErrorFilesOK /\ Flushing
      BY DEF ErrorInv
<1>2. /\ m_entries' = << >> /\ errorPc' = "idle" /\ since' = entriesLogged + 1
      /\ UNCHANGED <<errorFiles, place, id, written, entriesLogged>>
      BY DEF Error!Restart
<1>3. Buffered'
  <2>1. m_entries' \in Seq(Error!LogEntry) /\ Len(m_entries') = 0
        BY <1>2, EmptySeq
  <2>2. entriesLogged \in 0..MaxErrorsLogged /\ MaxErrorsLogged \in Nat /\ Capacity \in Nat
        BY <1>1, CapacityAssumption DEF Buffered
  <2>3. since' \in 1..(entriesLogged' + 1) /\ Min2(Capacity, entriesLogged' - since' + 1) = 0
        BY <1>2, <2>2 DEF Min2
  <2>4. \A i \in 1..Len(m_entries') :
          m_entries'[i] = [run |-> since', number |-> entriesLogged' - Len(m_entries') + i]
        BY <2>1
  <2> QED BY <1>2, <2>1, <2>2, <2>3, <2>4 DEF Buffered
<1>4. ErrorFilesOK'
      BY <1>1, <1>2 DEF ErrorFilesOK, Error!Ids
<1>5. Flushing'
      BY <1>1, <1>2 DEF Flushing
<1> QED BY <1>3, <1>4, <1>5 DEF ErrorInv

(* The user removes a file, also the one that is being written.            *)
LEMMA ErrorRemovalKeeps ==
  ASSUME ErrorInv, NEW p \in Places, NEW n, Error!UserRemoves(p, n)
  PROVE  ErrorInv'
<1>1. Buffered /\ ErrorFilesOK /\ Flushing
      BY DEF ErrorInv
<1> DEFINE new == [k \in Error!Ids(p) \ {n} |-> errorFiles[p][k]]
<1>2. /\ errorFiles' = [errorFiles EXCEPT ![p] = new]
      /\ UNCHANGED <<m_entries, errorPc, place, id, written, entriesLogged, since>>
      BY DEF Error!UserRemoves
<1>3. DOMAIN new = Error!Ids(p) \ {n} /\ \A k \in Error!Ids(p) \ {n} : new[k] = errorFiles[p][k]
      OBVIOUS
<1> HIDE DEF new
<1>4. /\ errorFiles' = [q \in Places |-> errorFiles'[q]] /\ errorFiles'[p] = new
      /\ \A q \in Places : q # p => errorFiles'[q] = errorFiles[q]
      BY <1>1, <1>2 DEF ErrorFilesOK
<1>5. ASSUME NEW q \in Places
      PROVE  /\ Error!Ids(q)' \subseteq Error!Ids(q)
             /\ \A k \in Error!Ids(q)' : errorFiles'[q][k] = errorFiles[q][k]
  <2>1. CASE q = p
        BY <1>3, <1>4, <2>1 DEF Error!Ids
  <2>2. CASE q # p
        BY <1>4, <2>2 DEF Error!Ids
  <2> QED BY <2>1, <2>2
<1>6. Buffered'
      BY <1>1, <1>2 DEF Buffered
<1>7. ErrorFilesOK'
      BY <1>1, <1>4, <1>5 DEF ErrorFilesOK
<1>8. Flushing'
  <2>1. place \in Places /\ place' = place
        BY <1>1, <1>2 DEF Flushing
  <2>2. /\ Error!Ids(place') \subseteq Error!Ids(place)
        /\ id \in Error!Ids(place)' => id \in Error!Ids(place) /\ errorFiles'[place][id] = errorFiles[place][id]
        BY <1>5, <2>1 DEF Error!Ids
  <2> QED BY <1>1, <1>2, <2>1, <2>2 DEF Flushing
<1> QED BY <1>6, <1>7, <1>8 DEF ErrorInv

LEMMA ErrorInvHolds == Error!Spec => []ErrorInv
<1>1. ASSUME ErrorInv, Error!Close \/ UNCHANGED Error!vars PROVE ErrorInv'
  <2>1. UNCHANGED <<m_entries, errorFiles, place, id, written, entriesLogged, since>>
        /\ (errorPc' = errorPc \/ errorPc' = "idle")
        BY <1>1 DEF Error!Close, Error!vars
  <2>2. Buffered' /\ ErrorFilesOK'
        BY <1>1, <2>1 DEF ErrorInv, Buffered, ErrorFilesOK, Error!Ids
  <2>3. Flushing'
        BY <1>1, <2>1 DEF ErrorInv, Flushing, Error!Ids
  <2> QED BY <2>2, <2>3 DEF ErrorInv
<1>2. ErrorInv /\ [Error!Next]_(Error!vars) => ErrorInv'
      BY <1>1, ErrorLogKeeps, OpenKeeps, ErrorWriteKeeps, ErrorRestartKeeps, ErrorRemovalKeeps
      DEF Error!Next
<1> QED BY ErrorInitially, <1>2, PTL DEF Error!Spec

LEMMA DiskIsError == DiskSpec => Error!Spec
<1>1. DiskInit => Error!Init
      BY DEF DiskInit
<1>2. [DiskNext]_diskVars => [Error!Next]_(Error!vars)
      BY DEF DiskNext, diskVars, errorVars, Error!vars
<1> QED BY <1>1, <1>2, PTL DEF DiskSpec, Error!Spec

(* A file of the error sink has no more than the capacity of the buffer and*)
(* consecutive entries of one run of the process, wherever a flush was     *)
(* stopped and whatever was removed meanwhile (ErrorLogger.cpp 40-72,      *)
(* 91-105).                                                                *)
THEOREM ErrorFilesAreRuns == DiskSpec => []FilesAreRuns
<1>1. ErrorInv => FilesAreRuns
  <2> SUFFICES ASSUME ErrorInv, NEW p \in Places, NEW n \in Error!Ids(p)
               PROVE  Len(errorFiles[p][n]) <= Capacity /\ Error!IsRun(errorFiles[p][n])
      BY DEF FilesAreRuns, Error!FilesAreRuns
  <2> DEFINE f == errorFiles[p][n]
  <2>1. /\ f \in Seq(Error!LogEntry) /\ Len(f) <= Capacity
        /\ OneRun(f)
        BY DEF ErrorInv, ErrorFilesOK
  <2> HIDE DEF f
  <2>2. ASSUME NEW i \in 1..(Len(f) - 1) 
               PROVE  f[i + 1].run = f[i].run /\ f[i + 1].number = f[i].number + 1
    <3>1. Len(f) \in Nat
          BY <2>1, LenProperties
    <3>2. i \in 1..Len(f) /\ i + 1 \in 1..Len(f) /\ 1 \in 1..Len(f)
          BY <3>1
    <3>3. /\ f[i].run = f[1].run /\ f[i].number = f[1].number + i - 1
          /\ f[i + 1].run = f[1].run /\ f[i + 1].number = f[1].number + (i + 1) - 1
          BY <2>1, <3>2 DEF OneRun
    <3>4. f[1] \in Error!LogEntry
          BY <2>1, <3>2, ElementOfSeq
    <3>5. f[1].number \in Int
          BY <3>4 DEF Error!LogEntry
    <3>6. f[1].number + (i + 1) - 1 = (f[1].number + i - 1) + 1
      <4> DEFINE a == f[1].number
      <4> HIDE DEF a
      <4>1. a \in Int /\ i \in Int => a + (i + 1) - 1 = (a + i - 1) + 1
            OBVIOUS
      <4> QED BY <3>1, <3>5, <4>1 DEF a
    <3> QED BY <3>3, <3>6
  <2> QED BY <2>1, <2>2 DEF Error!IsRun, f
<1> QED BY DiskIsError, ErrorInvHolds, <1>1, PTL

(* When a flush is over its file has the whole buffer: the last entries of *)
(* the run up to the error, as many as there are or as fit (74-118).       *)
THEOREM FlushGivesContext == DiskSpec => FlushIsContext
<1> DEFINE Goal ==
             Error!Close /\ id \in Error!Ids(place) =>
                LET first == IF entriesLogged - since < Capacity THEN since ELSE entriesLogged - Capacity + 1
                IN  errorFiles[place][id] = [k \in 1..(entriesLogged - first + 1) |-> Error!Logged(first + k - 1)]
<1>1. ASSUME ErrorInv PROVE [Goal]_(Error!vars)
  <2> DEFINE first == IF entriesLogged - since < Capacity THEN since ELSE entriesLogged - Capacity + 1
  <2> SUFFICES ASSUME Error!Close, id \in Error!Ids(place)
               PROVE  errorFiles[place][id] = [k \in 1..(entriesLogged - first + 1) |-> Error!Logged(first + k - 1)]
      OBVIOUS
  <2> DEFINE f == errorFiles[place][id]
             l == Len(m_entries)
  <2>1. /\ f \in Seq(Error!LogEntry) /\ Len(f) = l
        /\ \A i \in 1..l : f[i] = m_entries[i]
        BY <1>1 DEF ErrorInv, ErrorFilesOK, Flushing, Error!Close
  <2>2. /\ \A i \in 1..l : m_entries[i] = [run |-> since, number |-> entriesLogged - l + i]
        /\ l = Min2(Capacity, entriesLogged - since + 1)
        /\ Capacity \in Nat /\ entriesLogged \in Nat /\ since \in Nat /\ since <= entriesLogged + 1
        BY <1>1, CapacityAssumption DEF ErrorInv, Buffered
  <2> HIDE DEF f, l
  <2>3. l = entriesLogged - first + 1 /\ first \in Int
        BY <2>2 DEF Min2
  <2>4. \A i \in 1..l : f[i] = [run |-> since, number |-> first + i - 1]
    <3> HIDE DEF first
    <3> SUFFICES ASSUME NEW i \in 1..l PROVE f[i] = [run |-> since, number |-> first + i - 1]
        OBVIOUS
    <3>1. f[i] = [run |-> since, number |-> entriesLogged - l + i]
          BY <2>1, <2>2
    <3>2. entriesLogged - l + i = first + i - 1
          BY <2>2, <2>3
    <3> QED BY <3>1, <3>2
  <2>5. f = [k \in 1..l |-> f[k]]
        BY <2>1
  <2>6. f = [k \in 1..l |-> Error!Logged(first + k - 1)]
    <3> HIDE DEF first
    <3> QED BY <2>4, <2>5 DEF Error!Logged
  <2> QED BY <2>3, <2>6 DEF f
<1>2. DiskSpec => [][Goal]_(Error!vars)
  <2> HIDE DEF Goal
  <2> QED BY DiskIsError, ErrorInvHolds, <1>1, PTL
<1> QED BY <1>2, PTL DEF FlushIsContext, Error!FlushIsContext

(* Both sinks stay within their types (FileLogger.hpp 50-69,               *)
(* ErrorLogger.hpp 51-61): no index leaves the range of uint32_t, and no   *)
(* file has an id but one that was determined for it.                      *)
THEOREM TypeCorrect == DiskSpec => [](TypeOK /\ Error!TypeOK)
<1>1. FileInv => TypeOK
      BY DEF FileInv, FilesOK, RestOK, Cleaning, TypeOK, Ent
<1>2. ErrorInv => Error!TypeOK
  <2> SUFFICES ASSUME ErrorInv PROVE Error!TypeOK
      OBVIOUS
  <2>1. /\ Buffered /\ ErrorFilesOK /\ Flushing /\ Capacity \in Nat /\ MaxErrorsLogged \in Nat
        BY CapacityAssumption DEF ErrorInv
  <2>2. Len(m_entries) <= Capacity /\ since \in 1..(MaxErrorsLogged + 1)
        BY <2>1 DEF Buffered, Min2
  <2> QED BY <2>1, <2>2 DEF Buffered, ErrorFilesOK, Flushing, Error!TypeOK
<1> QED BY DiskIsFile, DiskIsError, FileInvHolds, ErrorInvHolds, <1>1, <1>2, PTL
===============================================================================

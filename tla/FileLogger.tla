------------------------------ MODULE FileLogger ------------------------------
(***************************************************************************)
(* The rotating file sink (core/logger/src/impl/FileLogger.cpp): log_event *)
(* appends to the current file and turns to the next index when it is      *)
(* full; initialize_fs, at construction, looks at the files an earlier run *)
(* has left, decides where to go on and removes the files it does not keep *)
(* one after the other. log_event is called with the facade's mutex held,  *)
(* so only one runs at a time, but the process may stop, and the user may  *)
(* remove the directory, between any two of the steps below. The listing   *)
(* of the directory (121-135) is one step, and so is the test of a file's  *)
(* existence and size (74-76): that file_size throws if the file goes      *)
(* between the two is left out.                                            *)
(*                                                                         *)
(* An index is a uint32_t: arithmetic on it is modulo Width. An entry is a *)
(* number, the position in the history of what was logged, and has a size. *)
(***************************************************************************)
EXTENDS Integers, Sequences, FiniteSets

CONSTANTS Width,      \* indexes are 0..Width-1; 2^32 in the code
          MaxFiles,   \* m_max_nbr_of_files
          MaxSize,    \* m_max_file_size_b
          Sizes,      \* the sizes of formatted messages
          MaxLogged,  \* bound: entries logged
          MaxStarts   \* bound: constructions of the sink

ASSUME SizeAssumption == MaxFiles \in Nat /\ MaxSize \in Nat /\ Sizes \subseteq Nat \ {0}
ASSUME WidthAssumption == Width \in Nat /\ MaxFiles + 1 < Width
ASSUME BoundAssumption == MaxLogged \in Nat /\ MaxStarts \in Nat

Index   == 0..(Width - 1)
U32(n)  == n % Width

VARIABLES dir,      \* the directory exists
          files,    \* the log files: index -> size and entries
          current,  \* m_current_index, and the index in m_current_file
          doomed,   \* the files that initialize_fs has still to remove
          pc,       \* "down", or where initialize_fs or log_event is
          size,     \* the size of the message being logged
          logged,   \* history: how many entries have been logged
          starts,   \* how often the sink was constructed
          last      \* history: the index where the last run stopped, or -1

vars == <<dir, files, current, doomed, pc, size, logged, starts, last>>

Init ==
    /\ dir = FALSE /\ files = << >> /\ current = 0 /\ pc = "down" /\ size = 0
    /\ logged = 0 /\ starts = 0 /\ doomed = {} /\ last = -1

Present      == DOMAIN files
Remove(set)  == [i \in Present \ set |-> files[i]]

-------------------------------------------------------------------------------
(* Mutation: the files are taken for a window that starts at the index. *)
OldFilesAhead(latest) == {i \in Present : U32(i - latest) >= MaxFiles}

(* The files outside of the MaxFiles indexes that end in latest (156-182). *)
OldFiles(latest) ==
    LET minIndex == U32(latest - MaxFiles + 1)
    IN  IF minIndex > latest
        THEN {i \in Present : i < minIndex /\ i > latest}
        ELSE {i \in Present : i < minIndex \/ i > latest}

(* The first index with no other one less than MaxFiles behind it, else    *)
(* the biggest (142-151).                                                  *)
LastBeforeGap ==
    CHOOSE i \in Present :
        LET isLast(j) == \A k \in Present : k > j => k - j >= MaxFiles
        IN  isLast(i) /\ \A j \in Present : j < i => ~isLast(j)

(* Mutation: the next position. *)
LatestNext == Cardinality({j \in Present : j <= LastBeforeGap})

(* initialize_fs goes on at the position of that index in the sorted list, *)
(* not at the index (153).                                                 *)
Latest == Cardinality({j \in Present : j < LastBeforeGap})

(* The constructor makes sure that there is a directory (25-36, 107), *)
Construct ==
    /\ pc = "down" /\ starts < MaxStarts
    /\ pc' = "list" /\ dir' = TRUE /\ current' = 0 /\ starts' = starts + 1
    /\ UNCHANGED <<files, doomed, size, logged, last>>

Cleaned(set) == IF set = {} THEN "idle" ELSE "clean"

(* looks for files and decides where to go on (109-159), *)
Detect ==
    /\ pc = "list"
    /\ IF Present = {}
       THEN UNCHANGED <<current, doomed>>
       ELSE current' = Latest /\ doomed' = OldFiles(Latest)
    /\ pc' = Cleaned(doomed')
    /\ UNCHANGED <<dir, files, size, logged, starts, last>>

(* and removes the old files, in the order of their indexes (161-182).     *)
Clean ==
    /\ pc = "clean"
    /\ \E i \in doomed : /\ \A j \in doomed : i <= j
                         /\ files' = Remove({i}) /\ doomed' = doomed \ {i}
    /\ pc' = Cleaned(doomed')
    /\ UNCHANGED <<dir, current, size, logged, starts, last>>

-------------------------------------------------------------------------------
(* Mutation: the message is not trimmed. *)
LogUntrimmed(s) ==
    /\ pc = "idle" /\ logged < MaxLogged
    /\ size' = s
    /\ pc' = IF current \in Present /\ (files[current].size + s > MaxSize \/ MaxSize = 0)
             THEN "rotate" ELSE "write"
    /\ UNCHANGED <<dir, files, current, doomed, logged, starts, last>>

(* log_event: the message is trimmed (67-71) and, if it does not fit into  *)
(* the current file any more, a new one is due (74-76).                    *)
Log(s) ==
    /\ pc = "idle" /\ logged < MaxLogged
    /\ size' = IF MaxSize > 0 /\ s > MaxSize THEN MaxSize ELSE s
    /\ pc' = IF current \in Present /\ (files[current].size + size' > MaxSize \/ MaxSize = 0)
             THEN "rotate" ELSE "write"
    /\ UNCHANGED <<dir, files, current, doomed, logged, starts, last>>

(* The next index; the oldest file goes (79-89). *)
Rotate ==
    /\ pc = "rotate" /\ pc' = "renew" /\ dir' = TRUE
    /\ current' = U32(current + 1)
    /\ files' = IF MaxFiles > 0 THEN Remove({U32(current' - MaxFiles)}) ELSE files
    /\ UNCHANGED <<doomed, size, logged, starts, last>>

(* The file of the new index is emptied, should there be one (93-94). *)
Renew ==
    /\ pc = "renew" /\ pc' = "write" /\ files' = Remove({current})
    /\ UNCHANGED <<dir, current, doomed, size, logged, starts, last>>

(* Mutation: the file is not opened for appending. *)
WriteTruncating ==
    /\ pc = "write" /\ pc' = "idle" /\ logged' = logged + 1
    /\ LET new == [size |-> size, entries |-> <<logged'>>]
       IN  files' = IF dir THEN [i \in Present \cup {current} |-> IF i = current THEN new ELSE files[i]]
                    ELSE files
    /\ UNCHANGED <<dir, current, doomed, size, starts, last>>

(* The message is appended (98-101); without its directory the file does   *)
(* not open, and nobody notices.                                           *)
Write ==
    /\ pc = "write" /\ pc' = "idle" /\ logged' = logged + 1
    /\ LET old == IF current \in Present THEN files[current] ELSE [size |-> 0, entries |-> <<>>]
           new == [size |-> old.size + size, entries |-> Append(old.entries, logged')]
       IN  files' = IF dir THEN [i \in Present \cup {current} |-> IF i = current THEN new ELSE files[i]]
                    ELSE files
    /\ UNCHANGED <<dir, current, doomed, size, starts, last>>

(* The process stops, in the constructor or in log_event or in between. *)
Down ==
    /\ pc # "down" /\ pc' = "down" /\ doomed' = {}
    /\ last' = IF pc \in {"list", "clean"} THEN -1 ELSE current
    /\ UNCHANGED <<dir, files, current, size, logged, starts>>

UserRemoves ==
    /\ dir
    /\ dir' = FALSE /\ files' = << >>
    /\ UNCHANGED <<current, doomed, pc, size, logged, starts, last>>

Over ==
    /\ (pc = "down" /\ starts = MaxStarts) \/ (pc = "idle" /\ logged = MaxLogged)
    /\ UNCHANGED vars

Next == Construct \/ Detect \/ Clean \/ (\E s \in Sizes : Log(s)) \/ Rotate \/ Renew \/ Write \/ Down
        \/ UserRemoves \/ Over

Spec == Init /\ [][Next]_vars
-------------------------------------------------------------------------------
TypeOK ==
    /\ dir \in BOOLEAN /\ current \in Index
    /\ pc \in {"down", "list", "clean", "idle", "rotate", "renew", "write"}
    /\ doomed \subseteq Index /\ (doomed # {} <=> pc = "clean") /\ last \in Index \cup {-1}
    /\ Present \subseteq Index /\ (Present # {} => dir)
    /\ \A i \in Present : files[i].size \in Nat \ {0} /\ files[i].entries \in Seq(1..MaxLogged)
    /\ size \in Nat /\ logged \in 0..MaxLogged /\ starts \in 0..MaxStarts

(* The indexes the sink keeps: MaxFiles of them, up to the current one. *)
Window == IF MaxFiles = 0 THEN Index ELSE {U32(current - k) : k \in 0..(MaxFiles - 1)}

OnlyWindow == pc \notin {"down", "list"} => Present \subseteq Window \cup doomed
SizeKept   == MaxSize > 0 => \A i \in Present : files[i].size <= MaxSize

(* Whatever the sink finds at construction and wherever it was stopped,    *)
(* also while it cleaned up, it has at most max.files files, those of its  *)
(* window, once the files that it has still to remove are gone, also when  *)
(* the index wraps (85-88, 156-182), and none outgrows max.file_size       *)
(* (67-76).                                                                *)
WithinLimits == OnlyWindow /\ SizeKept

(* The entries of the last n files of the window, the oldest first.        *)
Entries[n \in 0..MaxFiles] ==
    IF n = 0 THEN << >>
    ELSE LET i == U32(current - n + 1)
         IN  (IF i \in Present THEN files[i].entries ELSE << >>) \o Entries[n - 1]

Kept == Entries[MaxFiles]

(* What a run of the sink keeps is the end of what was logged, in order    *)
(* and without gaps, wherever it rotates or loses its directory (67-101).  *)
KeptIsSuffix ==
    (pc # "down" /\ starts = 1 /\ MaxFiles > 0) =>
        Kept = [n \in 1..Len(Kept) |-> logged - Len(Kept) + n]

(* "Detect next index and clean old logs." (FileLogger.hpp 43): while the  *)
(* files reach down to index 0, as in the first window and after a wrap, a *)
(* restart after a run that got through its construction goes on with the  *)
(* last file of that run and finds none to remove (142-182).               *)
RestartContinues ==
    [][Detect /\ last # -1 /\ 0..last \subseteq Present => current' = last /\ doomed' = {}]_vars
===============================================================================

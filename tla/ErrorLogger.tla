----------------------------- MODULE ErrorLogger -----------------------------
(***************************************************************************)
(* The sink that keeps the last entries in memory and writes them to a     *)
(* file of its own when an error is logged (core/logger/src/impl/          *)
(* ErrorLogger.cpp). The name of the file is made of the place the error   *)
(* was logged at and of an id that is determined from the files present,   *)
(* those of earlier runs included. The process may stop at any time, also  *)
(* while the file is written, and the user may remove files.               *)
(***************************************************************************)
EXTENDS Integers, Sequences, FiniteSets

CONSTANTS Capacity,   \* max.entries
          Places,     \* where errors are logged: domain, file and line
          MaxLogged,  \* bound: entries logged
          MaxIds      \* bound: files of one place

VARIABLES m_entries,  \* the circular buffer
          files,      \* place -> id -> the entries in the file
          pc,         \* "idle", "named" and "writing" in flush_buffer
          place,      \* where the error being flushed was logged
          id,         \* nextIndex
          written,    \* how many entries of the buffer are in the file
          logged,     \* history: how many entries were logged
          since       \* history: the first entry of this run of the process

vars == <<m_entries, files, pc, place, id, written, logged, since>>

Init ==
    /\ m_entries = << >> /\ files = [p \in Places |-> << >>] /\ pc = "idle"
    /\ place \in Places /\ id = 0 /\ written = 0 /\ logged = 0 /\ since = 1

Ids(p) == DOMAIN files[p]

(* An entry is a number and the run of the process that has logged it,     *)
(* which is known by its first entry.                                      *)
LogEntry  == [run : 1..(MaxLogged + 1), number : 1..MaxLogged]
Logged(n) == [run |-> since, number |-> n]

-------------------------------------------------------------------------------
(* Mutation: a full buffer drops the new entry. *)
PushBackFull(buffer, e) == IF Len(buffer) < Capacity THEN Append(buffer, e) ELSE buffer

(* boost::circular_buffer: a full one drops its oldest entry, and one      *)
(* without capacity every entry.                                           *)
PushBack(buffer, e) ==
    IF Capacity = 0 THEN << >>
    ELSE IF Len(buffer) < Capacity THEN Append(buffer, e) ELSE Append(Tail(buffer), e)

(* Mutation: the number of files. *)
NextIdByCount(p) == Cardinality(Ids(p)) + 1

(* get_next_id (40-72): one more than the biggest id found.                *)
NextId(p) == (CHOOSE n \in Ids(p) \cup {0} : \A k \in Ids(p) : k <= n) + 1

(* log_event of an entry that is no error (110-115).                       *)
LogInfo ==
    /\ pc = "idle" /\ logged < MaxLogged
    /\ logged' = logged + 1 /\ m_entries' = PushBack(m_entries, Logged(logged'))
    /\ UNCHANGED <<files, pc, place, id, written, since>>

(* log_event of an error: flush_buffer determines the id (110-116, 76).    *)
LogError(p) ==
    /\ pc = "idle" /\ logged < MaxLogged /\ NextId(p) <= MaxIds
    /\ logged' = logged + 1 /\ m_entries' = PushBack(m_entries, Logged(logged'))
    /\ place' = p /\ id' = NextId(p) /\ pc' = "named"
    /\ UNCHANGED <<files, written, since>>

(* The file is opened for appending (77-91) ...                            *)
Open ==
    /\ pc = "named" /\ pc' = "writing" /\ written' = 0
    /\ files' = IF id \in Ids(place) THEN files
                ELSE [files EXCEPT ![place] = [k \in Ids(place) \cup {id} |-> IF k = id THEN << >> ELSE @[k]]]
    /\ UNCHANGED <<m_entries, place, id, logged, since>>

(* ... and an entry of the buffer is written to it (93-105), to no effect  *)
(* when the user has removed the file.                                     *)
Write ==
    /\ pc = "writing" /\ written < Len(m_entries) /\ written' = written + 1
    /\ files' = IF id \notin Ids(place) THEN files
                ELSE [files EXCEPT ![place][id] = Append(@, m_entries[written'])]
    /\ UNCHANGED <<m_entries, pc, place, id, logged, since>>

(* The file is closed (107); the buffer keeps its entries.                 *)
Close ==
    /\ pc = "writing" /\ written = Len(m_entries) /\ pc' = "idle"
    /\ UNCHANGED <<m_entries, files, place, id, written, logged, since>>

(* The process stops, and another one starts (29-38).                      *)
Restart ==
    /\ m_entries' = << >> /\ pc' = "idle" /\ since' = logged + 1 /\ since # since'
    /\ UNCHANGED <<files, place, id, written, logged>>

(* The user removes a file.                                                *)
UserRemoves(p, n) ==
    /\ n \in Ids(p) /\ files' = [files EXCEPT ![p] = [k \in Ids(p) \ {n} |-> @[k]]]
    /\ UNCHANGED <<m_entries, pc, place, id, written, logged, since>>

Next ==
    \/ LogInfo \/ (\E p \in Places : LogError(p)) \/ Open \/ Write \/ Close \/ Restart
    \/ \E p \in Places, n \in 1..MaxIds : UserRemoves(p, n)
    \/ pc = "idle" /\ UNCHANGED vars

Spec == Init /\ [][Next]_vars
-------------------------------------------------------------------------------
TypeOK ==
    /\ m_entries \in Seq(LogEntry) /\ Len(m_entries) <= Capacity
    /\ \A p \in Places : Ids(p) \subseteq 1..MaxIds /\ \A n \in Ids(p) : files[p][n] \in Seq(LogEntry)
    /\ pc \in {"idle", "named", "writing"} /\ place \in Places /\ id \in 0..MaxIds
    /\ written \in 0..Capacity /\ logged \in 0..MaxLogged /\ since \in 1..(MaxLogged + 1)

(* Entries of one run of the process with consecutive numbers.             *)
IsRun(s) ==
    \A i \in 1..(Len(s) - 1) : s[i + 1].run = s[i].run /\ s[i + 1].number = s[i].number + 1

(* A file shows what led to one error: entries that followed each other,   *)
(* all of one run of the process, and no more than the buffer has, whatever*)
(* was stopped or removed before. A file that an earlier run has left half *)
(* written is not gone on with (40-72, 91-105).                            *)
FilesAreRuns == \A p \in Places : \A n \in Ids(p) : Len(files[p][n]) <= Capacity /\ IsRun(files[p][n])

(* When the flush of an error is over its file, unless it was removed, is  *)
(* the last Capacity entries of the run, the error being the last of them. *)
FlushIsContext ==
    [][Close /\ id \in Ids(place) =>
          LET first == IF logged - since < Capacity THEN since ELSE logged - Capacity + 1
          IN  files[place][id] = [k \in 1..(logged - first + 1) |-> Logged(first + k - 1)]]_vars
===============================================================================

------------------------------ MODULE DiskSinks ------------------------------
(***************************************************************************)
(* The sinks that write files, as logger_init makes them for a name in     *)
(* logging.consumers (core/logger/src/event_logger.cpp 57-70): the         *)
(* rotating file sink of FileLogger, or the error sink of ErrorLogger. Two *)
(* sinks share nothing but the calls of log_event, made one after the      *)
(* other, so a behaviour has one of them.                                  *)
(***************************************************************************)
EXTENDS FileLogger

CONSTANTS Capacity, Places, MaxErrorsLogged, MaxIds  \* those of ErrorLogger

ASSUME CapacityAssumption == Capacity \in Nat /\ MaxErrorsLogged \in Nat /\ MaxIds \in Nat

VARIABLES sink,  \* the one that is configured
          m_entries, errorFiles, errorPc, place, id, written, entriesLogged, since

Error == INSTANCE ErrorLogger
             WITH files <- errorFiles, pc <- errorPc, logged <- entriesLogged, MaxLogged <- MaxErrorsLogged

errorVars == <<m_entries, errorFiles, errorPc, place, id, written, entriesLogged, since>>
diskVars  == <<sink, vars, errorVars>>

(* get_logger (57-70). *)
DiskInit == sink \in {"file", "error"} /\ Init /\ Error!Init

DiskNext ==
    \/ sink = "file" /\ Next /\ UNCHANGED <<sink, errorVars>>
    \/ sink = "error" /\ Error!Next /\ UNCHANGED <<sink, vars>>

DiskSpec == DiskInit /\ [][DiskNext]_diskVars
-------------------------------------------------------------------------------

(* A file of the error sink shows what led to one error: entries that      *)
(* followed each other, all of one run of the process, and no more than    *)
(* the buffer has, whatever was stopped or removed before (ErrorLogger.cpp *)
(* 40-72, 91-105).                                                         *)
FilesAreRuns == Error!FilesAreRuns

(* When the flush of an error is over its file, unless it was removed, is  *)
(* the last entries of the run, that of the error the last of them         *)
(* (ErrorLogger.cpp 74-118).                                               *)
FlushIsContext == Error!FlushIsContext
===============================================================================

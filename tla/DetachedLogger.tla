---------------------------- MODULE DetachedLogger ----------------------------
(***************************************************************************)
(* The detached console sink (core/logger/src/impl/DetachedLogger.cpp):    *)
(* log_event pushes entries on a queue, a thread of its own (handler)      *)
(* prints them, and the destructor raises m_stop, notifies the condition   *)
(* variable and joins the thread.                                          *)
(*                                                                         *)
(* A critical section that only touches what m_consumer_mutex protects is  *)
(* one step; what happens outside it (the two tests of m_stop, raising it, *)
(* the destructor's notify, the join) is a step of its own.                *)
(***************************************************************************)
EXTENDS Naturals, Sequences

CONSTANTS Loggers,     \* threads that call log_event
          Entries,     \* the log entries
          MaxEntries,  \* bound: number of log_event calls explored
          NoEntry,     \* "no entry in hand"
          Free         \* "no thread owns m_consumer_mutex"

ASSUME NoEntryAssumption == NoEntry \notin Entries
ASSUME OwnersAssumption  == Free \notin {"handler", "owner"}

VARIABLES queue,     \* m_msg_queue
          stop,      \* m_stop
          mutex,     \* the owner of m_consumer_mutex
          asleep,    \* the handler is in the wait set of m_cond_variable
          hpc,       \* where the handler thread is
          pending,   \* pending[l]: what l carries from the m_stop test to the push
          dpc,       \* the owner: constructor, life, destructor
          accepted,  \* history: every entry pushed, in order
          written,   \* history: every entry printed, in order
          atStop     \* history: how many entries were printed when m_stop was raised

vars == <<queue, stop, mutex, asleep, hpc, pending, dpc, accepted, written, atStop>>

history == <<accepted, written, atStop>>

Init ==
    /\ queue = <<>> /\ stop = FALSE /\ asleep = FALSE
    /\ mutex = "owner"
    /\ hpc = "test" /\ dpc = "constructing"
    /\ pending = [l \in Loggers |-> NoEntry]
    /\ accepted = <<>> /\ written = <<>> /\ atStop = 0

(* The constructor returns: its scoped_lock is released (lines 66-70). *)
Constructed ==
    /\ dpc = "constructing"
    /\ dpc' = "live" /\ mutex' = Free
    /\ UNCHANGED <<queue, stop, asleep, hpc, pending, history>>

-------------------------------------------------------------------------------
(* log_event: the test of m_stop, outside the mutex (line 23). *)
LogEvent(l, e) ==
    /\ dpc = "live" /\ ~stop
    /\ pending[l] = NoEntry
    /\ Len(accepted) < MaxEntries
    /\ pending' = [pending EXCEPT ![l] = e]
    /\ UNCHANGED <<queue, stop, mutex, asleep, hpc, dpc, history>>

(* Mutation: the push does not notify. *)
PushNoNotify(l) ==
    /\ pending[l] # NoEntry /\ mutex = Free
    /\ queue' = Append(queue, pending[l])
    /\ accepted' = Append(accepted, pending[l])
    /\ pending' = [pending EXCEPT ![l] = NoEntry]
    /\ UNCHANGED <<stop, mutex, asleep, hpc, dpc, written, atStop>>

(* log_event: lock, push, notify, unlock (lines 25-28). *)
Push(l) ==
    /\ pending[l] # NoEntry /\ mutex = Free
    /\ queue' = Append(queue, pending[l])
    /\ accepted' = Append(accepted, pending[l])
    /\ pending' = [pending EXCEPT ![l] = NoEntry]
    /\ asleep' = FALSE
    /\ UNCHANGED <<stop, mutex, hpc, dpc, written, atStop>>

-------------------------------------------------------------------------------
(* handler: while(not m_stop), read without the mutex (line 33). *)
HandlerTest ==
    /\ hpc = "test"
    /\ hpc' = IF stop THEN "exited" ELSE "lock"
    /\ UNCHANGED <<queue, stop, mutex, asleep, pending, dpc, history>>

(* The unique_lock of line 35, and the reacquisition inside wait. *)
HandlerLock ==
    /\ mutex = Free /\ ~asleep
    /\ \/ hpc = "lock" /\ hpc' = "look"
       \/ hpc = "waiting" /\ hpc' = "recheck"
    /\ mutex' = "handler"
    /\ UNCHANGED <<queue, stop, asleep, pending, dpc, history>>

(* while(m_msg_queue.empty()) wait: releases the mutex and sleeps (37-39). *)
HandlerWait ==
    /\ hpc = "look" /\ queue = <<>>
    /\ hpc' = "waiting" /\ asleep' = TRUE /\ mutex' = Free
    /\ UNCHANGED <<queue, stop, pending, dpc, history>>

(* A condition variable may wake a thread nobody notified. *)
SpuriousWake ==
    /\ asleep /\ asleep' = FALSE
    /\ UNCHANGED <<queue, stop, mutex, hpc, pending, dpc, history>>

(* Mutation: the test of m_stop after the wait is missing. *)
HandlerRecheckNever ==
    /\ hpc = "recheck" /\ hpc' = "look"
    /\ UNCHANGED <<queue, stop, mutex, asleep, pending, dpc, history>>

(* After the wait: leave if there is nothing to print and m_stop (40-44). *)
HandlerRecheck ==
    /\ hpc = "recheck"
    /\ IF queue = <<>> /\ stop
       THEN hpc' = "exited" /\ mutex' = Free
       ELSE hpc' = "look" /\ UNCHANGED mutex
    /\ UNCHANGED <<queue, stop, asleep, pending, dpc, history>>

(* Mutation: prints on without leaving the critical section. *)
HandlerPrintStays ==
    /\ hpc = "look" /\ queue # <<>>
    /\ written' = Append(written, Head(queue))
    /\ queue' = Tail(queue)
    /\ UNCHANGED <<hpc, mutex, stop, asleep, pending, dpc, accepted, atStop>>

(* Mutation: prints and does not pop. *)
HandlerPrintNoPop ==
    /\ hpc = "look" /\ queue # <<>>
    /\ written' = Append(written, Head(queue))
    /\ hpc' = "test" /\ mutex' = Free
    /\ UNCHANGED <<queue, stop, asleep, pending, dpc, accepted, atStop>>

(* Print the front, pop it, unlock at the end of the scope (47-61). *)
HandlerPrint ==
    /\ hpc = "look" /\ queue # <<>>
    /\ written' = Append(written, Head(queue))
    /\ queue' = Tail(queue)
    /\ hpc' = "test" /\ mutex' = Free
    /\ UNCHANGED <<stop, asleep, pending, dpc, accepted, atStop>>

-------------------------------------------------------------------------------
(* ~DetachedLogger: m_stop = true, without the mutex (74-76). The event    *)
(* logger destroys its sinks and calls them under one mutex, g_mutex       *)
(* (event_logger.cpp 122-126, 142-176), so no log_event is in progress.    *)
Destroy ==
    /\ dpc = "live" /\ ~stop
    /\ \A l \in Loggers : pending[l] = NoEntry
    /\ stop' = TRUE /\ dpc' = "notify" /\ atStop' = Len(written)
    /\ UNCHANGED <<queue, mutex, asleep, hpc, pending, accepted, written>>

(* notify_one, again without the mutex (line 79). *)
DestroyNotify ==
    /\ dpc = "notify" /\ dpc' = "join"
    /\ asleep' = FALSE
    /\ UNCHANGED <<queue, stop, mutex, hpc, pending, history>>

(* The join returns once the handler has left its function (82-86). *)
DestroyJoin ==
    /\ dpc = "join" /\ hpc = "exited"
    /\ dpc' = "gone"
    /\ UNCHANGED <<queue, stop, mutex, asleep, hpc, pending, history>>

(* The sink is gone: nothing more happens. *)
Idle == dpc = "gone" /\ UNCHANGED vars

-------------------------------------------------------------------------------
Handler == HandlerTest \/ HandlerLock \/ HandlerWait \/ HandlerRecheck \/ HandlerPrint
Owner   == Constructed \/ DestroyNotify \/ DestroyJoin

Next ==
    \/ Handler \/ SpuriousWake \/ Owner \/ Destroy \/ Idle
    \/ \E l \in Loggers : Push(l) \/ \E e \in Entries : LogEvent(l, e)

Spec == Init /\ [][Next]_vars

(* Threads that can run do run; nobody has to call log_event or destroy    *)
(* the sink, and nobody counts on a spurious wake-up.                      *)
FairSpec ==
    /\ Spec /\ WF_vars(Handler) /\ WF_vars(Owner)
    /\ \A l \in Loggers : WF_vars(Push(l))

-------------------------------------------------------------------------------
TypeOK ==
    /\ queue \in Seq(Entries) /\ accepted \in Seq(Entries) /\ written \in Seq(Entries)
    /\ stop \in BOOLEAN /\ asleep \in BOOLEAN
    /\ mutex \in {Free, "handler", "owner"}
    /\ hpc \in {"test", "lock", "look", "waiting", "recheck", "exited"}
    /\ pending \in [Loggers -> Entries \cup {NoEntry}]
    /\ dpc \in {"constructing", "live", "notify", "join", "gone"}
    /\ atStop \in Nat

(* Every entry accepted by log_event is printed exactly once, in order, or *)
(* still queued: the handler pops what it printed and nothing else.        *)
InOrderOnce == accepted = written \o queue

(* The handler never sleeps on a queue that has something to print: a push *)
(* notifies inside the critical section, so no wake-up for an entry is     *)
(* lost (lines 25-27 against 37-39).                                       *)
NoSleepOverWork == asleep => queue = <<>>

(* m_stop is looked at between two entries only: the handler prints at     *)
(* most one entry after the destructor has raised it (lines 33, 47-60).    *)
OneMoreAtMost == stop => Len(written) <= atStop + 1

(* The only way the destructor can hang is a handler that passed the test  *)
(* of m_stop before it was raised and found, or will find, an empty queue; *)
(* with an entry left to print, or anywhere else, the handler leaves.      *)
JoinHangsOnlyAsleep ==
    (dpc = "join" /\ ~asleep /\ (queue # <<>> \/ hpc \notin {"lock", "look"}))
        ~> (dpc = "gone")

(* While the sink lives, an entry that was accepted is printed eventually. *)
EveryEntryPrinted ==
    \A n \in 1..MaxEntries : (Len(accepted) >= n) ~> (Len(written) >= n \/ stop)

(* "Destructor should handle flushing of buffers and clean close."         *)
(* (event_logger.cpp 175): the destructor returns, and what was accepted   *)
(* has been printed by then.                                               *)
FlushedCleanClose == (dpc = "notify") ~> (dpc = "gone" /\ written = accepted)

-------------------------------------------------------------------------------
(* The sink implements LogQueue. *)
phase == CASE dpc \in {"constructing", "live"} -> "open"
           [] dpc \in {"notify", "join"}       -> "closing"
           [] dpc = "gone"                     -> "closed"

Queue == INSTANCE LogQueue

(* Refinement: threads, mutex and condition variable of the sink add       *)
(* nothing to, and reorder nothing of, the promise in LogQueue.            *)
QueueSpec == Queue!Spec
===============================================================================

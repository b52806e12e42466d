----------------------------- MODULE EventLogger -----------------------------
(***************************************************************************)
(* The logging facade (core/logger/src/event_logger.cpp): logger_init and  *)
(* logger_deinit, called once each by main, and log_event, called by every *)
(* thread of the application. One mutex, g_mutex, covers all three. A      *)
(* panic, which only Component::makeComponent logs, ends the process: with *)
(* g_mutex held log_event clears the sinks and calls exit, which runs the  *)
(* destructors of static objects; that of a component's prototype may log  *)
(* (Producer.cpp 41-45).                                                   *)
(*                                                                         *)
(* closeApp, the SIGINT handler, logs (main.cpp 53). On the stack of a     *)
(* thread without g_mutex that is a call like any other; the owner of      *)
(* g_mutex, interrupted by it, waits for itself.                           *)
(*                                                                         *)
(* A sink consumes an entry in one step here. What the sinks do with it is *)
(* the subject of DetachedLogger and FileLogger; of the former this module *)
(* has that its destructor may never return (JoinHangs there).             *)
(***************************************************************************)
EXTENDS Integers, Sequences, FiniteSets

CONSTANTS Threads,      \* the threads of components
          Main,         \* the main thread
          None,         \* not a thread
          NbrOfSinks,   \* how many sinks logging.consumers names
          Level,        \* logging.level
          Levels,       \* levels that are logged at, panic apart
          Domains,      \* domains that are logged for
          MaxEvents     \* bound: calls of log_event by a thread

ASSUME ThreadAssumption == Main \notin Threads /\ None \notin Threads \cup {Main}
ASSUME LevelAssumption  == Level \in Nat /\ Levels \subseteq Nat \ {0} /\ MaxEvents \in Nat
ASSUME SinkAssumption == NbrOfSinks \in Nat

Callers == Threads \cup {Main}
Panic   == 0
Event   == [from : Callers, n : Nat, level : Nat, domain : Domains]
NoEvent == [from |-> None]
Sinks   == 1..NbrOfSinks

VARIABLES g_mutex,        \* its owner, or None
          g_initialized,
          g_log_level,
          g_loggers,      \* the open sinks are 1..g_loggers
          g_filters,
          logMsg,         \* the static buffer: the event whose text is in it
          pc,             \* where a thread is in log_event; of main, in its life
          event,          \* the arguments of a thread's call
          entry,          \* the entry a thread has made
          published,      \* how many sinks have the entry
          calls,          \* how many calls a thread has made
          consumed,       \* history: what each sink was given
          started,        \* main has returned from logger_init
          interrupted,    \* the thread on whose stack the handler waits, or None
          process         \* "running", "exit" during exit, "gone" after it

vars == <<g_mutex, g_initialized, g_log_level, g_loggers, g_filters, logMsg, pc, event, entry,
          published, calls, consumed, started, interrupted, process>>
globals == <<g_initialized, g_log_level, g_loggers, g_filters>>

Init ==
    /\ g_mutex = None /\ g_initialized = FALSE /\ g_log_level = 1
    /\ g_loggers = 0 /\ g_filters = {} /\ logMsg = NoEvent
    /\ pc = [t \in Callers |-> IF t = Main THEN "boot" ELSE "idle"]
    /\ event = [t \in Callers |-> NoEvent] /\ entry = [t \in Callers |-> NoEvent]
    /\ published = [t \in Callers |-> 0] /\ calls = [t \in Callers |-> 0]
    /\ consumed = [s \in Sinks |-> << >>] /\ started = FALSE
    /\ interrupted = None /\ process = "running"

Goto(t, place) == pc' = [pc EXCEPT ![t] = place]

-------------------------------------------------------------------------------
(* logger_init (79-118), all of it under g_mutex, with or without a        *)
(* "logging" section. The filters are looked for as a child named          *)
(* "logging.filters" of the root (102), which no configuration with them   *)
(* at that path has. (Nobody else can log yet; SIGINT within it is in      *)
(* Launcher.)                                                              *)
LoggerInit ==
    /\ pc[Main] = "boot" /\ g_mutex = None /\ ~g_initialized /\ Goto(Main, "idle")
    /\ \/ g_log_level' = Level /\ g_loggers' = NbrOfSinks /\ g_initialized' = TRUE
       \/ UNCHANGED <<g_log_level, g_loggers, g_initialized>>
    /\ started' = TRUE
    /\ UNCHANGED <<g_mutex, g_filters, logMsg, event, entry, published, calls, consumed, process>>

(* logger_deinit (120-130), the last thing main does: it takes the lock    *)
LoggerDeinit ==
    /\ pc[Main] = "idle" /\ g_mutex = None
    /\ IF g_initialized THEN g_mutex' = Main /\ Goto(Main, "deinit") /\ g_log_level' = 1
                        ELSE UNCHANGED <<g_mutex, g_log_level>> /\ Goto(Main, "done")
    /\ UNCHANGED <<g_initialized, g_loggers, g_filters, logMsg, event, entry, published, calls,
                   consumed, started, process>>

(* and gives it up when the sinks are closed (126-130).                    *)
DeinitEnds ==
    /\ pc[Main] = "deinit" /\ Goto(Main, "done") /\ g_mutex' = None
    /\ g_loggers' = 0 /\ g_filters' = {} /\ g_initialized' = FALSE
    /\ UNCHANGED <<g_log_level, logMsg, event, entry, published, calls, consumed, started, process>>

-------------------------------------------------------------------------------
(* A thread calls log_event; a panic comes from makeComponent, in main,    *)
(* while it makes the components (Component.cpp 79-81).                    *)
Call(t, level, domain) ==
    /\ pc[t] = "idle" /\ started /\ calls[t] < MaxEvents
    /\ level = Panic => t = Main
    /\ calls' = [calls EXCEPT ![t] = @ + 1]
    /\ event' = [event EXCEPT ![t] = [from |-> t, n |-> calls'[t], level |-> level, domain |-> domain]]
    /\ Goto(t, "wants")
    /\ UNCHANGED <<g_mutex, globals, logMsg, entry, published, consumed, started, process>>

Dropped(e) ==
    \/ e.level > g_log_level
    \/ g_loggers = 0
    \/ g_filters # {} /\ e.domain \notin g_filters

(* Mutation: without the lock. *)
EnterUnlocked(t) ==
    /\ pc[t] = "wants"
    /\ Goto(t, IF Dropped(event[t]) THEN "idle" ELSE "format")
    /\ UNCHANGED <<g_mutex, globals, logMsg, event, entry, published, calls, consumed, started, process>>

(* The lock is taken, and released by the early return (142-149). A panic  *)
(* that is dropped, as there are no sinks, is not the end: makeComponent   *)
(* returns null to main, which initialises it (Component.cpp 86, main.cpp  *)
(* 108-111).                                                               *)
Enter(t) ==
    /\ pc[t] = "wants" /\ g_mutex = None
    /\ IF Dropped(event[t])
       THEN /\ Goto(t, "idle") /\ UNCHANGED g_mutex
            /\ process' = IF event[t].level = Panic THEN "gone" ELSE process
       ELSE Goto(t, "format") /\ g_mutex' = t /\ UNCHANGED process
    /\ UNCHANGED <<globals, logMsg, event, entry, published, calls, consumed, started>>

(* The text is formatted into the static buffer (151-155).                 *)
Format(t) ==
    /\ pc[t] = "format" /\ logMsg' = event[t] /\ Goto(t, "create")
    /\ UNCHANGED <<g_mutex, globals, event, entry, published, calls, consumed, started, process>>

(* An entry is made of the buffer and the arguments (157-165).             *)
Create(t) ==
    /\ pc[t] = "create" /\ Goto(t, "publish")
    /\ entry' = [entry EXCEPT ![t] = logMsg] /\ published' = [published EXCEPT ![t] = 0]
    /\ UNCHANGED <<g_mutex, globals, logMsg, event, calls, consumed, started, process>>

(* Mutation: the last sink is forgotten. *)
PublishShort(t) ==
    /\ pc[t] = "publish" /\ published[t] < g_loggers
    /\ published' = [published EXCEPT ![t] = @ + 1]
    /\ consumed' = IF published'[t] = g_loggers THEN consumed
                   ELSE [consumed EXCEPT ![published'[t]] = Append(@, entry[t])]
    /\ UNCHANGED <<g_mutex, globals, logMsg, pc, event, entry, calls, started, process>>

(* The next sink gets the entry (167-171).                                 *)
Publish(t) ==
    /\ pc[t] = "publish" /\ published[t] < g_loggers
    /\ published' = [published EXCEPT ![t] = @ + 1]
    /\ consumed' = [consumed EXCEPT ![published'[t]] = Append(@, entry[t])]
    /\ UNCHANGED <<g_mutex, globals, logMsg, pc, event, entry, calls, started, process>>


(* log_event returns and releases the lock, unless it was a panic (173).   *)
Leave(t) ==
    /\ pc[t] = "publish" /\ published[t] >= g_loggers
    /\ IF event[t].level = Panic THEN UNCHANGED g_mutex /\ Goto(t, "panic")
                                 ELSE g_mutex' = None /\ Goto(t, "idle")
    /\ UNCHANGED <<globals, logMsg, event, entry, published, calls, consumed, started, process>>

(* Then the sinks are closed and exit is called, with the lock (176-179).  *)
PanicExits(t) ==
    /\ pc[t] = "panic" /\ Goto(t, "exit")
    /\ g_loggers' = 0 /\ process' = "exit"
    /\ UNCHANGED <<g_mutex, g_initialized, g_log_level, g_filters, logMsg, event, entry, published,
                   calls, consumed, started>>

(* Or a sink among them is a detached one that waits for its thread for    *)
(* ever, whoever closes it (126, 176; DetachedLogger.cpp 76-85).           *)
SinkKeeps(t) ==
    /\ pc[t] \in {"deinit", "panic"} /\ NbrOfSinks > 0 /\ Goto(t, "joining")
    /\ UNCHANGED <<g_mutex, globals, logMsg, event, entry, published, calls, consumed, started, process>>

(* exit runs the destructors of static objects: that of a prototype, if    *)
(* the application has such a component, logs ...                          *)
DestructorLogs(t) ==
    /\ pc[t] = "exit"
    /\ \E d \in Domains : event' = [event EXCEPT ![t] = [from |-> t, n |-> 0, level |-> 4, domain |-> d]]
    /\ Goto(t, "wants")
    /\ UNCHANGED <<g_mutex, globals, logMsg, entry, published, calls, consumed, started, process>>

(* ... or none does, and the process is gone.                              *)
Gone(t) ==
    /\ pc[t] = "exit" /\ process' = "gone"
    /\ UNCHANGED <<g_mutex, globals, logMsg, pc, event, entry, published, calls, consumed, started>>

(* SIGINT is handled on the stack of the owner of the lock: its log_event  *)
(* waits for the lock, and the owner for the handler (142; main.cpp 53).   *)
Interrupt ==
    /\ g_mutex # None /\ interrupted = None /\ interrupted' = g_mutex
    /\ UNCHANGED <<g_mutex, globals, logMsg, pc, event, entry, published, calls, consumed, started,
                   process>>

(* Nothing is left to do, or the owner of the lock will not release it: it *)
(* is not in the part that does, or waits for itself or a sink's thread.   *)
Over ==
    /\ \/ process = "gone" \/ interrupted # None
       \/ g_mutex # None /\ pc[g_mutex] \in {"idle", "wants", "joining"}
       \/ pc[Main] = "done" /\ \A t \in Threads : pc[t] = "idle" /\ calls[t] = MaxEvents
    /\ UNCHANGED vars

Logs(t) ==
    \/ Enter(t) \/ Format(t) \/ Create(t) \/ Publish(t) \/ Leave(t)
    \/ (t = Main /\ DeinitEnds) \/ PanicExits(t) \/ SinkKeeps(t) \/ DestructorLogs(t) \/ Gone(t)

Calls == \E t \in Callers, level \in Levels \cup {Panic}, domain \in Domains : Call(t, level, domain)

(* A thread goes on but for the one that is interrupted for good. *)
GoesOn(t) == t # interrupted /\ Logs(t) /\ UNCHANGED interrupted

Next ==
    \/ process # "gone" /\ (LoggerInit \/ LoggerDeinit \/ Calls) /\ UNCHANGED interrupted
    \/ process # "gone" /\ (Interrupt \/ \E t \in Callers : GoesOn(t))
    \/ Over

Spec == Init /\ [][Next]_vars

(* Every thread that is in log_event goes on. The mutex need not be fair:  *)
(* a thread makes finitely many calls.                                     *)
FairSpec == Spec /\ \A t \in Callers : WF_vars(process # "gone" /\ GoesOn(t))
-------------------------------------------------------------------------------
Places == {"boot", "idle", "wants", "format", "create", "publish", "deinit", "panic", "joining",
           "exit", "done"}

TypeOK ==
    /\ g_mutex \in Callers \cup {None} /\ g_initialized \in BOOLEAN /\ g_log_level \in Nat
    /\ g_loggers \in {0, NbrOfSinks} /\ g_filters = {}
    /\ logMsg \in Event \cup {NoEvent}
    /\ pc \in [Callers -> Places]
    /\ event \in [Callers -> Event \cup {NoEvent}] /\ entry \in [Callers -> Event \cup {NoEvent}]
    /\ published \in [Callers -> Sinks \cup {0}] /\ calls \in [Callers -> 0..MaxEvents]
    /\ consumed \in [Sinks -> Seq(Event)] /\ started \in BOOLEAN
    /\ interrupted \in Callers \cup {None} /\ process \in {"running", "exit", "gone"}

(* The sinks get the same entries in the same order: one of them is at     *)
(* most the entry ahead that is being published (142, 167-171).            *)
SinksAgree ==
    \A i, j \in Sinks : i < j =>
        LET first == consumed[i] second == consumed[j]
        IN  /\ Len(first) - Len(second) \in {0, 1}
            /\ second = SubSeq(first, 1, Len(second))
            /\ Len(first) = Len(second) \/ \E t \in Callers : pc[t] = "publish"

(* The buffer is shared, yet every entry has the text its caller passed,   *)
(* and the entries of a caller are in the order of its calls, each once    *)
(* (140, 154, 157-165).                                                    *)
EntriesIntact ==
    /\ \A t \in Callers : pc[t] = "publish" => entry[t] = event[t]
    /\ \A s \in Sinks : \A i, j \in DOMAIN consumed[s] :
         (i < j /\ consumed[s][i].from = consumed[s][j].from) => consumed[s][i].n < consumed[s][j].n


(* The thread that has called exit waits for the lock it holds, *)
ExitHangs == process = "exit" /\ g_mutex # None /\ pc[g_mutex] = "wants"

(* one that closes the sinks for the thread of one of them, with the lock, *)
CloseHangs == \E t \in Callers : pc[t] = "joining"

(* one with the lock for the handler that runs on its stack.               *)
HandlerHangs == interrupted # None

===============================================================================

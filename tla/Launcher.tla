------------------------------- MODULE Launcher -------------------------------
(***************************************************************************)
(* The launcher (core/launcher/src/main.cpp) and the component framework's *)
(* life cycle and messages (core/component/src/Component.cpp): main        *)
(* initialises the configured components in order, starts them, sleeps on  *)
(* a condition variable until closeApp is called, then stops and deletes   *)
(* them in order. closeApp is the SIGINT handler, and Cube3dComponent's UI *)
(* thread calls it when its window goes away.                              *)
(*                                                                         *)
(* Components are the positions of the configured list. What they do is    *)
(* abstracted to what touches the launcher: some subscribe in init, some   *)
(* post from threads of their own while they live, some have a window.     *)
(* One message name stands for all; command line and configuration file    *)
(* are left out. Of logging there is what may keep a thread for ever:      *)
(* closeApp logs, on the stack of a thread that may have been in log_event *)
(* itself, and logger_deinit closes sinks.                                 *)
(***************************************************************************)
EXTENDS Naturals

CONSTANTS N,            \* the number of configured components
          Subscribers,  \* those that subscribe to the message in init
          Posters,      \* those that post it from a thread of their own
          Early,        \* of these, those whose init sets the timer that leads to it
          Stallers,     \* those whose stop() may wait for a peer, as Server's
          Closers,      \* those with a window, as Cube3dComponent
          SignalLimit,  \* bound: how often SIGINT arrives
          Takers        \* who may take it: "main", "other" (nobody joins it)

ASSUME NAssumption == N \in Nat \ {0}
ASSUME RolesAssumption ==
    Subscribers \cup Posters \cup Closers \cup Stallers \subseteq 1..N /\ Early \subseteq Posters
ASSUME SignalAssumption == SignalLimit \in Nat /\ Takers \subseteq {"main", "other"}

Components == 1..N
Places     == {"flag", "log", "lock", "done"}     \* of closeApp; "done": behind or before it

VARIABLES pc,          \* where main is
          cur,         \* the component its loop is at
          life,        \* life[c]: what main has done with component c
          held,        \* main holds mtx
          shouldExit,
          ui,          \* ui[c]: the UI thread of component c
          onMain,      \* the signal handler running on main's stack
          onOther,     \* the signal handler running on another thread
          signals,     \* how many SIGINTs have arrived
          logLock,     \* the thread interrupted while it had a lock that logging takes
          connected,   \* the slots of m_signal_map
          calling,     \* calling[p]: the slots a post of p has yet to call
          fate         \* "running", or why the process has died

main    == <<pc, cur, life, held>>
closing == <<shouldExit, ui, onMain, onOther, signals, logLock>>
bus     == <<connected, calling, fate>>
vars    == <<main, closing, bus>>

Init ==
    /\ pc = "init" /\ cur = 1 /\ life = [c \in Components |-> "none"] /\ held = FALSE
    /\ shouldExit = FALSE /\ ui = [c \in Components |-> "none"]
    /\ onMain = "done" /\ onOther = "done" /\ signals = 0 /\ logLock = "none"
    /\ connected = {} /\ calling = [c \in Components |-> {}] /\ fate = "running"

-------------------------------------------------------------------------------
MainAt(p) == fate = "running" /\ onMain = "done" /\ pc = p

(* for each component ...: the next one, or on to the step after the loop. *)
Loop(again, after) ==
    /\ cur' = IF cur = N THEN 1 ELSE cur + 1
    /\ pc'  = IF cur = N THEN after ELSE again

Becomes(state) == life' = [life EXCEPT ![cur] = state]

(* Mutation: every component is started as soon as it is initialised. *)
MainInitStarts ==
    /\ MainAt("init") /\ Becomes("started")
    /\ connected' = IF cur \in Subscribers THEN connected \cup {cur} ELSE connected
    /\ Loop("init", "lock")
    /\ UNCHANGED <<held, closing, calling, fate>>

(* Clone a component and initialise it; it may subscribe (105-112). *)
MainInit ==
    /\ MainAt("init") /\ Becomes("initialized")
    /\ connected' = IF cur \in Subscribers THEN connected \cup {cur} ELSE connected
    /\ Loop("init", "start")
    /\ UNCHANGED <<held, closing, calling, fate>>

(* A component of a type that no prototype was added for (Component.cpp    *)
(* 61-89) is a panic, which exits; if the logger has no sink nothing       *)
(* happens, and main initialises what is not there (108-111).              *)
MainNotFound ==
    /\ MainAt("init") /\ fate' \in {"panic", "initialised no component"}
    /\ UNCHANGED <<main, closing, connected, calling>>

(* component->start() (115-118). *)
MainStart ==
    /\ MainAt("start") /\ Becomes("started")
    /\ ui' = IF cur \in Closers THEN [ui EXCEPT ![cur] = "window"] ELSE ui
    /\ Loop("start", "lock")
    /\ UNCHANGED <<held, shouldExit, onMain, onOther, signals, logLock, bus>>

(* Mutation: the wait goes without the mutex. *)
MainLockNot == MainAt("lock") /\ pc' = "test" /\ UNCHANGED <<cur, life, held, closing, bus>>

(* unique_lock lock(mtx) (120), and again when the wait returns (121). *)
MainLock ==
    /\ MainAt("lock") /\ pc' = "test" /\ held' = TRUE
    /\ UNCHANGED <<cur, life, closing, bus>>

(* The predicate of the wait (121), *)
MainTest ==
    /\ MainAt("test") /\ pc' = IF shouldExit THEN "stop" ELSE "sleep"
    /\ UNCHANGED <<cur, life, held, closing, bus>>

(* and the wait itself, which gives up the mutex. *)
MainSleep ==
    /\ MainAt("sleep") /\ pc' = "asleep" /\ held' = FALSE
    /\ UNCHANGED <<cur, life, closing, bus>>

SpuriousWake == MainAt("asleep") /\ pc' = "lock" /\ UNCHANGED <<cur, life, held, closing, bus>>

(* component->stop(), with mtx held (124-126). A component with a window   *)
(* tells its UI thread and joins it (Cube3dComponent.cpp 164-168); that of *)
(* Server joins an io thread which a peer may hold up (Server.cpp 106).    *)
MainStop ==
    /\ MainAt("stop") /\ Becomes("stopped")
    /\ \/ pc' = IF cur \in Closers THEN "join" ELSE "delete"
       \/ cur \in Stallers /\ pc' = "stalled"
    /\ UNCHANGED <<cur, held, closing, bus>>

MainJoin ==
    /\ MainAt("join") /\ ui[cur] = "done" /\ pc' = "delete"
    /\ UNCHANGED <<cur, life, held, closing, bus>>

(* delete component (127). *)
MainDelete ==
    /\ MainAt("delete") /\ Becomes("deleted") /\ Loop("stop", "log")
    /\ UNCHANGED <<held, closing, bus>>

(* g_mutex and what a sink locks can be had: they are kept for ever by an  *)
(* interrupted thread whose handler waits for them, and by main in         *)
(* logger_deinit if the thread of a detached sink is never joined. (A      *)
(* component that logs while they are kept waits too; Hung holds by then.) *)
CanLog == logLock = "none" /\ pc # "sinking"

(* main logs its statistics (132), *)
MainLog ==
    /\ MainAt("log") /\ CanLog /\ pc' = "deinit"
    /\ UNCHANGED <<cur, life, held, closing, bus>>

(* shuts the logger down and returns, which gives up mtx (135-138), unless *)
(* the destructor of a detached sink does not return (DetachedLogger).     *)
MainDeinit ==
    /\ MainAt("deinit") /\ CanLog
    /\ \/ pc' = "exited" /\ held' = FALSE
       \/ pc' = "sinking" /\ held' = held
    /\ UNCHANGED <<cur, life, closing, bus>>

Main == MainInit \/ MainStart \/ MainLock \/ MainTest \/ MainSleep \/ MainStop \/ MainJoin
        \/ MainDelete \/ MainLog \/ MainDeinit

-------------------------------------------------------------------------------
(* closeApp raises the flag without the mutex (51), *)
RaiseFlag == shouldExit' = TRUE /\ UNCHANGED <<main, signals, logLock, bus>>

(* logs (53), *)
LogRequest == CanLog /\ UNCHANGED <<main, shouldExit, signals, logLock, bus>>

(* Mutation: the notification is forgotten. *)
NotifyNobody == ~held /\ UNCHANGED <<main, shouldExit, signals, logLock, bus>>

(* and notifies with the mutex (55-56). *)
Notify ==
    /\ ~held
    /\ pc' = IF pc = "asleep" THEN "lock" ELSE pc
    /\ UNCHANGED <<cur, life, held, shouldExit, signals, logLock, bus>>

(* One of these, as closeApp goes on from one place to the next. *)
CloseApp(place, next) ==
    \/ place = "flag" /\ next = "log"  /\ RaiseFlag
    \/ place = "log"  /\ next = "lock" /\ LogRequest
    \/ place = "lock" /\ next = "done" /\ Notify

Alive == fate = "running" /\ pc # "exited"

(* The user closes the window, or stop has told the UI thread to leave     *)
(* its loop (Cube3dComponent.cpp 151-154).                                 *)
UserCloses(c) ==
    /\ Alive /\ ui[c] = "window" /\ life[c] # "stopped"
    /\ ui' = [ui EXCEPT ![c] = "flag"]
    /\ UNCHANGED <<main, shouldExit, onMain, onOther, signals, logLock, bus>>

UiLeaves(c) ==
    /\ Alive /\ ui[c] = "window" /\ life[c] = "stopped"
    /\ ui' = [ui EXCEPT ![c] = "flag"]
    /\ UNCHANGED <<main, shouldExit, onMain, onOther, signals, logLock, bus>>

(* Either way it calls closeApp(0) (Cube3dComponent.cpp 156). *)
UiCloseApp(c) ==
    /\ Alive
    /\ \E next \in Places : CloseApp(ui[c], next) /\ ui' = [ui EXCEPT ![c] = next]
    /\ UNCHANGED <<onMain, onOther>>

(* Where main runs code that logs, its own or a component's. *)
Logging == {"init", "start", "stop", "delete", "log", "deinit"}

(* SIGINT is handled on the stack of whichever thread takes it (62). The   *)
(* thread may have a lock that logging takes: g_mutex, or if it is a       *)
(* sink's thread that of the sink. It has it for ever then, for the        *)
(* handler waits for it (53; event_logger.cpp 142). One that is not        *)
(* interrupted releases it, and so need not be shown here.                 *)
Signal(taker) ==
    /\ Alive /\ signals < SignalLimit
    /\ signals' = signals + 1
    /\ \/ taker = "main"  /\ onMain = "done"  /\ onMain' = "flag"  /\ UNCHANGED onOther
       \/ taker = "other" /\ onOther = "done" /\ onOther' = "flag" /\ UNCHANGED onMain
    /\ \/ UNCHANGED logLock
       \/ CanLog /\ logLock' = taker /\ (taker = "main" => pc \in Logging)
    /\ UNCHANGED <<main, shouldExit, ui, bus>>

HandlerOnMain ==
    /\ Alive
    /\ \E next \in Places : CloseApp(onMain, next) /\ onMain' = next
    /\ UNCHANGED <<ui, onOther>>

HandlerOnOther ==
    /\ Alive
    /\ \E next \in Places : CloseApp(onOther, next) /\ onOther' = next
    /\ UNCHANGED <<ui, onMain>>

-------------------------------------------------------------------------------
(* The threads of p post from its start on; if they come from a timer that *)
(* its init has set (Client.cpp 84-90), from its init on.                  *)
Posting(p) ==
    life[p] \in {"started", "stopped"} \/ (p \in Early /\ life[p] = "initialized")

(* A thread of p posts: the slots connected now will be called one after   *)
(* the other (Component.cpp 107-113).                                      *)
Post(p) ==
    /\ Alive /\ Posting(p) /\ calling[p] = {}
    /\ calling' = [calling EXCEPT ![p] = connected]
    /\ UNCHANGED <<main, closing, connected, fate>>

(* A slot is bound to the component itself and nobody disconnects it, so a *)
(* deleted one is called as well (Component.cpp 104, 111).                 *)
CallSlot(p, s) ==
    /\ Alive /\ s \in calling[p] /\ \A t \in calling[p] : s <= t
    /\ calling' = [calling EXCEPT ![p] = @ \ {s}]
    /\ fate' = IF life[s] = "deleted" THEN "called a deleted component" ELSE fate
    /\ UNCHANGED <<main, closing, connected>>

-------------------------------------------------------------------------------
(* Two ways to wait for oneself at mtx: the handler on main's stack wants  *)
(* what main holds, or main joins a UI thread that wants it.               *)
WaitsForMain == held /\ (onMain = "lock" \/ (pc = "join" /\ ui[cur] = "lock"))

(* And one at g_mutex: the handler logs on the stack of a thread that was  *)
(* interrupted while it logged. All who log wait for that thread then.     *)
WaitsForLogger ==
    (logLock = "main" /\ onMain = "log") \/ (logLock = "other" /\ onOther = "log")

(* Or somebody is waited for who never comes: a peer by a component's      *)
(* stop, or by logger_deinit the thread of a sink.                         *)
Hung == WaitsForMain \/ WaitsForLogger \/ pc \in {"stalled", "sinking"}

Over == (~Alive \/ Hung) /\ UNCHANGED vars

Next ==
    \/ Main \/ MainNotFound \/ SpuriousWake \/ HandlerOnMain \/ HandlerOnOther \/ Over
    \/ \E t \in Takers : Signal(t)
    \/ \E c \in Closers : UserCloses(c) \/ UiLeaves(c) \/ UiCloseApp(c)
    \/ \E p \in Posters : Post(p) \/ \E s \in Components : CallSlot(p, s)

Spec == Init /\ [][Next]_vars

(* Every thread runs; signals and the user come when they like. *)
FairSpec ==
    /\ Spec /\ WF_vars(Main) /\ WF_vars(HandlerOnMain) /\ WF_vars(HandlerOnOther)
    /\ \A c \in Closers : WF_vars(UiLeaves(c) \/ UiCloseApp(c))
-------------------------------------------------------------------------------
Fates == {"running", "called a deleted component", "panic", "initialised no component"}

TypeOK ==
    /\ pc \in {"init", "start", "lock", "test", "sleep", "asleep", "stop", "stalled", "join",
               "delete", "log", "deinit", "sinking", "exited"}
    /\ cur \in Components
    /\ life \in [Components -> {"none", "initialized", "started", "stopped", "deleted"}]
    /\ held \in BOOLEAN /\ shouldExit \in BOOLEAN
    /\ ui \in [Components -> {"none", "window"} \cup Places]
    /\ onMain \in Places /\ onOther \in Places
    /\ signals \in 0..SignalLimit /\ logLock \in {"none", "main", "other"}
    /\ connected \subseteq Subscribers /\ calling \in [Components -> SUBSET Subscribers]
    /\ fate \in Fates

(* A closeApp that has raised the flag and has not notified yet. It will,  *)
(* unless it waits for the logger for ever (WaitsForLogger).               *)
ToNotify ==
    onMain \in {"log", "lock"} \/ onOther \in {"log", "lock"}
    \/ \E c \in Components : ui[c] \in {"log", "lock"}

(* closeApp raises shouldExit without the mutex (51) and still no request  *)
(* is missed: while main sleeps on a raised flag some closeApp has its     *)
(* notification yet to come (55-56, 121).                                  *)
NoMissedRequest == (pc = "asleep" /\ shouldExit) => ToNotify

(* No component is stopped or deleted before somebody has asked to exit,   *)
(* whatever wakes the wait (121, 124-128).                                 *)
ExitOnRequest == shouldExit \/ \A c \in Components : life[c] \notin {"stopped", "deleted"}

OnlyEarlyPostsMet ==
    connected' # connected =>
        \A p \in Components : calling[p] # {} => p \in Early /\ life[p] = "initialized"

(* m_signal_map has no lock (Component.cpp 104, 109-111), and components   *)
(* are initialised, which subscribes them, before the first one starts     *)
(* (main.cpp 105-118). So a post that is under way while a component       *)
(* subscribes comes from a component initialised before it, and from a     *)
(* timer which that one has set in its init, as Client does (84-90).       *)
SubscribeMeetsEarlyOnly == [][OnlyEarlyPostsMet]_vars

Died == fate # "running"

(* A request to exit ends the process, or the process hangs in one of the  *)
(* ways of Hung, or dies: no wait of main or of closeApp is left that      *)
(* somebody forgets (51-56, 120-137).                                      *)
RequestServed == shouldExit ~> (pc = "exited" \/ Hung \/ Died)
===============================================================================

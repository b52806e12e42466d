-------------------------------- MODULE Timers --------------------------------
(***************************************************************************)
(* The timer service every component inherits (core/component/src/         *)
(* Component.cpp, lines 26-41 and 115-202). Each timer is a detached       *)
(* thread with an io_context of its own; m_timers maps the id of a timer   *)
(* to its steady_timer and is shared, without a lock, by the timer         *)
(* threads, by the callers of cancelTimer and by the destructor.           *)
(*                                                                         *)
(* One access to m_timers is one step (the structural corruption that two  *)
(* simultaneous accesses to the std::map may cause is not modelled). An    *)
(* operator[] on a missing id inserts a null pointer and dereferences it:  *)
(* timerFate = "crashed". A timer thread that touches the component after  *)
(* its destructor has run: timerFate = "undefined".                        *)
(*                                                                         *)
(* Timers are set by one thread at a time, as the components do, so that   *)
(* ++m_last_timer_id gives each timer an id of its own; the first value of *)
(* m_last_timer_id, which no constructor sets, is taken to be 0.           *)
(***************************************************************************)
EXTENDS Naturals

CONSTANTS Callers,    \* threads of the component that call cancelTimer
          Owner,      \* the thread that deletes the component
          MaxTimers   \* bound: number of timers set

ASSUME OwnerAssumption     == Owner \notin Callers
ASSUME MaxTimersAssumption == MaxTimers \in Nat

Ids        == 1..MaxTimers
Cancellers == Callers \cup {Owner}

VARIABLES lastId,      \* m_last_timer_id
          registered,  \* the keys of m_timers
          kind,        \* kind[i]: one shot or periodic
          tpc,         \* tpc[i]: where the thread of timer i is
          wait,        \* wait[i]: the asynchronous wait of timer i
          cancelling,  \* cancelling[c]: where c is in cancelTimer, and of what id
          component,   \* the component: "alive", "destroying", "destroyed"
          todo,        \* ~Component: the ids it has still to cancel
          timerFate,   \* the process: "running", "crashed", "undefined"
          cancelled,   \* history: ids for which cancelTimer returned true
          calls,       \* history: calls of the user's handler, up to 2
          late         \* history: those after a cancelTimer that returned true, up to 2

timerVars == <<lastId, registered, kind, tpc, wait, cancelling, component, todo, timerFate,
          cancelled, calls, late>>

Idle == [at |-> "idle", id |-> 0]
Live(i) == tpc[i] \notin {"unset", "ended"}

TimerInit ==
    /\ lastId = 0 /\ registered = {} /\ todo = {}
    /\ kind = [i \in Ids |-> "oneshot"]
    /\ tpc = [i \in Ids |-> "unset"]
    /\ wait = [i \in Ids |-> "none"]
    /\ cancelling = [c \in Cancellers |-> Idle]
    /\ component = "alive" /\ timerFate = "running"
    /\ cancelled = {}
    /\ calls = [i \in Ids |-> 0] /\ late = [i \in Ids |-> 0]

-------------------------------------------------------------------------------
(* Cancelling or destroying a steady_timer aborts the wait in progress; a  *)
(* wait that has expired already is delivered as such.                     *)
Aborted(S) == [i \in Ids |-> IF i \in S /\ wait[i] = "armed" THEN "aborted" ELSE wait[i]]

Min2(n) == IF n < 2 THEN n ELSE 2

(* What the thread of timer i does to the component, or its end. *)
Touch(i, A) ==
    /\ timerFate = "running"
    /\ IF component = "destroyed"
       THEN timerFate' = "undefined" /\ UNCHANGED <<registered, tpc, wait, calls, late>>
       ELSE A
    /\ UNCHANGED <<lastId, kind, cancelling, component, todo, cancelled>>

Goto(i, p) == tpc' = [tpc EXCEPT ![i] = p]

-------------------------------------------------------------------------------
(* setOneShotTimer, setPeriodicTimer: take an id, start a detached thread, *)
(* return the id; the thread has still to register (115-122, 131-142, 157).*)
SetTimer(k) ==
    /\ timerFate = "running" /\ component = "alive" /\ lastId < MaxTimers
    /\ lastId' = lastId + 1
    /\ kind' = [kind EXCEPT ![lastId'] = k]
    /\ tpc' = [tpc EXCEPT ![lastId'] = "spawned"]
    /\ UNCHANGED <<registered, wait, cancelling, component, todo, timerFate, cancelled,
                   calls, late>>

(* Mutation: the timer is not put in the map. *)
RegisterNothing(i) ==
    /\ tpc[i] = "spawned"
    /\ Touch(i, Goto(i, "arming") /\ UNCHANGED <<registered, wait, timerFate, calls, late>>)

(* m_timers[timerId] = make_shared<steady_timer> (124, 144). *)
Register(i) ==
    /\ tpc[i] = "spawned"
    /\ Touch(i, /\ registered' = registered \cup {i}
                /\ Goto(i, "arming")
                /\ UNCHANGED <<wait, timerFate, calls, late>>)

(* Mutation: expires_after without async_wait. *)
ArmWithoutWait(i) ==
    /\ tpc[i] = "arming"
    /\ Touch(i, IF i \in registered
                THEN Goto(i, "waiting") /\ UNCHANGED <<registered, wait, timerFate, calls, late>>
                ELSE timerFate' = "crashed" /\ UNCHANGED <<registered, tpc, wait, calls, late>>)

(* m_timers[timerId]->expires_after, ->async_wait, then io.run: at first   *)
(* (125-128, 145-155) and after each period (193-201).                     *)
Arm(i) ==
    /\ tpc[i] = "arming"
    /\ Touch(i, IF i \in registered
                THEN /\ wait' = [wait EXCEPT ![i] = "armed"]
                     /\ Goto(i, "waiting")
                     /\ UNCHANGED <<registered, timerFate, calls, late>>
                ELSE timerFate' = "crashed" /\ UNCHANGED <<registered, tpc, wait, calls, late>>)

(* The period or delay is over. *)
Expire(i) ==
    /\ timerFate = "running" /\ wait[i] = "armed"
    /\ wait' = [wait EXCEPT ![i] = "expired"]
    /\ UNCHANGED <<lastId, registered, kind, tpc, cancelling, component, todo, timerFate,
                   cancelled, calls, late>>

(* Mutation: a one shot handler is skipped when its wait was aborted. *)
DeliverChecked(i) ==
    /\ tpc[i] = "waiting" /\ wait[i] \in {"expired", "aborted"}
    /\ kind[i] = "periodic" => wait[i] = "expired"
    /\ Touch(i, /\ Goto(i, IF wait[i] = "aborted" THEN "ending" ELSE "handling")
                /\ wait' = [wait EXCEPT ![i] = "none"]
                /\ calls' = [calls EXCEPT ![i] = IF wait[i] = "aborted" THEN @ ELSE Min2(@ + 1)]
                /\ UNCHANGED <<registered, timerFate, late>>)

(* io.run delivers the wait: a one shot handler is called whatever the     *)
(* error code (126), a periodic one when there is none (185, 191).         *)
Deliver(i) ==
    /\ tpc[i] = "waiting" /\ wait[i] \in {"expired", "aborted"}
    /\ kind[i] = "periodic" => wait[i] = "expired"
    /\ Touch(i, /\ Goto(i, "handling")
                /\ wait' = [wait EXCEPT ![i] = "none"]
                /\ calls' = [calls EXCEPT ![i] = Min2(@ + 1)]
                /\ late' = [late EXCEPT ![i] = IF i \in cancelled THEN Min2(@ + 1) ELSE @]
                /\ UNCHANGED <<registered, timerFate>>)

(* The user's handler returns: handleTimeout re-arms (193), the thread of  *)
(* a one shot timer leaves io.run (128).                                   *)
HandlerReturns(i) ==
    /\ timerFate = "running" /\ tpc[i] = "handling"
    /\ Goto(i, IF kind[i] = "periodic" THEN "arming" ELSE "ending")
    /\ UNCHANGED <<lastId, registered, kind, wait, cancelling, component, todo, timerFate,
                   cancelled, calls, late>>

(* Mutation: the entry of a finished one shot timer stays. *)
OneShotEndsRegistered(i) ==
    /\ tpc[i] = "ending"
    /\ Touch(i, Goto(i, "ended") /\ UNCHANGED <<registered, wait, timerFate, calls, late>>)

(* A one shot thread ends: m_timers.erase(timerId) (129-130). *)
OneShotEnds(i) ==
    /\ tpc[i] = "ending"
    /\ Touch(i, /\ registered' = registered \ {i}
                /\ Goto(i, "ended")
                /\ UNCHANGED <<wait, timerFate, calls, late>>)

(* handleTimeout with an error: cancelTimer(timerId), in the three         *)
(* accesses of lines 163, 165 and 166 (185-189).                           *)
PeriodicAborted(i) ==
    /\ tpc[i] = "waiting" /\ wait[i] = "aborted" /\ kind[i] = "periodic"
    /\ Touch(i, /\ wait' = [wait EXCEPT ![i] = "none"]
                /\ Goto(i, IF i \in registered THEN "cancelling" ELSE "ended")
                /\ UNCHANGED <<registered, timerFate, calls, late>>)

PeriodicCancels(i) ==
    /\ tpc[i] = "cancelling"
    /\ Touch(i, IF i \in registered
                THEN Goto(i, "erasing") /\ UNCHANGED <<registered, wait, timerFate, calls, late>>
                ELSE timerFate' = "crashed" /\ UNCHANGED <<registered, tpc, wait, calls, late>>)

PeriodicErases(i) ==
    /\ tpc[i] = "erasing"
    /\ Touch(i, /\ registered' = registered \ {i}
                /\ Goto(i, "ended")
                /\ UNCHANGED <<wait, timerFate, calls, late>>)

-------------------------------------------------------------------------------
(* cancelTimer: m_timers.count(timerId), false when it is 0 (163, 171). *)
CancelLooks(c, i) ==
    /\ timerFate = "running" /\ cancelling[c] = Idle
    /\ IF i \in registered
       THEN cancelling' = [cancelling EXCEPT ![c] = [at |-> "cancel", id |-> i]]
       ELSE UNCHANGED cancelling
    /\ UNCHANGED <<lastId, registered, kind, tpc, wait, component, timerFate, cancelled, calls,
                   late>>

(* A caller cancels a timer that has been set. *)
CallerCancels(c, i) ==
    /\ component = "alive" /\ i <= lastId
    /\ CancelLooks(c, i)
    /\ UNCHANGED todo

(* m_timers[timerId]->cancel() (165). *)
CancelCancels(c) ==
    /\ timerFate = "running" /\ cancelling[c].at = "cancel"
    /\ IF cancelling[c].id \in registered
       THEN /\ wait' = Aborted({cancelling[c].id})
            /\ cancelling' = [cancelling EXCEPT ![c].at = "erase"]
            /\ UNCHANGED timerFate
       ELSE timerFate' = "crashed" /\ UNCHANGED <<wait, cancelling>>
    /\ UNCHANGED <<lastId, registered, kind, tpc, component, todo, cancelled, calls, late>>

(* Mutation: cancelTimer leaves the entry in m_timers. *)
CancelKeeps(c) ==
    /\ timerFate = "running" /\ cancelling[c].at = "erase"
    /\ cancelled' = cancelled \cup {cancelling[c].id}
    /\ cancelling' = [cancelling EXCEPT ![c] = Idle]
    /\ UNCHANGED <<lastId, registered, kind, tpc, wait, component, todo, timerFate, calls, late>>

(* m_timers.erase(timerId), which destroys the timer; return true (166-168)*)
CancelErases(c) ==
    /\ timerFate = "running" /\ cancelling[c].at = "erase"
    /\ LET i == cancelling[c].id
       IN  /\ wait' = IF i \in registered THEN Aborted({i}) ELSE wait
           /\ registered' = registered \ {i}
           /\ cancelled' = cancelled \cup {i}
    /\ cancelling' = [cancelling EXCEPT ![c] = Idle]
    /\ UNCHANGED <<lastId, kind, tpc, component, todo, timerFate, calls, late>>

-------------------------------------------------------------------------------

(* ~Component: collect the ids in m_timers (28-33). The calls of the       *)
(* component's own threads are over (the launcher has called stop).        *)
Destroy ==
    /\ timerFate = "running" /\ component = "alive"
    /\ \A c \in Callers : cancelling[c] = Idle
    /\ component' = "destroying" /\ todo' = registered
    /\ UNCHANGED <<lastId, registered, kind, tpc, wait, cancelling, timerFate, cancelled,
                   calls, late>>

(* Cancel each of them, the smallest first (35-38). *)
DestroyCancels(i) ==
    /\ component = "destroying" /\ i \in todo /\ \A j \in todo : i <= j
    /\ CancelLooks(Owner, i)
    /\ todo' = todo \ {i}

(* m_timers.clear(), and the component is no more (40). *)
DestroyClears ==
    /\ timerFate = "running" /\ component = "destroying" /\ todo = {} /\ cancelling[Owner] = Idle
    /\ wait' = Aborted(registered)
    /\ registered' = {}
    /\ component' = "destroyed"
    /\ UNCHANGED <<lastId, kind, tpc, cancelling, todo, timerFate, cancelled, calls, late>>

(* The process has died, or the component is gone. *)
TimersOver ==
    /\ timerFate # "running" \/ component = "destroyed"
    /\ UNCHANGED timerVars

-------------------------------------------------------------------------------
Thread(i) ==
    \/ Register(i) \/ Arm(i) \/ Deliver(i) \/ HandlerReturns(i) \/ OneShotEnds(i)
    \/ PeriodicAborted(i) \/ PeriodicCancels(i) \/ PeriodicErases(i)

Cancel(c) == CancelCancels(c) \/ CancelErases(c)

TimerNext ==
    \/ \E k \in {"oneshot", "periodic"} : SetTimer(k)
    \/ \E i \in Ids : Thread(i) \/ Expire(i) \/ DestroyCancels(i)
    \/ \E c \in Cancellers : Cancel(c)
    \/ \E c \in Callers, i \in Ids : CallerCancels(c, i)
    \/ Destroy \/ DestroyClears \/ TimersOver

TimerSpec == TimerInit /\ [][TimerNext]_timerVars

(* A thread that can go on does, a delay passes, a call of cancelTimer     *)
(* ends; nobody has to cancel a timer or to delete the component.          *)
FairTimerSpec ==
    /\ TimerSpec
    /\ \A i \in Ids : WF_timerVars(Thread(i)) /\ WF_timerVars(Expire(i))
    /\ \A c \in Cancellers : WF_timerVars(Cancel(c))
-------------------------------------------------------------------------------
TimersTypeOK ==
    /\ lastId \in 0..MaxTimers /\ registered \subseteq Ids /\ todo \subseteq Ids
    /\ kind \in [Ids -> {"oneshot", "periodic"}]
    /\ tpc \in [Ids -> {"unset", "spawned", "arming", "waiting", "handling", "ending",
                        "cancelling", "erasing", "ended"}]
    /\ wait \in [Ids -> {"none", "armed", "expired", "aborted"}]
    /\ cancelling \in [Cancellers -> [at : {"idle", "cancel", "erase"}, id : 0..MaxTimers]]
    /\ component \in {"alive", "destroying", "destroyed"}
    /\ timerFate \in {"running", "crashed", "undefined"}
    /\ cancelled \subseteq Ids
    /\ calls \in [Ids -> 0..2] /\ late \in [Ids -> 0..2]

(* m_timers holds running timers only: no entry outlives its thread, by    *)
(* whichever of the two threads that may erase it (lines 129, 166, 187).   *)
NoStaleEntry == \A i \in registered : Live(i) /\ tpc[i] # "spawned"

(* A one shot timer calls its handler at most once, cancelled or not.      *)
OneShotOnce == \A i \in Ids : kind[i] = "oneshot" => calls[i] <= 1

(* After cancelTimer has returned true the handler starts at most once     *)
(* more: with the wait that had expired, or was aborted, by then.          *)
OneCallAfterCancel == \A i \in Ids : late[i] <= 1

(* Timers alone never bring the process down: a null entry of m_timers is  *)
(* dereferenced only where a cancelTimer has been, or is, at work.         *)
CrashNeedsCancel ==
    timerFate = "crashed" => cancelled # {} \/ \E c \in Cancellers : cancelling[c] # Idle

(* A one shot timer calls its handler in the end, even when cancelled.     *)
OneShotRuns ==
    \A i \in Ids : (kind[i] = "oneshot" /\ tpc[i] = "spawned")
                      ~> (calls[i] > 0 \/ timerFate # "running")

(* A periodic timer goes on calling its handler for as long as nobody      *)
(* erases it from m_timers: a call leads to the next arming, and each      *)
(* arming to another call.                                                 *)
Erased(i) == i \notin registered \/ timerFate # "running"
PeriodicGoesOn ==
    \A i \in Ids :
        /\ (kind[i] = "periodic" /\ tpc[i] = "arming") ~> (tpc[i] = "handling" \/ Erased(i))
        /\ (kind[i] = "periodic" /\ tpc[i] = "handling") ~> (tpc[i] = "arming" \/ Erased(i))

(* Timers fire: the one shot ones once, the periodic ones on and on.       *)
TimersFire == OneShotRuns /\ PeriodicGoesOn

(* The thread of a timer that cancelTimer found and cancelled ends, unless *)
(* the process dies of it: no cancelled timer keeps running.               *)
CancelledEnds == \A i \in Ids : (i \in cancelled) ~> (~Live(i) \/ timerFate # "running")
===============================================================================

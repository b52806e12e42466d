------------------------------ MODULE CoreProofs ------------------------------
(***************************************************************************)
(* Proofs about what src/core makes of a process: the launcher, for any    *)
(* number of components, any roles of theirs, any number of signals and    *)
(* any threads that take them; and the timer service of a component, for   *)
(* any number of timers and of threads that cancel them.                   *)
(***************************************************************************)
EXTENDS Launcher, Timers, TLAPS

(* main owns mtx from the wait on, but for the wait itself. *)
OwnsMutex ==
    held <=> pc \in {"test", "sleep", "stop", "stalled", "join", "delete", "log", "deinit",
                     "sinking"}

(* NoMissedRequest, and the step before: main goes to sleep on a raised    *)
(* flag only if the notification is still to come. No closeApp can notify  *)
(* between the test and the wait, for main holds mtx there.                *)
NotifiedLater == (pc \in {"sleep", "asleep"} /\ shouldExit) => ToNotify

(* While components are initialised none has started: who posts has set a *)
(* timer in its init.                                                      *)
QuietInit ==
    pc = "init" =>
        /\ \A c \in Components : life[c] \in {"none", "initialized"}
        /\ \A c \in Components : calling[c] # {} => c \in Early /\ life[c] = "initialized"

(* main leaves its wait only on a raised flag. *)
StopsOnRequest ==
    pc \in {"stop", "stalled", "join", "delete", "log", "deinit", "sinking", "exited"}
        => shouldExit

(* The inductive invariant. *)
IInv == /\ TypeOK /\ OwnsMutex /\ NotifiedLater /\ QuietInit
        /\ StopsOnRequest /\ ExitOnRequest

LEMMA FirstComponent == 1 \in Components
BY NAssumption DEF Components

LEMMA NextComponent == \A c \in Components : c # N => c + 1 \in Components
BY NAssumption DEF Components

LEMMA NextSignal == \A n \in 0..SignalLimit : n < SignalLimit => n + 1 \in 0..SignalLimit
BY SignalAssumption

LEMMA RolesAreComponents ==
    /\ \A c \in Subscribers : c \in Components
    /\ \A c \in Posters : c \in Components
    /\ \A c \in Closers : c \in Components
    /\ \A c \in Stallers : c \in Components
BY RolesAssumption DEF Components

(* The launcher starts in the invariant. *)
LEMMA InitIInv == Init => IInv
<1> SUFFICES ASSUME Init PROVE IInv
    OBVIOUS
<1>1. TypeOK
  <2>1. signals \in 0..SignalLimit
        BY SignalAssumption DEF Init
  <2>2. calling \in [Components -> SUBSET Subscribers]
        BY DEF Init
  <2>3. fate \in Fates
        BY DEF Init, Fates
  <2> QED BY <2>1, <2>2, <2>3, FirstComponent DEF Init, TypeOK, Places
<1>2. OwnsMutex /\ NotifiedLater /\ StopsOnRequest
      BY DEF Init, OwnsMutex, NotifiedLater, StopsOnRequest
<1>3. QuietInit /\ ExitOnRequest
      BY DEF Init, QuietInit, ExitOnRequest
<1> QED BY <1>1, <1>2, <1>3 DEF IInv

(* A step of closeApp keeps the types of all but the place it is at.       *)
LEMMA CloseAppKeeps ==
  ASSUME TypeOK, NEW place, NEW next, CloseApp(place, next)
  PROVE  /\ pc' = pc \/ pc' = "lock"
         /\ UNCHANGED <<cur, life, held, signals, logLock, bus>>
         /\ shouldExit' \in BOOLEAN
BY DEF CloseApp, RaiseFlag, LogRequest, Notify, TypeOK, main

(* Types are kept: main's steps, those of closeApp, and those of posts. *)
LEMMA TypeStep == TypeOK /\ [Next]_vars => TypeOK'
<1> USE NAssumption, RolesAreComponents, SignalAssumption, FirstComponent, NextComponent
<1> SUFFICES ASSUME TypeOK, [Next]_vars PROVE TypeOK'
    OBVIOUS
<1> USE DEF TypeOK
<1>1. CASE Main \/ SpuriousWake
  <2> USE DEF MainAt, Loop, Becomes, closing, bus
  <2>1. CASE MainInit
        BY <2>1 DEF MainInit
  <2>2. CASE MainStart
        BY <2>2 DEF MainStart
  <2>3. CASE \/ MainLock \/ MainTest \/ MainSleep \/ MainJoin \/ SpuriousWake
             \/ MainLog \/ MainDeinit
        BY <2>3 DEF MainLock, MainTest, MainSleep, MainJoin, SpuriousWake, MainLog, MainDeinit
  <2>4. CASE MainStop
        BY <2>4 DEF MainStop
  <2>5. CASE MainDelete
        BY <2>5 DEF MainDelete
  <2> QED BY <1>1, <2>1, <2>2, <2>3, <2>4, <2>5 DEF Main
<1>2. CASE HandlerOnMain \/ HandlerOnOther
  <2>1. onMain' \in Places /\ onOther' \in Places /\ ui' = ui
        BY <1>2 DEF HandlerOnMain, HandlerOnOther
  <2>2. \E c, d \in Places : CloseApp(c, d)
        BY <1>2 DEF HandlerOnMain, HandlerOnOther
  <2> QED BY <2>1, <2>2, CloseAppKeeps DEF TypeOK, bus
<1>3. ASSUME NEW t \in Takers, Signal(t)
      PROVE  TypeOK'
  <2>1. signals' \in 0..SignalLimit
        BY <1>3, NextSignal DEF Signal
  <2>2. onMain' \in Places /\ onOther' \in Places
        BY <1>3 DEF Signal, Places
  <2>3. logLock' \in {"none", "main", "other"}
        BY <1>3 DEF Signal
  <2> QED BY <1>3, <2>1, <2>2, <2>3 DEF Signal, main, bus
<1>4. ASSUME NEW c \in Closers, UserCloses(c) \/ UiLeaves(c) \/ UiCloseApp(c)
      PROVE  TypeOK'
  <2>1. CASE UserCloses(c) \/ UiLeaves(c)
        BY <2>1 DEF UserCloses, UiLeaves, Places, main, bus
  <2>2. CASE UiCloseApp(c)
    <3>1. ui' \in [Components -> {"none", "window"} \cup Places]
          BY <2>2 DEF UiCloseApp
    <3>2. onMain' = onMain /\ onOther' = onOther /\ \E d \in Places : CloseApp(ui[c], d)
          BY <2>2 DEF UiCloseApp
    <3> QED BY <3>1, <3>2, CloseAppKeeps DEF TypeOK, bus
  <2> QED BY <1>4, <2>1, <2>2
<1>5. ASSUME NEW p \in Posters, Post(p)
      PROVE  TypeOK'
      BY <1>5 DEF Post, main, closing
<1>6. ASSUME NEW p \in Posters, NEW s \in Components, CallSlot(p, s)
      PROVE  TypeOK'
  <2>1. calling' \in [Components -> SUBSET Subscribers]
        BY <1>6 DEF CallSlot
  <2>2. fate' \in Fates
        BY <1>6 DEF CallSlot, Fates
  <2> QED BY <1>6, <2>1, <2>2 DEF CallSlot, main, closing
<1>7. CASE MainNotFound
  <2>1. fate' \in Fates
        BY <1>7 DEF MainNotFound, Fates
  <2> QED BY <1>7, <2>1 DEF MainNotFound, main, closing
<1>8. CASE Over \/ UNCHANGED vars
      BY <1>8 DEF Over, vars, main, closing, bus
<1> QED BY <1>1, <1>2, <1>3, <1>4, <1>5, <1>6, <1>7, <1>8 DEF Next

(* Every step keeps the invariant. *)
LEMMA NextIInv == IInv /\ [Next]_vars => IInv'
<1> USE RolesAreComponents
<1> SUFFICES ASSUME IInv, [Next]_vars PROVE IInv'
    OBVIOUS
<1>t. TypeOK /\ TypeOK'
      BY TypeStep DEF IInv
<1> USE DEF IInv, TypeOK, OwnsMutex, NotifiedLater, ToNotify, QuietInit, StopsOnRequest,
                 ExitOnRequest
<1>1. CASE Main \/ SpuriousWake
  <2> USE DEF MainAt, Loop, Becomes, closing, bus
  <2>1. CASE MainInit
        BY <1>t, <2>1 DEF MainInit
  <2>2. CASE MainStart
        BY <1>t, <2>2 DEF MainStart
  <2>3. CASE \/ MainLock \/ MainTest \/ MainSleep \/ MainJoin \/ SpuriousWake
             \/ MainLog \/ MainDeinit
        BY <1>t, <2>3 DEF MainLock, MainTest, MainSleep, MainJoin, SpuriousWake, MainLog, MainDeinit
  <2>4. CASE MainStop
        BY <1>t, <2>4 DEF MainStop
  <2>5. CASE MainDelete
        BY <1>t, <2>5 DEF MainDelete
  <2> QED BY <1>1, <2>1, <2>2, <2>3, <2>4, <2>5 DEF Main
<1>2. CASE HandlerOnMain \/ HandlerOnOther
  <2>1. CASE (RaiseFlag \/ LogRequest) /\ (onMain' \in {"log", "lock"} \/ onOther' \in {"log", "lock"})
    <3>1. ToNotify'
          BY <2>1 DEF ToNotify
    <3>2. UNCHANGED <<main, bus>> /\ (shouldExit => shouldExit')
          BY <2>1 DEF RaiseFlag, LogRequest
    <3> QED BY <1>t, <3>1, <3>2 DEF main, bus
  <2>2. CASE Notify
        BY <1>t, <2>2 DEF Notify, bus
  <2> QED BY <1>2, <2>1, <2>2 DEF HandlerOnMain, HandlerOnOther, CloseApp
<1>3. ASSUME NEW t \in Takers, Signal(t)
      PROVE  IInv'
  <2>1. UNCHANGED <<main, shouldExit, ui, bus>>
        BY <1>3 DEF Signal
  <2>2. /\ onMain \in {"log", "lock"} => onMain' = onMain
        /\ onOther \in {"log", "lock"} => onOther' = onOther
        BY <1>3 DEF Signal
  <2>3. ToNotify => ToNotify'
        BY <2>1, <2>2 DEF ToNotify
  <2> QED BY <2>1, <2>3, <1>t DEF main, bus
<1>4. ASSUME NEW c \in Closers, UserCloses(c) \/ UiLeaves(c) \/ UiCloseApp(c)
      PROVE  IInv'
  <2>1. CASE UserCloses(c) \/ UiLeaves(c)
    <3>1. UNCHANGED <<main, shouldExit, onMain, onOther, bus>>
          BY <2>1 DEF UserCloses, UiLeaves
    <3>2. \A d \in Components : ui[d] \in {"log", "lock"} => ui'[d] = ui[d]
          BY <2>1 DEF UserCloses, UiLeaves
    <3>3. ToNotify => ToNotify'
          BY <3>1, <3>2 DEF ToNotify
    <3> QED BY <1>t, <3>1, <3>3 DEF main, bus
  <2>2. ASSUME NEW next \in {"log", "lock"}, RaiseFlag \/ LogRequest,
               UNCHANGED <<onMain, onOther>>, ui' = [ui EXCEPT ![c] = next]
        PROVE  IInv'
    <3>1. c \in Components /\ ui'[c] \in {"log", "lock"}
          BY <1>t, <2>2, RolesAreComponents DEF TypeOK
    <3>2. ToNotify'
          BY <3>1 DEF ToNotify
    <3>3. UNCHANGED <<main, bus>> /\ (shouldExit => shouldExit')
          BY <2>2 DEF RaiseFlag, LogRequest
    <3> QED BY <1>t, <3>2, <3>3 DEF main, bus
  <2>3. CASE UiCloseApp(c) /\ Notify
        BY <1>t, <2>3 DEF Notify, bus
  <2> QED BY <1>4, <2>1, <2>2, <2>3 DEF UiCloseApp, CloseApp
<1>5. ASSUME NEW p \in Posters, Post(p)
      PROVE  IInv'
  <2>1. UNCHANGED <<main, closing>> /\ Posting(p) /\ calling' = [calling EXCEPT ![p] = connected]
        BY <1>5 DEF Post
  <2>2. QuietInit'
    <3>1. pc = "init" => p \in Early /\ life[p] = "initialized"
          BY <2>1, RolesAreComponents DEF Posting, QuietInit
    <3> QED BY <2>1, <3>1 DEF main
  <2> QED BY <2>1, <2>2, <1>t DEF main, closing
<1>6. ASSUME NEW p \in Posters, NEW s \in Components, CallSlot(p, s)
      PROVE  IInv'
  <2>1. UNCHANGED <<main, closing>> /\ s \in calling[p] /\ calling' = [calling EXCEPT ![p] = @ \ {s}]
        BY <1>6 DEF CallSlot
  <2>2. \A c \in Components : calling'[c] # {} => calling[c] # {}
        BY <2>1
  <2>3. QuietInit'
        BY <2>1, <2>2 DEF main
  <2> QED BY <2>1, <2>3, <1>t DEF main, closing
<1>7. CASE MainNotFound \/ Over \/ UNCHANGED vars
  <2>1. UNCHANGED <<pc, cur, life, held, shouldExit, ui, onMain, onOther, signals,
                    connected, calling>>
        BY <1>7 DEF MainNotFound, Over, vars, main, closing, bus
  <2> QED BY <1>t, <2>1
<1> QED BY <1>1, <1>2, <1>3, <1>4, <1>5, <1>6, <1>7 DEF Next

(* The inductive invariant holds in every reachable state. *)
LEMMA Invariant == Spec => []IInv
BY InitIInv, NextIInv, PTL DEF Spec

(* Every variable keeps its type, so the process dies in no way but those  *)
(* named.                                                                  *)
THEOREM TypeCorrect == Spec => []TypeOK
BY Invariant, PTL DEF IInv

(* A request to exit is never missed (main.cpp 51-56, 121). *)
THEOREM NoRequestMissed == Spec => []NoMissedRequest
<1>1. IInv => NoMissedRequest
      BY DEF IInv, NotifiedLater, NoMissedRequest
<1> QED BY <1>1, Invariant, PTL

(* Nothing is stopped or deleted unasked (main.cpp 121-128). *)
THEOREM NothingStopsUnasked == Spec => []ExitOnRequest
BY Invariant, PTL DEF IInv

(* The signal map changes under a post only if the post comes from a timer *)
(* that a component initialised before has set in its init (Component.cpp  *)
(* 104-111; Client.cpp 84-90).                                             *)
THEOREM SubscriptionsMeetEarlyPostsOnly == Spec => SubscribeMeetsEarlyOnly
<1>1. IInv /\ [Next]_vars => [OnlyEarlyPostsMet]_vars
  <2> SUFFICES ASSUME IInv, Next PROVE OnlyEarlyPostsMet
      OBVIOUS
  <2>1. CASE MainInit
        BY <2>1 DEF MainInit, MainAt, IInv, QuietInit, OnlyEarlyPostsMet
  <2>2. ASSUME connected' = connected PROVE OnlyEarlyPostsMet
        BY <2>2 DEF OnlyEarlyPostsMet
  <2>3. MainInit \/ connected' = connected
    <3>1. ASSUME Main, ~MainInit PROVE connected' = connected
          BY <3>1 DEF Main, MainStart, MainLock, MainTest, MainSleep, MainStop, MainJoin,
                      MainDelete, MainLog, MainDeinit, bus
    <3>2. ASSUME NEW c, NEW d, CloseApp(c, d) PROVE connected' = connected
          BY <3>2 DEF CloseApp, RaiseFlag, LogRequest, Notify, bus
    <3>3. ASSUME HandlerOnMain \/ HandlerOnOther \/ \E c \in Closers : UiCloseApp(c)
          PROVE  connected' = connected
          BY <3>2, <3>3 DEF HandlerOnMain, HandlerOnOther, UiCloseApp
    <3> QED BY <3>1, <3>3 DEF Next, MainNotFound, SpuriousWake, Over, Signal, UserCloses,
               UiLeaves, Post, CallSlot, vars, bus
  <2> QED BY <2>1, <2>2, <2>3
<1> QED BY <1>1, Invariant, PTL DEF Spec, SubscribeMeetsEarlyOnly

-------------------------------------------------------------------------------
(* The timer service of one component, next to the launcher: the two share *)
(* no variable.                                                            *)

(* An id is in m_timers from the registration of its thread on, and leaves *)
(* it, for good, when cancelTimer erases it or its thread ends.            *)
Entries ==
    /\ \A i \in Ids : i > lastId => tpc[i] = "unset"
    /\ \A i \in registered : tpc[i] \notin {"unset", "spawned", "ended"}
    /\ \A i \in cancelled : i \notin registered /\ tpc[i] \notin {"unset", "spawned"}
    /\ \A c \in Cancellers : cancelling[c].at # "idle" =>
          cancelling[c].id \in Ids /\ tpc[cancelling[c].id] \notin {"unset", "spawned"}

(* A thread that finds its entry gone owes that to a cancelTimer, or to    *)
(* the destructor's clear.                                                 *)
Gone ==
    \A i \in Ids : (Live(i) /\ tpc[i] # "spawned" /\ i \notin registered)
                       => (i \in cancelled \/ component = "destroyed")

(* A one shot timer has not called its handler before its wait is over.    *)
FirstCall ==
    \A i \in Ids :
        /\ tpc[i] \in {"unset", "spawned"} => calls[i] = 0 /\ wait[i] = "none"
        /\ kind[i] = "oneshot" => /\ calls[i] <= 1
                                  /\ tpc[i] \in {"arming", "waiting"} => calls[i] = 0

(* A cancelled timer is not armed; once it has called its handler after    *)
(* that, it has no wait left.                                              *)
LastCall ==
    \A i \in Ids :
        /\ i \in cancelled => wait[i] # "armed"
        /\ late[i] <= 1
        /\ late[i] = 1 => i \in cancelled /\ wait[i] = "none"

(* A wait belongs to a thread in io.run, and to a timer in m_timers while  *)
(* it is armed.                                                            *)
Waits ==
    \A i \in Ids : /\ wait[i] # "none" => tpc[i] = "waiting"
                   /\ wait[i] = "armed" => i \in registered

(* The inductive invariant. *)
TimerInv ==
    TimersTypeOK /\ Entries /\ Gone /\ Waits /\ FirstCall /\ LastCall /\ CrashNeedsCancel

(* The service starts in the invariant. *)
LEMMA TimerInitially == TimerInit => TimerInv
<1> SUFFICES ASSUME TimerInit PROVE TimerInv
    OBVIOUS
<1> USE OwnerAssumption, MaxTimersAssumption DEF TimerInit, Ids, Cancellers, Idle
<1>1. TimersTypeOK
      BY DEF TimersTypeOK
<1>2. Entries /\ Gone /\ Waits
      BY DEF Entries, Gone, Waits, Live
<1>3. FirstCall /\ LastCall /\ CrashNeedsCancel
      BY DEF FirstCall, LastCall, CrashNeedsCancel
<1> QED BY <1>1, <1>2, <1>3 DEF TimerInv

(* The type of the calls of cancelTimer, as in TimersTypeOK.                *)
CancellingOK ==
    cancelling \in [Cancellers -> [at : {"idle", "cancel", "erase"}, id : 0..MaxTimers]]

(* A call of cancelTimer that has looked at m_timers remembers the id of a *)
(* timer that has been registered.                                         *)
LEMMA Looked ==
  ASSUME TimersTypeOK, Entries,
         NEW c \in Cancellers, NEW i \in Ids, CancelLooks(c, i)
  PROVE  /\ CancellingOK'
         /\ \A d \in Cancellers : cancelling'[d].at # "idle" =>
               cancelling'[d].id \in Ids /\ tpc[cancelling'[d].id] \notin {"unset", "spawned"}
         /\ i \in registered \/ cancelling' = cancelling
<1> USE DEF TimersTypeOK, Entries, CancelLooks, CancellingOK
<1>1. CASE i \in registered
  <2>1. [at |-> "cancel", id |-> i] \in [at : {"idle", "cancel", "erase"}, id : 0..MaxTimers]
        BY MaxTimersAssumption DEF Ids
  <2> QED BY <1>1, <2>1, SMTT(30)
<1>2. CASE i \notin registered
      BY <1>2
<1> QED BY <1>1, <1>2

(* Every step keeps the invariant. *)
LEMMA TimerStep == TimerInv /\ [TimerNext]_timerVars => TimerInv'
<1> SUFFICES ASSUME TimerInv, [TimerNext]_timerVars PROVE TimerInv'
    OBVIOUS
<1> USE OwnerAssumption, MaxTimersAssumption
<1> USE DEF TimerInv, TimersTypeOK, Entries, Gone, Waits, FirstCall, LastCall,
            CancellingOK, CrashNeedsCancel, Live, Touch, Goto, Idle
<1>1. ASSUME NEW k \in {"oneshot", "periodic"}, SetTimer(k) PROVE TimerInv'
      BY <1>1 DEF SetTimer, Ids
<1>2. ASSUME NEW i \in Ids, Register(i) PROVE TimerInv'
      BY <1>2 DEF Register
<1>3. ASSUME NEW i \in Ids, Arm(i) PROVE TimerInv'
      BY <1>3 DEF Arm
<1>4. ASSUME NEW i \in Ids, Deliver(i) PROVE TimerInv'
  <2>1. TimersTypeOK'
        BY <1>4 DEF Deliver, Min2
  <2>2. (Entries /\ Gone /\ Waits)'
        BY <1>4 DEF Deliver, Min2
  <2>3. FirstCall'
        BY <1>4 DEF Deliver, Min2
  <2>4. (LastCall /\ CrashNeedsCancel)'
        BY <1>4 DEF Deliver, Min2
  <2> QED BY <2>1, <2>2, <2>3, <2>4
<1>5. ASSUME NEW i \in Ids, HandlerReturns(i) PROVE TimerInv'
  <2>1. TimersTypeOK'
        BY <1>5 DEF HandlerReturns
  <2>2. (Entries /\ Gone /\ Waits)'
        BY <1>5 DEF HandlerReturns
  <2>3. FirstCall'
        BY <1>5 DEF HandlerReturns
  <2>4. (LastCall /\ CrashNeedsCancel)'
        BY <1>5 DEF HandlerReturns
  <2> QED BY <2>1, <2>2, <2>3, <2>4
<1>6. ASSUME NEW i \in Ids, OneShotEnds(i) PROVE TimerInv'
      BY <1>6 DEF OneShotEnds
<1>7. ASSUME NEW i \in Ids, PeriodicAborted(i) PROVE TimerInv'
      BY <1>7 DEF PeriodicAborted
<1>8. ASSUME NEW i \in Ids, PeriodicCancels(i) PROVE TimerInv'
      BY <1>8 DEF PeriodicCancels
<1>9. ASSUME NEW i \in Ids, PeriodicErases(i) PROVE TimerInv'
      BY <1>9, SMTT(30) DEF PeriodicErases
<1>10. ASSUME NEW i \in Ids, Expire(i) PROVE TimerInv'
      BY <1>10 DEF Expire
<1>11. ASSUME NEW i \in Ids, DestroyCancels(i) PROVE TimerInv'
  <2>1. Owner \in Cancellers /\ CancelLooks(Owner, i)
        BY <1>11 DEF DestroyCancels, Cancellers
  <2>2. /\ CancellingOK'
        /\ \A d \in Cancellers : cancelling'[d].at # "idle" =>
              cancelling'[d].id \in Ids /\ tpc[cancelling'[d].id] \notin {"unset", "spawned"}
        BY <2>1, Looked
  <2>3. UNCHANGED <<lastId, registered, kind, tpc, wait, component, timerFate, cancelled,
                    calls, late>>
        BY <2>1 DEF CancelLooks
  <2>4. todo' \subseteq Ids /\ timerFate = "running"
        BY <1>11, <2>1 DEF DestroyCancels, CancelLooks
  <2> QED BY <2>2, <2>3, <2>4
<1>12. ASSUME NEW c \in Cancellers, CancelCancels(c) PROVE TimerInv'
      BY <1>12 DEF CancelCancels, Aborted
<1>13. ASSUME NEW c \in Cancellers, CancelErases(c) PROVE TimerInv'
  <2>1. TimersTypeOK'
        BY <1>13 DEF CancelErases, Aborted
  <2>2. (Entries /\ Gone /\ Waits)'
        BY <1>13 DEF CancelErases, Aborted
  <2>3. (FirstCall /\ LastCall /\ CrashNeedsCancel)'
        BY <1>13 DEF CancelErases, Aborted
  <2> QED BY <2>1, <2>2, <2>3
<1>14. ASSUME NEW c \in Callers, NEW i \in Ids, CallerCancels(c, i) PROVE TimerInv'
  <2>1. c \in Cancellers /\ CancelLooks(c, i)
        BY <1>14 DEF CallerCancels, Cancellers
  <2>2. /\ CancellingOK'
        /\ \A d \in Cancellers : cancelling'[d].at # "idle" =>
              cancelling'[d].id \in Ids /\ tpc[cancelling'[d].id] \notin {"unset", "spawned"}
        BY <2>1, Looked
  <2>3. UNCHANGED <<lastId, registered, kind, tpc, wait, component, timerFate, cancelled,
                    calls, late>>
        BY <2>1 DEF CancelLooks
  <2>4. todo' \subseteq Ids /\ timerFate = "running"
        BY <1>14, <2>1 DEF CallerCancels, CancelLooks
  <2> QED BY <2>2, <2>3, <2>4
<1>15. CASE Destroy
      BY <1>15 DEF Destroy
<1>16. CASE DestroyClears
      BY <1>16 DEF DestroyClears, Aborted
<1>17. CASE UNCHANGED timerVars
      BY <1>17 DEF timerVars
<1> QED BY <1>1, <1>2, <1>3, <1>4, <1>5, <1>6, <1>7, <1>8, <1>9, <1>10, <1>11, <1>12, <1>13,
           <1>14, <1>15, <1>16, <1>17 DEF TimerNext, Thread, Cancel, TimersOver

(* The invariant holds throughout. *)
THEOREM TimerInvariance == TimerSpec => []TimerInv
<1>1. TimerInit => TimerInv
      BY TimerInitially
<1>2. TimerInv /\ [TimerNext]_timerVars => TimerInv'
      BY TimerStep
<1> QED BY <1>1, <1>2, PTL DEF TimerSpec

-------------------------------------------------------------------------------
(* The variables of the timer service keep their types. *)
THEOREM TimersTypeCorrect == TimerSpec => []TimersTypeOK
<1>1. TimerInv => TimersTypeOK
      BY DEF TimerInv
<1> QED BY TimerInvariance, <1>1, PTL

(* m_timers never keeps the entry of a thread that has ended, or has yet   *)
(* to register, whichever of the threads that may erase it does.           *)
THEOREM EntriesAreLive == TimerSpec => []NoStaleEntry
<1>1. TimerInv => NoStaleEntry
      BY DEF TimerInv, Entries, NoStaleEntry, Live
<1> QED BY TimerInvariance, <1>1, PTL

(* A one shot timer calls its handler at most once. *)
THEOREM OneShotAtMostOnce == TimerSpec => []OneShotOnce
<1>1. TimerInv => OneShotOnce
      BY DEF TimerInv, FirstCall, OneShotOnce
<1> QED BY TimerInvariance, <1>1, PTL

(* After a cancelTimer that returned true the handler starts at most once. *)
THEOREM AtMostOneCallAfterCancel == TimerSpec => []OneCallAfterCancel
<1>1. TimerInv => OneCallAfterCancel
      BY DEF TimerInv, LastCall, OneCallAfterCancel
<1> QED BY TimerInvariance, <1>1, PTL

(* A null timer is dereferenced only when somebody cancels or has          *)
(* cancelled a timer.                                                      *)
THEOREM NoCrashWithoutCancel == TimerSpec => []CrashNeedsCancel
<1>1. TimerInv => CrashNeedsCancel
      BY DEF TimerInv
<1> QED BY TimerInvariance, <1>1, PTL
===============================================================================

------------------------- MODULE DetachedLoggerProofs -------------------------
(***************************************************************************)
(* Proofs about the detached sink, for every set of threads and entries    *)
(* and every number of log_event calls: its safety invariants, and that it *)
(* implements LogQueue.                                                    *)
(***************************************************************************)
EXTENDS DetachedLogger, TLAPS

(* The m_stop flag, the owner's program counter and hold on the mutex, the *)
(* threads inside log_event and the handler's exit move together.          *)
Lifetime ==
    /\ mutex = "owner" <=> dpc = "constructing"
    /\ stop <=> dpc \in {"notify", "join", "gone"}
    /\ \A l \in Loggers : pending[l] # NoEntry => dpc = "live"
    /\ hpc = "exited" => stop
    /\ dpc = "gone" => hpc = "exited"

(* The handler owns the mutex exactly where it touches the queue, and it   *)
(* sleeps only where it has released it.                                   *)
HandlerOwnsQueue ==
    /\ (mutex = "handler") <=> hpc \in {"look", "recheck"}
    /\ asleep => hpc = "waiting"

(* Once m_stop is up, the entry printed after it leads to the test of      *)
(* m_stop, which the handler does not pass again.                          *)
LastEntry ==
    stop => \/ Len(written) = atStop
            \/ Len(written) = atStop + 1 /\ hpc \in {"test", "exited"}

(* The inductive invariant. *)
IInv == /\ TypeOK /\ InOrderOnce /\ HandlerOwnsQueue /\ NoSleepOverWork
        /\ Lifetime /\ LastEntry

(* The sink starts in the invariant. *)
LEMMA InitIInv == Init => IInv
<1> SUFFICES ASSUME Init PROVE IInv
    OBVIOUS
<1> USE DEF Init
<1>1. TypeOK
  <2>1. << >> \in Seq(Entries)
        OBVIOUS
  <2>2. pending \in [Loggers -> Entries \cup {NoEntry}]
        OBVIOUS
  <2> QED BY <2>1, <2>2 DEF TypeOK
<1>2. InOrderOnce
  <2>1. queue = <<>> /\ accepted = <<>> /\ written = <<>>
        OBVIOUS
  <2>2. << >> \o << >> = << >>
        OBVIOUS
  <2> QED BY <2>1, <2>2 DEF InOrderOnce
<1>3. HandlerOwnsQueue /\ NoSleepOverWork
      BY OwnersAssumption DEF HandlerOwnsQueue, NoSleepOverWork
<1>4. Lifetime /\ LastEntry
      BY OwnersAssumption DEF Lifetime, LastEntry
<1> QED BY <1>1, <1>2, <1>3, <1>4 DEF IInv

(* Every step of a thread keeps the invariant. *)
LEMMA NextIInv == IInv /\ [Next]_vars => IInv'
<1> USE OwnersAssumption, NoEntryAssumption
<1> SUFFICES ASSUME IInv, [Next]_vars PROVE IInv'
    OBVIOUS
<1> USE DEF IInv, TypeOK, InOrderOnce, HandlerOwnsQueue, NoSleepOverWork,
            Lifetime, LastEntry, history
<1>1. CASE HandlerTest
      BY <1>1 DEF HandlerTest
<1>2. CASE HandlerLock
      BY <1>2 DEF HandlerLock
<1>3. CASE HandlerWait
      BY <1>3 DEF HandlerWait
<1>4. CASE HandlerRecheck
      BY <1>4 DEF HandlerRecheck
<1>5. CASE HandlerPrint
      BY <1>5, SMTT(30) DEF HandlerPrint
<1>6. CASE SpuriousWake
      BY <1>6 DEF SpuriousWake
<1>7. CASE Constructed
      BY <1>7 DEF Constructed
<1>8. CASE Destroy
  <2>1. Len(written) \in Nat
        OBVIOUS
  <2>2. (TypeOK /\ InOrderOnce /\ HandlerOwnsQueue /\ NoSleepOverWork)'
        BY <1>8, <2>1 DEF Destroy
  <2>3. Lifetime'
        BY <1>8 DEF Destroy
  <2>4. LastEntry'
        BY <1>8, <2>1 DEF Destroy
  <2> HIDE DEF TypeOK, InOrderOnce, HandlerOwnsQueue, NoSleepOverWork, Lifetime, LastEntry
  <2> QED BY <2>2, <2>3, <2>4 DEF IInv
<1>9. CASE DestroyNotify
      BY <1>9 DEF DestroyNotify
<1>10. CASE DestroyJoin
      BY <1>10 DEF DestroyJoin
<1>11. ASSUME NEW l \in Loggers, Push(l) PROVE IInv'
  <2>1. PICK e \in Entries : e = pending[l]
        BY <1>11 DEF Push
  <2>2. queue' = Append(queue, e) /\ accepted' = Append(accepted, e)
        BY <1>11, <2>1 DEF Push
  <2>3. Append(accepted, e) = written \o Append(queue, e)
    <3>1. written \in Seq(Entries) /\ queue \in Seq(Entries)
          OBVIOUS
    <3> HIDE DEF IInv, TypeOK, InOrderOnce, Lifetime, LastEntry
    <3>2. Append(written \o queue, e) = written \o Append(queue, e)
          BY <3>1, <2>1
    <3> QED BY <3>2 DEF IInv, InOrderOnce
  <2>4. InOrderOnce'
        BY <1>11, <2>2, <2>3 DEF Push
  <2>5. queue' \in Seq(Entries) /\ accepted' \in Seq(Entries)
        BY <2>1, <2>2
  <2> HIDE DEF InOrderOnce
  <2>6. TypeOK'
        BY <1>11, <2>5 DEF Push
  <2>7. (HandlerOwnsQueue /\ NoSleepOverWork /\ Lifetime /\ LastEntry)'
        BY <1>11 DEF Push
  <2> QED BY <2>4, <2>6, <2>7
<1>12. ASSUME NEW l \in Loggers, NEW e \in Entries, LogEvent(l, e) PROVE IInv'
      BY <1>12 DEF LogEvent
<1>13. CASE UNCHANGED vars
      BY <1>13 DEF vars
<1> QED BY <1>1, <1>2, <1>3, <1>4, <1>5, <1>6, <1>7, <1>8, <1>9, <1>10, <1>11,
           <1>12, <1>13 DEF Next, Handler, Owner, Idle

(* The invariant holds throughout. *)
THEOREM Invariance == Spec => []IInv
  BY InitIInv, NextIInv, PTL DEF Spec
-------------------------------------------------------------------------------
(* The variables of the sink keep their types.                             *)
THEOREM TypeCorrect == Spec => []TypeOK
<1>1. IInv => TypeOK
      BY DEF IInv
<1> QED BY Invariance, <1>1, PTL

(* No entry is lost, repeated or reordered between log_event and the       *)
(* handler's print, whatever the threads do.                               *)
THEOREM EntriesInOrderOnce == Spec => []InOrderOnce
<1>1. IInv => InOrderOnce
      BY DEF IInv
<1> QED BY Invariance, <1>1, PTL

(* The handler never sleeps while the queue has an entry to print.         *)
THEOREM NoLostEntryWakeup == Spec => []NoSleepOverWork
<1>1. IInv => NoSleepOverWork
      BY DEF IInv
<1> QED BY Invariance, <1>1, PTL

(* After m_stop is raised at most one more entry is printed.               *)
THEOREM StopAfterOneMore == Spec => []OneMoreAtMost
<1>1. IInv => OneMoreAtMost
      BY DEF IInv, LastEntry, OneMoreAtMost, TypeOK
<1> QED BY Invariance, <1>1, PTL

-------------------------------------------------------------------------------
(* Printing the head of the queue is writing the next accepted entry.      *)
LEMMA PrintIsWrite == IInv /\ HandlerPrint => Queue!Write
<1> SUFFICES ASSUME IInv, HandlerPrint PROVE Queue!Write
    OBVIOUS
<1>1. /\ written \in Seq(Entries) /\ queue \in Seq(Entries)
      /\ accepted = written \o queue /\ queue # <<>>
      BY DEF IInv, TypeOK, InOrderOnce, HandlerPrint
<1>2. Len(written) < Len(accepted) /\ accepted[Len(written) + 1] = Head(queue)
      BY <1>1
<1>3. dpc # "gone"
      BY DEF IInv, Lifetime, HandlerPrint
<1>4. phase # "closed" /\ phase' = phase
      BY <1>3 DEF HandlerPrint, phase, IInv, TypeOK
<1> QED BY <1>2, <1>4 DEF HandlerPrint, Queue!Write

(* Every step of the sink is a step of LogQueue or leaves it unchanged.    *)
LEMMA StepRefines == IInv /\ [Next]_vars => [Queue!Next]_Queue!qvars
<1> SUFFICES ASSUME IInv, [Next]_vars PROVE [Queue!Next]_Queue!qvars
    OBVIOUS
<1> USE DEF Queue!qvars, history
<1>1. CASE HandlerPrint
      BY <1>1, PrintIsWrite DEF Queue!Next
<1>2. ASSUME NEW l \in Loggers, Push(l) PROVE Queue!Next
  <2>1. dpc = "live" /\ pending[l] \in Entries
        BY <1>2 DEF Push, IInv, Lifetime, TypeOK
  <2>2. phase = "open" /\ phase' = phase
        BY <1>2, <2>1 DEF Push, phase
  <2>3. Queue!Accept(pending[l])
        BY <1>2, <2>2 DEF Push, Queue!Accept
  <2> QED BY <2>1, <2>3 DEF Queue!Next
<1>3. CASE Destroy
      BY <1>3 DEF Destroy, phase, Queue!Next, Queue!Stop
<1>4. CASE DestroyJoin
      BY <1>4 DEF DestroyJoin, phase, Queue!Next, Queue!Closed
<1>5. CASE Constructed
      BY <1>5 DEF Constructed, phase
<1>6. CASE DestroyNotify
      BY <1>6 DEF DestroyNotify, phase
<1>7. CASE HandlerTest \/ HandlerLock \/ HandlerWait \/ HandlerRecheck \/ SpuriousWake
      BY <1>7 DEF HandlerTest, HandlerLock, HandlerWait, HandlerRecheck, SpuriousWake, phase
<1>8. ASSUME NEW l \in Loggers, NEW e \in Entries, LogEvent(l, e) PROVE UNCHANGED Queue!qvars
      BY <1>8 DEF LogEvent, phase
<1>9. CASE UNCHANGED vars
      BY <1>9 DEF vars, phase
<1> QED BY <1>1, <1>2, <1>3, <1>4, <1>5, <1>6, <1>7, <1>8, <1>9 DEF Next, Handler, Owner, Idle

(* The sink keeps the promise of LogQueue.                                 *)
THEOREM Refinement == Spec => QueueSpec
<1>1. Init => Queue!Init
      BY DEF Init, Queue!Init, phase
<1> QED BY <1>1, Invariance, StepRefines, PTL DEF Spec, QueueSpec, Queue!Spec
===============================================================================

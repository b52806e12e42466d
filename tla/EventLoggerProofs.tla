-------------------------- MODULE EventLoggerProofs --------------------------
(***************************************************************************)
(* Proofs about the logging facade, for any number of threads, sinks and   *)
(* calls. Everything rests on one fact: the thread that is inside of       *)
(* log_event owns g_mutex (Exclusive). From it follow that the static      *)
(* buffer still holds the owner's text when the entry is made of it        *)
(* (Intact), that an entry is newer than what its sinks have of the same   *)
(* caller (Newer), and that only the owner is between two sinks (Even).    *)
(***************************************************************************)
EXTENDS EventLogger, SequenceTheorems, TLAPS

Inside(t) == pc[t] \in {"format", "create", "publish"}

ThreadTypes ==
    /\ g_mutex \in Callers \cup {None} /\ logMsg \in Event \cup {NoEvent}
    /\ pc \in [Callers -> Places]
    /\ event \in [Callers -> Event \cup {NoEvent}] /\ entry \in [Callers -> Event \cup {NoEvent}]
    /\ calls \in [Callers -> 0..MaxEvents]
GlobalTypes ==
    /\ g_initialized \in BOOLEAN /\ g_log_level \in Nat
    /\ g_loggers \in {0, NbrOfSinks} /\ g_filters = {} /\ started \in BOOLEAN
    /\ process \in {"running", "exit", "gone"}
SinkTypes ==
    /\ published \in [Callers -> Sinks \cup {0}] /\ consumed \in [Sinks -> Seq(Event)]

(* A caller has an event, and one inside has the lock and open sinks.      *)
HasEvent  == \A t \in Callers : pc[t] \in {"wants", "format", "create", "publish", "panic", "exit"} => event[t] \in Event
Exclusive == \A t \in Callers : (Inside(t) \/ pc[t] \in {"deinit", "panic", "exit"}) => g_mutex = t
Open      == \A t \in Callers : Inside(t) => g_loggers = NbrOfSinks

(* The owner's text is in the buffer, then in its entry.                   *)
Intact == \A t \in Callers : /\ pc[t] = "create" => logMsg = event[t]
                             /\ pc[t] = "publish" => entry[t] = event[t]

(* A call has the number of its caller's last call, but for the destructor *)
(* of a prototype, which waits for the lock that its own thread has.       *)
Numbered == \A t \in Callers :
    (pc[t] \in {"format", "create", "publish"} \/ (pc[t] = "wants" /\ g_mutex # t)) =>
        event[t].n = calls[t] /\ event[t].from = t

(* What a sink has of a caller is older than what it may still be given.   *)
Pending(t, s) ==
    \/ pc[t] \in {"format", "create"} \/ (pc[t] = "wants" /\ g_mutex # t)
    \/ pc[t] = "publish" /\ published[t] < s
Newer == \A s \in Sinks, t \in Callers : \A i \in DOMAIN consumed[s] :
    consumed[s][i].from = t =>
        consumed[s][i].n <= calls[t] /\ (Pending(t, s) => consumed[s][i].n < calls[t])

Ordered == \A s \in Sinks : \A i, j \in DOMAIN consumed[s] :
    (i < j /\ consumed[s][i].from = consumed[s][j].from) => consumed[s][i].n < consumed[s][j].n

(* Sinks have the same, but for the entry that is being published.         *)
Even == \A i, j \in Sinks :
    /\ (\A t \in Callers : pc[t] # "publish") => consumed[i] = consumed[j]
    /\ \A t \in Callers : pc[t] = "publish" =>
         /\ ((i <= published[t]) <=> (j <= published[t])) => consumed[i] = consumed[j]
         /\ (i <= published[t] /\ published[t] < j) => consumed[i] = Append(consumed[j], entry[t])

Locked == ThreadTypes /\ GlobalTypes /\ HasEvent /\ Exclusive /\ Open
Texts  == SinkTypes /\ Intact /\ Numbered
IInv   == Locked /\ Texts /\ Newer /\ Ordered /\ Even /\ interrupted \in Callers \cup {None}
-------------------------------------------------------------------------------
(* What is in a record of Event, for use with Event itself hidden.         *)
LEMMA EventParts ==
    /\ \A e \in Event : e.from \in Callers /\ e.n \in Nat /\ e.level \in Nat
    /\ \A t \in Callers, n \in Nat, l \in Nat, d \in Domains :
         [from |-> t, n |-> n, level |-> l, domain |-> d] \in Event
  BY DEF Event

LEMMA InitInv == Init => IInv
  <1>. SUFFICES ASSUME Init PROVE IInv
    OBVIOUS
  <1>1. Locked
    <2>1. ThreadTypes
      BY ThreadAssumption, LevelAssumption DEF Init, ThreadTypes, Callers, Places
    <2>2. GlobalTypes
      BY DEF Init, GlobalTypes
    <2>3. HasEvent /\ Exclusive /\ Open
      BY DEF Init, HasEvent, Exclusive, Open, Inside
    <2>. QED
      BY <2>1, <2>2, <2>3 DEF Locked
  <1>2. Texts
    BY ThreadAssumption, SinkAssumption DEF Init, Texts, SinkTypes, Intact, Numbered, Callers, Sinks
  <1>3. \A s \in Sinks : consumed[s] = << >>
    BY DEF Init
  <1>4. Newer /\ Ordered /\ Even
    <2>1. \A s \in Sinks : DOMAIN consumed[s] = {}
      BY <1>3
    <2>2. \A t \in Callers : pc[t] # "publish"
      BY DEF Init
    <2>. QED
      BY <1>3, <2>1, <2>2 DEF Newer, Ordered, Even
  <1>. QED
    BY <1>1, <1>2, <1>4 DEF IInv, Init

(* A step of the state machine is one of these.                            *)
LEMMA StepCases ==
  ASSUME [Next]_vars
  PROVE  \/ LoggerInit \/ LoggerDeinit
         \/ \E t \in Callers, level \in Levels \cup {Panic}, domain \in Domains : Call(t, level, domain)
         \/ \E t \in Callers : Logs(t)
         \/ Interrupt
         \/ UNCHANGED vars
  BY DEF Next, Calls, GoesOn, Over

(* The lock, the sinks that are open and the arguments of calls.           *)
LEMMA LockedKept ==
  ASSUME Locked, [Next]_vars
  PROVE  Locked'
  <1>. USE ThreadAssumption, LevelAssumption, SinkAssumption
       DEF Locked, ThreadTypes, GlobalTypes, HasEvent, Exclusive, Open, Inside, Callers, Goto, globals,
           Places
  <1>1. CASE LoggerInit
    BY <1>1 DEF LoggerInit
  <1>2. CASE LoggerDeinit
    <2>1. ThreadTypes'
      BY <1>2 DEF LoggerDeinit
    <2>2. GlobalTypes'
      <3>1. UNCHANGED <<g_initialized, g_loggers, g_filters, started, process>> /\ g_log_level' \in Nat
        BY <1>2 DEF LoggerDeinit
      <3>. QED
        BY <3>1
    <2>3. (HasEvent /\ Exclusive /\ Open)'
      BY <1>2 DEF LoggerDeinit
    <2>. QED
      BY <2>1, <2>2, <2>3
  <1>3. ASSUME NEW t \in Callers, NEW level \in Levels \cup {Panic}, NEW domain \in Domains,
               Call(t, level, domain)
        PROVE  Locked'
    <2>1. calls[t] + 1 \in 0..MaxEvents /\ calls'[t] = calls[t] + 1
      BY <1>3 DEF Call
    <2>2. level \in Nat
      BY DEF Panic
    <2>3. [from |-> t, n |-> calls'[t], level |-> level, domain |-> domain] \in Event
      BY <2>1, <2>2 DEF Event
    <2>. QED
      BY <1>3, <2>1, <2>3 DEF Call
  <1>4. ASSUME NEW t \in Callers, Enter(t) PROVE Locked'
    BY <1>4 DEF Enter, Dropped
  <1>5. ASSUME NEW t \in Callers, Format(t) PROVE Locked'
    BY <1>5 DEF Format
  <1>6. ASSUME NEW t \in Callers, Create(t) PROVE Locked'
    BY <1>6 DEF Create
  <1>7. ASSUME NEW t \in Callers, Publish(t) PROVE Locked'
    BY <1>7 DEF Publish
  <1>8. ASSUME NEW t \in Callers, Leave(t) PROVE Locked'
    BY <1>8 DEF Leave
  <1>9. ASSUME NEW t \in Callers, DestructorLogs(t) PROVE Locked'
    <2>. PICK d \in Domains : event' = [event EXCEPT ![t] = [from |-> t, n |-> 0, level |-> 4, domain |-> d]]
      BY <1>9 DEF DestructorLogs
    <2>1. [from |-> t, n |-> 0, level |-> 4, domain |-> d] \in Event
      BY EventParts
    <2>. QED
      BY <1>9, <2>1 DEF DestructorLogs
  <1>10. ASSUME NEW t \in Callers, Gone(t) PROVE Locked'
    BY <1>10 DEF Gone
  <1>11. CASE UNCHANGED vars
    BY <1>11 DEF vars
  <1>12. CASE DeinitEnds
    <2>1. Main \in Callers /\ g_mutex = Main
      BY <1>12 DEF DeinitEnds
    <2>2. \A t \in Callers : ~Inside(t)
      BY <1>12, <2>1 DEF DeinitEnds
    <2>3. ThreadTypes' /\ GlobalTypes'
      BY <1>12, <2>1 DEF DeinitEnds
    <2>4. (HasEvent /\ Exclusive /\ Open)'
      BY <1>12, <2>1, <2>2 DEF DeinitEnds
    <2>. QED
      BY <2>3, <2>4
  <1>13. ASSUME NEW t \in Callers, PanicExits(t) PROVE Locked'
    BY <1>13 DEF PanicExits
  <1>14. ASSUME NEW t \in Callers, SinkKeeps(t) PROVE Locked'
    BY <1>14 DEF SinkKeeps
  <1>15. CASE Interrupt
    BY <1>15 DEF Interrupt
  <1>. QED
    BY <1>1, <1>2, <1>3, <1>4, <1>5, <1>6, <1>7, <1>8, <1>9, <1>10, <1>11, <1>12, <1>13, <1>14,
       <1>15, StepCases DEF Logs

(* The texts of entries and the numbers of calls: who formats or makes an  *)
(* entry owns the lock, so nobody else writes the buffer.                  *)
LEMMA TextsKept ==
  ASSUME Locked, Texts, [Next]_vars
  PROVE  Texts'
  <1>. USE ThreadAssumption, SinkAssumption
       DEF Locked, ThreadTypes, GlobalTypes, HasEvent, Exclusive, Open, Inside,
           Texts, SinkTypes, Intact, Numbered, Callers, Sinks, Goto, globals, Places
  <1>1. CASE LoggerInit
    BY <1>1 DEF LoggerInit
  <1>2. CASE LoggerDeinit
    BY <1>2 DEF LoggerDeinit
  <1>3. ASSUME NEW t \in Callers, NEW level \in Levels \cup {Panic}, NEW domain \in Domains,
               Call(t, level, domain)
        PROVE  Texts'
    <2>1. event'[t].from = t /\ event'[t].n = calls'[t]
      BY <1>3 DEF Call
    <2>. QED
      BY <1>3, <2>1 DEF Call
  <1>4. ASSUME NEW t \in Callers, Enter(t) PROVE Texts'
    BY <1>4 DEF Enter
  <1>5. ASSUME NEW t \in Callers, Format(t) PROVE Texts'
    BY <1>5 DEF Format
  <1>6. ASSUME NEW t \in Callers, Create(t) PROVE Texts'
    BY <1>6 DEF Create
  <1>7. ASSUME NEW t \in Callers, Publish(t) PROVE Texts'
    <2>1. published[t] + 1 \in Sinks /\ entry[t] \in Event
      <3>1. pc[t] = "publish" /\ published[t] < g_loggers /\ published[t] \in Sinks \cup {0}
        BY <1>7 DEF Publish
      <3>2. g_loggers = NbrOfSinks /\ entry[t] = event[t] /\ event[t] \in Event
        BY <3>1
      <3>. QED
        BY <3>1, <3>2
    <2>2. Append(consumed[published[t] + 1], entry[t]) \in Seq(Event)
      BY <2>1, AppendProperties
    <2>. QED
      BY <1>7, <2>1, <2>2 DEF Publish
  <1>8. ASSUME NEW t \in Callers, Leave(t) PROVE Texts'
    BY <1>8 DEF Leave
  <1>9. ASSUME NEW t \in Callers, DestructorLogs(t) PROVE Texts'
    BY <1>9 DEF DestructorLogs
  <1>10. ASSUME NEW t \in Callers, Gone(t) PROVE Texts'
    BY <1>10 DEF Gone
  <1>11. CASE UNCHANGED vars
    BY <1>11 DEF vars
  <1>12. CASE DeinitEnds
    BY <1>12 DEF DeinitEnds
  <1>13. ASSUME NEW t \in Callers, PanicExits(t) PROVE Texts'
    BY <1>13 DEF PanicExits
  <1>14. ASSUME NEW t \in Callers, SinkKeeps(t) PROVE Texts'
    BY <1>14 DEF SinkKeeps
  <1>15. CASE Interrupt
    BY <1>15 DEF Interrupt
  <1>. QED
    BY <1>1, <1>2, <1>3, <1>4, <1>5, <1>6, <1>7, <1>8, <1>9, <1>10, <1>11, <1>12, <1>13, <1>14,
       <1>15, StepCases DEF Logs

(* A sink that gets the entry of a thread, seen from outside.              *)
LEMMA GivesEntry ==
  ASSUME Locked, Texts, NEW t \in Callers, Publish(t)
  PROVE  LET s == published[t] + 1
         IN  /\ s \in Sinks /\ published' = [published EXCEPT ![t] = s]
             /\ consumed' = [consumed EXCEPT ![s] = Append(consumed[s], entry[t])]
             /\ consumed[s] \in Seq(Event) /\ entry[t] \in Event /\ entry[t] = event[t]
             /\ entry[t].from = t /\ entry[t].n = calls[t]
             /\ pc[t] = "publish" /\ UNCHANGED <<pc, calls, g_mutex, entry, event>>
  <1>1. pc[t] = "publish" /\ published[t] < g_loggers /\ UNCHANGED <<pc, calls, g_mutex, entry, event>>
        /\ published' = [published EXCEPT ![t] = published[t] + 1]
        /\ consumed' = [consumed EXCEPT ![published'[t]] = Append(@, entry[t])]
    BY DEF Publish
  <1>2. published \in [Callers -> Sinks \cup {0}] /\ consumed \in [Sinks -> Seq(Event)]
    BY DEF Texts, SinkTypes
  <1>3. g_loggers = NbrOfSinks /\ entry[t] = event[t] /\ event[t] \in Event /\ event[t].n = calls[t] /\ event[t].from = t
    BY <1>1 DEF Locked, HasEvent, Open, Inside, Texts, Intact, Numbered
  <1>4. published[t] + 1 \in Sinks /\ published'[t] = published[t] + 1
    BY <1>1, <1>2, <1>3, SinkAssumption DEF Sinks
  <1>. QED
    BY <1>1, <1>2, <1>3, <1>4

(* All but Publish leave the sinks alone, and do not let a caller give a   *)
(* sink the same entry again.                                              *)
LEMMA NothingGiven ==
  ASSUME Locked, Texts, [Next]_vars, ~ \E t \in Callers : Publish(t)
  PROVE  /\ consumed' = consumed
         /\ \A t \in Callers : /\ calls'[t] \in Nat /\ calls[t] \in Nat /\ calls[t] <= calls'[t]
                               /\ \A s \in Sinks : Pending(t, s)' => Pending(t, s) \/ calls[t] < calls'[t]
  <1>. USE ThreadAssumption, SinkAssumption, LevelAssumption
       DEF Locked, ThreadTypes, GlobalTypes, HasEvent, Exclusive, Open, Inside,
           Texts, SinkTypes, Intact, Numbered, Callers, Sinks, Goto, globals, Pending, Places
  <1>. DEFINE Same == /\ consumed' = consumed
                      /\ \A t \in Callers : /\ calls'[t] \in Nat /\ calls[t] \in Nat /\ calls[t] <= calls'[t]
                                            /\ \A s \in Sinks : Pending(t, s)' => Pending(t, s) \/ calls[t] < calls'[t]
  <1>1. CASE LoggerInit
    BY <1>1 DEF LoggerInit
  <1>2. CASE LoggerDeinit
    BY <1>2 DEF LoggerDeinit
  <1>3. ASSUME NEW t \in Callers, NEW level \in Levels \cup {Panic}, NEW domain \in Domains,
               Call(t, level, domain)
        PROVE  Same
    BY <1>3 DEF Call
  <1>4. ASSUME NEW t \in Callers, Enter(t) PROVE Same
    BY <1>4 DEF Enter
  <1>5. ASSUME NEW t \in Callers, Format(t) PROVE Same
    BY <1>5 DEF Format
  <1>6. ASSUME NEW t \in Callers, Create(t) PROVE Same
    BY <1>6 DEF Create
  <1>7. ASSUME NEW t \in Callers, Leave(t) PROVE Same
    BY <1>7 DEF Leave
  <1>8. ASSUME NEW t \in Callers, DestructorLogs(t) PROVE Same
    BY <1>8 DEF DestructorLogs
  <1>9. ASSUME NEW t \in Callers, Gone(t) PROVE Same
    BY <1>9 DEF Gone
  <1>10. CASE UNCHANGED vars
    BY <1>10 DEF vars
  <1>11. CASE DeinitEnds
    BY <1>11 DEF DeinitEnds
  <1>12. ASSUME NEW t \in Callers, PanicExits(t) PROVE Same
    BY <1>12 DEF PanicExits
  <1>13. ASSUME NEW t \in Callers, SinkKeeps(t) PROVE Same
    BY <1>13 DEF SinkKeeps
  <1>14. CASE Interrupt
    BY <1>14 DEF Interrupt
  <1>. QED
    BY <1>1, <1>2, <1>3, <1>4, <1>5, <1>6, <1>7, <1>8, <1>9, <1>10, <1>11, <1>12, <1>13, <1>14,
       StepCases DEF Logs

(* An entry is newer than what its sink has of the same caller.            *)
LEMMA OrderKept ==
  ASSUME Locked, Texts, Newer, Ordered, [Next]_vars
  PROVE  (Newer /\ Ordered)'
  <1>1. CASE ~ \E t \in Callers : Publish(t)
    <2>1. \A s \in Sinks : \A i \in DOMAIN consumed[s] : consumed[s][i].from \in Callers /\ consumed[s][i].n \in Nat
      <3>. SUFFICES ASSUME NEW s \in Sinks, NEW i \in DOMAIN consumed[s] PROVE consumed[s][i] \in Event
        BY EventParts
      <3>. QED
        BY ElementOfSeq, LenProperties DEF Texts, SinkTypes
    <2>2. Ordered'
      BY <1>1, NothingGiven DEF Ordered
    <2>3. Newer'
      BY <1>1, <2>1, NothingGiven DEF Newer
    <2>. QED
      BY <2>2, <2>3
  <1>2. ASSUME NEW t \in Callers, Publish(t) PROVE (Newer /\ Ordered)'
    <2>. DEFINE s == published[t] + 1 old == consumed[s] e == entry[t]
    <2>1. /\ s \in Sinks /\ published' = [published EXCEPT ![t] = s]
          /\ consumed' = [consumed EXCEPT ![s] = Append(old, e)]
          /\ old \in Seq(Event) /\ e \in Event /\ e.from = t /\ e.n = calls[t]
          /\ pc[t] = "publish" /\ UNCHANGED <<pc, calls, g_mutex, entry>>
      BY <1>2, GivesEntry
    <2>2. published \in [Callers -> Sinks \cup {0}] /\ consumed \in [Sinks -> Seq(Event)] /\ calls[t] \in Nat
          /\ \A r \in Sinks : r \in Nat
      BY LevelAssumption DEF Texts, SinkTypes, Locked, ThreadTypes, Sinks
    <2>3. DOMAIN Append(old, e) = 1 .. Len(old) + 1 /\ DOMAIN old = 1 .. Len(old) /\ Len(old) \in Nat
          /\ \A i \in DOMAIN old : Append(old, e)[i] = old[i]
          /\ Append(old, e)[Len(old) + 1] = e
      BY <2>1, AppendProperties, LenProperties
    <2>4. \A i \in DOMAIN old : old[i].from = t => old[i].n < calls[t]
      <3>1. Pending(t, s)
        BY <2>1, <2>2, SMTT(30) DEF Pending
      <3>. QED
        BY <2>1, <3>1 DEF Newer
    <2>5. \A i \in DOMAIN old : old[i] \in Event /\ old[i].n \in Nat
      BY <2>1, <2>3, ElementOfSeq, EventParts
    <2>6. \A r \in Sinks : consumed'[r] = IF r = s THEN Append(old, e) ELSE consumed[r]
      BY <2>1, <2>2
    <2>. HIDE DEF s, old, e
    <2>7. Ordered'
      <3>. SUFFICES ASSUME NEW r \in Sinks, NEW i \in DOMAIN consumed'[r], NEW j \in DOMAIN consumed'[r],
                           i < j, consumed'[r][i].from = consumed'[r][j].from
                    PROVE  consumed'[r][i].n < consumed'[r][j].n
        BY DEF Ordered
      <3>1. CASE r # s
        BY <2>6, <3>1 DEF Ordered
      <3>2. CASE r = s
        <4>1. consumed'[r] = Append(old, e) /\ i \in 1 .. Len(old) + 1 /\ j \in 1 .. Len(old) + 1
          BY <2>3, <2>6, <3>2
        <4>2. i \in DOMAIN old
          BY <2>3, <4>1
        <4>3. CASE j = Len(old) + 1
          BY <2>1, <2>3, <2>4, <4>1, <4>2, <4>3
        <4>4. CASE j \in DOMAIN old
          <5>1. old = consumed[s]
            BY DEF old
          <5>. QED
            BY <2>1, <2>3, <4>1, <4>2, <4>4, <5>1, SMTT(30) DEF Ordered
        <4>. QED
          BY <2>3, <4>1, <4>3, <4>4
      <3>. QED
        BY <3>1, <3>2
    <2>8. Newer'
      <3>. SUFFICES ASSUME NEW r \in Sinks, NEW u \in Callers, NEW i \in DOMAIN consumed'[r],
                           consumed'[r][i].from = u
                    PROVE  /\ consumed'[r][i].n <= calls[u]
                           /\ Pending(u, r)' => consumed'[r][i].n < calls[u]
        BY <2>1 DEF Newer
      <3>0. old = consumed[s] /\ s = published[t] + 1
        BY DEF old, s
      <3>1. CASE r = s /\ i = Len(old) + 1
        <4>0. consumed'[r] = Append(old, e)
          BY <2>6, <3>1
        <4>1. consumed'[r][i] = e
          BY <2>3, <3>1, <4>0
        <4>2. ~Pending(t, r)'
          BY <2>1, <2>2, <3>1 DEF Pending
        <4>. QED
          BY <2>1, <2>2, <4>1, <4>2
      <3>2. CASE ~(r = s /\ i = Len(old) + 1)
        <4>1. i \in DOMAIN consumed[r] /\ consumed'[r][i] = consumed[r][i]
          <5>1. CASE r # s
            BY <2>6, <5>1
          <5>2. CASE r = s
            <6>1. consumed'[r] = Append(old, e)
              BY <2>6, <5>2
            <6>2. i \in DOMAIN old
              BY <2>3, <3>2, <5>2, <6>1
            <6>. QED
              BY <2>3, <3>0, <5>2, <6>1, <6>2
          <5>. QED
            BY <5>1, <5>2
        <4>2. Pending(u, r)' => Pending(u, r)
          <5>1. CASE u = t
            <6>1. published[t] < published'[t] /\ published[t] \in Nat /\ published'[t] \in Nat /\ r \in Nat
              BY <2>1, <2>2, <3>0
            <6>. QED
              BY <2>1, <5>1, <6>1 DEF Pending
          <5>2. CASE u # t
            BY <2>1, <2>2, <5>2 DEF Pending
          <5>. QED
            BY <5>1, <5>2
        <4>. QED
          BY <4>1, <4>2 DEF Newer
      <3>. QED
        BY <3>1, <3>2
    <2>. QED
      BY <2>7, <2>8
  <1>. QED
    BY <1>1, <1>2

(* The sinks stay even: only the owner of the lock is between two sinks,   *)
(* and it leaves when each of them has the entry.                          *)
LEMMA EvenKept ==
  ASSUME Locked, Texts, Even, [Next]_vars
  PROVE  Even'
  <1>1. \A t, u \in Callers : Inside(t) /\ Inside(u) => t = u
    BY DEF Locked, Exclusive
  <1>2. published \in [Callers -> Sinks \cup {0}] /\ pc \in [Callers -> Places]
        /\ \A i \in Sinks : i \in 1..NbrOfSinks /\ i \in Nat
    BY SinkAssumption DEF Locked, ThreadTypes, Texts, SinkTypes, Sinks
  <1>3. ASSUME \A t \in Callers : (pc'[t] = "publish") <=> (pc[t] = "publish"),
               UNCHANGED <<consumed, published, entry>>
        PROVE  Even'
    BY <1>3 DEF Even
  <1>4. CASE LoggerInit
    BY <1>2, <1>3, <1>4 DEF LoggerInit, Goto
  <1>5. CASE LoggerDeinit
    BY <1>2, <1>3, <1>5 DEF LoggerDeinit, Goto
  <1>6. ASSUME NEW t \in Callers, NEW level \in Levels \cup {Panic}, NEW domain \in Domains,
               Call(t, level, domain)
        PROVE  Even'
    BY <1>2, <1>3, <1>6 DEF Call, Goto
  <1>7. ASSUME NEW t \in Callers, Enter(t) PROVE Even'
    BY <1>2, <1>3, <1>7 DEF Enter, Goto
  <1>8. ASSUME NEW t \in Callers, Format(t) PROVE Even'
    BY <1>2, <1>3, <1>8 DEF Format, Goto
  <1>9. ASSUME NEW t \in Callers, Create(t) PROVE Even'
    <2>1. pc[t] = "create" /\ pc' = [pc EXCEPT ![t] = "publish"] /\ published' = [published EXCEPT ![t] = 0]
          /\ consumed' = consumed
      BY <1>9 DEF Create, Goto
    <2>2. \A u \in Callers : pc[u] # "publish" /\ (pc'[u] = "publish" => u = t)
      BY <1>1, <1>2, <2>1 DEF Inside
    <2>3. \A i, j \in Sinks : consumed[i] = consumed[j]
      BY <2>2 DEF Even
    <2>4. published'[t] = 0 /\ \A i \in Sinks : ~(i <= 0)
      BY <1>2, <2>1
    <2>. QED
      BY <2>1, <2>2, <2>3, <2>4 DEF Even
  <1>10. ASSUME NEW t \in Callers, Publish(t) PROVE Even'
    <2>. DEFINE s == published[t] + 1
    <2>1. /\ s \in Sinks /\ published' = [published EXCEPT ![t] = s]
          /\ consumed' = [consumed EXCEPT ![s] = Append(consumed[s], entry[t])]
          /\ pc[t] = "publish" /\ UNCHANGED <<pc, entry>>
      BY <1>10, GivesEntry
    <2>2. \A u \in Callers : pc'[u] = "publish" <=> u = t
      BY <1>1, <2>1 DEF Inside
    <2>3. consumed \in [Sinks -> Seq(Event)]
      BY DEF Texts, SinkTypes
    <2>4. published[t] \in Nat /\ published'[t] = published[t] + 1
      BY <1>2, <2>1
    <2>5. \A i \in Sinks : consumed'[i] = IF i = published[t] + 1 THEN Append(consumed[i], entry[t]) ELSE consumed[i]
      BY <2>1, <2>3
    <2>. SUFFICES ASSUME NEW i \in Sinks, NEW j \in Sinks
                  PROVE  /\ ((i <= published'[t]) <=> (j <= published'[t])) => consumed'[i] = consumed'[j]
                         /\ (i <= published'[t] /\ published'[t] < j) => consumed'[i] = Append(consumed'[j], entry'[t])
      BY <2>2 DEF Even
    <2>6. /\ ((i <= published[t]) <=> (j <= published[t])) => consumed[i] = consumed[j]
          /\ (i <= published[t] /\ published[t] < j) => consumed[i] = Append(consumed[j], entry[t])
          /\ (j <= published[t] /\ published[t] < i) => consumed[j] = Append(consumed[i], entry[t])
      BY <2>1 DEF Even
    <2>7. i \in Nat /\ j \in Nat
      BY <1>2
    <2>8. CASE i = published[t] + 1
      <3>0. consumed'[i] = Append(consumed[i], entry[t]) /\ entry' = entry
        BY <2>1, <2>5, <2>8
      <3>1. ~(i <= published[t]) /\ i <= published'[t] /\ published[t] < i
        BY <2>4, <2>7, <2>8
      <3>2. CASE j <= published[t]
        <4>1. consumed'[j] = consumed[j] /\ ~(published'[t] < j)
          BY <2>4, <2>5, <2>7, <3>2
        <4>. QED
          BY <2>6, <3>0, <3>1, <3>2, <4>1
      <3>3. CASE j = i
        BY <2>4, <2>7, <2>8, <3>3
      <3>4. CASE published'[t] < j
        <4>1. consumed'[j] = consumed[j] /\ ~(j <= published'[t]) /\ ~(j <= published[t])
          BY <2>4, <2>5, <2>7, <3>4
        <4>. QED
          BY <2>6, <3>0, <3>1, <4>1
      <3>. QED
        BY <2>4, <2>7, <2>8, <3>2, <3>3, <3>4
    <2>9. CASE i # published[t] + 1 /\ j = published[t] + 1
      <3>0. consumed'[j] = Append(consumed[j], entry[t]) /\ consumed'[i] = consumed[i]
        BY <2>5, <2>9
      <3>1. ~(j <= published[t]) /\ j <= published'[t] /\ published[t] < j /\ ~(published'[t] < j)
        BY <2>4, <2>7, <2>9
      <3>2. i <= published'[t] => i <= published[t]
        BY <2>4, <2>7, <2>9
      <3>. QED
        BY <2>6, <3>0, <3>1, <3>2
    <2>10. CASE i # published[t] + 1 /\ j # published[t] + 1
      <3>1. consumed'[i] = consumed[i] /\ consumed'[j] = consumed[j] /\ entry' = entry
        BY <2>1, <2>5, <2>10
      <3>2. (i <= published'[t] <=> i <= published[t]) /\ (j <= published'[t] <=> j <= published[t])
            /\ (published'[t] < j <=> published[t] < j)
        BY <2>4, <2>7, <2>10
      <3>. QED
        BY <2>6, <3>1, <3>2
    <2>. QED
      BY <2>8, <2>9, <2>10
  <1>11. ASSUME NEW t \in Callers, Leave(t) PROVE Even'
    <2>1. pc[t] = "publish" /\ published[t] >= NbrOfSinks /\ pc'[t] # "publish" /\ consumed' = consumed
          /\ \A u \in Callers : u # t => pc'[u] = pc[u]
      BY <1>2, <1>11 DEF Leave, Goto, Locked, Open, Inside
    <2>2. \A u \in Callers : pc'[u] # "publish"
      BY <1>1, <2>1 DEF Inside
    <2>3. \A i \in Sinks : i <= published[t]
      BY <1>2, <2>1, SinkAssumption
    <2>4. \A i, j \in Sinks : consumed[i] = consumed[j]
      BY <2>1, <2>3 DEF Even
    <2>. QED
      BY <2>1, <2>2, <2>4 DEF Even
  <1>12. ASSUME NEW t \in Callers, DestructorLogs(t) PROVE Even'
    BY <1>2, <1>3, <1>12 DEF DestructorLogs, Goto
  <1>13. ASSUME NEW t \in Callers, Gone(t) PROVE Even'
    BY <1>3, <1>13 DEF Gone
  <1>14. CASE UNCHANGED vars
    BY <1>3, <1>14 DEF vars
  <1>15. CASE DeinitEnds
    BY <1>2, <1>3, <1>15 DEF DeinitEnds, Goto
  <1>16. ASSUME NEW t \in Callers, PanicExits(t) PROVE Even'
    BY <1>2, <1>3, <1>16 DEF PanicExits, Goto
  <1>17. ASSUME NEW t \in Callers, SinkKeeps(t) PROVE Even'
    BY <1>2, <1>3, <1>17 DEF SinkKeeps, Goto
  <1>18. CASE Interrupt
    BY <1>3, <1>18 DEF Interrupt
  <1>. QED
    BY <1>4, <1>5, <1>6, <1>7, <1>8, <1>9, <1>10, <1>11, <1>12, <1>13, <1>14, <1>15, <1>16, <1>17,
       <1>18, StepCases DEF Logs
-------------------------------------------------------------------------------
LEMMA Invariance == Spec => []IInv
  <1>1. IInv /\ [Next]_vars => IInv'
    <2>. SUFFICES ASSUME IInv, [Next]_vars PROVE IInv'
      OBVIOUS
    <2>1. interrupted' \in Callers \cup {None}
      BY DEF IInv, Locked, ThreadTypes, Next, Interrupt, GoesOn, Over, vars
    <2>. QED
      BY <2>1, LockedKept, TextsKept, OrderKept, EvenKept DEF IInv
  <1>. QED
    BY <1>1, InitInv, PTL DEF Spec

(* Variables have the types that their declarations in event_logger.cpp    *)
(* (24-32) and the calls give them.                                        *)
THEOREM TypeCorrect == Spec => []TypeOK
  <1>1. IInv => TypeOK
    BY DEF IInv, Locked, Texts, ThreadTypes, GlobalTypes, SinkTypes, TypeOK
  <1>. QED
    BY <1>1, Invariance, PTL

(* A text formatted into the shared buffer is the one that reaches the     *)
(* sinks, and a sink has the entries of a caller in the order of its       *)
(* calls, each once, however many threads log at once (event_logger.cpp    *)
(* 140-171).                                                               *)
THEOREM TextsStayIntact == Spec => []EntriesIntact
  <1>1. IInv => EntriesIntact
    BY DEF IInv, Texts, Intact, Ordered, EntriesIntact
  <1>. QED
    BY <1>1, Invariance, PTL

(* All sinks get the same entries in the same order, whatever threads log, *)
(* panic or close the sinks meanwhile: while one publishes, the sinks it   *)
(* has served are the entry ahead of the others (event_logger.cpp          *)
(* 142-171).                                                               *)
THEOREM SinksStayInStep == Spec => []SinksAgree
  <1>1. ASSUME IInv PROVE SinksAgree
    <2>. SUFFICES ASSUME NEW i \in Sinks, NEW j \in Sinks, i < j
                  PROVE  /\ Len(consumed[i]) - Len(consumed[j]) \in {0, 1}
                         /\ consumed[j] = SubSeq(consumed[i], 1, Len(consumed[j]))
                         /\ Len(consumed[i]) = Len(consumed[j]) \/ \E t \in Callers : pc[t] = "publish"
      BY DEF SinksAgree
    <2>1. consumed[i] \in Seq(Event) /\ consumed[j] \in Seq(Event)
      BY <1>1 DEF IInv, Texts, SinkTypes
    <2>2. consumed[j] = SubSeq(consumed[j], 1, Len(consumed[j])) /\ Len(consumed[j]) \in Nat
      BY <2>1, SubSeqFull, LenProperties
    <2>3. CASE consumed[i] = consumed[j]
      BY <2>2, <2>3
    <2>4. CASE consumed[i] # consumed[j]
      <3>1. PICK t \in Callers : pc[t] = "publish"
        BY <1>1, <2>4 DEF IInv, Even
      <3>2. entry[t] \in Event
        BY <1>1, <3>1 DEF IInv, Locked, HasEvent, Texts, Intact
      <3>3. i \in Nat /\ j \in Nat /\ published[t] \in Nat
        BY <1>1, SinkAssumption DEF IInv, Texts, SinkTypes, Sinks
      <3>4. i <= published[t] /\ published[t] < j
        BY <1>1, <2>4, <3>1, <3>3 DEF IInv, Even
      <3>5. consumed[i] = Append(consumed[j], entry[t])
        BY <1>1, <3>1, <3>4 DEF IInv, Even
      <3>6. Len(consumed[i]) = Len(consumed[j]) + 1
        BY <2>1, <3>2, <3>5, AppendProperties
      <3>7. SubSeq(consumed[i], 1, Len(consumed[j])) = consumed[j]
        BY <2>1, <2>2, <3>2, <3>5
      <3>. QED
        BY <2>2, <3>1, <3>6, <3>7
    <2>. QED
      BY <2>3, <2>4
  <1>. QED
    BY <1>1, Invariance, PTL
===============================================================================

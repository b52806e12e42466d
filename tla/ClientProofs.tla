----------------------------- MODULE ClientProofs -----------------------------
(***************************************************************************)
(* Proofs about the network client, for any number of refreshes, of        *)
(* connections and of servers, and for each way of setting it up.          *)
(***************************************************************************)
EXTENDS Client, TLAPS

(* Where a thread of each kind may be. *)
Calling       == {"refresh", "spawn", "assign"}
Disconnecting == {"socket", "use", "reset", "receiver"}
Joining       == {"join", "joining"}

LauncherPlaces ==
    {"init", "idle", "cancel", "joinable", "joinRefresh", "joiningRefresh", "stopped", "deleted"}
        \cup Calling \cup Disconnecting \cup Joining

RefreshPlaces ==
    {"none", "open", "receive", "auto", "autoUse", "connect", "dial", "dialled", "launch",
     "loop", "close", "return", "detach", "ended"} \cup Disconnecting \cup Joining

(* A receive thread joins nobody: it is the receive thread itself. *)
ReceivePlaces == {"none", "start", "endpoint", "test", "read", "ended"} \cup Disconnecting

Places == LauncherPlaces \cup RefreshPlaces \cup ReceivePlaces \cup {"wait"}

Placed ==
    /\ at \in [Threads -> Places]
    /\ at[Launcher] \in LauncherPlaces
    /\ at[Check] \in {"wait"} \cup Calling
    /\ \A r \in Refreshes : at[r] \in RefreshPlaces
    /\ \A c \in Conns : at[c] \in ReceivePlaces

(* serverCount stays below m_maxNbrOfServers while servers are awaited. *)
Counted ==
    \A r \in Refreshes : /\ at[r] \in {"none", "open"} => got[r] = 0
                         /\ at[r] = "receive" => got[r] < MaxNbrOfServers

(* A receive thread that runs is the one of m_recvData, *)
Received == \A c \in Conns : Running(c) => receiver = c

(* which at most one thread joins, *)
Joined ==
    /\ \A t \in Threads : at[t] = "joining" => receiver # None /\ target[t] = receiver
    /\ \A t, u \in Threads : at[t] = "joining" /\ at[u] = "joining" => t = u

(* and a refresh that connects has a connection of its own. *)
Dialled == \A r \in Refreshes : at[r] \in {"dialled", "launch"} => mine[r] \in Conns

(* The inductive invariant. *)
ClientInv == TypeOK /\ Placed /\ Counted /\ Received /\ Joined /\ Dialled

-------------------------------------------------------------------------------
(* A step that ends the process at most changes a one shot timer. *)
Stays ==
    /\ active' = active /\ io' = io /\ check' = check /\ sending' = sending
    /\ overlapped' = overlapped
    /\ at' = at /\ fresh' = fresh /\ target' = target
    /\ refresher' = refresher /\ detected' = detected /\ got' = got /\ shut' = shut
    /\ posting' = posting
    /\ socket' = socket /\ receiver' = receiver /\ mine' = mine /\ reads' = reads
    /\ open' = open /\ peer' = peer

Fates == {"running", "refresher overwritten", "receiver overwritten", "detached twice",
          "joined twice", "joinable thread destroyed", "dangling socket", "null socket",
          "no io context", "not connected", "no remote endpoint"}

Dying == oneShot' \in [Refreshes -> {"off", "armed", "done"}] /\ fate' \in Fates

(* The process ends by Dies, or in the handler of a one shot timer.        *)
Ends == (\E why \in Fates : Dies(why)) \/ (\E r \in Refreshes : OneShot(r))

LEMMA Fatal == ASSUME [Next]_vars, fate' # fate PROVE Ends
<1> USE DEF Ends, Fates, Moves, process
<1>1. ASSUME Start \/ CheckServers \/ SendTest \/ Stop \/ StopCheck \/ StopTest \/ StopJoined
    PROVE  Ends
      BY <1>1 DEF Start, CheckServers, SendTest, Stop, StopCheck, StopTest, StopJoined
<1>2. ASSUME NEW c \in Callers,
           RefreshTest(c) \/ RefreshSpawn(c)
    PROVE  Ends
      BY <1>2 DEF RefreshTest, Returns, RefreshSpawn
<1>3. ASSUME NEW r \in Refreshes,
           RefreshOpen(r) \/ RefreshReceive(r) \/ RefreshTimesOut(r) \/ RefreshAuto(r) \/
           RefreshLoop(r) \/ RefreshClose(r) \/ RefreshReturn(r) \/ Connect(r)
    PROVE  Ends
      BY <1>3 DEF RefreshOpen, RefreshReceive, HandleServerListUpdate, AfterPost,
             RefreshTimesOut, RefreshAuto, RefreshLoop, Loop, RefreshClose, RefreshReturn,
             Connect, Returned, AfterConnect, PostEnds
<1>4. ASSUME NEW t \in Threads,
           DisconnectTest(t) \/ DisconnectReset(t) \/ DisconnectReceiver(t) \/
           DisconnectJoined(t)
    PROVE  Ends
      BY <1>4 DEF DisconnectTest, DisconnectReset, DisconnectReceiver, AfterDisconnect,
             DisconnectJoined
<1>5. ASSUME NEW c \in Conns,
           ReceiveTest(c) \/ ReceiveData(c) \/ ReceiveEof(c) \/ ReceiveError(c)
    PROVE  Ends
      BY <1>5 DEF ReceiveTest, ReceiveData, ReceiveEof, ReceiveError
<1>6. ASSUME NEW c \in Callers, RefreshAssign(c) PROVE Ends
      BY <1>6 DEF RefreshAssign, Returns
<1>7. ASSUME NEW r \in Refreshes, RefreshAutoUse(r) PROVE Ends
      BY <1>7 DEF RefreshAutoUse
<1>8. ASSUME NEW r \in Refreshes, RefreshDetach(r) PROVE Ends
      BY <1>8 DEF RefreshDetach
<1>9. ASSUME NEW r \in Refreshes, OneShot(r) PROVE Ends
      BY <1>9 DEF Ends
<1>10. ASSUME NEW r \in Refreshes, ConnectSocket(r) PROVE Ends
      BY <1>10 DEF ConnectSocket, Returned, AfterConnect, AfterPost, PostEnds
<1>11. ASSUME NEW r \in Refreshes, ConnectDial(r) PROVE Ends
      BY <1>11 DEF ConnectDial
<1>12. ASSUME NEW r \in Refreshes, ConnectLaunch(r) PROVE Ends
      BY <1>12 DEF ConnectLaunch, AfterConnect, AfterPost, PostEnds
<1>13. ASSUME NEW t \in Threads, DisconnectUse(t) PROVE Ends
      BY <1>13 DEF DisconnectUse
<1>14. ASSUME NEW t \in Threads, DisconnectJoin(t) PROVE Ends
      BY <1>14 DEF DisconnectJoin
<1>15. ASSUME NEW c \in Conns, ReceiveStart(c) PROVE Ends
      BY <1>15 DEF ReceiveStart
<1>16. ASSUME NEW c \in Conns, ReceiveEndpoint(c) PROVE Ends
      BY <1>16 DEF ReceiveEndpoint
<1>17. ASSUME NEW c \in Conns, NEW how \in {"finished", "reset"}, PeerLeaves(c, how) PROVE Ends
      BY <1>17 DEF PeerLeaves
<1>18. ASSUME SendUse PROVE Ends
      BY <1>18 DEF SendUse
<1>19. ASSUME StopJoin PROVE Ends
      BY <1>19 DEF StopJoin
<1>20. ASSUME Delete PROVE Ends
      BY <1>20 DEF Delete
<1>21. CASE UNCHANGED vars
      BY <1>21 DEF vars
<1> HIDE DEF Ends
<1> QED BY <1>1, <1>2, <1>3, <1>4, <1>5, <1>6, <1>7, <1>8, <1>9, <1>10, <1>11, <1>12, <1>13,
           <1>14, <1>15, <1>16, <1>17, <1>18, <1>19, <1>20, <1>21
           DEF Next, LauncherStep, Calls, Disconnects, RefreshStep, ReceiveStep, Over,
               Callers, Threads

(* Either way nothing else changes, but for the one shot timer, *)
LEMMA EndsStays == ASSUME TypeOK, fate' # fate, Ends PROVE Stays /\ Dying
<1>1. ASSUME NEW why \in Fates, Dies(why) PROVE Stays /\ Dying
  <2>1. /\ active' = active /\ io' = io /\ check' = check /\ sending' = sending
        /\ overlapped' = overlapped
        /\ fate' \in Fates
        /\ UNCHANGED threads /\ UNCHANGED refreshing /\ UNCHANGED connection
        BY <1>1 DEF Dies
  <2>2. at' = at /\ fresh' = fresh /\ target' = target
        BY <2>1 DEF threads
  <2>3. /\ refresher' = refresher /\ detected' = detected /\ got' = got /\ shut' = shut
        /\ oneShot' = oneShot /\ posting' = posting
        BY <2>1 DEF refreshing
  <2>4. /\ socket' = socket /\ receiver' = receiver /\ mine' = mine /\ reads' = reads
        /\ open' = open /\ peer' = peer
        BY <2>1 DEF connection
  <2>5. Stays
        BY <2>1, <2>2, <2>3, <2>4 DEF Stays
  <2>6. Dying
        BY <2>1, <2>3 DEF Dying, TypeOK
  <2> QED BY <2>5, <2>6
<1>2. ASSUME NEW r \in Refreshes, OneShot(r) PROVE Stays /\ Dying
  <2>1. /\ active' = active /\ io' = io /\ check' = check /\ sending' = sending
        /\ overlapped' = overlapped
        /\ fate' \in Fates /\ oneShot' = [oneShot EXCEPT ![r] = "done"]
        /\ UNCHANGED <<refresher, detected, got, shut, posting>>
        /\ UNCHANGED threads /\ UNCHANGED connection
        BY <1>2 DEF OneShot, Fates
  <2>2. at' = at /\ fresh' = fresh /\ target' = target
        BY <2>1 DEF threads
  <2>3. /\ socket' = socket /\ receiver' = receiver /\ mine' = mine /\ reads' = reads
        /\ open' = open /\ peer' = peer
        BY <2>1 DEF connection
  <2>4. Stays
        BY <2>1, <2>2, <2>3 DEF Stays
  <2>5. Dying
        BY <2>1 DEF Dying, TypeOK
  <2> QED BY <2>4, <2>5
<1> QED BY <1>1, <1>2 DEF Ends

(* and the invariant is kept, *)
LEMMA StaysKeeps == ASSUME ClientInv, Stays, Dying PROVE ClientInv'
<1> USE DEF ClientInv, Stays
<1>1. TypeOK'
  <2>1. /\ active' \in BOOLEAN /\ io' \in BOOLEAN /\ check' \in BOOLEAN
        /\ detected' \in BOOLEAN /\ sending' \in {"idle", "tested"}
        /\ overlapped' \in BOOLEAN
        BY DEF TypeOK
  <2>2. /\ fresh' \in [Callers -> Refreshes \cup {None}]
        /\ target' \in [Threads -> Refreshes \cup Conns \cup {None}]
        /\ refresher' \in Refreshes \cup {None} /\ got' \in [Refreshes -> 0..MaxNbrOfServers]
        /\ shut' \in [Refreshes -> BOOLEAN] /\ posting' \in [Refreshes -> BOOLEAN]
        BY DEF TypeOK
  <2>3. /\ socket' \in Conns \cup {None} /\ receiver' \in Conns \cup {None}
        /\ mine' \in [Refreshes -> Conns \cup {None}] /\ reads' \in [Conns -> Conns \cup {None}]
        /\ open' \in [Conns -> BOOLEAN] /\ peer' \in [Conns -> {"up", "finished", "reset"}]
        BY DEF TypeOK
  <2> QED BY <2>1, <2>2, <2>3 DEF TypeOK, Dying, Fates
<1>2. Placed'
      BY DEF Placed
<1>3. Counted' /\ Received' /\ Joined' /\ Dialled'
      BY DEF Counted, Received, Joined, Dialled, Running
<1> QED BY <1>1, <1>2, <1>3

(* and so does one that changes nothing. *)
LEMMA Unmoved == ASSUME ClientInv, UNCHANGED vars PROVE ClientInv'
<1>1. Stays /\ oneShot' = oneShot /\ fate' = fate
      BY DEF vars, process, threads, refreshing, connection, Stays
<1>2. Dying
      BY <1>1 DEF Dying, Fates, ClientInv, TypeOK
<1> QED BY <1>1, <1>2, StaysKeeps

(* The types of the four parts of the state. *)
ProcessOK ==
    /\ active \in BOOLEAN /\ io \in BOOLEAN /\ check \in BOOLEAN /\ sending \in {"idle", "tested"}
    /\ fate \in Fates /\ overlapped \in BOOLEAN
ThreadsOK ==
    /\ fresh \in [Callers -> Refreshes \cup {None}]
    /\ target \in [Threads -> Refreshes \cup Conns \cup {None}]
RefreshingOK ==
    /\ refresher \in Refreshes \cup {None} /\ detected \in BOOLEAN
    /\ got \in [Refreshes -> 0..MaxNbrOfServers] /\ shut \in [Refreshes -> BOOLEAN]
    /\ oneShot \in [Refreshes -> {"off", "armed", "done"}] /\ posting \in [Refreshes -> BOOLEAN]
ConnectionOK ==
    /\ socket \in Conns \cup {None} /\ receiver \in Conns \cup {None}
    /\ mine \in [Refreshes -> Conns \cup {None}] /\ reads \in [Conns -> Conns \cup {None}]
    /\ open \in [Conns -> BOOLEAN] /\ peer \in [Conns -> {"up", "finished", "reset"}]

(* A part that a step leaves alone keeps its types, and the whole does  *)
(* when all of its parts do.                                            *)
LEMMA PartsKept ==
  ASSUME TypeOK
  PROVE  /\ ProcessOK /\ ThreadsOK /\ RefreshingOK /\ ConnectionOK
         /\ UNCHANGED process => ProcessOK'
         /\ UNCHANGED <<fresh, target>> => ThreadsOK'
         /\ UNCHANGED refreshing => RefreshingOK'
         /\ UNCHANGED connection => ConnectionOK'
         /\ ProcessOK' /\ ThreadsOK' /\ RefreshingOK' /\ ConnectionOK' => TypeOK'
<1>1. ProcessOK /\ (UNCHANGED process => ProcessOK')
      BY DEF TypeOK, ProcessOK, Fates, process
<1>2. ThreadsOK /\ (UNCHANGED <<fresh, target>> => ThreadsOK')
      BY DEF TypeOK, ThreadsOK
<1>3. RefreshingOK /\ (UNCHANGED refreshing => RefreshingOK')
      BY DEF TypeOK, RefreshingOK, refreshing
<1>4. ConnectionOK /\ (UNCHANGED connection => ConnectionOK')
      BY DEF TypeOK, ConnectionOK, connection
<1>5. ProcessOK' /\ ThreadsOK' /\ RefreshingOK' /\ ConnectionOK' => TypeOK'
      BY DEF TypeOK, ProcessOK, ThreadsOK, RefreshingOK, ConnectionOK, Fates
<1> QED BY <1>1, <1>2, <1>3, <1>4, <1>5

(* A step of a live process keeps the types, *)
LEMMA TypeStep ==
  ASSUME ClientInv, [Next]_vars, fate' = fate
  PROVE  TypeOK'
<1> USE NoneAssumption, ServersAssumption, SettingsAssumption, ThreadsAssumption
<1> USE DEF ClientInv, TypeOK, Counted,
            At, Alive, Goto, Moves, Dies, process, threads, refreshing, connection,
            Callers, Threads
<1>1. ASSUME Start PROVE TypeOK'
      BY <1>1 DEF Start
<1>2. ASSUME CheckServers PROVE TypeOK'
      BY <1>2 DEF CheckServers
<1>3. ASSUME NEW c \in Callers, RefreshTest(c) PROVE TypeOK'
      BY <1>3 DEF RefreshTest, Returns
<1>4. ASSUME NEW c \in Callers, RefreshSpawn(c) PROVE TypeOK'
  <2>1. /\ overlapped' \in BOOLEAN
        /\ UNCHANGED <<active, io, check, sending, fate, target, refreshing, connection>>
        /\ fresh' = fresh \/ \E r \in Refreshes : fresh' = [fresh EXCEPT ![c] = r]
        BY <1>4 DEF RefreshSpawn
  <2> HIDE DEF TypeOK, ClientInv, Counted
  <2>2. ProcessOK'
        BY <2>1, PartsKept DEF ClientInv, ProcessOK
  <2>3. ThreadsOK'
        BY <2>1, PartsKept DEF ClientInv, ThreadsOK
  <2> QED BY <2>1, <2>2, <2>3, PartsKept DEF ClientInv
<1>5. ASSUME NEW c \in Callers, RefreshAssign(c) PROVE TypeOK'
      BY <1>5 DEF RefreshAssign, Returns
<1>6. ASSUME NEW r \in Refreshes, RefreshOpen(r) PROVE TypeOK'
      BY <1>6 DEF RefreshOpen
<1>7. ASSUME NEW r \in Refreshes, RefreshReceive(r) PROVE TypeOK'
      BY <1>7 DEF RefreshReceive, HandleServerListUpdate, AfterPost
<1>8. ASSUME NEW r \in Refreshes, RefreshTimesOut(r) PROVE TypeOK'
      BY <1>8 DEF RefreshTimesOut
<1>9. ASSUME NEW r \in Refreshes, RefreshAuto(r) PROVE TypeOK'
      BY <1>9 DEF RefreshAuto
<1>10. ASSUME NEW r \in Refreshes, RefreshAutoUse(r) PROVE TypeOK'
      BY <1>10 DEF RefreshAutoUse
<1>11. ASSUME NEW r \in Refreshes, RefreshLoop(r) PROVE TypeOK'
      BY <1>11 DEF RefreshLoop, Loop
<1>12. ASSUME NEW r \in Refreshes, RefreshClose(r) PROVE TypeOK'
      BY <1>12 DEF RefreshClose
<1>13. ASSUME NEW r \in Refreshes, RefreshReturn(r) PROVE TypeOK'
      BY <1>13 DEF RefreshReturn
<1>14. ASSUME NEW r \in Refreshes, RefreshDetach(r) PROVE TypeOK'
      BY <1>14 DEF RefreshDetach
<1>15. ASSUME NEW r \in Refreshes, OneShot(r) PROVE TypeOK'
  <2>1. /\ UNCHANGED <<process, fresh, target, refresher, detected, got, posting, connection>>
        /\ oneShot' = [oneShot EXCEPT ![r] = "done"]
        /\ shut' = shut \/ shut' = [shut EXCEPT ![r] = TRUE]
        BY <1>15 DEF OneShot
  <2> HIDE DEF TypeOK, ClientInv, Counted
  <2>2. RefreshingOK'
        BY <2>1, PartsKept DEF ClientInv, RefreshingOK
  <2> QED BY <2>1, <2>2, PartsKept DEF ClientInv
<1>16. ASSUME NEW r \in Refreshes, Connect(r) PROVE TypeOK'
  <2>1. /\ UNCHANGED <<process, fresh, target, refresher, detected, got, shut, oneShot, connection>>
        /\ posting' = posting \/ posting' = [posting EXCEPT ![r] = FALSE]
        BY <1>16 DEF Connect, Returned, PostEnds
  <2> HIDE DEF TypeOK, ClientInv, Counted
  <2>2. RefreshingOK'
        BY <2>1, PartsKept DEF ClientInv, RefreshingOK
  <2> QED BY <2>1, <2>2, PartsKept DEF ClientInv
<1>17. ASSUME NEW r \in Refreshes, ConnectSocket(r) PROVE TypeOK'
  <2>1. CASE Returned(r)
    <3>1. /\ UNCHANGED <<process, fresh, target, refresher, detected, got, shut, oneShot, connection>>
          /\ posting' = [posting EXCEPT ![r] = FALSE]
          BY <2>1 DEF Returned, PostEnds
    <3> HIDE DEF TypeOK, ClientInv, Counted
    <3>2. RefreshingOK'
          BY <3>1, PartsKept DEF ClientInv, RefreshingOK
    <3> QED BY <3>1, <3>2, PartsKept DEF ClientInv
  <2>2. CASE ~Returned(r)
    <3>1. PICK c \in Conns : socket' = c /\ mine' = [mine EXCEPT ![r] = c]
          BY <1>17, <2>2 DEF ConnectSocket
    <3>2. UNCHANGED <<process, fresh, target, refreshing, receiver, reads, open, peer>>
          BY <1>17, <2>2 DEF ConnectSocket
    <3> HIDE DEF TypeOK, ClientInv, Counted
    <3>3. ConnectionOK'
          BY <3>1, <3>2, PartsKept DEF ClientInv, ConnectionOK
    <3> QED BY <3>2, <3>3, PartsKept DEF ClientInv
  <2> QED BY <2>1, <2>2
<1>18. ASSUME NEW r \in Refreshes, ConnectDial(r) PROVE TypeOK'
      BY <1>18 DEF ConnectDial
<1>19. ASSUME NEW r \in Refreshes, ConnectLaunch(r) PROVE TypeOK'
  <2>1. receiver' = mine[r] /\ mine[r] \in Conns
        BY <1>19 DEF ConnectLaunch, Dialled
  <2>2. /\ posting' = [posting EXCEPT ![r] = FALSE]
        /\ UNCHANGED <<process, fresh, target, refresher, detected, got, shut, oneShot, socket,
                       mine, reads, open, peer>>
        BY <1>19 DEF ConnectLaunch, PostEnds
  <2> HIDE DEF TypeOK, ClientInv, Counted
  <2>3. RefreshingOK' /\ ConnectionOK'
        BY <2>1, <2>2, PartsKept DEF ClientInv, RefreshingOK, ConnectionOK
  <2> QED BY <2>2, <2>3, PartsKept DEF ClientInv
<1>20. ASSUME NEW t \in Threads, DisconnectTest(t) PROVE TypeOK'
      BY <1>20 DEF DisconnectTest
<1>21. ASSUME NEW t \in Threads, DisconnectUse(t) PROVE TypeOK'
  <2>1. /\ open' = [open EXCEPT ![socket] = FALSE]
        /\ UNCHANGED <<process, fresh, target, refreshing, socket, receiver, mine, reads, peer>>
        BY <1>21 DEF DisconnectUse
  <2> HIDE DEF TypeOK, ClientInv, Counted
  <2>2. ConnectionOK'
        BY <2>1, PartsKept DEF ClientInv, ConnectionOK
  <2> QED BY <2>1, <2>2, PartsKept DEF ClientInv
<1>22. ASSUME NEW t \in Threads, DisconnectReset(t) PROVE TypeOK'
      BY <1>22 DEF DisconnectReset
<1>23. ASSUME NEW t \in Threads, DisconnectReceiver(t) PROVE TypeOK'
      BY <1>23 DEF DisconnectReceiver, AfterDisconnect
<1>24. ASSUME NEW t \in Threads, DisconnectJoin(t) PROVE TypeOK'
      BY <1>24 DEF DisconnectJoin
<1>25. ASSUME NEW t \in Threads, DisconnectJoined(t) PROVE TypeOK'
      BY <1>25 DEF DisconnectJoined, AfterDisconnect
<1>26. ASSUME NEW c \in Conns, ReceiveStart(c) PROVE TypeOK'
      BY <1>26 DEF ReceiveStart
<1>27. ASSUME NEW c \in Conns, ReceiveEndpoint(c) PROVE TypeOK'
      BY <1>27 DEF ReceiveEndpoint
<1>28. ASSUME NEW c \in Conns, ReceiveTest(c) PROVE TypeOK'
      BY <1>28 DEF ReceiveTest
<1>29. ASSUME NEW c \in Conns, ReceiveData(c) PROVE TypeOK'
      BY <1>29 DEF ReceiveData
<1>30. ASSUME NEW c \in Conns, ReceiveEof(c) PROVE TypeOK'
      BY <1>30 DEF ReceiveEof
<1>31. ASSUME NEW c \in Conns, ReceiveError(c) PROVE TypeOK'
      BY <1>31 DEF ReceiveError
<1>32. ASSUME NEW c \in Conns, NEW how \in {"finished", "reset"}, PeerLeaves(c, how)
    PROVE  TypeOK'
      BY <1>32 DEF PeerLeaves
<1>33. ASSUME SendTest PROVE TypeOK'
      BY <1>33 DEF SendTest
<1>34. ASSUME SendUse PROVE TypeOK'
      BY <1>34 DEF SendUse
<1>35. ASSUME Stop PROVE TypeOK'
      BY <1>35 DEF Stop
<1>36. ASSUME StopCheck PROVE TypeOK'
      BY <1>36 DEF StopCheck
<1>37. ASSUME StopTest PROVE TypeOK'
      BY <1>37 DEF StopTest
<1>38. ASSUME StopJoin PROVE TypeOK'
      BY <1>38 DEF StopJoin
<1>39. ASSUME StopJoined PROVE TypeOK'
      BY <1>39 DEF StopJoined
<1>40. ASSUME Delete PROVE TypeOK'
      BY <1>40 DEF Delete
<1>41. CASE UNCHANGED vars
      BY <1>41, Unmoved
<1> HIDE DEF TypeOK, Placed, Counted, Received, Joined, Dialled
<1> QED BY <1>1, <1>2, <1>3, <1>4, <1>5, <1>6, <1>7, <1>8, <1>9, <1>10, <1>11, <1>12, <1>13,
           <1>14, <1>15, <1>16, <1>17, <1>18, <1>19, <1>20, <1>21, <1>22, <1>23, <1>24, <1>25,
           <1>26, <1>27, <1>28, <1>29, <1>30, <1>31, <1>32, <1>33, <1>34, <1>35, <1>36, <1>37,
           <1>38, <1>39, <1>40, <1>41
           DEF Next, LauncherStep, Calls, Disconnects, RefreshStep, ReceiveStep, Over,
               Callers, Threads

(* the places and the counts, *)
LEMMA PlaceStep ==
  ASSUME ClientInv, [Next]_vars, fate' = fate
  PROVE  (Placed /\ Counted)'
<1> USE NoneAssumption, ServersAssumption, SettingsAssumption, ThreadsAssumption
<1> USE DEF ClientInv, TypeOK, Placed, Counted, Places, Calling, Disconnecting, Joining,
            LauncherPlaces, RefreshPlaces, ReceivePlaces,
            At, Alive, Goto, Moves, Dies, process, threads, refreshing, connection,
            Callers, Threads
<1>1. ASSUME Start PROVE (Placed /\ Counted)'
      BY <1>1 DEF Start
<1>2. ASSUME CheckServers PROVE (Placed /\ Counted)'
      BY <1>2 DEF CheckServers
<1>3. ASSUME NEW c \in Callers, RefreshTest(c) PROVE (Placed /\ Counted)'
      BY <1>3 DEF RefreshTest, Returns
<1>4. ASSUME NEW c \in Callers, RefreshSpawn(c) PROVE (Placed /\ Counted)'
      BY <1>4 DEF RefreshSpawn, Returns
<1>5. ASSUME NEW c \in Callers, RefreshAssign(c) PROVE (Placed /\ Counted)'
      BY <1>5 DEF RefreshAssign, Returns
<1>6. ASSUME NEW r \in Refreshes, RefreshOpen(r) PROVE (Placed /\ Counted)'
      BY <1>6 DEF RefreshOpen
<1>7. ASSUME NEW r \in Refreshes, RefreshReceive(r) PROVE (Placed /\ Counted)'
      BY <1>7 DEF RefreshReceive, HandleServerListUpdate, AfterPost
<1>8. ASSUME NEW r \in Refreshes, RefreshTimesOut(r) PROVE (Placed /\ Counted)'
      BY <1>8 DEF RefreshTimesOut
<1>9. ASSUME NEW r \in Refreshes, RefreshAuto(r) PROVE (Placed /\ Counted)'
      BY <1>9 DEF RefreshAuto
<1>10. ASSUME NEW r \in Refreshes, RefreshAutoUse(r) PROVE (Placed /\ Counted)'
      BY <1>10 DEF RefreshAutoUse
<1>11. ASSUME NEW r \in Refreshes, RefreshLoop(r) PROVE (Placed /\ Counted)'
      BY <1>11 DEF RefreshLoop, Loop
<1>12. ASSUME NEW r \in Refreshes, RefreshClose(r) PROVE (Placed /\ Counted)'
      BY <1>12 DEF RefreshClose
<1>13. ASSUME NEW r \in Refreshes, RefreshReturn(r) PROVE (Placed /\ Counted)'
      BY <1>13 DEF RefreshReturn
<1>14. ASSUME NEW r \in Refreshes, RefreshDetach(r) PROVE (Placed /\ Counted)'
      BY <1>14 DEF RefreshDetach
<1>15. ASSUME NEW r \in Refreshes, OneShot(r) PROVE (Placed /\ Counted)'
      BY <1>15 DEF OneShot
<1>16. ASSUME NEW r \in Refreshes, Connect(r) PROVE (Placed /\ Counted)'
      BY <1>16 DEF Connect, Returned, AfterConnect, AfterPost, PostEnds
<1>17. ASSUME NEW r \in Refreshes, ConnectSocket(r) PROVE (Placed /\ Counted)'
      BY <1>17, SMTT(30) DEF ConnectSocket, Returned, AfterConnect, AfterPost, PostEnds
<1>18. ASSUME NEW r \in Refreshes, ConnectDial(r) PROVE (Placed /\ Counted)'
      BY <1>18, SMTT(30) DEF ConnectDial
<1>19. ASSUME NEW r \in Refreshes, ConnectLaunch(r) PROVE (Placed /\ Counted)'
      BY <1>19, SMTT(30) DEF ConnectLaunch, AfterConnect, AfterPost, PostEnds
<1>20. ASSUME NEW t \in Threads, DisconnectTest(t) PROVE (Placed /\ Counted)'
      BY <1>20, SMTT(30) DEF DisconnectTest
<1>21. ASSUME NEW t \in Threads, DisconnectUse(t) PROVE (Placed /\ Counted)'
      BY <1>21, SMTT(30) DEF DisconnectUse
<1>22. ASSUME NEW t \in Threads, DisconnectReset(t) PROVE (Placed /\ Counted)'
      BY <1>22 DEF DisconnectReset
<1>23. ASSUME NEW t \in Threads, DisconnectReceiver(t) PROVE (Placed /\ Counted)'
  <2>1. t \in Conns => receiver = t
        BY <1>23 DEF DisconnectReceiver, Received, Running
  <2> QED BY <1>23, <2>1 DEF DisconnectReceiver, AfterDisconnect
<1>24. ASSUME NEW t \in Threads, DisconnectJoin(t) PROVE (Placed /\ Counted)'
      BY <1>24 DEF DisconnectJoin
<1>25. ASSUME NEW t \in Threads, DisconnectJoined(t) PROVE (Placed /\ Counted)'
      BY <1>25 DEF DisconnectJoined, AfterDisconnect
<1>26. ASSUME NEW c \in Conns, ReceiveStart(c) PROVE (Placed /\ Counted)'
      BY <1>26 DEF ReceiveStart
<1>27. ASSUME NEW c \in Conns, ReceiveEndpoint(c) PROVE (Placed /\ Counted)'
      BY <1>27 DEF ReceiveEndpoint
<1>28. ASSUME NEW c \in Conns, ReceiveTest(c) PROVE (Placed /\ Counted)'
      BY <1>28 DEF ReceiveTest
<1>29. ASSUME NEW c \in Conns, ReceiveData(c) PROVE (Placed /\ Counted)'
      BY <1>29 DEF ReceiveData
<1>30. ASSUME NEW c \in Conns, ReceiveEof(c) PROVE (Placed /\ Counted)'
      BY <1>30 DEF ReceiveEof
<1>31. ASSUME NEW c \in Conns, ReceiveError(c) PROVE (Placed /\ Counted)'
      BY <1>31 DEF ReceiveError
<1>32. ASSUME NEW c \in Conns, NEW how \in {"finished", "reset"}, PeerLeaves(c, how)
    PROVE  (Placed /\ Counted)'
      BY <1>32 DEF PeerLeaves
<1>33. ASSUME SendTest PROVE (Placed /\ Counted)'
      BY <1>33 DEF SendTest
<1>34. ASSUME SendUse PROVE (Placed /\ Counted)'
      BY <1>34 DEF SendUse
<1>35. ASSUME Stop PROVE (Placed /\ Counted)'
      BY <1>35 DEF Stop
<1>36. ASSUME StopCheck PROVE (Placed /\ Counted)'
      BY <1>36 DEF StopCheck
<1>37. ASSUME StopTest PROVE (Placed /\ Counted)'
      BY <1>37 DEF StopTest
<1>38. ASSUME StopJoin PROVE (Placed /\ Counted)'
      BY <1>38 DEF StopJoin
<1>39. ASSUME StopJoined PROVE (Placed /\ Counted)'
      BY <1>39 DEF StopJoined
<1>40. ASSUME Delete PROVE (Placed /\ Counted)'
      BY <1>40 DEF Delete
<1>41. CASE UNCHANGED vars
      BY <1>41, Unmoved
<1> HIDE DEF TypeOK, Placed, Counted, Received, Joined, Dialled
<1> QED BY <1>1, <1>2, <1>3, <1>4, <1>5, <1>6, <1>7, <1>8, <1>9, <1>10, <1>11, <1>12, <1>13,
           <1>14, <1>15, <1>16, <1>17, <1>18, <1>19, <1>20, <1>21, <1>22, <1>23, <1>24, <1>25,
           <1>26, <1>27, <1>28, <1>29, <1>30, <1>31, <1>32, <1>33, <1>34, <1>35, <1>36, <1>37,
           <1>38, <1>39, <1>40, <1>41
           DEF Next, LauncherStep, Calls, Disconnects, RefreshStep, ReceiveStep, Over,
               Callers, Threads

(* and who receives, who is joined and what is dialled. *)
LEMMA ReceiverStep ==
  ASSUME ClientInv, [Next]_vars, fate' = fate
  PROVE  (Received /\ Joined /\ Dialled)'
<1> USE NoneAssumption, ServersAssumption, SettingsAssumption, ThreadsAssumption
<1> USE DEF ClientInv, TypeOK, Received, Joined, Dialled, Running, Placed, Places, Calling,
            Disconnecting, Joining, LauncherPlaces, RefreshPlaces, ReceivePlaces,
            At, Alive, Goto, Moves, Dies, process, threads, refreshing, connection,
            Callers, Threads
<1>1. ASSUME Start PROVE (Received /\ Joined /\ Dialled)'
      BY <1>1 DEF Start
<1>2. ASSUME CheckServers PROVE (Received /\ Joined /\ Dialled)'
      BY <1>2 DEF CheckServers
<1>3. ASSUME NEW c \in Callers, RefreshTest(c) PROVE (Received /\ Joined /\ Dialled)'
      BY <1>3 DEF RefreshTest, Returns
<1>4. ASSUME NEW c \in Callers, RefreshSpawn(c) PROVE (Received /\ Joined /\ Dialled)'
  <2>1. UNCHANGED <<target, receiver, mine>> /\ c \notin Conns
        BY <1>4 DEF RefreshSpawn, Returns
  <2>2. CASE UNCHANGED fresh
        BY <1>4, <2>1, <2>2 DEF RefreshSpawn, Returns
  <2>3. CASE ~UNCHANGED fresh
    <3>1. PICK r \in Refreshes :
             at[r] = "none" /\ at' = [at EXCEPT ![c] = "assign", ![r] = "open"]
          BY <1>4, <2>3 DEF RefreshSpawn, Returns
    <3>a. at \in [Threads -> Places]
          OBVIOUS
    <3> HIDE DEF Placed, Places, LauncherPlaces, RefreshPlaces, ReceivePlaces, TypeOK,
             Received, Joined, Dialled, ClientInv
    <3>2. \A d \in Conns : at'[d] = at[d]
          BY <2>1, <3>1, <3>a
    <3>3. \A t \in Threads : at'[t] = at[t] \/ at'[t] \in {"assign", "open"}
          BY <3>1, <3>a
    <3>4. Received'
          BY <2>1, <3>2 DEF ClientInv, Received
    <3>5. Joined' /\ Dialled'
          BY <2>1, <3>3 DEF ClientInv, Joined, Dialled
    <3> QED BY <3>4, <3>5
  <2> QED BY <2>2, <2>3
<1>5. ASSUME NEW c \in Callers, RefreshAssign(c) PROVE (Received /\ Joined /\ Dialled)'
      BY <1>5 DEF RefreshAssign, Returns
<1>6. ASSUME NEW r \in Refreshes, RefreshOpen(r) PROVE (Received /\ Joined /\ Dialled)'
      BY <1>6 DEF RefreshOpen
<1>7. ASSUME NEW r \in Refreshes, RefreshReceive(r) PROVE (Received /\ Joined /\ Dialled)'
      BY <1>7 DEF RefreshReceive, HandleServerListUpdate, AfterPost
<1>8. ASSUME NEW r \in Refreshes, RefreshTimesOut(r) PROVE (Received /\ Joined /\ Dialled)'
      BY <1>8 DEF RefreshTimesOut
<1>9. ASSUME NEW r \in Refreshes, RefreshAuto(r) PROVE (Received /\ Joined /\ Dialled)'
      BY <1>9 DEF RefreshAuto
<1>10. ASSUME NEW r \in Refreshes, RefreshAutoUse(r) PROVE (Received /\ Joined /\ Dialled)'
      BY <1>10 DEF RefreshAutoUse
<1>11. ASSUME NEW r \in Refreshes, RefreshLoop(r) PROVE (Received /\ Joined /\ Dialled)'
      BY <1>11 DEF RefreshLoop, Loop
<1>12. ASSUME NEW r \in Refreshes, RefreshClose(r) PROVE (Received /\ Joined /\ Dialled)'
      BY <1>12 DEF RefreshClose
<1>13. ASSUME NEW r \in Refreshes, RefreshReturn(r) PROVE (Received /\ Joined /\ Dialled)'
      BY <1>13 DEF RefreshReturn
<1>14. ASSUME NEW r \in Refreshes, RefreshDetach(r) PROVE (Received /\ Joined /\ Dialled)'
      BY <1>14 DEF RefreshDetach
<1>15. ASSUME NEW r \in Refreshes, OneShot(r) PROVE (Received /\ Joined /\ Dialled)'
      BY <1>15 DEF OneShot
<1>16. ASSUME NEW r \in Refreshes, Connect(r) PROVE (Received /\ Joined /\ Dialled)'
      BY <1>16 DEF Connect, Returned, AfterConnect, AfterPost, PostEnds
<1>17. ASSUME NEW r \in Refreshes, ConnectSocket(r) PROVE (Received /\ Joined /\ Dialled)'
      BY <1>17, SMTT(30) DEF ConnectSocket, Returned, AfterConnect, AfterPost, PostEnds
<1>18. ASSUME NEW r \in Refreshes, ConnectDial(r) PROVE (Received /\ Joined /\ Dialled)'
      BY <1>18 DEF ConnectDial
<1>19. ASSUME NEW r \in Refreshes, ConnectLaunch(r) PROVE (Received /\ Joined /\ Dialled)'
      BY <1>19, SMTT(30) DEF ConnectLaunch, AfterConnect, AfterPost, PostEnds
<1>20. ASSUME NEW t \in Threads, DisconnectTest(t) PROVE (Received /\ Joined /\ Dialled)'
      BY <1>20 DEF DisconnectTest
<1>21. ASSUME NEW t \in Threads, DisconnectUse(t) PROVE (Received /\ Joined /\ Dialled)'
      BY <1>21 DEF DisconnectUse
<1>22. ASSUME NEW t \in Threads, DisconnectReset(t) PROVE (Received /\ Joined /\ Dialled)'
      BY <1>22 DEF DisconnectReset
<1>23. ASSUME NEW t \in Threads, DisconnectReceiver(t) PROVE (Received /\ Joined /\ Dialled)'
      BY <1>23 DEF DisconnectReceiver, AfterDisconnect
<1>24. ASSUME NEW t \in Threads, DisconnectJoin(t) PROVE (Received /\ Joined /\ Dialled)'
      BY <1>24 DEF DisconnectJoin
<1>25. ASSUME NEW t \in Threads, DisconnectJoined(t) PROVE (Received /\ Joined /\ Dialled)'
      BY <1>25 DEF DisconnectJoined, AfterDisconnect
<1>26. ASSUME NEW c \in Conns, ReceiveStart(c) PROVE (Received /\ Joined /\ Dialled)'
      BY <1>26, SMTT(30) DEF ReceiveStart
<1>27. ASSUME NEW c \in Conns, ReceiveEndpoint(c) PROVE (Received /\ Joined /\ Dialled)'
      BY <1>27 DEF ReceiveEndpoint
<1>28. ASSUME NEW c \in Conns, ReceiveTest(c) PROVE (Received /\ Joined /\ Dialled)'
      BY <1>28 DEF ReceiveTest
<1>29. ASSUME NEW c \in Conns, ReceiveData(c) PROVE (Received /\ Joined /\ Dialled)'
      BY <1>29 DEF ReceiveData
<1>30. ASSUME NEW c \in Conns, ReceiveEof(c) PROVE (Received /\ Joined /\ Dialled)'
      BY <1>30 DEF ReceiveEof
<1>31. ASSUME NEW c \in Conns, ReceiveError(c) PROVE (Received /\ Joined /\ Dialled)'
      BY <1>31 DEF ReceiveError
<1>32. ASSUME NEW c \in Conns, NEW how \in {"finished", "reset"}, PeerLeaves(c, how)
    PROVE  (Received /\ Joined /\ Dialled)'
      BY <1>32 DEF PeerLeaves
<1>33. ASSUME SendTest PROVE (Received /\ Joined /\ Dialled)'
      BY <1>33 DEF SendTest
<1>34. ASSUME SendUse PROVE (Received /\ Joined /\ Dialled)'
      BY <1>34 DEF SendUse
<1>35. ASSUME Stop PROVE (Received /\ Joined /\ Dialled)'
      BY <1>35 DEF Stop
<1>36. ASSUME StopCheck PROVE (Received /\ Joined /\ Dialled)'
      BY <1>36 DEF StopCheck
<1>37. ASSUME StopTest PROVE (Received /\ Joined /\ Dialled)'
      BY <1>37 DEF StopTest
<1>38. ASSUME StopJoin PROVE (Received /\ Joined /\ Dialled)'
      BY <1>38 DEF StopJoin
<1>39. ASSUME StopJoined PROVE (Received /\ Joined /\ Dialled)'
      BY <1>39 DEF StopJoined
<1>40. ASSUME Delete PROVE (Received /\ Joined /\ Dialled)'
      BY <1>40 DEF Delete
<1>41. CASE UNCHANGED vars
      BY <1>41, Unmoved
<1> HIDE DEF TypeOK, Placed, Counted, Received, Joined, Dialled
<1> QED BY <1>1, <1>2, <1>3, <1>4, <1>5, <1>6, <1>7, <1>8, <1>9, <1>10, <1>11, <1>12, <1>13,
           <1>14, <1>15, <1>16, <1>17, <1>18, <1>19, <1>20, <1>21, <1>22, <1>23, <1>24, <1>25,
           <1>26, <1>27, <1>28, <1>29, <1>30, <1>31, <1>32, <1>33, <1>34, <1>35, <1>36, <1>37,
           <1>38, <1>39, <1>40, <1>41
           DEF Next, LauncherStep, Calls, Disconnects, RefreshStep, ReceiveStep, Over,
               Callers, Threads

(* The client starts in the invariant, *)
LEMMA InitClientInv == Init => ClientInv
<1> SUFFICES ASSUME Init PROVE ClientInv
    OBVIOUS
<1> USE NoneAssumption, ServersAssumption, SettingsAssumption, ThreadsAssumption
<1> USE DEF Init, Callers, Threads
<1>1. TypeOK
  <2>1. /\ active \in BOOLEAN /\ io \in BOOLEAN /\ check \in BOOLEAN /\ detected \in BOOLEAN
        /\ sending = "idle" /\ fate = "running" /\ refresher = None /\ overlapped = FALSE
        /\ fresh \in [Callers -> Refreshes \cup {None}]
        /\ target \in [Threads -> Refreshes \cup Conns \cup {None}]
        OBVIOUS
  <2>2. /\ got \in [Refreshes -> 0..MaxNbrOfServers]
        /\ shut \in [Refreshes -> BOOLEAN] /\ oneShot \in [Refreshes -> {"off", "armed", "done"}]
        /\ posting \in [Refreshes -> BOOLEAN]
        OBVIOUS
  <2>3. /\ socket = None /\ receiver = None
        /\ mine \in [Refreshes -> Conns \cup {None}] /\ reads \in [Conns -> Conns \cup {None}]
        /\ open \in [Conns -> BOOLEAN] /\ peer \in [Conns -> {"up", "finished", "reset"}]
        OBVIOUS
  <2> HIDE DEF Init
  <2> QED BY <2>1, <2>2, <2>3 DEF TypeOK
<1>2. Placed
      BY DEF Placed, Places, Calling, Disconnecting, Joining, LauncherPlaces, RefreshPlaces,
             ReceivePlaces
<1>3. Counted /\ Received /\ Joined /\ Dialled
      BY DEF Counted, Received, Joined, Dialled, Running
<1> QED BY <1>1, <1>2, <1>3 DEF ClientInv

(* and every step keeps it. *)
LEMMA NextClientInv == ClientInv /\ [Next]_vars => ClientInv'
<1> SUFFICES ASSUME ClientInv, [Next]_vars PROVE ClientInv'
    OBVIOUS
<1>1. CASE fate' = fate
      BY <1>1, TypeStep, PlaceStep, ReceiverStep DEF ClientInv
<1>2. CASE fate' # fate
  <2>1. TypeOK
        BY DEF ClientInv
  <2> QED BY <1>2, <2>1, Fatal, EndsStays, StaysKeeps
<1> QED BY <1>1, <1>2

(* The invariant holds throughout. *)
THEOREM Invariance == Spec => []ClientInv
  BY InitClientInv, NextClientInv, PTL DEF Spec

(* The variables of the client keep their types. *)
THEOREM TypeCorrect == Spec => []TypeOK
<1>1. ClientInv => TypeOK
      BY DEF ClientInv
<1> QED BY Invariance, <1>1, PTL

(* However many refreshes run at once, there is never more than one        *)
(* receive thread.                                                         *)
THEOREM OneReceiverAtATime == Spec => []OneReceiver
<1>1. ClientInv => OneReceiver
      BY DEF ClientInv, Received, OneReceiver
<1> QED BY Invariance, <1>1, PTL

-------------------------------------------------------------------------------
(* Two refreshes of the server list may run at once: refreshServerList     *)
(* tests and assigns without a lock. They may then disconnect each other's *)
(* connection, so what follows is about what comes before that.            *)
OneRefresh == \A r, q \in Refreshes : Running(r) /\ Running(q) => r = q

(* Until then only one runs, *)
Single == overlapped \/ OneRefresh

(* and a step of a live process keeps that: only RefreshSpawn starts a      *)
(* refresh.                                                                *)
LEMMA SingleStep ==
  ASSUME ClientInv, Single, [Next]_vars, fate' = fate
  PROVE  Single' /\ (overlapped => overlapped')
<1> DEFINE Kept == overlapped' = overlapped /\ \A q \in Refreshes : Running(q)' => Running(q)
<1>0. Kept => Single' /\ (overlapped => overlapped')
      BY DEF Single, OneRefresh
<1>P. at \in [Threads -> Places] /\ fate \in Fates
      BY DEF ClientInv, Placed, TypeOK, Fates
<1>D. \A r \in Refreshes : at[r] = "launch" => mine[r] \in Conns
      BY DEF ClientInv, Dialled
<1> USE <1>P, ThreadsAssumption
<1> USE DEF Running, At, Alive, Goto, Moves, process, Callers, Threads
<1>1. ASSUME Start \/ CheckServers \/ SendTest \/ Stop \/ StopCheck \/ StopTest \/ StopJoined
    PROVE  Kept
      BY <1>1 DEF threads, Start, CheckServers, SendTest, Stop, StopCheck, StopTest, StopJoined
<1>2. ASSUME NEW c \in Callers, RefreshTest(c) PROVE Kept
      BY <1>2 DEF RefreshTest, Returns
<1>3. ASSUME NEW c \in Callers, RefreshSpawn(c) PROVE Single' /\ (overlapped => overlapped')
  <2>1. CASE \A r \in Refreshes : at[r] # "none"
        BY <1>3, <2>1, <1>0 DEF RefreshSpawn, Returns
  <2>2. ASSUME NEW r \in Refreshes, at[r] = "none",
               at' = [at EXCEPT ![c] = "assign", ![r] = "open"],
               overlapped' = (overlapped \/ \E q \in Refreshes : Running(q))
        PROVE  Single' /\ (overlapped => overlapped')
    <3>1. CASE overlapped'
          BY <3>1 DEF Single
    <3>2. CASE ~overlapped'
      <4>1. \A q \in Refreshes : ~Running(q)
            BY <2>2, <3>2
      <4>2. \A q \in Refreshes : q # r => at'[q] = at[q]
            BY <2>2
      <4>3. OneRefresh'
            BY <4>1, <4>2 DEF OneRefresh
      <4> QED BY <2>2, <3>2, <4>3 DEF Single
    <3> QED BY <3>1, <3>2
  <2> QED BY <1>3, <2>1, <2>2 DEF RefreshSpawn
<1>4. ASSUME NEW r \in Refreshes,
           RefreshOpen(r) \/ RefreshReceive(r) \/ RefreshTimesOut(r) \/ RefreshAuto(r) \/
           RefreshLoop(r) \/ RefreshClose(r) \/ RefreshReturn(r)
    PROVE  Kept
      BY <1>4 DEF RefreshOpen, RefreshReceive, HandleServerListUpdate, AfterPost,
             RefreshTimesOut, RefreshAuto, RefreshLoop, Loop, RefreshClose, RefreshReturn
<1>5. ASSUME NEW r \in Refreshes, Connect(r) PROVE Kept
      BY <1>5 DEF Connect, Returned, AfterConnect, AfterPost, PostEnds
<1>6. ASSUME NEW t \in Threads,
           DisconnectTest(t) \/ DisconnectReset(t) \/ DisconnectReceiver(t)
    PROVE  Kept
      BY <1>6 DEF DisconnectTest, DisconnectReset, DisconnectReceiver, AfterDisconnect
<1>7. ASSUME NEW t \in Threads, DisconnectJoined(t) PROVE Kept
      BY <1>7 DEF DisconnectJoined, AfterDisconnect
<1>8. ASSUME NEW c \in Conns,
           ReceiveTest(c) \/ ReceiveData(c) \/ ReceiveEof(c) \/ ReceiveError(c)
    PROVE  Kept
      BY <1>8 DEF ReceiveTest, ReceiveData, ReceiveEof, ReceiveError
<1>9. ASSUME NEW c \in Callers, RefreshAssign(c) PROVE Kept
      BY <1>9 DEF Dies, RefreshAssign, Returns
<1>10. ASSUME NEW r \in Refreshes, RefreshAutoUse(r) PROVE Kept
      BY <1>10 DEF Dies, RefreshAutoUse
<1>11. ASSUME NEW r \in Refreshes, RefreshDetach(r) PROVE Kept
      BY <1>11 DEF Dies, RefreshDetach
<1>12. ASSUME NEW r \in Refreshes, OneShot(r) PROVE Kept
      BY <1>12 DEF OneShot, threads
<1>13. ASSUME NEW r \in Refreshes, ConnectSocket(r) PROVE Kept
      BY <1>13 DEF Dies, ConnectSocket, Returned, AfterConnect, AfterPost, PostEnds
<1>14. ASSUME NEW r \in Refreshes, ConnectDial(r) PROVE Kept
      BY <1>14 DEF Dies, ConnectDial
<1>15. ASSUME NEW r \in Refreshes, ConnectLaunch(r) PROVE Kept
      BY <1>15, <1>D DEF Dies, ConnectLaunch, AfterConnect, AfterPost, PostEnds
<1>16. ASSUME NEW t \in Threads, DisconnectUse(t) PROVE Kept
      BY <1>16 DEF Dies, DisconnectUse
<1>17. ASSUME NEW t \in Threads, DisconnectJoin(t) PROVE Kept
      BY <1>17 DEF Dies, DisconnectJoin
<1>18. ASSUME NEW c \in Conns, ReceiveStart(c) PROVE Kept
      BY <1>18 DEF Dies, ReceiveStart
<1>19. ASSUME NEW c \in Conns, ReceiveEndpoint(c) PROVE Kept
      BY <1>19 DEF Dies, ReceiveEndpoint
<1>20. ASSUME NEW c \in Conns, NEW how \in {"finished", "reset"}, PeerLeaves(c, how) PROVE Kept
      BY <1>20 DEF PeerLeaves, threads
<1>21. ASSUME SendUse PROVE Kept
      BY <1>21 DEF Dies, SendUse, threads
<1>22. ASSUME StopJoin PROVE Kept
      BY <1>22 DEF Dies, StopJoin
<1>23. ASSUME Delete PROVE Kept
      BY <1>23 DEF Dies, Delete
<1>24. ASSUME UNCHANGED vars PROVE Kept
      BY <1>24 DEF vars, threads
<1> HIDE DEF Kept, Running
<1> QED BY <1>0, <1>1, <1>2, <1>3, <1>4, <1>5, <1>6, <1>7, <1>8, <1>9, <1>10, <1>11, <1>12,
           <1>13, <1>14, <1>15, <1>16, <1>17, <1>18, <1>19, <1>20, <1>21, <1>22, <1>23, <1>24
           DEF Next, LauncherStep, Calls, Disconnects, RefreshStep, ReceiveStep, Over,
               Callers, Threads

LEMMA SingleKept ==
  ASSUME ClientInv, Single, [Next]_vars
  PROVE  Single' /\ (overlapped => overlapped')
<1>1. CASE fate' = fate
      BY <1>1, SingleStep
<1>2. CASE fate' # fate
  <2>1. Stays
        BY <1>2, Fatal, EndsStays DEF ClientInv
  <2> QED BY <2>1 DEF Stays, Single, OneRefresh, Running
<1> QED BY <1>1, <1>2

(* A refresh that has disconnected finds no receive thread, *)
Alone == \A r \in Refreshes : at[r] \in {"dial", "dialled", "launch"} => receiver = None

(* and m_serverSocket is not another one's than the receive thread's. *)
Owned == \A c \in Conns : (Running(c) /\ at[c] # "start") =>
                              reads[c] \in Conns /\ socket \in {None, reads[c]}

(* A step of a live process keeps both. *)
LEMMA OwnedStep ==
  ASSUME ClientInv, OneRefresh, Alone, Owned, [Next]_vars, fate' = fate
  PROVE  Alone' /\ Owned'
<1> USE NoneAssumption, ServersAssumption, SettingsAssumption, ThreadsAssumption
<1> USE DEF ClientInv, Alone, Owned, OneRefresh, TypeOK, Placed, Received, Joined, Dialled,
            Running, Places, Calling, Disconnecting, Joining, LauncherPlaces, RefreshPlaces,
            ReceivePlaces,
            At, Alive, Goto, Moves, Dies, process, threads, refreshing, connection,
            Callers, Threads
<1>1. ASSUME Start PROVE Alone' /\ Owned'
      BY <1>1 DEF Start
<1>2. ASSUME CheckServers PROVE Alone' /\ Owned'
      BY <1>2 DEF CheckServers
<1>3. ASSUME NEW c \in Callers, RefreshTest(c) PROVE Alone' /\ Owned'
      BY <1>3 DEF RefreshTest, Returns
<1>4. ASSUME NEW c \in Callers, RefreshSpawn(c) PROVE Alone' /\ Owned'
      BY <1>4 DEF RefreshSpawn, Returns
<1>5. ASSUME NEW c \in Callers, RefreshAssign(c) PROVE Alone' /\ Owned'
      BY <1>5 DEF RefreshAssign, Returns
<1>6. ASSUME NEW r \in Refreshes, RefreshOpen(r) PROVE Alone' /\ Owned'
      BY <1>6 DEF RefreshOpen
<1>7. ASSUME NEW r \in Refreshes, RefreshReceive(r) PROVE Alone' /\ Owned'
      BY <1>7 DEF RefreshReceive, HandleServerListUpdate, AfterPost
<1>8. ASSUME NEW r \in Refreshes, RefreshTimesOut(r) PROVE Alone' /\ Owned'
      BY <1>8 DEF RefreshTimesOut
<1>9. ASSUME NEW r \in Refreshes, RefreshAuto(r) PROVE Alone' /\ Owned'
      BY <1>9 DEF RefreshAuto
<1>10. ASSUME NEW r \in Refreshes, RefreshAutoUse(r) PROVE Alone' /\ Owned'
      BY <1>10, SMTT(30) DEF RefreshAutoUse
<1>11. ASSUME NEW r \in Refreshes, RefreshLoop(r) PROVE Alone' /\ Owned'
      BY <1>11 DEF RefreshLoop, Loop
<1>12. ASSUME NEW r \in Refreshes, RefreshClose(r) PROVE Alone' /\ Owned'
      BY <1>12 DEF RefreshClose
<1>13. ASSUME NEW r \in Refreshes, RefreshReturn(r) PROVE Alone' /\ Owned'
      BY <1>13 DEF RefreshReturn
<1>14. ASSUME NEW r \in Refreshes, RefreshDetach(r) PROVE Alone' /\ Owned'
      BY <1>14 DEF RefreshDetach
<1>15. ASSUME NEW r \in Refreshes, OneShot(r) PROVE Alone' /\ Owned'
      BY <1>15 DEF OneShot
<1>16. ASSUME NEW r \in Refreshes, Connect(r) PROVE Alone' /\ Owned'
      BY <1>16 DEF Connect, Returned, AfterConnect, AfterPost, PostEnds
<1>17. ASSUME NEW r \in Refreshes, ConnectSocket(r) PROVE Alone' /\ Owned'
      BY <1>17, SMTT(30) DEF ConnectSocket, Returned, AfterConnect, AfterPost, PostEnds
<1>18. ASSUME NEW r \in Refreshes, ConnectDial(r) PROVE Alone' /\ Owned'
      BY <1>18, SMTT(30) DEF ConnectDial
<1>19. ASSUME NEW r \in Refreshes, ConnectLaunch(r) PROVE Alone' /\ Owned'
  <2>1. /\ at[r] = "launch" /\ mine[r] \in Conns /\ receiver' = mine[r]
        /\ at' = [at EXCEPT ![r] = AfterConnect(r), ![mine[r]] = "start"]
        /\ UNCHANGED <<process, socket, reads, open>>
        BY <1>19 DEF ConnectLaunch
  <2>2. AfterConnect(r) \in {"auto", "loop"}
        BY DEF AfterConnect, AfterPost
  <2>3. at \in [Threads -> Places] /\ \A d \in Conns : ~Running(d)
        BY <1>19 DEF ConnectLaunch
  <2>4. \A q \in Refreshes : ~Running(q) \/ q = r
        BY <2>1
  <2> HIDE DEF Placed, Places, TypeOK, Received, Joined, Dialled, ClientInv
  <2>5. \A q \in Refreshes : at'[q] \notin {"dial", "dialled", "launch"}
        BY <2>1, <2>2, <2>3, <2>4
  <2>6. \A d \in Conns : ~Running(d)' \/ at'[d] = "start"
        BY <2>1, <2>3
  <2> QED BY <2>5, <2>6
<1>20. ASSUME NEW t \in Threads, DisconnectTest(t) PROVE Alone' /\ Owned'
      BY <1>20 DEF DisconnectTest
<1>21. ASSUME NEW t \in Threads, DisconnectUse(t) PROVE Alone' /\ Owned'
      BY <1>21, SMTT(30) DEF DisconnectUse
<1>22. ASSUME NEW t \in Threads, DisconnectReset(t) PROVE Alone' /\ Owned'
      BY <1>22 DEF DisconnectReset
<1>23. ASSUME NEW t \in Threads, DisconnectReceiver(t) PROVE Alone' /\ Owned'
      BY <1>23 DEF DisconnectReceiver, AfterDisconnect
<1>24. ASSUME NEW t \in Threads, DisconnectJoin(t) PROVE Alone' /\ Owned'
      BY <1>24 DEF DisconnectJoin
<1>25. ASSUME NEW t \in Threads, DisconnectJoined(t) PROVE Alone' /\ Owned'
      BY <1>25, SMTT(30) DEF DisconnectJoined, AfterDisconnect
<1>26. ASSUME NEW c \in Conns, ReceiveStart(c) PROVE Alone' /\ Owned'
      BY <1>26 DEF ReceiveStart
<1>27. ASSUME NEW c \in Conns, ReceiveEndpoint(c) PROVE Alone' /\ Owned'
      BY <1>27 DEF ReceiveEndpoint
<1>28. ASSUME NEW c \in Conns, ReceiveTest(c) PROVE Alone' /\ Owned'
      BY <1>28 DEF ReceiveTest
<1>29. ASSUME NEW c \in Conns, ReceiveData(c) PROVE Alone' /\ Owned'
      BY <1>29 DEF ReceiveData
<1>30. ASSUME NEW c \in Conns, ReceiveEof(c) PROVE Alone' /\ Owned'
      BY <1>30 DEF ReceiveEof
<1>31. ASSUME NEW c \in Conns, ReceiveError(c) PROVE Alone' /\ Owned'
      BY <1>31 DEF ReceiveError
<1>32. ASSUME NEW c \in Conns, NEW how \in {"finished", "reset"}, PeerLeaves(c, how)
    PROVE  Alone' /\ Owned'
      BY <1>32 DEF PeerLeaves
<1>33. ASSUME SendTest PROVE Alone' /\ Owned'
      BY <1>33 DEF SendTest
<1>34. ASSUME SendUse PROVE Alone' /\ Owned'
      BY <1>34 DEF SendUse
<1>35. ASSUME Stop PROVE Alone' /\ Owned'
      BY <1>35 DEF Stop
<1>36. ASSUME StopCheck PROVE Alone' /\ Owned'
      BY <1>36 DEF StopCheck
<1>37. ASSUME StopTest PROVE Alone' /\ Owned'
      BY <1>37 DEF StopTest
<1>38. ASSUME StopJoin PROVE Alone' /\ Owned'
      BY <1>38 DEF StopJoin
<1>39. ASSUME StopJoined PROVE Alone' /\ Owned'
      BY <1>39 DEF StopJoined
<1>40. ASSUME Delete PROVE Alone' /\ Owned'
      BY <1>40 DEF Delete
<1>41. CASE UNCHANGED vars
      BY <1>41 DEF vars
<1> HIDE DEF ClientInv, Alone, Owned, OneRefresh, TypeOK, Placed, Received, Joined, Dialled,
             Running, Places, Calling, Disconnecting, Joining, LauncherPlaces, RefreshPlaces,
             ReceivePlaces
<1> QED BY <1>1, <1>2, <1>3, <1>4, <1>5, <1>6, <1>7, <1>8, <1>9, <1>10, <1>11, <1>12, <1>13,
           <1>14, <1>15, <1>16, <1>17, <1>18, <1>19, <1>20, <1>21, <1>22, <1>23, <1>24, <1>25,
           <1>26, <1>27, <1>28, <1>29, <1>30, <1>31, <1>32, <1>33, <1>34, <1>35, <1>36, <1>37,
           <1>38, <1>39, <1>40, <1>41
           DEF Next, LauncherStep, Calls, Disconnects, RefreshStep, ReceiveStep, Over,
               Callers, Threads

LEMMA OwnedKept ==
  ASSUME ClientInv, OneRefresh, Alone, Owned, [Next]_vars
  PROVE  Alone' /\ Owned'
<1>1. CASE fate' = fate
      BY <1>1, OwnedStep
<1>2. CASE fate' # fate
  <2>1. Stays
        BY <1>2, Fatal, EndsStays DEF ClientInv
  <2> QED BY <2>1 DEF Stays, Alone, Owned, Running
<1> QED BY <1>1, <1>2

(* Until two refreshes run at once a receive thread takes down its own     *)
(* connection only.                                                        *)
THEOREM OwnConnectionOnly == Spec => []TearsDownOwn
<1> DEFINE Apart == ~overlapped => Alone /\ Owned
<1>1. Init => Single /\ Apart
      BY ThreadsAssumption
      DEF Init, Single, OneRefresh, Alone, Owned, Running, Threads, Callers
<1>2. ClientInv /\ Single /\ Apart /\ [Next]_vars => Single' /\ Apart'
  <2> SUFFICES ASSUME ClientInv, Single, Apart, [Next]_vars PROVE Single' /\ Apart'
      OBVIOUS
  <2>1. Single' /\ (overlapped => overlapped')
        BY SingleKept
  <2>2. ASSUME ~overlapped' PROVE Alone' /\ Owned'
        BY <2>1, <2>2, OwnedKept DEF Single
  <2> QED BY <2>1, <2>2
<1>3. Apart => TearsDownOwn
      BY DEF Owned, TearsDownOwn, Running
<1> HIDE DEF Apart
<1> QED BY <1>1, <1>2, <1>3, Invariance, PTL DEF Spec

-------------------------------------------------------------------------------
(* No stop, servers that stay, nobody who manages the connection, and no   *)
(* two refreshes that have run at once.                                    *)
Quiet == ~overlapped /\ active /\ ~Managed /\ \A c \in Conns : peer[c] = "up"

(* Then nobody disconnects while there is a connection, *)
Settled ==
    /\ at[Launcher] \in {"init", "idle"} \cup Calling
    /\ \A r \in Refreshes : at[r] \notin {"use", "reset"} \cup Joining /\ ~posting[r]
    /\ \A c \in Conns : Running(c) => at[c] \in {"start", "endpoint", "test", "read"}

(* there is one while somebody receives or sends, open once it is dialled, *)
Connected ==
    /\ sending = "tested" \/ receiver # None => socket # None
    /\ \A c \in Conns : Running(c) => /\ socket # None /\ open[socket]
                                      /\ at[c] # "start" => reads[c] = socket
    /\ socket # None => open[socket] \/ \E r \in Refreshes : at[r] = "dialled"

(* and a refresh connects only if there is none. *)
Connects ==
    \A r \in Refreshes :
        /\ at[r] \in {"connect", "dial", "socket", "receiver"} => socket = None
        /\ at[r] \in {"autoUse", "dialled", "launch"} => socket # None
        /\ at[r] = "launch" => open[socket]

QuietInv == Settled /\ Connected /\ Connects

(* The ends of the process that QuietSurvives excludes. *)
Tripped == {"null socket", "joined twice", "receiver overwritten", "no remote endpoint",
            "joinable thread destroyed"}

(* What is quiet has been quiet before, *)
LEMMA QuietBefore ==
  ASSUME ClientInv, Quiet', [Next]_vars
  PROVE  Quiet
<1> USE NoneAssumption, ServersAssumption, SettingsAssumption, ThreadsAssumption
<1> USE DEF Quiet, TypeOK, ClientInv,
            At, Alive, Goto, Moves, Dies, process, threads, refreshing, connection,
            Callers, Threads
<1>1. ASSUME Start \/ CheckServers \/ SendTest \/ Stop \/ StopCheck \/ StopTest \/ StopJoined
    PROVE  Quiet
      BY <1>1 DEF Start, CheckServers, SendTest, Stop, StopCheck, StopTest, StopJoined
<1>2. ASSUME NEW c \in Callers,
           RefreshTest(c) \/ RefreshSpawn(c)
    PROVE  Quiet
      BY <1>2 DEF RefreshTest, Returns, RefreshSpawn
<1>3. ASSUME NEW r \in Refreshes,
           RefreshOpen(r) \/ RefreshReceive(r) \/ RefreshTimesOut(r) \/ RefreshAuto(r) \/
           RefreshLoop(r) \/ RefreshClose(r) \/ RefreshReturn(r) \/ Connect(r)
    PROVE  Quiet
      BY <1>3 DEF RefreshOpen, RefreshReceive, HandleServerListUpdate, AfterPost,
             RefreshTimesOut, RefreshAuto, RefreshLoop, Loop, RefreshClose, RefreshReturn,
             Connect, Returned, AfterConnect, PostEnds
<1>4. ASSUME NEW t \in Threads,
           DisconnectTest(t) \/ DisconnectReset(t) \/ DisconnectReceiver(t) \/
           DisconnectJoined(t)
    PROVE  Quiet
      BY <1>4 DEF DisconnectTest, DisconnectReset, DisconnectReceiver, AfterDisconnect,
             DisconnectJoined
<1>5. ASSUME NEW c \in Conns,
           ReceiveTest(c) \/ ReceiveData(c) \/ ReceiveEof(c) \/ ReceiveError(c)
    PROVE  Quiet
      BY <1>5 DEF ReceiveTest, ReceiveData, ReceiveEof, ReceiveError
<1>6. ASSUME NEW c \in Callers, RefreshAssign(c) PROVE Quiet
      BY <1>6 DEF RefreshAssign, Returns
<1>7. ASSUME NEW r \in Refreshes, RefreshAutoUse(r) PROVE Quiet
      BY <1>7 DEF RefreshAutoUse
<1>8. ASSUME NEW r \in Refreshes, RefreshDetach(r) PROVE Quiet
      BY <1>8 DEF RefreshDetach
<1>9. ASSUME NEW r \in Refreshes, OneShot(r) PROVE Quiet
      BY <1>9 DEF OneShot
<1>10. ASSUME NEW r \in Refreshes, ConnectSocket(r) PROVE Quiet
      BY <1>10 DEF ConnectSocket, Returned, AfterConnect, AfterPost, PostEnds
<1>11. ASSUME NEW r \in Refreshes, ConnectDial(r) PROVE Quiet
  <2>1. UNCHANGED <<overlapped, active, peer>>
    <3> HIDE DEF TypeOK, ClientInv, Quiet
    <3> QED BY <1>11 DEF ConnectDial
  <2> QED BY <2>1
<1>12. ASSUME NEW r \in Refreshes, ConnectLaunch(r) PROVE Quiet
      BY <1>12 DEF ConnectLaunch, AfterConnect, AfterPost, PostEnds
<1>13. ASSUME NEW t \in Threads, DisconnectUse(t) PROVE Quiet
      BY <1>13 DEF DisconnectUse
<1>14. ASSUME NEW t \in Threads, DisconnectJoin(t) PROVE Quiet
      BY <1>14 DEF DisconnectJoin
<1>15. ASSUME NEW c \in Conns, ReceiveStart(c) PROVE Quiet
      BY <1>15 DEF ReceiveStart
<1>16. ASSUME NEW c \in Conns, ReceiveEndpoint(c) PROVE Quiet
      BY <1>16 DEF ReceiveEndpoint
<1>17. ASSUME NEW c \in Conns, NEW how \in {"finished", "reset"}, PeerLeaves(c, how)
    PROVE  Quiet
      BY <1>17 DEF PeerLeaves
<1>18. ASSUME SendUse PROVE Quiet
      BY <1>18 DEF SendUse
<1>19. ASSUME StopJoin PROVE Quiet
      BY <1>19 DEF StopJoin
<1>20. ASSUME Delete PROVE Quiet
      BY <1>20 DEF Delete
<1>21. CASE UNCHANGED vars
      BY <1>21 DEF vars
<1> HIDE DEF Quiet, TypeOK, ClientInv
<1> QED BY <1>1, <1>2, <1>3, <1>4, <1>5, <1>6, <1>7, <1>8, <1>9, <1>10, <1>11, <1>12, <1>13,
           <1>14, <1>15, <1>16, <1>17, <1>18, <1>19, <1>20, <1>21
           DEF Next, LauncherStep, Calls, Disconnects, RefreshStep, ReceiveStep, Over,
               Callers, Threads

(* for all that the connection is concerned, *)
LEMMA QuietLives ==
  ASSUME ClientInv, OneRefresh, Alone, QuietInv, Quiet, Quiet', [Next]_vars
  PROVE  fate' \in Fates \ Tripped \/ fate' = fate
<1> USE NoneAssumption, ServersAssumption, SettingsAssumption, ThreadsAssumption
<1> USE DEF ClientInv, Alone, OneRefresh, Quiet, QuietInv, Settled, Connected, Connects,
            TypeOK, Placed, Received, Joined, Dialled, Running, Fates, Tripped, Places,
            Calling, Disconnecting, Joining, LauncherPlaces, RefreshPlaces, ReceivePlaces,
            At, Alive, Goto, Moves, Dies, process, threads, refreshing, connection,
            Callers, Threads
<1>1. ASSUME Start \/ CheckServers \/ SendTest \/ Stop \/ StopCheck \/ StopTest \/ StopJoined
    PROVE  fate' \in Fates \ Tripped \/ fate' = fate
      BY <1>1 DEF Start, CheckServers, SendTest, Stop, StopCheck, StopTest, StopJoined
<1>2. ASSUME NEW c \in Callers,
           RefreshTest(c) \/ RefreshSpawn(c)
    PROVE  fate' \in Fates \ Tripped \/ fate' = fate
      BY <1>2 DEF RefreshTest, Returns, RefreshSpawn
<1>3. ASSUME NEW r \in Refreshes,
           RefreshOpen(r) \/ RefreshReceive(r) \/ RefreshTimesOut(r) \/ RefreshAuto(r) \/
           RefreshLoop(r) \/ RefreshClose(r) \/ RefreshReturn(r) \/ Connect(r)
    PROVE  fate' \in Fates \ Tripped \/ fate' = fate
      BY <1>3 DEF RefreshOpen, RefreshReceive, HandleServerListUpdate, AfterPost,
             RefreshTimesOut, RefreshAuto, RefreshLoop, Loop, RefreshClose, RefreshReturn,
             Connect, Returned, AfterConnect, PostEnds
<1>4. ASSUME NEW t \in Threads,
           DisconnectTest(t) \/ DisconnectReset(t) \/ DisconnectReceiver(t) \/
           DisconnectJoined(t)
    PROVE  fate' \in Fates \ Tripped \/ fate' = fate
      BY <1>4 DEF DisconnectTest, DisconnectReset, DisconnectReceiver, AfterDisconnect,
             DisconnectJoined
<1>5. ASSUME NEW c \in Conns,
           ReceiveTest(c) \/ ReceiveData(c) \/ ReceiveEof(c) \/ ReceiveError(c)
    PROVE  fate' \in Fates \ Tripped \/ fate' = fate
      BY <1>5 DEF ReceiveTest, ReceiveData, ReceiveEof, ReceiveError
<1>6. ASSUME NEW c \in Callers, RefreshAssign(c)
    PROVE  fate' \in Fates \ Tripped \/ fate' = fate
      BY <1>6 DEF RefreshAssign, Returns
<1>7. ASSUME NEW r \in Refreshes, RefreshAutoUse(r)
    PROVE  fate' \in Fates \ Tripped \/ fate' = fate
      BY <1>7 DEF RefreshAutoUse
<1>8. ASSUME NEW r \in Refreshes, RefreshDetach(r)
    PROVE  fate' \in Fates \ Tripped \/ fate' = fate
      BY <1>8 DEF RefreshDetach
<1>9. ASSUME NEW r \in Refreshes, OneShot(r) PROVE fate' \in Fates \ Tripped \/ fate' = fate
      BY <1>9 DEF OneShot
<1>10. ASSUME NEW r \in Refreshes, ConnectSocket(r)
    PROVE  fate' \in Fates \ Tripped \/ fate' = fate
      BY <1>10 DEF ConnectSocket, Returned, AfterConnect, AfterPost, PostEnds
<1>11. ASSUME NEW r \in Refreshes, ConnectDial(r)
    PROVE  fate' \in Fates \ Tripped \/ fate' = fate
      BY <1>11 DEF ConnectDial
<1>12. ASSUME NEW r \in Refreshes, ConnectLaunch(r)
    PROVE  fate' \in Fates \ Tripped \/ fate' = fate
      BY <1>12 DEF ConnectLaunch, AfterConnect, AfterPost, PostEnds
<1>13. ASSUME NEW t \in Threads, DisconnectUse(t)
    PROVE  fate' \in Fates \ Tripped \/ fate' = fate
      BY <1>13 DEF DisconnectUse
<1>14. ASSUME NEW t \in Threads, DisconnectJoin(t)
    PROVE  fate' \in Fates \ Tripped \/ fate' = fate
      BY <1>14 DEF DisconnectJoin
<1>15. ASSUME NEW c \in Conns, ReceiveStart(c) PROVE fate' \in Fates \ Tripped \/ fate' = fate
      BY <1>15 DEF ReceiveStart
<1>16. ASSUME NEW c \in Conns, ReceiveEndpoint(c)
    PROVE  fate' \in Fates \ Tripped \/ fate' = fate
  <2>1. Running(c) /\ at[c] # "start" /\ socket # None
        BY <1>16 DEF ReceiveEndpoint
  <2>2. reads[c] = socket /\ open[socket] /\ peer[socket] = "up"
        BY <2>1
  <2> QED BY <1>16, <2>2 DEF ReceiveEndpoint
<1>17. ASSUME NEW c \in Conns, NEW how \in {"finished", "reset"}, PeerLeaves(c, how)
    PROVE  fate' \in Fates \ Tripped \/ fate' = fate
      BY <1>17 DEF PeerLeaves
<1>18. ASSUME SendUse PROVE fate' \in Fates \ Tripped \/ fate' = fate
      BY <1>18 DEF SendUse
<1>19. ASSUME StopJoin PROVE fate' \in Fates \ Tripped \/ fate' = fate
      BY <1>19 DEF StopJoin
<1>20. ASSUME Delete PROVE fate' \in Fates \ Tripped \/ fate' = fate
      BY <1>20 DEF Delete
<1>21. CASE UNCHANGED vars
      BY <1>21 DEF vars
<1> HIDE DEF ClientInv, Alone, OneRefresh, Quiet, QuietInv, Settled, Connected, Connects,
             TypeOK, Placed, Received, Joined, Dialled, Running, Fates, Tripped, Places,
             Calling, Disconnecting, Joining, LauncherPlaces, RefreshPlaces, ReceivePlaces
<1> QED BY <1>1, <1>2, <1>3, <1>4, <1>5, <1>6, <1>7, <1>8, <1>9, <1>10, <1>11, <1>12, <1>13,
           <1>14, <1>15, <1>16, <1>17, <1>18, <1>19, <1>20, <1>21
           DEF Next, LauncherStep, Calls, Disconnects, RefreshStep, ReceiveStep, Over,
               Callers, Threads

(* and stays in the invariant. *)
LEMMA QuietStep ==
  ASSUME ClientInv, OneRefresh, Alone, QuietInv, Quiet, Quiet', [Next]_vars, fate' = fate
  PROVE  QuietInv'
<1> USE NoneAssumption, ServersAssumption, SettingsAssumption, ThreadsAssumption
<1> USE DEF ClientInv, Alone, OneRefresh, Quiet, QuietInv, Settled, Connected, Connects,
            TypeOK, Placed, Received, Joined, Dialled, Running, Places, Calling,
            Disconnecting, Joining, LauncherPlaces, RefreshPlaces, ReceivePlaces,
            At, Alive, Goto, Moves, Dies, process, threads, refreshing, connection,
            Callers, Threads
<1>1. ASSUME Start PROVE QuietInv'
      BY <1>1 DEF Start
<1>2. ASSUME CheckServers PROVE QuietInv'
      BY <1>2 DEF CheckServers
<1>3. ASSUME NEW c \in Callers, RefreshTest(c) PROVE QuietInv'
      BY <1>3 DEF RefreshTest, Returns
<1>4. ASSUME NEW c \in Callers, RefreshSpawn(c) PROVE QuietInv'
      BY <1>4, SMTT(30) DEF RefreshSpawn, Returns
<1>5. ASSUME NEW c \in Callers, RefreshAssign(c) PROVE QuietInv'
      BY <1>5 DEF RefreshAssign, Returns
<1>6. ASSUME NEW r \in Refreshes, RefreshOpen(r) PROVE QuietInv'
      BY <1>6 DEF RefreshOpen
<1>7. ASSUME NEW r \in Refreshes, RefreshReceive(r) PROVE QuietInv'
      BY <1>7 DEF RefreshReceive, HandleServerListUpdate, AfterPost
<1>8. ASSUME NEW r \in Refreshes, RefreshTimesOut(r) PROVE QuietInv'
      BY <1>8 DEF RefreshTimesOut
<1>9. ASSUME NEW r \in Refreshes, RefreshAuto(r) PROVE QuietInv'
      BY <1>9 DEF RefreshAuto
<1>10. ASSUME NEW r \in Refreshes, RefreshAutoUse(r) PROVE QuietInv'
  <2>1. socket # None /\ open[socket]
        BY <1>10 DEF RefreshAutoUse
  <2>2. Moves(r, "loop")
        BY <1>10, <2>1 DEF RefreshAutoUse
  <2> QED BY <1>10, <2>1, <2>2 DEF RefreshAutoUse
<1>11. ASSUME NEW r \in Refreshes, RefreshLoop(r) PROVE QuietInv'
      BY <1>11 DEF RefreshLoop, Loop
<1>12. ASSUME NEW r \in Refreshes, RefreshClose(r) PROVE QuietInv'
      BY <1>12 DEF RefreshClose
<1>13. ASSUME NEW r \in Refreshes, RefreshReturn(r) PROVE QuietInv'
      BY <1>13 DEF RefreshReturn
<1>14. ASSUME NEW r \in Refreshes, RefreshDetach(r) PROVE QuietInv'
      BY <1>14, SMTT(30) DEF RefreshDetach
<1>15. ASSUME NEW r \in Refreshes, OneShot(r) PROVE QuietInv'
      BY <1>15 DEF OneShot
<1>16. ASSUME NEW r \in Refreshes, Connect(r) PROVE QuietInv'
      BY <1>16, SMTT(30) DEF Connect, Returned, AfterConnect, AfterPost, PostEnds
<1>17. ASSUME NEW r \in Refreshes, ConnectSocket(r) PROVE QuietInv'
  <2>1. at[r] = "dial" /\ receiver = None /\ socket = None /\ ~posting[r]
        BY <1>17 DEF ConnectSocket
  <2>2. at \in [Threads -> Places] /\ \A d \in Conns : ~Running(d)
        BY <2>1
  <2>3. \A q \in Refreshes : ~Running(q) \/ q = r
        BY <2>1
  <2>4. CASE Returned(r)
    <3>1. /\ at' = [at EXCEPT ![r] = "loop"] /\ posting' = [posting EXCEPT ![r] = FALSE]
          /\ UNCHANGED <<process, connection>>
          BY <2>1, <2>4 DEF Returned, AfterConnect, PostEnds
    <3> HIDE DEF Placed, Places, TypeOK, Received, Joined, Dialled, ClientInv
    <3>2. \A q \in Refreshes : (at'[q] = at[q] /\ ~Running(q)) \/ at'[q] = "loop"
          BY <2>2, <2>3, <3>1
    <3>3. \A d \in Conns : ~Running(d)'
          BY <2>2, <3>1
    <3>4. at'[Launcher] = at[Launcher]
          BY <2>2, <3>1
    <3>5. Settled'
          BY <2>1, <3>1, <3>2, <3>3, <3>4 DEF Settled, Joining, Calling
    <3>6. Connected' /\ Connects'
          BY <2>1, <3>1, <3>2, <3>3 DEF Connected, Connects
    <3> QED BY <3>5, <3>6
  <2>5. CASE ~Returned(r)
    <3>1. PICK c \in Conns : socket' = c /\ at' = [at EXCEPT ![r] = "dialled"]
          BY <1>17, <2>5 DEF ConnectSocket
    <3>2. UNCHANGED <<process, receiver, reads, open, peer, posting>>
          BY <1>17, <2>5 DEF ConnectSocket
    <3> HIDE DEF Placed, Places, TypeOK, Received, Joined, Dialled, ClientInv
    <3>3. \A q \in Refreshes : (at'[q] = at[q] /\ ~Running(q)) \/ at'[q] = "dialled"
          BY <2>2, <2>3, <3>1
    <3>4. \A d \in Conns : ~Running(d)'
          BY <2>2, <3>1
    <3>5. at'[Launcher] = at[Launcher] /\ at'[r] = "dialled"
          BY <2>2, <3>1
    <3>6. Settled'
          BY <3>2, <3>3, <3>4, <3>5 DEF Settled, Joining, Calling
    <3>7. Connected' /\ Connects'
          BY <2>1, <3>1, <3>2, <3>3, <3>4, <3>5 DEF Connected, Connects
    <3> QED BY <3>6, <3>7
  <2> QED BY <2>4, <2>5
<1>18. ASSUME NEW r \in Refreshes, ConnectDial(r) PROVE QuietInv'
      BY <1>18, SMTT(30) DEF ConnectDial
<1>19. ASSUME NEW r \in Refreshes, ConnectLaunch(r) PROVE QuietInv'
  <2>1. /\ at[r] = "launch" /\ mine[r] \in Conns /\ receiver' = mine[r]
        /\ at' = [at EXCEPT ![r] = AfterConnect(r), ![mine[r]] = "start"]
        /\ UNCHANGED <<process, socket, reads, open>>
        BY <1>19 DEF ConnectLaunch
  <2>2. AfterConnect(r) \in {"auto", "loop"}
        BY DEF AfterConnect, AfterPost
  <2>3. at \in [Threads -> Places] /\ \A d \in Conns : ~Running(d)
        BY <1>19 DEF ConnectLaunch
  <2>4. \A q \in Refreshes : ~Running(q) \/ q = r
        BY <2>1
  <2>5. socket # None /\ open[socket] /\ posting' = [posting EXCEPT ![r] = FALSE]
        BY <1>19 DEF ConnectLaunch, PostEnds
  <2> HIDE DEF Placed, Places, TypeOK, Received, Joined, Dialled, ClientInv
  <2>6. \A q \in Refreshes : (at'[q] = at[q] /\ ~Running(q)) \/ at'[q] \in {"auto", "loop"}
        BY <2>1, <2>2, <2>3, <2>4
  <2>7. \A d \in Conns : ~Running(d)' \/ at'[d] = "start"
        BY <2>1, <2>3
  <2>8. at'[Launcher] = at[Launcher]
        BY <2>1, <2>3
  <2>9. Settled'
        BY <2>1, <2>3, <2>5, <2>6, <2>7, <2>8 DEF Settled, Joining, Calling
  <2>10. Connected'
        BY <2>1, <2>3, <2>5, <2>6, <2>7, <2>8 DEF Connected
  <2>11. Connects'
        BY <2>1, <2>3, <2>5, <2>6, <2>7, <2>8 DEF Connects
  <2> QED BY <2>9, <2>10, <2>11
<1>20. ASSUME NEW t \in Threads, DisconnectTest(t) PROVE QuietInv'
      BY <1>20, SMTT(30) DEF DisconnectTest
<1>21. ASSUME NEW t \in Threads, DisconnectUse(t) PROVE QuietInv'
      BY <1>21, SMTT(30) DEF DisconnectUse
<1>22. ASSUME NEW t \in Threads, DisconnectReset(t) PROVE QuietInv'
      BY <1>22, SMTT(30) DEF DisconnectReset
<1>23. ASSUME NEW t \in Threads, DisconnectReceiver(t) PROVE QuietInv'
      BY <1>23 DEF DisconnectReceiver, AfterDisconnect
<1>24. ASSUME NEW t \in Threads, DisconnectJoin(t) PROVE QuietInv'
      BY <1>24 DEF DisconnectJoin
<1>25. ASSUME NEW t \in Threads, DisconnectJoined(t) PROVE QuietInv'
      BY <1>25, SMTT(30) DEF DisconnectJoined, AfterDisconnect
<1>26. ASSUME NEW c \in Conns, ReceiveStart(c) PROVE QuietInv'
      BY <1>26, SMTT(30) DEF ReceiveStart
<1>27. ASSUME NEW c \in Conns, ReceiveEndpoint(c) PROVE QuietInv'
      BY <1>27, SMTT(30) DEF ReceiveEndpoint
<1>28. ASSUME NEW c \in Conns, ReceiveTest(c) PROVE QuietInv'
      BY <1>28 DEF ReceiveTest
<1>29. ASSUME NEW c \in Conns, ReceiveData(c) PROVE QuietInv'
      BY <1>29 DEF ReceiveData
<1>30. ASSUME NEW c \in Conns, ReceiveEof(c) PROVE QuietInv'
      BY <1>30 DEF ReceiveEof
<1>31. ASSUME NEW c \in Conns, ReceiveError(c) PROVE QuietInv'
      BY <1>31 DEF ReceiveError
<1>32. ASSUME NEW c \in Conns, NEW how \in {"finished", "reset"}, PeerLeaves(c, how)
    PROVE  QuietInv'
      BY <1>32 DEF PeerLeaves
<1>33. ASSUME SendTest PROVE QuietInv'
      BY <1>33 DEF SendTest
<1>34. ASSUME SendUse PROVE QuietInv'
      BY <1>34 DEF SendUse
<1>35. ASSUME Stop PROVE QuietInv'
      BY <1>35 DEF Stop
<1>36. ASSUME StopCheck PROVE QuietInv'
      BY <1>36 DEF StopCheck
<1>37. ASSUME StopTest PROVE QuietInv'
      BY <1>37 DEF StopTest
<1>38. ASSUME StopJoin PROVE QuietInv'
      BY <1>38 DEF StopJoin
<1>39. ASSUME StopJoined PROVE QuietInv'
      BY <1>39 DEF StopJoined
<1>40. ASSUME Delete PROVE QuietInv'
      BY <1>40 DEF Delete
<1>41. CASE UNCHANGED vars
      BY <1>41 DEF vars
<1> HIDE DEF ClientInv, Alone, OneRefresh, Quiet, QuietInv, Settled, Connected, Connects,
             TypeOK, Placed, Received, Joined, Dialled, Running, Places, Calling,
             Disconnecting, Joining, LauncherPlaces, RefreshPlaces, ReceivePlaces
<1> QED BY <1>1, <1>2, <1>3, <1>4, <1>5, <1>6, <1>7, <1>8, <1>9, <1>10, <1>11, <1>12, <1>13,
           <1>14, <1>15, <1>16, <1>17, <1>18, <1>19, <1>20, <1>21, <1>22, <1>23, <1>24, <1>25,
           <1>26, <1>27, <1>28, <1>29, <1>30, <1>31, <1>32, <1>33, <1>34, <1>35, <1>36, <1>37,
           <1>38, <1>39, <1>40, <1>41
           DEF Next, LauncherStep, Calls, Disconnects, RefreshStep, ReceiveStep, Over,
               Callers, Threads

(* The connection of a client that is left alone never brings the process  *)
(* down, whatever the refreshes that follow one another and the component  *)
(* that broadcasts do.                                                     *)
THEOREM QuietNeverTrips == Spec => []QuietSurvives
<1> DEFINE Kept == Quiet => Alone /\ Owned /\ QuietInv /\ fate \notin Tripped
<1>1. Init => Single /\ Kept
  <2> SUFFICES ASSUME Init PROVE Single /\ Kept
      OBVIOUS
  <2>1. Single /\ Alone /\ Owned
        BY ThreadsAssumption
        DEF Init, Single, OneRefresh, Alone, Owned, Running, Threads, Callers
  <2>2. Settled /\ Connected /\ Connects /\ fate \notin Tripped
        BY ThreadsAssumption
        DEF Init, Settled, Connected, Connects, Running, Threads, Callers, Calling, Joining, Tripped
  <2> QED BY <2>1, <2>2 DEF QuietInv
<1>2. ClientInv /\ Single /\ Kept /\ [Next]_vars => Single' /\ Kept'
  <2> SUFFICES ASSUME ClientInv, Single, Kept, [Next]_vars PROVE Single' /\ Kept'
      OBVIOUS
  <2>1. Single'
        BY SingleKept
  <2>2. ASSUME Quiet' PROVE (Alone /\ Owned /\ QuietInv /\ fate \notin Tripped)'
    <3>1. Quiet
          BY <2>2, QuietBefore
    <3>2. Alone /\ Owned /\ QuietInv /\ fate \notin Tripped
          BY <3>1
    <3>3. OneRefresh
          BY <3>1 DEF Quiet, Single
    <3>4. Alone' /\ Owned'
          BY <3>2, <3>3, OwnedKept
    <3>5. fate' \notin Tripped
          BY <2>2, <3>1, <3>2, <3>3, QuietLives
    <3>6. CASE fate' = fate
          BY <2>2, <3>1, <3>2, <3>3, <3>4, <3>5, <3>6, QuietStep
    <3>7. CASE fate' # fate
      <4>1. Stays
            BY <3>7, Fatal, EndsStays DEF ClientInv
      <4>2. QuietInv'
            BY <3>2, <4>1 DEF Stays, QuietInv, Settled, Connected, Connects, Running
      <4> QED BY <3>4, <3>5, <4>2
    <3> QED BY <3>6, <3>7
  <2> QED BY <2>1, <2>2
<1>3. Kept => QuietSurvives
      BY DEF Quiet, QuietSurvives, Tripped
<1> HIDE DEF Kept
<1> QED BY <1>1, <1>2, <1>3, Invariance, PTL DEF Spec
===============================================================================

-------------------------------- MODULE Client --------------------------------
(***************************************************************************)
(* The network client component (networking/client/src/Client.cpp). Its    *)
(* fields are shared without a lock by five kinds of threads: the          *)
(* launcher's (start, stop, destructor), the thread of the periodic server *)
(* check, one thread per refresh of the server list (getServerList), one   *)
(* receive thread per connection (receiveData), and that of a component    *)
(* that broadcasts. Every access to m_refreshServerListThread,             *)
(* m_serverSocket and m_recvData is a step of its own.                     *)
(*                                                                         *)
(* What std::thread and shared_ptr do with a wrong use (assigning to a     *)
(* joinable thread, joining or detaching one that is not, a null pointer)  *)
(* ends the process with a fate. Messages, addresses and update ids are    *)
(* left out: a list has servers in it or it has none.                      *)
(***************************************************************************)
EXTENDS Naturals

CONSTANTS Launcher, Check,   \* the launcher's and the periodic timer's threads
          Refreshes,         \* bound: refreshes of the server list, their threads
          Conns,             \* bound: connections, each with its socket and thread
          None,              \* no thread, no socket
          MaxNbrOfServers,   \* m_maxNbrOfServers
          PeriodicCheck,     \* m_serverCheckPeriodMs is not 0
          AutoConnect,       \* m_autoConnect
          Managed,           \* a NetworkTestApp with m_manageConnection is there
          Broadcasts         \* whether a component broadcasts

ASSUME NoneAssumption == None \notin {Launcher, Check} \cup Refreshes \cup Conns
ASSUME ServersAssumption == MaxNbrOfServers \in Nat \ {0}
ASSUME SettingsAssumption ==
    PeriodicCheck \in BOOLEAN /\ AutoConnect \in BOOLEAN /\ Managed \in BOOLEAN

Callers == {Launcher, Check}
Threads == Callers \cup Refreshes \cup Conns

ASSUME ThreadsAssumption == /\ Launcher # Check
                            /\ Callers \cap Refreshes = {}
                            /\ Callers \cap Conns = {}
                            /\ Refreshes \cap Conns = {}

VARIABLES active,    \* m_isActive
          io,        \* m_ioContext exists
          check,     \* m_serverCheckTimer is armed
          sending,   \* where the broadcasting component's thread is
          fate,      \* "running", or why the process has died
          overlapped \* history: two refreshes have run at once
VARIABLES at,        \* at[t]: where thread t is
          fresh,     \* fresh[c]: the thread caller c has made and not assigned yet
          target     \* target[t]: the thread t is joining
VARIABLES refresher, \* m_refreshServerListThread
          detected,  \* m_detectedServers is not empty
          got,       \* got[r]: serverCount
          shut,      \* shut[r]: the socket of refresh r has been shut down
          oneShot,   \* oneShot[r]: its one shot timer
          posting    \* posting[r]: it is inside of its post of UPDATE_SERVER_LIST
VARIABLES socket,    \* m_serverSocket
          receiver,  \* m_recvData
          mine,      \* mine[r]: the connection refresh r is making
          reads,     \* reads[c]: the socket the receive thread c was given
          open,      \* open[c]: socket c is open
          peer       \* peer[c]: the server's end of it

process    == <<active, io, check, sending, fate, overlapped>>
threads    == <<at, fresh, target>>
refreshing == <<refresher, detected, got, shut, oneShot, posting>>
connection == <<socket, receiver, mine, reads, open, peer>>
vars       == <<process, threads, refreshing, connection>>

Init ==
    /\ active = TRUE /\ io = FALSE /\ check = PeriodicCheck /\ sending = "idle" /\ fate = "running"
    /\ overlapped = FALSE
    /\ at = [t \in Threads |-> IF t = Launcher THEN "init"
                               ELSE IF t = Check THEN "wait" ELSE "none"]
    /\ fresh = [c \in Callers |-> None] /\ target = [t \in Threads |-> None]
    /\ refresher = None /\ detected = FALSE /\ got = [r \in Refreshes |-> 0]
    /\ shut = [r \in Refreshes |-> FALSE] /\ oneShot = [r \in Refreshes |-> "off"]
    /\ posting = [r \in Refreshes |-> FALSE]
    /\ socket = None /\ receiver = None /\ mine = [r \in Refreshes |-> None]
    /\ reads = [c \in Conns |-> None] /\ open = [c \in Conns |-> FALSE]
    /\ peer = [c \in Conns |-> "up"]

Alive      == fate = "running" /\ at[Launcher] # "deleted"
At(t, p)   == Alive /\ at[t] = p
Running(t) == at[t] \notin {"none", "ended"}
Goto(t, p) == at' = [at EXCEPT ![t] = p]
Dies(why)  ==
    fate' = why /\ UNCHANGED <<active, io, check, sending, overlapped, threads, refreshing, connection>>

(* The common step: one thread moves on and nothing else changes. *)
Moves(t, p) == Goto(t, p) /\ UNCHANGED <<process, fresh, target, refreshing, connection>>

-------------------------------------------------------------------------------
(* start: the io context and its thread, then the first refresh (95-106).  *)
Start ==
    /\ At(Launcher, "init") /\ Goto(Launcher, "refresh") /\ io' = TRUE
    /\ UNCHANGED <<active, check, sending, fate, overlapped, fresh, target, refreshing, connection>>

(* The periodic timer of init, which runs before start as well (84-90). *)
CheckServers == At(Check, "wait") /\ check /\ Moves(Check, "refresh")

Returns(c) == IF c = Launcher THEN "idle" ELSE "wait"

(* refreshServerList: is a refresh running (143), *)
RefreshTest(c) ==
    /\ At(c, "refresh")
    /\ Moves(c, IF active /\ refresher = None /\ (\E r \in Refreshes : at[r] = "none")
                THEN "spawn" ELSE Returns(c))

(* the new thread (145-153), *)
RefreshSpawn(c) ==
    /\ At(c, "spawn")
    /\ \/ \E r \in Refreshes :
            /\ at[r] = "none"
            /\ at' = [at EXCEPT ![c] = "assign", ![r] = "open"]
            /\ fresh' = [fresh EXCEPT ![c] = r]
            /\ overlapped' = (overlapped \/ \E q \in Refreshes : Running(q))
       \/ /\ \A r \in Refreshes : at[r] # "none"
          /\ Goto(c, Returns(c)) /\ UNCHANGED <<fresh, overlapped>>
    /\ UNCHANGED <<active, io, check, sending, fate, target, refreshing, connection>>

(* and its assignment, which a joinable thread does not survive (145).     *)
RefreshAssign(c) ==
    /\ At(c, "assign")
    /\ IF refresher # None
       THEN Dies("refresher overwritten")
       ELSE /\ refresher' = fresh[c] /\ Goto(c, Returns(c))
            /\ fresh' = [fresh EXCEPT ![c] = None]
            /\ UNCHANGED <<process, target, detected, got, shut, oneShot, posting, connection>>

-------------------------------------------------------------------------------
(* getServerList: the socket, its timer, the ping, a fresh list (163-190). *)
RefreshOpen(r) ==
    /\ At(r, "open") /\ Goto(r, "receive")
    /\ oneShot' = [oneShot EXCEPT ![r] = "armed"] /\ detected' = FALSE
    /\ UNCHANGED <<process, fresh, target, refresher, got, shut, posting, connection>>

(* while (serverCount < m_maxNbrOfServers) (192). *)
Loop(r) == IF got[r] < MaxNbrOfServers THEN "receive" ELSE "close"

AfterPost == IF AutoConnect THEN "auto" ELSE "loop"

(* An application that manages the connection answers UPDATE_SERVER_LIST   *)
(* on the same thread with CONNECT_TO_SERVER, whether there is a           *)
(* connection or not (NetworkTestApp.cpp 123-155).                         *)
HandleServerListUpdate(r) ==
    /\ Goto(r, IF Managed THEN "connect" ELSE AfterPost)
    /\ posting' = [posting EXCEPT ![r] = Managed]

(* A server that is not in the list yet answers; the list is posted        *)
(* (196-213).                                                              *)
RefreshReceive(r) ==
    /\ At(r, "receive") /\ ~shut[r]
    /\ got' = [got EXCEPT ![r] = @ + 1] /\ detected' = TRUE
    /\ HandleServerListUpdate(r)
    /\ UNCHANGED <<process, fresh, target, refresher, shut, oneShot, connection>>

(* The socket was shut down: receive_from returns nothing (225-229). *)
RefreshTimesOut(r) == At(r, "receive") /\ shut[r] /\ Moves(r, "close")

(* Auto connect, if there is no connection: is the pointer null (215), *)
RefreshAuto(r) == At(r, "auto") /\ Moves(r, IF socket = None THEN "connect" ELSE "autoUse")

(* Mutation: a server that answers replaces the connection there is. *)
RefreshAutoAlways(r) == At(r, "autoUse") /\ Moves(r, "connect")

(* or its socket closed (215)? *)
RefreshAutoUse(r) ==
    /\ At(r, "autoUse")
    /\ IF socket = None THEN Dies("null socket")
       ELSE Moves(r, IF open[socket] THEN "loop" ELSE "connect")

RefreshLoop(r) == At(r, "loop") /\ Moves(r, Loop(r))

(* cancelTimer(timer), the socket is closed (232-236) *)
RefreshClose(r) == At(r, "close") /\ Moves(r, "return")

(* and, when getServerList returns, gone (239). *)
RefreshReturn(r) == At(r, "return") /\ Moves(r, "detach")

(* The thread makes m_refreshServerListThread not joinable (150-152). *)
RefreshDetach(r) ==
    /\ At(r, "detach")
    /\ IF refresher = None THEN Dies("detached twice")
       ELSE /\ refresher' = None /\ Goto(r, "ended")
            /\ UNCHANGED <<process, fresh, target, detected, got, shut, oneShot, posting, connection>>

(* Mutation: the handler of the one shot timer only logs. *)
OneShotLogs(r) ==
    /\ Alive /\ oneShot[r] = "armed"
    /\ oneShot' = [oneShot EXCEPT ![r] = "done"]
    /\ UNCHANGED <<process, threads, refresher, detected, got, shut, posting, connection>>

(* The handler of the one shot timer runs when it expires, and also when   *)
(* it is cancelled. It refers to the socket of getServerList, which may be *)
(* gone by then (172-183).                                                 *)
OneShot(r) ==
    /\ Alive /\ oneShot[r] = "armed"
    /\ oneShot' = [oneShot EXCEPT ![r] = "done"]
    /\ IF at[r] \in {"detach", "ended"}
       THEN fate' \in {"running", "dangling socket"} /\ UNCHANGED shut
       ELSE shut' = [shut EXCEPT ![r] = TRUE] /\ UNCHANGED fate
    /\ UNCHANGED <<active, io, check, sending, overlapped, threads, refresher, detected, got,
                   posting, connection>>

-------------------------------------------------------------------------------
(* connectToServer, for the post or for auto connect, goes back to either. *)
AfterConnect(r) == IF posting[r] THEN AfterPost ELSE "loop"
PostEnds(r) == posting' = [posting EXCEPT ![r] = FALSE]
Returned(r) ==
    /\ Goto(r, AfterConnect(r)) /\ PostEnds(r)
    /\ UNCHANGED <<process, fresh, target, refresher, detected, got, shut, oneShot, connection>>

(* The list may have been cleared (342-346), else any connection there is  *)
(* goes first (354).                                                       *)
Connect(r) ==
    At(r, "connect") /\ (IF detected THEN Moves(r, "socket") ELSE Returned(r))

(* The new socket, not open yet (358), *)
ConnectSocket(r) ==
    /\ At(r, "dial")
    /\ IF ~io THEN Dies("no io context")
       ELSE \/ \E c \in Conns \ {mine[q] : q \in Refreshes} :
                 /\ at[c] = "none"
                 /\ socket' = c /\ mine' = [mine EXCEPT ![r] = c] /\ Goto(r, "dialled")
                 /\ UNCHANGED <<process, fresh, target, refreshing, receiver, reads, open, peer>>
            \/ /\ \A c \in Conns : at[c] # "none" \/ \E q \in Refreshes : mine[q] = c
               /\ Returned(r)

(* is connected, unless the server is gone, which throws (359-360), *)
ConnectDial(r) ==
    /\ At(r, "dialled")
    /\ \/ socket = None /\ Dies("null socket")
       \/ socket # None /\ Dies("not connected")
       \/ /\ socket # None
          /\ open' = [open EXCEPT ![socket] = TRUE] /\ Goto(r, "launch")
          /\ UNCHANGED <<process, fresh, target, refreshing, socket, receiver, mine, reads, peer>>

(* and gets a thread that receives (362). *)
ConnectLaunch(r) ==
    /\ At(r, "launch")
    /\ IF receiver # None THEN Dies("receiver overwritten")
       ELSE /\ receiver' = mine[r] /\ PostEnds(r)
            /\ at' = [at EXCEPT ![r] = AfterConnect(r), ![mine[r]] = "start"]
            /\ UNCHANGED <<process, fresh, target, refresher, detected, got, shut, oneShot,
                           socket, mine, reads, open, peer>>

-------------------------------------------------------------------------------
(* disconnect, called by stop, connectToServer and receiveData.            *)
AfterDisconnect(t) == IF t = Launcher THEN "cancel" ELSE IF t \in Refreshes THEN "dial" ELSE "ended"

(* Is there a socket (371)? *)
DisconnectTest(t) == At(t, "socket") /\ Moves(t, IF socket = None THEN "receiver" ELSE "use")

(* It is closed if it is open (375-381), *)
DisconnectUse(t) ==
    /\ At(t, "use")
    /\ IF socket = None THEN Dies("null socket")
       ELSE /\ open' = [open EXCEPT ![socket] = FALSE] /\ Goto(t, "reset")
            /\ UNCHANGED <<process, fresh, target, refreshing, socket, receiver, mine, reads, peer>>

(* and dropped; a socket nobody else holds closes (382). *)
DisconnectReset(t) ==
    /\ At(t, "reset") /\ Goto(t, "receiver") /\ socket' = None
    /\ open' = [c \in Conns |-> open[c] /\ (c # socket \/ \E d \in Conns : reads[d] = c)]
    /\ UNCHANGED <<process, fresh, target, refreshing, receiver, mine, reads, peer>>

(* Mutation: the receive thread is detached, not joined. *)
DisconnectDetaches(t) ==
    /\ At(t, "receiver") /\ Goto(t, AfterDisconnect(t)) /\ receiver' = None
    /\ UNCHANGED <<process, fresh, target, refreshing, socket, mine, reads, open, peer>>

(* Is there a receive thread, other than this one (385-386)? *)
DisconnectReceiver(t) ==
    At(t, "receiver") /\ Moves(t, IF receiver \in {None, t} THEN AfterDisconnect(t) ELSE "join")

(* It is joined; nobody else may have done so or be doing so (388). *)
DisconnectJoin(t) ==
    /\ At(t, "join")
    /\ IF receiver = None \/ \E u \in Threads : target[u] = receiver
       THEN Dies("joined twice")
       ELSE /\ target' = [target EXCEPT ![t] = receiver] /\ Goto(t, "joining")
            /\ UNCHANGED <<process, fresh, refreshing, connection>>

DisconnectJoined(t) ==
    /\ At(t, "joining") /\ at[target[t]] = "ended"
    /\ receiver' = None /\ target' = [target EXCEPT ![t] = None] /\ Goto(t, AfterDisconnect(t))
    /\ UNCHANGED <<process, fresh, refreshing, socket, mine, reads, open, peer>>

-------------------------------------------------------------------------------
(* receiveData gets m_serverSocket as it is when its thread runs (362). *)
ReceiveStart(c) ==
    /\ At(c, "start")
    /\ IF socket = None THEN Dies("null socket")
       ELSE /\ reads' = [reads EXCEPT ![c] = socket] /\ Goto(c, "endpoint")
            /\ UNCHANGED <<process, fresh, target, refreshing, socket, receiver, mine, open, peer>>

(* remote_endpoint throws if there is none (274). *)
ReceiveEndpoint(c) ==
    /\ At(c, "endpoint")
    /\ IF ~open[reads[c]] \/ peer[reads[c]] = "reset" THEN Dies("no remote endpoint")
       ELSE Moves(c, "test")

(* Mutation: m_isActive is not looked at. *)
ReceiveTestOpen(c) ==
    At(c, "test") /\ Moves(c, IF open[reads[c]] THEN "read" ELSE "socket")

(* while (sock->is_open() and m_isActive) (279). *)
ReceiveTest(c) ==
    At(c, "test") /\ Moves(c, IF open[reads[c]] /\ active THEN "read" ELSE "socket")

(* read_some: data, posted or skipped, and the end of the stream both go   *)
(* on (284-291, 298-327), an error does not (292-296).                     *)
ReceiveData(c) == At(c, "read") /\ open[reads[c]] /\ peer[reads[c]] = "up" /\ Moves(c, "test")

ReceiveEof(c) == At(c, "read") /\ peer[reads[c]] = "finished" /\ Moves(c, "test")

ReceiveError(c) ==
    /\ At(c, "read") /\ (~open[reads[c]] \/ peer[reads[c]] = "reset")
    /\ Moves(c, "socket")

(* The server closes the connection, or the connection breaks. *)
PeerLeaves(c, how) ==
    /\ Alive /\ open[c] /\ peer[c] = "up" /\ peer' = [peer EXCEPT ![c] = how]
    /\ UNCHANGED <<process, threads, refreshing, socket, receiver, mine, reads, open>>

-------------------------------------------------------------------------------
(* sendBroadcast: is there an open connection (244), *)
SendTest ==
    /\ Alive /\ Broadcasts /\ sending = "idle" /\ active /\ socket # None
    /\ sending' = "tested"
    /\ UNCHANGED <<active, io, check, fate, overlapped, threads, refreshing, connection>>

(* and, if so, async_send on it (244, 263). *)
SendUse ==
    /\ Alive /\ sending = "tested"
    /\ IF socket = None THEN Dies("null socket")
       ELSE /\ sending' = "idle"
            /\ UNCHANGED <<active, io, check, fate, overlapped, threads, refreshing, connection>>

-------------------------------------------------------------------------------
(* stop: not active any more, disconnect (115-117), *)
Stop ==
    /\ At(Launcher, "idle") /\ Goto(Launcher, "socket") /\ active' = FALSE
    /\ UNCHANGED <<io, check, sending, fate, overlapped, fresh, target, refreshing, connection>>

(* the timer of the server check (119-122), *)
StopCheck ==
    /\ At(Launcher, "cancel") /\ Goto(Launcher, "joinable") /\ check' = FALSE
    /\ UNCHANGED <<active, io, sending, fate, overlapped, fresh, target, refreshing, connection>>

(* is a refresh running (124)? *)
StopTest ==
    At(Launcher, "joinable") /\ Moves(Launcher, IF refresher = None THEN "stopped" ELSE "joinRefresh")

(* It is joined, if it has not detached itself since (126). *)
StopJoin ==
    /\ At(Launcher, "joinRefresh")
    /\ IF refresher = None THEN Dies("joined twice")
       ELSE /\ target' = [target EXCEPT ![Launcher] = refresher] /\ Goto(Launcher, "joiningRefresh")
            /\ UNCHANGED <<process, fresh, refreshing, connection>>

(* Then the io thread is joined as well (129-134). That join is part of    *)
(* this step and taken to return: a broadcast that a server does not read  *)
(* would keep the thread, and it is not modelled.                          *)
StopJoined ==
    /\ At(Launcher, "joiningRefresh") /\ at[target[Launcher]] = "ended"
    /\ refresher' = None /\ target' = [target EXCEPT ![Launcher] = None]
    /\ Goto(Launcher, "stopped")
    /\ UNCHANGED <<process, fresh, detected, got, shut, oneShot, posting, connection>>

(* The launcher deletes the component: a joinable std::thread is not       *)
(* destroyed in peace.                                                     *)
Delete ==
    /\ At(Launcher, "stopped")
    /\ IF refresher # None \/ receiver # None THEN Dies("joinable thread destroyed")
       ELSE Moves(Launcher, "deleted")

Over == ~Alive /\ UNCHANGED vars

-------------------------------------------------------------------------------
Calls(c) == RefreshTest(c) \/ RefreshSpawn(c) \/ RefreshAssign(c)

Disconnects(t) == DisconnectTest(t) \/ DisconnectUse(t) \/ DisconnectReset(t)
                  \/ DisconnectReceiver(t) \/ DisconnectJoin(t) \/ DisconnectJoined(t)

LauncherStep == Start \/ Calls(Launcher) \/ Disconnects(Launcher) \/ StopCheck \/ StopTest
                \/ StopJoin \/ StopJoined \/ Delete

RefreshStep(r) ==
    \/ RefreshOpen(r) \/ RefreshTimesOut(r) \/ RefreshAuto(r) \/ RefreshAutoUse(r)
    \/ RefreshLoop(r) \/ RefreshClose(r) \/ RefreshReturn(r) \/ RefreshDetach(r)
    \/ Connect(r) \/ ConnectSocket(r) \/ ConnectDial(r) \/ ConnectLaunch(r) \/ Disconnects(r)

ReceiveStep(c) == ReceiveStart(c) \/ ReceiveEndpoint(c) \/ ReceiveTest(c) \/ ReceiveEof(c)
                  \/ ReceiveError(c) \/ Disconnects(c)

Next ==
    \/ LauncherStep \/ Stop \/ CheckServers \/ Calls(Check) \/ SendTest \/ SendUse \/ Over
    \/ \E r \in Refreshes : RefreshStep(r) \/ RefreshReceive(r) \/ OneShot(r)
    \/ \E c \in Conns :
          ReceiveStep(c) \/ ReceiveData(c) \/ \E how \in {"finished", "reset"} : PeerLeaves(c, how)

Spec == Init /\ [][Next]_vars

(* Every thread of the client runs and its timers fire. Servers answer,    *)
(* send and leave as they like, and stop comes when it comes.              *)
FairSpec ==
    /\ Spec /\ WF_vars(LauncherStep) /\ WF_vars(Calls(Check)) /\ WF_vars(SendUse)
    /\ \A r \in Refreshes : WF_vars(RefreshStep(r)) /\ WF_vars(OneShot(r))
    /\ \A c \in Conns : WF_vars(ReceiveStep(c))
-------------------------------------------------------------------------------
TypeOK ==
    /\ active \in BOOLEAN /\ io \in BOOLEAN /\ check \in BOOLEAN /\ detected \in BOOLEAN
    /\ overlapped \in BOOLEAN
    /\ sending \in {"idle", "tested"}
    /\ fate \in {"running", "refresher overwritten", "receiver overwritten", "detached twice",
                 "joined twice", "joinable thread destroyed", "dangling socket", "null socket",
                 "no io context", "not connected", "no remote endpoint"}
    /\ fresh \in [Callers -> Refreshes \cup {None}]
    /\ target \in [Threads -> Refreshes \cup Conns \cup {None}]
    /\ refresher \in Refreshes \cup {None} /\ got \in [Refreshes -> 0..MaxNbrOfServers]
    /\ shut \in [Refreshes -> BOOLEAN] /\ oneShot \in [Refreshes -> {"off", "armed", "done"}]
    /\ posting \in [Refreshes -> BOOLEAN]
    /\ socket \in Conns \cup {None} /\ receiver \in Conns \cup {None}
    /\ mine \in [Refreshes -> Conns \cup {None}] /\ reads \in [Conns -> Conns \cup {None}]
    /\ open \in [Conns -> BOOLEAN] /\ peer \in [Conns -> {"up", "finished", "reset"}]

(* There is never more than one receive thread: connectToServer makes one  *)
(* only after disconnect has joined the one before (354, 362, 385-388).    *)
OneReceiver == \A c, d \in Conns : Running(c) /\ Running(d) => c = d

(* As long as no two refreshes of the server list have run at once (which  *)
(* nothing prevents: 143 tests without a lock), a receive thread that      *)
(* disconnects takes down its own connection (331), not one that was made  *)
(* since.                                                                  *)
TearsDownOwn ==
    ~overlapped => \A c \in Conns : at[c] \in {"use", "reset"} => socket \in {None, reads[c]}

(* Without a stop, with servers that stay and nobody who manages the       *)
(* connection, refreshes of which no two have run at once do not trip over *)
(* the connection, whoever broadcasts meanwhile (244, 354-362).            *)
QuietSurvives ==
    (~overlapped /\ active /\ ~Managed /\ \A c \in Conns : peer[c] = "up") =>
        fate \notin {"null socket", "joined twice", "receiver overwritten", "no remote endpoint",
                    "joinable thread destroyed"}

(* Every refresh of the server list ends, also when no server answers and  *)
(* when it waits for the receive thread of an old connection: the one shot *)
(* timer sees to the first, the closed socket to the second.               *)
RefreshEnds == \A r \in Refreshes : (at[r] = "open") ~> (at[r] = "ended" \/ ~Alive)

(* stop returns (115-134, but for the join of the io thread), also when a  *)
(* refresh makes a new connection while stop takes the old one down: the   *)
(* new receive thread sees that the client is not active any more,         *)
(* although nobody closes its socket.                                      *)
StopReturns == (at[Launcher] = "socket") ~> (at[Launcher] = "stopped" \/ ~Alive)
===============================================================================

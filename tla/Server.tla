-------------------------------- MODULE Server --------------------------------
(***************************************************************************)
(* The network server component (networking/server/src/Server.cpp). Four   *)
(* kinds of threads: the launcher's (start, stop), the thread that runs    *)
(* m_ioContext (accepts connections, completes sends), the advertising     *)
(* thread (answers UDP pings) and one runner per connection (receiveData). *)
(*                                                                         *)
(* What a thread does under m_clientsMutex is one step; what it does       *)
(* between two accesses to shared state, or between a test of m_isActive   *)
(* and its use, is another. Of what a peer sends there is some, or none;   *)
(* what a read makes of it is in Framing, and both together in Network.    *)
(* Ids, addresses and logging are left out.                                *)
(***************************************************************************)
CONSTANTS Conns,    \* TCP connections, each made once
          Pingers,  \* network clients that send one UDP ping each
          Nobody    \* no pinger

ASSUME NobodyAssumption == Nobody \notin Pingers

VARIABLES active,     \* m_isActive
          acceptor,   \* m_acceptor: "none", "open", "closed"
          accepting,  \* an async_accept is pending
          guard,      \* m_workGuard keeps the io context running
          io,         \* the thread of m_ioContext
          newcomer,   \* the connection whose accept handler is running
          runner,     \* runner[c]: where the thread of connection c is
          open,       \* open[c]: the server's socket of c is open
          clients,    \* m_connectedClients
          sending,    \* sending[c]: an async_send on c is pending
          peer,       \* peer[c]: what the other end of c has done
          inbox,      \* inbox[c]: "data" from the peer that is not read yet, or "empty"
          spc,        \* the launcher's thread in start and stop
          fate        \* "running", or why the process has died

launcher  == <<active, spc, fate>>
listening == <<acceptor, accepting, guard, io, newcomer>>
sockets   == <<runner, open, clients, sending>>
wire      == <<peer, inbox>>

VARIABLES multicast,  \* m_multicastSocket: "null", "created", "open", "closed"
          adv,        \* the advertising thread
          endpoint,   \* multicast_client_endpoint
          received,   \* a receive has completed, its handler has not run yet
          pings,      \* pings that wait in the socket's buffer
          answered    \* history: pingers that were sent a pong

udp == <<multicast, adv, endpoint, received, pings, answered>>

vars == <<launcher, listening, sockets, wire, udp>>

Init ==
    /\ active = TRUE /\ acceptor = "none" /\ accepting = FALSE /\ guard = FALSE
    /\ io = "none" /\ newcomer = {}
    /\ runner = [c \in Conns |-> "none"] /\ open = [c \in Conns |-> FALSE]
    /\ clients = {} /\ sending = [c \in Conns |-> FALSE]
    /\ peer = [c \in Conns |-> "away"] /\ inbox = [c \in Conns |-> "empty"]
    /\ spc = "initialized" /\ fate = "running"
    /\ multicast = "null" /\ adv = "none" /\ endpoint = Nobody
    /\ received = FALSE /\ pings = {} /\ answered = {}

Dies(why) == fate' = why /\ UNCHANGED <<active, spc, listening, sockets, wire, udp>>

-------------------------------------------------------------------------------
(* start: the acceptor, the first async_accept, the advertising thread,    *)
(* the work guard and the thread of the io context (69-85, 253-280).       *)
Start ==
    /\ fate = "running" /\ spc = "initialized"
    /\ spc' = "serving" /\ acceptor' = "open" /\ accepting' = active
    /\ guard' = TRUE /\ io' = "run" /\ adv' = "spawned"
    /\ UNCHANGED <<active, fate, newcomer, sockets, wire,
                   multicast, endpoint, received, pings, answered>>

(* What sendBroadcast does to the connections: an async_send on every      *)
(* registered socket that is open (152-169).                               *)
SendToAll == sending' = [c \in Conns |-> sending[c] \/ (c \in clients /\ open[c])]

(* A component posts a message the server broadcasts. Before start there   *)
(* is no m_clientsMutex to lock (145-152).                                 *)
Broadcast ==
    /\ fate = "running"
    /\ IF spc = "initialized"
       THEN Dies("no mutex")
       ELSE /\ SendToAll
            /\ UNCHANGED <<launcher, listening, runner, open, clients, wire, udp>>

-------------------------------------------------------------------------------
(* The other ends. *)
PeerConnects(c) ==
    /\ peer[c] = "away" /\ acceptor = "open"
    /\ peer' = [peer EXCEPT ![c] = "connected"]
    /\ UNCHANGED <<launcher, listening, sockets, inbox, udp>>

PeerSends(c) ==
    /\ fate = "running" /\ peer[c] = "connected"
    /\ inbox' = [inbox EXCEPT ![c] = "data"]
    /\ UNCHANGED <<launcher, listening, sockets, peer, udp>>

(* It closes the connection ("finished"), or the connection breaks ("reset").*)
PeerLeaves(c, how) ==
    /\ fate = "running" /\ peer[c] = "connected"
    /\ peer' = [peer EXCEPT ![c] = how]
    /\ inbox' = [inbox EXCEPT ![c] = IF how = "reset" THEN "empty" ELSE @]
    /\ UNCHANGED <<launcher, listening, sockets, udp>>

-------------------------------------------------------------------------------
(* m_ioContext->run() returns as soon as nothing is pending (82). *)
RunsOn(g, a, sends) == IF g \/ a \/ (\E c \in Conns : sends[c]) THEN "run" ELSE "done"

(* The accept handler: an error or a server that is stopping ends the      *)
(* chain of accepts, and the socket is dropped (263-270).                  *)
IoAccept(c) ==
    /\ fate = "running" /\ io = "run" /\ accepting /\ acceptor = "open"
    /\ peer[c] # "away" /\ runner[c] = "none" /\ c \notin newcomer
    /\ accepting' = FALSE
    /\ IF active
       THEN io' = "listen" /\ newcomer' = {c} /\ open' = [open EXCEPT ![c] = TRUE] /\ UNCHANGED runner
       ELSE /\ runner' = [runner EXCEPT ![c] = "refused"]
            /\ io' = RunsOn(guard, FALSE, sending)
            /\ UNCHANGED <<newcomer, open>>
    /\ UNCHANGED <<launcher, acceptor, guard, clients, sending, wire, udp>>

IoAcceptError ==
    /\ fate = "running" /\ io = "run" /\ accepting /\ acceptor = "closed"
    /\ accepting' = FALSE /\ io' = RunsOn(guard, FALSE, sending)
    /\ UNCHANGED <<launcher, acceptor, guard, newcomer, sockets, wire, udp>>

(* startListeningTcp: the next async_accept, if m_isActive (257-261, 273). *)
IoListen ==
    /\ fate = "running" /\ io = "listen"
    /\ io' = "spawn" /\ accepting' = active
    /\ UNCHANGED <<launcher, acceptor, guard, newcomer, sockets, wire, udp>>

(* m_runners.push_back(thread receiveData(sock)) (275-276). *)
IoSpawn ==
    /\ fate = "running" /\ io = "spawn"
    /\ io' = RunsOn(guard, accepting, sending) /\ newcomer' = {}
    /\ runner' = [c \in Conns |-> IF c \in newcomer THEN "start" ELSE runner[c]]
    /\ UNCHANGED <<launcher, acceptor, accepting, guard, open, clients, sending, wire, udp>>

(* A pending send fails once the socket is closed or reset (158-166). The  *)
(* read is taken to be told of a reset as well (a system that reports it   *)
(* once, to the send, makes it the end of the stream for the read).        *)
IoSendFails(c) ==
    /\ fate = "running" /\ io = "run" /\ sending[c]
    /\ ~open[c] \/ peer[c] = "reset"
    /\ sending' = [sending EXCEPT ![c] = FALSE]
    /\ io' = RunsOn(guard, accepting, sending')
    /\ UNCHANGED <<launcher, acceptor, accepting, guard, newcomer, runner, open, clients, wire, udp>>

(* It completes when the other end takes the data, which it may never do. *)
IoSendDone(c) ==
    /\ fate = "running" /\ io = "run" /\ sending[c] /\ open[c] /\ peer[c] # "reset"
    /\ sending' = [sending EXCEPT ![c] = FALSE]
    /\ io' = RunsOn(guard, accepting, sending')
    /\ UNCHANGED <<launcher, acceptor, accepting, guard, newcomer, runner, open, clients, wire, udp>>

-------------------------------------------------------------------------------
RunnerAt(c, pc) == fate = "running" /\ runner[c] = pc
Goto(c, pc)     == runner' = [runner EXCEPT ![c] = pc]

(* receiveData asks for the remote address; of a connection that is reset  *)
(* already there is none, and nobody catches the exception (289).          *)
RunnerStart(c) ==
    /\ RunnerAt(c, "start")
    /\ IF peer[c] = "reset"
       THEN Dies("no remote endpoint")
       ELSE Goto(c, "insert") /\ UNCHANGED <<launcher, listening, open, clients, sending, wire, udp>>

(* Keep a reference to this socket (291-296). *)
RunnerInsert(c) ==
    /\ RunnerAt(c, "insert")
    /\ clients' = clients \cup {c}
    /\ Goto(c, "test")
    /\ UNCHANGED <<launcher, listening, open, sending, wire, udp>>

(* while (sock->is_open() && m_isActive) (303). *)
RunnerTest(c) ==
    /\ RunnerAt(c, "test")
    /\ Goto(c, IF open[c] /\ active THEN "read" ELSE "remove")
    /\ UNCHANGED <<launcher, listening, open, clients, sending, wire, udp>>

(* A read takes some of the data, or all of it; it yields a message to     *)
(* post, or none (308-340).                                                *)
Takes(c) ==
    /\ open[c] /\ inbox[c] = "data"
    /\ \E next \in {"post", "test"} : Goto(c, next)
    /\ \E left \in {"empty", "data"} : inbox' = [inbox EXCEPT ![c] = left]


(* read_some blocks until there is something to return: data, the end of   *)
(* the stream, after which the loop goes on (312-315), or an error         *)
(* (316-320).                                                              *)
RunnerRead(c) ==
    /\ RunnerAt(c, "read")
    /\ \/ Takes(c)
       \/ /\ open[c] /\ inbox[c] = "empty" /\ peer[c] = "finished"
          /\ Goto(c, "test") /\ UNCHANGED inbox
       \/ /\ ~open[c] \/ peer[c] = "reset"
          /\ Goto(c, "remove") /\ UNCHANGED inbox
    /\ UNCHANGED <<launcher, listening, open, clients, sending, peer, udp>>

(* post: the subscribers are called here and now, the server's own         *)
(* sendBroadcast among them when it is subscribed to the id (342-349).     *)
RunnerPost(c) ==
    /\ RunnerAt(c, "post")
    /\ Goto(c, "test")
    /\ SendToAll \/ UNCHANGED sending
    /\ UNCHANGED <<launcher, listening, open, clients, wire, udp>>

(* Mutation: the reference is kept. *)
RunnerRemoveKeeps(c) ==
    /\ RunnerAt(c, "remove")
    /\ open' = [open EXCEPT ![c] = FALSE]
    /\ Goto(c, "done")
    /\ UNCHANGED <<launcher, listening, clients, sending, wire, udp>>

(* Mutation: the socket is not closed. *)
RunnerRemoveOpen(c) ==
    /\ RunnerAt(c, "remove")
    /\ clients' = clients \ {c}
    /\ Goto(c, "done")
    /\ UNCHANGED <<launcher, listening, open, sending, wire, udp>>

(* Remove the reference to this connection (352-364). *)
RunnerRemove(c) ==
    /\ RunnerAt(c, "remove")
    /\ clients' = clients \ {c}
    /\ open' = [open EXCEPT ![c] = FALSE]
    /\ Goto(c, "done")
    /\ UNCHANGED <<launcher, listening, sending, wire, udp>>

-------------------------------------------------------------------------------
AdvAt(pc) == fate = "running" /\ adv = pc

(* startAdvertising creates the socket (178-179), *)
AdvCreate ==
    /\ AdvAt("spawned")
    /\ adv' = "created" /\ multicast' = "created"
    /\ UNCHANGED <<launcher, listening, sockets, wire, endpoint, received, pings, answered>>

(* opens it (183), *)
AdvOpen ==
    /\ AdvAt("created")
    /\ adv' = "opened" /\ multicast' = "open"
    /\ UNCHANGED <<launcher, listening, sockets, wire, endpoint, received, pings, answered>>

(* binds it, joins the group and waits for a ping; on a socket that stop   *)
(* has closed meanwhile the bind throws (184-189, 194-201).                *)
AdvServe ==
    /\ AdvAt("opened")
    /\ IF multicast = "closed"
       THEN Dies("multicast bind")
       ELSE adv' = "serving" /\ UNCHANGED <<launcher, listening, sockets, wire, multicast,
                                            endpoint, received, pings, answered>>

(* A network client sends its ping. *)
Ping(p) ==
    /\ fate = "running" /\ adv = "serving" /\ multicast = "open"
    /\ p \notin pings \cup answered \cup {endpoint}
    /\ pings' = pings \cup {p}
    /\ UNCHANGED <<launcher, listening, sockets, wire, multicast, adv, endpoint, received, answered>>

(* The receive in progress completes: the sender's address is stored in    *)
(* the one multicast_client_endpoint (199-201).                            *)
AdvReceive(p) ==
    /\ AdvAt("serving") /\ multicast = "open" /\ ~received
    /\ p \in pings
    /\ pings' = pings \ {p} /\ endpoint' = p /\ received' = TRUE
    /\ UNCHANGED <<launcher, listening, sockets, wire, multicast, adv, answered>>

(* Its handler: the next receive first, which takes a ping that waits at   *)
(* once and overwrites the address, then the pong to that address (204-217)*)
AdvAnswer ==
    /\ AdvAt("serving") /\ multicast = "open" /\ received
    /\ \/ /\ pings = {}
          /\ answered' = answered \cup {endpoint}
          /\ received' = FALSE
          /\ UNCHANGED <<pings, endpoint>>
       \/ \E p \in pings :
          /\ pings' = pings \ {p} /\ endpoint' = p
          /\ answered' = answered \cup {p}
          /\ UNCHANGED received
    /\ UNCHANGED <<launcher, listening, sockets, wire, multicast, adv>>

(* The socket is closed: the handler gets an error and does not re-arm     *)
(* (237-247), io.run returns (189).                                        *)
AdvDone ==
    /\ AdvAt("serving") /\ multicast = "closed"
    /\ adv' = "done"
    /\ UNCHANGED <<launcher, listening, sockets, wire, multicast, endpoint, received, pings, answered>>

-------------------------------------------------------------------------------
StopAt(pc, next) == fate = "running" /\ spc = pc /\ spc' = next

(* stop: m_isActive = false (91), *)
Stop ==
    /\ StopAt("serving", "close")
    /\ active' = FALSE
    /\ UNCHANGED <<fate, listening, sockets, wire, udp>>

(* the acceptor and the work guard (92-93), *)
StopListening ==
    /\ StopAt("close", "multicast")
    /\ acceptor' = "closed" /\ guard' = FALSE
    /\ io' = IF io = "run" THEN RunsOn(FALSE, accepting, sending) ELSE io
    /\ UNCHANGED <<active, fate, accepting, newcomer, sockets, wire, udp>>

(* Mutation: the advertising socket is left open. *)
StopAdvertisingOpen ==
    /\ fate = "running" /\ spc = "multicast"
    /\ IF multicast = "null"
       THEN Dies("no multicast socket")
       ELSE spc' = "joinIo" /\ UNCHANGED <<active, fate, listening, sockets, wire, udp>>

(* the advertising socket, a null pointer before its thread made it        *)
(* (95-101),                                                               *)
StopAdvertising ==
    /\ fate = "running" /\ spc = "multicast"
    /\ IF multicast = "null"
       THEN Dies("no multicast socket")
       ELSE /\ spc' = "joinIo"
            /\ multicast' = IF multicast = "open" THEN "closed" ELSE multicast
            /\ UNCHANGED <<active, fate, listening, sockets, wire, adv, endpoint, received,
                           pings, answered>>

(* Mutation: the io thread is not joined. *)
StopSkipsIo ==
    /\ StopAt("joinIo", "joinAdv")
    /\ UNCHANGED <<active, fate, listening, sockets, wire, udp>>

(* the two threads (103-113),                                              *)
StopJoinsIo ==
    /\ StopAt("joinIo", "joinAdv") /\ io = "done"
    /\ UNCHANGED <<active, fate, listening, sockets, wire, udp>>

StopJoinsAdv ==
    /\ StopAt("joinAdv", "disconnect") /\ adv = "done"
    /\ UNCHANGED <<active, fate, listening, sockets, wire, udp>>

(* every registered connection (115-131),                                  *)
StopDisconnects ==
    /\ StopAt("disconnect", "joinRunners")
    /\ open' = [c \in Conns |-> open[c] /\ c \notin clients]
    /\ clients' = {}
    /\ UNCHANGED <<active, fate, listening, runner, sending, wire, udp>>

(* Mutation: only the runners of registered connections are joined. *)
StopJoinsRegistered ==
    /\ StopAt("joinRunners", "stopped")
    /\ \A c \in clients : runner[c] \in {"none", "refused", "done"}
    /\ UNCHANGED <<active, fate, listening, sockets, wire, udp>>

(* and the runners (133-140). *)
StopJoinsRunners ==
    /\ StopAt("joinRunners", "stopped")
    /\ \A c \in Conns : runner[c] \in {"none", "refused", "done"}
    /\ UNCHANGED <<active, fate, listening, sockets, wire, udp>>

(* The server has stopped, or the process is gone. *)
Over == (spc = "stopped" \/ fate # "running") /\ UNCHANGED vars

-------------------------------------------------------------------------------
Io == IoAcceptError \/ IoListen \/ IoSpawn
      \/ \E c \in Conns : IoAccept(c) \/ IoSendFails(c)

Runner(c) == RunnerStart(c) \/ RunnerInsert(c) \/ RunnerTest(c) \/ RunnerRead(c)
             \/ RunnerPost(c) \/ RunnerRemove(c)

Advertising == AdvCreate \/ AdvOpen \/ AdvServe \/ AdvAnswer \/ AdvDone
               \/ \E p \in Pingers : AdvReceive(p)

Stopping == StopListening \/ StopAdvertising \/ StopJoinsIo \/ StopJoinsAdv
            \/ StopDisconnects \/ StopJoinsRunners

Next ==
    \/ Start \/ Broadcast \/ Io \/ Advertising \/ Stop \/ Stopping \/ Over
    \/ \E c \in Conns :
          \/ PeerConnects(c) \/ PeerSends(c) \/ IoSendDone(c) \/ Runner(c)
          \/ \E how \in {"finished", "reset"} : PeerLeaves(c, how)
    \/ \E p \in Pingers : Ping(p)

Spec == Init /\ [][Next]_vars

(* The server's own threads run; when the launcher stops the server, and   *)
(* what the other ends do, is left to them.                                *)
FairSpec ==
    /\ Spec /\ WF_vars(Start) /\ WF_vars(Io) /\ WF_vars(Advertising) /\ WF_vars(Stopping)
    /\ \A c \in Conns : WF_vars(Runner(c))
-------------------------------------------------------------------------------
LauncherType ==
    /\ active \in BOOLEAN
    /\ spc \in {"initialized", "serving", "close", "multicast", "joinIo", "joinAdv",
                "disconnect", "joinRunners", "stopped"}
    /\ fate \in {"running", "no mutex", "no remote endpoint", "multicast bind", "no multicast socket"}

ListeningType ==
    /\ acceptor \in {"none", "open", "closed"} /\ accepting \in BOOLEAN /\ guard \in BOOLEAN
    /\ io \in {"none", "run", "listen", "spawn", "done"} /\ newcomer \subseteq Conns

SocketType ==
    /\ runner \in [Conns -> {"none", "refused", "start", "insert", "test", "read", "post",
                             "remove", "done"}]
    /\ open \in [Conns -> BOOLEAN] /\ clients \subseteq Conns /\ sending \in [Conns -> BOOLEAN]

WireType ==
    /\ peer \in [Conns -> {"away", "connected", "finished", "reset"}]
    /\ inbox \in [Conns -> {"empty", "data"}]

UdpType ==
    /\ multicast \in {"null", "created", "open", "closed"}
    /\ adv \in {"none", "spawned", "created", "opened", "serving", "done"}
    /\ endpoint \in Pingers \cup {Nobody} /\ received \in BOOLEAN
    /\ pings \subseteq Pingers /\ answered \subseteq Pingers

TypeOK == LauncherType /\ ListeningType /\ SocketType /\ WireType /\ UdpType

RegisteredHasRunner == \A c \in clients : runner[c] \in {"test", "read", "post", "remove"}
NoLeakedSocket ==
    \A c \in Conns : open[c] => c \in newcomer \/ runner[c] \notin {"none", "refused", "done"}

(* A registered connection has a runner that will still take it out, also  *)
(* when it registers after stop has cleared m_connectedClients (293-295,   *)
(* 130, 356), and no socket stays open without a thread that closes it.    *)
Watched == RegisteredHasRunner /\ NoLeakedSocket

(* When stop returns every thread of the server has ended, every socket is *)
(* closed and nothing is registered, whoever was connecting meanwhile.     *)
StoppedClean ==
    spc = "stopped" =>
        /\ clients = {} /\ io = "done" /\ adv = "done" /\ ~accepting
        /\ \A c \in Conns : ~open[c] /\ runner[c] \in {"none", "refused", "done"}

NoRunnerAdded ==
    spc \in {"joinAdv", "disconnect", "joinRunners", "stopped"} =>
        \A c \in Conns : runner[c] = "none" => (runner')[c] = "none"

(* m_runners is read by stop without a lock (134-140): nobody appends to   *)
(* it once stop has joined the io thread.                                  *)
NoLateRunner == [][NoRunnerAdded]_vars

Died == fate # "running"

(* stop waits for the io thread, which waits for a send that the other end *)
(* does not take; the socket is closed only behind that wait.              *)
HeldUp ==
    /\ spc = "joinIo" /\ io = "run"
    /\ \E c \in Conns : sending[c] /\ open[c] /\ peer[c] # "reset"

(* stop returns, once advertising is up, however the runners, the accepts  *)
(* and the broadcasts are interleaved with it, unless an other end that    *)
(* does not take what it is sent holds it up for ever (106, 125-126).      *)
StopReturns ==
    <>[]HeldUp \/ ((spc = "close" /\ adv = "serving") ~> (spc = "stopped" \/ Died))


===============================================================================

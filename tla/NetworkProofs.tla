----------------------------- MODULE NetworkProofs ----------------------------
(***************************************************************************)
(* Proofs about the network server, alone, about a framed stream, alone,   *)
(* and about both together, as Network has them.                           *)
(*                                                                         *)
(* Server, for any number of connections and pingers: a registered         *)
(* connection has a runner that takes it out, a socket that is open has a  *)
(* thread that closes it, and stop leaves nothing behind, whoever connects *)
(* while it runs.                                                          *)
(*                                                                         *)
(* Framing, for every length of the messages and every size of the read    *)
(* buffer: a framed connection implements LossyLine. The units in the      *)
(* stream are in order, and all of messages that are still to come; as     *)
(* long as no message was cut, each that has its header in the stream is   *)
(* there in one piece.                                                     *)
(*                                                                         *)
(* Network: each of its steps is one of Server and one of Framing, so what *)
(* was proved of the two holds of the server that reads the stream.        *)
(***************************************************************************)
EXTENDS Network, SequenceTheorems, TLAPS

Ended == {"none", "refused", "done"}

(* The connection whose accept handler runs has no runner yet; the handler *)
(* is over when the io thread is back in run, and no accept is pending     *)
(* when that thread has ended.                                             *)
Accepts ==
    /\ io \in {"none", "run", "done"} => newcomer = {}
    /\ \A c \in newcomer : runner[c] = "none"
    /\ io = "done" => ~accepting

(* How far stop has got, and which threads have ended by then.             *)
Joined ==
    /\ spc = "initialized" => io = "none"
    /\ spc \in {"joinAdv", "disconnect", "joinRunners", "stopped"} => io = "done"
    /\ spc \in {"disconnect", "joinRunners", "stopped"} => adv = "done"
    /\ spc = "stopped" => \A c \in Conns : runner[c] \in Ended

(* A ping that was received has a sender.                                  *)
Asked == received => endpoint \in Pingers

(* The inductive invariant.                                                *)
IInv == TypeOK /\ Asked /\ Accepts /\ Joined /\ RegisteredHasRunner /\ NoLeakedSocket

(* The server starts in the invariant.                                     *)
LEMMA InitIInv == Init => IInv
<1> SUFFICES ASSUME Init PROVE IInv
    OBVIOUS
<1>1. LauncherType /\ ListeningType /\ UdpType
      BY DEF Init, LauncherType, ListeningType, UdpType
<1>2. SocketType /\ WireType
      BY DEF Init, SocketType, WireType
<1>3. Asked /\ Accepts /\ Joined /\ RegisteredHasRunner /\ NoLeakedSocket
      BY DEF Init, Asked, Accepts, Joined, RegisteredHasRunner, NoLeakedSocket
<1> QED BY <1>1, <1>2, <1>3 DEF IInv, TypeOK

(* What is unchanged keeps its type.                                       *)
LEMMA TypesKept ==
  ASSUME IInv, \/ LauncherType' \/ UNCHANGED launcher, ListeningType' \/ UNCHANGED listening,
         SocketType' \/ UNCHANGED sockets, WireType' \/ UNCHANGED wire, UdpType' \/ UNCHANGED udp
  PROVE  TypeOK'
<1>1. LauncherType'
      BY DEF IInv, TypeOK, LauncherType, launcher
<1>2. ListeningType'
      BY DEF IInv, TypeOK, ListeningType, listening
<1>3. SocketType'
      BY DEF IInv, TypeOK, SocketType, sockets
<1>4. WireType'
      BY DEF IInv, TypeOK, WireType, wire
<1>5. UdpType'
      BY DEF IInv, TypeOK, UdpType, udp
<1> QED BY <1>1, <1>2, <1>3, <1>4, <1>5 DEF TypeOK

(* A step of none of the threads that the invariant is about.              *)
LEMMA RestKeeps ==
  ASSUME IInv, TypeOK', Asked', UNCHANGED <<io, newcomer, accepting, runner, clients, open>>,
         spc' = spc, adv' = adv \/ adv # "done"
  PROVE  IInv'
<1>1. Accepts'
      BY DEF IInv, Accepts
<1>2. Joined'
      BY DEF IInv, Joined
<1>3. RegisteredHasRunner' /\ NoLeakedSocket'
      BY DEF IInv, RegisteredHasRunner, NoLeakedSocket
<1> QED BY <1>1, <1>2, <1>3 DEF IInv

(* The udp socket is not touched by the other threads.                     *)
LEMMA AskedKept == ASSUME IInv, UNCHANGED udp PROVE Asked'
BY DEF IInv, Asked, udp

(* A process that dies has not changed anything else.                      *)
LEMMA DiesKeeps ==
  ASSUME IInv, NEW why \in {"no mutex", "no remote endpoint", "multicast bind", "no multicast socket"},
         Dies(why)
  PROVE  IInv'
<1>1. LauncherType'
      BY DEF Dies, IInv, TypeOK, LauncherType
<1>2. TypeOK'
      BY <1>1, TypesKept DEF Dies
<1>3. Asked'
      BY AskedKept DEF Dies
<1> QED BY <1>2, <1>3, RestKeeps DEF Dies, listening, sockets, udp

-------------------------------------------------------------------------------
(* The thread of the io context.                                           *)
LEMMA IoKeeps == IInv /\ Io => IInv'
<1> SUFFICES ASSUME IInv, Io PROVE IInv'
    OBVIOUS
<1> USE DEF RunsOn
<1>1. CASE IoAcceptError
  <2>1. TypeOK' /\ Asked'
    <3>1. ListeningType'
          BY <1>1 DEF IoAcceptError, IInv, TypeOK, ListeningType
    <3> QED BY <1>1, <3>1, TypesKept, AskedKept DEF IoAcceptError
  <2>2. Accepts' /\ Joined'
        BY <1>1 DEF IoAcceptError, IInv, Accepts, Joined, launcher, sockets, udp
  <2>3. RegisteredHasRunner' /\ NoLeakedSocket'
        BY <1>1 DEF IoAcceptError, IInv, RegisteredHasRunner, NoLeakedSocket, sockets
  <2> QED BY <2>1, <2>2, <2>3 DEF IInv
<1>2. CASE IoListen
  <2>1. TypeOK' /\ Asked'
    <3>1. ListeningType'
          BY <1>2 DEF IoListen, IInv, TypeOK, LauncherType, ListeningType
    <3> QED BY <1>2, <3>1, TypesKept, AskedKept DEF IoListen
  <2>2. Accepts' /\ Joined'
        BY <1>2 DEF IoListen, IInv, Accepts, Joined, launcher, sockets, udp
  <2>3. RegisteredHasRunner' /\ NoLeakedSocket'
        BY <1>2 DEF IoListen, IInv, RegisteredHasRunner, NoLeakedSocket, sockets
  <2> QED BY <2>1, <2>2, <2>3 DEF IInv
<1>3. CASE IoSpawn
  <2>1. ListeningType' /\ SocketType'
        BY <1>3 DEF IoSpawn, IInv, TypeOK, ListeningType, SocketType
  <2>2. TypeOK' /\ Asked'
        BY <1>3, <2>1, TypesKept, AskedKept DEF IoSpawn
  <2>3. \A c \in Conns : (runner')[c] = IF c \in newcomer THEN "start" ELSE runner[c]
        BY <1>3 DEF IoSpawn
  <2>4. Accepts' /\ Joined'
        BY <1>3, <2>3 DEF IoSpawn, IInv, Accepts, Joined, Ended, launcher, udp
  <2>5. RegisteredHasRunner'
    <3> SUFFICES ASSUME NEW c \in clients PROVE (runner')[c] \in {"test", "read", "post", "remove"}
        BY <1>3 DEF IoSpawn, RegisteredHasRunner
    <3>1. c \in Conns /\ runner[c] \in {"test", "read", "post", "remove"}
          BY DEF IInv, TypeOK, SocketType, RegisteredHasRunner
    <3>2. c \notin newcomer
          BY <3>1 DEF IInv, Accepts
    <3> QED BY <2>3, <3>1, <3>2
  <2>6. NoLeakedSocket'
    <3> SUFFICES ASSUME NEW c \in Conns, open[c] PROVE (runner')[c] \notin Ended
        BY <1>3 DEF IoSpawn, NoLeakedSocket, Ended
    <3>1. c \in newcomer \/ runner[c] \notin Ended
          BY DEF IInv, NoLeakedSocket, Ended
    <3> QED BY <2>3, <3>1 DEF Ended
  <2> QED BY <2>2, <2>4, <2>5, <2>6 DEF IInv
<1>4. ASSUME NEW c \in Conns, IoAccept(c) PROVE IInv'
  <2>1. /\ runner[c] = "none" /\ c \notin newcomer /\ io = "run" /\ newcomer = {}
        /\ accepting' = FALSE /\ UNCHANGED <<launcher, clients, udp>>
        BY <1>4 DEF IoAccept, IInv, Accepts
  <2>2. c \notin clients /\ ~open[c]
        BY <2>1 DEF IInv, RegisteredHasRunner, NoLeakedSocket
  <2>3. ListeningType' /\ SocketType'
        BY <1>4 DEF IoAccept, IInv, TypeOK, ListeningType, SocketType
  <2>4. TypeOK' /\ Asked'
        BY <1>4, <2>3, TypesKept, AskedKept DEF IoAccept
  <2>5. CASE active
    <3>1. io' = "listen" /\ newcomer' = {c} /\ open' = [open EXCEPT ![c] = TRUE] /\ runner' = runner
          BY <1>4, <2>5 DEF IoAccept
    <3>2. Accepts' /\ Joined'
          BY <2>1, <3>1 DEF IInv, Accepts, Joined, launcher, udp
    <3>3. RegisteredHasRunner' /\ NoLeakedSocket'
          BY <2>1, <3>1 DEF IInv, TypeOK, SocketType, RegisteredHasRunner, NoLeakedSocket
    <3> QED BY <2>4, <3>2, <3>3 DEF IInv
  <2>6. CASE ~active
    <3>1. /\ io' \in {"run", "done"} /\ newcomer' = {} /\ open' = open
          /\ runner' = [runner EXCEPT ![c] = "refused"]
          BY <1>4, <2>1, <2>6 DEF IoAccept
    <3>2. Accepts' /\ Joined'
          BY <2>1, <3>1 DEF IInv, Accepts, Joined, launcher, udp
    <3>3. RegisteredHasRunner' /\ NoLeakedSocket'
          BY <2>1, <2>2, <3>1 DEF IInv, TypeOK, SocketType, RegisteredHasRunner, NoLeakedSocket
    <3> QED BY <2>4, <3>2, <3>3 DEF IInv
  <2> QED BY <2>5, <2>6
<1>5. ASSUME NEW c \in Conns, IoSendFails(c) PROVE IInv'
  <2>1. ListeningType' /\ SocketType'
        BY <1>5 DEF IoSendFails, IInv, TypeOK, ListeningType, SocketType
  <2>2. TypeOK' /\ Asked'
        BY <1>5, <2>1, TypesKept, AskedKept DEF IoSendFails
  <2>3. Accepts' /\ Joined'
        BY <1>5 DEF IoSendFails, IInv, Accepts, Joined, launcher, udp
  <2>4. RegisteredHasRunner' /\ NoLeakedSocket'
        BY <1>5 DEF IoSendFails, IInv, RegisteredHasRunner, NoLeakedSocket
  <2> QED BY <2>2, <2>3, <2>4 DEF IInv
<1> QED BY <1>1, <1>2, <1>3, <1>4, <1>5 DEF Io

-------------------------------------------------------------------------------
(* A runner goes on in its loop, or begins.                                *)
LEMMA RunnerGoesOn ==
  ASSUME IInv, NEW c \in Conns, NEW pc \in {"insert", "test", "read", "post", "remove"},
         runner[c] \notin Ended, c \in clients => pc # "insert",
         Goto(c, pc), UNCHANGED <<launcher, listening, open, clients, udp>>,
         sending' \in [Conns -> BOOLEAN], WireType'
  PROVE  IInv'
<1>1. c \notin newcomer
      BY DEF IInv, Accepts, Ended
<1>2. \A d \in Conns : (runner')[d] = IF d = c THEN pc ELSE runner[d]
      BY DEF Goto, IInv, TypeOK, SocketType
<1>3. SocketType'
      BY DEF Goto, IInv, TypeOK, SocketType
<1>4. TypeOK' /\ Asked'
      BY <1>3, TypesKept, AskedKept
<1>5. Accepts'
      BY <1>1, <1>2 DEF IInv, TypeOK, ListeningType, Accepts, listening
<1>6. Joined'
      BY DEF IInv, Joined, launcher, listening, udp
<1>7. RegisteredHasRunner' /\ NoLeakedSocket'
      BY <1>2 DEF IInv, TypeOK, SocketType, RegisteredHasRunner, NoLeakedSocket, listening, Ended
<1> QED BY <1>4, <1>5, <1>6, <1>7 DEF IInv

(* A connection's runner.                                                  *)
LEMMA RunnerKeeps == ASSUME IInv, NEW c \in Conns, Runner(c) PROVE IInv'
<1> USE DEF RunnerAt
<1>1. runner[c] \notin Ended /\ sending \in [Conns -> BOOLEAN] /\ WireType
      BY DEF Runner, RunnerStart, RunnerInsert, RunnerTest, RunnerRead, RunnerPost, RunnerRemove,
             IInv, TypeOK, SocketType, Ended
<1>2. UNCHANGED wire => WireType'
      BY <1>1 DEF wire, WireType
<1>3. CASE RunnerStart(c)
  <2>1. CASE peer[c] = "reset"
        BY <1>3, <2>1, DiesKeeps DEF RunnerStart
  <2>2. CASE peer[c] # "reset"
    <3>1. c \notin clients
          BY <1>3 DEF RunnerStart, IInv, RegisteredHasRunner
    <3> QED BY <1>1, <1>2, <1>3, <2>2, <3>1, RunnerGoesOn DEF RunnerStart
  <2> QED BY <2>1, <2>2
<1>4. CASE RunnerInsert(c)
  <2>1. \A d \in Conns : (runner')[d] = IF d = c THEN "test" ELSE runner[d]
        BY <1>4 DEF RunnerInsert, Goto, IInv, TypeOK, SocketType
  <2>2. SocketType'
        BY <1>4 DEF RunnerInsert, Goto, IInv, TypeOK, SocketType
  <2>3. TypeOK' /\ Asked'
        BY <1>4, <2>2, TypesKept, AskedKept DEF RunnerInsert
  <2>4. Accepts'
        BY <1>1, <1>4, <2>1 DEF RunnerInsert, IInv, TypeOK, ListeningType, Accepts, Ended, listening
  <2>5. Joined'
        BY <1>4 DEF RunnerInsert, IInv, Joined, Ended, launcher, listening, udp
  <2>6. RegisteredHasRunner' /\ NoLeakedSocket'
        BY <1>4, <2>1 DEF RunnerInsert, IInv, TypeOK, SocketType, RegisteredHasRunner, NoLeakedSocket, listening
  <2> QED BY <2>3, <2>4, <2>5, <2>6 DEF IInv
<1>5. CASE RunnerTest(c)
      BY <1>1, <1>2, <1>5, RunnerGoesOn DEF RunnerTest
<1>6. CASE RunnerRead(c)
  <2>1. WireType'
        BY <1>1, <1>6 DEF RunnerRead, Takes, WireType
  <2>2. PICK pc \in {"test", "post", "remove"} : Goto(c, pc)
        BY <1>6 DEF RunnerRead, Takes
  <2> QED BY <1>1, <1>6, <2>1, <2>2, RunnerGoesOn DEF RunnerRead
<1>7. CASE RunnerPost(c)
  <2>1. sending' \in [Conns -> BOOLEAN]
        BY <1>1, <1>7 DEF RunnerPost, SendToAll
  <2> QED BY <1>1, <1>2, <1>7, <2>1, RunnerGoesOn DEF RunnerPost
<1>8. CASE RunnerRemove(c)
  <2>1. \A d \in Conns : /\ (runner')[d] = IF d = c THEN "done" ELSE runner[d]
                         /\ (open')[d] = IF d = c THEN FALSE ELSE open[d]
        BY <1>8 DEF RunnerRemove, Goto, IInv, TypeOK, SocketType
  <2>2. SocketType'
        BY <1>8 DEF RunnerRemove, Goto, IInv, TypeOK, SocketType
  <2>3. TypeOK' /\ Asked'
        BY <1>8, <2>2, TypesKept, AskedKept DEF RunnerRemove
  <2>4. Accepts'
        BY <1>1, <1>8, <2>1 DEF RunnerRemove, IInv, TypeOK, ListeningType, Accepts, Ended, listening
  <2>5. Joined'
        BY <1>8, <2>1 DEF RunnerRemove, IInv, Joined, Ended, launcher, listening, udp
  <2>6. RegisteredHasRunner' /\ NoLeakedSocket'
        BY <1>8, <2>1 DEF RunnerRemove, IInv, TypeOK, SocketType, RegisteredHasRunner, NoLeakedSocket, listening
  <2> QED BY <2>3, <2>4, <2>5, <2>6 DEF IInv
<1> QED BY <1>3, <1>4, <1>5, <1>6, <1>7, <1>8 DEF Runner

-------------------------------------------------------------------------------
(* The advertising thread.                                                 *)
LEMMA AdvertisingKeeps == IInv /\ Advertising => IInv'
<1> SUFFICES ASSUME IInv, Advertising PROVE IInv'
    OBVIOUS
<1>1. CASE AdvServe /\ multicast = "closed"
      BY <1>1, DiesKeeps DEF AdvServe
<1>2. CASE ~(AdvServe /\ multicast = "closed")
  <2>1. UdpType' /\ Asked' /\ adv # "done" /\ UNCHANGED <<launcher, listening, sockets, wire>>
    <3> USE DEF AdvAt, IInv, TypeOK, UdpType, Asked
    <3>1. CASE AdvCreate
          BY <3>1 DEF AdvCreate
    <3>2. CASE AdvOpen
          BY <3>2 DEF AdvOpen
    <3>3. CASE AdvServe
          BY <1>2, <3>3 DEF AdvServe
    <3>4. CASE AdvAnswer
          BY <3>4 DEF AdvAnswer
    <3>5. CASE AdvDone
          BY <3>5 DEF AdvDone
    <3>6. CASE \E p \in Pingers : AdvReceive(p)
          BY <3>6 DEF AdvReceive
    <3> QED BY <3>1, <3>2, <3>3, <3>4, <3>5, <3>6 DEF Advertising
  <2>2. TypeOK'
        BY <2>1, TypesKept
  <2> QED BY <2>1, <2>2, RestKeeps DEF launcher, listening, sockets
<1> QED BY <1>1, <1>2

(* The launcher's thread in stop: it leaves the runners alone, and the     *)
(* threads that have ended.                                                *)
LEMMA StopGoesOn ==
  ASSUME IInv, TypeOK', Asked', Joined', UNCHANGED <<newcomer, accepting, runner>>,
         io' = io \/ (io = "run" /\ io' = "done" /\ ~accepting),
         clients' \subseteq clients, \A c \in Conns : (open')[c] => open[c]
  PROVE  IInv'
<1>1. Accepts'
      BY DEF IInv, Accepts
<1>2. RegisteredHasRunner' /\ NoLeakedSocket'
      BY DEF IInv, RegisteredHasRunner, NoLeakedSocket
<1> QED BY <1>1, <1>2 DEF IInv

LEMMA StoppingKeeps == IInv /\ (Stop \/ Stopping) => IInv'
<1> SUFFICES ASSUME IInv, Stop \/ Stopping PROVE IInv'
    OBVIOUS
<1> USE DEF StopAt
<1>1. ASSUME StopAt(spc, spc'), LauncherType', ListeningType' \/ UNCHANGED listening, Joined',
             io' = io \/ (io = "run" /\ io' = "done" /\ ~accepting), UNCHANGED <<newcomer, accepting, sockets, wire, udp>>
      PROVE  IInv'
  <2>1. TypeOK' /\ Asked'
        BY <1>1, TypesKept, AskedKept
  <2> QED BY <1>1, <2>1, StopGoesOn DEF sockets
<1>2. CASE Stop
  <2>1. LauncherType' /\ Joined'
        BY <1>2 DEF Stop, IInv, TypeOK, LauncherType, Joined, listening, sockets, udp
  <2> QED BY <1>1, <1>2, <2>1 DEF Stop, listening
<1>3. CASE StopListening
  <2>1. io' = io \/ (io = "run" /\ io' = "done" /\ ~accepting)
        BY <1>3 DEF StopListening, RunsOn
  <2>2. LauncherType' /\ ListeningType'
        BY <1>3, <2>1 DEF StopListening, IInv, TypeOK, LauncherType, ListeningType
  <2>3. Joined'
        BY <1>3 DEF StopListening, IInv, Joined, sockets, udp
  <2> QED BY <1>1, <1>3, <2>1, <2>2, <2>3 DEF StopListening
<1>4. CASE StopAdvertising
  <2>1. CASE multicast = "null"
        BY <1>4, <2>1, DiesKeeps DEF StopAdvertising
  <2>2. CASE multicast # "null"
    <3>1. LauncherType' /\ UdpType' /\ Joined' /\ Asked'
          BY <1>4, <2>2 DEF StopAdvertising, IInv, TypeOK, LauncherType, UdpType, Joined, Asked, listening, sockets
    <3>2. TypeOK'
          BY <1>4, <2>2, <3>1, TypesKept DEF StopAdvertising
    <3> QED BY <1>4, <2>2, <3>1, <3>2, StopGoesOn DEF StopAdvertising, listening, sockets
  <2> QED BY <2>1, <2>2
<1>5. CASE StopJoinsIo
  <2>1. LauncherType' /\ Joined'
        BY <1>5 DEF StopJoinsIo, IInv, TypeOK, LauncherType, Joined, listening, sockets, udp
  <2> QED BY <1>1, <1>5, <2>1 DEF StopJoinsIo, listening
<1>6. CASE StopJoinsAdv
  <2>1. LauncherType' /\ Joined'
        BY <1>6 DEF StopJoinsAdv, IInv, TypeOK, LauncherType, Joined, listening, sockets, udp
  <2> QED BY <1>1, <1>6, <2>1 DEF StopJoinsAdv, listening
<1>7. CASE StopDisconnects
  <2>1. LauncherType' /\ SocketType' /\ Joined'
        BY <1>7 DEF StopDisconnects, IInv, TypeOK, LauncherType, SocketType, Joined, listening, udp
  <2>2. TypeOK' /\ Asked'
        BY <1>7, <2>1, TypesKept, AskedKept DEF StopDisconnects
  <2> QED BY <1>7, <2>1, <2>2, StopGoesOn DEF StopDisconnects, listening
<1>8. CASE StopJoinsRunners
  <2>1. LauncherType' /\ Joined'
        BY <1>8 DEF StopJoinsRunners, IInv, TypeOK, LauncherType, Joined, Ended, listening, sockets, udp
  <2> QED BY <1>1, <1>8, <2>1 DEF StopJoinsRunners, listening
<1> QED BY <1>2, <1>3, <1>4, <1>5, <1>6, <1>7, <1>8 DEF Stopping

-------------------------------------------------------------------------------
(* start, a broadcast, and the other ends.                                 *)
LEMMA StartKeeps == IInv /\ Start => IInv'
<1> SUFFICES ASSUME IInv, Start PROVE IInv'
    OBVIOUS
<1>1. LauncherType' /\ ListeningType' /\ UdpType'
      BY DEF Start, IInv, TypeOK, LauncherType, ListeningType, UdpType
<1>2. TypeOK'
      BY <1>1, TypesKept DEF Start
<1>3. Asked' /\ Accepts' /\ Joined'
      BY DEF Start, IInv, Asked, Accepts, Joined, sockets
<1>4. RegisteredHasRunner' /\ NoLeakedSocket'
      BY DEF Start, IInv, RegisteredHasRunner, NoLeakedSocket, sockets
<1> QED BY <1>2, <1>3, <1>4 DEF IInv

LEMMA BroadcastKeeps == IInv /\ Broadcast => IInv'
<1> SUFFICES ASSUME IInv, Broadcast PROVE IInv'
    OBVIOUS
<1>1. CASE spc = "initialized"
      BY <1>1, DiesKeeps DEF Broadcast
<1>2. CASE spc # "initialized"
  <2>1. SocketType'
        BY <1>2 DEF Broadcast, SendToAll, IInv, TypeOK, SocketType
  <2>2. TypeOK' /\ Asked'
        BY <1>2, <2>1, TypesKept, AskedKept DEF Broadcast
  <2> QED BY <1>2, <2>2, RestKeeps DEF Broadcast, launcher, listening, udp
<1> QED BY <1>1, <1>2

LEMMA PeersKeep ==
  ASSUME IInv, NEW c \in Conns,
         \/ PeerConnects(c) \/ PeerSends(c) \/ IoSendDone(c)
         \/ \E how \in {"finished", "reset"} : PeerLeaves(c, how)
  PROVE  IInv'
<1>1. ASSUME WireType', UNCHANGED <<launcher, listening, sockets, udp>> PROVE IInv'
  <2>1. TypeOK' /\ Asked'
        BY <1>1, TypesKept, AskedKept
  <2> QED BY <1>1, <2>1, RestKeeps DEF launcher, listening, sockets, udp
<1>2. CASE PeerConnects(c)
  <2>1. WireType'
        BY <1>2 DEF PeerConnects, IInv, TypeOK, WireType
  <2> QED BY <1>1, <1>2, <2>1 DEF PeerConnects
<1>3. CASE PeerSends(c)
  <2>1. WireType'
        BY <1>3 DEF PeerSends, IInv, TypeOK, WireType
  <2> QED BY <1>1, <1>3, <2>1 DEF PeerSends
<1>4. ASSUME NEW how \in {"finished", "reset"}, PeerLeaves(c, how) PROVE IInv'
  <2>1. WireType'
        BY <1>4 DEF PeerLeaves, IInv, TypeOK, WireType
  <2> QED BY <1>1, <1>4, <2>1 DEF PeerLeaves
<1>5. CASE IoSendDone(c)
  <2>1. ListeningType' /\ SocketType'
        BY <1>5 DEF IoSendDone, RunsOn, IInv, TypeOK, ListeningType, SocketType
  <2>2. TypeOK' /\ Asked'
        BY <1>5, <2>1, TypesKept, AskedKept DEF IoSendDone
  <2>3. Accepts' /\ Joined'
        BY <1>5 DEF IoSendDone, RunsOn, IInv, Accepts, Joined, launcher, udp
  <2>4. RegisteredHasRunner' /\ NoLeakedSocket'
        BY <1>5 DEF IoSendDone, IInv, RegisteredHasRunner, NoLeakedSocket
  <2> QED BY <2>2, <2>3, <2>4 DEF IInv
<1> QED BY <1>2, <1>3, <1>4, <1>5

LEMMA PingKeeps == ASSUME IInv, NEW p \in Pingers, Ping(p) PROVE IInv'
<1>1. UdpType' /\ Asked'
      BY DEF Ping, IInv, TypeOK, UdpType, Asked
<1>2. TypeOK'
      BY <1>1, TypesKept DEF Ping
<1> QED BY <1>1, <1>2, RestKeeps DEF Ping, launcher, listening, sockets

-------------------------------------------------------------------------------
LEMMA NextIInv == IInv /\ [Next]_vars => IInv'
<1> SUFFICES ASSUME IInv, [Next]_vars PROVE IInv'
    OBVIOUS
<1>1. CASE UNCHANGED vars
  <2>1. UNCHANGED <<launcher, listening, sockets, wire, udp>>
        BY <1>1 DEF vars
  <2>2. TypeOK' /\ Asked'
        BY <2>1, TypesKept, AskedKept
  <2> QED BY <2>1, <2>2, RestKeeps DEF launcher, listening, sockets, udp
<1>2. CASE Next
      BY <1>1, <1>2, IoKeeps, RunnerKeeps, AdvertisingKeeps, StoppingKeeps, StartKeeps, BroadcastKeeps, PeersKeep,
         PingKeeps DEF Next, Over
<1> QED BY <1>1, <1>2

LEMMA AlwaysIInv == Spec => []IInv
BY InitIInv, NextIInv, PTL DEF Spec

(* Every variable of the server has its type.                              *)
THEOREM TypeCorrect == Spec => []TypeOK
<1>1. IInv => TypeOK
      BY DEF IInv
<1> QED BY <1>1, AlwaysIInv, PTL

(* A registered connection has a runner that will take it out, and every   *)
(* open socket a thread that closes it (Server.cpp 263-297, 352-364).      *)
THEOREM WatchedConnections == Spec => []Watched
<1>1. IInv => Watched
      BY DEF IInv, Watched
<1> QED BY <1>1, AlwaysIInv, PTL

(* stop leaves nothing open, registered or running (Server.cpp 88-141).    *)
THEOREM StopsClean == Spec => []StoppedClean
<1>1. IInv => StoppedClean
  <2> SUFFICES ASSUME IInv, spc = "stopped"
               PROVE  /\ clients = {} /\ io = "done" /\ adv = "done" /\ ~accepting
                      /\ \A c \in Conns : ~open[c] /\ runner[c] \in Ended
      BY DEF StoppedClean, Ended
  <2>1. io = "done" /\ adv = "done" /\ \A c \in Conns : runner[c] \in Ended
        BY DEF IInv, Joined
  <2>2. newcomer = {} /\ ~accepting
        BY <2>1 DEF IInv, Accepts
  <2>3. \A c \in Conns : ~open[c] /\ c \notin clients
        BY <2>1, <2>2 DEF IInv, NoLeakedSocket, RegisteredHasRunner, Ended
  <2>4. clients = {}
        BY <2>3 DEF IInv, TypeOK, SocketType
  <2> QED BY <2>1, <2>2, <2>3, <2>4
<1> QED BY <1>1, AlwaysIInv, PTL

(* Nobody appends to m_runners once stop has joined the io thread          *)
(* (Server.cpp 103-107, 134-140, 275-276).                                 *)
THEOREM RunnersAreFinal == Spec => NoLateRunner
<1>1. IInv /\ [Next]_vars => [NoRunnerAdded]_vars
  <2> SUFFICES ASSUME IInv, [Next]_vars, spc \in {"joinAdv", "disconnect", "joinRunners", "stopped"},
                      NEW c \in Conns, runner[c] = "none"
               PROVE  (runner')[c] = "none"
      BY DEF NoRunnerAdded
  <2>1. io = "done"
        BY DEF IInv, Joined
  <2>2. ASSUME NEW d \in Conns, Runner(d) PROVE (runner')[c] = "none"
    <3>1. c # d
          BY <2>2 DEF Runner, RunnerStart, RunnerInsert, RunnerTest, RunnerRead, RunnerPost, RunnerRemove, RunnerAt
    <3>2. runner' = runner \/ \E pc \in {"insert", "test", "read", "post", "remove", "done"} : Goto(d, pc)
          BY <2>2 DEF Runner, RunnerStart, RunnerInsert, RunnerTest, RunnerRead, Takes, RunnerPost, RunnerRemove,
                      Dies, sockets
    <3> QED BY <3>1, <3>2 DEF Goto, IInv, TypeOK, SocketType
  <2>3. CASE Io
        BY <2>1, <2>3 DEF Io, IoAcceptError, IoListen, IoSpawn, IoAccept, IoSendFails, sockets
  <2>4. CASE Advertising
        BY <2>4 DEF Advertising, AdvCreate, AdvOpen, AdvServe, AdvAnswer, AdvDone, AdvReceive, Dies, sockets
  <2>5. CASE Stop \/ Stopping
        BY <2>5 DEF Stop, Stopping, StopListening, StopAdvertising, StopJoinsIo, StopJoinsAdv, StopDisconnects,
                    StopJoinsRunners, Dies, sockets
  <2>6. ASSUME NEW d \in Conns, NEW how \in {"finished", "reset"},
               PeerConnects(d) \/ PeerSends(d) \/ IoSendDone(d) \/ PeerLeaves(d, how)
        PROVE  (runner')[c] = "none"
        BY <2>6 DEF PeerConnects, PeerSends, IoSendDone, PeerLeaves, sockets
  <2>7. CASE Start \/ Broadcast \/ Over \/ UNCHANGED vars \/ \E p \in Pingers : Ping(p)
        BY <2>7 DEF Start, Broadcast, Dies, Over, Ping, vars, sockets
  <2> QED BY <2>2, <2>3, <2>4, <2>5, <2>6, <2>7 DEF Next
<1> QED BY <1>1, AlwaysIInv, PTL DEF Spec, NoLateRunner
-------------------------------------------------------------------------------
Units == Nat \X (1..Length)

(* A unit comes before another one in what was sent.                       *)
Before(u, v) == u[1] < v[1] \/ (u[1] = v[1] /\ u[2] < v[2])

FrameTypeOK ==
    /\ stream \in Seq(Units) /\ sent \in Nat /\ last \in Nat /\ posted \in Nat
    /\ cut \in BOOLEAN /\ forged \in BOOLEAN

InOrder == \A i, j \in 1..Len(stream) : i < j => Before(stream[i], stream[j])

ToCome == \A i \in 1..Len(stream) : last < stream[i][1] /\ stream[i][1] <= sent

InOnePiece ==
    ~cut => \A i \in 1..Len(stream) :
                stream[i][2] = 1 =>
                    /\ i + Length - 1 <= Len(stream)
                    /\ \A j \in i..(i + Length - 1) : stream[j] = <<stream[i][1], j - i + 1>>

FrameInv == FrameTypeOK /\ InOrder /\ ToCome /\ InOnePiece /\ last <= sent

(* A unit is a message and a place in it.                                  *)
LEMMA UnitParts ==
  /\ \A u \in Units : u[1] \in Nat /\ u[2] \in 1..Length
  /\ \A m \in Nat, k \in 1..Length : <<m, k>> \in Units
BY DEF Units

LEMMA FrameInitially == FrameInit => FrameInv
<1> SUFFICES ASSUME FrameInit PROVE FrameInv
    OBVIOUS
<1>1. stream = <<>> /\ <<>> \in Seq(Units) /\ Len(<<>>) = 0
      BY DEF FrameInit
<1>2. \A i \in 1..Len(stream) : FALSE
  <2>1. Len(stream) = 0
        BY <1>1
  <2> QED BY <2>1
<1>3. InOrder /\ ToCome /\ InOnePiece
      BY <1>2 DEF InOrder, ToCome, InOnePiece
<1>4. sent = 0 /\ last = 0 /\ posted = 0 /\ cut \in BOOLEAN /\ forged \in BOOLEAN
      BY DEF FrameInit
<1>5. FrameTypeOK /\ last <= sent
      BY <1>1, <1>4 DEF FrameTypeOK
<1> QED BY <1>3, <1>5 DEF FrameInv

-------------------------------------------------------------------------------
(* What is written is appended.                                            *)
LEMMA SendKeeps ==
  ASSUME FrameInv, NEW written \in 1..Length, Send(written) PROVE FrameInv'
<1> USE LengthAssumption
<1> DEFINE new == [k \in 1..written |-> <<sent', k>>]
           n == Len(stream)
<1>1. /\ stream \in Seq(Units) /\ sent \in Nat /\ sent' = sent + 1 /\ last' = last
      /\ forged' = forged /\ posted' = posted /\ n \in Nat /\ cut \in BOOLEAN /\ cut' = (cut \/ written < Length)
      BY DEF Send, FrameInv, FrameTypeOK
<1>2. new \in Seq(Units) /\ Len(new) = written
  <2>1. \A k \in 1..written : <<sent + 1, k>> \in Units
        BY <1>1, UnitParts
  <2>2. new \in [1..written -> Units] /\ written \in Nat
        BY <1>1, <2>1
  <2>3. new \in Seq(Units)
        BY <2>2, SeqDef
  <2> QED BY <2>2, <2>3, LenProperties
<1>3. /\ stream' \in Seq(Units) /\ Len(stream') = n + written
      /\ \A i \in 1..n : (stream')[i] = stream[i]
      /\ \A i \in (n + 1)..(n + written) : (stream')[i] = <<sent + 1, i - n>>
  <2>1. stream' = stream \o new
        BY DEF Send
  <2> HIDE DEF new
  <2>2. /\ stream' \in Seq(Units) /\ Len(stream') = n + written
        /\ \A i \in 1..n : (stream')[i] = stream[i]
        /\ \A i \in (n + 1)..(n + written) : (stream')[i] = new[i - n]
    <3>1. /\ stream \o new \in Seq(Units) /\ Len(stream \o new) = n + written
          /\ \A i \in 1..(n + written) :
                 (stream \o new)[i] = IF i <= n THEN stream[i] ELSE new[i - n]
          BY <1>1, <1>2, ConcatProperties
    <3> HIDE DEF n
    <3>2. \A i \in 1..n : i \in 1..(n + written) /\ i <= n
          BY <1>1
    <3>3. \A i \in (n + 1)..(n + written) : i \in 1..(n + written) /\ ~(i <= n)
          BY <1>1
    <3> QED BY <2>1, <3>1, <3>2, <3>3, Zenon
  <2>3. \A k \in 1..written : new[k] = <<sent + 1, k>>
        BY <1>1 DEF new
  <2> HIDE DEF n
  <2> QED BY <1>1, <2>2, <2>3
<1> HIDE DEF new, n
<1>4. \A i \in 1..n : stream[i][1] \in Nat /\ last < stream[i][1] /\ stream[i][1] <= sent
  <2>1. \A i \in 1..n : stream[i] \in Units
        BY <1>1, ElementOfSeq DEF n
  <2> QED BY <2>1, UnitParts DEF FrameInv, ToCome, n
<1>5. FrameTypeOK'
      BY <1>1, <1>3 DEF FrameTypeOK, FrameInv
<1>6. InOrder'
  <2> SUFFICES ASSUME NEW i \in 1..(n + written), NEW j \in 1..(n + written), i < j
               PROVE  Before((stream')[i], (stream')[j])
      BY <1>3 DEF InOrder
  <2>1. CASE j \in 1..n
        BY <1>1, <1>3, <2>1 DEF FrameInv, InOrder, n
  <2>2. CASE i \in 1..n /\ j \notin 1..n
        BY <1>1, <1>3, <1>4, <2>2, SMTT(30) DEF Before
  <2>3. CASE i \notin 1..n
        BY <1>1, <1>3, <2>3 DEF Before
  <2> QED BY <1>1, <2>1, <2>2, <2>3
<1>7. ToCome'
  <2> SUFFICES ASSUME NEW i \in 1..(n + written)
               PROVE  last < (stream')[i][1] /\ (stream')[i][1] <= sent + 1
      BY <1>1, <1>3 DEF ToCome
  <2>1. CASE i \in 1..n
        BY <1>1, <1>3, <1>4, <2>1
  <2>2. CASE i \notin 1..n
    <3>1. last \in Nat /\ last <= sent
          BY DEF FrameInv, FrameTypeOK
    <3> QED BY <1>1, <1>3, <2>2, <3>1
  <2> QED BY <2>1, <2>2
<1>8. InOnePiece'
  <2> SUFFICES ASSUME ~cut', NEW i \in 1..(n + written), (stream')[i][2] = 1
               PROVE  /\ i + Length - 1 <= n + written
                      /\ \A j \in i..(i + Length - 1) : (stream')[j] = <<(stream')[i][1], j - i + 1>>
      BY <1>3 DEF InOnePiece
  <2>0. ~cut /\ written = Length
    <3>1. ~(cut \/ written < Length)
          BY <1>1, Zenon
    <3>2. ~cut /\ ~(written < Length)
          BY <3>1, Zenon
    <3> QED BY <3>2
  <2>1. CASE i \in 1..n
    <3>1. stream[i] = (stream')[i] /\ stream[i][2] = 1
          BY <1>3, <2>1
    <3>2. /\ i + Length - 1 <= n
          /\ \A j \in i..(i + Length - 1) : stream[j] = <<stream[i][1], j - i + 1>>
          BY <2>0, <2>1, <3>1 DEF FrameInv, InOnePiece, n
    <3>3. \A j \in i..(i + Length - 1) : (stream')[j] = stream[j]
          BY <1>1, <1>3, <2>1, <3>2
    <3> QED BY <1>1, <3>1, <3>2, <3>3
  <2>2. CASE i \notin 1..n
    <3>1. i \in (n + 1)..(n + written) /\ (stream')[i] = <<sent + 1, i - n>>
          BY <1>1, <1>3, <2>2
    <3>2. i = n + 1
          BY <1>1, <3>1
    <3>3. \A j \in i..(i + Length - 1) : j \in (n + 1)..(n + written)
          BY <1>1, <2>0, <3>2
    <3> QED BY <1>1, <1>3, <2>0, <3>1, <3>2, <3>3
  <2> QED BY <2>1, <2>2
<1> QED BY <1>1, <1>5, <1>6, <1>7, <1>8 DEF FrameInv, FrameTypeOK

(* The rest of the stream, behind a piece that is read.                    *)
LEMMA TailKeeps ==
  ASSUME FrameInv, NEW size \in 1..Len(stream), NEW rest, rest = SubSeq(stream, size + 1, Len(stream))
  PROVE  /\ rest \in Seq(Units) /\ Len(rest) = Len(stream) - size
         /\ \A i \in 1..Len(rest) : rest[i] = stream[i + size]
BY DEF FrameInv, FrameTypeOK

(* A message that is posted is the first in the stream and there in whole, *)
(* so that nothing of it is left behind the piece.                         *)
LEMMA PostedIsNext ==
  ASSUME FrameInv, NEW size \in 1..Len(stream), "posted" \in Outcomes(SubSeq(stream, 1, size))
  PROVE  /\ stream[1][1] \in (last + 1)..sent
         /\ \A i \in (size + 1)..Len(stream) : stream[1][1] < stream[i][1]
<1> USE LengthAssumption
<1> DEFINE piece == SubSeq(stream, 1, size)
<1>1. /\ stream \in Seq(Units) /\ Len(stream) \in Nat /\ sent \in Nat /\ last \in Nat
      /\ Len(piece) = size /\ \A i \in 1..size : piece[i] = stream[i]
      BY DEF FrameInv, FrameTypeOK
<1>2. Whole(piece)
      BY DEF Outcomes
<1> HIDE DEF piece
<1>3. size >= Length /\ piece[Length] = <<piece[1][1], Length>>
      BY <1>1, <1>2 DEF Whole, Begins
<1>4. stream[Length] = <<stream[1][1], Length>> /\ Length \in 1..size
      BY <1>1, <1>3
<1>5. ASSUME NEW i \in (size + 1)..Len(stream) PROVE stream[1][1] < stream[i][1]
  <2>1. i \in 1..Len(stream) /\ Length \in 1..Len(stream) /\ 1 \in 1..Len(stream) /\ Length < i
        BY <1>1, <1>4
  <2>2. stream[i] \in Units /\ stream[1] \in Units
        BY <1>1, <2>1, ElementOfSeq
  <2>3. /\ stream[i][1] \in Nat /\ stream[i][2] \in 1..Length
        /\ stream[1][1] \in Nat
        BY <2>2, UnitParts
  <2>4. Before(stream[Length], stream[i])
        BY <2>1 DEF FrameInv, InOrder
  <2>5. stream[1][1] < stream[i][1] \/ Length < stream[i][2]
        BY <1>4, <2>4 DEF Before
  <2> QED BY <2>3, <2>5
<1>6. stream[1][1] \in Nat /\ last < stream[1][1] /\ stream[1][1] <= sent
  <2>1. 1 \in 1..Len(stream)
        BY <1>1
  <2>2. stream[1] \in Units
        BY <1>1, <2>1, ElementOfSeq
  <2> QED BY <2>1, <2>2, UnitParts DEF FrameInv, ToCome
<1>7. stream[1][1] \in (last + 1)..sent
      BY <1>1, <1>6
<1> QED BY <1>5, <1>7

(* Nothing is made up as long as no message was cut.                       *)
LEMMA ForgedNeedsCut ==
  ASSUME FrameInv, NEW size \in 1..Len(stream), "forged" \in Outcomes(SubSeq(stream, 1, size))
  PROVE  cut
<1> USE LengthAssumption
<1> DEFINE piece == SubSeq(stream, 1, size)
<1>1. /\ stream \in Seq(Units) /\ Len(stream) \in Nat
      /\ Len(piece) = size /\ \A i \in 1..size : piece[i] = stream[i]
      BY DEF FrameInv, FrameTypeOK
<1>2. Mixed(piece)
      BY DEF Outcomes
<1> HIDE DEF piece
<1>3. PICK k \in 1..size : k <= Length /\ piece[k][1] # piece[1][1]
      BY <1>1, <1>2 DEF Mixed
<1>4. stream[1][2] = 1 /\ stream[k][1] # stream[1][1]
      BY <1>1, <1>2, <1>3 DEF Mixed
<1>5. ASSUME ~cut PROVE FALSE
  <2>1. \A j \in 1..(1 + Length - 1) : stream[j] = <<stream[1][1], j - 1 + 1>>
        BY <1>1, <1>4, <1>5 DEF FrameInv, InOnePiece
  <2>2. stream[k] = <<stream[1][1], k - 1 + 1>>
        BY <1>3, <2>1
  <2> QED BY <1>4, <2>2
<1> QED BY <1>5

(* A piece is taken from the front of the stream.                          *)
LEMMA ReadKeepsInv ==
  ASSUME FrameInv, NEW size \in 1..Len(stream), NEW outcome \in {"posted", "forged", "skipped"},
         Read(size, outcome)
  PROVE  FrameInv'
<1> USE LengthAssumption
<1> DEFINE piece == SubSeq(stream, 1, size)
<1>1. /\ stream \in Seq(Units) /\ Len(stream) \in Nat /\ sent \in Nat /\ last \in Nat
      /\ sent' = sent /\ cut' = cut /\ cut \in BOOLEAN /\ forged' \in BOOLEAN /\ last <= sent
      /\ posted' \in Nat
      BY DEF Read, FrameInv, FrameTypeOK
<1>2. /\ stream' \in Seq(Units) /\ Len(stream') = Len(stream) - size
      /\ \A i \in 1..Len(stream') : (stream')[i] = stream[i + size]
      BY TailKeeps DEF Read
<1>3. piece[1] = stream[1]
      BY <1>1
<1>4. /\ last' \in Nat /\ last' <= sent
      /\ \A i \in (size + 1)..Len(stream) : last' < stream[i][1] /\ stream[i][1] <= sent
  <2>1. CASE outcome = "posted"
    <3>1. last' = stream[1][1] /\ outcome \in Outcomes(piece)
          BY <1>3, <2>1 DEF Read
    <3>2. /\ stream[1][1] \in (last + 1)..sent
          /\ \A i \in (size + 1)..Len(stream) : stream[1][1] < stream[i][1]
          BY <2>1, <3>1, PostedIsNext
    <3>3. \A i \in (size + 1)..Len(stream) : stream[i][1] <= sent
          BY <1>1 DEF FrameInv, ToCome
    <3> QED BY <1>1, <3>1, <3>2, <3>3
  <2>2. CASE outcome # "posted"
    <3>1. last' = last
          BY <2>2 DEF Read
    <3>2. \A i \in (size + 1)..Len(stream) : last < stream[i][1] /\ stream[i][1] <= sent
          BY <1>1 DEF FrameInv, ToCome
    <3> QED BY <1>1, <3>1, <3>2
  <2> QED BY <2>1, <2>2
<1> HIDE DEF piece
<1>5. FrameTypeOK'
      BY <1>1, <1>2, <1>4 DEF FrameTypeOK
<1>6. InOrder'
  <2> SUFFICES ASSUME NEW i \in 1..Len(stream'), NEW j \in 1..Len(stream'), i < j
               PROVE  Before((stream')[i], (stream')[j])
      BY DEF InOrder, Before
  <2>1. i + size \in 1..Len(stream) /\ j + size \in 1..Len(stream) /\ i + size < j + size
        BY <1>1, <1>2
  <2>2. (stream')[i] = stream[i + size] /\ (stream')[j] = stream[j + size]
        BY <1>2
  <2>3. Before(stream[i + size], stream[j + size])
        BY <2>1 DEF FrameInv, InOrder
  <2> QED BY <2>2, <2>3
<1>7. ToCome'
  <2> SUFFICES ASSUME NEW i \in 1..Len(stream')
               PROVE  last' < (stream')[i][1] /\ (stream')[i][1] <= sent'
      BY DEF ToCome
  <2>1. i + size \in (size + 1)..Len(stream) /\ (stream')[i] = stream[i + size]
    <3>1. Len(stream') = Len(stream) - size /\ (stream')[i] = stream[i + size]
          BY <1>2
    <3>2. i + size \in (size + 1)..Len(stream)
          BY <1>1, <3>1
    <3> QED BY <3>1, <3>2
  <2>2. last' < stream[i + size][1] /\ stream[i + size][1] <= sent
        BY <1>4, <2>1
  <2> QED BY <1>1, <2>1, <2>2
<1>8. InOnePiece'
  <2> SUFFICES ASSUME ~cut, NEW i \in 1..Len(stream'), (stream')[i][2] = 1
               PROVE  /\ i + Length - 1 <= Len(stream')
                      /\ \A j \in i..(i + Length - 1) : (stream')[j] = <<(stream')[i][1], j - i + 1>>
      BY <1>1 DEF InOnePiece
  <2>1. i + size \in 1..Len(stream) /\ stream[i + size][2] = 1 /\ (stream')[i] = stream[i + size]
        BY <1>1, <1>2
  <2>2. /\ i + size + Length - 1 <= Len(stream)
        /\ \A j \in (i + size)..(i + size + Length - 1) : stream[j] = <<stream[i + size][1], j - (i + size) + 1>>
        BY <1>1, <2>1 DEF FrameInv, InOnePiece
  <2>3. ASSUME NEW j \in i..(i + Length - 1) PROVE (stream')[j] = <<(stream')[i][1], j - i + 1>>
    <3>1. j \in 1..Len(stream') /\ j + size \in (i + size)..(i + size + Length - 1)
          BY <1>1, <1>2, <2>2
    <3>2. (stream')[j] = stream[j + size] /\ (j + size) - (i + size) + 1 = j - i + 1
          BY <1>1, <1>2, <3>1
    <3> QED BY <2>1, <2>2, <3>1, <3>2
  <2>4. i + Length - 1 <= Len(stream')
        BY <1>1, <1>2, <2>2
  <2> QED BY <2>3, <2>4
<1> QED BY <1>1, <1>4, <1>5, <1>6, <1>7, <1>8 DEF FrameInv

LEMMA FrameStep == FrameInv /\ [FrameNext]_frameVars => FrameInv'
<1> SUFFICES ASSUME FrameInv, [FrameNext]_frameVars PROVE FrameInv'
    OBVIOUS
<1>1. ASSUME NEW written \in 1..Length, Send(written) PROVE FrameInv'
      BY <1>1, SendKeeps
<1>2. ASSUME NEW size \in 1..Len(stream), NEW outcome \in {"posted", "forged", "skipped"}, Read(size, outcome)
      PROVE  FrameInv'
      BY <1>2, ReadKeepsInv
<1>3. CASE Drop
      BY <1>3 DEF Drop, FrameInv, FrameTypeOK, InOrder, ToCome, InOnePiece
<1>4. CASE UNCHANGED frameVars
      BY <1>4 DEF frameVars, FrameInv, FrameTypeOK, InOrder, ToCome, InOnePiece, Before
<1> QED BY <1>1, <1>2, <1>3, <1>4 DEF FrameNext

(* Units stay in order, ahead of what was delivered and in one piece.      *)
THEOREM FramingSafe == FrameSpec => []FrameInv
BY FrameInitially, FrameStep, PTL DEF FrameSpec

-------------------------------------------------------------------------------
(* Every step of the framed connection is one of the lossy line, or none.  *)
LEMMA StepImplementsLine == FrameInv /\ [FrameNext]_frameVars => [Line!LineNext]_(Line!lineVars)
<1> SUFFICES ASSUME FrameInv, [FrameNext]_frameVars PROVE [Line!LineNext]_(Line!lineVars)
    OBVIOUS
<1> USE DEF Line!LineNext, Line!lineVars
<1>1. ASSUME NEW written \in 1..Length, Send(written) PROVE Line!LineSend
      BY <1>1 DEF Send, Line!LineSend, FrameInv, FrameTypeOK
<1>2. ASSUME NEW size \in 1..Len(stream), NEW outcome \in {"posted", "forged", "skipped"}, Read(size, outcome)
      PROVE  [Line!LineNext]_(Line!lineVars)
  <2>1. sent' = sent /\ cut' = cut /\ outcome \in Outcomes(SubSeq(stream, 1, size))
        BY <1>2 DEF Read
  <2>2. forged \in BOOLEAN /\ stream \in Seq(Units)
        BY DEF FrameInv, FrameTypeOK
  <2>3. CASE outcome = "posted"
    <3>1. last' = SubSeq(stream, 1, size)[1][1] /\ forged' = forged /\ posted' = posted + 1
          BY <1>2, <2>2, <2>3 DEF Read
    <3>2. SubSeq(stream, 1, size)[1] = stream[1]
          BY <2>2
    <3>3. stream[1][1] \in (last + 1)..sent
          BY <2>1, <2>3, PostedIsNext
    <3> QED BY <2>1, <3>1, <3>2, <3>3 DEF Line!LineDeliver
  <2>4. CASE outcome = "forged"
    <3>1. last' = last /\ forged' = TRUE /\ posted' = posted
          BY <1>2, <2>4 DEF Read
    <3>2. cut
          BY <2>1, <2>4, ForgedNeedsCut
    <3> QED BY <2>1, <3>1, <3>2 DEF Line!LineForge
  <2>5. CASE outcome = "skipped"
        BY <1>2, <2>1, <2>2, <2>5 DEF Read
  <2> QED BY <2>3, <2>4, <2>5
<1>3. CASE Drop
      BY <1>3 DEF Drop
<1>4. CASE UNCHANGED frameVars
      BY <1>4 DEF frameVars
<1> QED BY <1>1, <1>2, <1>3, <1>4 DEF FrameNext

(* A framed connection implements the lossy line (Server.cpp 306-349,      *)
(* Message.hpp 48-82), for every length of messages and of the buffer.     *)
THEOREM FramingImplementsLine == FrameSpec => LineSpec
<1>1. FrameInit => Line!LineInit
      BY DEF FrameInit, Line!LineInit
<1> QED BY <1>1, FramingSafe, StepImplementsLine, PTL DEF FrameSpec, LineSpec, Line!LineSpec
-------------------------------------------------------------------------------
(* What the server and the stream do in a step of Network.                 *)
LEMMA FramedOnly == Framed \in Conns
BY FramedAssumption

(* A step of Network is one of the server, or none ...                     *)
LEMMA NetStepServes == [NetNext]_netVars => [Next]_vars
<1> SUFFICES ASSUME [NetNext]_netVars PROVE [Next]_vars
    OBVIOUS
<1> USE FramedOnly
<1>1. CASE PeerWrites
      BY <1>1 DEF PeerWrites, Next
<1>2. CASE NetRunner
  <2>1. Runner(Framed)
        BY <1>2 DEF NetRunner, RunnerReadsSome, RunnerReads, RunnerReadsNone, RunnerOther, Runner
  <2> QED BY <2>1 DEF Next
<1>3. CASE PeerBreaks
      BY <1>3 DEF PeerBreaks, Next
<1>4. CASE Elsewhere
      BY <1>4 DEF Elsewhere, Next
<1>5. CASE UNCHANGED netVars
      BY <1>5 DEF netVars
<1> QED BY <1>1, <1>2, <1>3, <1>4, <1>5 DEF NetNext

(* ... and one of the stream, or none.                                     *)
LEMMA NetStepFrames == [NetNext]_netVars => [FrameNext]_frameVars
<1> SUFFICES ASSUME [NetNext]_netVars PROVE [FrameNext]_frameVars
    OBVIOUS
<1>1. CASE PeerWrites
      BY <1>1 DEF PeerWrites, FrameNext
<1>2. CASE NetRunner
      BY <1>2 DEF NetRunner, RunnerReadsSome, RunnerReads, RunnerReadsNone, FrameNext
<1>3. CASE PeerBreaks
      BY <1>3 DEF PeerBreaks, FrameNext
<1>4. CASE Elsewhere /\ UNCHANGED frameVars
      BY <1>4
<1>5. CASE UNCHANGED netVars
      BY <1>5 DEF netVars
<1> QED BY <1>1, <1>2, <1>3, <1>4, <1>5 DEF NetNext

LEMMA NetServes == NetSpec => Spec
BY NetStepServes, PTL DEF NetSpec, NetInit, Spec

LEMMA NetFrames == NetSpec => FrameSpec
BY NetStepFrames, PTL DEF NetSpec, NetInit, FrameSpec

(* A connection that the server reads implements the lossy line, whatever  *)
(* the server's threads do meanwhile: messages are posted in the order     *)
(* they were sent, at most once, and none is made up before one was cut    *)
(* (Server.cpp 306-349, Message.hpp 48-82).                                *)
THEOREM NetworkImplementsLine == NetSpec => LineSpec
BY NetFrames, FramingImplementsLine, PTL

(* The server that reads a framed stream keeps the promises of Server: its *)
(* connections are watched, stop leaves nothing behind, and no runner is   *)
(* added once the io thread was joined (Server.cpp 88-141, 263-297).       *)
THEOREM NetworkStopsClean == NetSpec => [](Watched /\ StoppedClean)
BY NetServes, WatchedConnections, StopsClean, PTL

(* There is data for the runner exactly when the stream has some.          *)
InboxIsStream == inbox[Framed] = "data" <=> stream # <<>>

(* What the runner waits for is what the peer has written and nobody has   *)
(* read: the two halves of Network agree (Server.cpp 306-320).             *)
THEOREM StreamsAgree == NetSpec => []InboxIsStream
<1>1. NetInit => InboxIsStream
      BY FramedOnly DEF NetInit, Init, FrameInit, InboxIsStream
<1>2. IInv /\ FrameInv /\ InboxIsStream /\ [NetNext]_netVars => InboxIsStream'
  <2> SUFFICES ASSUME IInv, FrameInv, InboxIsStream, [NetNext]_netVars PROVE InboxIsStream'
      OBVIOUS
  <2>1. inbox \in [Conns -> {"empty", "data"}] /\ Framed \in Conns /\ stream \in Seq(Units)
        BY FramedOnly DEF IInv, TypeOK, WireType, FrameInv, FrameTypeOK
  <2>2. CASE PeerWrites
    <3>1. inbox'[Framed] = "data"
          BY <2>1, <2>2 DEF PeerWrites, PeerSends
    <3>2. PICK written \in 1..Length : Send(written)
          BY <2>2 DEF PeerWrites
    <3>3. sent' \in Nat
          BY <3>2 DEF Send, FrameInv, FrameTypeOK
    <3>4. [k \in 1..written |-> <<sent', k>>] \in Seq(Units)
          BY <3>3, LengthAssumption, UnitParts
    <3>5. Len(stream') = Len(stream) + written
          BY <2>1, <3>2, <3>4, LengthAssumption, ConcatProperties DEF Send
    <3>6. stream' # <<>>
          BY <2>1, <3>5
    <3> QED BY <3>1, <3>6 DEF InboxIsStream
  <2>3. CASE RunnerReadsSome
        BY <2>1, <2>3 DEF RunnerReadsSome, RunnerReads, Left, RunnerRead, Takes, InboxIsStream
  <2>4. CASE RunnerReadsNone
        BY <2>4 DEF RunnerReadsNone, InboxIsStream, frameVars
  <2>5. CASE RunnerOther /\ UNCHANGED frameVars
        BY <2>5 DEF RunnerOther, RunnerStart, RunnerInsert, RunnerTest, RunnerPost, RunnerRemove, Dies, wire,
                    frameVars, InboxIsStream
  <2>6. CASE PeerBreaks
        BY <2>1, <2>6 DEF PeerBreaks, PeerLeaves, Drop, InboxIsStream
  <2>7. CASE Elsewhere /\ UNCHANGED frameVars
    <3>1. inbox' = inbox
      <4>1. CASE Io
            BY <4>1 DEF Io, IoAcceptError, IoListen, IoSpawn, IoAccept, IoSendFails, wire
      <4>2. CASE Advertising
            BY <4>2 DEF Advertising, AdvCreate, AdvOpen, AdvServe, AdvAnswer, AdvDone, AdvReceive, Dies, wire
      <4>3. CASE Stop \/ Stopping
            BY <4>3 DEF Stop, Stopping, StopListening, StopAdvertising, StopJoinsIo, StopJoinsAdv,
                        StopDisconnects, StopJoinsRunners, Dies, wire
      <4>4. CASE Start \/ Broadcast \/ Over
            BY <4>4 DEF Start, Broadcast, Dies, Over, vars, wire
      <4>5. CASE PeerConnects(Framed) \/ IoSendDone(Framed) \/ \E p \in Pingers : Ping(p)
            BY <4>5 DEF PeerConnects, IoSendDone, Ping, wire
      <4>6. CASE PeerLeaves(Framed, "finished")
            BY <2>1, <4>6 DEF PeerLeaves
      <4> QED BY <2>7, <4>1, <4>2, <4>3, <4>4, <4>5, <4>6 DEF Elsewhere
    <3> QED BY <2>7, <3>1 DEF frameVars, InboxIsStream
  <2>8. CASE UNCHANGED netVars
        BY <2>8 DEF netVars, vars, wire, frameVars, InboxIsStream
  <2> QED BY <2>2, <2>3, <2>4, <2>5, <2>6, <2>7, <2>8 DEF NetNext, NetRunner
<1> QED BY <1>1, <1>2, NetServes, NetFrames, AlwaysIInv, FramingSafe, PTL DEF NetSpec
===============================================================================

-------------------------------- MODULE Network --------------------------------
(***************************************************************************)
(* The server and a connection whose data is framed: what the peer writes  *)
(* is a stream of messages (Framing), and the runner of Server reads       *)
(* pieces of it. A step of this module is a step of Server together with   *)
(* the one of Framing that belongs to it. It is the server's only one.     *)
(***************************************************************************)
EXTENDS Server, Framing

CONSTANT Framed  \* the connection

ASSUME FramedAssumption == Conns = {Framed}

netVars == <<vars, frameVars>>

Left == IF stream' = <<>> THEN "empty" ELSE "data"

NetInit == Init /\ FrameInit

(* Client::sendBroadcast at the other end.                                 *)
PeerWrites ==
    /\ PeerSends(Framed) /\ \E written \in 1..Length : Send(written)

(* Mutation: data that is no message ends the loop. *)
RunnerReadsOrLeaves(size, outcome) ==
    /\ RunnerAt(Framed, "read") /\ open[Framed] /\ inbox[Framed] = "data" /\ Read(size, outcome)
    /\ inbox' = [inbox EXCEPT ![Framed] = Left]
    /\ Goto(Framed, IF outcome = "skipped" THEN "remove" ELSE "post")
    /\ UNCHANGED <<launcher, listening, open, clients, sending, peer, udp>>

(* A piece is read, and a message of it, one that nobody sent included, is *)
(* posted (Server.cpp 306-349).                                            *)
RunnerReads(size, outcome) ==
    /\ RunnerRead(Framed) /\ Takes(Framed) /\ Read(size, outcome)
    /\ inbox'[Framed] = Left
    /\ runner'[Framed] = IF outcome = "skipped" THEN "test" ELSE "post"

RunnerReadsSome == \E size \in 1..Len(stream), outcome \in {"posted", "forged", "skipped"} : RunnerReads(size, outcome)

(* The end of the stream or an error.                                      *)
RunnerReadsNone == (stream = <<>> \/ ~open[Framed]) /\ RunnerRead(Framed) /\ UNCHANGED <<inbox, frameVars>>

PeerBreaks == PeerLeaves(Framed, "reset") /\ Drop

RunnerOther ==
    RunnerStart(Framed) \/ RunnerInsert(Framed) \/ RunnerTest(Framed) \/ RunnerPost(Framed) \/ RunnerRemove(Framed)

NetRunner == RunnerReadsSome \/ RunnerReadsNone \/ (RunnerOther /\ UNCHANGED frameVars)

(* The steps of the server that are not about the framed stream.           *)
Elsewhere ==
    \/ Start \/ Broadcast \/ Io \/ Advertising \/ Stop \/ Stopping \/ Over
    \/ PeerConnects(Framed) \/ IoSendDone(Framed) \/ PeerLeaves(Framed, "finished")
    \/ \E p \in Pingers : Ping(p)

NetNext == PeerWrites \/ NetRunner \/ PeerBreaks \/ (Elsewhere /\ UNCHANGED frameVars)

NetSpec == NetInit /\ [][NetNext]_netVars

(* The fairness of Server: its own threads run. The other ends do as they  *)
(* like, and need not take what they are sent.                             *)
FairNetSpec ==
    /\ NetSpec
    /\ WF_netVars(Start /\ UNCHANGED frameVars) /\ WF_netVars(Io /\ UNCHANGED frameVars)
    /\ WF_netVars(Advertising /\ UNCHANGED frameVars) /\ WF_netVars(Stopping /\ UNCHANGED frameVars)
    /\ WF_netVars(NetRunner)
-------------------------------------------------------------------------------
(* What has arrived is read, whatever it is: data that cannot be taken for *)
(* a message does not keep later messages from being read, as long as the  *)
(* server runs and the connection holds (Server.cpp 303-340).              *)
Drains ==
    (stream # <<>> /\ Framed \in clients) ~> (stream = <<>> \/ ~active \/ Died)
===============================================================================

------------------------------ MODULE LossyLine -------------------------------
(***************************************************************************)
(* What a connection promises of the messages that one end sends and the   *)
(* other end posts (networking/server/src/Server.cpp, networking/client/   *)
(* src/Client.cpp): they may be lost, but they come in the order in which  *)
(* they were sent, none of them twice; and nothing comes that was not      *)
(* sent, unless some message was cut before.                               *)
(***************************************************************************)
EXTENDS Naturals

VARIABLES sent,    \* how many messages were sent
          last,    \* the last one that was delivered
          posted,  \* how many deliveries there were
          cut,     \* one of them was sent in part only
          forged   \* something was delivered that nobody sent

lineVars == <<sent, last, posted, cut, forged>>

LineInit == sent = 0 /\ last = 0 /\ posted = 0 /\ cut = FALSE /\ forged = FALSE

LineSend ==
    /\ sent' = sent + 1 /\ cut' \in {cut, TRUE}
    /\ UNCHANGED <<last, posted, forged>>

LineDeliver ==
    /\ last' \in (last + 1)..sent /\ posted' = posted + 1
    /\ UNCHANGED <<sent, cut, forged>>

LineForge == cut /\ forged' = TRUE /\ UNCHANGED <<sent, last, posted, cut>>

LineNext == LineSend \/ LineDeliver \/ LineForge

LineSpec == LineInit /\ [][LineNext]_lineVars
===============================================================================

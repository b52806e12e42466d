-------------------------------- MODULE Framing --------------------------------
(***************************************************************************)
(* One direction of a TCP connection: the messages that one end writes     *)
(* with async_send, and what receiveData makes of them at the other        *)
(* (util/network/Message.hpp, Server.cpp and Client.cpp). A message is a   *)
(* text archive: its header, its id and data, and a checksum at the end.   *)
(* There is no length before it, and a read returns what has arrived: a    *)
(* part of a message, one of them, or several.                             *)
(*                                                                         *)
(* A message is Length units; unit 1 has the header, the last one the      *)
(* checksum. The data of a message holds no message itself.                *)
(***************************************************************************)
EXTENDS Integers, Sequences

CONSTANTS Length,      \* units of a message
          Buffer,      \* m_serverMaxRxMsgSizeKb, in units
          MaxMessages  \* bound: messages sent

ASSUME LengthAssumption == Length \in Nat \ {0} /\ Buffer \in Nat \ {0} /\ MaxMessages \in Nat

VARIABLES stream,  \* the units that were written and not read: <<message, unit>>
          sent,    \* history: how many messages were sent
          last,    \* history: the last one that was delivered
          posted,  \* history: how many deliveries there were
          cut,     \* history: one of them was written in part only
          forged   \* history: something was delivered that nobody sent

frameVars == <<stream, sent, last, posted, cut, forged>>

FrameInit == stream = <<>> /\ sent = 0 /\ last = 0 /\ posted = 0 /\ cut = FALSE /\ forged = FALSE

(* async_send may write a part of its buffer only, and nobody looks at how *)
(* much it was (Client.cpp 253-263, Server.cpp 149-167).                   *)
Send(written) ==
    /\ sent < MaxMessages /\ sent' = sent + 1
    /\ stream' = stream \o [k \in 1..written |-> <<sent', k>>]
    /\ cut' = (cut \/ written < Length)
    /\ UNCHANGED <<last, posted, forged>>

-------------------------------------------------------------------------------
(* The units of one message come first, up to a length.                    *)
Begins(piece, length) == \A k \in 1..length : piece[k] = <<piece[1][1], k>>

Whole(piece) == Len(piece) >= Length /\ Begins(piece, Length)

(* The first message of the piece ends where another one begins.           *)
Mixed(piece) ==
    /\ piece[1][2] = 1
    /\ \E k \in 1..Len(piece) : k <= Length /\ piece[k][1] # piece[1][1]

(* What fromString and isValid make of a piece (Message.hpp 48-68).        *)
(* Without the header, or without an end, it is skipped: the archive       *)
(* throws, or a part of the checksum is not the checksum. A whole message  *)
(* with nothing behind it is posted. With another one right behind it its  *)
(* checksum is read on into the 22 that every archive begins with, and is  *)
(* still right for one value of it in 256. A message that was cut is       *)
(* filled up with what follows, and is right by chance.                    *)
Outcomes(piece) ==
    IF Whole(piece)      THEN (IF Len(piece) = Length THEN {"posted"} ELSE {"posted", "skipped"})
    ELSE IF Mixed(piece) THEN {"forged", "skipped"}
    ELSE                      {"skipped"}

(* Mutation: what is read with the beginning of another message is kept.   *)
ReadKeeps(size, outcome) ==
    LET piece == SubSeq(stream, 1, size)
    IN  /\ size <= Buffer /\ outcome \in Outcomes(piece)
        /\ stream' = IF size > Length THEN stream ELSE SubSeq(stream, size + 1, Len(stream))
        /\ last' = IF outcome = "posted" THEN piece[1][1] ELSE last
        /\ posted' = IF outcome = "posted" THEN posted + 1 ELSE posted
        /\ forged' = (forged \/ outcome = "forged")
        /\ UNCHANGED <<sent, cut>>

(* read_some takes some of what is there, as much as the buffer holds; of  *)
(* all of it at most one message is posted (Server.cpp 306-349).           *)
Read(size, outcome) ==
    LET piece == SubSeq(stream, 1, size)
    IN  /\ size <= Buffer /\ outcome \in Outcomes(piece)
        /\ stream' = SubSeq(stream, size + 1, Len(stream))
        /\ last' = IF outcome = "posted" THEN piece[1][1] ELSE last
        /\ posted' = IF outcome = "posted" THEN posted + 1 ELSE posted
        /\ forged' = (forged \/ outcome = "forged")
        /\ UNCHANGED <<sent, cut>>

(* The connection breaks: what was not read is lost.                       *)
Drop == stream' = <<>> /\ UNCHANGED <<sent, last, posted, cut, forged>>

FrameNext ==
    \/ \E written \in 1..Length : Send(written)
    \/ \E size \in 1..Len(stream), outcome \in {"posted", "forged", "skipped"} : Read(size, outcome)
    \/ Drop

FrameSpec == FrameInit /\ [][FrameNext]_frameVars
-------------------------------------------------------------------------------
Line == INSTANCE LossyLine

(* Messages are posted in the order they were sent, at most once each, and *)
(* none is made up before one was cut, however the writes and reads divide *)
(* the stream (Server.cpp 306-349, Message.hpp 48-82).                     *)
LineSpec == Line!LineSpec
===============================================================================

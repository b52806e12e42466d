------------------------------- MODULE LogQueue -------------------------------
(***************************************************************************)
(* What the detached sink of the event logger promises its callers, with   *)
(* no thread, mutex or condition variable: log entries are written out one *)
(* at a time, in the order they were accepted, each at most once; after    *)
(* the sink has been told to stop it accepts nothing more and may leave    *)
(* the entries it has not written yet behind.                              *)
(***************************************************************************)
EXTENDS Naturals, Sequences

CONSTANT Entries

VARIABLES accepted,   \* the entries accepted so far, in order
          written,    \* the entries written so far, in order
          phase       \* "open", "closing" or "closed"

qvars == <<accepted, written, phase>>

Init == accepted = <<>> /\ written = <<>> /\ phase = "open"

Accept(e) ==
    /\ phase = "open"
    /\ accepted' = Append(accepted, e)
    /\ UNCHANGED <<written, phase>>

Write ==
    /\ phase # "closed"
    /\ Len(written) < Len(accepted)
    /\ written' = Append(written, accepted[Len(written) + 1])
    /\ UNCHANGED <<accepted, phase>>

Stop   == phase = "open"    /\ phase' = "closing" /\ UNCHANGED <<accepted, written>>
Closed == phase = "closing" /\ phase' = "closed"  /\ UNCHANGED <<accepted, written>>

Next == Write \/ Stop \/ Closed \/ \E e \in Entries : Accept(e)

Spec == Init /\ [][Next]_qvars
===============================================================================

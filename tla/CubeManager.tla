----------------------------- MODULE CubeManager -----------------------------
(***************************************************************************)
(* The driver of the LED cube (apps/cubeManager/src/CubeManager.cpp). A    *)
(* periodic timer shows one layer after the other, of every byte one bit   *)
(* at a time; another one publishes the picture. The timers run on threads *)
(* of their own, and so do updateCube, updateLed and stop, with no lock.   *)
(*                                                                         *)
(* Of the cube one byte is modelled, a channel of a LED in layer Observed; *)
(* CubeData has where the bytes are. What a timer does when it is          *)
(* cancelled is that of Timers, once it is registered there: an expiry     *)
(* that comes before still calls the handler, and then the process dies.   *)
(***************************************************************************)
EXTENDS Integers, FiniteSets

CONSTANTS Layers,         \* m_numLayers
          Width,          \* 2^8 in the code: the byte and m_activeDigit
          Observed,       \* the layer of the byte
          Values,         \* the values it is given
          MaxUpdates      \* bound: messages

ASSUME LayersAssumption == Layers \in Nat \ {0} /\ Observed \in 0..(Layers - 1)
ASSUME WidthAssumption  == Width \in {2, 4, 8, 16, 32, 64, 128, 256} /\ Values \subseteq 0..(Width - 1)
ASSUME UpdateAssumption == MaxUpdates \in Nat

Timers == {"cycle", "state"}

VARIABLES m_activeLayer, m_activeDigit,
          m_controllerPtr,  \* "open", or "null"
          byte,             \* the byte in m_cubeData
          timer,            \* "none", "armed", "late", "shows", "ended"
          cancelled,        \* the timers that were cancelled
          pc,               \* main, in the component's life
          lit,              \* history: how often the byte was lit since the first bit
          steady,           \* history: it has not changed since
          updates,          \* how many messages there were
          fate              \* "running", or "crashed"

display == <<m_activeLayer, m_activeDigit, lit>>
life    == <<m_controllerPtr, cancelled, pc>>
vars    == <<display, life, byte, timer, steady, updates, fate>>

Init ==
    /\ m_activeLayer = 0 /\ m_activeDigit = 0 /\ m_controllerPtr = "open" /\ byte = 0
    /\ timer = [t \in Timers |-> "none"] /\ cancelled = {}
    /\ pc = "init" /\ lit = 0 /\ steady = FALSE /\ updates = 0 /\ fate = "running"

-------------------------------------------------------------------------------
(* The timer of the layers is set, and that of the state if it is to be    *)
(* published (55-74).                                                      *)
Start ==
    /\ pc = "init" /\ pc' = "started"
    /\ \E set \in {Timers, {"cycle"}} :
          timer' = [t \in Timers |-> IF t \in set THEN "armed" ELSE "none"]
    /\ UNCHANGED <<display, m_controllerPtr, cancelled, byte, steady, updates, fate>>

(* cancelTimer ends a wait, or is too late: the timer has expired.         *)
Cancel(t) ==
    /\ cancelled' = cancelled \cup {t}
    /\ \E end \in {"ended", "late"} : timer' = [timer EXCEPT ![t] = IF @ = "armed" THEN end ELSE @]
    /\ UNCHANGED <<display, m_controllerPtr, byte, steady, updates, fate>>

(* stop cancels the timers and gives up the controller (76-81).            *)
StopCycle == pc = "started" /\ pc' = "stopping" /\ Cancel("cycle")
StopState == pc = "stopping" /\ pc' = "cancelled" /\ Cancel("state")

StopReset ==
    /\ pc = "cancelled" /\ pc' = "stopped" /\ m_controllerPtr' = "null"
    /\ UNCHANGED <<display, cancelled, byte, timer, steady, updates, fate>>

-------------------------------------------------------------------------------
(* The timer expires and its handler is called.                            *)
Fires(t) == timer[t] \in {"armed", "late"}

(* The timer is armed again; one that was cancelled is gone (Timers).      *)
Rearm(t) ==
    /\ timer' = [timer EXCEPT ![t] = "armed"]
    /\ fate' = IF t \in cancelled THEN "crashed" ELSE fate

(* Mutation: compared instead of masked. *)
BitOfCompared(value, digit) == digit > 0 /\ value >= digit

(* The mask of periodicUpdate (99-100); without a digit all is dark.       *)
BitOf(value, digit) == digit > 0 /\ (value \div digit) % 2 = 1

(* m_activeDigit << 1 in eight bits, then the first bit again (88-89).     *)
NextDigit(digit) == IF (2 * digit) % Width = 0 THEN 1 ELSE (2 * digit) % Width

(* Mutation: the last layer is left out. *)
AdvanceShort ==
    /\ Fires("cycle") /\ timer' = [timer EXCEPT !["cycle"] = "shows"]
    /\ IF m_activeLayer + 1 >= Layers - 1
       THEN m_activeLayer' = 0 /\ m_activeDigit' = NextDigit(m_activeDigit)
       ELSE m_activeLayer' = m_activeLayer + 1 /\ UNCHANGED m_activeDigit
    /\ IF m_activeLayer' = 0 /\ m_activeDigit' = 1 THEN lit' = 0 /\ steady' = TRUE ELSE UNCHANGED <<lit, steady>>
    /\ UNCHANGED <<life, byte, updates, fate>>

(* periodicUpdate goes on to the next layer, and after the last one to the *)
(* next bit (85-91) ...                                                    *)
Advance ==
    /\ Fires("cycle") /\ timer' = [timer EXCEPT !["cycle"] = "shows"]
    /\ IF m_activeLayer + 1 >= Layers
       THEN m_activeLayer' = 0 /\ m_activeDigit' = NextDigit(m_activeDigit)
       ELSE m_activeLayer' = m_activeLayer + 1 /\ UNCHANGED m_activeDigit
    /\ IF m_activeLayer' = 0 /\ m_activeDigit' = 1 THEN lit' = 0 /\ steady' = TRUE ELSE UNCHANGED <<lit, steady>>
    /\ UNCHANGED <<life, byte, updates, fate>>

(* ... and outputs it (93-103), through a pointer that stop resets.        *)
Output ==
    /\ timer["cycle"] = "shows"
    /\ IF m_controllerPtr = "null" THEN fate' = "crashed" /\ UNCHANGED <<lit, timer>>
       ELSE /\ Rearm("cycle")
            /\ lit' = lit + (IF m_activeLayer = Observed /\ BitOf(byte, m_activeDigit) THEN 1 ELSE 0)
    /\ UNCHANGED <<m_activeLayer, m_activeDigit, life, byte, steady, updates>>

(* publishState posts the picture (106-111).                               *)
PublishState ==
    /\ Fires("state") /\ Rearm("state")
    /\ UNCHANGED <<display, life, byte, steady, updates>>

(* What updateCube and updateLed do to the byte (113-133).                 *)
Store(value) == byte' = value /\ steady' = (steady /\ value = byte)

Update(value) ==
    /\ updates < MaxUpdates /\ updates' = updates + 1 /\ Store(value)
    /\ UNCHANGED <<display, life, timer, fate>>

Ticks    == Advance \/ Output
Stops    == StopCycle \/ StopState \/ StopReset
Driver   == Start \/ Stops \/ Ticks \/ PublishState \/ \E value \in Values : Update(value)
Next     == (fate = "running" /\ Driver) \/ ((fate = "crashed" \/ pc = "stopped") /\ UNCHANGED vars)

Spec == Init /\ [][Next]_vars

(* The timer fires as long as it is armed.                                 *)
FairSpec == Spec /\ WF_vars(fate = "running" /\ Ticks)
-------------------------------------------------------------------------------
(* The values of m_activeDigit: one bit of the byte.                       *)
Digits == {1, 2, 4, 8, 16, 32, 64, 128} \cap 1..(Width - 1)

TypeOK ==
    /\ m_activeLayer \in 0..(Layers - 1) /\ m_activeDigit \in Digits \cup {0}
    /\ m_controllerPtr \in {"open", "null"} /\ byte \in 0..(Width - 1)
    /\ timer \in [Timers -> {"none", "armed", "late", "shows", "ended"}] /\ cancelled \subseteq Timers
    /\ pc \in {"init", "started", "stopping", "cancelled", "stopped"}
    /\ lit \in 0..Cardinality(Digits) /\ steady \in BOOLEAN /\ updates \in 0..MaxUpdates
    /\ fate \in {"running", "crashed"}

(* The brightness of a LED is the number of bits set in its byte: in the   *)
(* turn of all bits, from the first bit and layer to the last ones, it is  *)
(* lit once for each of them (85-101), if it was not changed meanwhile.    *)
BrightnessIsBits ==
    (steady /\ timer["cycle"] = "armed" /\ m_activeLayer = Layers - 1 /\ 2 * m_activeDigit >= Width) =>
        lit = Cardinality({d \in Digits : (byte \div d) % 2 = 1})

(* Every layer is shown with every bit, again and again, while the driver  *)
(* is not stopped (85-91).                                                 *)
AllShown ==
    \A l \in 0..(Layers - 1), d \in Digits :
        []<>(cancelled # {} \/ pc = "init" \/ fate = "crashed" \/ (m_activeLayer = l /\ m_activeDigit = d))
===============================================================================

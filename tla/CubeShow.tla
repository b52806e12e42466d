------------------------------- MODULE CubeShow -------------------------------
(***************************************************************************)
(* A pattern and the LED driver in one process, as in apps/cubeManager/    *)
(* sample/config.json: the pattern's timer thread posts its cube, and the  *)
(* handler of "updateCube" runs in that thread, next to the driver's own   *)
(* timers (Component.cpp, post). Both have the same size; of what is       *)
(* posted the driver's byte is the cell Watched, whose layer is j. Other   *)
(* programs may set a LED too (updateLed).                                 *)
(***************************************************************************)
EXTENDS Patterns, CubeManager

CONSTANT Watched   \* the cell that the byte is of

ASSUME ShowAssumption ==
    /\ N = Layers /\ Watched \in Cells /\ Watched[2] = Observed
    /\ Colors \subseteq 0..(Width - 1)

driverRest == <<display, life, timer, updates>>
showVars   == <<patternVars, vars>>

ShowInit == PatternInit /\ Init

(* The launcher starts the components one after the other, and stops them  *)
(* so: the driver is the first one of the configuration, and deleted as    *)
(* soon as it is stopped (main.cpp 113-128). The start of BoxIt posts.     *)
StartPattern ==
    /\ fate = "running" /\ pc = "started" /\ PatternStart
    /\ IF kind = "boxIt" THEN Store(cube'[Watched]) ELSE UNCHANGED <<byte, steady>>
    /\ UNCHANGED <<driverRest, fate>>

StopPattern == fate = "running" /\ pc = "stopped" /\ PatternStop /\ UNCHANGED vars

(* A pattern goes on and posts. The process dies when the driver has been  *)
(* deleted, or when a timer that is gone is armed.                         *)
ShowPicture ==
    /\ fate = "running" /\ PatternTick /\ Store(cube'[Watched])
    /\ fate' = IF pc = "stopped" \/ beat' = "lost" THEN "crashed" ELSE fate
    /\ UNCHANGED driverRest

DriverStep ==
    /\ fate = "running" /\ Driver /\ (pc' = "stopping" => beat # "none")
    /\ UNCHANGED patternVars

Over == (fate = "crashed" \/ (pc = "stopped" /\ beat = "ended")) /\ UNCHANGED showVars

ShowNext == StartPattern \/ StopPattern \/ ShowPicture \/ DriverStep \/ Over

ShowSpec == ShowInit /\ [][ShowNext]_showVars

(* The timers fire as long as they are armed.                              *)
FairShowSpec ==
    /\ ShowSpec
    /\ WF_showVars(ShowPicture)
    /\ WF_showVars(fate = "running" /\ Ticks /\ UNCHANGED patternVars)
-------------------------------------------------------------------------------
(* The pattern does not run, or not any more.                              *)
NoShow == beat # "set" \/ fate = "crashed"

(* LedTest comes back to the watched LED, whichever it is, however the     *)
(* indexes wrap around (LedTest.cpp 83-102) ...                            *)
EveryLed == []<>(NoShow \/ kind # "ledTest" \/ cube[Watched] = White)

(* ... and Marques comes back to every character of its text, in the whole *)
(* cube, with a dark cube after it (Marques.cpp 165-235).                  *)
EveryLetter ==
    \A n \in DOMAIN Text :
        []<>(\/ NoShow \/ kind # "marques" \/ Text[n] = Unknown
             \/ \A c \in Cells : (cube[c] = White) <=> (<<c[1], c[2]>> \in Text[n]))

(* The show goes on: neither the pattern nor the scan of the driver stands *)
(* still in any corner while the other one runs.                           *)
ShowGoesOn == EveryLed /\ EveryLetter /\ AllShown
===============================================================================

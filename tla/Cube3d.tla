-------------------------------- MODULE Cube3d --------------------------------
(***************************************************************************)
(* The cube on the screen (apps/cube3d/src): its picture and the LED that  *)
(* is selected in it. Three threads share them without a lock: the UI      *)
(* thread handles keys (Cube3dComponent_functional.cpp), a timer lets the  *)
(* selected LED blink, and the threads that post "updateLed", "updateCube" *)
(* and "cubeState" change the picture (Cube3dComponent.cpp). The steps are *)
(* those of the timer up to an access of the picture or of the selection,  *)
(* and the two statements of a key that moves the selection. One step each *)
(* are a key that colors, the three assignments that let the cursor follow *)
(* (100-102), and the loop that replaces the picture (Cube.hpp 64-81).     *)
(*                                                                         *)
(* Of a color one channel is kept, 0..255; the three are handled alike.    *)
(* The view (rotation, scaling, drawing) is left out, and so are the life  *)
(* of the UI thread, which Launcher has, and messages that change the size *)
(* of the cube.                                                            *)
(***************************************************************************)
EXTENDS Integers

CONSTANTS N,           \* the edge of the cube, a power of two; 8 in the code
          Width,       \* coordinates are modulo Width, a multiple of N; 2^32
          On, Off,     \* blink-period
          Colors,      \* the colors that others send
          Coordinates, \* the coordinates that others send; 0..255 in the code
          MaxKeys,     \* bound: keys pressed
          MaxUpdates   \* bound: messages from others

ASSUME EdgeAssumption  == N \in Nat \ {0} /\ Width \in Nat /\ Width > N /\ Width % N = 0
ASSUME BlinkAssumption == On \in Nat \ {0} /\ Off \in Nat \ {0}
ASSUME ColorAssumption == Colors \subseteq 0..255 /\ Coordinates \subseteq Nat /\ MaxKeys \in Nat /\ MaxUpdates \in Nat

Axes     == {"x", "y", "z"}
Leds     == [Axes -> 0..(N - 1)]
Offset(p) == (N * N * p["x"] + N * p["y"] + p["z"]) % Width
Offsets  == 0..(N * N * N - 1)
Corner(i) == [a \in Axes |-> i]

VARIABLES m_cubeData,     \* offset -> color
          current,        \* state.current.selectedLed
          previous,       \* state.previous.selectedLed, the one keys move
          selectedColor, blinkCounter, moveDirection,
          tick,           \* where activeItemBlink is
          ui,             \* "idle", or the axis a key is moving along
          picture,        \* history: what the LEDs were set to
          keys, updates,  \* how many of them there were
          raced,          \* history: a thread came between the steps of another
          caught,         \* history: the timer used the selection before its mask
          fate            \* "running", or ended by an exception: "no LED selected"
                          \* when the cursor, "no LED named" when a message left
                          \* the cube

shown == <<m_cubeData, picture>>
state == <<current, previous, selectedColor, blinkCounter, moveDirection>>
vars  == <<shown, state, tick, ui, keys, updates, raced, caught, fate>>

Init ==
    /\ m_cubeData = [o \in Offsets |-> 0] /\ picture = m_cubeData
    /\ current = Corner(0) /\ previous = Corner(0)
    /\ selectedColor = 0 /\ blinkCounter = 0 /\ moveDirection = TRUE
    /\ tick = "idle" /\ ui = "idle" /\ keys = 0 /\ updates = 0
    /\ raced = FALSE /\ caught = FALSE /\ fate = "running"

-------------------------------------------------------------------------------
Races(busy) == raced' = (raced \/ busy)

(* The timer uses the selection, between the two statements of a key or not.*)
Uses(selection) == caught' = (caught \/ (selection /\ ui # "idle"))

(* vector::at: an offset outside of the cube throws, and nobody catches.   *)
At(p) == Offset(p) \in Offsets

Set(p, color) ==
    IF At(p) THEN m_cubeData' = [m_cubeData EXCEPT ![Offset(p)] = color] /\ UNCHANGED fate
    ELSE fate' = "no LED selected" /\ UNCHANGED m_cubeData

(* Mutation: the LED that is left keeps what it shows. *)
TickForgetful ==
    /\ tick = "idle" /\ Races(ui # "idle")
    /\ IF current # previous THEN tick' = "take" ELSE tick' = "blink"
    /\ UNCHANGED <<shown, state, ui, keys, updates, caught, fate>>

(* activeItemBlink: a selection that has moved gives the LED it leaves its *)
(* color (86-95), ...                                                      *)
Tick ==
    /\ tick = "idle" /\ Races(ui # "idle")
    /\ IF current # previous
       THEN Set(current, selectedColor) /\ tick' = "take"
       ELSE tick' = "blink" /\ UNCHANGED <<m_cubeData, fate>>
    /\ UNCHANGED <<picture, state, ui, keys, updates, caught>>

(* ... takes the color of the one it is at (96-99) ...                     *)
Take ==
    /\ tick = "take" /\ tick' = "follow" /\ Uses(TRUE)
    /\ IF At(previous) THEN selectedColor' = m_cubeData[Offset(previous)] /\ UNCHANGED fate
       ELSE fate' = "no LED selected" /\ UNCHANGED selectedColor
    /\ UNCHANGED <<shown, current, previous, blinkCounter, moveDirection, ui, keys, updates, raced>>

(* ... and is there (100-102).                                             *)
Follow ==
    /\ tick = "follow" /\ tick' = "blink" /\ current' = previous /\ Uses(TRUE)
    /\ UNCHANGED <<shown, previous, selectedColor, blinkCounter, moveDirection, ui, keys, updates, raced, fate>>

(* Mutation: the LED keeps the inverse. *)
BlinkOnce ==
    /\ tick = "blink" /\ tick' = "idle" /\ Uses(blinkCounter = On \/ blinkCounter >= On + Off)
    /\ IF blinkCounter = On THEN Set(previous, 255 - selectedColor) ELSE UNCHANGED <<m_cubeData, fate>>
    /\ blinkCounter' = (IF blinkCounter >= On + Off THEN 0 ELSE blinkCounter) + 1
    /\ UNCHANGED <<picture, current, previous, selectedColor, moveDirection, ui, keys, updates, raced>>

(* The selected LED shows the inverse of its color, and its color (105-122).*)
Blink ==
    /\ tick = "blink" /\ tick' = "idle" /\ Uses(blinkCounter = On \/ blinkCounter >= On + Off)
    /\ IF blinkCounter = On THEN Set(previous, 255 - selectedColor)
       ELSE IF blinkCounter >= On + Off THEN Set(previous, selectedColor)
       ELSE UNCHANGED <<m_cubeData, fate>>
    /\ blinkCounter' = (IF blinkCounter >= On + Off THEN 0 ELSE blinkCounter) + 1
    /\ UNCHANGED <<picture, current, previous, selectedColor, moveDirection, ui, keys, updates, raced>>

-------------------------------------------------------------------------------
KeyPressed ==
    /\ ui = "idle" /\ keys < MaxKeys /\ keys' = keys + 1 /\ Races(tick # "idle")
    /\ UNCHANGED <<tick, updates, caught>>

(* Keys X, Y and Z move the selection: it is added to (127, 131, 135) ...  *)
KeyMove(axis) ==
    /\ KeyPressed /\ ui' = axis
    /\ previous' = [previous EXCEPT ![axis] = (@ + (IF moveDirection THEN Width - 1 ELSE 1)) % Width]
    /\ UNCHANGED <<shown, current, selectedColor, blinkCounter, moveDirection, fate>>

(* Mutation: the coordinate does not wrap. *)
KeyMoveUnmasked ==
    /\ ui # "idle" /\ ui' = "idle"
    /\ UNCHANGED <<shown, state, tick, keys, updates, raced, caught, fate>>

(* ... and then masked (128, 132, 136).                                    *)
KeyMoved ==
    /\ ui # "idle" /\ ui' = "idle" /\ previous' = [previous EXCEPT ![ui] = @ % N]
    /\ UNCHANGED <<shown, current, selectedColor, blinkCounter, moveDirection, tick, keys, updates, raced, caught, fate>>

(* Key T (139-141).                                                        *)
KeyDirection ==
    /\ KeyPressed /\ moveDirection' = ~moveDirection
    /\ UNCHANGED <<shown, current, previous, selectedColor, blinkCounter, ui, fate>>

Palette == << 0, 1, 17, 85, 255 >>

(* The next color of the palette in a direction (11-30).                   *)
NextColor(color, increase) ==
    LET next == {i \in 1..5 : \E k \in 1..5 :
                    Palette[k] = color /\ i = (IF increase THEN (IF k = 5 THEN 5 ELSE k + 1)
                                                           ELSE (IF k = 1 THEN 1 ELSE k - 1))}
    IN  IF next = {} THEN 85 ELSE Palette[CHOOSE i \in next : TRUE]

(* Keys R, G and B: the color is changed and with one           *)
(* coordinate for all three (32-42); the component's own updateLed gets    *)
(* the message too (143-166; Cube3dComponent.cpp 125-137, 62-71).          *)
KeyColor ==
    LET color == NextColor(selectedColor, moveDirection)
        led   == Corner(current["x"] % 256)
    IN  /\ KeyPressed /\ selectedColor' = color /\ Set(led, color)
        /\ picture' = [picture EXCEPT ![Offset(led)] = color, ![Offset(current)] = color]
        /\ UNCHANGED <<current, previous, blinkCounter, moveDirection, ui>>

(* Key 0 (168-170).                                                        *)
KeyReset ==
    /\ KeyPressed /\ selectedColor' = 0 /\ picture' = [picture EXCEPT ![Offset(current)] = 0]
    /\ UNCHANGED <<m_cubeData, current, previous, blinkCounter, moveDirection, ui, fate>>

-------------------------------------------------------------------------------
(* A message of another component sets LEDs to a color: one, updateLed     *)
(* (62-71), or all, updateCube (73-80). The selected LED will have its own *)
(* color back when it blinks or is left. Nobody has checked the coordinates*)
(* of the one: they may be those of another LED or of none, and then at()  *)
(* throws out of the thread that posts (Cube.hpp 49-53).                   *)
Update(leds, color) ==
    /\ updates < MaxUpdates /\ updates' = updates + 1 /\ Races(tick # "idle")
    /\ m_cubeData' = [o \in Offsets |-> IF o \in leds THEN color ELSE m_cubeData[o]]
    /\ picture' = [o \in Offsets |-> IF o \in leds \ {Offset(current)} THEN color ELSE picture[o]]
    /\ fate' = IF leds \subseteq Offsets THEN fate ELSE "no LED named"
    /\ UNCHANGED <<state, tick, ui, keys, caught>>

UpdateLed  == \E p \in [Axes -> Coordinates], color \in Colors : Update({Offset(p)}, color)
UpdateCube == \E color \in Colors : Update(Offsets, color)

Timer == Tick \/ Take \/ Follow \/ Blink
Ui    == (\E axis \in Axes : KeyMove(axis)) \/ KeyMoved \/ KeyDirection \/ KeyColor \/ KeyReset
Next  ==
    \/ fate = "running" /\ (Timer \/ Ui \/ UpdateLed \/ UpdateCube)
    \/ fate # "running" /\ UNCHANGED vars

Spec == Init /\ [][Next]_vars

(* The timer goes on firing, and the UI thread finishes with a key.        *)
FairSpec == Spec /\ WF_vars(fate = "running" /\ Timer) /\ WF_vars(fate = "running" /\ KeyMoved)
-------------------------------------------------------------------------------
TypeOK ==
    /\ m_cubeData \in [Offsets -> 0..255] /\ picture \in [Offsets -> 0..255]
    /\ current \in [Axes -> 0..(Width - 1)] /\ previous \in [Axes -> 0..(Width - 1)]
    /\ selectedColor \in 0..255 /\ blinkCounter \in 0..(On + Off) /\ moveDirection \in BOOLEAN
    /\ tick \in {"idle", "take", "follow", "blink"} /\ ui \in Axes \cup {"idle"}
    /\ keys \in 0..MaxKeys /\ updates \in 0..MaxUpdates /\ raced \in BOOLEAN
    /\ caught \in BOOLEAN /\ fate \in {"running", "no LED selected", "no LED named"}

(* The selection is a cursor: apart from the LED it is at, the cube shows  *)
(* what its LEDs were set to, wherever the cursor has been, and that LED's *)
(* color is not lost, unless two threads came into each other (82-123).    *)
PictureKept ==
    (~raced /\ tick = "idle" /\ ui = "idle") =>
        [m_cubeData EXCEPT ![Offset(current)] = selectedColor] = picture

(* "Rotate on x-direction" (Cube3dComponent_functional.cpp 130): the       *)
(* selection goes round in the cube. Neither the timer nor a key looks up  *)
(* an LED that the cube does not have, whatever threads came into each     *)
(* other, but for one way: the timer took the selection, copied it or      *)
(* looked it up, between the two statements that move it (126-137). What   *)
(* messages name is another matter: those of "updateLed" may end the       *)
(* process (Cube3dComponent.cpp 62-71).                                    *)
CursorStaysInCube == fate = "no LED selected" => caught

Shows(color) == At(current) /\ m_cubeData[Offset(current)] = color

(* The selected LED keeps blinking: its color and the inverse of it are    *)
(* shown again and again, also after such a race (105-122).                *)
Blinks ==
    /\ []<>(Shows(selectedColor) \/ fate # "running")
    /\ []<>(Shows(255 - selectedColor) \/ fate # "running")
===============================================================================

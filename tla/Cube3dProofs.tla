----------------------------- MODULE Cube3dProofs -----------------------------
(***************************************************************************)
(* Proofs for Cube3d, for every size of the cube, period of the blinking   *)
(* number of keys, and whatever messages name: the cursor stays in the cube*)
(* while the timer does not use a selection that a key is still to mask,   *)
(* and without any race the picture is kept. The invariant says where the  *)
(* color of the selected LED is while the timer moves the cursor, and what *)
(* a key that is not done yet has done to the selection.                   *)
(***************************************************************************)
EXTENDS Cube3d, TLAPS

(* The cursor is in the cube, and so is the selection, but for the         *)
(* coordinate that a key is about to mask.                                 *)
InCube ==
    /\ current \in Leds
    /\ \A a \in Axes : a # ui => previous[a] \in 0..(N - 1)

(* A key comes before or after the whole of a tick.                        *)
Alone == ~caught /\ (ui # "idle" => tick = "idle")

(* Where the color of the LED is that the cursor is at.                    *)
ColorKept ==
    /\ tick \in {"idle", "blink"} => [m_cubeData EXCEPT ![Offset(current)] = selectedColor] = picture
    /\ tick \in {"take", "follow"} => m_cubeData = picture
    /\ tick = "follow" => selectedColor = m_cubeData[Offset(previous)]
    /\ tick = "blink" => current = previous

IInv ==
    /\ TypeOK
    /\ ~caught => InCube /\ fate # "no LED selected"
    /\ ~raced => Alone /\ ColorKept

-------------------------------------------------------------------------------
(* The LEDs of a cube have an offset in it.                                *)
LEMMA OffsetInCube == ASSUME NEW p \in Leds PROVE Offset(p) \in Offsets
<1> DEFINE x == p["x"]
           y == p["y"]
           z == p["z"]
<1>1. x \in 0..(N - 1) /\ y \in 0..(N - 1) /\ z \in 0..(N - 1) /\ N \in Nat \ {0} /\ Width \in Nat /\ Width > 0
      BY EdgeAssumption DEF Leds, Axes
<1> HIDE DEF x, y, z
<1>2. N * y + z \in 0..(N * N - 1)
  <2>1. N * y \in Nat /\ N * y <= N * (N - 1)
        BY <1>1
  <2>2. N * (N - 1) = N * N - N
        BY <1>1
  <2> QED BY <1>1, <2>1, <2>2
<1>3. N * N * x + (N * y + z) \in 0..(N * N * N - 1)
  <2> DEFINE s == N * N
  <2>1. s \in Nat
        BY <1>1
  <2> HIDE DEF s
  <2>2. s * x \in Nat /\ s * x <= s * (N - 1)
        BY <1>1, <2>1
  <2>3. s * (N - 1) = s * N - s
        BY <1>1, <2>1
  <2>4. N * y + z \in 0..(s - 1)
        BY <1>2 DEF s
  <2>5. s * x + (N * y + z) \in 0..(s * N - 1)
        BY <1>1, <2>1, <2>2, <2>3, <2>4
  <2> QED BY <2>5 DEF s
<1> DEFINE o == N * N * x + N * y + z
<1>4. o \in 0..(N * N * N - 1)
      BY <1>1, <1>3
<1> HIDE DEF o
<1>5. o % Width \in 0..(N * N * N - 1)
  <2> DEFINE c == N * N * N
  <2>1. c \in Int
        BY <1>1
  <2> HIDE DEF c
  <2>2. o \in 0..(c - 1)
        BY <1>4 DEF c
  <2>3. o % Width \in 0..(c - 1)
    <3>1. CASE o < Width
          BY <1>1, <2>1, <2>2, <3>1
    <3>2. CASE o >= Width
          BY <1>1, <2>1, <2>2, <3>2
    <3> QED BY <2>1, <2>2, <1>1, <3>1, <3>2
  <2> QED BY <2>3 DEF c
<1> QED BY <1>5 DEF Offset, Offsets, o, x, y, z

(* Digits of a number: a remainder and a multiple tell each other apart.   *)
LEMMA DigitsApart ==
  ASSUME NEW m \in Nat \ {0}, NEW a \in Nat, NEW b \in Nat, NEW r \in 0..(m - 1), NEW s \in 0..(m - 1),
         m * a + r = m * b + s
  PROVE  a = b /\ r = s
<1>1. ASSUME NEW c \in Nat, NEW d \in Nat, c < d PROVE m * c + m <= m * d
  <2>1. PICK k \in Nat : d = c + 1 + k
    <3>1. d - c - 1 \in Nat /\ d = c + 1 + (d - c - 1)
          BY <1>1
    <3> QED BY <3>1
  <2>2. m * (c + 1 + k) = m * c + m + m * k /\ m * k \in Nat
        BY <2>1
  <2>3. m * c \in Nat /\ m * d = m * c + m + m * k
        BY <2>1, <2>2
  <2> QED BY <2>2, <2>3
<1>2. m * a \in Nat /\ m * b \in Nat
      OBVIOUS
<1>3. ~(a < b)
  <2> SUFFICES ASSUME a < b PROVE FALSE
      OBVIOUS
  <2>1. m * a + m <= m * b
        BY <1>1
  <2> QED BY <1>2, <2>1
<1>4. ~(b < a)
  <2> SUFFICES ASSUME b < a PROVE FALSE
      OBVIOUS
  <2>1. m * b + m <= m * a
        BY <1>1
  <2> QED BY <1>2, <2>1
<1>5. a = b
      BY <1>3, <1>4
<1>6. m * a = m * b
      BY <1>5
<1> QED BY <1>2, <1>5, <1>6

(* In a cube whose offsets do not wrap, no two LEDs share a color          *)
(* (Cube3dComponent.cpp, getDataOffset): what PictureKept says of offsets  *)
(* it says of LEDs.                                                        *)
THEOREM OffsetsApart ==
  ASSUME N * N * N <= Width, NEW p \in Leds, NEW q \in Leds, Offset(p) = Offset(q)
  PROVE  p = q
<1> DEFINE Plain(l) == N * (N * l["x"] + l["y"]) + l["z"]
<1>1. N \in Nat \ {0} /\ Width \in Nat /\ Width > 0
      BY EdgeAssumption
<1>2. ASSUME NEW l \in Leds
      PROVE  /\ l["x"] \in 0..(N - 1) /\ l["y"] \in 0..(N - 1) /\ l["z"] \in 0..(N - 1)
             /\ Offset(l) = Plain(l) /\ N * l["x"] + l["y"] \in Nat
  <2>1. l["x"] \in 0..(N - 1) /\ l["y"] \in 0..(N - 1) /\ l["z"] \in 0..(N - 1)
        BY DEF Leds, Axes
  <2> DEFINE x == l["x"]
             y == l["y"]
             z == l["z"]
  <2>2. x \in 0..(N - 1) /\ y \in 0..(N - 1) /\ z \in 0..(N - 1)
        BY <2>1
  <2> HIDE DEF x, y, z
  <2>3. N * N * x + N * y + z = N * (N * x + y) + z
    <3>1. N * (N * x + y) = N * (N * x) + N * y
          BY <1>1, <2>2
    <3>2. N * (N * x) = N * N * x
          BY <1>1, <2>2
    <3> QED BY <3>1, <3>2
  <2>4. N * x + y \in Nat /\ N * (N * x + y) + z \in Nat
        BY <1>1, <2>2
  <2>5. N * x <= N * (N - 1) /\ N * (N - 1) = N * N - N
        BY <1>1, <2>2
  <2>6. N * x + y <= N * N - 1
        BY <1>1, <2>2, <2>5
  <2> DEFINE w == N * x + y
             s == N * N
  <2>7. w \in Nat /\ s \in Nat /\ w <= s - 1
        BY <1>1, <2>4, <2>6
  <2>8. N * N * N = N * s
        BY <1>1
  <2> HIDE DEF w, s
  <2>9. N * w <= N * (s - 1) /\ N * (s - 1) = N * s - N /\ N * w \in Nat
        BY <1>1, <2>7
  <2>10. N * s <= Width /\ N * s \in Nat
        BY <1>1, <2>7, <2>8
  <2>11. N * w + z < Width
        BY <1>1, <2>2, <2>9, <2>10
  <2>12. N * (N * x + y) + z < Width
        BY <2>11 DEF w
  <2> DEFINE o == N * (N * x + y) + z
  <2>13. o \in Nat /\ o < Width
        BY <2>4, <2>12
  <2> HIDE DEF o
  <2>14. o % Width = o
        BY <1>1, <2>13
  <2>15. Offset(l) = o % Width
        BY <2>3 DEF Offset, o, x, y, z
  <2> QED BY <2>1, <2>4, <2>14, <2>15 DEF o, x, y, z
<1> HIDE DEF Plain
<1>3. Plain(p) = Plain(q)
      BY <1>2
<1>4. N * p["x"] + p["y"] = N * q["x"] + q["y"] /\ p["z"] = q["z"]
  <2> DEFINE a == N * p["x"] + p["y"]
             b == N * q["x"] + q["y"]
             r == p["z"]
             s == q["z"]
  <2>1. /\ a \in Nat /\ b \in Nat /\ r \in 0..(N - 1) /\ s \in 0..(N - 1)
        /\ N * a + r = N * b + s
        BY <1>2, <1>3 DEF Plain
  <2> HIDE DEF a, b, r, s
  <2>2. a = b /\ r = s
        BY <1>1, <2>1, DigitsApart
  <2> QED BY <2>2 DEF a, b, r, s
<1>5. p["x"] = q["x"] /\ p["y"] = q["y"]
  <2> DEFINE a == p["x"]
             b == q["x"]
             r == p["y"]
             s == q["y"]
  <2>1. /\ a \in 0..(N - 1) /\ b \in 0..(N - 1) /\ r \in 0..(N - 1) /\ s \in 0..(N - 1)
        /\ N * a + r = N * b + s
        BY <1>2, <1>4
  <2> HIDE DEF a, b, r, s
  <2>2. a \in Nat /\ b \in Nat
        BY <1>1, <2>1
  <2>3. a = b /\ r = s
        BY <1>1, <2>1, <2>2, DigitsApart
  <2> QED BY <2>3 DEF a, b, r, s
<1>6. \A a \in Axes : p[a] = q[a]
      BY <1>4, <1>5 DEF Axes
<1> QED BY <1>6 DEF Leds

-------------------------------------------------------------------------------
Color == 0..255

(* The next color of the palette is a color.                               *)
LEMMA NextColorIsColor == ASSUME NEW color, NEW increase PROVE NextColor(color, increase) \in Color
<1> DEFINE next == {i \in 1..5 : \E k \in 1..5 :
                       Palette[k] = color /\ i = (IF increase THEN (IF k = 5 THEN 5 ELSE k + 1)
                                                              ELSE (IF k = 1 THEN 1 ELSE k - 1))}
<1>1. \A i \in 1..5 : Palette[i] \in Color
      BY DEF Palette, Color
<1>2. CASE next = {}
  <2>1. NextColor(color, increase) = 85
        BY <1>2 DEF NextColor
  <2> QED BY <2>1 DEF Color
<1>3. CASE next # {}
  <2>1. (CHOOSE i \in next : TRUE) \in 1..5
        BY <1>3
  <2> HIDE DEF next
  <2>2. Palette[CHOOSE i \in next : TRUE] \in Color
        BY <1>1, <2>1
  <2> QED BY <1>3, <2>2 DEF NextColor, next
<1> QED BY <1>2, <1>3

(* The parts of the type that have data in them, and the rest.             *)
DataOK  == m_cubeData \in [Offsets -> Color] /\ picture \in [Offsets -> Color] /\ selectedColor \in Color
PlaceOK == current \in [Axes -> 0..(Width - 1)] /\ previous \in [Axes -> 0..(Width - 1)]
FlagsOK == moveDirection \in BOOLEAN /\ raced \in BOOLEAN /\ caught \in BOOLEAN
CountOK == blinkCounter \in 0..(On + Off) /\ keys \in 0..MaxKeys /\ updates \in 0..MaxUpdates
Fates   == {"running", "no LED selected", "no LED named"}
WhereOK ==
    /\ tick \in {"idle", "take", "follow", "blink"} /\ ui \in Axes \cup {"idle"}
    /\ fate \in Fates

LEMMA TypeParts == TypeOK <=> DataOK /\ PlaceOK /\ FlagsOK /\ CountOK /\ WhereOK
BY DEF TypeOK, DataOK, PlaceOK, FlagsOK, CountOK, WhereOK, Fates, Color

(* What is unchanged keeps its type.                                       *)
LEMMA TypesKept ==
  ASSUME TypeOK,
         DataOK' \/ UNCHANGED <<m_cubeData, picture, selectedColor>>, PlaceOK' \/ UNCHANGED <<current, previous>>,
         FlagsOK' \/ UNCHANGED <<moveDirection, raced, caught>>, CountOK' \/ UNCHANGED <<blinkCounter, keys, updates>>,
         WhereOK' \/ UNCHANGED <<tick, ui, fate>>
  PROVE  TypeOK'
<1>1. DataOK /\ PlaceOK /\ FlagsOK /\ CountOK /\ WhereOK
      BY TypeParts
<1>2. DataOK'
      BY <1>1 DEF DataOK
<1>3. PlaceOK'
      BY <1>1 DEF PlaceOK
<1>4. FlagsOK'
      BY <1>1 DEF FlagsOK
<1>5. CountOK'
      BY <1>1 DEF CountOK
<1>6. WhereOK'
      BY <1>1 DEF WhereOK
<1> QED BY <1>2, <1>3, <1>4, <1>5, <1>6 DEF TypeOK, DataOK, PlaceOK, FlagsOK, CountOK, WhereOK, Fates, Color

(* Every LED is a place, and so is where the cursor is without a race.     *)
LEMMA LedsArePlaces ==
  /\ Leds \subseteq [Axes -> 0..(Width - 1)]
  /\ \A i \in 0..(N - 1) : Corner(i) \in Leds
BY EdgeAssumption DEF Leds, Corner

(* What Set does to the data, of any color.                                *)
LEMMA SetKeepsData ==
  ASSUME m_cubeData \in [Offsets -> Color], fate = "running", NEW p, NEW color \in Color, Set(p, color)
  PROVE  /\ m_cubeData' \in [Offsets -> Color] /\ fate' \in Fates
         /\ At(p) => m_cubeData' = [m_cubeData EXCEPT ![Offset(p)] = color] /\ fate' = fate
BY DEF Set, Fates

LEMMA Initially == Init => IInv
<1> SUFFICES ASSUME Init PROVE IInv
    OBVIOUS
<1>1. DataOK
      BY DEF Init, DataOK, Color
<1>2. Corner(0) \in Leds
      BY LedsArePlaces, EdgeAssumption
<1>3. PlaceOK
      BY <1>2, LedsArePlaces DEF Init, PlaceOK
<1>4. FlagsOK /\ CountOK /\ WhereOK
  <2>1. 0 \in 0..(On + Off) /\ 0 \in 0..MaxKeys /\ 0 \in 0..MaxUpdates
        BY BlinkAssumption, ColorAssumption
  <2> QED BY <2>1 DEF Init, FlagsOK, CountOK, WhereOK, Fates
<1>5. InCube
      BY <1>2 DEF Init, InCube, Leds
<1>6. ColorKept
  <2>1. m_cubeData = picture /\ selectedColor = 0 /\ tick = "idle" /\ m_cubeData = [o \in Offsets |-> 0]
        BY DEF Init
  <2>2. [m_cubeData EXCEPT ![Offset(current)] = selectedColor] = m_cubeData
        BY <2>1
  <2> QED BY <2>1, <2>2 DEF ColorKept
<1>7. TypeOK
      BY <1>1, <1>3, <1>4, TypeParts
<1> QED BY <1>5, <1>6, <1>7 DEF Init, IInv, Alone

-------------------------------------------------------------------------------
(* The selection is in the cube once the key is done.                      *)
LEMMA SelectionInCube == IInv /\ ~caught /\ ui = "idle" => previous \in Leds /\ current \in Leds
<1> SUFFICES ASSUME IInv, ~caught, ui = "idle" PROVE previous \in Leds /\ current \in Leds
    OBVIOUS
<1>1. "idle" \notin Axes
      BY DEF Axes
<1>2. \A a \in Axes : previous[a] \in 0..(N - 1)
      BY <1>1 DEF IInv, InCube
<1>3. previous \in [Axes -> 0..(Width - 1)]
      BY DEF IInv, TypeOK
<1> QED BY <1>2, <1>3 DEF IInv, InCube, Leds

(* A tick takes the LED's color back to it when the cursor leaves (86-95). *)
LEMMA TickKeeps == IInv /\ fate = "running" /\ Tick => IInv'
<1> SUFFICES ASSUME IInv, fate = "running", Tick PROVE IInv'
    OBVIOUS
<1>1. TypeOK /\ DataOK /\ PlaceOK /\ FlagsOK /\ CountOK /\ WhereOK
      BY TypeParts DEF IInv
<1>2. /\ tick = "idle" /\ UNCHANGED <<picture, state, ui, keys, updates, caught>> /\ raced' = (raced \/ ui # "idle")
      BY DEF Tick, Races
<1>3. raced' \in BOOLEAN /\ (~raced' => ~raced /\ ui = "idle") /\ FlagsOK'
      BY <1>1, <1>2 DEF FlagsOK, state
<1>4. CASE current = previous
  <2>1. tick' = "blink" /\ m_cubeData' = m_cubeData /\ fate' = fate
        BY <1>4 DEF Tick
  <2>2. TypeOK'
    <3>1. WhereOK'
          BY <1>1, <1>2, <2>1 DEF WhereOK
    <3> QED BY <1>1, <1>2, <1>3, <2>1, <3>1, TypesKept DEF state
  <2>3. ASSUME ~caught' PROVE InCube' /\ fate' # "no LED selected"
        BY <1>2, <2>1, <2>3 DEF IInv, InCube, state
  <2>4. ASSUME ~raced' PROVE Alone' /\ ColorKept'
        BY <1>2, <1>3, <1>4, <2>1, <2>4 DEF IInv, Alone, ColorKept, state
  <2> QED BY <2>2, <2>3, <2>4 DEF IInv
<1>5. CASE current # previous
  <2>1. tick' = "take" /\ Set(current, selectedColor)
        BY <1>5 DEF Tick
  <2>2. /\ m_cubeData' \in [Offsets -> Color] /\ fate' \in Fates
        /\ At(current) => m_cubeData' = [m_cubeData EXCEPT ![Offset(current)] = selectedColor] /\ fate' = fate
        BY <1>1, <2>1, SetKeepsData DEF DataOK
  <2>3. TypeOK'
    <3>1. WhereOK' /\ DataOK'
          BY <1>1, <1>2, <2>1, <2>2 DEF WhereOK, DataOK, state
    <3> QED BY <1>1, <1>2, <1>3, <3>1, TypesKept DEF state
  <2>4. ~caught => InCube /\ At(current)
        BY OffsetInCube DEF IInv, InCube, At
  <2>5. ASSUME ~caught' PROVE InCube' /\ fate' # "no LED selected"
    <3>1. InCube /\ fate' = "running"
          BY <1>2, <2>2, <2>4, <2>5
    <3> QED BY <1>2, <3>1 DEF InCube, state
  <2>6. ASSUME ~raced' PROVE Alone' /\ ColorKept'
    <3>1. ~raced /\ ui = "idle" /\ ~caught /\ ColorKept
          BY <1>3, <2>6 DEF IInv, Alone
    <3>2. m_cubeData' = picture
          BY <1>2, <2>2, <2>4, <3>1 DEF ColorKept
    <3> QED BY <1>2, <2>1, <3>1, <3>2 DEF Alone, ColorKept, state
  <2> QED BY <2>3, <2>5, <2>6 DEF IInv
<1> QED BY <1>4, <1>5

(* What the timer does to the history when it uses the selection.          *)
LEMMA UsesKeeps ==
  ASSUME IInv, NEW selection \in BOOLEAN, Uses(selection), tick # "idle"
  PROVE  /\ caught' \in BOOLEAN
         /\ ~caught' => ~caught /\ InCube /\ fate # "no LED selected"
         /\ ~caught' /\ selection => ui = "idle"
         /\ ~raced => ~caught' /\ ~caught /\ ui = "idle" /\ ColorKept
<1>1. caught \in BOOLEAN
      BY DEF IInv, TypeOK
<1>2. caught' = (caught \/ (selection /\ ui # "idle"))
      BY DEF Uses
<1>3. ~raced => ~caught /\ ui = "idle" /\ ColorKept
      BY DEF IInv, Alone
<1> QED BY <1>1, <1>2, <1>3 DEF IInv

(* It takes the color of the next one (96-99).                             *)
LEMMA TakeKeeps == IInv /\ fate = "running" /\ Take => IInv'
<1> SUFFICES ASSUME IInv, fate = "running", Take PROVE IInv'
    OBVIOUS
<1>1. TypeOK /\ DataOK /\ PlaceOK /\ FlagsOK /\ CountOK /\ WhereOK
      BY TypeParts DEF IInv
<1>2. /\ tick = "take" /\ tick' = "follow" /\ Uses(TRUE)
      /\ UNCHANGED <<shown, current, previous, blinkCounter, moveDirection, ui, keys, updates, raced>>
      BY DEF Take
<1>3. /\ caught' \in BOOLEAN
      /\ ~caught' => ~caught /\ InCube /\ ui = "idle"
      /\ ~raced => ~caught' /\ ~caught /\ ui = "idle" /\ ColorKept
      BY <1>2, UsesKeeps
<1>4. FlagsOK'
      BY <1>1, <1>2, <1>3 DEF FlagsOK
<1>5. ~caught' => At(previous)
      BY <1>3, SelectionInCube, OffsetInCube DEF At
<1>6. ~caught' => InCube'
      BY <1>2, <1>3 DEF InCube
<1>7. ~raced' => Alone'
      BY <1>2, <1>3 DEF Alone
<1>8. CASE At(previous)
  <2>1. selectedColor' = m_cubeData[Offset(previous)] /\ fate' = fate
        BY <1>8 DEF Take
  <2>2. selectedColor' \in Color
        BY <1>1, <1>8, <2>1 DEF At, DataOK
  <2>3. TypeOK'
    <3>1. WhereOK' /\ DataOK'
          BY <1>1, <1>2, <2>1, <2>2 DEF WhereOK, DataOK, shown
    <3> QED BY <1>1, <1>2, <1>4, <3>1, TypesKept
  <2>4. ~raced' => ColorKept'
        BY <1>2, <1>3, <2>1 DEF ColorKept, shown
  <2> QED BY <1>6, <1>7, <2>1, <2>3, <2>4 DEF IInv
<1>9. CASE ~At(previous)
  <2>1. fate' = "no LED selected" /\ selectedColor' = selectedColor
        BY <1>9 DEF Take
  <2>2. TypeOK'
    <3>1. WhereOK'
          BY <1>1, <1>2, <2>1 DEF WhereOK, Fates
    <3> QED BY <1>1, <1>2, <1>4, <2>1, <3>1, TypesKept DEF shown
  <2>3. caught' /\ raced'
        BY <1>2, <1>3, <1>5, <1>9
  <2> QED BY <2>2, <2>3 DEF IInv
<1> QED BY <1>8, <1>9

(* And the cursor is there (100-102).                                      *)
LEMMA FollowKeeps == IInv /\ fate = "running" /\ Follow => IInv'
<1> SUFFICES ASSUME IInv, fate = "running", Follow PROVE IInv'
    OBVIOUS
<1>1. TypeOK /\ DataOK /\ PlaceOK /\ FlagsOK /\ CountOK /\ WhereOK
      BY TypeParts DEF IInv
<1>2. /\ tick = "follow" /\ tick' = "blink" /\ current' = previous /\ Uses(TRUE)
      /\ UNCHANGED <<shown, previous, selectedColor, blinkCounter, moveDirection, ui, keys, updates, raced, fate>>
      BY DEF Follow
<1>3. /\ caught' \in BOOLEAN
      /\ ~caught' => ~caught /\ InCube /\ ui = "idle"
      /\ ~raced => ~caught' /\ ~caught /\ ui = "idle" /\ ColorKept
      BY <1>2, UsesKeeps
<1>4. TypeOK'
  <2>1. WhereOK' /\ PlaceOK' /\ FlagsOK'
        BY <1>1, <1>2, <1>3 DEF WhereOK, PlaceOK, FlagsOK
  <2> QED BY <1>1, <1>2, <2>1, TypesKept DEF shown
<1>5. ASSUME ~caught' PROVE InCube'
  <2>1. previous \in Leds /\ InCube
        BY <1>3, <1>5, SelectionInCube
  <2> QED BY <1>2, <2>1 DEF InCube
<1>6. ASSUME ~raced' PROVE Alone' /\ ColorKept'
  <2>1. ~caught' /\ ui = "idle" /\ m_cubeData = picture /\ selectedColor = m_cubeData[Offset(previous)]
        BY <1>2, <1>3, <1>6 DEF ColorKept
  <2>2. [m_cubeData EXCEPT ![Offset(previous)] = selectedColor] = picture
        BY <1>1, <2>1 DEF DataOK
  <2> QED BY <1>2, <2>1, <2>2 DEF Alone, ColorKept, shown
<1> QED BY <1>2, <1>4, <1>5, <1>6 DEF IInv

(* It shows the LED's color, the inverse, or nothing new (105-122).        *)
LEMMA BlinkKeeps == IInv /\ fate = "running" /\ Blink => IInv'
<1> SUFFICES ASSUME IInv, fate = "running", Blink PROVE IInv'
    OBVIOUS
<1> DEFINE due == blinkCounter = On \/ blinkCounter >= On + Off
<1>1. TypeOK /\ DataOK /\ PlaceOK /\ FlagsOK /\ CountOK /\ WhereOK
      BY TypeParts DEF IInv
<1>2. /\ tick = "blink" /\ tick' = "idle" /\ Uses(due)
      /\ UNCHANGED <<picture, current, previous, selectedColor, moveDirection, ui, keys, updates, raced>>
      BY DEF Blink
<1>3. blinkCounter' \in 0..(On + Off)
  <2>1. blinkCounter \in 0..(On + Off) /\ On \in Nat \ {0} /\ Off \in Nat \ {0}
        BY <1>1, BlinkAssumption DEF CountOK
  <2>2. blinkCounter' = (IF blinkCounter >= On + Off THEN 0 ELSE blinkCounter) + 1
        BY DEF Blink
  <2> QED BY <2>1, <2>2
<1>4. \/ UNCHANGED <<m_cubeData, fate>>
      \/ due /\ \E color \in Color : Set(previous, color)
  <2>1. selectedColor \in Color /\ 255 - selectedColor \in Color
        BY <1>1 DEF DataOK, Color
  <2> QED BY <2>1 DEF Blink
<1> HIDE DEF due
<1>5. /\ m_cubeData' \in [Offsets -> Color] /\ fate' \in Fates
      /\ ~due => fate' = fate /\ m_cubeData' = m_cubeData
      /\ At(previous) => fate' = fate /\ \/ m_cubeData' = m_cubeData
                                         \/ \E color \in Color : m_cubeData' = [m_cubeData EXCEPT ![Offset(previous)] = color]
  <2>1. CASE UNCHANGED <<m_cubeData, fate>>
        BY <1>1, <2>1 DEF DataOK, WhereOK
  <2>2. ASSUME NEW color \in Color, Set(previous, color)
        PROVE  /\ m_cubeData' \in [Offsets -> Color] /\ fate' \in Fates
               /\ At(previous) => fate' = fate /\ m_cubeData' = [m_cubeData EXCEPT ![Offset(previous)] = color]
        BY <1>1, <2>2, SetKeepsData DEF DataOK
  <2> QED BY <1>4, <2>1, <2>2
<1>6. /\ caught' \in BOOLEAN
      /\ ~caught' => ~caught /\ InCube /\ (due => ui = "idle")
      /\ ~raced => ~caught' /\ ~caught /\ ui = "idle" /\ ColorKept
  <2>1. due \in BOOLEAN
        BY DEF due
  <2> QED BY <1>2, <2>1, UsesKeeps
<1>7. TypeOK'
  <2>1. DataOK' /\ CountOK' /\ WhereOK' /\ FlagsOK'
        BY <1>1, <1>2, <1>3, <1>5, <1>6 DEF DataOK, CountOK, WhereOK, FlagsOK
  <2> QED BY <1>1, <1>2, <2>1, TypesKept
<1>8. ASSUME ~caught' PROVE InCube' /\ fate' = "running"
  <2>1. due => At(previous)
        BY <1>6, <1>8, SelectionInCube, OffsetInCube DEF At
  <2> QED BY <1>2, <1>5, <1>6, <1>8, <2>1 DEF InCube
<1>9. ASSUME ~raced' PROVE Alone' /\ ColorKept'
  <2>1. ~caught' /\ ~caught /\ ui = "idle" /\ ColorKept
        BY <1>2, <1>6, <1>9
  <2>2. current = previous /\ [m_cubeData EXCEPT ![Offset(current)] = selectedColor] = picture
        BY <1>2, <2>1 DEF ColorKept
  <2>3. At(previous)
        BY <2>1, SelectionInCube, OffsetInCube DEF At
  <2>4. [m_cubeData' EXCEPT ![Offset(current)] = selectedColor] = picture
        BY <1>1, <1>5, <2>2, <2>3 DEF DataOK
  <2> QED BY <1>2, <2>1, <2>4 DEF Alone, ColorKept
<1> QED BY <1>7, <1>8, <1>9 DEF IInv

-------------------------------------------------------------------------------
(* What a key does first, whichever it is: it comes between the steps of a *)
(* tick, or not.                                                           *)
LEMMA PressedKeeps ==
  ASSUME IInv, KeyPressed
  PROVE  /\ TypeOK /\ DataOK /\ PlaceOK /\ FlagsOK /\ CountOK /\ WhereOK
         /\ raced' \in BOOLEAN /\ keys' \in 0..MaxKeys /\ UNCHANGED <<tick, updates, caught>> /\ ui = "idle"
         /\ ~caught => InCube /\ previous \in Leds /\ current \in Leds
         /\ ~raced' => ~raced /\ ~caught /\ tick = "idle" /\ ColorKept
<1>1. TypeOK /\ DataOK /\ PlaceOK /\ FlagsOK /\ CountOK /\ WhereOK
      BY TypeParts DEF IInv
<1>2. ui = "idle" /\ UNCHANGED <<tick, updates, caught>> /\ raced' = (raced \/ tick # "idle")
      BY DEF KeyPressed, Races
<1>3. raced' \in BOOLEAN /\ (~raced' => ~raced /\ tick = "idle")
      BY <1>1, <1>2 DEF FlagsOK
<1>4. keys' \in 0..MaxKeys
      BY <1>1, ColorAssumption DEF KeyPressed, CountOK
<1>5. ~caught => InCube
      BY DEF IInv
<1>6. ~raced => ~caught /\ ColorKept
      BY DEF IInv, Alone
<1> QED BY <1>1, <1>2, <1>3, <1>4, <1>5, <1>6, SelectionInCube

(* X, Y and Z (126-137).                                                   *)
LEMMA KeyMoveKeeps == ASSUME IInv, fate = "running", NEW axis \in Axes, KeyMove(axis) PROVE IInv'
<1>1. /\ TypeOK /\ DataOK /\ PlaceOK /\ FlagsOK /\ CountOK /\ WhereOK
      /\ raced' \in BOOLEAN /\ keys' \in 0..MaxKeys /\ UNCHANGED <<tick, updates, caught>> /\ ui = "idle"
      /\ ~caught => InCube /\ previous \in Leds /\ current \in Leds
      /\ ~raced' => ~raced /\ ~caught /\ tick = "idle" /\ ColorKept
      BY PressedKeeps DEF KeyMove
<1> DEFINE step == IF moveDirection THEN Width - 1 ELSE 1
<1>2. /\ ui' = axis /\ previous' = [previous EXCEPT ![axis] = (@ + step) % Width]
      /\ UNCHANGED <<shown, current, selectedColor, blinkCounter, moveDirection, fate>>
      BY DEF KeyMove
<1>3. step \in Int
      BY EdgeAssumption
<1> HIDE DEF step
<1>4. \A i \in 0..(Width - 1) : (i + step) % Width \in 0..(Width - 1)
      BY <1>3, EdgeAssumption
<1>5. previous' \in [Axes -> 0..(Width - 1)]
      BY <1>1, <1>2, <1>4 DEF PlaceOK
<1>6. TypeOK'
  <2>1. PlaceOK' /\ FlagsOK' /\ CountOK' /\ WhereOK'
        BY <1>1, <1>2, <1>5 DEF PlaceOK, FlagsOK, CountOK, WhereOK
  <2> QED BY <1>1, <1>2, <2>1, TypesKept DEF shown
<1>7. ASSUME ~caught' PROVE InCube'
  <2>1. previous \in Leds /\ current \in Leds
        BY <1>1, <1>7
  <2>2. \A a \in Axes : a # axis => (previous')[a] \in 0..(N - 1)
        BY <1>1, <1>2, <2>1 DEF Leds, PlaceOK
  <2> QED BY <1>2, <2>1, <2>2 DEF InCube
<1>8. ASSUME ~raced' PROVE Alone' /\ ColorKept'
  <2>1. ~caught /\ tick = "idle" /\ ColorKept
        BY <1>1, <1>8
  <2> QED BY <1>1, <1>2, <2>1 DEF Alone, ColorKept, shown
<1> QED BY <1>2, <1>6, <1>7, <1>8 DEF IInv

LEMMA KeyMovedKeeps == IInv /\ fate = "running" /\ KeyMoved => IInv'
<1> SUFFICES ASSUME IInv, fate = "running", KeyMoved PROVE IInv'
    OBVIOUS
<1>1. TypeOK /\ DataOK /\ PlaceOK /\ FlagsOK /\ CountOK /\ WhereOK
      BY TypeParts DEF IInv
<1>2. /\ ui # "idle" /\ ui' = "idle" /\ previous' = [previous EXCEPT ![ui] = @ % N]
      /\ UNCHANGED <<shown, current, selectedColor, blinkCounter, moveDirection, tick, keys, updates, raced, caught, fate>>
      BY DEF KeyMoved
<1>3. ui \in Axes
      BY <1>1, <1>2 DEF WhereOK
<1>4. \A i \in 0..(Width - 1) : i % N \in 0..(N - 1) /\ i % N \in 0..(Width - 1)
      BY EdgeAssumption
<1>5. previous' \in [Axes -> 0..(Width - 1)] /\ (previous')[ui] \in 0..(N - 1)
      BY <1>1, <1>2, <1>3, <1>4 DEF PlaceOK
<1>6. TypeOK'
  <2>1. PlaceOK' /\ WhereOK'
        BY <1>1, <1>2, <1>5 DEF PlaceOK, WhereOK
  <2> QED BY <1>1, <1>2, <2>1, TypesKept DEF shown
<1>7. ASSUME ~caught' PROVE InCube'
  <2>1. InCube
        BY <1>2, <1>7 DEF IInv
  <2>2. \A a \in Axes : (previous')[a] \in 0..(N - 1)
        BY <1>1, <1>2, <1>5, <2>1 DEF InCube, PlaceOK
  <2> QED BY <1>2, <2>1, <2>2 DEF InCube
<1>8. ASSUME ~raced' PROVE Alone' /\ ColorKept'
  <2>1. ~caught /\ ColorKept /\ tick = "idle"
        BY <1>2, <1>8 DEF IInv, Alone
  <2> QED BY <1>2, <2>1 DEF Alone, ColorKept, shown
<1> QED BY <1>2, <1>6, <1>7, <1>8 DEF IInv

(* R, G and B (32-42, 143-166).                                            *)
LEMMA KeyColorKeeps == IInv /\ fate = "running" /\ KeyColor => IInv'
<1> SUFFICES ASSUME IInv, fate = "running", KeyColor PROVE IInv'
    OBVIOUS
<1> DEFINE color == NextColor(selectedColor, moveDirection)
           led   == Corner(current["x"] % 256)
<1>1. /\ TypeOK /\ DataOK /\ PlaceOK /\ FlagsOK /\ CountOK /\ WhereOK
      /\ raced' \in BOOLEAN /\ keys' \in 0..MaxKeys /\ UNCHANGED <<tick, updates, caught>> /\ ui = "idle"
      /\ ~caught => InCube /\ previous \in Leds /\ current \in Leds
      /\ ~raced' => ~raced /\ ~caught /\ tick = "idle" /\ ColorKept
      BY PressedKeeps DEF KeyColor
<1>2. color \in Color
      BY NextColorIsColor
<1>3. /\ selectedColor' = color /\ Set(led, color)
      /\ picture' = [picture EXCEPT ![Offset(led)] = color, ![Offset(current)] = color]
      /\ UNCHANGED <<current, previous, blinkCounter, moveDirection, ui>>
      BY DEF KeyColor
<1>4. current \in Leds => led \in Leds
  <2> SUFFICES ASSUME current \in Leds PROVE led \in Leds
      OBVIOUS
  <2>1. current["x"] \in 0..(N - 1)
        BY DEF Leds, Axes
  <2>2. current["x"] % 256 \in 0..(N - 1)
        BY <2>1, EdgeAssumption
  <2> QED BY <2>2, LedsArePlaces
<1> HIDE DEF color, led
<1>5. /\ m_cubeData' \in [Offsets -> Color] /\ fate' \in Fates
      /\ At(led) => m_cubeData' = [m_cubeData EXCEPT ![Offset(led)] = color] /\ fate' = fate
      BY <1>1, <1>2, <1>3, SetKeepsData DEF DataOK
<1>6. TypeOK'
  <2>1. picture' \in [Offsets -> Color]
        BY <1>1, <1>2, <1>3 DEF DataOK
  <2>2. DataOK' /\ FlagsOK' /\ CountOK' /\ WhereOK'
        BY <1>1, <1>2, <1>3, <1>5, <2>1 DEF DataOK, FlagsOK, CountOK, WhereOK
  <2> QED BY <1>1, <1>3, <2>2, TypesKept
<1>7. ~caught => current \in Leds /\ At(led) /\ Offset(led) \in Offsets /\ Offset(current) \in Offsets
      BY <1>1, <1>4, OffsetInCube DEF At
<1>8. ASSUME ~caught' PROVE InCube' /\ fate' = "running"
  <2>1. ~caught /\ InCube
        BY <1>1, <1>8
  <2> QED BY <1>3, <1>5, <1>7, <2>1 DEF InCube
<1>9. ASSUME ~raced' PROVE Alone' /\ ColorKept'
  <2>1. ~caught /\ tick = "idle" /\ ColorKept
        BY <1>1, <1>9
  <2>2. m_cubeData' = [m_cubeData EXCEPT ![Offset(led)] = color]
        BY <1>5, <1>7, <2>1
  <2>3. [m_cubeData EXCEPT ![Offset(current)] = selectedColor] = picture
        BY <2>1 DEF ColorKept
  <2>4. [m_cubeData' EXCEPT ![Offset(current)] = color] = picture'
        BY <1>1, <1>3, <1>7, <2>1, <2>2, <2>3 DEF DataOK
  <2> QED BY <1>1, <1>3, <2>1, <2>4 DEF Alone, ColorKept
<1> QED BY <1>6, <1>8, <1>9 DEF IInv

(* T and 0 (139-141, 168-170).                                             *)
LEMMA OtherKeysKeep == IInv /\ fate = "running" /\ (KeyDirection \/ KeyReset) => IInv'
<1> SUFFICES ASSUME IInv, fate = "running", KeyDirection \/ KeyReset PROVE IInv'
    OBVIOUS
<1>1. /\ TypeOK /\ DataOK /\ PlaceOK /\ FlagsOK /\ CountOK /\ WhereOK
      /\ raced' \in BOOLEAN /\ keys' \in 0..MaxKeys /\ UNCHANGED <<tick, updates, caught>> /\ ui = "idle"
      /\ ~caught => InCube /\ previous \in Leds /\ current \in Leds
      /\ ~raced' => ~raced /\ ~caught /\ tick = "idle" /\ ColorKept
      BY PressedKeeps DEF KeyDirection, KeyReset
<1>2. /\ UNCHANGED <<m_cubeData, current, previous, blinkCounter, ui, fate>>
      /\ moveDirection' \in BOOLEAN
      BY <1>1 DEF KeyDirection, KeyReset, shown, FlagsOK
<1>3. \/ UNCHANGED <<picture, selectedColor>>
      \/ selectedColor' = 0 /\ picture' = [picture EXCEPT ![Offset(current)] = 0]
      BY DEF KeyDirection, KeyReset, shown
<1>4. DataOK'
      BY <1>1, <1>2, <1>3 DEF DataOK, Color
<1>5. TypeOK'
  <2>1. FlagsOK' /\ CountOK'
        BY <1>1, <1>2 DEF FlagsOK, CountOK
  <2> QED BY <1>1, <1>2, <1>4, <2>1, TypesKept
<1>6. ASSUME ~caught' PROVE InCube'
  <2>1. InCube
        BY <1>1, <1>6
  <2> QED BY <1>2, <2>1 DEF InCube
<1>7. ASSUME ~raced' PROVE Alone' /\ ColorKept'
  <2>1. ~caught /\ tick = "idle" /\ ColorKept /\ current \in Leds
        BY <1>1, <1>7
  <2>2. [m_cubeData EXCEPT ![Offset(current)] = selectedColor] = picture
        BY <2>1 DEF ColorKept
  <2>3. [m_cubeData EXCEPT ![Offset(current)] = selectedColor'] = picture'
        BY <1>1, <1>3, <2>2 DEF DataOK
  <2> QED BY <1>1, <1>2, <2>1, <2>3 DEF Alone, ColorKept
<1> QED BY <1>2, <1>5, <1>6, <1>7 DEF IInv

(* What others send (62-80).                                               *)
LEMMA UpdateKeeps ==
  ASSUME IInv, fate = "running", NEW leds, NEW color \in Colors, Update(leds, color) PROVE IInv'
<1>1. TypeOK /\ DataOK /\ PlaceOK /\ FlagsOK /\ CountOK /\ WhereOK
      BY TypeParts DEF IInv
<1>2. /\ raced' = (raced \/ tick # "idle") /\ UNCHANGED <<state, tick, ui, keys, caught>>
      /\ m_cubeData' = [o \in Offsets |-> IF o \in leds THEN color ELSE m_cubeData[o]]
      /\ picture' = [o \in Offsets |-> IF o \in leds \ {Offset(current)} THEN color ELSE picture[o]]
      /\ fate' \in {"running", "no LED named"}
      BY DEF Update, Races
<1>3. raced' \in BOOLEAN /\ (~raced' => ~raced /\ tick = "idle")
      BY <1>1, <1>2 DEF FlagsOK
<1>4. color \in Color
      BY ColorAssumption DEF Color
<1>5. updates' \in 0..MaxUpdates
  <2>1. updates < MaxUpdates /\ updates' = updates + 1
        BY DEF Update
  <2>2. updates \in 0..MaxUpdates /\ MaxUpdates \in Nat
        BY <1>1, ColorAssumption DEF CountOK
  <2> QED BY <2>1, <2>2
<1>6. TypeOK'
  <2>1. m_cubeData' \in [Offsets -> Color] /\ picture' \in [Offsets -> Color]
        BY <1>1, <1>2, <1>4 DEF DataOK
  <2>2. DataOK' /\ FlagsOK' /\ CountOK' /\ WhereOK'
        BY <1>1, <1>2, <1>3, <1>5, <2>1 DEF DataOK, FlagsOK, CountOK, WhereOK, Fates, state
  <2> QED BY <1>1, <1>2, <2>2, TypesKept DEF state
<1>7. ~caught' => InCube'
      BY <1>2 DEF IInv, InCube, state
<1>8. ASSUME ~raced' PROVE Alone' /\ ColorKept'
  <2>1. Alone /\ ColorKept /\ tick = "idle"
        BY <1>3, <1>8 DEF IInv
  <2>2. [m_cubeData EXCEPT ![Offset(current)] = selectedColor] = picture
        BY <2>1 DEF ColorKept
  <2>3. [m_cubeData' EXCEPT ![Offset(current)] = selectedColor] = picture'
        BY <1>1, <1>2, <2>2 DEF DataOK
  <2> QED BY <1>2, <2>1, <2>3 DEF Alone, ColorKept, state
<1> QED BY <1>2, <1>6, <1>7, <1>8 DEF IInv

-------------------------------------------------------------------------------
LEMMA NextKeeps == IInv /\ [Next]_vars => IInv'
<1> SUFFICES ASSUME IInv, [Next]_vars PROVE IInv'
    OBVIOUS
<1>1. CASE fate = "running" /\ Timer
      BY <1>1, TickKeeps, TakeKeeps, FollowKeeps, BlinkKeeps DEF Timer
<1>2. CASE fate = "running" /\ Ui
      BY <1>2, KeyMoveKeeps, KeyMovedKeeps, KeyColorKeeps, OtherKeysKeep DEF Ui
<1>3. CASE fate = "running" /\ (UpdateLed \/ UpdateCube)
      BY <1>3, UpdateKeeps DEF UpdateLed, UpdateCube
<1>4. CASE UNCHANGED vars
  <2>1. TypeOK /\ TypeOK'
    <3>1. TypeOK
          BY DEF IInv
    <3> QED BY <1>4, <3>1, TypesKept DEF vars, shown, state
  <2> QED BY <1>4, <2>1 DEF IInv, InCube, Alone, ColorKept, vars, shown, state
<1> QED BY <1>1, <1>2, <1>3, <1>4 DEF Next

LEMMA AlwaysIInv == Spec => []IInv
BY Initially, NextKeeps, PTL DEF Spec

(* Every variable has its type.                                            *)
THEOREM TypeCorrect == Spec => []TypeOK
<1>1. IInv => TypeOK
      BY DEF IInv
<1> QED BY <1>1, AlwaysIInv, PTL

(* Without a race the cursor leaves the picture as it was (82-123).        *)
THEOREM PictureCorrect == Spec => []PictureKept
<1>1. IInv => PictureKept
      BY DEF IInv, ColorKept, PictureKept
<1> QED BY <1>1, AlwaysIInv, PTL

(* While the timer does not use a selection that a key is still to mask,   *)
(* neither it nor a key looks up an LED that is not there, whatever threads*)
(* come into each other and whatever LEDs messages name (126-137).         *)
THEOREM CursorCorrect == Spec => []CursorStaysInCube
<1>1. IInv => CursorStaysInCube
      BY DEF IInv, CursorStaysInCube
<1> QED BY <1>1, AlwaysIInv, PTL
===============================================================================

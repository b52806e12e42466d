------------------------------- MODULE Patterns -------------------------------
(***************************************************************************)
(* The patterns that are shown on the LED cube (components/patterns/src).  *)
(* Each is a component with a cube of colors of its own (util/math/        *)
(* Cube.hpp) and one periodic timer whose handler changes the cube and     *)
(* posts it with "updateCube". One enabled pattern is modelled, any one of *)
(* the six; a cell of the cube is <<i, j, l>>, as m_cubeData(i, j, l).     *)
(*                                                                         *)
(* A color is one of its channels, a number. The font of Marques is the    *)
(* set of the pixels of each glyph. Where a pattern draws at random, any   *)
(* draw may come; Draws and Scenes bound what TLC tries.                   *)
(*                                                                         *)
(* The timer is that of Timers: a cancelled one may have expired before,   *)
(* and is then handled once more and armed though it is gone ("lost").     *)
(***************************************************************************)
EXTENDS Integers, Sequences

CONSTANTS N,        \* m_cubeData.size()
          White,    \* a channel of WHITE
          Colors,   \* the channels a color may have
          Text,     \* m_text of Marques: the glyphs of its characters, or Unknown
          Draws,    \* bound: the rows SnowFlake may draw
          Scenes    \* bound: the cubes Random may draw

Black  == 0
Side   == 0..(N - 1)
Plane  == Side \X Side
Cells  == Side \X Side \X Side
Dark   == [c \in Cells |-> Black]

(* The font (Marques.cpp 12-108): bit N - 1 - i of row N - 1 - j of a      *)
(* character is its pixel <<i, j>>, as update puts it on a layer (182-190).*)
Glyphs == SUBSET Plane

(* Not a glyph: a space, or a character that the font does not have.       *)
Unknown == {<<N, N>>}

(* More than the 8 rows a glyph has would be read past its end.            *)
ASSUME SizeAssumption   == N \in 1..8
ASSUME ColorAssumption  == Colors \subseteq Nat /\ {Black, White} \subseteq Colors /\ White # Black
ASSUME TextAssumption   == Text \in Seq(Glyphs \cup {Unknown})
ASSUME RandomAssumption == Draws \subseteq [Plane -> {Black, White}] /\ Scenes \subseteq [Cells -> Colors]

Kinds == {"ledTest", "marques", "waves", "snowFlake", "random", "boxIt"}

VARIABLES kind,       \* the pattern that is enabled
          cube,       \* m_cubeData
          beat,       \* its timer: "none", "set", "late", "ended", "lost"
          active,     \* LedTest: <<m_activeX, m_activeY, m_activeZ>>
          index,      \* Marques: m_currentIndex
          iteration,  \* Marques: m_currentIteration
          drawn       \* history: what Waves or SnowFlake drew, the newest first

marques     == <<index, iteration>>
patternVars == <<kind, cube, beat, active, marques, drawn>>

(* What is drawn stays in the cube for so many updates.                    *)
Ages == IF kind = "snowFlake" THEN 1..N ELSE 1..(2 * N - 1)

PatternInit ==
    /\ kind \in Kinds /\ cube = Dark /\ beat = "none"
    /\ active = <<0, 0, 0>> /\ index = 0 /\ iteration = 0
    /\ drawn = [a \in Ages |-> IF kind = "snowFlake" THEN [p \in Plane |-> Black] ELSE Black]

-------------------------------------------------------------------------------
(* The edges of the cube (BoxIt.cpp 62-78): two coordinates are at an end. *)
Box == [c \in Cells |-> IF \E a, b \in 1..3 : a # b /\ {c[a], c[b]} \subseteq {0, N - 1}
                        THEN White ELSE Black]

(* start: three of the patterns clear the cube, BoxIt draws its own.       *)
PatternStart ==
    /\ beat = "none" /\ beat' = "set"
    /\ cube' = CASE kind = "boxIt" -> Box
                 [] kind \in {"ledTest", "marques"} -> Dark
                 [] OTHER -> cube
    /\ UNCHANGED <<kind, active, marques, drawn>>

(* stop cancels the timer, which may have expired already.                 *)
PatternStop ==
    /\ beat = "set" /\ beat' \in {"ended", "late"}
    /\ UNCHANGED <<kind, cube, active, marques, drawn>>

(* The handler is called, and the timer is armed again.                    *)
Beats(k) ==
    /\ kind = k /\ beat \in {"set", "late"}
    /\ beat' = IF beat = "late" THEN "lost" ELSE "set"
    /\ UNCHANGED kind

-------------------------------------------------------------------------------
Wrap(v) == IF v = N THEN 0 ELSE v

(* Mutation: the last coordinate is not wrapped around but kept. *)
NextLedStuck(led) ==
    LET x == led[1] + 1
        y == IF x = N THEN led[2] + 1 ELSE led[2]
        z == IF y = N THEN led[3] + 1 ELSE led[3]
    IN  <<Wrap(x), Wrap(y), IF z = N THEN N - 1 ELSE z>>

(* The next LED, with its carries (LedTest.cpp 83-99).                     *)
NextLed(led) ==
    LET x == led[1] + 1
        y == IF x = N THEN led[2] + 1 ELSE led[2]
        z == IF y = N THEN led[3] + 1 ELSE led[3]
    IN  <<Wrap(x), Wrap(y), Wrap(z)>>

(* One LED after the other (LedTest.cpp 74-107).                           *)
LedTest ==
    /\ Beats("ledTest") /\ active' = NextLed(active)
    /\ cube' = [[cube EXCEPT ![active] = Black] EXCEPT ![active'] = White]
    /\ UNCHANGED <<marques, drawn>>

-------------------------------------------------------------------------------
(* Marques (Marques.cpp 165-242) brings a character in, layer by layer,    *)
(* and wipes it out in the same way. The iteration tells what is to do.    *)
HasGlyph == index < Len(Text) /\ Text[index + 1] # Unknown

(* A character that the font has is put on the front layer (176-195).      *)
Letter ==
    /\ Beats("marques") /\ iteration = 0 /\ HasGlyph
    /\ cube' = [c \in Cells |-> IF c[3] = 0 /\ <<c[1], c[2]>> \in Text[index + 1] THEN White ELSE cube[c]]
    /\ iteration' = 1
    /\ UNCHANGED <<active, index, drawn>>

(* Otherwise, and after the last one, the cube is cleared, and the wiping  *)
(* is nearly over (169-173, 199-200).                                      *)
Space ==
    /\ Beats("marques") /\ iteration = 0 /\ ~HasGlyph
    /\ cube' = Dark
    /\ iteration' = (N - 1) * 2 + 1
    /\ UNCHANGED <<active, index, drawn>>

(* Mutation: the layer that comes next is copied from the front. *)
PushLate ==
    /\ Beats("marques") /\ iteration \in 1..(N - 1)
    /\ cube' = [c \in Cells |-> IF c[3] = iteration - 1 THEN Black ELSE cube[c]]
    /\ iteration' = iteration + 1
    /\ UNCHANGED <<active, index, drawn>>

(* The next layer becomes what the one before it is (204-213).             *)
Push ==
    /\ Beats("marques") /\ iteration \in 1..(N - 1)
    /\ cube' = [c \in Cells |-> IF c[3] = iteration THEN cube[<<c[1], c[2], iteration - 1>>] ELSE cube[c]]
    /\ iteration' = iteration + 1
    /\ UNCHANGED <<active, index, drawn>>

(* The next layer is cleared (214-223).                                    *)
Wipe ==
    /\ Beats("marques") /\ iteration \in N..(2 * N - 1)
    /\ cube' = [c \in Cells |-> IF c[3] = iteration - N THEN Black ELSE cube[c]]
    /\ iteration' = iteration + 1
    /\ UNCHANGED <<active, index, drawn>>

(* On to the next character, or the first one (224-235).                   *)
NextLetter ==
    /\ Beats("marques") /\ iteration >= 2 * N
    /\ iteration' = 0
    /\ index' = IF index >= Len(Text) THEN 0 ELSE index + 1
    /\ UNCHANGED <<cube, active, drawn>>

Marques == Letter \/ Space \/ Push \/ Wipe \/ NextLetter

-------------------------------------------------------------------------------
(* Every row of SnowFlake and Waves becomes the one above it, the top row  *)
(* gets what is drawn: of SnowFlake all of it ...                          *)
Ageing(new) == drawn' = [a \in Ages |-> IF a = 1 THEN new ELSE drawn[a - 1]]

(* SnowFlake.cpp 67-99.                                                    *)
SnowFlake(row) ==
    /\ Beats("snowFlake") /\ Ageing(row)
    /\ cube' = [c \in Cells |-> IF c[2] < N - 1 THEN cube[<<c[1], c[2] + 1, c[3]>>] ELSE row[<<c[1], c[3]>>]]
    /\ UNCHANGED <<active, marques>>

(* Mutation: the top row moves on before the others have taken it over. *)
WavesTopFirst(color) ==
    LET top == [c \in Cells |-> IF c[2] < N - 1 THEN cube[c]
                                ELSE IF c[3] < N - 1 THEN cube[<<c[1], c[2], c[3] + 1>>] ELSE color]
    IN  /\ Beats("waves") /\ Ageing(color)
        /\ cube' = [c \in Cells |-> IF c[2] < N - 1 THEN top[<<c[1], c[2] + 1, c[3]>>] ELSE top[c]]
        /\ UNCHANGED <<active, marques>>

(* ... of Waves one color, at the end of the top row, which moves on       *)
(* (Waves.cpp 66-102). The index of a color may be one past the table      *)
(* (line 10): then any byte is read.                                       *)
Waves(color) ==
    /\ Beats("waves") /\ Ageing(color)
    /\ cube' = [c \in Cells |-> IF c[2] < N - 1 THEN cube[<<c[1], c[2] + 1, c[3]>>]
                                ELSE IF c[3] < N - 1 THEN cube[<<c[1], c[2], c[3] + 1>>] ELSE color]
    /\ UNCHANGED <<active, marques>>

(* Random.cpp 66-87: its table has an entry for each index.                *)
Random(scene) ==
    /\ Beats("random") /\ cube' = scene
    /\ UNCHANGED <<active, marques, drawn>>

(* BoxIt only posts (BoxIt.cpp 94-99).                                     *)
BoxIt == Beats("boxIt") /\ UNCHANGED <<cube, active, marques, drawn>>

PatternTick ==
    \/ LedTest \/ Marques \/ BoxIt
    \/ \E row \in Draws : SnowFlake(row)
    \/ \E color \in Colors : Waves(color)
    \/ \E scene \in Scenes : Random(scene)

PatternNext == PatternStart \/ PatternStop \/ PatternTick

PatternSpec == PatternInit /\ [][PatternNext]_patternVars
-------------------------------------------------------------------------------
PatternTypeOK ==
    /\ kind \in Kinds /\ cube \in [Cells -> Colors]
    /\ beat \in {"none", "set", "late", "ended", "lost"}
    /\ active \in Cells /\ index \in 0..Len(Text) /\ iteration \in 0..(2 * N)

(* LedTest lights one LED at a time, white, whatever the carries of its    *)
(* three indexes: nothing is left behind (LedTest.cpp 80-102).             *)
OneLit ==
    kind = "ledTest" => \A c \in Cells : cube[c] # Black => c = active /\ cube[c] = White

(* The layers of the cube that show the character of Marques at a stage.   *)
Visible(n) == IF n <= N THEN 0..(n - 1) ELSE (n - N)..(N - 1)

(* A character moves through the cube as a whole: the layers that have it  *)
(* are next to each other and show exactly its pixels, the others are      *)
(* dark, and nothing is left for the character after it (165-242).         *)
GlyphMoves ==
    kind = "marques" =>
        \A c \in Cells : cube[c] = IF HasGlyph /\ c[3] \in Visible(iteration) /\ <<c[1], c[2]>> \in Text[index + 1]
                                    THEN White ELSE Black

(* The cube is its history: of SnowFlake a row is the one drawn as many    *)
(* updates ago as it has fallen, of Waves a color has gone to the end of   *)
(* the top row and down, one cell with each update (Waves.cpp 72-97).      *)
PictureAges ==
    /\ kind = "snowFlake" => \A c \in Cells : cube[c] = drawn[N - c[2]][<<c[1], c[3]>>]
    /\ kind = "waves" => \A c \in Cells : cube[c] = drawn[1 + (N - 1 - c[2]) + (N - 1 - c[3])]
===============================================================================

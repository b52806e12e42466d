----------------------------- MODULE CubeShowProofs ----------------------------
(***************************************************************************)
(* Proofs about what the cube shows. Patterns: what each pattern draws,    *)
(* for every size of the cube that the font allows, every text and all     *)
(* that is drawn at random; the invariants are inductive together with the *)
(* ranges of the variables. CubeManager: how often the driver lights a     *)
(* LED, for every number of layers and bits. CubeShow: both in one         *)
(* process. CubeData: where the bytes of the LEDs are.                     *)
(***************************************************************************)
EXTENDS CubeShow, CubeData, FiniteSetTheorems, TLAPS

(* The history of what was drawn has as many entries as the cube shows.    *)
DrawnOK ==
    /\ kind = "snowFlake" => drawn \in [1..N -> [Plane -> Colors]]
    /\ kind = "waves" => drawn \in [1..(2 * N - 1) -> Colors]

(* Marques starts with the first layer of a character.                     *)
Fresh == beat = "none" => iteration = 0

PatternInv == PatternTypeOK /\ DrawnOK /\ Fresh /\ OneLit /\ GlyphMoves /\ PictureAges

(* A cell is where its three coordinates say.                              *)
LEMMA CellParts ==
  ASSUME NEW c \in Cells
  PROVE  /\ c[1] \in Side /\ c[2] \in Side /\ c[3] \in Side
         /\ c = <<c[1], c[2], c[3]>> /\ <<c[1], c[2]>> \in Plane /\ <<c[1], c[3]>> \in Plane
BY DEF Cells, Plane

(* The position of LedTest stays in the cube.                              *)
LEMMA NextLedInCube ==
  ASSUME NEW led \in Cells PROVE NextLed(led) \in Cells
<1>1. led[1] \in Side /\ led[2] \in Side /\ led[3] \in Side
      BY CellParts
<1>2. /\ Wrap(led[1] + 1) \in Side
      /\ Wrap(IF led[1] + 1 = N THEN led[2] + 1 ELSE led[2]) \in Side
      /\ Wrap(IF (IF led[1] + 1 = N THEN led[2] + 1 ELSE led[2]) = N THEN led[3] + 1 ELSE led[3]) \in Side
      BY <1>1, SizeAssumption DEF Wrap, Side
<1> QED BY <1>2 DEF NextLed, Cells

(* No text has a character that is both a glyph and none.                  *)
LEMMA TextParts ==
  /\ Len(Text) \in Nat
  /\ \A n \in 1..Len(Text) : Text[n] # Unknown => Text[n] \in Glyphs
BY TextAssumption DEF Glyphs

(* The first state is a dark cube.                                         *)
LEMMA PatternInitially == PatternInit => PatternInv
<1> SUFFICES ASSUME PatternInit PROVE PatternInv
    OBVIOUS
<1> USE SizeAssumption
<1>1. cube = [c \in Cells |-> 0] /\ 0 \in Colors /\ kind \in Kinds /\ beat = "none"
      BY ColorAssumption DEF PatternInit, Dark, Black
<1>2. active \in Cells
      BY DEF PatternInit, Cells, Side
<1>3. PatternTypeOK
      BY <1>1, <1>2, TextParts DEF PatternInit, PatternTypeOK
<1>4. DrawnOK
      BY <1>1 DEF PatternInit, DrawnOK, Ages, Black
<1>8. Fresh
      BY DEF PatternInit, Fresh
<1>5. OneLit
      BY <1>1 DEF OneLit, Black
<1>6. GlyphMoves
      BY <1>1 DEF PatternInit, GlyphMoves, Visible, Black
<1>7. PictureAges
  <2>1. ASSUME kind = "snowFlake", NEW c \in Cells PROVE cube[c] = drawn[N - c[2]][<<c[1], c[3]>>]
    <3>1. c[2] \in Side /\ <<c[1], c[3]>> \in Plane
          BY CellParts
    <3>2. N - c[2] \in 1..N
          BY <3>1 DEF Side
    <3> QED BY <1>1, <2>1, <3>1, <3>2 DEF PatternInit, Ages, Black
  <2>2. ASSUME kind = "waves", NEW c \in Cells
        PROVE  cube[c] = drawn[1 + (N - 1 - c[2]) + (N - 1 - c[3])]
    <3>1. c[2] \in Side /\ c[3] \in Side
          BY CellParts
    <3>2. 1 + (N - 1 - c[2]) + (N - 1 - c[3]) \in 1..(2 * N - 1)
          BY <3>1 DEF Side
    <3> QED BY <1>1, <2>2, <3>2 DEF PatternInit, Ages, Black
  <2> QED BY <2>1, <2>2 DEF PictureAges
<1> QED BY <1>3, <1>4, <1>5, <1>6, <1>7, <1>8 DEF PatternInv

-------------------------------------------------------------------------------
(* start clears the cube of the patterns that count on it.                 *)
LEMMA StartKeeps == PatternInv /\ PatternStart => PatternInv'
<1> SUFFICES ASSUME PatternInv, PatternStart PROVE PatternInv'
    OBVIOUS
<1> USE ColorAssumption DEF Black
<1>1. /\ kind' = kind /\ active' = active /\ index' = index /\ iteration' = iteration
      /\ drawn' = drawn /\ beat = "none" /\ beat' = "set" /\ kind \in Kinds
      BY DEF PatternStart, marques, PatternInv, PatternTypeOK
<1>2. cube' \in [Cells -> Colors]
      BY DEF PatternStart, PatternInv, PatternTypeOK, Box, Dark
<1>3. PatternTypeOK'
      BY <1>1, <1>2 DEF PatternInv, PatternTypeOK
<1>4. DrawnOK'
      BY <1>1 DEF PatternInv, DrawnOK
<1>5. OneLit'
      BY <1>1 DEF PatternStart, OneLit, Dark
<1>6. GlyphMoves'
  <2>1. iteration' = 0
        BY <1>1 DEF PatternInv, Fresh
  <2>2. kind = "marques" => cube' = [c \in Cells |-> 0]
        BY DEF PatternStart, Dark
  <2>3. Visible(iteration)' = {}
        BY <2>1, SizeAssumption DEF Visible
  <2> QED BY <1>1, <2>2, <2>3 DEF GlyphMoves
<1>7. PictureAges'
  <2>1. kind \in {"snowFlake", "waves"} => cube' = cube
        BY DEF PatternStart
  <2> QED BY <1>1, <2>1 DEF PatternInv, PictureAges
<1>8. Fresh'
      BY <1>1 DEF Fresh
<1> QED BY <1>3, <1>4, <1>5, <1>6, <1>7, <1>8 DEF PatternInv

(* Nothing is drawn by stop, nor by BoxIt.                                 *)
LEMMA IdleKeeps ==
  ASSUME PatternInv, UNCHANGED <<kind, cube, active, marques, drawn>>,
         beat' \in {"set", "late", "ended", "lost"} \/ beat' = beat
  PROVE  PatternInv'
<1>1. /\ kind' = kind /\ cube' = cube /\ active' = active /\ index' = index
      /\ iteration' = iteration /\ drawn' = drawn
      BY DEF marques
<1>2. PatternTypeOK' /\ Fresh'
      BY <1>1 DEF PatternInv, PatternTypeOK, Fresh
<1>3. DrawnOK'
      BY <1>1 DEF PatternInv, DrawnOK
<1>4. OneLit'
      BY <1>1 DEF PatternInv, OneLit
<1>5. GlyphMoves'
      BY <1>1 DEF PatternInv, GlyphMoves, HasGlyph, Visible
<1>6. PictureAges'
      BY <1>1 DEF PatternInv, PictureAges
<1> QED BY <1>2, <1>3, <1>4, <1>5, <1>6 DEF PatternInv

-------------------------------------------------------------------------------
(* The LED before is cleared and the next one lit.                         *)
LEMMA LedTestKeepsInv == PatternInv /\ LedTest => PatternInv'
<1> SUFFICES ASSUME PatternInv, LedTest PROVE PatternInv'
    OBVIOUS
<1> USE ColorAssumption DEF Black
<1>1. /\ kind = "ledTest" /\ kind' = kind /\ index' = index /\ iteration' = iteration
      /\ beat' \in {"set", "lost"} /\ active' = NextLed(active)
      BY DEF LedTest, Beats, marques
<1>2. active \in Cells /\ active' \in Cells
      BY <1>1, NextLedInCube DEF PatternInv, PatternTypeOK
<1>3. /\ cube' \in [Cells -> Colors]
      /\ \A c \in Cells : cube'[c] = IF c = active' THEN White ELSE IF c = active THEN 0 ELSE cube[c]
      BY <1>2 DEF LedTest, PatternInv, PatternTypeOK
<1>4. PatternTypeOK' /\ Fresh'
      BY <1>1, <1>2, <1>3 DEF PatternInv, PatternTypeOK, Fresh
<1>5. OneLit'
      BY <1>1, <1>3 DEF PatternInv, OneLit
<1> QED BY <1>1, <1>4, <1>5 DEF PatternInv, DrawnOK, GlyphMoves, PictureAges

-------------------------------------------------------------------------------
(* What every step of Marques has to show, and what follows from it.       *)
LEMMA MarquesKeeps ==
  ASSUME PatternInv, Beats("marques"), UNCHANGED <<active, drawn>>,
         cube' \in [Cells -> Colors], index' \in 0..Len(Text), iteration' \in 0..(2 * N), GlyphMoves'
  PROVE  PatternInv'
<1>1. kind = "marques" /\ kind' = kind /\ beat' \in {"set", "lost"}
      BY DEF Beats
<1>2. PatternTypeOK' /\ Fresh'
      BY <1>1 DEF PatternInv, PatternTypeOK, Fresh
<1> QED BY <1>1, <1>2 DEF PatternInv, DrawnOK, OneLit, PictureAges

(* Before a character comes in the cube is dark; then its pixels are lit   *)
(* on the front layer.                                                     *)
LEMMA LetterKeeps == PatternInv /\ Letter => PatternInv'
<1> SUFFICES ASSUME PatternInv, Letter PROVE PatternInv'
    OBVIOUS
<1> USE ColorAssumption, SizeAssumption DEF Black
<1>1. /\ kind = "marques" /\ kind' = kind /\ iteration = 0 /\ iteration' = 1 /\ index' = index /\ HasGlyph
      /\ index \in 0..Len(Text) /\ cube \in [Cells -> Colors]
      BY DEF Letter, Beats, PatternInv, PatternTypeOK
<1>2. \A c \in Cells : cube[c] = 0
  <2>1. Visible(iteration) = {}
        BY <1>1 DEF Visible
  <2> QED BY <1>1, <2>1 DEF PatternInv, GlyphMoves
<1>3. /\ cube' \in [Cells -> Colors]
      /\ \A c \in Cells : cube'[c] = IF c[3] = 0 /\ <<c[1], c[2]>> \in Text[index + 1] THEN White ELSE 0
      BY <1>1, <1>2 DEF Letter
<1>4. Visible(iteration)' = {0} /\ HasGlyph'
      BY <1>1 DEF Visible, HasGlyph
<1>5. GlyphMoves'
      BY <1>1, <1>3, <1>4 DEF GlyphMoves
<1> QED BY <1>1, <1>3, <1>5, MarquesKeeps DEF Letter

(* A space is dark.                                                        *)
LEMMA SpaceKeeps == PatternInv /\ Space => PatternInv'
<1> SUFFICES ASSUME PatternInv, Space PROVE PatternInv'
    OBVIOUS
<1> USE ColorAssumption, SizeAssumption DEF Black
<1>1. /\ kind = "marques" /\ kind' = kind /\ iteration' = (N - 1) * 2 + 1 /\ index' = index /\ ~HasGlyph
      /\ index \in 0..Len(Text)
      BY DEF Space, Beats, PatternInv, PatternTypeOK
<1>2. cube' \in [Cells -> Colors] /\ \A c \in Cells : cube'[c] = 0
      BY DEF Space, Dark
<1>3. ~HasGlyph'
      BY <1>1 DEF HasGlyph
<1>4. GlyphMoves'
      BY <1>2, <1>3 DEF GlyphMoves
<1> QED BY <1>1, <1>2, <1>4, MarquesKeeps DEF Space

(* The next layer takes over the character from the one before it.         *)
LEMMA PushKeeps == PatternInv /\ Push => PatternInv'
<1> SUFFICES ASSUME PatternInv, Push PROVE PatternInv'
    OBVIOUS
<1> USE ColorAssumption, SizeAssumption DEF Black
<1>1. /\ kind = "marques" /\ kind' = kind /\ iteration \in 1..(N - 1) /\ iteration' = iteration + 1
      /\ index' = index /\ index \in 0..Len(Text) /\ cube \in [Cells -> Colors]
      BY DEF Push, Beats, PatternInv, PatternTypeOK
<1>2. \A c \in Cells : <<c[1], c[2], iteration - 1>> \in Cells
      BY <1>1, CellParts DEF Cells, Side
<1>3. /\ cube' \in [Cells -> Colors]
      /\ \A c \in Cells : cube'[c] = IF c[3] = iteration THEN cube[<<c[1], c[2], iteration - 1>>] ELSE cube[c]
      BY <1>1, <1>2 DEF Push
<1>4. Visible(iteration) = 0..(iteration - 1) /\ Visible(iteration)' = 0..iteration
      BY <1>1 DEF Visible
<1>5. HasGlyph' = HasGlyph
      BY <1>1 DEF HasGlyph
<1>6. ASSUME NEW c \in Cells
      PROVE  cube'[c] = IF HasGlyph /\ c[3] \in 0..iteration /\ <<c[1], c[2]>> \in Text[index + 1] THEN White ELSE 0
  <2>1. c[3] \in Side
        BY CellParts
  <2>2. \A d \in Cells : cube[d] = IF HasGlyph /\ d[3] \in 0..(iteration - 1) /\ <<d[1], d[2]>> \in Text[index + 1]
                                    THEN White ELSE 0
        BY <1>1, <1>4 DEF PatternInv, GlyphMoves
  <2>3. CASE c[3] = iteration
    <3> DEFINE d == <<c[1], c[2], iteration - 1>>
    <3>1. d \in Cells /\ d[1] = c[1] /\ d[2] = c[2] /\ d[3] = iteration - 1
          BY <1>2
    <3>2. cube'[c] = cube[d]
          BY <1>3, <2>3
    <3>3. d[3] \in 0..(iteration - 1) /\ c[3] \in 0..iteration
          BY <1>1, <2>3, <3>1
    <3> HIDE DEF d
    <3> QED BY <2>2, <3>1, <3>2, <3>3
  <2>4. CASE c[3] # iteration
    <3>1. cube'[c] = cube[c]
          BY <1>3, <2>4
    <3>2. c[3] \in 0..iteration <=> c[3] \in 0..(iteration - 1)
          BY <1>1, <2>1, <2>4 DEF Side
    <3> QED BY <2>2, <3>1, <3>2
  <2> QED BY <2>3, <2>4
<1>7. GlyphMoves'
      BY <1>1, <1>4, <1>5, <1>6 DEF GlyphMoves
<1> QED BY <1>1, <1>3, <1>7, MarquesKeeps DEF Push

(* A layer after the other is cleared.                                     *)
LEMMA WipeKeeps == PatternInv /\ Wipe => PatternInv'
<1> SUFFICES ASSUME PatternInv, Wipe PROVE PatternInv'
    OBVIOUS
<1> USE ColorAssumption, SizeAssumption DEF Black
<1>1. /\ kind = "marques" /\ kind' = kind /\ iteration \in N..(2 * N - 1) /\ iteration' = iteration + 1
      /\ index' = index /\ index \in 0..Len(Text) /\ cube \in [Cells -> Colors]
      BY DEF Wipe, Beats, PatternInv, PatternTypeOK
<1>2. /\ cube' \in [Cells -> Colors]
      /\ \A c \in Cells : cube'[c] = IF c[3] = iteration - N THEN 0 ELSE cube[c]
      BY <1>1 DEF Wipe
<1>3. Visible(iteration) = (iteration - N)..(N - 1) /\ Visible(iteration)' = (iteration - N + 1)..(N - 1)
      BY <1>1 DEF Visible
<1>4. HasGlyph' = HasGlyph
      BY <1>1 DEF HasGlyph
<1>5. ASSUME NEW c \in Cells
      PROVE  cube'[c] = IF HasGlyph /\ c[3] \in (iteration - N + 1)..(N - 1) /\ <<c[1], c[2]>> \in Text[index + 1]
                        THEN White ELSE 0
  <2>1. c[3] \in Side
        BY CellParts
  <2>2. cube[c] = IF HasGlyph /\ c[3] \in (iteration - N)..(N - 1) /\ <<c[1], c[2]>> \in Text[index + 1]
                  THEN White ELSE 0
        BY <1>1, <1>3 DEF PatternInv, GlyphMoves
  <2>3. c[3] \in (iteration - N + 1)..(N - 1) <=> c[3] # iteration - N /\ c[3] \in (iteration - N)..(N - 1)
        BY <1>1, <2>1 DEF Side
  <2> QED BY <1>2, <2>2, <2>3
<1>6. GlyphMoves'
      BY <1>1, <1>3, <1>4, <1>5 DEF GlyphMoves
<1> QED BY <1>1, <1>2, <1>6, MarquesKeeps DEF Wipe

(* The next character finds a dark cube.                                   *)
LEMMA NextLetterKeeps == PatternInv /\ NextLetter => PatternInv'
<1> SUFFICES ASSUME PatternInv, NextLetter PROVE PatternInv'
    OBVIOUS
<1> USE ColorAssumption, SizeAssumption DEF Black
<1>1. /\ kind = "marques" /\ kind' = kind /\ iteration = 2 * N /\ iteration' = 0 /\ cube' = cube
      /\ index \in 0..Len(Text) /\ cube \in [Cells -> Colors]
      BY DEF NextLetter, Beats, PatternInv, PatternTypeOK
<1>2. index' \in 0..Len(Text)
      BY <1>1, TextParts DEF NextLetter
<1>3. Visible(iteration) = {} /\ Visible(iteration)' = {}
      BY <1>1 DEF Visible
<1>4. \A c \in Cells : cube[c] = 0
      BY <1>1, <1>3 DEF PatternInv, GlyphMoves
<1>5. GlyphMoves'
      BY <1>1, <1>3, <1>4 DEF GlyphMoves
<1> QED BY <1>1, <1>2, <1>5, MarquesKeeps DEF NextLetter

-------------------------------------------------------------------------------
(* What is drawn gets older by one update, and so do all the rows.         *)
LEMMA SnowFlakeKeeps ==
  ASSUME PatternInv, NEW row \in Draws, SnowFlake(row) PROVE PatternInv'
<1> USE ColorAssumption, SizeAssumption DEF Black
<1>1. /\ kind = "snowFlake" /\ kind' = kind /\ beat' \in {"set", "lost"} /\ active' = active
      /\ index' = index /\ iteration' = iteration /\ cube \in [Cells -> Colors]
      /\ drawn \in [1..N -> [Plane -> Colors]] /\ row \in [Plane -> Colors]
      BY RandomAssumption DEF SnowFlake, Beats, marques, PatternInv, PatternTypeOK, DrawnOK
<1>2. /\ drawn' \in [1..N -> [Plane -> Colors]]
      /\ \A a \in 1..N : drawn'[a] = IF a = 1 THEN row ELSE drawn[a - 1]
      BY <1>1 DEF SnowFlake, Ageing, Ages
<1>3. \A c \in Cells : c[2] < N - 1 => <<c[1], c[2] + 1, c[3]>> \in Cells
      BY CellParts DEF Cells, Side
<1>4. /\ cube' \in [Cells -> Colors]
      /\ \A c \in Cells : cube'[c] = IF c[2] < N - 1 THEN cube[<<c[1], c[2] + 1, c[3]>>] ELSE row[<<c[1], c[3]>>]
      BY <1>1, <1>3, CellParts DEF SnowFlake
<1>5. ASSUME NEW c \in Cells PROVE cube'[c] = drawn'[N - c[2]][<<c[1], c[3]>>]
  <2>1. c[2] \in Side
        BY CellParts
  <2>2. N - c[2] \in 1..N /\ (c[2] < N - 1 => N - c[2] # 1) /\ (~(c[2] < N - 1) => N - c[2] = 1)
        BY <2>1 DEF Side
  <2>3. CASE c[2] < N - 1
    <3> DEFINE d == <<c[1], c[2] + 1, c[3]>>
    <3>1. d \in Cells /\ d[1] = c[1] /\ d[2] = c[2] + 1 /\ d[3] = c[3]
          BY <1>3, <2>3
    <3>2. cube'[c] = cube[d]
          BY <1>4, <2>3
    <3>3. N - d[2] = (N - c[2]) - 1
          BY <2>1, <3>1 DEF Side
    <3> HIDE DEF d
    <3>4. cube[d] = drawn[N - d[2]][<<d[1], d[3]>>]
          BY <1>1, <3>1 DEF PatternInv, PictureAges
    <3>5. drawn'[N - c[2]] = drawn[(N - c[2]) - 1]
          BY <1>2, <2>2, <2>3
    <3> QED BY <3>1, <3>2, <3>3, <3>4, <3>5
  <2>4. CASE ~(c[2] < N - 1)
        BY <1>2, <1>4, <2>2, <2>4
  <2> QED BY <2>3, <2>4
<1>6. PictureAges'
      BY <1>1, <1>5 DEF PictureAges
<1>7. PatternTypeOK' /\ Fresh' /\ DrawnOK'
      BY <1>1, <1>2, <1>4 DEF PatternInv, PatternTypeOK, Fresh, DrawnOK
<1> QED BY <1>1, <1>6, <1>7 DEF PatternInv, OneLit, GlyphMoves

(* A color is one cell further, in the top row or below it.                *)
LEMMA WavesKeeps ==
  ASSUME PatternInv, NEW color \in Colors, Waves(color) PROVE PatternInv'
<1> USE ColorAssumption, SizeAssumption DEF Black
<1>1. /\ kind = "waves" /\ kind' = kind /\ beat' \in {"set", "lost"} /\ active' = active
      /\ index' = index /\ iteration' = iteration /\ cube \in [Cells -> Colors]
      /\ drawn \in [1..(2 * N - 1) -> Colors]
      BY DEF Waves, Beats, marques, PatternInv, PatternTypeOK, DrawnOK
<1>2. /\ drawn' \in [1..(2 * N - 1) -> Colors]
      /\ \A a \in 1..(2 * N - 1) : drawn'[a] = IF a = 1 THEN color ELSE drawn[a - 1]
      BY <1>1 DEF Waves, Ageing, Ages
<1>3. \A c \in Cells : /\ c[2] < N - 1 => <<c[1], c[2] + 1, c[3]>> \in Cells
                       /\ c[3] < N - 1 => <<c[1], c[2], c[3] + 1>> \in Cells
      BY CellParts DEF Cells, Side
<1>4. /\ cube' \in [Cells -> Colors]
      /\ \A c \in Cells : cube'[c] = IF c[2] < N - 1 THEN cube[<<c[1], c[2] + 1, c[3]>>]
                                      ELSE IF c[3] < N - 1 THEN cube[<<c[1], c[2], c[3] + 1>>] ELSE color
      BY <1>1, <1>3 DEF Waves
<1>5. ASSUME NEW c \in Cells PROVE cube'[c] = drawn'[1 + (N - 1 - c[2]) + (N - 1 - c[3])]
  <2> DEFINE age == 1 + (N - 1 - c[2]) + (N - 1 - c[3])
  <2>1. c[2] \in Side /\ c[3] \in Side
        BY CellParts
  <2>2. /\ age \in 1..(2 * N - 1)
        /\ c[2] < N - 1 \/ c[3] < N - 1 => age # 1
        /\ ~(c[2] < N - 1 \/ c[3] < N - 1) => age = 1
        BY <2>1 DEF Side
  <2>3. ASSUME NEW d \in Cells, cube'[c] = cube[d], d[2] + d[3] = c[2] + c[3] + 1, age # 1
        PROVE  cube'[c] = drawn'[age]
    <3>1. d[2] \in Side /\ d[3] \in Side
          BY CellParts
    <3>2. 1 + (N - 1 - d[2]) + (N - 1 - d[3]) = age - 1
          BY <2>1, <2>3, <3>1 DEF Side
    <3>3. cube[d] = drawn[age - 1]
          BY <1>1, <3>2 DEF PatternInv, PictureAges
    <3> HIDE DEF age
    <3> QED BY <1>2, <2>2, <2>3, <3>3
  <2> HIDE DEF age
  <2>4. ASSUME c[2] < N - 1 PROVE cube'[c] = drawn'[age]
    <3> DEFINE d == <<c[1], c[2] + 1, c[3]>>
    <3>1. d \in Cells /\ d[2] = c[2] + 1 /\ d[3] = c[3] /\ cube'[c] = cube[d]
          BY <1>3, <1>4, <2>4
    <3> HIDE DEF d
    <3>2. d[2] + d[3] = c[2] + c[3] + 1
          BY <2>1, <3>1 DEF Side
    <3> QED BY <2>2, <2>3, <2>4, <3>1, <3>2
  <2>5. ASSUME ~(c[2] < N - 1), c[3] < N - 1 PROVE cube'[c] = drawn'[age]
    <3> DEFINE d == <<c[1], c[2], c[3] + 1>>
    <3>1. d \in Cells /\ d[2] = c[2] /\ d[3] = c[3] + 1 /\ cube'[c] = cube[d]
          BY <1>3, <1>4, <2>5
    <3> HIDE DEF d
    <3>2. d[2] + d[3] = c[2] + c[3] + 1
          BY <2>1, <3>1 DEF Side
    <3> QED BY <2>2, <2>3, <2>5, <3>1, <3>2
  <2>6. ASSUME ~(c[2] < N - 1 \/ c[3] < N - 1) PROVE cube'[c] = drawn'[age]
        BY <1>2, <1>4, <2>2, <2>6
  <2>7. cube'[c] = drawn'[age]
        BY <2>4, <2>5, <2>6
  <2> QED BY <2>7 DEF age
<1>6. PictureAges'
      BY <1>1, <1>5 DEF PictureAges
<1>7. PatternTypeOK' /\ Fresh' /\ DrawnOK'
      BY <1>1, <1>2, <1>4 DEF PatternInv, PatternTypeOK, Fresh, DrawnOK
<1> QED BY <1>1, <1>6, <1>7 DEF PatternInv, OneLit, GlyphMoves

(* Nothing is promised of a random cube.                                   *)
LEMMA RandomKeeps ==
  ASSUME PatternInv, NEW scene \in Scenes, Random(scene) PROVE PatternInv'
<1>1. /\ kind = "random" /\ kind' = kind /\ beat' \in {"set", "lost"} /\ active' = active
      /\ index' = index /\ iteration' = iteration /\ cube' \in [Cells -> Colors]
      BY RandomAssumption DEF Random, Beats, marques
<1>2. PatternTypeOK' /\ Fresh'
      BY <1>1 DEF PatternInv, PatternTypeOK, Fresh
<1> QED BY <1>1, <1>2 DEF PatternInv, DrawnOK, OneLit, GlyphMoves, PictureAges

-------------------------------------------------------------------------------
LEMMA PatternStep == PatternInv /\ [PatternNext]_patternVars => PatternInv'
<1> SUFFICES ASSUME PatternInv, [PatternNext]_patternVars PROVE PatternInv'
    OBVIOUS
<1>1. CASE PatternStart
      BY <1>1, StartKeeps
<1>2. CASE PatternStop
      BY <1>2, IdleKeeps DEF PatternStop
<1>3. CASE PatternTick
  <2>1. CASE LedTest
        BY <2>1, LedTestKeepsInv
  <2>2. CASE Marques
        BY <2>2, LetterKeeps, SpaceKeeps, PushKeeps, WipeKeeps, NextLetterKeeps DEF Marques
  <2>3. CASE BoxIt
    <3>1. UNCHANGED <<kind, cube, active, marques, drawn>> /\ beat' \in {"set", "lost"}
          BY <2>3 DEF BoxIt, Beats
    <3> QED BY <3>1, IdleKeeps
  <2>4. ASSUME NEW row \in Draws, SnowFlake(row) PROVE PatternInv'
        BY <2>4, SnowFlakeKeeps
  <2>5. ASSUME NEW color \in Colors, Waves(color) PROVE PatternInv'
        BY <2>5, WavesKeeps
  <2>6. ASSUME NEW scene \in Scenes, Random(scene) PROVE PatternInv'
        BY <2>6, RandomKeeps
  <2> QED BY <1>3, <2>1, <2>2, <2>3, <2>4, <2>5, <2>6 DEF PatternTick
<1>4. CASE UNCHANGED patternVars
      BY <1>4, IdleKeeps DEF patternVars
<1> QED BY <1>1, <1>2, <1>3, <1>4 DEF PatternNext

(* The invariant of the patterns, for every size, text and draw.           *)
THEOREM PatternSafe == PatternSpec => []PatternInv
BY PatternInitially, PatternStep, PTL DEF PatternSpec

(* LedTest leaves no LED on behind it (LedTest.cpp 80-102).                *)
THEOREM LedTestCorrect == PatternSpec => []OneLit
<1>1. PatternInv => OneLit
      BY DEF PatternInv
<1> QED BY <1>1, PatternSafe, PTL

(* A character goes through the cube whole and leaves it dark (Marques.cpp *)
(* 165-242).                                                               *)
THEOREM MarquesCorrect == PatternSpec => []GlyphMoves
<1>1. PatternInv => GlyphMoves
      BY DEF PatternInv
<1> QED BY <1>1, PatternSafe, PTL

(* SnowFlake and Waves show what they drew, each at its place (SnowFlake   *)
(* .cpp 76-94, Waves.cpp 72-97).                                           *)
THEOREM AgesCorrect == PatternSpec => []PictureAges
<1>1. PatternInv => PictureAges
      BY DEF PatternInv
<1> QED BY <1>1, PatternSafe, PTL
-------------------------------------------------------------------------------
(* The table stays in a layer and has no entry twice.                      *)
LEMMA RemappingPermutes ==
    /\ \A i \in Positions : Remapping(i) \in Positions
    /\ \A i, j \in Positions : Remapping(i) = Remapping(j) => i = j
<1>1. \A i \in Positions : Remapping(i) \in Positions
      BY DEF Positions, LayerSize, Remapping
<1>2. \A i, j \in Positions : Remapping(i) = Remapping(j) => i = j
      BY SMTT(60) DEF Positions, LayerSize, Remapping
<1> QED BY <1>1, <1>2

(* Row, column and channel are told apart by the index into the table.     *)
LEMMA IndexDistinct ==
  ASSUME NEW x \in Coordinates, NEW z \in Coordinates, NEW c \in 0..2,
         NEW u \in Coordinates, NEW w \in Coordinates, NEW d \in 0..2
  PROVE  /\ RowSize * z + x * Channels + c \in Positions
         /\ RowSize * z + x * Channels + c = RowSize * w + u * Channels + d
               => x = u /\ z = w /\ c = d
BY DEF Coordinates, Dimension, RowSize, Channels, Positions, LayerSize

(* A byte tells its layer and its place in the layer.                      *)
LEMMA LayersApart ==
  ASSUME NEW y \in Coordinates, NEW v \in Coordinates, NEW a \in Positions, NEW b \in Positions
  PROVE  /\ LayerSize * y + a \in Offsets
         /\ LayerSize * y + a \in (LayerSize * y)..(LayerSize * y + LayerSize - 1)
         /\ LayerSize * y + a = LayerSize * v + b => y = v /\ a = b
BY DEF Positions, LayerSize, Offsets, Coordinates, Dimension

(* No two channels of LEDs share a byte, and the bytes of a LED are in the *)
(* part of its layer (34-37, 44-48).                                       *)
THEOREM BytesApart ==
  ASSUME NEW x \in Coordinates, NEW y \in Coordinates, NEW z \in Coordinates, NEW c \in 0..2,
         NEW u \in Coordinates, NEW v \in Coordinates, NEW w \in Coordinates, NEW d \in 0..2
  PROVE  /\ DataOffset(x, y, z, c) \in Offsets
         /\ DataOffset(x, y, z, c) \in (LayerSize * y)..(LayerSize * y + LayerSize - 1)
         /\ DataOffset(x, y, z, c) = DataOffset(u, v, w, d) => x = u /\ y = v /\ z = w /\ c = d
<1> DEFINE i == RowSize * z + x * Channels + c
           j == RowSize * w + u * Channels + d
<1>1. i \in Positions /\ j \in Positions /\ (i = j => x = u /\ z = w /\ c = d)
      BY IndexDistinct
<1>2. /\ Remapping(i) \in Positions /\ Remapping(j) \in Positions
      /\ Remapping(i) = Remapping(j) => i = j
      BY <1>1, RemappingPermutes
<1> HIDE DEF i, j
<1>3. /\ LayerSize * y + Remapping(i) \in Offsets
      /\ LayerSize * y + Remapping(i) \in (LayerSize * y)..(LayerSize * y + LayerSize - 1)
      /\ LayerSize * y + Remapping(i) = LayerSize * v + Remapping(j)
            => y = v /\ Remapping(i) = Remapping(j)
      BY <1>2, LayersApart
<1> QED BY <1>1, <1>2, <1>3 DEF DataOffset, i, j

(* What is stored for a LED is read back for it, and nothing else changes: *)
(* setState and getState (50-65), and so setContent and getContent, which  *)
(* go through the cube with them (67-106).                                 *)
THEOREM LedKeepsState ==
  ASSUME NEW data \in Datas, NEW color \in LedColors,
         NEW x \in Coordinates, NEW y \in Coordinates, NEW z \in Coordinates,
         NEW u \in Coordinates, NEW v \in Coordinates, NEW w \in Coordinates
  PROVE  GetState(SetState(data, x, y, z, color), u, v, w) =
             IF <<u, v, w>> = <<x, y, z>> THEN color ELSE GetState(data, u, v, w)
<1> DEFINE new == SetState(data, x, y, z, color)
<1>1. ASSUME NEW c \in 0..2, NEW d \in 0..2
      PROVE  /\ DataOffset(x, y, z, c) \in Offsets /\ DataOffset(u, v, w, d) \in Offsets
             /\ DataOffset(x, y, z, c) = DataOffset(u, v, w, d) => x = u /\ y = v /\ z = w /\ c = d
             /\ DataOffset(x, y, z, c) = DataOffset(x, y, z, d) => c = d
  <2>1. /\ DataOffset(x, y, z, c) \in Offsets
        /\ DataOffset(x, y, z, c) = DataOffset(u, v, w, d) => x = u /\ y = v /\ z = w /\ c = d
        BY BytesApart, SMTT(60)
  <2>2. DataOffset(u, v, w, d) \in Offsets
        BY BytesApart
  <2>3. DataOffset(x, y, z, c) = DataOffset(x, y, z, d) => c = d
        BY BytesApart, SMTT(60)
  <2> QED BY <2>1, <2>2, <2>3
<1>2. CASE <<u, v, w>> = <<x, y, z>>
  <2>1. u = x /\ v = y /\ w = z
        BY <1>2
  <2>2. \A c \in 0..2 : new[DataOffset(x, y, z, c)] = color[c]
    <3>1. new[DataOffset(x, y, z, 0)] = color[0]
          BY <1>1 DEF SetState, Datas
    <3>2. new[DataOffset(x, y, z, 1)] = color[1]
          BY <1>1 DEF SetState, Datas
    <3>3. new[DataOffset(x, y, z, 2)] = color[2]
          BY <1>1 DEF SetState, Datas
    <3> QED BY <3>1, <3>2, <3>3
  <2>3. GetState(new, u, v, w) = color
        BY <2>1, <2>2 DEF GetState, LedColors
  <2> QED BY <1>2, <2>3
<1>3. CASE <<u, v, w>> # <<x, y, z>>
  <2>1. ~(u = x /\ v = y /\ w = z)
        BY <1>3
  <2>2. \A d \in 0..2 : new[DataOffset(u, v, w, d)] = data[DataOffset(u, v, w, d)]
        BY <1>1, <2>1 DEF SetState, Datas
  <2>3. GetState(new, u, v, w) = GetState(data, u, v, w)
        BY <2>2 DEF GetState
  <2> QED BY <1>3, <2>3
<1> QED BY <1>2, <1>3

(* Each line shows one byte, and every byte has a line (CubeManager.cpp    *)
(* 97-101).                                                                *)
THEOREM LinesApart ==
    /\ \A p \in Positions : Line(p) \in Positions
    /\ \A p, q \in Positions : Line(p) = Line(q) => p = q
BY DEF Line, Positions, LayerSize
-------------------------------------------------------------------------------
(* The bits that the observed layer has been shown with, since the first.  *)
Shown ==
    {d \in Digits : \/ d < m_activeDigit
                    \/ d = m_activeDigit /\ (\/ m_activeLayer > Observed
                                             \/ m_activeLayer = Observed /\ timer["cycle"] # "shows")}

LitOf(digits) == {d \in digits : (byte \div d) % 2 = 1}

(* The byte was lit once for each of these that it has set, or, when it    *)
(* was changed meanwhile, at most once for each.                           *)
ScanInv ==
    /\ lit <= Cardinality(Shown)
    /\ steady => m_activeDigit \in Digits /\ lit = Cardinality(LitOf(Shown))

(* No timer runs before the driver is started.                             *)
Unset == pc = "init" => timer["cycle"] = "none"

DriverInv == TypeOK /\ ScanInv /\ Unset

(* The bits follow each other; after the last one the first comes again    *)
(* (CubeManager.cpp 88-89).                                                *)
LEMMA DigitFacts ==
  /\ 1 \in Digits /\ 0 \notin Digits /\ NextDigit(0) = 1
  /\ \A d \in Digits : d \in Nat /\ d > 0
  /\ \A d \in Digits :
        IF 2 * d >= Width THEN NextDigit(d) = 1 /\ \A e \in Digits : e <= d
        ELSE NextDigit(d) = 2 * d /\ 2 * d \in Digits /\ 2 * d # 1 /\ \A e \in Digits : e < 2 * d <=> e <= d
<1>1. Width \in {2, 4, 8, 16, 32, 64, 128, 256}
      BY WidthAssumption
<1>2. 1 \in Digits /\ 0 \notin Digits /\ NextDigit(0) = 1
      BY <1>1 DEF Digits, NextDigit
<1>3. \A d \in Digits : d \in Nat /\ d > 0
      BY DEF Digits
<1>4. ASSUME NEW d \in Digits, 2 * d >= Width
      PROVE  NextDigit(d) = 1 /\ \A e \in Digits : e <= d
      BY <1>1, <1>4 DEF Digits, NextDigit
<1>5. ASSUME NEW d \in Digits, ~(2 * d >= Width)
      PROVE  NextDigit(d) = 2 * d /\ 2 * d \in Digits /\ 2 * d # 1 /\ \A e \in Digits : e < 2 * d <=> e <= d
      BY <1>1, <1>5 DEF Digits, NextDigit
<1> QED BY <1>2, <1>3, <1>4, <1>5

(* All sets of bits are finite.                                            *)
LEMMA DigitsFinite ==
  /\ IsFiniteSet(Digits) /\ Cardinality(Digits) \in Nat
  /\ \A set \in SUBSET Digits :
        IsFiniteSet(set) /\ Cardinality(set) \in Nat /\ Cardinality(set) <= Cardinality(Digits)
<1>1. IsFiniteSet(Digits)
  <2>1. Digits \in SUBSET Nat /\ \A d \in Digits : d <= 128
        BY DEF Digits
  <2> QED BY <2>1, FS_BoundedSetOfNaturals
<1> QED BY <1>1, FS_Subset, FS_CardinalityType

(* What the driver starts with.                                            *)
LEMMA DriverInitially == Init => DriverInv
<1> SUFFICES ASSUME Init PROVE DriverInv
    OBVIOUS
<1>1. Cardinality(Shown) \in Nat /\ Cardinality(Digits) \in Nat
      BY DigitsFinite DEF Shown
<1>2. ScanInv
      BY <1>1 DEF Init, ScanInv
<1>3. 0 \in 0..(Width - 1) /\ 0 \in 0..(Layers - 1) /\ 0 \in 0..MaxUpdates
      BY LayersAssumption, WidthAssumption, UpdateAssumption
<1>4. timer \in [Timers -> {"none", "armed", "late", "shows", "ended"}] /\ timer["cycle"] = "none"
      BY DEF Init, Timers
<1>5. 0 \in 0..Cardinality(Digits)
      BY <1>1
<1>6. TypeOK
      BY <1>3, <1>4, <1>5 DEF Init, TypeOK
<1> QED BY <1>2, <1>4, <1>6 DEF DriverInv, Unset

(* The layer, the bit and the bits shown stay where nothing is output.     *)
LEMMA ScanStays ==
  ASSUME DriverInv, UNCHANGED display, timer'["cycle"] = "shows" <=> timer["cycle"] = "shows",
         steady' => steady /\ byte' = byte
  PROVE  ScanInv'
<1>1. Shown' = Shown
      BY DEF display, Shown
<1>2. ASSUME steady' PROVE m_activeDigit' \in Digits /\ lit' = Cardinality(LitOf(Shown)')
      BY <1>1, <1>2 DEF DriverInv, ScanInv, display, LitOf
<1> QED BY <1>1, <1>2 DEF DriverInv, ScanInv, display

(* updateCube and updateLed, while the driver goes on (113-133).           *)
LEMMA StoreKeeps ==
  ASSUME DriverInv, NEW value \in 0..(Width - 1), Store(value), UNCHANGED <<display, life, timer>>,
         updates' \in 0..MaxUpdates, fate' \in {"running", "crashed"}
  PROVE  DriverInv'
<1>1. steady' \in BOOLEAN /\ (steady' => steady /\ byte' = byte) /\ byte' \in 0..(Width - 1)
      BY DEF Store, DriverInv, TypeOK
<1>2. ScanInv'
      BY <1>1, ScanStays
<1> QED BY <1>1, <1>2 DEF DriverInv, TypeOK, Unset, display, life

(* The steps that output nothing: the driver is started and stopped, and   *)
(* the picture is published (55-81, 106-111).                              *)
LEMMA StopsKeep == DriverInv /\ (Start \/ Stops \/ PublishState) => DriverInv'
<1> SUFFICES ASSUME DriverInv, Start \/ Stops \/ PublishState PROVE DriverInv'
    OBVIOUS
<1> DEFINE Places == {"none", "armed", "late", "shows", "ended"}
<1>1. /\ timer \in [Timers -> Places] /\ "cycle" \in Timers /\ "state" \in Timers /\ cancelled \subseteq Timers
      /\ steady \in BOOLEAN
      BY DEF DriverInv, TypeOK, Timers
<1>2. CASE Start
  <2>1. PICK set \in {Timers, {"cycle"}} : timer' = [t \in Timers |-> IF t \in set THEN "armed" ELSE "none"]
        BY <1>2 DEF Start
  <2>2. timer' \in [Timers -> Places] /\ timer'["cycle"] = "armed"
        BY <1>1, <2>1 DEF Timers
  <2>3. ScanInv'
        BY <1>2, <2>2, ScanStays DEF Start, DriverInv, Unset
  <2> QED BY <1>2, <2>2, <2>3 DEF Start, DriverInv, TypeOK, Unset, display
<1>3. ASSUME NEW t \in Timers, Cancel(t), m_controllerPtr' = m_controllerPtr, pc' \in {"stopping", "cancelled"}
      PROVE  DriverInv'
  <2>1. PICK end \in {"ended", "late"} : timer' = [timer EXCEPT ![t] = IF @ = "armed" THEN end ELSE @]
        BY <1>3 DEF Cancel
  <2>2. timer' \in [Timers -> Places] /\ (timer'["cycle"] = "shows" <=> timer["cycle"] = "shows")
        BY <1>1, <2>1
  <2>3. ScanInv'
        BY <1>3, <2>2, ScanStays DEF Cancel
  <2> QED BY <1>1, <1>3, <2>2, <2>3 DEF Cancel, DriverInv, TypeOK, Unset, display
<1>4. CASE StopCycle
      BY <1>1, <1>3, <1>4 DEF StopCycle, Cancel
<1>5. CASE StopState
      BY <1>1, <1>3, <1>5 DEF StopState, Cancel
<1>6. CASE StopReset
  <2>1. ScanInv'
        BY <1>6, ScanStays DEF StopReset
  <2> QED BY <1>6, <2>1 DEF StopReset, DriverInv, TypeOK, Unset, display
<1>7. CASE PublishState
  <2>1. timer' \in [Timers -> Places] /\ timer'["cycle"] = timer["cycle"]
        BY <1>1, <1>7 DEF PublishState, Rearm
  <2>2. ScanInv'
        BY <1>7, <2>1, ScanStays DEF PublishState
  <2> QED BY <1>7, <2>1, <2>2 DEF PublishState, Rearm, DriverInv, TypeOK, Unset, display, life
<1> QED BY <1>2, <1>4, <1>5, <1>6, <1>7 DEF Stops

(* The next layer, or the next bit and the first layer (85-91).            *)
LEMMA AdvanceKeeps == DriverInv /\ Advance => DriverInv'
<1> SUFFICES ASSUME DriverInv, Advance PROVE DriverInv'
    OBVIOUS
<1>1. /\ timer \in [Timers -> {"none", "armed", "late", "shows", "ended"}] /\ "cycle" \in Timers
      /\ timer' = [timer EXCEPT !["cycle"] = "shows"] /\ timer["cycle"] \in {"armed", "late"}
      BY DEF DriverInv, TypeOK, Timers, Advance, Fires
<1>2. /\ m_activeLayer \in 0..(Layers - 1) /\ m_activeDigit \in Digits \cup {0}
      /\ Layers \in Nat \ {0} /\ Observed \in 0..(Layers - 1)
      /\ lit \in Nat /\ lit <= Cardinality(Shown) /\ steady \in BOOLEAN
      BY LayersAssumption DEF DriverInv, TypeOK, ScanInv
<1>3. /\ timer' \in [Timers -> {"none", "armed", "late", "shows", "ended"}] /\ timer'["cycle"] = "shows"
      /\ pc # "init"
      BY <1>1 DEF DriverInv, Unset
<1>4. UNCHANGED <<life, byte, updates, fate>>
      BY DEF Advance
<1>5. CASE m_activeLayer + 1 < Layers
  <2>1. m_activeLayer' = m_activeLayer + 1 /\ m_activeDigit' = m_activeDigit /\ UNCHANGED <<lit, steady>>
        BY <1>2, <1>5 DEF Advance
  <2>2. m_activeLayer > Observed \/ m_activeLayer = Observed <=> m_activeLayer' > Observed
        BY <1>2, <2>1
  <2>3. Shown' = Shown
        BY <1>1, <1>3, <2>1, <2>2 DEF Shown
  <2>4. ScanInv'
        BY <1>4, <2>1, <2>3 DEF DriverInv, ScanInv, LitOf
  <2>5. m_activeLayer' \in 0..(Layers - 1)
        BY <1>2, <1>5, <2>1
  <2> QED BY <1>3, <1>4, <2>1, <2>4, <2>5 DEF DriverInv, TypeOK, Unset, life
<1>6. CASE m_activeLayer + 1 >= Layers
  <2>1. m_activeLayer' = 0 /\ m_activeDigit' = NextDigit(m_activeDigit) /\ m_activeLayer = Layers - 1
        BY <1>2, <1>6 DEF Advance
  <2>2. m_activeDigit' \in Digits
        BY <1>2, <2>1, DigitFacts
  <2>3. CASE m_activeDigit' = 1
    <3>1. lit' = 0 /\ steady' = TRUE
          BY <2>1, <2>3 DEF Advance
    <3>2. Shown' = {}
      <4>1. \A d \in Digits : ~(d < 1)
            BY DigitFacts
      <4> QED BY <1>2, <1>3, <2>1, <2>3, <4>1 DEF Shown
    <3>3. LitOf(Shown)' = {}
          BY <3>2 DEF LitOf
    <3>4. ScanInv'
          BY <2>2, <3>1, <3>2, <3>3, FS_EmptySet DEF ScanInv
    <3>5. lit' \in 0..Cardinality(Digits) /\ m_activeLayer' \in 0..(Layers - 1)
          BY <1>2, <2>1, <3>1, DigitsFinite
    <3> QED BY <1>3, <1>4, <2>2, <3>1, <3>4, <3>5 DEF DriverInv, TypeOK, Unset, life
  <2>4. CASE m_activeDigit' # 1
    <3>1. UNCHANGED <<lit, steady>>
          BY <2>1, <2>4 DEF Advance
    <3>2. m_activeDigit \in Digits /\ m_activeDigit' = 2 * m_activeDigit
          BY <1>2, <2>1, <2>4, DigitFacts
    <3>3. \A e \in Digits : e < m_activeDigit' <=> e <= m_activeDigit
          BY <2>1, <2>4, <3>2, DigitFacts
    <3>4. \A e \in Digits : e <= m_activeDigit <=> e < m_activeDigit \/ e = m_activeDigit
          BY <3>2, DigitFacts
    <3>5. m_activeLayer > Observed \/ m_activeLayer = Observed
          BY <1>2, <2>1
    <3>6. ~(m_activeLayer' > Observed)
          BY <1>2, <2>1
    <3>7. Shown' = Shown
          BY <1>1, <1>3, <3>3, <3>4, <3>5, <3>6 DEF Shown
    <3>8. ScanInv'
          BY <1>4, <2>2, <3>1, <3>7 DEF DriverInv, ScanInv, LitOf
    <3>9. m_activeLayer' \in 0..(Layers - 1)
          BY <1>2, <2>1
    <3> QED BY <1>3, <1>4, <2>2, <3>1, <3>8, <3>9 DEF DriverInv, TypeOK, Unset, life
  <2> QED BY <2>3, <2>4
<1> QED BY <1>2, <1>5, <1>6

(* The layer is output with the bit (93-103).                              *)
LEMMA OutputKeeps == DriverInv /\ Output => DriverInv'
<1> SUFFICES ASSUME DriverInv, Output PROVE DriverInv'
    OBVIOUS
<1>1. /\ timer \in [Timers -> {"none", "armed", "late", "shows", "ended"}] /\ "cycle" \in Timers
      /\ timer["cycle"] = "shows" /\ UNCHANGED <<m_activeLayer, m_activeDigit, life, byte, steady, updates>>
      BY DEF DriverInv, TypeOK, Timers, Output
<1>2. /\ m_activeLayer \in 0..(Layers - 1) /\ m_activeDigit \in Digits \cup {0}
      /\ Layers \in Nat \ {0} /\ Observed \in 0..(Layers - 1)
      /\ lit \in Nat /\ lit <= Cardinality(Shown)
      BY LayersAssumption DEF DriverInv, TypeOK, ScanInv
<1>3. CASE m_controllerPtr = "null"
  <2>1. UNCHANGED <<lit, timer>> /\ fate' = "crashed"
        BY <1>3 DEF Output
  <2>2. ScanInv'
        BY <1>1, <2>1, ScanStays DEF display
  <2> QED BY <1>1, <2>1, <2>2 DEF DriverInv, TypeOK, Unset, life
<1>4. CASE m_controllerPtr # "null"
  <2>1. /\ timer' = [timer EXCEPT !["cycle"] = "armed"] /\ fate' \in {"running", "crashed"}
        BY <1>4 DEF Output, Rearm, DriverInv, TypeOK
  <2>2. timer' \in [Timers -> {"none", "armed", "late", "shows", "ended"}] /\ timer'["cycle"] = "armed"
        BY <1>1, <2>1
  <2>3. Shown \subseteq Digits /\ Shown' \subseteq Digits
        BY DEF Shown
  <2>4. CASE m_activeLayer # Observed \/ m_activeDigit \notin Digits
    <3>1. Shown' = Shown
          BY <1>1, <2>4 DEF Shown
    <3>2. lit' = lit
      <4>1. CASE m_activeLayer # Observed
            BY <1>2, <1>4, <4>1 DEF Output
      <4>2. CASE m_activeDigit = 0
        <5>1. ~BitOf(byte, m_activeDigit)
              BY <4>2 DEF BitOf
        <5> QED BY <1>2, <1>4, <5>1 DEF Output
      <4> QED BY <1>2, <2>4, <4>1, <4>2
    <3>3. ScanInv'
          BY <1>1, <3>1, <3>2 DEF DriverInv, ScanInv, LitOf
    <3> QED BY <1>1, <2>1, <2>2, <3>2, <3>3 DEF DriverInv, TypeOK, Unset, life
  <2>5. CASE m_activeLayer = Observed /\ m_activeDigit \in Digits
    <3>1. m_activeDigit \in Nat /\ m_activeDigit > 0 /\ ~(m_activeLayer > Observed)
          BY <1>2, <2>5, DigitFacts
    <3>2. Shown' = Shown \cup {m_activeDigit} /\ m_activeDigit \notin Shown
          BY <1>1, <2>2, <2>5, <3>1 DEF Shown
    <3>3. BitOf(byte, m_activeDigit) <=> (byte \div m_activeDigit) % 2 = 1
          BY <3>1 DEF BitOf
    <3>4. lit' = lit + (IF (byte \div m_activeDigit) % 2 = 1 THEN 1 ELSE 0)
          BY <1>4, <2>5, <3>3 DEF Output
    <3>5. /\ IsFiniteSet(Shown) /\ Cardinality(Shown) \in Nat /\ Cardinality(Shown') <= Cardinality(Digits)
          /\ LitOf(Shown) \subseteq Digits /\ IsFiniteSet(LitOf(Shown)) /\ Cardinality(LitOf(Shown)) \in Nat
          /\ Cardinality(Digits) \in Nat
      <4>1. LitOf(Shown) \subseteq Digits
            BY <2>3 DEF LitOf
      <4> QED BY <2>3, <4>1, DigitsFinite
    <3>6. Cardinality(Shown') = Cardinality(Shown) + 1
          BY <3>2, <3>5, FS_AddElement
    <3>7. LitOf(Shown)' = IF (byte \div m_activeDigit) % 2 = 1 THEN LitOf(Shown) \cup {m_activeDigit} ELSE LitOf(Shown)
          BY <1>1, <3>2 DEF LitOf
    <3>8. m_activeDigit \notin LitOf(Shown)
          BY <3>2 DEF LitOf
    <3>9. Cardinality(LitOf(Shown)') =
              Cardinality(LitOf(Shown)) + (IF (byte \div m_activeDigit) % 2 = 1 THEN 1 ELSE 0)
      <4>1. Cardinality(LitOf(Shown) \cup {m_activeDigit}) = Cardinality(LitOf(Shown)) + 1
            BY <3>5, <3>8, FS_AddElement
      <4>2. CASE (byte \div m_activeDigit) % 2 = 1
            BY <3>7, <4>1, <4>2
      <4>3. CASE (byte \div m_activeDigit) % 2 # 1
        <5>1. LitOf(Shown)' = LitOf(Shown)
              BY <3>7, <4>3
        <5> QED BY <3>5, <4>3, <5>1
      <4> QED BY <4>2, <4>3
    <3>10. lit' \in Nat /\ lit' <= Cardinality(Shown')
          BY <1>2, <3>4, <3>5, <3>6
    <3>11. ScanInv'
          BY <1>1, <2>5, <3>4, <3>9, <3>10 DEF DriverInv, ScanInv
    <3>12. lit' \in 0..Cardinality(Digits)
          BY <3>5, <3>6, <3>10
    <3> QED BY <1>1, <2>1, <2>2, <3>11, <3>12 DEF DriverInv, TypeOK, Unset, life
  <2> QED BY <2>4, <2>5
<1> QED BY <1>3, <1>4

(* Every step of the driver.                                               *)
LEMMA DriverKeeps == DriverInv /\ Driver => DriverInv'
<1> SUFFICES ASSUME DriverInv, Driver PROVE DriverInv'
    OBVIOUS
<1>1. CASE Start \/ Stops \/ PublishState
      BY <1>1, StopsKeep
<1>2. CASE Ticks
      BY <1>2, AdvanceKeeps, OutputKeeps DEF Ticks
<1>3. ASSUME NEW value \in Values, Update(value) PROVE DriverInv'
  <2>1. value \in 0..(Width - 1)
        BY WidthAssumption
  <2>2. Store(value) /\ UNCHANGED <<display, life, timer>> /\ fate' \in {"running", "crashed"}
        BY <1>3 DEF Update, DriverInv, TypeOK
  <2>3. updates' \in 0..MaxUpdates
        BY <1>3, UpdateAssumption DEF Update, DriverInv, TypeOK
  <2> QED BY <2>1, <2>2, <2>3, StoreKeeps
<1> QED BY <1>1, <1>2, <1>3 DEF Driver

LEMMA DriverRests == DriverInv /\ UNCHANGED vars => DriverInv'
<1> SUFFICES ASSUME DriverInv, UNCHANGED vars PROVE DriverInv'
    OBVIOUS
<1>1. ScanInv'
      BY ScanStays DEF vars
<1> QED BY <1>1 DEF vars, display, life, DriverInv, TypeOK, Unset

(* At the end of a turn all bits have been shown.                          *)
LEMMA AllShownThen == DriverInv => BrightnessIsBits
<1> SUFFICES ASSUME DriverInv, steady, timer["cycle"] = "armed", m_activeLayer = Layers - 1,
                    2 * m_activeDigit >= Width
             PROVE  lit = Cardinality({d \in Digits : (byte \div d) % 2 = 1})
    BY DEF BrightnessIsBits
<1>1. m_activeDigit \in Digits /\ lit = Cardinality(LitOf(Shown))
      BY DEF DriverInv, ScanInv
<1>2. \A d \in Digits : d < m_activeDigit \/ d = m_activeDigit
  <2>1. \A d \in Digits : d <= m_activeDigit
        BY <1>1, DigitFacts
  <2>2. \A d \in Digits : d \in Nat
        BY DigitFacts
  <2> QED BY <1>1, <2>1, <2>2
<1>3. m_activeLayer > Observed \/ m_activeLayer = Observed
      BY LayersAssumption
<1>4. Shown = Digits
      BY <1>2, <1>3 DEF Shown
<1> QED BY <1>1, <1>4 DEF LitOf

(* What the driver keeps of its variables, alone.                          *)
THEOREM DriverTypeCorrect == Spec => [](TypeOK /\ BrightnessIsBits)
<1>1. DriverInv /\ [Next]_vars => DriverInv'
      BY DriverKeeps, DriverRests DEF Next
<1>2. DriverInv => TypeOK /\ BrightnessIsBits
      BY AllShownThen DEF DriverInv
<1> QED BY <1>1, <1>2, DriverInitially, PTL DEF Spec

-------------------------------------------------------------------------------
(* A step of the show is one of the pattern, or none.                      *)
LEMMA ShowStepDraws == [ShowNext]_showVars => [PatternNext]_patternVars
BY DEF ShowNext, StartPattern, StopPattern, ShowPicture, DriverStep, Over, showVars, PatternNext

LEMMA ShowDraws == ShowSpec => PatternSpec
BY ShowStepDraws, PTL DEF ShowSpec, ShowInit, PatternSpec

(* What is posted fits into the byte.                                      *)
LEMMA PostedFits == PatternInv' => cube'[Watched] \in 0..(Width - 1)
BY ShowAssumption DEF PatternInv, PatternTypeOK

LEMMA ShowKeepsDriver ==
  DriverInv /\ PatternInv' /\ [ShowNext]_showVars => DriverInv'
<1> SUFFICES ASSUME DriverInv, PatternInv', [ShowNext]_showVars PROVE DriverInv'
    OBVIOUS
<1>1. fate \in {"running", "crashed"} /\ updates \in 0..MaxUpdates
      BY DEF DriverInv, TypeOK
<1>2. CASE StartPattern
  <2>1. CASE kind = "boxIt"
        BY <1>1, <1>2, <2>1, PostedFits, StoreKeeps DEF StartPattern, driverRest
  <2>2. CASE kind # "boxIt"
        BY <1>2, <2>2, DriverRests DEF StartPattern, driverRest, vars
  <2> QED BY <2>1, <2>2
<1>3. CASE ShowPicture
  <2>1. fate' \in {"running", "crashed"}
        BY <1>1, <1>3 DEF ShowPicture
  <2> QED BY <1>1, <1>3, <2>1, PostedFits, StoreKeeps DEF ShowPicture, driverRest
<1>4. CASE DriverStep
      BY <1>4, DriverKeeps DEF DriverStep
<1>5. CASE StopPattern \/ Over \/ UNCHANGED showVars
      BY <1>5, DriverRests DEF StopPattern, Over, showVars
<1> QED BY <1>2, <1>3, <1>4, <1>5 DEF ShowNext

(* The brightness of a LED is the number of bits set in its byte, also     *)
(* while the pattern posts from its own thread (CubeManager.cpp 85-101).   *)
THEOREM BrightnessCorrect == ShowSpec => []BrightnessIsBits
<1>1. ShowInit => DriverInv
      BY DriverInitially DEF ShowInit
<1> QED BY <1>1, ShowKeepsDriver, ShowDraws, PatternSafe, AllShownThen, PTL DEF ShowSpec

(* What the patterns promise of the picture, they promise while the driver *)
(* shows it (Marques.cpp 165-235, SnowFlake.cpp 67-99, Waves.cpp 72-97).   *)
THEOREM ShowPictures == ShowSpec => [](GlyphMoves /\ PictureAges)
BY ShowDraws, MarquesCorrect, AgesCorrect, PTL
===============================================================================

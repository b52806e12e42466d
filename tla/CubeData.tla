------------------------------- MODULE CubeData -------------------------------
(***************************************************************************)
(* Where the bytes of the LEDs are (apps/cubeManager/src/CubeData.cpp): a  *)
(* layer of the cube is 192 bytes, in the order in which they are shifted  *)
(* out to the board, and a table takes the row, column and channel of a    *)
(* LED there. The sizes are those of the code, and what is to be shown of  *)
(* them is proved in CubeShowProofs: that every LED keeps what was stored  *)
(* for it, whatever is stored for the others, and that each output line    *)
(* shows one byte.                                                         *)
(***************************************************************************)
EXTENDS Integers

Dimension   == 8
Channels    == 3
RowSize     == 24
LayerSize   == 192
Coordinates == 0..(Dimension - 1)
Offsets     == 0..1535
Positions   == 0..(LayerSize - 1)

(* The table (21-31): two rows at a time, counting down with a block left  *)
(* out that comes in the end, upwards. Three entries of the last row are   *)
(* in another order (30).                                                  *)
Remapping(i) ==
    LET base == 144 - 48 * (i \div 48)
        r    == i % 48
    IN  CASE i \in {177, 178, 179} -> (IF i = 177 THEN 5 ELSE IF i = 178 THEN 4 ELSE 6)
          [] i \notin {177, 178, 179} /\ r < 16               -> base + 47 - r
          [] i \notin {177, 178, 179} /\ r \in 16..39         -> base + 39 - r
          [] i \notin {177, 178, 179} /\ r > 39               -> base + r - 16

(* getDataOffset (34-37). *)
DataOffset(x, y, z, channel) == LayerSize * y + Remapping(RowSize * z + x * Channels + channel)

(* LedColors by channel: G, R, B. *)
LedColors == [0..2 -> 0..255]
Datas  == [Offsets -> 0..255]

(* getState (50-58). *)
GetState(data, x, y, z) == [channel \in 0..2 |-> data[DataOffset(x, y, z, channel)]]

(* setState (60-65): three assignments, one after the other. *)
SetState(data, x, y, z, color) ==
    [[[data EXCEPT ![DataOffset(x, y, z, 0)] = color[0]]
            EXCEPT ![DataOffset(x, y, z, 1)] = color[1]]
            EXCEPT ![DataOffset(x, y, z, 2)] = color[2]]

(* getLayerData (44-48): the byte at a position of a layer. *)
LayerByte(data, layer, position) == data[LayerSize * layer + position]

(* The line of layerState that periodicUpdate puts a position on           *)
(* (CubeManager.cpp 97-101): the halves of a layer alternate.              *)
Line(position) == IF position < 96 THEN 2 * position ELSE 2 * (position - 96) + 1
===============================================================================

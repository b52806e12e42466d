------------------------------ MODULE CubeShowMC ------------------------------
(* A text of three characters, the last of which the font does not have;   *)
(* two rows of snow; two random cubes.                                     *)
EXTENDS CubeShow

MCWatched == <<1, Observed, 1>>
MCText   == <<{<<0, 0>>, <<1, 1>>}, {<<1, 1>>, <<N - 1, 0>>}, Unknown>>
MCDraws  == {[p \in Plane |-> IF p[1] = p[2] THEN White ELSE Black], [p \in Plane |-> IF p[1] = 1 THEN White ELSE Black]}
MCScenes == {[c \in Cells |-> IF c[1] + c[2] > c[3] THEN White ELSE Black], [c \in Cells |-> White]}
===============================================================================

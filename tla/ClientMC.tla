------------------------------- MODULE ClientMC -------------------------------
(* Refreshes and connections are alike. What comes after two refreshes have *)
(* run at once is not looked at: both properties of the run are about what  *)
(* comes before.                                                            *)
EXTENDS Client, TLC

Symmetry == Permutations(Refreshes) \cup Permutations(Conns)
Apart    == ~overlapped
===============================================================================

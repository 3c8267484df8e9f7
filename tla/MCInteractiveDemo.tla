--------------------------- MODULE MCInteractiveDemo ---------------------------
(***************************************************************************)
(* A small window, and forged numbers in the order of the program's: TR-6's *)
(* comes within reach of the channel, the other two stay beyond it.        *)
(***************************************************************************)
EXTENDS InteractiveDemo

MCLengths == {5, 9}
=============================================================================

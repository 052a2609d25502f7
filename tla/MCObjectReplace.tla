--------------------------- MODULE MCObjectReplace ---------------------------
(***************************************************************************)
(* Pictures below, at and above the sides the code names, declared rightly,*)
(* wrongly, on one side only or not at all, tapped inside and outside.     *)
(***************************************************************************)
EXTENDS ObjectReplace

MCPictures == {<<40, 30>>, <<1600, 1200>>}
MCSides == {0, 30, 40, 1200, 1600, 8193}
MCTaps == {-1, 0, 29, 1024, 1199}
=============================================================================

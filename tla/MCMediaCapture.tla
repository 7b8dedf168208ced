--------------------------- MODULE MCMediaCapture ---------------------------
(***************************************************************************)
(* An instance of MediaCapture for TLC: a picture, a clip and a note, so   *)
(* that the table of seen messages can overflow between two callbacks of   *)
(* the picture, and the picture is captured a second time.                 *)
(***************************************************************************)
EXTENDS MediaCapture
=============================================================================

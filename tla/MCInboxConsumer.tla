--------------------------- MODULE MCInboxConsumer ---------------------------
(***************************************************************************)
(* Instances of InboxConsumer for TLC.  "text" and "photo" carry the same  *)
(* message: the phone first records a picture without its body and sends   *)
(* it again once the picture is downloaded.  "junk" fails validation, and  *)
(* the INSERT refuses "huge".                                              *)
(***************************************************************************)
EXTENDS InboxConsumer

OnePhoto == {"photo"}
Picture == {"text", "photo"}
PhotoAndBad == {"photo", "junk", "huge"}

OnePhotoMessage == [f \in OnePhoto |-> "m1"]
SameMessage == [f \in Picture |-> "m1"]
OwnMessage == [f \in PhotoAndBad |-> CASE f = "photo" -> "m1" [] f = "junk" -> "m2" [] f = "huge" -> "m3"]
=============================================================================

---------------------------- MODULE MCDumpImport ----------------------------
(***************************************************************************)
(* Instances of DumpImport for TLC: "a" and "b" have one name, "c" the one *)
(* that the suffix would make for "b", "d" none in the backup, and the     *)
(* table of "e" is empty.  One message is in the backup and uploaded too,  *)
(* two are only uploaded.                                                  *)
(***************************************************************************)
EXTENDS DumpImport

FiveChats == {"a", "b", "c", "d", "e"}
SixMsgs == {"a1", "b1", "b2", "c1", "d1", "d2"}
Of == [m \in SixMsgs |-> CASE m = "a1" -> "a" [] m = "c1" -> "c"
                           [] m \in {"d1", "d2"} -> "d" [] OTHER -> "b"]
InOrder == <<"a", "e", "d", "c", "b">>
Dumped == {"a1", "b1", "c1", "d1"}
WithFile == {"b1", "c1", "d1"}
NamedFile == [m \in WithFile |-> IF m = "b1" THEN "2.jpg" ELSE "1.jpg"]
TwoNames == {"1.jpg", "2.jpg"}
LongOnes == {"d"}
Uploaded == {"a1", "b2", "d2"}
UploadedBody == {"a1", "b2"}
Numbered == <<"w_b", "w_b_2", "w_b_3", "w_b_4", "w_b_5">>
Others == <<"o", "o_2", "o_3", "o_4", "o_5">>
Places == {"w", "a", "b", "c", "d", "e", "x"} \cup {Numbered[i] : i \in 1..5} \cup {Others[i] : i \in 1..5}
Called == [c \in FiveChats |-> CASE c = "c" -> "w_b" [] c \in {"d", "e"} -> c [] OTHER -> "w"]
SaidName == [m \in Uploaded |-> CASE m = "b2" -> "w" [] m = "d2" -> "w_b" [] OTHER -> "none"]
Ids == [c \in FiveChats |-> c]
Alternatives == [F \in Places |-> [c \in FiveChats |->
          IF F = "w" /\ c = "b" THEN Numbered ELSE Others]]
=============================================================================

--------------------------- MODULE MCChatFolders ---------------------------
(***************************************************************************)
(* Instances of ChatFolders for TLC: chats a and b are both called X; chat *)
(* c, an official account, is called Y, and Z in the name sheet.  "old" of *)
(* c and "oldA" of a stand in logs of the first layout; "bare" and "bareA" *)
(* come without a chat name, the other events carry one.                   *)
(***************************************************************************)
EXTENDS ChatFolders, Sequences

ABC == {"a", "b", "c"}
XYZ == {"X", "Y", "Z"}

Plain == {<<x>> : x \in ABC \cup XYZ \cup {"c in dms"}}
AllFolders == Plain \cup {F \o <<c>> : F \in Plain, c \in ABC}
Bare == [c \in ABC |-> <<c>>]
InDms == [c \in ABC |-> IF c = "c" THEN <<"c in dms">> ELSE <<c>>]
Same == [n \in XYZ |-> <<n>>]
WithPrefix == [F \in AllFolders |-> [c \in ABC |-> IF F \in Plain THEN F \o <<c>> ELSE F]]

AllEvents == {"old", "bare", "cY", "oldA", "bareA", "aX", "bX"}
ChatOf == [e \in AllEvents |->
    CASE e \in {"oldA", "bareA", "aX"} -> "a" [] e = "bX" -> "b" [] OTHER -> "c"]
NameOf == [e \in AllEvents |->
    CASE e \in {"aX", "bX"} -> "X" [] e = "cY" -> "Y" [] OTHER -> NoName]
Contacts == [s \in {"sheet", "torn"} |-> [c \in ABC |-> IF c = "c" THEN "Z" ELSE "X"]]

(* Two messages of b beside one of a, all with the same name.               *)
TwoNamesakes == {"aX", "bX", "bX2"}
NamesakeChat == [e \in TwoNamesakes |-> IF e = "aX" THEN "a" ELSE "b"]
NamesakeName == [e \in TwoNamesakes |-> "X"]
NoContacts == [s \in {} |-> [c \in ABC |-> NoName]]
=============================================================================

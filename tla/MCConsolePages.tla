--------------------------- MODULE MCConsolePages ---------------------------
(***************************************************************************)
(* An instance of ConsolePages for TLC.  In the log of "family" the        *)
(* messages 2 and 3 came after 6, and the last line is as long as three of *)
(* the others; message 8 has the msg_id of the message in "work".          *)
(***************************************************************************)
EXTENDS ConsolePages

TwoLogs == [c \in Chats |-> IF c = "family" THEN <<1, 4, 6, 2, 3, 8>> ELSE <<7>>]
ShortAndLong == [c \in Chats |-> IF c = "family" THEN <<1, 2, 3, 4, 5, 8>> ELSE <<1>>]
LocalIds == [m \in {1, 2, 3, 4, 6, 7, 8} |-> IF m = 7 THEN 8 ELSE m]
=============================================================================

---------------------------- MODULE MCSftpClient ----------------------------
(***************************************************************************)
(* An instance of SftpClient for TLC: an event with a picture, a file that *)
(* is streamed, and a read of the server's status.                         *)
(***************************************************************************)
EXTENDS SftpClient

PutsOf == [j \in Jobs |->
    CASE j = "photo" -> 2 [] j = "export" -> 1 [] j = "status" -> 0]
=============================================================================

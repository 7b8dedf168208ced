--------------------------- MODULE MCConsoleServer ---------------------------
(***************************************************************************)
(* Instances of ConsoleServer for TLC: two request threads and the status  *)
(* thread, two settings, a door that closes at two failures.               *)
(***************************************************************************)
EXTENDS ConsoleServer

TwoHandlers == {"h1", "h2"}
TwoSettings == {"url", "token"}
ThreeSaves == {[key |-> "url", on |-> TRUE], [key |-> "token", on |-> TRUE],
               [key |-> "token", on |-> FALSE]}
OneKindEach == {{"login"}, {"save"}, {"status"}, {"preview"}, {"voice"}}
=============================================================================

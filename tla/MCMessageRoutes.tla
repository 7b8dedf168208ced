--------------------------- MODULE MCMessageRoutes ---------------------------
(***************************************************************************)
(* Instances of MessageRoutes for TLC: messages of every type with what    *)
(* they may contain, in a chat that is recorded, and a text message of     *)
(* every sort under all settings.                                          *)
(***************************************************************************)
EXTENDS MessageRoutes

Recorded == [groups |-> {"this"}, dms |-> {"this"}, groupOut |-> FALSE, dmOut |-> FALSE,
             allGroups |-> FALSE, allDMs |-> FALSE, enabled |-> TRUE, officials |-> FALSE]

Contents(raw) ==
    CASE raw \in {10000, 10002} -> {{"words"} \cup s : s \in SUBSET {"revokemsg", "announcement"}}
      [] raw = 49 -> {{"words"} \cup s : s \in SUBSET {"prefix", "title", "attach", "packet", "movie"}}
      [] raw = 1 -> {{"words"}, {"words", "prefix"}, {"words", "attach"}}
      [] OTHER -> {{}, {"words", "prefix"}, {"words", "title"}}

Bodies(raw) ==
    CASE raw = 3 -> {".jpg"} [] raw = 34 -> {".aud"} [] raw = 43 -> {".mp4"}
      [] raw \in {49, 48} -> Suffixes [] OTHER -> {".bin"}

Sort(raw, content, group, mine, suffix, named, big) ==
    [raw |-> raw, content |-> content, group |-> group, mine |-> mine, chat |-> "person",
     squeezed |-> raw # 1, suffix |-> suffix, named |-> named, big |-> big, old |-> FALSE,
     at |-> FALSE, command |-> "none"]

(* A title may end as a document, as a voice, as nothing known.             *)
Routed == UNION {UNION {{Sort(raw, content, group, mine, suffix, named, big) :
                           group, mine \in BOOLEAN, suffix \in Bodies(raw),
                           named \in IF "title" \in content THEN {".pdf", ".wav", ".bin"} ELSE {".bin"},
                           big \in {raw = 43, FALSE}} :
                        content \in Contents(raw)} : raw \in RawTypes}

(* Officials and the system's chats are no groups.                          *)
Asked == {[Sort(1, {"words"}, group, mine, ".bin", ".bin", FALSE)
             EXCEPT !.chat = IF group THEN "person" ELSE chat,
                    !.old = old, !.at = at, !.command = command] :
            group, mine, old, at \in BOOLEAN, command \in {"none", "start", "indented"},
            chat \in {"person", "official", "system"}}

(* A hook that is switched off records no chat of any sort.                 *)
Switches == {c \in Settings : c.enabled \/ ~c.officials}

EveryCase == [msg : Routed, cfg : {Recorded}] \cup [msg : Asked, cfg : Switches]
=============================================================================

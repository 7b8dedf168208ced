---------------------------- MODULE MessageRoutes ----------------------------
(***************************************************************************)
(* One message and the routes it may take into the store, in any order and *)
(* as often as they are run: live from the phone's hook, in a history pack *)
(* of the phone (history_map.py), and from a backup (import_ais_dump.py,   *)
(* which wipes the store first).  Each route maps the message by code of   *)
(* its own; the store keeps one row and up to two lines, and the console   *)
(* shows one message.  The phone's selection of chats and the reply        *)
(* policy, which exists in Python and in Objective-C, are decided for the  *)
(* same message.                                                           *)
(*                                                                         *)
(* The content of a message is the set of marks that the routes look for   *)
(* in it.  A text is "words", "whole" (with the sender's id in front),     *)
(* "title", "name" (of the file), "empty", or a type t, which stands for   *)
(* the placeholder "[t]".  The steps of storing and of importing are       *)
(* InboxConsumer's and DumpImport's.                                       *)
(* Operators named Slip... are deliberate errors that no specification     *)
(* uses: they stand for the bugs that the properties below would catch.    *)
(***************************************************************************)
EXTENDS Naturals, Sequences

CONSTANTS
    Cases, \* the messages with the settings of the phone: [msg, cfg]
    NoRow

RawTypes  == {1, 3, 34, 43, 47, 48, 49, 10000, 10002}
Marks     == {"words", "prefix", "title", "revokemsg", "announcement", "attach", "packet", "movie"}
MsgTypes  == {"text", "image", "voice", "video", "emoji", "file", "redpacket",
              "revoke", "announcement", "raw"}
MediaTypes == {"image", "voice", "video", "emoji", "file"}
Suffixes  == {".jpg", ".aud", ".wav", ".amr", ".mp3", ".mp4", ".video", ".pdf", ".bin"}
Documents == {".pdf"}
Texts     == MsgTypes \cup {"words", "whole", "title", "name", "empty"}
MediaDirs == {"images", "voice", "video", "files"}

Messages == [raw : RawTypes, content : SUBSET Marks, group : BOOLEAN, mine : BOOLEAN,
             chat : {"person", "official", "system"}, \* gh_..., filehelper and its like
             squeezed : BOOLEAN, \* in a backup the content is compressed with a dictionary
             suffix : Suffixes,  \* of its body
             named : Suffixes,   \* of the name that its title, or its fileext, makes of the body
             big : BOOLEAN,      \* the body exceeds MAX_VIDEO_BYTES
             old : BOOLEAN,      \* sent before enabled_at
             at : BOOLEAN,       \* is_at_me
             command : {"none", "start", "indented"}] \* where the command prefix is

Settings == [groups : SUBSET {"this", "other"}, dms : SUBSET {"this", "other"},
             groupOut : BOOLEAN, dmOut : BOOLEAN, \* the chat is on the exclude list
             allGroups : BOOLEAN, allDMs : BOOLEAN,
             enabled : BOOLEAN, officials : BOOLEAN] \* the switches of the hook alone

(* An event, a line or a row; suffix is that of its file.                   *)
Events == [type : MsgTypes, text : Texts, sender : {"self", "member", "chat", "empty"},
           folder : MediaDirs \cup {"none"}, suffix : Suffixes \cup {"none"},
           note : {"none", "skip", "error"}]

ASSUME CasesAssumption ==
    /\ \A k \in Cases : k.msg \in Messages /\ k.cfg \in Settings
    /\ NoRow \notin Events

VARIABLES
    msg, cfg, \* the message and the settings
    row,      \* its row, or NoRow
    log,      \* its lines in the JSONL log
    hist,     \* what was uploaded to hist-media for it
    origin,   \* history: the route that made the row; "blank" when it had no content
    loose     \* history: media_path was set by attach_loose_hist_media

vars == <<msg, cfg, row, log, hist, origin, loose>>

TypeOK ==
    /\ msg \in Messages /\ cfg \in Settings
    /\ row \in Events \cup {NoRow}
    /\ log \in Seq(Events) /\ Len(log) <= 2
    /\ (row = NoRow <=> log = <<>>)
    /\ hist \subseteq {"thumb", "body"} /\ loose \in BOOLEAN
    /\ origin \in {"none", "live", "history", "backup", "blank"}

Init ==
    /\ \E k \in Cases : msg = k.msg /\ cfg = k.cfg
    /\ row = NoRow /\ log = <<>>
    /\ hist = {} /\ origin = "none" /\ loose = FALSE

-----------------------------------------------------------------------------
(* What the routes make of a message: history_map.py, also for the backup.  *)

Plain(raw) ==
    CASE raw = 1 -> "text" [] raw = 3 -> "image" [] raw = 34 -> "voice"
      [] raw = 43 -> "video" [] raw = 47 -> "emoji" [] OTHER -> "raw"

SysType(raw, content) ==
    IF "revokemsg" \in content THEN "revoke"
    ELSE IF "announcement" \in content THEN "announcement"
    ELSE IF raw = 10002 THEN "revoke" ELSE "announcement"

map_msg_type(raw, content) ==
    CASE raw \in {10000, 10002} -> SysType(raw, content)
      [] raw = 49 /\ "attach" \in content -> "file"
      [] raw = 49 /\ "packet" \in content /\ "attach" \notin content -> "redpacket"
      [] raw = 49 /\ "movie" \in content /\ content \cap {"attach", "packet"} = {} -> "video"
      [] OTHER -> Plain(raw)

Whole(content) == IF content = {} THEN "empty" ELSE IF "prefix" \in content THEN "whole" ELSE "words"
Body(content)  == IF content = {} THEN "empty" ELSE "words"
Titled(content) == IF "title" \in content THEN "title" ELSE "file"

(* The slip: the types with a placeholder are the ones with a body.         *)
SlipHistoryEvent(m) ==
    LET type == map_msg_type(m.raw, m.content)
        split == m.group /\ m.mine
    IN  [type |-> type,
         text |-> IF type = "file" THEN Titled(m.content)
                  ELSE IF type \in MediaTypes THEN type
                  ELSE IF split THEN Body(m.content) ELSE Whole(m.content),
         sender |-> IF ~m.mine THEN "self"
                    ELSE IF split /\ "prefix" \in m.content THEN "member" ELSE "chat",
         folder |-> "none", suffix |-> "none", note |-> "none"]

(* map_history_row.  The phone sends the column Des as it is, 0 for what it *)
(* sent itself; here 0 is taken for a message of somebody else.             *)
HistoryEvent(m) ==
    LET des == IF m.mine THEN 0 ELSE 1
        type == map_msg_type(m.raw, m.content)
        split == m.group /\ des = 0
    IN  [type |-> type,
         text |-> IF type = "file" THEN Titled(m.content)
                  ELSE IF type \in MediaTypes \cup {"redpacket"} THEN type
                  ELSE IF split THEN Body(m.content) ELSE Whole(m.content),
         sender |-> IF des # 0 THEN "self"
                    ELSE IF split /\ "prefix" \in m.content THEN "member" ELSE "chat",
         folder |-> "none", suffix |-> "none", note |-> "none"]

(* build_event, where 0 is oneself.  c is what was decoded of the content.  *)
DumpEvent(m, c) ==
    LET des == IF m.mine THEN 0 ELSE 1
        type == map_msg_type(m.raw, c)
        split == m.group /\ des # 0
        body == IF split THEN Body(c) ELSE Whole(c)
    IN  [type |-> type,
         text |-> CASE type = "text" -> body
                    [] type = "file" -> Titled(c)
                    [] type \in {"image", "voice", "video", "emoji", "redpacket"} -> type
                    [] OTHER -> IF body = "empty" THEN type ELSE body,
         sender |-> IF des = 0 THEN "self" ELSE IF ~m.group THEN "chat"
                    ELSE IF "prefix" \in c THEN "member" ELSE "empty",
         folder |-> "none", suffix |-> "none", note |-> "none"]

(* The hook's MapType, which looks for a red packet before a file, ...      *)
MapType(raw, content) ==
    CASE raw \in {10000, 10002} -> SysType(raw, content)
      [] raw = 49 /\ "packet" \in content -> "redpacket"
      [] raw = 49 /\ "attach" \in content /\ "packet" \notin content -> "file"
      [] raw = 49 /\ "movie" \in content /\ content \cap {"attach", "packet"} = {} -> "video"
      [] OTHER -> Plain(raw)

(* The slip: the title of a file stays where MapType saw no file.           *)
SlipLiveEvent(m, known, skip) ==
    LET mapped == MapType(m.raw, m.content)
        isFile == mapped = "file"
    IN  [type |-> mapped,
         text |-> IF isFile /\ "title" \in m.content THEN "title"
                  ELSE IF mapped \in MediaTypes \cup {"redpacket"} THEN mapped
                  ELSE Whole(m.content),
         sender |-> IF m.mine THEN "self" ELSE IF m.group /\ known THEN "member" ELSE "chat",
         folder |-> "none", suffix |-> "none",
         note |-> IF skip /\ mapped \in MediaTypes \ {"emoji"} THEN "skip" ELSE "none"]

(* ... and HandleMessageWrapImpl, which makes a file of whatever has the    *)
(* marks of one.                                                            *)
LiveEvent(m, known, skip) ==
    LET mapped == MapType(m.raw, m.content)
        isFile == mapped = "file" \/ "attach" \in m.content
        type == IF isFile THEN "file" ELSE mapped
    IN  [type |-> type,
         text |-> IF isFile /\ "title" \in m.content THEN "title"
                  ELSE IF mapped \in MediaTypes \cup {"redpacket"} THEN mapped
                  ELSE Whole(m.content),
         sender |-> IF m.mine THEN "self" ELSE IF m.group /\ known THEN "member" ELSE "chat",
         folder |-> "none", suffix |-> "none",
         note |-> IF skip /\ type \in MediaTypes \ {"emoji"} THEN "skip" ELSE "none"]

-----------------------------------------------------------------------------
(* The store: media.py and _persist_event.                                  *)

media_folder(type, suffix) ==
    CASE type = "voice" -> "voice" [] type = "video" -> "video"
      [] type \in {"image", "emoji"} -> "images" [] type = "file" -> "files"
      [] OTHER -> CASE suffix = ".jpg" -> "images"
                    [] suffix \in {".aud", ".wav", ".amr"} -> "voice"
                    [] suffix \in {".mp4", ".video"} -> "video"
                    [] OTHER -> "files"

media_text(type, text) == IF text = "empty" /\ type \in MediaTypes THEN type ELSE text

CopyBody(type, has) == has /\ ~(type = "video" /\ msg.big)

(* The slip: the store adds no reason of its own.                           *)
SlipNoted(ev, has) == ev.note

(* merge_media_error, unless the phone gave its own reason.                 *)
Noted(ev, has) ==
    IF ev.note # "skip" /\ ~CopyBody(ev.type, has) /\ (has \/ ev.type \in MediaTypes)
      THEN "error" ELSE ev.note

Stored(ev, has) ==
    [ev EXCEPT !.text = media_text(ev.type, ev.text),
               !.folder = IF CopyBody(ev.type, has) THEN media_folder(ev.type, msg.suffix) ELSE "none",
               !.suffix = IF CopyBody(ev.type, has) THEN msg.suffix ELSE "none",
               !.note = Noted(ev, has)]

(* INSERT_SQL: the first row stays, but for a body that it had not.         *)
Upsert(old, ev) ==
    IF old = NoRow THEN ev
    ELSE IF old.folder = "none" /\ ev.folder # "none"
      THEN [old EXCEPT !.text = ev.text, !.folder = ev.folder, !.suffix = ev.suffix, !.note = ev.note]
    ELSE old

Persist(ev, route) ==
    /\ row' = Upsert(row, ev)
    /\ log' = IF row = NoRow \/ (row.folder = "none" /\ ev.folder # "none") THEN Append(log, ev) ELSE log
    /\ origin' = IF row = NoRow THEN route ELSE origin

-----------------------------------------------------------------------------
(* The policy: which chats are recorded, and what is answered.              *)

(* decide of ingest_policy.py.                                              *)
Selected(m, c) ==
    IF m.group THEN ~c.groupOut /\ (c.allGroups \/ "this" \in c.groups)
               ELSE ~c.dmOut /\ (c.allDMs \/ "this" \in c.dms)
decide_ingest(m, c) == ~m.old /\ Selected(m, c)

(* The slip: a reply needs no sender.                                       *)
SlipReply(m, c) == decide_ingest(m, c) /\ m.group /\ (m.at \/ m.command # "none")

Reply(m, c) == decide_ingest(m, c) /\ m.group /\ ~m.mine /\ (m.at \/ m.command # "none")

(* canSendReply, the gate before every send.                                *)
canSendReply(m, c) == ~m.mine /\ m.group /\ (c.groups # {} \/ c.dms # {})

(* WeChatIngestShouldSkipChat: chats that the hook never records.           *)
ShouldSkipChat(m, c) == m.chat = "system" \/ (m.chat = "official" /\ ~c.officials)

(* The hook's selection (HandleMessageWrapImpl) ...                         *)
PhoneTakes(m, c) ==
    /\ c.enabled
    /\ ~ShouldSkipChat(m, c)
    /\ IF m.group THEN IF c.groupOut THEN FALSE ELSE c.allGroups \/ "this" \in c.groups
                  ELSE IF c.dmOut THEN FALSE ELSE c.allDMs \/ "this" \in c.dms

(* ... and WeChatIngestReplyDecision, which knows the whitelists alone and  *)
(* wants the command at the very start.                                     *)
PhoneReplies(m, c) ==
    /\ ~m.old
    /\ "this" \in c.groups /\ m.group
    /\ ~m.mine
    /\ m.at \/ m.command = "start"

-----------------------------------------------------------------------------
(* The routes.                                                              *)

(* A live event, with its body, without it and its reason, or without it    *)
(* after the put of the body failed.  Emoji go without; one that is taken   *)
(* twice (the seen table overflows) goes twice.                             *)
Live(known, fate) ==
    LET skip == fate = "skip"
        ev == LiveEvent(msg, known, skip)
        has == fate = "body" /\ ev.type \in MediaTypes \ {"emoji"}
    IN  /\ PhoneTakes(msg, cfg)
        /\ Persist(Stored(ev, has), "live")
        /\ UNCHANGED <<msg, cfg, hist, loose>>

(* The phone uploads the thumbnail or the body of a history pack.           *)
PutHistMedia(file) ==
    /\ hist' = hist \cup {file}
    /\ UNCHANGED <<msg, cfg, row, log, origin, loose>>

(* A thumbnail is not taken for the body.                                   *)
find_hist_media == "body" \in hist

(* _ingest_history_rows: the body is taken when it is there.                *)
History ==
    /\ Persist(Stored(HistoryEvent(msg), find_hist_media), "history")
    /\ UNCHANGED <<msg, cfg, hist, loose>>

(* attach_loose_hist_media: media_path and nothing else.                    *)
Attach ==
    /\ find_hist_media
    /\ row # NoRow /\ row.folder = "none" /\ row.type \in MediaTypes
    /\ row' = [row EXCEPT !.folder = media_folder(row.type, msg.suffix), !.suffix = msg.suffix]
    /\ loose' = TRUE
    /\ UNCHANGED <<msg, cfg, log, hist, origin>>

(* wipe_imported.                                                           *)
Wipe ==
    /\ row' = NoRow /\ log' = <<>>
    /\ hist' = {} /\ origin' = "none" /\ loose' = FALSE
    /\ UNCHANGED <<msg, cfg>>

(* What import_dump makes of an event whose file is in the backup: the file *)
(* is named after the title where build_event kept one, and a name of a     *)
(* document makes a file of a message of any type.                          *)
Placed(ev, c) ==
    LET titled == "title" \in c /\ ev.type \in {"file", "raw", "emoji", "redpacket"}
        suffix == IF titled THEN msg.named ELSE msg.suffix
        doc  == suffix \in Documents
        type == IF doc THEN "file" ELSE ev.type
        text == IF doc /\ ev.text \in {"empty", "raw", "file"}
                  THEN IF titled THEN "title" ELSE "name" ELSE ev.text
    IN  [ev EXCEPT !.type = type, !.text = media_text(type, text),
                   !.folder = media_folder(type, suffix), !.suffix = suffix]

(* An import that wipes the store, with the zstd dictionary or without.     *)
Restore(dict, has) ==
    LET c  == IF msg.squeezed /\ ~dict THEN {} ELSE msg.content
        ev == IF has THEN Placed(DumpEvent(msg, c), c) ELSE DumpEvent(msg, c)
    IN  /\ row' = ev /\ log' = <<ev>>
        /\ hist' = {} /\ loose' = FALSE
        /\ origin' = IF c = msg.content THEN "backup" ELSE "blank"
        /\ UNCHANGED <<msg, cfg>>

Next ==
    \/ \E known \in BOOLEAN, fate \in {"body", "skip", "bare"} : Live(known, fate)
    \/ \E file \in {"thumb", "body"} : PutHistMedia(file)
    \/ History \/ Attach \/ Wipe
    \/ \E dict, has \in BOOLEAN : Restore(dict, has)

Spec == Init /\ [][Next]_vars
-----------------------------------------------------------------------------
(* The console: _events_from_text and polish_message.                       *)

Picked == IF Len(log) = 2 /\ log[2].folder # "none" /\ log[1].folder = "none" THEN log[2] ELSE log[1]

(* The slip: only what has no file is a card.                               *)
SlipClassify(ev) ==
    CASE ev.type # "raw" -> ev
      [] ev.type = "raw" /\ ev.folder # "none" -> [ev EXCEPT !.type = "file", !.text = "name"]
      [] OTHER -> [ev EXCEPT !.text = "name"]

(* classify_raw; the label of a card is a name here.                        *)
Classify(ev) ==
    LET stub == ev.type = "raw" \/ ev.text = "raw"
        as(type) == [ev EXCEPT !.type = type,
                               !.text = IF ev.text \in {"raw", "file", "empty"} THEN type ELSE ev.text]
    IN  CASE ~stub -> ev
          [] stub /\ ev.folder = "none" -> [ev EXCEPT !.type = "raw", !.text = "name"]
          [] stub /\ ev.folder # "none" /\ ev.suffix \in {".mp3", ".wav", ".aud"} -> as("voice")
          [] stub /\ ev.folder # "none" /\ ev.suffix = ".mp4" -> as("video")
          [] OTHER -> [ev EXCEPT !.type = "file", !.text = "name"]

Polished(ev) ==
    Classify(IF ev.text = "whole" THEN [ev EXCEPT !.text = "words", !.sender = "member"] ELSE ev)

Shown == Polished(Picked)

-----------------------------------------------------------------------------
(* Properties.                                                              *)

(* A message that only quotes the marks of a file is one to the hook alone. *)
Quoting == "attach" \in msg.content /\ msg.raw # 49

(* What the content says the type is.                                       *)
Own == map_msg_type(msg.raw, msg.content)

(* A backup named the body of the message as a document.                    *)
AsDocument == origin \in {"backup", "blank"} /\ row.type = "file" /\ row.suffix \in Documents

(* Whichever route is first and whatever comes after it, the row has the    *)
(* type that the content says, and what oneself sent is one's own and       *)
(* nothing else is.  But a backup makes a file of what its title, or its    *)
(* body, calls a document; one without the content has lost the type of app *)
(* and system messages; and a history pack that is first may have the       *)
(* sender the wrong way round.                                              *)
RoutesAgree ==
    row # NoRow =>
        /\ ~Quoting /\ ~(origin = "blank" /\ msg.raw \in {49, 10000, 10002})
             => row.type = Own \/ AsDocument
        /\ origin # "history" => (row.sender = "self" <=> msg.mine)

(* The text of a row belongs to the type that the content says: a body or a *)
(* red packet has its placeholder, or a file's title or name, and no other  *)
(* has a placeholder but its own; also after a later route replaced the     *)
(* text, and in the row of a card that a backup made a file.                *)
TextFits ==
    row # NoRow /\ ~Quoting /\ ~({"attach", "packet"} \subseteq msg.content)
                /\ ~(origin = "blank" /\ row.type # Own) =>
        /\ Own \in MediaTypes \cup {"redpacket"} => row.text \in {Own, "title", "name"}
        /\ row.text \in MsgTypes => row.text = Own

(* A media row without a body says why, and one with a body does not, but   *)
(* for rows of a backup and for files that were attached later.             *)
BareIsNoted ==
    row # NoRow =>
        /\ row.type \in MediaTypes /\ row.folder = "none" /\ origin \in {"live", "history"} => row.note # "none"
        /\ row.folder # "none" /\ ~loose => row.note = "none"

(* The console shows the body that the row has, unless it was attached      *)
(* later, plays what is stored with the voices and the films, and never     *)
(* shows the literal "[raw]".                                               *)
ShownAsStored ==
    row # NoRow =>
        /\ ~loose => Shown.folder = row.folder
        /\ Shown.text # "raw"
        /\ Shown.type = "raw" => Shown.folder = "none"
        /\ Picked.type = "raw" /\ Shown.folder = "voice" /\ Picked.suffix # ".amr" => Shown.type = "voice"
        /\ Picked.type = "raw" /\ Shown.folder = "video" /\ Picked.suffix # ".video" => Shown.type = "video"

(* The phone records nothing that the Python policy would not, and what the *)
(* phone leaves out of it is in a chat that the hook never records, or came *)
(* while it was switched off; nobody answers in a private chat, oneself, or *)
(* in a chat that is not recorded; what either answers in a whitelisted     *)
(* group passes the gate; and both answer alike where the settings are      *)
(* whitelists only and the command is not indented.                         *)
TwinsAgree ==
    /\ ~msg.old /\ PhoneTakes(msg, cfg) => decide_ingest(msg, cfg)
    /\ decide_ingest(msg, cfg) /\ ~PhoneTakes(msg, cfg)
         => ~cfg.enabled \/ msg.chat = "system" \/ (msg.chat = "official" /\ ~cfg.officials)
    /\ Reply(msg, cfg) => decide_ingest(msg, cfg) /\ msg.group /\ ~msg.mine
    /\ PhoneReplies(msg, cfg) \/ (Reply(msg, cfg) /\ "this" \in cfg.groups) => canSendReply(msg, cfg)
    /\ ~cfg.groupOut /\ ~cfg.allGroups /\ msg.command # "indented"
         => (PhoneReplies(msg, cfg) <=> Reply(msg, cfg))
=============================================================================

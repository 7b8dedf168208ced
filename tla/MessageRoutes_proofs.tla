------------------------ MODULE MessageRoutes_proofs ------------------------
(***************************************************************************)
(* Theorems about MessageRoutes for any messages and settings.             *)
(***************************************************************************)
EXTENDS MessageRoutes, SequenceTheorems, TLAPS

Senders == {"self", "member", "chat", "empty"}
Folders == MediaDirs \cup {"none"}
Notes   == {"none", "skip", "error"}
Endings == Suffixes \cup {"none"}

LEMMA Strings ==
    /\ MediaTypes \cup {"redpacket", "raw", "text", "revoke", "announcement"} = MsgTypes
    /\ MsgTypes \subseteq Texts
    /\ "words" \in Texts /\ "whole" \in Texts /\ "title" \in Texts
    /\ "name" \in Texts /\ "empty" \in Texts
    /\ "none" \notin MediaDirs /\ "none" \notin Suffixes
  BY DEF MediaTypes, MsgTypes, Texts, MediaDirs, Suffixes

LEMMA SeqFacts ==
    ASSUME NEW S, NEW s \in Seq(S)
    PROVE  /\ <<>> \in Seq(S) /\ Len(<<>>) = 0
           /\ Len(s) \in Nat /\ (s # <<>> => Len(s) >= 1)
           /\ \A x \in S : /\ Append(s, x) \in Seq(S) /\ Append(s, x) # <<>>
                          /\ Len(Append(s, x)) = Len(s) + 1 /\ Append(s, x)[Len(s) + 1] = x
                          /\ \A i \in 1 .. Len(s) : Append(s, x)[i] = s[i]
  BY EmptySeq, LenProperties, AppendProperties

(* A record with such fields is an event, and an event is not NoRow.        *)
LEMMA EventIntro ==
    ASSUME NEW type \in MsgTypes, NEW text \in Texts, NEW sender \in Senders,
           NEW folder \in Folders, NEW suffix \in Endings, NEW note \in Notes
    PROVE  [type |-> type, text |-> text, sender |-> sender, folder |-> folder,
            suffix |-> suffix, note |-> note] \in Events
  BY DEF Events, Senders, Folders, Endings, Notes

LEMMA EventFields ==
    ASSUME NEW ev \in Events
    PROVE  /\ ev.type \in MsgTypes /\ ev.text \in Texts /\ ev.sender \in Senders
           /\ ev.folder \in Folders /\ ev.suffix \in Endings /\ ev.note \in Notes /\ ev # NoRow
  BY CasesAssumption DEF Events, Senders, Folders, Endings, Notes

(* A text that belongs to a type.                                           *)
Fits(text, type) ==
    /\ type \in MediaTypes \cup {"redpacket"} => text \in {type, "title", "name"}
    /\ text \in MsgTypes => text = type

Said == {"words", "whole", "empty"}

LEMMA SaidIsNoType == Said \cap MsgTypes = {} /\ {"title", "name"} \cap MsgTypes = {}
  BY DEF Said, MsgTypes

LEMMA MessageFields ==
    ASSUME NEW m \in Messages
    PROVE  /\ m.raw \in RawTypes /\ m.content \in SUBSET Marks /\ m.suffix \in Suffixes
           /\ m.named \in Suffixes
           /\ m.group \in BOOLEAN /\ m.mine \in BOOLEAN /\ m.squeezed \in BOOLEAN
           /\ m.big \in BOOLEAN /\ m.old \in BOOLEAN /\ m.at \in BOOLEAN
           /\ m.command \in {"none", "start", "indented"}
  BY DEF Messages

-----------------------------------------------------------------------------
(* The mappings.                                                            *)

LEMMA PlainTypes ==
    ASSUME NEW raw \in RawTypes
    PROVE  Plain(raw) \in {"text", "image", "voice", "video", "emoji", "raw"}
  BY DEF Plain, RawTypes

LEMMA SysTypes ==
    ASSUME NEW raw, NEW content
    PROVE  SysType(raw, content) \in {"revoke", "announcement"}
  BY DEF SysType

LEMMA SystemType ==
    ASSUME NEW raw \in {10000, 10002}, NEW content
    PROVE  map_msg_type(raw, content) \notin MediaTypes
  BY SysTypes DEF map_msg_type, MediaTypes

LEMMA Mapped ==
    ASSUME NEW raw \in RawTypes, NEW content \in SUBSET Marks
    PROVE  map_msg_type(raw, content) \in MsgTypes /\ MapType(raw, content) \in MsgTypes
<1>1. Plain(raw) \in MsgTypes /\ SysType(raw, content) \in MsgTypes
  BY PlainTypes, SysTypes DEF MsgTypes
<1>2. "file" \in MsgTypes /\ "redpacket" \in MsgTypes /\ "video" \in MsgTypes
  BY DEF MsgTypes
<1>3. QED
  BY <1>1, <1>2 DEF map_msg_type, MapType

(* The hook, with its second look for a file, says what history_map.py says *)
(* of every message that does not merely quote the marks of a file.         *)
LEMMA HookAgrees ==
    ASSUME NEW raw \in RawTypes, NEW content \in SUBSET Marks,
           "attach" \in content => raw = 49
    PROVE  (IF MapType(raw, content) = "file" \/ "attach" \in content
              THEN "file" ELSE MapType(raw, content)) = map_msg_type(raw, content)
<1>1. CASE "attach" \in content
  <2>1. raw = 49
    BY <1>1
  <2>2. map_msg_type(raw, content) = "file"
    BY <1>1, <2>1 DEF map_msg_type
  <2>3. QED
    BY <1>1, <2>2
<1>2. CASE "attach" \notin content
  <2>1. map_msg_type(raw, content) = MapType(raw, content)
    <3>1. CASE raw \in {10000, 10002}
      BY <1>2, <3>1 DEF map_msg_type, MapType
    <3>2. CASE raw = 49
      BY <1>2, <3>2 DEF map_msg_type, MapType
    <3>3. CASE raw \notin {49, 10000, 10002}
      BY <1>2, <3>3 DEF map_msg_type, MapType
    <3>4. QED
      BY <3>1, <3>2, <3>3
  <2>2. QED
    BY <1>2, <2>1
<1>3. QED
  BY <1>1, <1>2

(* An event is what its fields say.                                         *)
LEMMA Assembled ==
    ASSUME NEW ev, ev = [type |-> ev.type, text |-> ev.text, sender |-> ev.sender,
                         folder |-> ev.folder, suffix |-> ev.suffix, note |-> ev.note],
           ev.type \in MsgTypes, ev.text \in Texts, ev.sender \in Senders,
           ev.folder \in Folders, ev.suffix \in Endings, ev.note \in Notes
    PROVE  ev \in Events
<1> DEFINE a == ev.type  b == ev.text  c == ev.sender  e == ev.folder  x == ev.suffix  n == ev.note
<1> HIDE DEF a, b, c, e, x, n
<1>1. [type |-> a, text |-> b, sender |-> c, folder |-> e, suffix |-> x, note |-> n] \in Events
  BY EventIntro DEF a, b, c, e, x, n
<1>2. QED
  BY <1>1 DEF a, b, c, e, x, n

LEMMA LiveFields ==
    ASSUME NEW m \in Messages, NEW known \in BOOLEAN, NEW skip \in BOOLEAN
    PROVE  /\ LiveEvent(m, known, skip) \in Events
           /\ LiveEvent(m, known, skip).folder = "none" /\ LiveEvent(m, known, skip).suffix = "none"
           /\ LiveEvent(m, known, skip).note \in {"none", "skip"}
           /\ ~skip => LiveEvent(m, known, skip).note = "none"
           /\ LiveEvent(m, known, skip).sender = "self" <=> m.mine
           /\ ("attach" \in m.content => m.raw = 49)
                => LiveEvent(m, known, skip).type = map_msg_type(m.raw, m.content)
           /\ ("attach" \in m.content => m.raw = 49) /\ ~({"attach", "packet"} \subseteq m.content)
                => Fits(LiveEvent(m, known, skip).text, LiveEvent(m, known, skip).type)
<1> DEFINE ev == LiveEvent(m, known, skip)
           mapped == MapType(m.raw, m.content)
           isFile == mapped = "file" \/ "attach" \in m.content
<1>1. m.raw \in RawTypes /\ m.content \in SUBSET Marks /\ mapped \in MsgTypes
  BY MessageFields, Mapped
<1>2. /\ ev.type = IF isFile THEN "file" ELSE mapped
      /\ ev.text = IF isFile /\ "title" \in m.content THEN "title"
                   ELSE IF mapped \in MediaTypes \cup {"redpacket"} THEN mapped
                   ELSE Whole(m.content)
      /\ ev.sender = IF m.mine THEN "self" ELSE IF m.group /\ known THEN "member" ELSE "chat"
      /\ ev.folder = "none" /\ ev.suffix = "none"
      /\ ev.note = IF skip /\ ev.type \in MediaTypes \ {"emoji"} THEN "skip" ELSE "none"
  BY DEF LiveEvent
<1>3. ev = [type |-> ev.type, text |-> ev.text, sender |-> ev.sender, folder |-> ev.folder,
            suffix |-> ev.suffix, note |-> ev.note]
  BY DEF LiveEvent
<1> HIDE DEF ev, mapped, isFile
<1>4. ev.type \in MsgTypes
  BY <1>1, <1>2 DEF MsgTypes
<1>5. ev.text \in Texts
  BY <1>1, <1>2, Strings DEF Whole
<1>6. ev.sender \in Senders /\ ev.folder \in Folders /\ ev.suffix \in Endings /\ ev.note \in Notes
  BY <1>2 DEF Senders, Folders, Endings, Notes
<1>7. ev \in Events
  BY <1>3, <1>4, <1>5, <1>6, Assembled
<1>8. ("attach" \in m.content => m.raw = 49) => ev.type = map_msg_type(m.raw, m.content)
  BY <1>1, <1>2, HookAgrees DEF isFile, mapped
<1>9. ASSUME "attach" \in m.content => m.raw = 49, ~({"attach", "packet"} \subseteq m.content)
      PROVE  Fits(ev.text, ev.type)
  <2>1. ev.type = mapped
    <3>1. CASE "attach" \in m.content
      BY <1>2, <1>9, <3>1 DEF isFile, mapped, MapType
    <3>2. CASE "attach" \notin m.content
      BY <1>2, <3>2 DEF isFile
    <3>3. QED
      BY <3>1, <3>2
  <2>2. ev.text \in {"title", mapped} \cup Said
    BY <1>2 DEF Whole, Said
  <2>3. mapped \in MediaTypes \cup {"redpacket"} => ev.text \in {"title", mapped}
    BY <1>2
  <2>4. QED
    BY <2>1, <2>2, <2>3, SaidIsNoType DEF Fits
<1>10. QED
  BY <1>2, <1>7, <1>8, <1>9 DEF ev

LEMMA HistoryFields ==
    ASSUME NEW m \in Messages
    PROVE  /\ HistoryEvent(m) \in Events
           /\ HistoryEvent(m).folder = "none" /\ HistoryEvent(m).suffix = "none"
           /\ HistoryEvent(m).note = "none"
           /\ HistoryEvent(m).type = map_msg_type(m.raw, m.content)
           /\ Fits(HistoryEvent(m).text, HistoryEvent(m).type)
<1> DEFINE ev == HistoryEvent(m)
           type == map_msg_type(m.raw, m.content)
           split == m.group /\ m.mine
<1>1. type \in MsgTypes
  BY MessageFields, Mapped
<1>2. /\ ev.type = type
      /\ ev.text \in {"title", "file", type, "words", "whole", "empty"}
      /\ ev.sender \in {"self", "member", "chat"}
      /\ ev.folder = "none" /\ ev.suffix = "none" /\ ev.note = "none"
      /\ ev = [type |-> ev.type, text |-> ev.text, sender |-> ev.sender,
               folder |-> ev.folder, suffix |-> ev.suffix, note |-> ev.note]
  BY DEF HistoryEvent, Titled, Body, Whole
<1>a. /\ type = "file" => ev.text \in {"title", "file"}
      /\ type \in MediaTypes \cup {"redpacket"} /\ type # "file" => ev.text = type
      /\ type \notin MediaTypes \cup {"redpacket"} => ev.text \in Said
  BY DEF HistoryEvent, Titled, Body, Whole, Said, MediaTypes
<1> HIDE DEF ev, type
<1>c. Fits(ev.text, ev.type)
  BY <1>2, <1>a, SaidIsNoType DEF Fits
<1>3. ev.text \in Texts /\ ev.sender \in Senders /\ ev.folder \in Folders
      /\ ev.suffix \in Endings /\ ev.note \in Notes
  BY <1>1, <1>2, Strings DEF Senders, Folders, Endings, Notes, MsgTypes
<1>4. ev \in Events
  BY <1>1, <1>2, <1>3, Assembled
<1>5. QED
  BY <1>2, <1>4, <1>c DEF ev, type

LEMMA DumpFields ==
    ASSUME NEW m \in Messages, NEW c \in SUBSET Marks
    PROVE  /\ DumpEvent(m, c) \in Events
           /\ DumpEvent(m, c).folder = "none" /\ DumpEvent(m, c).suffix = "none"
           /\ DumpEvent(m, c).note = "none"
           /\ DumpEvent(m, c).type = map_msg_type(m.raw, c)
           /\ DumpEvent(m, c).sender = "self" <=> m.mine
           /\ Fits(DumpEvent(m, c).text, DumpEvent(m, c).type)
           /\ m.raw = 49 /\ c = {} => DumpEvent(m, c).text = "raw"
<1> DEFINE ev == DumpEvent(m, c)
           type == map_msg_type(m.raw, c)
           body == IF m.group /\ ~m.mine THEN Body(c) ELSE Whole(c)
<1>1. type \in MsgTypes
  BY MessageFields, Mapped
<1>2. /\ ev.type = type
      /\ ev.text \in {"title", "file", type, "words", "whole", "empty"}
      /\ ev.folder = "none" /\ ev.suffix = "none" /\ ev.note = "none"
      /\ ev = [type |-> ev.type, text |-> ev.text, sender |-> ev.sender,
               folder |-> ev.folder, suffix |-> ev.suffix, note |-> ev.note]
  BY DEF DumpEvent, Titled, Body, Whole
<1>3. ev.sender \in Senders /\ (ev.sender = "self" <=> m.mine)
  BY DEF DumpEvent, Senders
<1>a. body \in Said
  BY DEF Body, Whole, Said
<1>b. /\ type = "text" => ev.text \in Said
      /\ type = "file" => ev.text \in {"title", "file"}
      /\ type \in {"image", "voice", "video", "emoji", "redpacket"} => ev.text = type
      /\ type \notin {"text", "file", "image", "voice", "video", "emoji", "redpacket"} => ev.text \in Said \cup {type}
  <2> HIDE DEF type
  <2>1. ev.text = CASE type = "text" -> body
                    [] type = "file" -> Titled(c)
                    [] type \in {"image", "voice", "video", "emoji", "redpacket"} -> type
                    [] OTHER -> IF body = "empty" THEN type ELSE body
    BY DEF DumpEvent, type
  <2> HIDE DEF body, ev
  <2>2. QED
    BY <1>a, <2>1 DEF Titled
<1>d. ASSUME m.raw = 49, c = {}
      PROVE  ev.text = "raw"
  <2>1. type = "raw" /\ body = "empty"
    BY <1>d DEF map_msg_type, Plain, Body, Whole
  <2>2. QED
    BY <2>1 DEF DumpEvent
<1> HIDE DEF ev, type
<1>c. Fits(ev.text, ev.type)
  BY <1>1, <1>2, <1>b, SaidIsNoType DEF Fits, MediaTypes
<1>4. ev.text \in Texts /\ ev.folder \in Folders /\ ev.suffix \in Endings /\ ev.note \in Notes
  BY <1>1, <1>2, Strings DEF Folders, Endings, Notes, MsgTypes
<1>5. ev \in Events
  BY <1>1, <1>2, <1>3, <1>4, Assembled
<1>6. QED
  BY <1>2, <1>3, <1>5, <1>c, <1>d DEF ev, type

-----------------------------------------------------------------------------
(* The store.                                                               *)

LEMMA FolderOf ==
    ASSUME NEW type, NEW suffix
    PROVE  media_folder(type, suffix) \in MediaDirs
<1>1. CASE type \in {"voice", "video", "image", "emoji", "file"}
  BY <1>1 DEF media_folder, MediaDirs
<1>2. CASE type \notin {"voice", "video", "image", "emoji", "file"}
  <2>1. "voice" \in MediaDirs /\ "video" \in MediaDirs /\ "images" \in MediaDirs /\ "files" \in MediaDirs
    BY DEF MediaDirs
  <2>2. QED
    BY <1>2, <2>1 DEF media_folder
<1>3. QED
  BY <1>1, <1>2

(* What is stored of an event that came without a folder.                   *)
LEMMA StoredFields ==
    ASSUME NEW ev \in Events, ev.folder = "none", NEW has \in BOOLEAN, msg \in Messages
    PROVE  /\ Stored(ev, has) \in Events
           /\ Stored(ev, has).type = ev.type /\ Stored(ev, has).sender = ev.sender
           /\ Stored(ev, has).folder = "none" <=> ~CopyBody(ev.type, has)
           /\ Stored(ev, has).folder = "none" <=> Stored(ev, has).suffix = "none"
           /\ ev.type \in MediaTypes /\ ~CopyBody(ev.type, has) => Stored(ev, has).note # "none"
           /\ CopyBody(ev.type, has) => Stored(ev, has).note = ev.note
           /\ Stored(ev, has).folder # "none" =>
                 Stored(ev, has).folder = media_folder(ev.type, Stored(ev, has).suffix)
           /\ Fits(ev.text, ev.type) => Fits(Stored(ev, has).text, ev.type)
<1> DEFINE st == Stored(ev, has)
           copy == CopyBody(ev.type, has)
           folder == IF copy THEN media_folder(ev.type, msg.suffix) ELSE "none"
           suffix == IF copy THEN msg.suffix ELSE "none"
           text == media_text(ev.type, ev.text)
           note == Noted(ev, has)
<1>1. /\ ev.type \in MsgTypes /\ ev.text \in Texts /\ ev.sender \in Senders
      /\ ev.note \in Notes
  BY EventFields
<1>2. text \in Texts
  BY <1>1, Strings DEF media_text
<1>3. /\ folder \in Folders /\ (folder = "none" <=> ~copy)
      /\ suffix \in Endings /\ (suffix = "none" <=> ~copy)
  BY FolderOf, Strings, MessageFields DEF Folders, Endings
<1>4. /\ note \in Notes
      /\ ev.type \in MediaTypes /\ ~copy => note # "none"
      /\ copy => note = ev.note
  BY <1>1 DEF Noted, Notes
<1>a. text \in {ev.text, ev.type}
  BY DEF media_text
<1>b. folder # "none" => folder = media_folder(ev.type, suffix)
  BY <1>3
<1>5. st = [ev EXCEPT !.text = text, !.folder = folder, !.suffix = suffix, !.note = note]
  BY Zenon DEF Stored
<1> HIDE DEF st, copy, folder, suffix, text, note
<1>6. /\ st \in Events
      /\ st.type = ev.type /\ st.sender = ev.sender
      /\ st.text = text /\ st.folder = folder /\ st.suffix = suffix /\ st.note = note
  BY <1>1, <1>2, <1>3, <1>4, <1>5 DEF Events, Folders, Endings, Notes
<1>7. Fits(ev.text, ev.type) => Fits(st.text, ev.type)
  BY <1>6, <1>a DEF Fits
<1>8. QED
  BY <1>3, <1>4, <1>6, <1>7, <1>a, <1>b DEF st, copy

(* The row that an event leaves behind.                                     *)
LEMMA UpsertFields ==
    ASSUME NEW old \in Events \cup {NoRow}, NEW ev \in Events
    PROVE  /\ Upsert(old, ev) \in Events
           /\ old = NoRow => Upsert(old, ev) = ev
           /\ old # NoRow /\ (old.folder # "none" \/ ev.folder = "none") => Upsert(old, ev) = old
           /\ old # NoRow /\ old.folder = "none" /\ ev.folder # "none" =>
                /\ Upsert(old, ev).type = old.type /\ Upsert(old, ev).sender = old.sender
                /\ Upsert(old, ev).folder = ev.folder /\ Upsert(old, ev).suffix = ev.suffix
                /\ Upsert(old, ev).note = ev.note /\ Upsert(old, ev).text = ev.text
<1>1. CASE old = NoRow
  BY <1>1 DEF Upsert
<1>2. CASE old # NoRow /\ old.folder = "none" /\ ev.folder # "none"
  <2>1. Upsert(old, ev) = [old EXCEPT !.text = ev.text, !.folder = ev.folder,
                                    !.suffix = ev.suffix, !.note = ev.note]
    BY <1>2 DEF Upsert
  <2>2. /\ old \in Events /\ ev.text \in Texts /\ ev.folder \in Folders
        /\ ev.suffix \in Endings /\ ev.note \in Notes
    BY <1>2, EventFields
  <2>3. /\ Upsert(old, ev) \in Events
        /\ Upsert(old, ev).type = old.type /\ Upsert(old, ev).sender = old.sender
        /\ Upsert(old, ev).folder = ev.folder /\ Upsert(old, ev).suffix = ev.suffix
        /\ Upsert(old, ev).note = ev.note /\ Upsert(old, ev).text = ev.text
    <3> DEFINE new == Upsert(old, ev)
    <3>1. new = [old EXCEPT !.text = ev.text, !.folder = ev.folder,
                                    !.suffix = ev.suffix, !.note = ev.note]
      BY <2>1
    <3> HIDE DEF new
    <3>2. /\ new \in Events /\ new.type = old.type /\ new.sender = old.sender
          /\ new.folder = ev.folder /\ new.suffix = ev.suffix
          /\ new.note = ev.note /\ new.text = ev.text
      BY <1>2, <2>2, <3>1 DEF Events, Folders, Endings, Notes
    <3>3. QED
      BY <3>2 DEF new
  <2>4. QED
    BY <1>2, <2>3
<1>3. CASE old # NoRow /\ (old.folder # "none" \/ ev.folder = "none")
  BY <1>3 DEF Upsert
<1>4. QED
  BY <1>1, <1>2, <1>3

(* What an import makes of an event: only a document changes its type, and  *)
(* a text that is replaced is replaced by a title or a name.                *)
LEMMA PlacedFields ==
    ASSUME NEW ev \in Events, NEW c, ev.note = "none", msg \in Messages
    PROVE  /\ Placed(ev, c) \in Events
           /\ Placed(ev, c).sender = ev.sender /\ Placed(ev, c).note = "none"
           /\ \/ Placed(ev, c).type = ev.type
              \/ Placed(ev, c).type = "file" /\ Placed(ev, c).suffix \in Documents
           /\ Placed(ev, c).folder # "none" /\ Placed(ev, c).suffix # "none"
           /\ Placed(ev, c).folder = media_folder(Placed(ev, c).type, Placed(ev, c).suffix)
           /\ Fits(ev.text, ev.type) => Fits(Placed(ev, c).text, ev.type)
           /\ ev.text = "raw" /\ Placed(ev, c).type # ev.type => Placed(ev, c).text \in {"title", "name"}
<1> DEFINE titled == "title" \in c /\ ev.type \in {"file", "raw", "emoji", "redpacket"}
           suffix == IF titled THEN msg.named ELSE msg.suffix
           doc  == suffix \in Documents
           type == IF doc THEN "file" ELSE ev.type
           text == IF doc /\ ev.text \in {"empty", "raw", "file"}
                     THEN IF titled THEN "title" ELSE "name" ELSE ev.text
           shown == media_text(type, text)
           folder == media_folder(type, suffix)
           new == [ev EXCEPT !.type = type, !.text = shown, !.folder = folder, !.suffix = suffix]
<1>1. ev.type \in MsgTypes /\ ev.text \in Texts
  BY EventFields
<1>2. type \in MsgTypes
  BY <1>1 DEF MsgTypes
<1>3. shown \in Texts
  BY <1>1, <1>2, Strings DEF media_text
<1>4. folder \in MediaDirs /\ suffix \in Suffixes
  BY FolderOf, MessageFields
<1>5. Placed(ev, c) = new
  BY Zenon DEF Placed
<1>6. /\ new \in Events /\ new.sender = ev.sender /\ new.note = ev.note
      /\ new.type = type /\ new.text = shown /\ new.folder = folder /\ new.suffix = suffix
  <2> HIDE DEF type, shown, folder, suffix
  <2>1. QED
    BY <1>2, <1>3, <1>4 DEF Events
<1>7. folder # "none" /\ suffix # "none"
  BY <1>4, Strings
<1>8. shown \in {ev.text, ev.type, "title", "name"}
  BY DEF media_text
<1>9. ev.text = "raw" /\ type # ev.type => shown \in {"title", "name"}
  BY DEF media_text
<1>10. Fits(ev.text, ev.type) => Fits(new.text, ev.type)
  BY <1>6, <1>8, SaidIsNoType DEF Fits
<1>11. type = ev.type \/ (type = "file" /\ suffix \in Documents)
  OBVIOUS
<1> HIDE DEF titled, suffix, doc, type, text, shown, new
<1>12. QED
  BY <1>5, <1>6, <1>7, <1>9, <1>10, <1>11 DEF folder

-----------------------------------------------------------------------------
(* The invariant.                                                           *)

CaseInv == msg \in Messages /\ cfg \in Settings

(* A row that waits for a body has one line and can have a second; the last *)
(* line has the row's body, and the line before has none.                   *)
LineInv ==
    /\ loose => row # NoRow /\ row.folder # "none"
    /\ row # NoRow =>
        /\ row.folder = "none" => Len(log) = 1 /\ row.suffix = "none"
        /\ Len(log) = 1 /\ ~loose => log[1].folder = row.folder
        /\ Len(log) = 2 => row.folder # "none" /\ log[1].folder = "none" /\ log[2].folder = row.folder
        /\ \A i \in 1 .. Len(log) :
              log[i].folder # "none" => log[i].folder = media_folder(log[i].type, log[i].suffix)

IInv == TypeOK /\ CaseInv /\ LineInv /\ RoutesAgree /\ TextFits /\ BareIsNoted

LEMMA InitInv == Init => IInv
<1> SUFFICES ASSUME Init
             PROVE  IInv
  OBVIOUS
<1>1. PICK k \in Cases : msg = k.msg /\ cfg = k.cfg
  BY DEF Init
<1>2. CaseInv
  BY <1>1, CasesAssumption DEF CaseInv
<1>3. row = NoRow /\ log = <<>> /\ hist = {} /\ origin = "none" /\ loose = FALSE
  BY DEF Init
<1>4. TypeOK
  <2>1. log \in Seq(Events) /\ Len(log) <= 2
    BY <1>3, SeqFacts
  <2>2. QED
    BY <1>2, <1>3, <2>1 DEF TypeOK, CaseInv
<1>5. QED
  BY <1>2, <1>3, <1>4 DEF IInv, LineInv, RoutesAgree, TextFits, BareIsNoted

(* One event is stored: the row is the event's, or it takes its body, which *)
(* makes its second line, or nothing changes.                               *)
LEMMA Persisted ==
    ASSUME IInv, NEW ev \in Events, NEW route, Persist(ev, route)
    PROVE  /\ row' \in Events /\ row' # NoRow
           /\ log' \in Seq(Events) /\ Len(log') <= 2 /\ log' # <<>>
           /\ \/ /\ row = NoRow /\ row' = ev /\ origin' = route
                 /\ Len(log') = 1 /\ log'[1] = ev
              \/ /\ row # NoRow /\ row.folder = "none" /\ ev.folder # "none" /\ origin' = origin
                 /\ row'.type = row.type /\ row'.sender = row.sender
                 /\ row'.folder = ev.folder /\ row'.suffix = ev.suffix
                 /\ row'.note = ev.note /\ row'.text = ev.text
                 /\ Len(log) = 1 /\ Len(log') = 2 /\ log'[1] = log[1] /\ log'[2] = ev
              \/ row # NoRow /\ row' = row /\ origin' = origin /\ log' = log
<1>1. row \in Events \cup {NoRow} /\ log \in Seq(Events) /\ Len(log) <= 2 /\ (row = NoRow <=> log = <<>>)
  BY DEF IInv, TypeOK
<1>2. row # NoRow /\ row.folder = "none" => Len(log) = 1
  BY DEF IInv, LineInv
<1>3. /\ row' = Upsert(row, ev)
      /\ log' = IF row = NoRow \/ (row.folder = "none" /\ ev.folder # "none") THEN Append(log, ev) ELSE log
      /\ origin' = IF row = NoRow THEN route ELSE origin
  BY DEF Persist
<1>4. row' \in Events /\ row' # NoRow
  BY <1>1, <1>3, UpsertFields, EventFields
<1>5. /\ Append(log, ev) \in Seq(Events) /\ Append(log, ev) # <<>>
      /\ Len(Append(log, ev)) = Len(log) + 1 /\ Append(log, ev)[Len(log) + 1] = ev
      /\ \A i \in 1 .. Len(log) : Append(log, ev)[i] = log[i]
  <2>1. \A x \in Events : /\ Append(log, x) \in Seq(Events) /\ Append(log, x) # <<>>
                           /\ Len(Append(log, x)) = Len(log) + 1 /\ Append(log, x)[Len(log) + 1] = x
                           /\ \A i \in 1 .. Len(log) : Append(log, x)[i] = log[i]
    <3>1. log \in Seq(Events)
      BY <1>1
    <3> HIDE <1>1, <1>2, <1>3, <1>4
    <3>2. QED
      BY <3>1, SeqFacts
  <2>2. QED
    BY <2>1
<1>6. CASE row = NoRow
  <2>1. row' = ev /\ origin' = route
    BY <1>3, <1>6, UpsertFields
  <2>2. log' = Append(log, ev) /\ Len(log) = 0
    BY <1>1, <1>3, <1>6, SeqFacts
  <2>3. log' \in Seq(Events) /\ Len(log') = 1 /\ log' # <<>> /\ log'[1] = ev
    BY <1>5, <2>2
  <2>4. QED
    BY <1>4, <1>6, <2>1, <2>3
<1>7. CASE row # NoRow /\ row.folder = "none" /\ ev.folder # "none"
  <2>1. /\ row'.type = row.type /\ row'.sender = row.sender
        /\ row'.folder = ev.folder /\ row'.suffix = ev.suffix
        /\ row'.note = ev.note /\ row'.text = ev.text
    BY <1>1, <1>3, <1>7, UpsertFields
  <2>2. log' = Append(log, ev) /\ origin' = origin
    BY <1>3, <1>7
  <2>3. Len(log) = 1
    BY <1>2, <1>7
  <2>4. /\ log' \in Seq(Events) /\ Len(log') = 2 /\ log' # <<>>
        /\ log'[1] = log[1] /\ log'[2] = ev
    BY <1>5, <2>2, <2>3
  <2>5. QED
    BY <1>4, <1>7, <2>1, <2>2, <2>3, <2>4
<1>8. CASE row # NoRow /\ (row.folder # "none" \/ ev.folder = "none")
  <2>1. row' = row
    BY <1>1, <1>3, <1>8, UpsertFields
  <2>2. log' = log /\ origin' = origin
    BY <1>3, <1>8
  <2>3. Len(log) <= 2 /\ log # <<>>
    BY <1>1, <1>8
  <2>4. QED
    BY <1>1, <1>4, <1>8, <2>1, <2>2, <2>3
<1>9. QED
  BY <1>6, <1>7, <1>8

(* No message that quotes, and none that is a file and a packet at once.    *)
Clean == ~Quoting /\ ~({"attach", "packet"} \subseteq msg.content)

(* What a live event and a row of a history pack have in common.            *)
LEMMA PersistInv ==
    ASSUME IInv, NEW ev \in Events, NEW route \in {"live", "history"}, Persist(ev, route),
           UNCHANGED <<msg, cfg, hist, loose>>,
           ~Quoting => ev.type = Own,
           route = "live" => (ev.sender = "self" <=> msg.mine),
           ev.type \in MediaTypes /\ ev.folder = "none" => ev.note # "none",
           ev.folder # "none" => ev.note = "none" /\ ev.folder = media_folder(ev.type, ev.suffix),
           ev.folder = "none" <=> ev.suffix = "none",
           Clean => Fits(ev.text, Own)
    PROVE  IInv'
<1> DEFINE New == /\ row = NoRow /\ row' = ev /\ origin' = route
                  /\ Len(log') = 1 /\ log'[1] = ev
           Fill == /\ row # NoRow /\ row.folder = "none" /\ ev.folder # "none" /\ origin' = origin
                   /\ row'.type = row.type /\ row'.sender = row.sender
                   /\ row'.folder = ev.folder /\ row'.suffix = ev.suffix
                   /\ row'.note = ev.note /\ row'.text = ev.text
                   /\ Len(log) = 1 /\ Len(log') = 2 /\ log'[1] = log[1] /\ log'[2] = ev
           Same == row # NoRow /\ row' = row /\ origin' = origin /\ log' = log
<1>1. /\ row' \in Events /\ row' # NoRow
      /\ log' \in Seq(Events) /\ Len(log') <= 2 /\ log' # <<>>
      /\ New \/ Fill \/ Same
  BY Persisted
<1>2. TypeOK'
  <2>2. /\ msg \in Messages /\ cfg \in Settings /\ hist \subseteq {"thumb", "body"} /\ loose \in BOOLEAN
        /\ origin \in {"none", "live", "history", "backup", "blank"}
    BY DEF IInv, TypeOK
  <2>3. origin' \in {"none", "live", "history", "backup", "blank"}
    BY <1>1, <2>2
  <2>4. QED
    BY <1>1, <2>2, <2>3 DEF TypeOK
<1>3. CaseInv'
  BY DEF IInv, CaseInv
<1>4. LineInv'
  <2>1. CASE New
    BY <1>1, <2>1 DEF IInv, LineInv
  <2>2. CASE Fill
    <3>1. ~loose /\ log[1].folder = "none"
      BY <2>2 DEF IInv, LineInv
    <3>2. \A i \in 1 .. Len(log') :
              log'[i].folder # "none" => log'[i].folder = media_folder(log'[i].type, log'[i].suffix)
      BY <2>2, <3>1
    <3>3. QED
      BY <2>2, <3>1, <3>2 DEF LineInv
  <2>3. CASE Same
    BY <2>3 DEF IInv, LineInv
  <2>4. QED
    BY <1>1, <2>1, <2>2, <2>3
<1>a. row # NoRow /\ row.folder = "none" => ~AsDocument
  BY Strings DEF IInv, LineInv, AsDocument, Documents
<1>5. RoutesAgree'
  <2>1. CASE New
    BY <2>1 DEF RoutesAgree, Quoting, Own
  <2>2. CASE Fill
    BY <1>a, <2>2 DEF IInv, RoutesAgree, Quoting, Own
  <2>3. CASE Same
    BY <2>3 DEF IInv, RoutesAgree, Quoting, Own, AsDocument
  <2>4. QED
    BY <1>1, <2>1, <2>2, <2>3
<1>6. BareIsNoted'
  BY <1>1 DEF IInv, BareIsNoted
<1>8. TextFits'
  <2> SUFFICES ASSUME Clean, ~(origin' = "blank" /\ row'.type # Own)
               PROVE  Fits(row'.text, Own)
    BY DEF TextFits, Fits, Clean, Quoting, Own
  <2>1. CASE New \/ Fill
    BY <2>1
  <2>2. CASE Same
    BY <2>2 DEF IInv, TextFits, Fits, Clean
  <2>3. QED
    BY <1>1, <2>1, <2>2
<1>9. QED
  BY <1>2, <1>3, <1>4, <1>5, <1>6, <1>8 DEF IInv

LEMMA LiveInv ==
    ASSUME IInv, NEW known \in BOOLEAN, NEW fate \in {"body", "skip", "bare"}, Live(known, fate)
    PROVE  IInv'
<1> DEFINE skip == fate = "skip"
           ev == LiveEvent(msg, known, skip)
           has == fate = "body" /\ ev.type \in MediaTypes \ {"emoji"}
           st == Stored(ev, has)
<1>1. Persist(st, "live") /\ UNCHANGED <<msg, cfg, hist, loose>>
  BY DEF Live
<1>2. msg \in Messages
  BY DEF IInv, CaseInv
<1>3. /\ ev \in Events /\ ev.folder = "none"
      /\ ~skip => ev.note = "none"
      /\ ev.sender = "self" <=> msg.mine
      /\ ~Quoting => ev.type = Own
      /\ Clean => Fits(ev.text, ev.type)
  <2>1. skip \in BOOLEAN
    OBVIOUS
  <2> HIDE DEF skip
  <2>2. QED
    BY <1>2, <2>1, LiveFields DEF Quoting, Clean, Own
<1>4. has \in BOOLEAN /\ (has => ~skip) /\ (CopyBody(ev.type, has) => has)
  BY DEF CopyBody
<1> HIDE DEF skip, ev, has
<1>5. /\ st \in Events /\ st.type = ev.type /\ st.sender = ev.sender
      /\ st.folder = "none" <=> ~CopyBody(ev.type, has)
      /\ st.folder = "none" <=> st.suffix = "none"
      /\ ev.type \in MediaTypes /\ ~CopyBody(ev.type, has) => st.note # "none"
      /\ CopyBody(ev.type, has) => st.note = ev.note
      /\ st.folder # "none" => st.folder = media_folder(ev.type, st.suffix)
      /\ Fits(ev.text, ev.type) => Fits(st.text, ev.type)
  BY <1>2, <1>3, <1>4, StoredFields
<1>6. Clean => Fits(st.text, Own)
  BY <1>3, <1>5 DEF Clean
<1> HIDE DEF st
<1>7. QED
  BY <1>1, <1>3, <1>4, <1>5, <1>6, PersistInv

LEMMA HistoryInv ==
    ASSUME IInv, History
    PROVE  IInv'
<1> DEFINE ev == HistoryEvent(msg)
           has == find_hist_media
           st == Stored(ev, has)
<1>1. Persist(st, "history") /\ UNCHANGED <<msg, cfg, hist, loose>>
  BY DEF History
<1>2. msg \in Messages
  BY DEF IInv, CaseInv
<1>3. /\ ev \in Events /\ ev.folder = "none" /\ ev.note = "none"
      /\ ev.type = Own /\ Fits(ev.text, ev.type)
  BY <1>2, HistoryFields DEF Own
<1>4. has \in BOOLEAN
  BY DEF find_hist_media
<1> HIDE DEF ev, has
<1>5. /\ st \in Events /\ st.type = ev.type
      /\ st.folder = "none" <=> ~CopyBody(ev.type, has)
      /\ st.folder = "none" <=> st.suffix = "none"
      /\ ev.type \in MediaTypes /\ ~CopyBody(ev.type, has) => st.note # "none"
      /\ CopyBody(ev.type, has) => st.note = ev.note
      /\ st.folder # "none" => st.folder = media_folder(ev.type, st.suffix)
      /\ Fits(ev.text, ev.type) => Fits(st.text, ev.type)
  BY <1>2, <1>3, <1>4, StoredFields
<1>6. Fits(st.text, Own)
  BY <1>3, <1>5
<1> HIDE DEF st
<1>7. QED
  BY <1>1, <1>3, <1>5, <1>6, PersistInv

(* A late body changes the folder of the row and nothing else.              *)
LEMMA AttachInv ==
    ASSUME IInv, Attach
    PROVE  IInv'
<1>1. /\ row \in Events /\ row # NoRow /\ row.folder = "none"
      /\ row' = [row EXCEPT !.folder = media_folder(row.type, msg.suffix), !.suffix = msg.suffix]
      /\ loose' = TRUE /\ UNCHANGED <<msg, cfg, log, hist, origin>>
  BY DEF Attach, IInv, TypeOK
<1> DEFINE folder == media_folder(row.type, msg.suffix)
<1>2. folder \in MediaDirs /\ msg.suffix \in Suffixes
  BY FolderOf, MessageFields DEF IInv, CaseInv
<1>3. row' = [row EXCEPT !.folder = folder, !.suffix = msg.suffix]
  BY <1>1
<1> HIDE DEF folder
<1>a. ~AsDocument
  BY <1>1, Strings DEF IInv, LineInv, AsDocument, Documents
<1>4. /\ row' \in Events /\ row'.type = row.type /\ row'.sender = row.sender
      /\ row'.text = row.text /\ row'.folder \in MediaDirs
  BY <1>1, <1>2, <1>3 DEF Events
<1>5. row' # NoRow /\ row'.folder # "none"
  BY <1>4, EventFields, Strings
<1>6. TypeOK'
  BY <1>1, <1>4, <1>5 DEF IInv, TypeOK
<1>7. CaseInv'
  BY <1>1 DEF IInv, CaseInv
<1>8. LineInv' /\ BareIsNoted'
  <2>1. Len(log) = 1
    BY <1>1 DEF IInv, LineInv
  <2>2. QED
    BY <1>1, <1>5, <2>1 DEF IInv, LineInv, BareIsNoted
<1>9. RoutesAgree'
  BY <1>1, <1>4, <1>a DEF IInv, RoutesAgree, Quoting, Own
<1>10. TextFits'
  BY <1>1, <1>4 DEF IInv, TextFits, Quoting, Own
<1>11. QED
  BY <1>6, <1>7, <1>8, <1>9, <1>10 DEF IInv

LEMMA WipeInv ==
    ASSUME IInv, Wipe
    PROVE  IInv'
<1>1. /\ row' = NoRow /\ log' = <<>>
      /\ hist' = {} /\ origin' = "none" /\ loose' = FALSE
      /\ UNCHANGED <<msg, cfg>>
  BY DEF Wipe
<1>2. TypeOK'
  <2>1. log' \in Seq(Events) /\ Len(log') <= 2
    BY <1>1, SeqFacts
  <2>2. QED
    BY <1>1, <2>1 DEF IInv, TypeOK
<1>3. CaseInv'
  BY <1>1 DEF IInv, CaseInv
<1>4. QED
  BY <1>1, <1>2, <1>3 DEF IInv, LineInv, RoutesAgree, TextFits, BareIsNoted

(* Without the dictionary only what needs no content keeps its type.        *)
LEMMA RestoreInv ==
    ASSUME IInv, NEW dict \in BOOLEAN, NEW has \in BOOLEAN, Restore(dict, has)
    PROVE  IInv'
<1> DEFINE c  == IF msg.squeezed /\ ~dict THEN {} ELSE msg.content
           plain == DumpEvent(msg, c)
           ev == IF has THEN Placed(plain, c) ELSE plain
           route == IF c = msg.content THEN "backup" ELSE "blank"
<1>1. /\ row' = ev /\ log' = <<ev>>
      /\ hist' = {} /\ loose' = FALSE /\ origin' = route
      /\ UNCHANGED <<msg, cfg>>
  BY DEF Restore
<1>2. msg \in Messages
  BY DEF IInv, CaseInv
<1>3. c \in SUBSET Marks /\ msg.raw \in RawTypes
  BY <1>2, MessageFields
<1>4. /\ plain \in Events /\ plain.note = "none"
      /\ plain.type = map_msg_type(msg.raw, c)
      /\ plain.sender = "self" <=> msg.mine
      /\ plain.folder = "none" /\ plain.suffix = "none" /\ Fits(plain.text, plain.type)
      /\ msg.raw = 49 /\ c = {} => plain.text = "raw"
  BY <1>2, <1>3, DumpFields
<1>5. ~(route = "blank" /\ msg.raw \in {49, 10000, 10002}) => plain.type = Own
  <2>1. CASE c = msg.content
    BY <1>4, <2>1 DEF Own
  <2>2. CASE msg.raw \notin {49, 10000, 10002}
    BY <1>4, <2>2 DEF map_msg_type, Own
  <2>3. QED
    BY <2>1, <2>2
<1>6. route \in {"backup", "blank"} /\ (route = "blank" => c = {})
  OBVIOUS
<1>7. /\ ev \in Events /\ ev.note = "none" /\ ev.sender = plain.sender
      /\ ev.type = plain.type \/ (ev.type = "file" /\ ev.suffix \in Documents)
      /\ ev.folder = "none" <=> ev.suffix = "none"
      /\ ev.folder # "none" => ev.folder = media_folder(ev.type, ev.suffix)
      /\ Fits(ev.text, plain.type)
      /\ plain.text = "raw" /\ ev.type # plain.type => ev.text \in {"title", "name"}
  <2> HIDE DEF plain, c
  <2>1. CASE has
    BY <1>2, <1>4, <2>1, PlacedFields
  <2>2. CASE ~has
    BY <1>4, <2>2
  <2>3. QED
    BY <2>1, <2>2
<1>8. ~(route = "blank" /\ ev.type # Own) => Fits(ev.text, Own)
  <2> HIDE DEF c, plain, ev, route
  <2>1. CASE plain.type = Own
    BY <1>7, <2>1
  <2>2. CASE plain.type # Own /\ ev.type = Own
    <3>1. route = "blank" /\ msg.raw \in {49, 10000, 10002} /\ Own = "file"
      BY <1>5, <1>7, <2>2
    <3>2. msg.raw = 49
      BY <3>1, SystemType DEF Own, MediaTypes
    <3>3. ev.text \in {"title", "name"}
      BY <1>4, <1>6, <1>7, <2>2, <3>1, <3>2
    <3>4. QED
      BY <3>1, <3>3, SaidIsNoType DEF Fits
  <2>3. QED
    BY <1>5, <2>1, <2>2
<1> HIDE DEF c, plain, ev, route
<1>9. row' # NoRow
  BY <1>1, <1>7, EventFields
<1>10. log' \in Seq(Events) /\ Len(log') = 1 /\ log' # <<>>
  BY <1>1, <1>7
<1>11. TypeOK'
  <2>1. msg' \in Messages /\ cfg' \in Settings
    BY <1>1 DEF IInv, TypeOK
  <2>2. row' \in Events /\ hist' = {} /\ loose' = FALSE
        /\ origin' \in {"none", "live", "history", "backup", "blank"}
    BY <1>1, <1>6, <1>7
  <2>3. hist' \subseteq {"thumb", "body"} /\ loose' \in BOOLEAN /\ row' \in Events \cup {NoRow}
    BY <2>2
  <2>4. Len(log') <= 2 /\ (row' = NoRow <=> log' = <<>>)
    BY <1>9, <1>10
  <2>5. QED
    BY <1>10, <2>1, <2>2, <2>3, <2>4, Zenon DEF TypeOK
<1>12. CaseInv'
  BY <1>1 DEF IInv, CaseInv
<1>13. LineInv'
  <2>1. log'[1] = ev /\ Len(log') = 1 /\ loose' = FALSE /\ row' = ev
    BY <1>1
  <2>2. QED
    BY <1>7, <2>1 DEF LineInv
<1>14. RoutesAgree'
  BY <1>1, <1>4, <1>5, <1>6, <1>7 DEF RoutesAgree, Quoting, Own, AsDocument
<1>15. BareIsNoted'
  BY <1>1, <1>6, <1>7 DEF BareIsNoted
<1>16. TextFits'
  BY <1>1, <1>8 DEF TextFits, Fits, Own
<1>17. QED
  BY <1>11, <1>12, <1>13, <1>14, <1>15, <1>16 DEF IInv

LEMMA StepInv == IInv /\ [Next]_vars => IInv'
<1> SUFFICES ASSUME IInv, [Next]_vars
             PROVE  IInv'
  OBVIOUS
<1>1. CASE \E known \in BOOLEAN, fate \in {"body", "skip", "bare"} : Live(known, fate)
  BY <1>1, LiveInv
<1>2. CASE \E file \in {"thumb", "body"} : PutHistMedia(file)
  <2>1. PICK file \in {"thumb", "body"} : PutHistMedia(file)
    BY <1>2
  <2>2. hist' = hist \cup {file} /\ UNCHANGED <<msg, cfg, row, log, origin, loose>>
    BY <2>1 DEF PutHistMedia
  <2>3. TypeOK'
    BY <2>2 DEF IInv, TypeOK
  <2>4. QED
    BY <2>2, <2>3 DEF IInv, CaseInv, LineInv, RoutesAgree, TextFits, BareIsNoted, Quoting, Own, AsDocument
<1>3. CASE History
  BY <1>3, HistoryInv
<1>4. CASE Attach
  BY <1>4, AttachInv
<1>5. CASE Wipe
  BY <1>5, WipeInv
<1>6. CASE \E dict, has \in BOOLEAN : Restore(dict, has)
  BY <1>6, RestoreInv
<1>7. CASE UNCHANGED vars
  BY <1>7 DEF vars, IInv, TypeOK, CaseInv, LineInv, RoutesAgree, TextFits, BareIsNoted, Quoting, Own, AsDocument
<1>8. QED
  BY <1>1, <1>2, <1>3, <1>4, <1>5, <1>6, <1>7 DEF Next

LEMMA Invariant == Spec => []IInv
  BY InitInv, StepInv, PTL DEF Spec

-----------------------------------------------------------------------------
(* The console.                                                             *)

(* classify_raw keeps the folder and leaves no stub that has a body.        *)
LEMMA ClassifyFields ==
    ASSUME NEW ev \in Events
    PROVE  /\ Classify(ev).folder = ev.folder
           /\ Classify(ev).text # "raw"
           /\ Classify(ev).type = "raw" => ev.folder = "none"
           /\ ev.type = "raw" /\ ev.folder # "none" /\ ev.suffix \in {".mp3", ".wav", ".aud"}
                => Classify(ev).type = "voice"
           /\ ev.type = "raw" /\ ev.folder # "none" /\ ev.suffix = ".mp4"
                => Classify(ev).type = "video"
<1> DEFINE stub == ev.type = "raw" \/ ev.text = "raw"
           new(type, text) == [ev EXCEPT !.type = type, !.text = text]
           text(type) == IF ev.text \in {"raw", "file", "empty"} THEN type ELSE ev.text
<1>1. \A t \in MsgTypes, x \in Texts :
        new(t, x).type = t /\ new(t, x).text = x /\ new(t, x).folder = ev.folder
  BY DEF Events
<1>2. /\ {"raw", "voice", "video", "file"} \subseteq MsgTypes /\ "name" \in Texts
      /\ text("voice") \in Texts /\ text("video") \in Texts
      /\ text("voice") # "raw" /\ text("video") # "raw"
  BY EventFields, Strings DEF MsgTypes
<1>3. CASE ~stub
  <2>1. Classify(ev) = ev
    BY <1>3 DEF Classify
  <2>2. QED
    BY <1>3, <2>1
<1>4. CASE stub /\ ev.folder = "none"
  <2>1. Classify(ev) = new("raw", "name")
    BY <1>4 DEF Classify
  <2> HIDE DEF new
  <2>2. QED
    BY <1>1, <1>2, <1>4, <2>1
<1>5. CASE stub /\ ev.folder # "none" /\ ev.suffix \in {".mp3", ".wav", ".aud"}
  <2>1. Classify(ev) = new("voice", text("voice"))
    BY <1>5 DEF Classify
  <2> HIDE DEF new, text
  <2>2. QED
    BY <1>1, <1>2, <1>5, <2>1
<1>6. CASE stub /\ ev.folder # "none" /\ ev.suffix = ".mp4"
  <2>1. Classify(ev) = new("video", text("video"))
    BY <1>6 DEF Classify
  <2> HIDE DEF new, text
  <2>2. QED
    BY <1>1, <1>2, <1>6, <2>1
<1>7. CASE stub /\ ev.folder # "none" /\ ev.suffix \notin {".mp3", ".wav", ".aud", ".mp4"}
  <2>1. Classify(ev) = new("file", "name")
    BY <1>7 DEF Classify
  <2> HIDE DEF new
  <2>2. QED
    BY <1>1, <1>2, <1>7, <2>1
<1>8. QED
  BY <1>3, <1>4, <1>5, <1>6, <1>7

(* The sender's id is taken from the text before that.                      *)
LEMMA PolishedFields ==
    ASSUME NEW ev \in Events
    PROVE  /\ Polished(ev).folder = ev.folder
           /\ Polished(ev).text # "raw"
           /\ Polished(ev).type = "raw" => ev.folder = "none"
           /\ ev.type = "raw" /\ ev.folder # "none" /\ ev.suffix \in {".mp3", ".wav", ".aud"}
                => Polished(ev).type = "voice"
           /\ ev.type = "raw" /\ ev.folder # "none" /\ ev.suffix = ".mp4"
                => Polished(ev).type = "video"
<1>1. CASE ev.text = "whole"
  <2> DEFINE new == [ev EXCEPT !.text = "words", !.sender = "member"]
  <2>1. Polished(ev) = Classify(new)
    BY <1>1 DEF Polished
  <2>2. "words" \in Texts
    BY Strings
  <2>3. new \in Events /\ new.type = ev.type /\ new.folder = ev.folder /\ new.suffix = ev.suffix
    BY <2>2 DEF Events
  <2> HIDE DEF new
  <2>4. QED
    BY <2>1, <2>3, ClassifyFields
<1>2. CASE ev.text # "whole"
  <2>1. Polished(ev) = Classify(ev)
    BY <1>2 DEF Polished
  <2>2. QED
    BY <2>1, ClassifyFields
<1>3. QED
  BY <1>1, <1>2

(* The line that the console picks has the body of the row.                 *)
LEMMA PickedFields ==
    ASSUME IInv, row # NoRow
    PROVE  /\ Picked \in Events
           /\ ~loose => Picked.folder = row.folder
           /\ Picked.folder # "none" => Picked.folder = media_folder(Picked.type, Picked.suffix)
<1>1. log \in Seq(Events) /\ Len(log) <= 2 /\ log # <<>>
  BY DEF IInv, TypeOK
<1>2. Len(log) \in {1, 2}
  <2>1. log \in Seq(Events)
    BY <1>1
  <2>2. Len(log) \in Nat /\ (log # <<>> => Len(log) >= 1)
    <3> HIDE <1>1
    <3>1. QED
      BY <2>1, SeqFacts
  <2>3. QED
    <3> DEFINE n == Len(log)
    <3>1. n \in Nat /\ n >= 1 /\ n <= 2
      BY <1>1, <2>2, Zenon
    <3> HIDE DEF n
    <3>2. n \in {1, 2}
      BY <3>1
    <3>3. QED
      BY <3>2 DEF n
<1>3. \A i \in 1 .. Len(log) : log[i] \in Events
  BY <1>1, ElementOfSeq
<1>4. PICK i \in 1 .. Len(log) : Picked = log[i] /\ (~loose => log[i].folder = row.folder)
  <2>1. CASE Len(log) = 1
    <3>1. Picked = log[1]
      BY <2>1 DEF Picked
    <3>2. ~loose => log[1].folder = row.folder
      BY <2>1 DEF IInv, LineInv
    <3>3. QED
      BY <2>1, <3>1, <3>2
  <2>2. CASE Len(log) = 2
    <3>1. row.folder # "none" /\ log[1].folder = "none" /\ log[2].folder = row.folder
      BY <2>2 DEF IInv, LineInv
    <3>2. Picked = log[2]
      BY <2>2, <3>1 DEF Picked
    <3>3. QED
      BY <2>2, <3>1, <3>2
  <2>3. QED
    BY <1>2, <2>1, <2>2
<1>5. log[i].folder # "none" => log[i].folder = media_folder(log[i].type, log[i].suffix)
  BY DEF IInv, LineInv
<1>6. QED
  BY <1>3, <1>4, <1>5

(* The suffixes that the store puts with the voices and with the films.     *)
LEMMA OtherFolder ==
    ASSUME NEW suffix
    PROVE  /\ media_folder("raw", suffix) = "voice" => suffix \in {".aud", ".wav", ".amr"}
           /\ media_folder("raw", suffix) = "video" => suffix \in {".mp4", ".video"}
<1>1. CASE suffix = ".jpg"
  BY <1>1 DEF media_folder
<1>2. CASE suffix \in {".aud", ".wav", ".amr"}
  BY <1>2 DEF media_folder
<1>3. CASE suffix \in {".mp4", ".video"}
  BY <1>3 DEF media_folder
<1>4. CASE suffix \notin {".jpg", ".aud", ".wav", ".amr", ".mp4", ".video"}
  BY <1>4 DEF media_folder
<1>5. QED
  BY <1>1, <1>2, <1>3, <1>4

-----------------------------------------------------------------------------
(* The theorems.                                                            *)

(* One message has one row, and one line for each of at most two arrivals,  *)
(* the second only for its body, whatever the routes and their order.       *)
THEOREM RoutesTypeCorrect == Spec => []TypeOK
<1>1. IInv => TypeOK
  BY DEF IInv
<1>2. QED
  BY <1>1, Invariant, PTL

(* The three mappings of a message agree on its type: the hook's, that of   *)
(* the history packs and that of the backup, for every message whose marks  *)
(* of a file are a file's, unless the backup came without its content or    *)
(* named its body as a document; and but for a history pack that is first,  *)
(* on what oneself has sent.                                                *)
THEOREM RoutesAgreeAlways == Spec => []RoutesAgree
<1>1. IInv => RoutesAgree
  BY DEF IInv
<1>2. QED
  BY <1>1, Invariant, PTL

(* A row has a text that belongs to the type its content says, also after a *)
(* later route has replaced the text, and in a row that a document's name   *)
(* has made a file.                                                         *)
THEOREM TextFitsAlways == Spec => []TextFits
<1>1. IInv => TextFits
  BY DEF IInv
<1>2. QED
  BY <1>1, Invariant, PTL

(* A media row of the phone without a body says why, and a stored body has  *)
(* no complaint beside it.                                                  *)
THEOREM BareIsNotedAlways == Spec => []BareIsNoted
<1>1. IInv => BareIsNoted
  BY DEF IInv
<1>2. QED
  BY <1>1, Invariant, PTL

(* What the console shows of a message, from the lines alone, has the body  *)
(* that the row has, and a body that came as nothing known is played by     *)
(* what it was stored as; "[raw]" is never shown.                           *)
THEOREM ShownAsStoredAlways == Spec => []ShownAsStored
<1>1. IInv => ShownAsStored
  <2> SUFFICES ASSUME IInv, row # NoRow
               PROVE  /\ ~loose => Shown.folder = row.folder
                      /\ Shown.text # "raw"
                      /\ Shown.type = "raw" => Shown.folder = "none"
                      /\ Picked.type = "raw" /\ Shown.folder = "voice" /\ Picked.suffix # ".amr"
                           => Shown.type = "voice"
                      /\ Picked.type = "raw" /\ Shown.folder = "video" /\ Picked.suffix # ".video"
                           => Shown.type = "video"
    BY DEF ShownAsStored
  <2>1. /\ Picked \in Events
        /\ ~loose => Picked.folder = row.folder
        /\ Picked.folder # "none" => Picked.folder = media_folder(Picked.type, Picked.suffix)
    BY PickedFields
  <2> DEFINE ev == Picked
  <2> HIDE DEF ev
  <2>2. /\ Shown.folder = ev.folder /\ Shown.text # "raw"
        /\ Shown.type = "raw" => ev.folder = "none"
        /\ ev.type = "raw" /\ ev.folder # "none" /\ ev.suffix \in {".mp3", ".wav", ".aud"}
             => Shown.type = "voice"
        /\ ev.type = "raw" /\ ev.folder # "none" /\ ev.suffix = ".mp4" => Shown.type = "video"
    <3>1. Shown = Polished(ev) /\ ev \in Events
      BY <2>1 DEF Shown, ev
    <3>2. QED
      BY <3>1, PolishedFields
  <2>3. QED
    BY <2>1, <2>2, OtherFolder DEF ev
<1>2. QED
  BY <1>1, Invariant, PTL

(* The two selections of chats differ in the chats that the hook never      *)
(* records and in its switch, and no reply of either policy leaves the      *)
(* recorded groups, for all messages and settings.                          *)
THEOREM TwinsAgreeAlways == Spec => []TwinsAgree
<1>1. IInv => TwinsAgree
  <2> SUFFICES ASSUME IInv
               PROVE  TwinsAgree
    OBVIOUS
  <2>1. /\ msg.group \in BOOLEAN /\ msg.mine \in BOOLEAN /\ msg.old \in BOOLEAN /\ msg.at \in BOOLEAN
        /\ msg.command \in {"none", "start", "indented"}
    BY MessageFields DEF IInv, CaseInv
  <2>2. /\ cfg.groupOut \in BOOLEAN /\ cfg.dmOut \in BOOLEAN
        /\ cfg.allGroups \in BOOLEAN /\ cfg.allDMs \in BOOLEAN
    BY DEF IInv, CaseInv, Settings
  <2>3. ~msg.old /\ PhoneTakes(msg, cfg) => decide_ingest(msg, cfg)
    BY <2>1, <2>2, Zenon DEF decide_ingest, Selected, PhoneTakes
  <2>a. decide_ingest(msg, cfg) /\ ~PhoneTakes(msg, cfg)
         => ~cfg.enabled \/ msg.chat = "system" \/ (msg.chat = "official" /\ ~cfg.officials)
    BY <2>1, <2>2, Zenon DEF decide_ingest, Selected, PhoneTakes, ShouldSkipChat
  <2>4. Reply(msg, cfg) => decide_ingest(msg, cfg) /\ msg.group /\ ~msg.mine
    BY <2>1, <2>2, Zenon DEF Reply
  <2>5. PhoneReplies(msg, cfg) \/ (Reply(msg, cfg) /\ "this" \in cfg.groups) => canSendReply(msg, cfg)
    BY <2>1, <2>2, Zenon DEF Reply, PhoneReplies, canSendReply
  <2>6. ~cfg.groupOut /\ ~cfg.allGroups /\ msg.command # "indented"
         => (PhoneReplies(msg, cfg) <=> Reply(msg, cfg))
    <3>1. msg.command # "indented" => (msg.command # "none" <=> msg.command = "start")
      BY <2>1
    <3>2. QED
      BY <2>1, <2>2, <3>1, Zenon DEF Reply, PhoneReplies, decide_ingest, Selected
  <2>7. QED
    BY <2>3, <2>a, <2>4, <2>5, <2>6, Zenon DEF TwinsAgree
<1>2. QED
  BY <1>1, Invariant, PTL
=============================================================================

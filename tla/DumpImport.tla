----------------------------- MODULE DumpImport -----------------------------
(***************************************************************************)
(* The one-time import of a phone's backup (store/import_ais_dump.py) into *)
(* the store that the consumer fills with the phone's uploads: it wipes    *)
(* the store, then takes one chat table after the other: chooses a folder, *)
(* places the media, writes the log anew and upserts the rows.  Rows are   *)
(* committed after a long chat and after every CommitEvery chats; the map  *)
(* file is written at the very end.  The operator stops the consumer       *)
(* first, may see the import fail at any step, may start the consumer in   *)
(* between, and runs the import again, with or without the wipe.           *)
(*                                                                         *)
(* A backup and an upload of one message have one msg_id (MesLocalID).     *)
(* An upload is stored in one step: how it is claimed and what a crash     *)
(* leaves of it is InboxConsumer's subject, the file system calls of       *)
(* resolve_chat_dir are ChatFolders'.  Of the media only the backup's are  *)
(* kept track of: an upload's has a name of its own (its uuid).            *)
(* Operators named Slip... are deliberate errors that no specification     *)
(* uses: they stand for the bugs that the properties below would catch.    *)
(***************************************************************************)
EXTENDS Naturals, Sequences, FiniteSets

CONSTANTS
    Chats, Msgs,
    ChatOf,     \* ChatOf[m]: the chat of m
    Tables,     \* the chats of the backup in the order of their tables
    InDump,     \* messages of the backup
    DumpBody,   \* of these, the ones with a media file that is no thumbnail
    FileOf,     \* FileOf[m]: the name that the import gives that file in a folder
    FileNames,  \* such names; a number and a suffix, which two chats may share
    Long,       \* chats with so many messages that they are committed at once
    CommitEvery, \* chats between two commits
    Uploads,    \* messages that the phone uploads
    UploadBody, \* of these, the ones with a body
    Folders,    \* directory names
    DumpName,   \* DumpName[c]: the folder name of what the backup calls c
    LiveName,   \* LiveName[m]: the folder name of m's chat_name, or NoFolder
    IdFolder,   \* IdFolder[c]: the folder named after the bare id of c
    Suffixed,   \* Suffixed[F][c][n]: F with 12 characters of c's id, and n from 2 on
    MaxFaults, MaxRuns, \* bounds on crashes and on imports
    NoFolder, Bare, NoRow

DumpOf(c) == {m \in InDump : ChatOf[m] = c}

ASSUME ConstAssumption ==
    /\ ChatOf \in [Msgs -> Chats]
    /\ Tables \in Seq(Chats)
    /\ \A i, j \in DOMAIN Tables : Tables[i] = Tables[j] => i = j
    /\ InDump \subseteq Msgs /\ DumpBody \subseteq InDump
    /\ \A m \in InDump : \E i \in DOMAIN Tables : Tables[i] = ChatOf[m]
    /\ FileOf \in [DumpBody -> FileNames]
    /\ \A m, n \in DumpBody : ChatOf[m] = ChatOf[n] /\ FileOf[m] = FileOf[n] => m = n
    /\ Long \subseteq Chats /\ CommitEvery \in Nat \ {0}
    /\ Uploads \subseteq Msgs /\ UploadBody \subseteq Uploads
    /\ DumpName \in [Chats -> Folders]
    /\ LiveName \in [Uploads -> Folders \cup {NoFolder}]
    /\ IdFolder \in [Chats -> Folders]
    /\ Suffixed \in [Folders -> [Chats -> Seq(Folders)]]
    /\ MaxFaults \in Nat /\ MaxRuns \in Nat
    /\ NoFolder \notin Folders
    /\ Bare \notin Folders /\ NoRow \notin Folders /\ Bare # NoRow

(* The numbers behind a name go on: more of them than chats to take them.   *)
ASSUME SuffixAssumption ==
    /\ IsFiniteSet(Chats)
    /\ \A F \in Folders, c \in Chats : Suffixed[F][c] # <<>>
    /\ \A c \in Chats : LET alt == Suffixed[DumpName[c]][c] IN
          /\ Len(alt) >= Cardinality(Chats)
          /\ \A i, j \in DOMAIN alt : alt[i] = alt[j] => i = j

(* Nobody is called by the bare id of another chat, and no id is a name     *)
(* with a suffix.                                                           *)
ASSUME IdAssumption ==
    /\ \A c, d \in Chats : c # d => IdFolder[c] # IdFolder[d] /\ DumpName[c] # IdFolder[d]
    /\ \A m \in Uploads : \A d \in Chats \ {ChatOf[m]} : LiveName[m] # IdFolder[d]
    /\ \A F \in Folders, c, d \in Chats : \A k \in DOMAIN Suffixed[F][c] :
          Suffixed[F][c][k] # IdFolder[d]

VARIABLES
    on,       \* the consumer runs
    up,       \* up[m]: where the upload of m is
    dir,      \* the directories that exist
    lines,    \* lines[F]: the messages in F's log
    body,     \* body[F][m]: bytes of the backup's media file of m in F
    row,      \* row[m]: the folder in the media_path of m's row, or Bare, or NoRow
    map,      \* map[c]: the folder of c in the map file
    pc,       \* the next step of the import
    wipe,     \* the import wipes the store
    pos,      \* tables that the import is through with
    chats,    \* stats["chats"]: of these, the ones that were not empty
    mapping,  \* mapping[c]: the folder that the import chose for c
    todo,     \* media of the present chat that it has yet to place
    copying,  \* of these, the one that is being copied
    txn,      \* rows that are upserted and not yet committed
    faults, runs,
    finished, \* history: how the last import ended, "no" while it has not
    cut,      \* history: messages whose copy a crash cut short
    taken     \* history: messages under whose file name this import has found
              \* the file of another chat

storeVars == <<dir, lines, body, row, map>>
liveVars  == <<on, up>>
runVars   == <<wipe, pos, chats, mapping, todo, copying, txn>>
histVars  == <<faults, runs, finished, cut, taken>>
vars == <<liveVars, storeVars, pc, runVars, histVars>>

Bytes == {"none", "part", "whole"}
Steps == {"off", "wipe", "wipeIndex", "wipeMap", "wipeInbox", "contacts", "chat", "place",
          "copy", "log", "rows", "commit", "save", "saving"}
Maps  == [Chats -> Folders \cup {NoFolder}]
Blank == [c \in Chats |-> NoFolder]
Empty == [m \in Msgs |-> "none"]

TypeOK ==
    /\ on \in BOOLEAN
    /\ up \in [Uploads -> {"phone", "inbox", "claimed", "done", "gone"}]
    /\ dir \subseteq Folders
    /\ lines \in [Folders -> SUBSET Msgs]
    /\ body \in [Folders -> [Msgs -> Bytes]]
    /\ row \in [Msgs -> Folders \cup {Bare, NoRow}]
    /\ map \in Maps
    /\ pc \in Steps /\ (pc # "off" => ~on)
    /\ wipe \in BOOLEAN
    /\ pos \in 0..Len(Tables) /\ chats \in 0..pos
    /\ mapping \in Maps
    /\ todo \subseteq DumpBody /\ copying \subseteq DumpBody
    /\ txn \subseteq InDump
    /\ faults \in 0..MaxFaults /\ runs \in 0..MaxRuns
    /\ finished \in {"no", "kept", "wiped"}
    /\ cut \subseteq DumpBody /\ taken \subseteq DumpBody

Init ==
    /\ on = FALSE
    /\ up = [m \in Uploads |-> "phone"]
    /\ dir = {}
    /\ lines = [F \in Folders |-> {}]
    /\ body = [F \in Folders |-> Empty]
    /\ row = [m \in Msgs |-> NoRow]
    /\ map = Blank
    /\ pc = "off"
    /\ wipe = FALSE /\ pos = 0 /\ chats = 0 /\ mapping = Blank
    /\ todo = {} /\ copying = {} /\ txn = {}
    /\ faults = 0 /\ runs = 0 /\ finished = "no" /\ cut = {} /\ taken = {}

Step(from, to) == pc = from /\ pc' = to

(* A media_path once there is never replaced (INSERT_SQL).                  *)
Upsert(old, new) == IF old \in Folders THEN old ELSE IF old = NoRow THEN new
                    ELSE IF new \in Folders THEN new ELSE old

-----------------------------------------------------------------------------
(* The phone and the consumer.                                              *)

Put(m) ==
    /\ up[m] = "phone"
    /\ up' = [up EXCEPT ![m] = "inbox"]
    /\ UNCHANGED <<on, storeVars, pc, runVars, histVars>>

(* The operator starts and stops the consumer; none runs beside the import. *)
Switch ==
    /\ pc = "off"
    /\ on' = ~on
    /\ UNCHANGED <<up, storeVars, pc, runVars, histVars>>

Claim(m) ==
    /\ on
    /\ up[m] = "inbox"
    /\ up' = [up EXCEPT ![m] = "claimed"]
    /\ UNCHANGED <<on, storeVars, pc, runVars, histVars>>

(* resolve_chat_dir for m: the folder it settles on, and the folder under   *)
(* the bare id that is renamed to it or merged into it.                     *)
Resolved(m) ==
    LET c      == ChatOf[m]
        named  == LiveName[m]
        cur    == map[c]
        wanted == IF named # NoFolder THEN named ELSE IF cur # NoFolder THEN cur ELSE IdFolder[c]
        upgrade == named # NoFolder /\ cur = IdFolder[c] /\ wanted \notin dir
        owned   == wanted \in dir /\ \E k \in Chats \ {c} : map[k] = wanted
        target  == IF cur # wanted /\ owned THEN Suffixed[wanted][c][1] ELSE wanted
    IN  IF cur \in dir
          THEN IF upgrade THEN [to |-> wanted, old |-> cur]
               ELSE [to |-> IF wanted \in dir THEN wanted ELSE cur, old |-> NoFolder]
          ELSE [to |-> target,
                old |-> IF IdFolder[c] \in dir \ {target} THEN IdFolder[c] ELSE NoFolder]

(* The slip: the line of a message that has a row is not needed.            *)
SlipAppends(m) == (row[m] = Bare) /\ m \in UploadBody

(* A line is appended for a new row, and for the body of a bare one.        *)
Appends(m) == row[m] = NoRow \/ (row[m] = Bare /\ m \in UploadBody)

(* _persist_event.  A folder that is renamed takes its files along, of one  *)
(* that is merged only the log survives.                                    *)
Store(m) ==
    /\ on
    /\ up[m] = "claimed"
    /\ LET r == Resolved(m)
           moved == IF r.to \in dir \/ r.old = NoFolder THEN body[r.to] ELSE body[r.old]
           merged == IF r.old = NoFolder THEN {} ELSE lines[r.old]
       IN  /\ dir' = (dir \ {r.old}) \cup {r.to}
           /\ map' = [map EXCEPT ![ChatOf[m]] = r.to]
           /\ lines' = [F \in Folders |->
                 CASE F = r.to -> lines[F] \cup merged \cup (IF Appends(m) THEN {m} ELSE {})
                   [] F = r.old -> {}
                   [] OTHER -> lines[F]]
           /\ body' = [F \in Folders |->
                 IF F = r.to THEN moved ELSE IF F = r.old THEN Empty ELSE body[F]]
           /\ row' = [row EXCEPT ![m] = Upsert(@, IF m \in UploadBody THEN r.to ELSE Bare)]
    /\ up' = [up EXCEPT ![m] = "done"]
    /\ UNCHANGED <<on, pc, runVars, histVars>>

-----------------------------------------------------------------------------
(* The import: wipe_store.                                                  *)

(* The slip: the consumer is left running.                                  *)
SlipBegin ==
    /\ runs < MaxRuns
    /\ wipe' \in BOOLEAN
    /\ Step("off", IF wipe' THEN "wipe" ELSE "contacts")
    /\ runs' = runs + 1
    /\ finished' = "no"
    /\ taken' = {}
    /\ UNCHANGED <<liveVars, storeVars, pos, chats, mapping, todo, copying, txn, faults, cut>>

(* The operator starts an import, --no-wipe or not.                         *)
Begin ==
    /\ ~on
    /\ runs < MaxRuns
    /\ wipe' \in BOOLEAN
    /\ Step("off", IF wipe' THEN "wipe" ELSE "contacts")
    /\ runs' = runs + 1
    /\ finished' = "no"
    /\ taken' = {}
    /\ UNCHANGED <<liveVars, storeVars, pos, chats, mapping, todo, copying, txn, faults, cut>>

(* The slip: files that are there are left alone.                           *)
SlipWipeDirs ==
    /\ Step("wipe", "wipeIndex")
    /\ lines' = [F \in Folders |-> {}]
    /\ cut' = {}
    /\ UNCHANGED <<liveVars, dir, body, row, map, runVars, faults, runs, finished, taken>>

WipeDirs ==
    /\ Step("wipe", "wipeIndex")
    /\ dir' = {}
    /\ lines' = [F \in Folders |-> {}]
    /\ body' = [F \in Folders |-> Empty]
    /\ cut' = {}
    /\ UNCHANGED <<liveVars, row, map, runVars, faults, runs, finished, taken>>

(* The slip: the index stays, the upserts will bring it up to date.         *)
SlipWipeIndex ==
    /\ Step("wipeIndex", "wipeMap")
    /\ UNCHANGED <<liveVars, storeVars, runVars, histVars>>

WipeIndex ==
    /\ Step("wipeIndex", "wipeMap")
    /\ row' = [m \in Msgs |-> NoRow]
    /\ UNCHANGED <<liveVars, dir, lines, body, map, runVars, histVars>>

WipeMap ==
    /\ Step("wipeMap", "wipeInbox")
    /\ map' = Blank
    /\ UNCHANGED <<liveVars, dir, lines, body, row, runVars, histVars>>

(* Uploads that wait, that were claimed or that failed are deleted too.     *)
WipeInbox ==
    /\ Step("wipeInbox", "contacts")
    /\ up' = [m \in Uploads |-> IF up[m] \in {"inbox", "claimed"} THEN "gone" ELSE up[m]]
    /\ UNCHANGED <<on, storeVars, runVars, histVars>>

-----------------------------------------------------------------------------
(* The import: one chat after the other.                                    *)

(* load_contacts has the names, and the database is opened.                 *)
LoadContacts ==
    /\ Step("contacts", "chat")
    /\ UNCHANGED <<liveVars, storeVars, runVars, histVars>>

(* Without WCDB_Contact.sqlite the import ends, after the wipe.             *)
NoContacts ==
    /\ faults < MaxFaults
    /\ Step("contacts", "off")
    /\ faults' = faults + 1
    /\ UNCHANGED <<liveVars, storeVars, runVars, runs, finished, cut, taken>>

Chat == Tables[pos + 1]
Here == mapping[Chat]
Used == {mapping[c] : c \in Chats} \ {NoFolder}

(* The slip: a suffix needs no further look.                                *)
SlipFolderFor(c) == IF DumpName[c] \notin Used THEN DumpName[c] ELSE Suffixed[DumpName[c]][c][1]

(* chat_folder_name: the name, with 12 characters of the id when this run   *)
(* used it before, and with a number when that is used as well.             *)
FolderFor(c) ==
    IF DumpName[c] \notin Used THEN DumpName[c]
    ELSE LET alt == Suffixed[DumpName[c]][c]
             n == CHOOSE k \in DOMAIN alt : alt[k] \notin Used /\ \A j \in 1..(k - 1) : alt[j] \in Used
         IN  alt[n]

(* A table without a message gets no folder.                                *)
SkipChat ==
    /\ pc = "chat"
    /\ pos < Len(Tables)
    /\ DumpOf(Chat) = {}
    /\ pos' = pos + 1
    /\ UNCHANGED <<liveVars, storeVars, pc, wipe, chats, mapping, todo, copying, txn, histVars>>

(* used_folders.add and mkdir.                                              *)
BeginChat ==
    /\ pos < Len(Tables)
    /\ DumpOf(Chat) # {}
    /\ Step("chat", "place")
    /\ mapping' = [mapping EXCEPT ![Chat] = FolderFor(Chat)]
    /\ dir' = dir \cup {FolderFor(Chat)}
    /\ todo' = DumpOf(Chat) \cap DumpBody
    /\ UNCHANGED <<liveVars, lines, body, row, map, wipe, pos, chats, copying, txn, histVars>>

(* What stands in the chat's folder under the name of m's file.             *)
Standing(m) == {x \in DumpBody : body[Here][x] # "none" /\ FileOf[x] = FileOf[m]}

(* place_media keeps what is there, of whatever message, ...                *)
Keep(m) ==
    /\ pc = "place"
    /\ Standing(m) # {}
    /\ todo' = todo \ {m}
    /\ taken' = IF m \in Standing(m) THEN taken ELSE taken \cup {m}
    /\ UNCHANGED <<liveVars, storeVars, pc, wipe, pos, chats, mapping, copying, txn,
                   faults, runs, finished, cut>>

(* ... links the file in one call, ...                                      *)
Place(m) ==
    /\ pc = "place"
    /\ Standing(m) = {}
    /\ todo' = todo \ {m}
    /\ body' = [body EXCEPT ![Here][m] = "whole"]
    /\ UNCHANGED <<liveVars, dir, lines, row, map, pc, wipe, pos, chats, mapping, copying, txn,
                   histVars>>

(* ... or copies it, between two file systems.                              *)
BeginCopy(m) ==
    /\ Standing(m) = {}
    /\ Step("place", "copy")
    /\ body' = [body EXCEPT ![Here][m] = "part"]
    /\ copying' = {m}
    /\ cut' = cut \ {m}
    /\ UNCHANGED <<liveVars, dir, lines, row, map, wipe, pos, chats, mapping, todo, txn,
                   faults, runs, finished, taken>>

EndCopy(m) ==
    /\ m \in copying
    /\ Step("copy", "place")
    /\ body' = [body EXCEPT ![Here][m] = "whole"]
    /\ todo' = todo \ {m} /\ copying' = {}
    /\ UNCHANGED <<liveVars, dir, lines, row, map, wipe, pos, chats, mapping, txn, histVars>>

(* The log is opened for writing, which empties it, ...                     *)
OpenLog ==
    /\ todo = {}
    /\ Step("place", "log")
    /\ lines' = [lines EXCEPT ![Here] = {}]
    /\ UNCHANGED <<liveVars, dir, body, row, map, runVars, histVars>>

(* ... and the messages are written.                                        *)
WriteLog ==
    /\ Step("log", "rows")
    /\ lines' = [lines EXCEPT ![Here] = DumpOf(Chat)]
    /\ UNCHANGED <<liveVars, dir, body, row, map, runVars, histVars>>

(* executemany.                                                             *)
Insert ==
    /\ Step("rows", IF Chat \in Long \/ (chats + 1) % CommitEvery = 0 THEN "commit" ELSE "chat")
    /\ txn' = txn \cup DumpOf(Chat)
    /\ chats' = chats + 1
    /\ pos' = pos + 1
    /\ UNCHANGED <<liveVars, storeVars, wipe, mapping, todo, copying, histVars>>

Committed ==
    [m \in Msgs |-> IF m \notin txn THEN row[m]
                    ELSE Upsert(row[m], IF m \in DumpBody THEN mapping[ChatOf[m]] ELSE Bare)]

Commit ==
    /\ Step("commit", "chat")
    /\ row' = Committed
    /\ txn' = {}
    /\ UNCHANGED <<liveVars, dir, lines, body, map, wipe, pos, chats, mapping, todo, copying, histVars>>

(* The slip: the last chats are left to the close of the connection.        *)
SlipLastCommit ==
    /\ pos = Len(Tables)
    /\ Step("chat", "save")
    /\ txn' = {}
    /\ UNCHANGED <<liveVars, storeVars, wipe, pos, chats, mapping, todo, copying, histVars>>

LastCommit ==
    /\ pos = Len(Tables)
    /\ Step("chat", "save")
    /\ row' = Committed
    /\ txn' = {}
    /\ UNCHANGED <<liveVars, dir, lines, body, map, wipe, pos, chats, mapping, todo, copying, histVars>>

(* _save_chats_map: write_text empties the file, which reads as no map.     *)
OpenMap ==
    /\ Step("save", "saving")
    /\ map' = Blank
    /\ UNCHANGED <<liveVars, dir, lines, body, row, runVars, histVars>>

Forget == pos' = 0 /\ chats' = 0 /\ mapping' = Blank /\ todo' = {} /\ copying' = {} /\ txn' = {}

(* The map is that of this import alone.  Rendering the logs for readers    *)
(* changes nothing here, and its errors are swallowed.                      *)
WriteMap ==
    /\ Step("saving", "off")
    /\ map' = mapping
    /\ finished' = IF wipe THEN "wiped" ELSE "kept"
    /\ Forget
    /\ UNCHANGED <<liveVars, dir, lines, body, row, wipe, faults, runs, cut, taken>>

(* The import is killed or fails: what was not committed is rolled back.    *)
Crash ==
    /\ pc # "off"
    /\ faults < MaxFaults
    /\ faults' = faults + 1
    /\ pc' = "off"
    /\ cut' = cut \cup copying
    /\ Forget
    /\ UNCHANGED <<liveVars, storeVars, wipe, runs, finished, taken>>

Wipe == WipeDirs \/ WipeIndex \/ WipeMap \/ WipeInbox
Import ==
    \/ Wipe \/ LoadContacts \/ SkipChat \/ BeginChat
    \/ \E m \in todo : Keep(m) \/ Place(m) \/ BeginCopy(m) \/ EndCopy(m)
    \/ OpenLog \/ WriteLog \/ Insert \/ Commit \/ LastCommit \/ OpenMap \/ WriteMap
Live == \E m \in Uploads : Put(m) \/ Claim(m) \/ Store(m)

Next == Live \/ Switch \/ Begin \/ Import \/ NoContacts \/ Crash

Spec == Init /\ [][Next]_vars
-----------------------------------------------------------------------------
(* Properties.                                                              *)

(* Two chats of one import never share a folder, also when a third has the  *)
(* name that the suffix would make.                                         *)
FoldersDistinct ==
    \A c, d \in Chats : mapping[c] # NoFolder /\ mapping[c] = mapping[d] => c = d

(* Whatever crashed before: when an import has ended, every message of the  *)
(* backup has its row, its line and its media file, and stays so through    *)
(* the uploads that follow.  There are two exceptions.  A copy that was cut *)
(* short and that no wipe removed since may be short.  And without a wipe a *)
(* file may be missing whose name is that of another chat's file in the     *)
(* folder: left there by an earlier import, before the consumer renamed the *)
(* other chat's folder to this chat's name.                                 *)
DumpStored ==
    finished # "no" => \A m \in InDump :
        /\ row[m] # NoRow
        /\ \E F \in Folders : m \in lines[F]
        /\ m \in DumpBody =>
              \/ \E F \in Folders : body[F][m] = "whole" \/ (m \in cut /\ body[F][m] = "part")
              \/ finished = "kept" /\ m \in taken

(* After an import that wiped the store, index and logs hold the same       *)
(* messages, uploads included: no line without a row, no row without a line.*)
RowsLogged ==
    finished = "wiped" =>
        \A m \in Msgs : row[m] # NoRow <=> \E F \in Folders : m \in lines[F]
=============================================================================

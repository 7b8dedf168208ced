---------------------------- MODULE ChatFolders ----------------------------
(***************************************************************************)
(* Where the consumer keeps a chat: one directory per chat under groups or *)
(* dms, named after the chat, and a map file from chats to directories.    *)
(* resolve_chat_dir names, renames and merges directories as events with   *)
(* and without a display name come in; apply_name_map renames them when    *)
(* the phone sends its contacts; wipe_imported deletes everything.         *)
(*                                                                         *)
(* Events, name sheets and wipe commands are jobs that wait in the inbox;  *)
(* a consumer process takes one at a time, works through the file system   *)
(* calls of its handler, and after a crash the job waits again (how a job  *)
(* is claimed, and that an unreadable name sheet ends the pass, is         *)
(* InboxConsumer's subject).  One parent is modelled, with the folder an   *)
(* official account may still have under the parent of the dms.            *)
(* Operators named Slip... are deliberate errors: no specification uses    *)
(* them, they stand for the bugs that the properties below would catch.    *)
(***************************************************************************)
EXTENDS Naturals, FiniteSets

CONSTANTS
    Chats,      \* chat ids
    Names,      \* display names with at least one character a folder may have
    Folders,    \* directory names
    IdFolder,   \* IdFolder[c]: the directory named by the bare id of c
    DmsFolder,  \* DmsFolder[c]: the same, but of an official account in the dms
    NameFolder, \* NameFolder[n]: what _sanitize_folder_name makes of n
    Suffixed,   \* Suffixed[F][c]: F, an underscore, 12 characters of c's id
    Events,     \* messages
    EvChat,     \* EvChat[e]: the chat of e
    EvName,     \* EvName[e]: the chat_name it carries, or NoName
    HasBody,    \* events with a media body
    Old,        \* events logged by the first layout, before the map existed
    Sheets,     \* name sheets (names.json)
    SheetName,  \* SheetName[s][c]: the name s has for c, or NoName
    CutSheets,  \* sheets that broke off: not JSON, or cut inside a character
    Wipes,      \* wipe commands
    Runners,    \* consumer processes
    MaxFaults,  \* bound on crashes and I/O errors
    NoName, NoFolder, NoJob

Jobs == Events \cup Sheets \cup Wipes

ASSUME ConstAssumption ==
    /\ IdFolder \in [Chats -> Folders]
    /\ DmsFolder \in [Chats -> Folders]
    /\ NameFolder \in [Names -> Folders]
    /\ Suffixed \in [Folders -> [Chats -> Folders]]
    /\ EvChat \in [Events -> Chats]
    /\ EvName \in [Events -> Names \cup {NoName}]
    /\ HasBody \subseteq Events
    /\ Old \subseteq Events
    /\ SheetName \in [Sheets -> [Chats -> Names \cup {NoName}]]
    /\ Events \cap Sheets = {}
    /\ Events \cap Wipes = {}
    /\ Sheets \cap Wipes = {}
    /\ MaxFaults \in Nat
    /\ NoName \notin Names
    /\ NoFolder \notin Folders
    /\ NoJob \notin Jobs

VARIABLES
    pending,  \* jobs that wait in the inbox
    map,      \* map[c]: the directory of c in the map file
    dir,      \* the directories that exist
    lines,    \* lines[F]: the events in the JSONL logs of F
    first,    \* first[F]: those that are only in its log of the first layout
    bodies,   \* bodies[F]: the events whose media body is in F
    path,     \* path[e]: the directory in the media_path of e's index row
    pc,       \* pc[r]: the next step of runner r
    job,      \* job[r]: the job it works on
    snap,     \* snap[r]: the map as it loaded and changed it
    folder,   \* folder[r]: the directory resolve_chat_dir settled on
    old,      \* old[r]: the directory it has merged into that one
    todo,     \* todo[r]: the chats of a name sheet it has yet to look at
    faults    \* faults so far

storeVars == <<map, dir, lines, first, bodies, path>>
vars == <<pending, map, dir, lines, first, bodies, path,
          pc, job, snap, folder, old, todo, faults>>

Steps == {"idle", "place", "drop", "save", "saving", "write",
          "names", "wipe", "wipeIndex", "wipeMap"}
Maps  == [Chats -> Folders \cup {NoFolder}]
Blank == [c \in Chats |-> NoFolder]

(* The type invariant.                                                      *)
TypeOK ==
    /\ pending \subseteq Jobs
    /\ map \in Maps
    /\ dir \subseteq Folders
    /\ lines \in [Folders -> SUBSET Events]
    /\ first \in [Folders -> SUBSET Events]
    /\ bodies \in [Folders -> SUBSET Events]
    /\ path \in [Events -> Folders \cup {NoFolder}]
    /\ pc \in [Runners -> Steps]
    /\ job \in [Runners -> Jobs \cup {NoJob}]
    /\ snap \in [Runners -> Maps]
    /\ folder \in [Runners -> Folders \cup {NoFolder}]
    /\ old \in [Runners -> Folders \cup {NoFolder}]
    /\ todo \in [Runners -> SUBSET Chats]
    /\ faults \in 0..MaxFaults
    /\ \A r \in Runners :
          /\ pc[r] # "idle" => job[r] \in Jobs
          /\ pc[r] \in {"place", "drop", "write"} => job[r] \in Events
          /\ pc[r] \in {"drop", "write"} => folder[r] \in Folders
          /\ pc[r] = "drop" => old[r] \in Folders
          /\ pc[r] = "names" =>
                job[r] \in Sheets /\ \A c \in todo[r] : SheetName[job[r]][c] # NoName
          /\ pc[r] \in {"save", "saving"} /\ job[r] \in Events => folder[r] \in Folders

(* A store of the first layout: the logs (events.jsonl) stand under the     *)
(* bare ids, those of official accounts with the dms; there is no map file. *)
Init ==
    /\ pending = Jobs \ Old
    /\ map = Blank
    /\ dir = {DmsFolder[EvChat[e]] : e \in Old}
    /\ lines = [F \in Folders |-> {e \in Old : DmsFolder[EvChat[e]] = F}]
    /\ first = lines
    /\ bodies = [F \in Folders |-> {}]
    /\ path = [e \in Events |-> NoFolder]
    /\ pc = [r \in Runners |-> "idle"]
    /\ job = [r \in Runners |-> NoJob]
    /\ snap = [r \in Runners |-> Blank]
    /\ folder = [r \in Runners |-> NoFolder]
    /\ old = [r \in Runners |-> NoFolder]
    /\ todo = [r \in Runners |-> {}]
    /\ faults = 0

-----------------------------------------------------------------------------
Goto(r, step) == pc' = [pc EXCEPT ![r] = step]

Take(r, j, step) ==
    /\ pc[r] = "idle"
    /\ pending' = pending \ {j}
    /\ job' = [job EXCEPT ![r] = j]
    /\ Goto(r, step)

(* The handler returns: the job is done and its locals are gone.            *)
Finish(r) ==
    /\ Goto(r, "idle")
    /\ job' = [job EXCEPT ![r] = NoJob]
    /\ snap' = [snap EXCEPT ![r] = Blank]
    /\ folder' = [folder EXCEPT ![r] = NoFolder]
    /\ old' = [old EXCEPT ![r] = NoFolder]
    /\ todo' = [todo EXCEPT ![r] = {}]

(* rename(2) of a directory takes its logs and its media folders along.     *)
RenameDir(F, G) ==
    /\ dir' = (dir \ {F}) \cup {G}
    /\ lines' = [lines EXCEPT ![G] = lines[F], ![F] = {}]
    /\ first' = [first EXCEPT ![G] = first[F], ![F] = {}]
    /\ bodies' = [bodies EXCEPT ![G] = bodies[F], ![F] = {}]

(* resolve_chat_dir has decided: F goes into the map it will write.         *)
Settle(r, c, F) ==
    /\ folder' = [folder EXCEPT ![r] = F]
    /\ snap' = [snap EXCEPT ![r][c] = F]

-----------------------------------------------------------------------------
(* An event: resolve_chat_dir and the end of _persist_event.                *)

(* An event comes up; the map file is read.                                 *)
TakeEvent(r) ==
    /\ \E e \in pending \cap Events : Take(r, e, "place")
    /\ snap' = [snap EXCEPT ![r] = map]
    /\ UNCHANGED <<storeVars, folder, old, todo, faults>>

Chat(r) == EvChat[job[r]]
Cur(r) == snap[r][Chat(r)]
Named(r) == EvName[job[r]] # NoName

(* The slip: the folder in the map is taken without a look whether it is    *)
(* there.                                                                   *)
SlipTrustMap(r) == IF Named(r) THEN NameFolder[EvName[job[r]]] ELSE Cur(r)

(* A human name never gives way to the bare id.                             *)
Wanted(r) ==
    IF Named(r) THEN NameFolder[EvName[job[r]]]
    ELSE IF Cur(r) # NoFolder THEN Cur(r) ELSE IdFolder[Chat(r)]

(* The chat learnt its name, and nobody has that folder.                    *)
Upgrades(r) ==
    /\ Named(r)
    /\ Cur(r) = IdFolder[Chat(r)]
    /\ Wanted(r) # Cur(r)
    /\ Cur(r) \in dir
    /\ Wanted(r) \notin dir

(* The slip: a new folder beside the old one instead of a rename.           *)
SlipLeaveOld(r) ==
    /\ pc[r] = "place"
    /\ Upgrades(r)
    /\ dir' = dir \cup {Wanted(r)}
    /\ Settle(r, Chat(r), Wanted(r))
    /\ Goto(r, "save")
    /\ UNCHANGED <<pending, map, lines, first, bodies, path, job, old, todo, faults>>

UpgradeFolder(r) ==
    /\ pc[r] = "place"
    /\ Upgrades(r)
    /\ RenameDir(Cur(r), Wanted(r))
    /\ Settle(r, Chat(r), Wanted(r))
    /\ Goto(r, "save")
    /\ UNCHANGED <<pending, map, path, job, old, todo, faults>>

(* The slip: the folder of an event without a name is the bare id again.    *)
SlipBareAgain(r) ==
    /\ pc[r] = "place"
    /\ Cur(r) \in dir
    /\ ~Upgrades(r)
    /\ Settle(r, Chat(r), IF Named(r) THEN Cur(r) ELSE IdFolder[Chat(r)])
    /\ Goto(r, "save")
    /\ UNCHANGED <<pending, storeVars, job, old, todo, faults>>

(* The chat has a folder: it stays, unless a folder of the wanted name is   *)
(* there, and then that one is taken, whoever it belongs to.                *)
KeepFolder(r) ==
    /\ pc[r] = "place"
    /\ Cur(r) \in dir
    /\ ~Upgrades(r)
    /\ Settle(r, Chat(r), IF Wanted(r) \in dir THEN Wanted(r) ELSE Cur(r))
    /\ Goto(r, "save")
    /\ UNCHANGED <<pending, storeVars, job, old, todo, faults>>

(* A name that another chat has in the map gets a suffix.                   *)
Target(r) ==
    IF /\ Wanted(r) \in dir
       /\ Cur(r) # Wanted(r)
       /\ \E k \in Chats \ {Chat(r)} : snap[r][k] = Wanted(r)
      THEN Suffixed[Wanted(r)][Chat(r)]
      ELSE Wanted(r)

(* What stands under the bare id of a chat without a folder.                *)
Standing(c) == IF IdFolder[c] \in dir THEN IdFolder[c] ELSE DmsFolder[c]

(* A merge appends one log of F: the one in use now, or else the one of the *)
(* first layout.  Beside a log in use, the lines of the other are left.     *)
Left(F) == IF lines[F] = first[F] THEN {} ELSE first[F]

(* The chat has no folder yet, or it is gone: take over what stands under   *)
(* its bare id.  When the target is there too, the old log is appended to   *)
(* the target's; media are moved only out of the folder of the old layout,  *)
(* which no body is in any more.                                            *)
PlaceAnew(r) ==
    /\ pc[r] = "place"
    /\ Cur(r) \notin dir
    /\ LET from == Standing(Chat(r))
           target == Target(r)
           appended == lines[from] \ Left(from)
       IN /\ Settle(r, Chat(r), target)
          /\ \/ /\ from \in dir /\ from # target /\ target \notin dir
                /\ RenameDir(from, target)
                /\ Goto(r, "save")
                /\ UNCHANGED old
             \/ /\ from \in dir /\ from # target /\ target \in dir
                /\ lines' = [lines EXCEPT ![target] = @ \cup appended]
                /\ first' = [first EXCEPT ![target] = @ \ appended]
                /\ old' = [old EXCEPT ![r] = from]
                /\ Goto(r, "drop")
                /\ UNCHANGED <<dir, bodies>>
             \/ /\ from \notin dir \/ from = target
                /\ dir' = dir \cup {target}
                /\ Goto(r, "save")
                /\ UNCHANGED <<lines, first, bodies, old>>
    /\ UNCHANGED <<pending, map, path, job, todo, faults>>

(* The slip: the wrong one of the two folders is removed.                   *)
SlipDropTarget(r) ==
    /\ pc[r] = "drop"
    /\ lines' = [lines EXCEPT ![folder[r]] = {}, ![old[r]] = {}]
    /\ Goto(r, "save")
    /\ UNCHANGED <<pending, map, dir, first, bodies, path, job, snap, folder, old, todo, faults>>

(* rmtree of the old folder with both its logs, and mkdir of the target.    *)
DropOld(r) ==
    /\ pc[r] = "drop"
    /\ dir' = (dir \ {old[r]}) \cup {folder[r]}
    /\ lines' = [lines EXCEPT ![old[r]] = {}]
    /\ first' = [first EXCEPT ![old[r]] = {}]
    /\ bodies' = [bodies EXCEPT ![old[r]] = {}]
    /\ old' = [old EXCEPT ![r] = NoFolder]
    /\ Goto(r, "save")
    /\ UNCHANGED <<pending, map, path, job, snap, folder, todo, faults>>

(* _save_chats_map: write_text truncates the file, and a file that does not *)
(* parse is an empty map to whoever reads it.                               *)
OpenMap(r) ==
    /\ pc[r] = "save"
    /\ map' = Blank
    /\ Goto(r, "saving")
    /\ UNCHANGED <<pending, dir, lines, first, bodies, path, job, snap, folder, old, todo, faults>>

WriteMap(r) ==
    /\ pc[r] = "saving"
    /\ map' = snap[r]
    /\ IF job[r] \in Events
         THEN Goto(r, "write") /\ UNCHANGED <<job, snap, folder, old, todo>>
         ELSE Finish(r)
    /\ UNCHANGED <<pending, dir, lines, first, bodies, path, faults>>

(* mkdir again, copy2, the index row and the line.                          *)
Write(r) ==
    /\ pc[r] = "write"
    /\ LET e == job[r]
       IN /\ dir' = dir \cup {folder[r]}
          /\ lines' = [lines EXCEPT ![folder[r]] = @ \cup {e}]
          /\ IF e \in HasBody
               THEN /\ bodies' = [bodies EXCEPT ![folder[r]] = @ \cup {e}]
                    /\ path' = [path EXCEPT ![e] = folder[r]]
               ELSE UNCHANGED <<bodies, path>>
    /\ Finish(r)
    /\ UNCHANGED <<pending, map, first, faults>>

-----------------------------------------------------------------------------
(* A name sheet: apply_name_map.                                            *)

(* A sheet that broke off is read in vain, and stays.                       *)
TakeSheet(r) ==
    /\ \E s \in (pending \cap Sheets) \ CutSheets :
          /\ Take(r, s, "names")
          /\ todo' = [todo EXCEPT ![r] = {c \in Chats : SheetName[s][c] # NoName}]
    /\ snap' = [snap EXCEPT ![r] = map]
    /\ UNCHANGED <<storeVars, folder, old, faults>>

(* One chat of the sheet; a chat that has no folder gets none.              *)
RenameChat(r) ==
    /\ pc[r] = "names"
    /\ \E c \in todo[r] :
          LET cur == snap[r][c]
              wanted == NameFolder[SheetName[job[r]][c]]
          IN /\ todo' = [todo EXCEPT ![r] = @ \ {c}]
             /\ IF cur \in dir /\ wanted # cur /\ wanted \notin dir
                  THEN RenameDir(cur, wanted) /\ snap' = [snap EXCEPT ![r][c] = wanted]
                  ELSE UNCHANGED <<dir, lines, first, bodies, snap>>
    /\ UNCHANGED <<pending, map, path, pc, job, folder, old, faults>>

NamesApplied(r) ==
    /\ pc[r] = "names"
    /\ todo[r] = {}
    /\ Goto(r, "save")
    /\ UNCHANGED <<pending, storeVars, job, snap, folder, old, todo, faults>>

-----------------------------------------------------------------------------
(* A wipe command: wipe_imported.                                           *)

TakeWipe(r) ==
    /\ \E w \in pending \cap Wipes : Take(r, w, "wipe")
    /\ UNCHANGED <<storeVars, snap, folder, old, todo, faults>>

WipeDirs(r) ==
    /\ pc[r] = "wipe"
    /\ dir' = {}
    /\ lines' = [F \in Folders |-> {}]
    /\ first' = [F \in Folders |-> {}]
    /\ bodies' = [F \in Folders |-> {}]
    /\ Goto(r, "wipeIndex")
    /\ UNCHANGED <<pending, map, path, job, snap, folder, old, todo, faults>>

WipeIndex(r) ==
    /\ pc[r] = "wipeIndex"
    /\ path' = [e \in Events |-> NoFolder]
    /\ Goto(r, "wipeMap")
    /\ UNCHANGED <<pending, map, dir, lines, first, bodies, job, snap, folder, old, todo, faults>>

WipeMap(r) ==
    /\ pc[r] = "wipeMap"
    /\ map' = Blank
    /\ Finish(r)
    /\ UNCHANGED <<pending, dir, lines, first, bodies, path, faults>>

-----------------------------------------------------------------------------
(* The process dies, or an OSError ends the pass; the job waits again.      *)
Fault(r) ==
    /\ pc[r] # "idle"
    /\ faults < MaxFaults
    /\ faults' = faults + 1
    /\ pending' = pending \cup {job[r]}
    /\ Finish(r)
    /\ UNCHANGED storeVars

Place(r) == UpgradeFolder(r) \/ KeepFolder(r) \/ PlaceAnew(r) \/ DropOld(r)
Save(r)  == OpenMap(r) \/ WriteMap(r)
Wipe(r)  == TakeWipe(r) \/ WipeDirs(r) \/ WipeIndex(r) \/ WipeMap(r)

Pass(r) ==
    \/ TakeEvent(r) \/ Place(r) \/ Save(r) \/ Write(r)
    \/ TakeSheet(r) \/ RenameChat(r) \/ NamesApplied(r)
    \/ Wipe(r)

Next == \E r \in Runners : Pass(r) \/ Fault(r)

Spec == Init /\ [][Next]_vars

-----------------------------------------------------------------------------
(* Properties.                                                              *)

Logged(e) == \E F \in Folders : e \in lines[F]
Quiet == \A r \in Runners : pc[r] = "idle"

(* One consumer, any crashes, any names: of all that renames, merges and    *)
(* places chats, a line is lost only by a wipe, or when the old folder of a *)
(* merge has a log in use beside its log of the first layout                *)
(* (consumer.py:254 appends the one, 268 removes both).                     *)
LinesKept ==
    [][\A e \in Events : Logged(e) =>
          \/ Logged(e)'
          \/ \E r \in Runners : pc[r] = "wipe" /\ pc'[r] = "wipeIndex"
          \/ \E r \in Runners : pc[r] = "drop" /\ e \in Left(old[r])]_vars

(* The folders that a name of c can ever give it, with the bare id, and     *)
(* with a suffix.                                                           *)
NamedFolders(c) ==
    {NameFolder[EvName[e]] : e \in {x \in Events : EvChat[x] = c /\ EvName[x] # NoName}}
    \cup {NameFolder[SheetName[s][c]] : s \in {x \in Sheets : SheetName[x][c] # NoName}}
Places(c)   == NamedFolders(c) \cup {IdFolder[c], DmsFolder[c]}
Suffixes(c) == {Suffixed[F][c] : F \in Places(c)}

(* No other chat can be given one of them.                                  *)
OwnNames(c) == \A k \in Chats \ {c} : Places(c) \cap (Places(k) \cup Suffixes(k)) = {}

(* One consumer, no crash so far: between two jobs the whole log of a chat  *)
(* whose names are its own stands in one folder, and the map points to it.  *)
LinesTogether ==
    Quiet /\ faults = 0 => \A e, f \in Events, F, G \in Folders :
        e \in lines[F] /\ f \in lines[G] /\ EvChat[e] = EvChat[f] /\ OwnNames(EvChat[e]) =>
            /\ F = G
            /\ map[EvChat[e]] = F \/ (e \in Old /\ f \in Old)

(* consumer.py:216 "Never downgrade a human folder name back to the raw     *)
(* wxid/chatroom id": without a crash, resolve_chat_dir does not settle on  *)
(* the bare id of a chat that has lines under a name of its own.            *)
NeverDowngrade ==
    [][\A r \in Runners :
          pc[r] = "place" /\ faults = 0 /\ OwnNames(Chat(r)) /\ folder'[r] = IdFolder[Chat(r)] =>
              \A e \in Events, F \in Folders \ {folder'[r], DmsFolder[Chat(r)]} :
                  EvChat[e] = Chat(r) => e \notin lines[F]]_vars

(* consumer.py:241 "another chat already owns this display name", which     *)
(* gives the newcomer a folder of its own: no two chats have one folder.    *)
OneOwner ==
    Quiet => \A c, d \in Chats : c # d /\ map[c] = map[d] => map[c] = NoFolder
=============================================================================

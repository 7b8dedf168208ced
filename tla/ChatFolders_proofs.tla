------------------------ MODULE ChatFolders_proofs ------------------------
(***************************************************************************)
(* Theorems about ChatFolders for every set of chats, names, events and    *)
(* every sanitization and suffixing of names: its type invariant, and with *)
(* one consumer process that no crash, rename or merge loses a line, and   *)
(* that without a crash the log of a chat whose names are its own stays in *)
(* one folder, which does not go back to the bare id.                      *)
(***************************************************************************)
EXTENDS ChatFolders, TLAPS

(* What resolve_chat_dir computes of an event it has taken.                 *)
LEMMA FolderTypes ==
    ASSUME TypeOK, NEW r \in Runners, pc[r] = "place"
    PROVE  /\ job[r] \in Events /\ Chat(r) \in Chats
           /\ IdFolder[Chat(r)] \in Folders /\ Standing(Chat(r)) \in Folders
           /\ Cur(r) \in Folders \cup {NoFolder}
           /\ Wanted(r) \in Folders
           /\ Target(r) \in Folders
<1>1. job[r] \in Events /\ snap[r] \in Maps
  BY DEF TypeOK
<1>2. Chat(r) \in Chats
  BY <1>1, ConstAssumption DEF Chat
<1>3. IdFolder[Chat(r)] \in Folders /\ Standing(Chat(r)) \in Folders
  BY <1>2, ConstAssumption DEF Standing
<1>4. Cur(r) \in Folders \cup {NoFolder}
  BY <1>1, <1>2 DEF Cur, Maps
<1>5. EvName[job[r]] # NoName => NameFolder[EvName[job[r]]] \in Folders
  BY <1>1, ConstAssumption
<1>6. Wanted(r) \in Folders
  BY <1>3, <1>4, <1>5 DEF Wanted, Named
<1>7. Suffixed[Wanted(r)][Chat(r)] \in Folders
  BY <1>2, <1>6, ConstAssumption
<1>8. Target(r) \in Folders
  BY <1>6, <1>7 DEF Target
<1>9. QED
  BY <1>1, <1>2, <1>3, <1>4, <1>6, <1>8

LEMMA RenameType ==
    ASSUME TypeOK, NEW F \in Folders, NEW G \in Folders, RenameDir(F, G)
    PROVE  /\ dir' \subseteq Folders
           /\ lines' \in [Folders -> SUBSET Events]
           /\ first' \in [Folders -> SUBSET Events]
           /\ bodies' \in [Folders -> SUBSET Events]
  BY DEF TypeOK, RenameDir

LEMMA SettleType ==
    ASSUME TypeOK, NEW r \in Runners, NEW c \in Chats, NEW F \in Folders, Settle(r, c, F)
    PROVE  /\ folder' \in [Runners -> Folders \cup {NoFolder}]
           /\ folder'[r] = F
           /\ \A q \in Runners \ {r} : folder'[q] = folder[q]
           /\ snap' \in [Runners -> Maps]
<1>1. folder' = [folder EXCEPT ![r] = F] /\ snap' = [snap EXCEPT ![r][c] = F]
  BY DEF Settle
<1>2. [snap[r] EXCEPT ![c] = F] \in Maps
  BY DEF TypeOK, Maps
<1>3. snap' \in [Runners -> Maps]
  BY <1>1, <1>2 DEF TypeOK
<1>4. QED
  BY <1>1, <1>3 DEF TypeOK

LEMMA FinishType ==
    ASSUME TypeOK, NEW r \in Runners, Finish(r)
    PROVE  /\ pc' \in [Runners -> Steps] /\ job' \in [Runners -> Jobs \cup {NoJob}]
           /\ snap' \in [Runners -> Maps] /\ todo' \in [Runners -> SUBSET Chats]
           /\ folder' \in [Runners -> Folders \cup {NoFolder}]
           /\ old' \in [Runners -> Folders \cup {NoFolder}]
           /\ pc'[r] = "idle"
           /\ \A q \in Runners \ {r} : /\ pc'[q] = pc[q] /\ job'[q] = job[q] /\ old'[q] = old[q]
                                        /\ folder'[q] = folder[q] /\ todo'[q] = todo[q]
<1>1. Blank \in Maps
  BY DEF Blank, Maps
<1>2. "idle" \in Steps
  BY DEF Steps
<1>3. QED
  BY <1>1, <1>2 DEF TypeOK, Finish, Goto

(* Placing an event.                                                        *)
LEMMA PlaceType ==
    ASSUME TypeOK, NEW r \in Runners, Place(r)
    PROVE  TypeOK'
<1>0. "save" \in Steps /\ "drop" \in Steps
  BY DEF Steps
<1>1. CASE UpgradeFolder(r)
  <2>1. pc[r] = "place" /\ RenameDir(Cur(r), Wanted(r)) /\ Settle(r, Chat(r), Wanted(r))
    BY <1>1 DEF UpgradeFolder
  <2>2. Cur(r) \in Folders
    BY <1>1 DEF UpgradeFolder, Upgrades, TypeOK
  <2>3. QED
    BY <1>0, <1>1, <2>1, <2>2, FolderTypes, RenameType, SettleType
       DEF UpgradeFolder, TypeOK, Goto
<1>2. CASE KeepFolder(r)
  <2>1. PICK F \in Folders : Settle(r, Chat(r), F)
    BY <1>2, FolderTypes DEF KeepFolder, TypeOK
  <2>2. QED
    BY <1>0, <1>2, <2>1, FolderTypes, SettleType DEF KeepFolder, TypeOK, Goto, storeVars
<1>3. CASE PlaceAnew(r)
  <2>1. pc[r] = "place" /\ Settle(r, Chat(r), Target(r))
    BY <1>3 DEF PlaceAnew
  <2> DEFINE from == Standing(Chat(r))
             appended == lines[from] \ Left(from)
  <2>2. /\ dir' \subseteq Folders
        /\ lines' \in [Folders -> SUBSET Events]
        /\ first' \in [Folders -> SUBSET Events]
        /\ bodies' \in [Folders -> SUBSET Events]
    <3>1. CASE RenameDir(from, Target(r))
      BY <2>1, <3>1, FolderTypes, RenameType
    <3>2. CASE /\ UNCHANGED <<dir, bodies>>
               /\ lines' = [lines EXCEPT ![Target(r)] = @ \cup appended]
               /\ first' = [first EXCEPT ![Target(r)] = @ \ appended]
      BY <2>1, <3>2, FolderTypes DEF TypeOK
    <3>3. CASE UNCHANGED <<lines, first, bodies>> /\ dir' = dir \cup {Target(r)}
      BY <2>1, <3>3, FolderTypes DEF TypeOK
    <3>4. QED
      BY <1>3, <3>1, <3>2, <3>3 DEF PlaceAnew
  <2>3. \/ Goto(r, "save") /\ UNCHANGED old
        \/ Goto(r, "drop") /\ old' = [old EXCEPT ![r] = from]
    BY <1>3 DEF PlaceAnew
  <2>4. UNCHANGED <<pending, map, path, job, todo, faults>>
    BY <1>3 DEF PlaceAnew
  <2>5. /\ old' \in [Runners -> Folders \cup {NoFolder}]
        /\ pc'[r] = "drop" => old'[r] \in Folders
        /\ \A q \in Runners \ {r} : old'[q] = old[q]
        /\ pc' \in [Runners -> Steps] /\ pc'[r] \in {"save", "drop"}
        /\ \A q \in Runners \ {r} : pc'[q] = pc[q]
    BY <1>0, <2>1, <2>3, FolderTypes DEF TypeOK, Goto
  <2>6. QED
    BY <2>1, <2>2, <2>4, <2>5, FolderTypes, SettleType DEF TypeOK
<1>4. CASE DropOld(r)
  BY <1>0, <1>4 DEF DropOld, TypeOK, Goto
<1>5. QED
  BY <1>1, <1>2, <1>3, <1>4 DEF Place

(* Saving the map, and the write.                                           *)
LEMMA SaveType ==
    ASSUME TypeOK, NEW r \in Runners, Save(r) \/ Write(r)
    PROVE  TypeOK'
<1>0. Blank \in Maps /\ "saving" \in Steps /\ "write" \in Steps
  BY DEF Blank, Maps, Steps
<1>1. CASE OpenMap(r)
  BY <1>0, <1>1 DEF OpenMap, TypeOK, Goto
<1>2. CASE WriteMap(r)
  <2>1. CASE job[r] \in Events
    BY <1>0, <1>2, <2>1 DEF WriteMap, TypeOK, Goto
  <2>2. CASE job[r] \notin Events
    <3>1. Finish(r) /\ map' \in Maps
      BY <1>2, <2>2 DEF WriteMap, TypeOK
    <3>2. QED
      BY <1>2, <3>1, FinishType DEF WriteMap, TypeOK
  <2>3. QED
    BY <2>1, <2>2
<1>3. CASE Write(r)
  <2>1. job[r] \in Events /\ folder[r] \in Folders
    BY <1>3 DEF Write, TypeOK
  <2>2. /\ dir' \subseteq Folders
        /\ lines' \in [Folders -> SUBSET Events]
        /\ bodies' \in [Folders -> SUBSET Events]
        /\ path' \in [Events -> Folders \cup {NoFolder}]
    BY <1>3, <2>1 DEF Write, TypeOK
  <2>3. QED
    BY <1>3, <2>2, FinishType DEF Write, TypeOK
<1>4. QED
  BY <1>1, <1>2, <1>3 DEF Save

(* A name sheet.                                                            *)
LEMMA NamesType ==
    ASSUME TypeOK, NEW r \in Runners, TakeSheet(r) \/ RenameChat(r) \/ NamesApplied(r)
    PROVE  TypeOK'
<1>0. "names" \in Steps /\ "save" \in Steps
  BY DEF Steps
<1>1. CASE TakeSheet(r)
  <2>1. PICK s \in (pending \cap Sheets) \ CutSheets :
           /\ Take(r, s, "names")
           /\ todo' = [todo EXCEPT ![r] = {c \in Chats : SheetName[s][c] # NoName}]
    BY <1>1 DEF TakeSheet
  <2>2. QED
    BY <1>0, <1>1, <2>1 DEF TakeSheet, Take, TypeOK, Goto, storeVars, Jobs
<1>2. CASE RenameChat(r)
  <2>1. PICK c \in todo[r] :
          /\ todo' = [todo EXCEPT ![r] = @ \ {c}]
          /\ \/ UNCHANGED <<dir, lines, first, bodies, snap>>
             \/ /\ snap[r][c] \in dir
                /\ RenameDir(snap[r][c], NameFolder[SheetName[job[r]][c]])
                /\ snap' = [snap EXCEPT ![r][c] = NameFolder[SheetName[job[r]][c]]]
    BY <1>2 DEF RenameChat
  <2>2. UNCHANGED <<pending, map, path, pc, job, folder, old, faults>>
    BY <1>2 DEF RenameChat
  <2>3. todo' \in [Runners -> SUBSET Chats] /\ todo'[r] \subseteq todo[r]
        /\ \A q \in Runners \ {r} : todo'[q] = todo[q]
    BY <2>1 DEF TypeOK
  <2>4. CASE UNCHANGED <<dir, lines, first, bodies, snap>>
    BY <2>2, <2>3, <2>4 DEF TypeOK
  <2>5. ASSUME NEW cur \in dir, NEW wanted \in Folders, RenameDir(cur, wanted),
               snap' = [snap EXCEPT ![r][c] = wanted]
        PROVE  TypeOK'
    <3>1. cur \in Folders /\ c \in Chats
      BY DEF TypeOK
    <3>2. [snap[r] EXCEPT ![c] = wanted] \in Maps
      BY <3>1 DEF TypeOK, Maps
    <3>3. snap' \in [Runners -> Maps]
      BY <2>5, <3>2 DEF TypeOK
    <3>4. QED
      BY <2>2, <2>3, <2>5, <3>1, <3>3, RenameType DEF TypeOK
  <2>6. NameFolder[SheetName[job[r]][c]] \in Folders
    <3>1. pc[r] = "names" /\ job[r] \in Sheets /\ c \in Chats
          /\ SheetName[job[r]][c] # NoName
      BY <1>2, <2>1 DEF RenameChat, TypeOK
    <3>2. SheetName[job[r]] \in [Chats -> Names \cup {NoName}]
      BY <3>1, ConstAssumption
    <3>3. QED
      BY <3>1, <3>2, ConstAssumption
  <2>7. QED
    BY <2>1, <2>4, <2>5, <2>6
<1>3. CASE NamesApplied(r)
  BY <1>0, <1>3, ConstAssumption DEF NamesApplied, TypeOK, Goto, storeVars
<1>4. QED
  BY <1>1, <1>2, <1>3

LEMMA TakeEventType ==
    ASSUME TypeOK, NEW r \in Runners, TakeEvent(r)
    PROVE  TypeOK'
<1>0. "place" \in Steps
  BY DEF Steps
<1>1. QED
  BY <1>0 DEF TakeEvent, Take, TypeOK, Goto, storeVars, Jobs

LEMMA WipeType ==
    ASSUME TypeOK, NEW r \in Runners, Wipe(r)
    PROVE  TypeOK'
<1>0. /\ "wipe" \in Steps /\ "wipeIndex" \in Steps /\ "wipeMap" \in Steps
      /\ Blank \in Maps
  BY DEF Steps, Blank, Maps
<1>1. CASE TakeWipe(r)
  BY <1>0, <1>1, ConstAssumption DEF TakeWipe, Take, TypeOK, Goto, storeVars, Jobs
<1>2. CASE WipeDirs(r)
  BY <1>0, <1>2 DEF WipeDirs, TypeOK, Goto
<1>3. CASE WipeIndex(r)
  BY <1>0, <1>3 DEF WipeIndex, TypeOK, Goto
<1>4. CASE WipeMap(r)
  BY <1>0, <1>4, FinishType DEF WipeMap, TypeOK
<1>5. QED
  BY <1>1, <1>2, <1>3, <1>4 DEF Wipe

LEMMA FaultType ==
    ASSUME TypeOK, NEW r \in Runners, Fault(r)
    PROVE  TypeOK'
<1>1. pending' \subseteq Jobs
  BY DEF Fault, TypeOK
<1>2. faults' \in 0..MaxFaults
  BY ConstAssumption DEF Fault, TypeOK
<1>3. QED
  BY <1>1, <1>2, FinishType DEF Fault, TypeOK, storeVars

(* Every variable keeps its type; in particular resolve_chat_dir always     *)
(* settles on a folder and a sheet only renames chats it has a name for.    *)
THEOREM FoldersTypeCorrect == Spec => []TypeOK
<1>1. Init => TypeOK
  <2> SUFFICES ASSUME Init PROVE TypeOK
    OBVIOUS
  <2>1. "idle" \in Steps /\ Blank \in Maps
    BY DEF Steps, Blank, Maps
  <2>2. dir \subseteq Folders /\ pending \subseteq Jobs
    BY ConstAssumption DEF Init
  <2>3. faults \in 0..MaxFaults
    BY ConstAssumption DEF Init
  <2>4. lines \in [Folders -> SUBSET Events]
    BY ConstAssumption DEF Init
  <2>5. QED
    BY <2>1, <2>2, <2>3, <2>4 DEF Init, TypeOK
<1>2. TypeOK /\ [Next]_vars => TypeOK'
  <2> SUFFICES ASSUME TypeOK, [Next]_vars PROVE TypeOK'
    OBVIOUS
  <2>1. ASSUME NEW r \in Runners, Pass(r) PROVE TypeOK'
    BY <2>1, TakeEventType, PlaceType, SaveType, NamesType, WipeType DEF Pass
  <2>2. ASSUME NEW r \in Runners, Fault(r) PROVE TypeOK'
    BY <2>2, FaultType
  <2>3. CASE UNCHANGED vars
    BY <2>3 DEF vars, TypeOK
  <2>4. QED
    BY <2>1, <2>2, <2>3 DEF Next
<1>3. QED
  BY <1>1, <1>2, PTL DEF Spec

-----------------------------------------------------------------------------
(* No line is lost.                                                         *)

OneRunner == \A r, s \in Runners : r = s

(* A folder that is not there has no log, and before the old folder of a    *)
(* merge is removed, the lines of the log that a merge appends stand in the *)
(* target.                                                                  *)
MergeInv ==
    /\ \A F \in Folders : F \notin dir => lines[F] = {}
    /\ \A r \in Runners : pc[r] = "drop" =>
          /\ old[r] # folder[r]
          /\ lines[old[r]] \ Left(old[r]) \subseteq lines[folder[r]]

(* A rename onto a free name keeps every line and the rule about absent     *)
(* folders.                                                                 *)
LEMMA RenameKeeps ==
    ASSUME TypeOK, MergeInv, NEW F \in dir, NEW G \in Folders, G \notin dir, RenameDir(F, G)
    PROVE  /\ \A e \in Events : Logged(e) => Logged(e)'
           /\ \A H \in Folders : H \notin dir' => lines'[H] = {}
<1>1. F \in Folders /\ F # G /\ lines[G] = {}
  BY DEF TypeOK, MergeInv
<1>2. \A H \in Folders : lines'[H] = IF H = F THEN {} ELSE IF H = G THEN lines[F] ELSE lines[H]
  BY <1>1 DEF RenameDir, TypeOK
<1>3. ASSUME NEW e \in Events, Logged(e) PROVE Logged(e)'
  <2>1. PICK H \in Folders : e \in lines[H]
    BY <1>3 DEF Logged
  <2>2. e \in lines'[IF H = F THEN G ELSE H]
    BY <1>1, <1>2, <2>1
  <2>3. QED
    BY <2>1, <2>2 DEF Logged
<1>4. \A H \in Folders : H \notin dir' => lines'[H] = {}
  BY <1>1, <1>2 DEF RenameDir, MergeInv
<1>5. QED
  BY <1>3, <1>4

LEMMA MergeStep ==
    ASSUME TypeOK, MergeInv, OneRunner, NEW r \in Runners, Pass(r) \/ Fault(r)
    PROVE  /\ MergeInv'
           /\ \A e \in Events : Logged(e) =>
                 \/ Logged(e)'
                 \/ pc[r] = "wipe" /\ pc'[r] = "wipeIndex"
                 \/ pc[r] = "drop" /\ e \in Left(old[r])
<1> DEFINE Kept == \A e \in Events : Logged(e) => Logged(e)'
           Absent == \A F \in Folders : F \notin dir => lines[F] = {}
<1>1. CASE Absent' /\ Kept /\ pc'[r] # "drop"
  BY <1>1 DEF MergeInv, OneRunner
<1>2. CASE UpgradeFolder(r)
  <2>1. Cur(r) \in dir /\ Wanted(r) \notin dir /\ RenameDir(Cur(r), Wanted(r)) /\ pc[r] = "place"
    BY <1>2 DEF UpgradeFolder, Upgrades
  <2>2. pc'[r] # "drop"
    BY <1>2 DEF UpgradeFolder, Goto, TypeOK
  <2>3. QED
    BY <1>1, <2>1, <2>2, FolderTypes, RenameKeeps
<1>3. CASE PlaceAnew(r)
  <2> DEFINE from == Standing(Chat(r))
             target == Target(r)
             appended == lines[from] \ Left(from)
  <2>1. pc[r] = "place" /\ from \in Folders /\ target \in Folders
    BY <1>3, FolderTypes DEF PlaceAnew
  <2>2. CASE from \in dir /\ target \notin dir /\ RenameDir(from, target) /\ Goto(r, "save")
    <3>1. pc'[r] # "drop"
      BY <2>2 DEF Goto, TypeOK
    <3>2. QED
      BY <1>1, <2>1, <2>2, <3>1, RenameKeeps
  <2>3. CASE /\ from # target /\ target \in dir /\ UNCHANGED <<dir, bodies>>
             /\ lines' = [lines EXCEPT ![target] = @ \cup appended]
             /\ first' = [first EXCEPT ![target] = @ \ appended]
             /\ old' = [old EXCEPT ![r] = from]
             /\ Goto(r, "drop")
    <3>1. \A F \in Folders : lines[F] \subseteq lines'[F]
      BY <2>1, <2>3 DEF TypeOK
    <3>2. Kept
      BY <3>1 DEF Logged
    <3>3. Absent'
      BY <2>1, <2>3 DEF TypeOK, MergeInv
    <3>4. folder'[r] = target /\ old'[r] = from
      BY <1>3, <2>1, <2>3 DEF PlaceAnew, Settle, TypeOK
    <3>5. lines'[from] = lines[from] /\ first'[from] = first[from]
      BY <2>1, <2>3 DEF TypeOK
    <3>6. appended \subseteq lines'[target]
      BY <2>1, <2>3 DEF TypeOK
    <3>7. lines'[old'[r]] \ Left(old[r])' \subseteq lines'[folder'[r]]
      BY <3>4, <3>5, <3>6 DEF Left
    <3>8. QED
      BY <2>3, <3>2, <3>3, <3>4, <3>7 DEF MergeInv, OneRunner
  <2>4. CASE UNCHANGED <<lines, bodies>> /\ dir' = dir \cup {target} /\ Goto(r, "save")
    <3>1. pc'[r] # "drop"
      BY <2>4 DEF Goto, TypeOK
    <3>2. Absent' /\ Kept
      BY <2>4 DEF MergeInv, Logged
    <3>3. QED
      BY <1>1, <3>1, <3>2
  <2>5. QED
    BY <1>3, <2>2, <2>3, <2>4 DEF PlaceAnew
<1>4. CASE DropOld(r)
  <2>1. /\ pc[r] = "drop" /\ old[r] # folder[r]
        /\ lines[old[r]] \ Left(old[r]) \subseteq lines[folder[r]]
        /\ folder[r] \in Folders
    BY <1>4 DEF DropOld, MergeInv, TypeOK
  <2>2. \A F \in Folders : lines'[F] = IF F = old[r] THEN {} ELSE lines[F]
    BY <1>4 DEF DropOld, TypeOK
  <2>3. ASSUME NEW e \in Events, Logged(e), e \notin Left(old[r]) PROVE Logged(e)'
    BY <2>1, <2>2, <2>3 DEF Logged
  <2>4. Absent' /\ pc'[r] # "drop"
    BY <1>4, <2>2 DEF DropOld, MergeInv, Goto, TypeOK
  <2>5. MergeInv'
    BY <2>4 DEF MergeInv, OneRunner
  <2>6. QED
    BY <2>1, <2>3, <2>5
<1>5. CASE RenameChat(r)
  <2>1. PICK c \in todo[r] :
          \/ UNCHANGED <<dir, lines, bodies>>
          \/ /\ snap[r][c] \in dir
             /\ NameFolder[SheetName[job[r]][c]] \notin dir
             /\ RenameDir(snap[r][c], NameFolder[SheetName[job[r]][c]])
    BY <1>5 DEF RenameChat
  <2>2. pc'[r] # "drop"
    BY <1>5 DEF RenameChat
  <2>3. NameFolder[SheetName[job[r]][c]] \in Folders
    <3>1. job[r] \in Sheets /\ c \in Chats /\ SheetName[job[r]][c] # NoName
      BY <1>5, <2>1 DEF RenameChat, TypeOK
    <3>2. SheetName[job[r]] \in [Chats -> Names \cup {NoName}]
      BY <3>1, ConstAssumption
    <3>3. QED
      BY <3>1, <3>2, ConstAssumption
  <2>4. CASE UNCHANGED <<dir, lines, bodies>>
    BY <1>1, <2>2, <2>4 DEF MergeInv, Logged
  <2>5. QED
    BY <1>1, <2>1, <2>2, <2>3, <2>4, RenameKeeps
<1>6. CASE Write(r)
  <2>1. folder[r] \in Folders
    BY <1>6 DEF Write, TypeOK
  <2>2. /\ dir' = dir \cup {folder[r]}
        /\ \A F \in Folders : lines'[F] = IF F = folder[r] THEN lines[F] \cup {job[r]} ELSE lines[F]
    BY <1>6, <2>1 DEF Write, TypeOK
  <2>3. Kept
    BY <2>2 DEF Logged
  <2>4. Absent' /\ pc'[r] # "drop"
    BY <1>6, <2>2 DEF Write, Finish, Goto, MergeInv, TypeOK
  <2>5. QED
    BY <1>1, <2>3, <2>4
<1>7. CASE WipeDirs(r)
  BY <1>7 DEF WipeDirs, MergeInv, Goto, TypeOK, OneRunner
<1>8. CASE UNCHANGED <<dir, lines>> /\ pc'[r] # "drop"
  BY <1>1, <1>8 DEF MergeInv, Logged
<1>9. CASE \/ TakeEvent(r) \/ KeepFolder(r) \/ Save(r) \/ TakeSheet(r) \/ NamesApplied(r)
           \/ TakeWipe(r) \/ WipeIndex(r) \/ WipeMap(r) \/ Fault(r)
  BY <1>8, <1>9 DEF TakeEvent, KeepFolder, Save, OpenMap, WriteMap, TakeSheet, NamesApplied,
                    TakeWipe, WipeIndex, WipeMap, Fault, Take, Finish, Goto, storeVars, TypeOK
<1>10. QED
  BY <1>2, <1>3, <1>4, <1>5, <1>6, <1>7, <1>9 DEF Pass, Place, Wipe

(* With one consumer process no line of any chat's log is ever lost, by any *)
(* sequence of renames, merges, name sheets and crashes, except by a wipe,  *)
(* and by the merge of a folder that has both logs: there exactly the lines *)
(* of the first layout go.                                                  *)
THEOREM NoLineLost == ASSUME OneRunner PROVE Spec => LinesKept
<1> DEFINE Step == \A e \in Events : Logged(e) =>
              \/ Logged(e)'
              \/ \E r \in Runners : pc[r] = "wipe" /\ pc'[r] = "wipeIndex"
              \/ \E r \in Runners : pc[r] = "drop" /\ e \in Left(old[r])
<1>1. Init => MergeInv
  <2> SUFFICES ASSUME Init PROVE MergeInv
    OBVIOUS
  <2>1. \A F \in Folders : F \notin dir => lines[F] = {}
    BY DEF Init
  <2>2. QED
    BY <2>1 DEF Init, MergeInv
<1>2. TypeOK /\ MergeInv /\ [Next]_vars => MergeInv'
  <2>1. ASSUME TypeOK, MergeInv, Next PROVE MergeInv'
    BY <2>1, MergeStep DEF Next
  <2>2. ASSUME MergeInv, UNCHANGED vars PROVE MergeInv'
    BY <2>2 DEF vars, MergeInv, Left
  <2>3. QED
    BY <2>1, <2>2
<1>3. TypeOK /\ MergeInv /\ [Next]_vars => [Step]_vars
  <2> SUFFICES ASSUME TypeOK, MergeInv, Next PROVE Step
    OBVIOUS
  <2>1. QED
    BY MergeStep DEF Next
<1>4. QED
  BY <1>1, <1>2, <1>3, FoldersTypeCorrect, PTL DEF Spec, LinesKept

-----------------------------------------------------------------------------
(* The log of a chat whose names are its own.                               *)

(* The map as the runner has it in hand: while it is about to be rewritten, *)
(* the copy in memory counts, and after a wipe of the folders an empty one. *)
Known(r) == IF pc[r] \in {"idle", "wipe"} THEN map
            ELSE IF pc[r] \in {"wipeIndex", "wipeMap"} THEN Blank
            ELSE snap[r]

(* Where c is: until it is placed, under the bare id if anywhere.           *)
Home(r, c) == IF Known(r)[c] = NoFolder THEN Standing(c) ELSE Known(r)[c]

(* Of all the folders that c may get at most one exists, it is the one of   *)
(* the map, and c's lines are there.                                        *)
OwnHome(r, c) ==
    /\ Known(r)[c] \in Places(c) \cup {NoFolder}
    /\ Known(r)[c] # NoFolder => Known(r)[c] \in dir
    /\ \A F \in Places(c) \cap dir : F = Home(r, c)
    /\ \A e \in Events, F \in Folders : EvChat[e] = c /\ e \in lines[F] =>
          F = Home(r, c) /\ (Known(r)[c] = NoFolder => e \in Old)

Tidy(r) ==
    /\ pc[r] \in {"drop", "save", "saving", "write"} /\ job[r] \in Events =>
          folder[r] = snap[r][Chat(r)]
    /\ pc[r] = "drop" => ~OwnNames(Chat(r)) /\ old[r] \in Places(Chat(r))
    /\ pc[r] = "write" => map = snap[r]
    /\ \A k \in Chats : Known(r)[k] \in Places(k) \cup Suffixes(k) \cup {NoFolder}
    /\ \A c \in Chats : OwnNames(c) => OwnHome(r, c)

TidyInv(r) == TypeOK /\ MergeInv /\ (faults = 0 => Tidy(r))

LEMMA PlacesTypes ==
    ASSUME NEW k \in Chats
    PROVE  /\ Places(k) \subseteq Folders /\ Suffixes(k) \subseteq Folders
           /\ IdFolder[k] \in Places(k) /\ DmsFolder[k] \in Places(k)
           /\ Standing(k) \in Places(k) /\ NoFolder \notin Folders
<1>1. NamedFolders(k) \subseteq Folders
  <2>1. \A e \in Events : EvName[e] # NoName => NameFolder[EvName[e]] \in Folders
    BY ConstAssumption
  <2>2. \A s \in Sheets : SheetName[s][k] # NoName => NameFolder[SheetName[s][k]] \in Folders
    BY ConstAssumption
  <2>3. QED
    BY <2>1, <2>2 DEF NamedFolders
<1>2. Places(k) \subseteq Folders
  BY <1>1, ConstAssumption DEF Places
<1>3. Suffixes(k) \subseteq Folders
  BY <1>2, ConstAssumption DEF Suffixes
<1>4. QED
  BY <1>2, <1>3, ConstAssumption DEF Places, Standing

(* Steps that leave c's folders and lines alone.                            *)
LEMMA Elsewhere ==
    ASSUME NEW r \in Runners, NEW c \in Chats, OwnHome(r, c),
           Known(r)'[c] = Known(r)[c],
           \A F \in Places(c) : F \in dir' <=> F \in dir,
           \A e \in Events, F \in Folders : EvChat[e] = c /\ e \in lines'[F] => e \in lines[F]
    PROVE  OwnHome(r, c)'
<1>1. Standing(c)' = Standing(c)
  BY PlacesTypes DEF Standing
<1>2. QED
  BY <1>1 DEF OwnHome, Home

LEMMA RenameElsewhere ==
    ASSUME TypeOK, MergeInv, NEW r \in Runners, NEW c \in Chats, OwnHome(r, c),
           NEW F \in dir, NEW G \in Folders, G \notin dir, RenameDir(F, G),
           F \notin Places(c), G \notin Places(c), Known(r)'[c] = Known(r)[c]
    PROVE  OwnHome(r, c)'
<1>1. F \in Folders /\ F # G /\ Home(r, c) \in Places(c)
  BY PlacesTypes DEF TypeOK, OwnHome, Home
<1>2. \A H \in Folders : lines'[H] = IF H = F THEN {} ELSE IF H = G THEN lines[F] ELSE lines[H]
  BY <1>1 DEF RenameDir, TypeOK
<1>3. \A e \in Events : EvChat[e] = c => e \notin lines[F]
  BY <1>1 DEF OwnHome
<1>4. \A e \in Events, H \in Folders : EvChat[e] = c /\ e \in lines'[H] => e \in lines[H]
  BY <1>2, <1>3
<1>5. \A H \in Places(c) : H \in dir' <=> H \in dir
  BY DEF RenameDir
<1>6. QED
  BY <1>4, <1>5, Elsewhere

LEMMA RenameHome ==
    ASSUME TypeOK, MergeInv, NEW r \in Runners, NEW c \in Chats, OwnHome(r, c),
           NEW F \in Places(c), F \in dir, NEW G \in Places(c), G \notin dir, RenameDir(F, G),
           Known(r)'[c] = G
    PROVE  OwnHome(r, c)'
<1>1. F \in Folders /\ G \in Folders /\ F # G /\ F = Home(r, c) /\ G # NoFolder
  BY PlacesTypes DEF OwnHome
<1>2. \A H \in Folders : lines'[H] = IF H = F THEN {} ELSE IF H = G THEN lines[F] ELSE lines[H]
  BY <1>1 DEF RenameDir, TypeOK
<1>3. \A e \in Events, H \in Folders : EvChat[e] = c /\ e \in lines'[H] => H = G
  BY <1>1, <1>2 DEF OwnHome
<1>4. dir' = (dir \ {F}) \cup {G}
  BY DEF RenameDir
<1>5. \A H \in Places(c) \cap dir' : H = G
  BY <1>1, <1>4 DEF OwnHome
<1>6. Home(r, c)' = G
  BY <1>1 DEF Home
<1>7. QED
  BY <1>1, <1>3, <1>4, <1>5, <1>6 DEF OwnHome

(* What resolve_chat_dir wants is a folder of the chat, and of its own name *)
(* when nobody else can have that.                                          *)
LEMMA WantedFacts ==
    ASSUME TypeOK, NEW r \in Runners, Tidy(r), pc[r] = "place"
    PROVE  /\ Chat(r) \in Chats /\ Known(r) = snap[r]
           /\ Cur(r) \in Places(Chat(r)) \cup Suffixes(Chat(r)) \cup {NoFolder}
           /\ Wanted(r) \in Places(Chat(r)) \/ Wanted(r) = Cur(r)
           /\ Wanted(r) \in Places(Chat(r)) \cup Suffixes(Chat(r))
           /\ Target(r) \in Places(Chat(r)) \cup Suffixes(Chat(r))
           /\ OwnNames(Chat(r)) =>
                 /\ Wanted(r) \in Places(Chat(r)) /\ Target(r) = Wanted(r)
                 /\ OwnHome(r, Chat(r))
<1> DEFINE k == Chat(r)
<1>1. k \in Chats /\ job[r] \in Events /\ Wanted(r) \in Folders
  BY FolderTypes
<1>2. Known(r) = snap[r]
  BY DEF Known
<1>3. Cur(r) \in Places(k) \cup Suffixes(k) \cup {NoFolder}
  BY <1>1, <1>2 DEF Tidy, Cur
<1>4. OwnNames(k) => OwnHome(r, k)
  BY <1>1 DEF Tidy
<1>5. Wanted(r) \in Places(k) \/ (Wanted(r) = Cur(r) /\ Cur(r) # NoFolder)
  <2>1. CASE Named(r)
    BY <1>1, <2>1 DEF Wanted, Named, Places, NamedFolders, Chat
  <2>2. CASE ~Named(r)
    BY <1>1, <2>2, PlacesTypes DEF Wanted
  <2>3. QED
    BY <2>1, <2>2
<1>6. OwnNames(k) => Cur(r) \in Places(k) \cup {NoFolder}
  BY <1>2, <1>4 DEF OwnHome, Cur
<1>7. Target(r) = Wanted(r) \/ (Target(r) = Suffixed[Wanted(r)][k] /\ Wanted(r) \in Places(k))
  BY <1>5 DEF Target
<1>8. OwnNames(k) => Target(r) = Wanted(r)
  <2> SUFFICES ASSUME OwnNames(k), NEW d \in Chats \ {k}, snap[r][d] = Wanted(r) PROVE FALSE
    BY DEF Target
  <2>1. Wanted(r) \in Places(k)
    BY <1>5, <1>6
  <2>2. snap[r][d] \in Places(d) \cup Suffixes(d)
    BY <1>1, <1>2, PlacesTypes DEF Tidy
  <2>3. QED
    BY <2>1, <2>2 DEF OwnNames
<1>9. QED
  BY <1>1, <1>2, <1>3, <1>4, <1>5, <1>6, <1>7, <1>8 DEF Suffixes

(* resolve_chat_dir settles on F, and every chat with names of its own is   *)
(* where the map says.                                                      *)
LEMMA SettleTidy ==
    ASSUME TypeOK, NEW r \in Runners, Tidy(r), pc[r] = "place",
           NEW F \in Places(Chat(r)) \cup Suffixes(Chat(r)), Settle(r, Chat(r), F),
           pc'[r] \in {"save", "drop"}, job' = job,
           pc'[r] = "drop" => ~OwnNames(Chat(r)) /\ old'[r] \in Places(Chat(r)),
           Known(r)'[Chat(r)] = F /\ (\A c \in Chats \ {Chat(r)} : Known(r)'[c] = Known(r)[c])
              => \A c \in Chats : OwnNames(c) => OwnHome(r, c)'
    PROVE  Tidy(r)'
<1>1. Chat(r) \in Chats /\ Known(r) = snap[r]
  BY WantedFacts
<1>2. snap'[r] = [snap[r] EXCEPT ![Chat(r)] = F] /\ folder'[r] = F
  BY DEF Settle, TypeOK
<1>3. snap[r] \in Maps
  BY DEF TypeOK
<1>4. /\ Known(r)' = snap'[r] /\ Known(r)'[Chat(r)] = F
      /\ \A c \in Chats \ {Chat(r)} : Known(r)'[c] = Known(r)[c]
  BY <1>1, <1>2, <1>3 DEF Known, Maps
<1>5. Chat(r)' = Chat(r)
  BY DEF Chat
<1>6. \A c \in Chats : Known(r)'[c] \in Places(c) \cup Suffixes(c) \cup {NoFolder}
  BY <1>4 DEF Tidy
<1>7. QED
  BY <1>2, <1>4, <1>5, <1>6 DEF Tidy

LEMMA PlaceTidy ==
    ASSUME TypeOK, MergeInv, NEW r \in Runners, Tidy(r),
           UpgradeFolder(r) \/ KeepFolder(r) \/ PlaceAnew(r)
    PROVE  Tidy(r)'
<1> DEFINE k == Chat(r)
           C == Cur(r)
           W == Wanted(r)
           T == Target(r)
           Others == \A c \in Chats \ {k} : Known(r)'[c] = Known(r)[c]
           Homes == \A c \in Chats : OwnNames(c) => OwnHome(r, c)'
<1>1. pc[r] = "place" /\ job' = job
  BY DEF UpgradeFolder, KeepFolder, PlaceAnew, storeVars
<1>2. /\ k \in Chats /\ Known(r) = snap[r] /\ Known(r)[k] = C /\ IdFolder[k] \in Places(k)
      /\ Standing(k) \in Places(k)
      /\ C \in Places(k) \cup Suffixes(k) \cup {NoFolder}
      /\ W \in Places(k) \cup Suffixes(k) /\ T \in Places(k) \cup Suffixes(k)
      /\ W \in Folders /\ T \in Folders /\ NoFolder \notin Folders /\ dir \subseteq Folders
      /\ W \in Places(k) \/ W = C
      /\ OwnNames(k) => W \in Places(k) /\ T = W /\ OwnHome(r, k)
  BY <1>1, WantedFacts, PlacesTypes, FolderTypes DEF Cur, TypeOK
<1>3. \A c \in Chats \ {k} : OwnNames(c) =>
         OwnHome(r, c) /\ \A F \in Places(k) \cup Suffixes(k) : F \notin Places(c)
  BY <1>2 DEF Tidy, OwnNames
<1> HIDE DEF k, C, W, T
<1>4. CASE UpgradeFolder(r)
  <2>1. /\ RenameDir(C, W) /\ Settle(r, k, W) /\ C \in dir /\ W \notin dir /\ C = IdFolder[k]
        /\ Goto(r, "save")
    BY <1>4 DEF UpgradeFolder, Upgrades, k, C, W
  <2>2. pc'[r] = "save"
    BY <2>1 DEF Goto, TypeOK
  <2>3. ASSUME Known(r)'[k] = W, Others, NEW c \in Chats, OwnNames(c) PROVE OwnHome(r, c)'
    <3>1. CASE c = k
      BY <1>2, <2>1, <2>3, <3>1, RenameHome
    <3>2. CASE c # k
      BY <1>2, <1>3, <2>1, <2>3, <3>2, RenameElsewhere
    <3>3. QED
      BY <3>1, <3>2
  <2>4. QED
    BY <1>1, <1>2, <2>1, <2>2, <2>3, SettleTidy DEF k
<1>5. CASE KeepFolder(r)
  <2> DEFINE F == IF W \in dir THEN W ELSE C
  <2>1. Settle(r, k, F) /\ C \in dir /\ Goto(r, "save") /\ UNCHANGED <<dir, lines>>
    BY <1>5 DEF KeepFolder, k, C, W, storeVars
  <2>2. pc'[r] = "save" /\ F \in Places(k) \cup Suffixes(k)
    BY <1>2, <2>1 DEF Goto, TypeOK
  <2>3. OwnNames(k) => F = C
    BY <1>2, <2>1 DEF OwnHome, Home
  <2> HIDE DEF F
  <2>4. ASSUME Known(r)'[k] = F, Others, NEW c \in Chats, OwnNames(c) PROVE OwnHome(r, c)'
    BY <1>2, <1>3, <2>1, <2>3, <2>4, Elsewhere
  <2>5. QED
    BY <1>1, <1>2, <2>1, <2>2, <2>4, SettleTidy DEF k
<1>6. CASE PlaceAnew(r)
  <2> DEFINE from == Standing(k)
             appended == lines[from] \ Left(from)
  <2>1. Settle(r, k, T) /\ C \notin dir
    BY <1>6 DEF PlaceAnew, k, C, T
  <2>2. OwnNames(k) => /\ C = NoFolder /\ T \in Places(k)
                       /\ \A F \in Places(k) \cap dir : F = from
    BY <1>2, <2>1 DEF OwnHome, Home
  <2>3. CASE from \in dir /\ from # T /\ T \notin dir /\ RenameDir(from, T) /\ Goto(r, "save")
    <3>1. pc'[r] = "save"
      BY <2>3 DEF Goto, TypeOK
    <3>2. ASSUME Known(r)'[k] = T, Others, NEW c \in Chats, OwnNames(c) PROVE OwnHome(r, c)'
      <4>1. CASE c = k
        BY <1>2, <2>2, <2>3, <3>2, <4>1, RenameHome
      <4>2. CASE c # k
        BY <1>2, <1>3, <2>3, <3>2, <4>2, RenameElsewhere
      <4>3. QED
        BY <4>1, <4>2
    <3>3. QED
      BY <1>1, <1>2, <2>1, <3>1, <3>2, SettleTidy DEF k
  <2>4. CASE /\ from \in dir /\ from # T /\ T \in dir /\ UNCHANGED dir
             /\ lines' = [lines EXCEPT ![T] = @ \cup appended] /\ Goto(r, "drop")
             /\ old' = [old EXCEPT ![r] = from]
    <3>1. pc'[r] = "drop" /\ ~OwnNames(k) /\ old'[r] \in Places(k)
      BY <1>2, <2>2, <2>4 DEF Goto, TypeOK
    <3>2. \A F \in Folders : lines'[F] = IF F = T THEN lines[F] \cup appended ELSE lines[F]
      BY <1>2, <2>4 DEF TypeOK
    <3>3. ASSUME Known(r)'[k] = T, Others, NEW c \in Chats, OwnNames(c) PROVE OwnHome(r, c)'
      <4>1. c # k /\ OwnHome(r, c) /\ from \notin Places(c) /\ from \in Folders
        BY <1>2, <1>3, <2>4, <3>1, <3>3
      <4>2. Home(r, c) \in Places(c)
        BY <4>1, PlacesTypes DEF OwnHome, Home
      <4>3. \A e \in Events : EvChat[e] = c => e \notin lines[from]
        BY <4>1, <4>2 DEF OwnHome
      <4>4. \A e \in Events, F \in Folders : EvChat[e] = c /\ e \in lines'[F] => e \in lines[F]
        BY <3>2, <4>3
      <4>5. QED
        BY <2>4, <3>3, <4>1, <4>4, Elsewhere
    <3>4. QED
      BY <1>1, <1>2, <2>1, <3>1, <3>3, SettleTidy DEF k
  <2>5. CASE /\ from \notin dir \/ from = T
             /\ dir' = dir \cup {T} /\ UNCHANGED lines /\ Goto(r, "save")
    <3>1. pc'[r] = "save"
      BY <2>5 DEF Goto, TypeOK
    <3>2. ASSUME Known(r)'[k] = T, Others, NEW c \in Chats, OwnNames(c) PROVE OwnHome(r, c)'
      <4>1. CASE c = k
        <5>1. T # NoFolder /\ T \in dir' /\ Known(r)'[c] = T /\ Home(r, c)' = T
          BY <1>2, <2>5, <3>2, <4>1 DEF Home
        <5>2. T \in Places(c) /\ \A F \in Places(c) \cap dir' : F = T
          BY <2>2, <2>5, <3>2, <4>1
        <5>3. \A e \in Events, F \in Folders : EvChat[e] = c /\ e \in lines'[F] => F = T
          <6> SUFFICES ASSUME NEW e \in Events, NEW F \in Folders, EvChat[e] = c, e \in lines[F]
                       PROVE  F = T
            BY <2>5
          <6>1. F \in dir /\ F = from
            BY <1>2, <2>2, <3>2, <4>1 DEF MergeInv, OwnHome, Home
          <6>2. QED
            BY <2>5, <6>1
        <5>4. QED
          BY <1>2, <5>1, <5>2, <5>3 DEF OwnHome
      <4>2. CASE c # k
        BY <1>2, <1>3, <2>5, <3>2, <4>2, Elsewhere
      <4>3. QED
        BY <4>1, <4>2
    <3>3. QED
      BY <1>1, <1>2, <2>1, <3>1, <3>2, SettleTidy DEF k
  <2>6. QED
    BY <1>6, <2>3, <2>4, <2>5 DEF PlaceAnew, k, T
<1>7. QED
  BY <1>4, <1>5, <1>6

(* Steps that leave the directories, the logs and the known map alone.      *)
LEMMA SameTidy ==
    ASSUME TypeOK, NEW r \in Runners, Tidy(r), UNCHANGED <<dir, lines>>, Known(r)' = Known(r),
           pc'[r] # "drop", pc'[r] = "write" => map' = snap'[r],
           pc'[r] \in {"save", "saving", "write"} /\ job'[r] \in Events =>
              folder'[r] = snap'[r][EvChat[job'[r]]]
    PROVE  Tidy(r)'
<1>1. \A c \in Chats : OwnNames(c) => OwnHome(r, c)'
  BY DEF Tidy, OwnHome, Home, Standing
<1>2. \A k \in Chats : Known(r)'[k] \in Places(k) \cup Suffixes(k) \cup {NoFolder}
  BY DEF Tidy
<1>3. QED
  BY <1>1, <1>2 DEF Tidy, Chat

LEMMA QuietTidy ==
    ASSUME TypeOK, NEW r \in Runners, Tidy(r),
           \/ TakeEvent(r) \/ Save(r) \/ TakeSheet(r) \/ NamesApplied(r)
           \/ TakeWipe(r) \/ WipeIndex(r) \/ WipeMap(r)
    PROVE  Tidy(r)'
<1> USE DEF storeVars, Goto, Take, Finish
<1>1. CASE TakeEvent(r)
  <2>1. pc[r] = "idle" /\ pc'[r] = "place" /\ snap'[r] = map /\ UNCHANGED <<dir, lines>>
    BY <1>1 DEF TakeEvent, TypeOK
  <2>2. QED
    BY <2>1, SameTidy DEF Known
<1>2. CASE TakeSheet(r)
  <2>1. pc[r] = "idle" /\ pc'[r] = "names" /\ snap'[r] = map /\ UNCHANGED <<dir, lines>>
    BY <1>2 DEF TakeSheet, TypeOK
  <2>2. QED
    BY <2>1, SameTidy DEF Known
<1>3. CASE NamesApplied(r)
  <2>1. pc[r] = "names" /\ pc'[r] = "save" /\ job[r] \in Sheets
        /\ UNCHANGED <<dir, lines, snap, job>>
    BY <1>3 DEF NamesApplied, TypeOK
  <2>2. job'[r] \notin Events
    BY <2>1, ConstAssumption
  <2>3. QED
    BY <2>1, <2>2, SameTidy DEF Known
<1>4. CASE OpenMap(r)
  <2>1. pc[r] = "save" /\ pc'[r] = "saving" /\ UNCHANGED <<dir, lines, snap, job, folder>>
    BY <1>4 DEF OpenMap, TypeOK
  <2>2. QED
    BY <2>1, SameTidy DEF Known, Tidy, Chat
<1>5. CASE WriteMap(r)
  <2>1. pc[r] = "saving" /\ map' = snap[r] /\ UNCHANGED <<dir, lines>>
    BY <1>5 DEF WriteMap
  <2>2. CASE job[r] \in Events
    <3>1. pc'[r] = "write" /\ UNCHANGED <<snap, job, folder>>
      BY <1>5, <2>2 DEF WriteMap, TypeOK
    <3>2. QED
      BY <2>1, <3>1, SameTidy DEF Known, Tidy, Chat
  <2>3. CASE job[r] \notin Events
    <3>1. pc'[r] = "idle"
      BY <1>5, <2>3 DEF WriteMap, TypeOK
    <3>2. QED
      BY <2>1, <3>1, SameTidy DEF Known
  <2>4. QED
    BY <2>2, <2>3
<1>6. CASE TakeWipe(r)
  <2>1. pc[r] = "idle" /\ pc'[r] = "wipe" /\ UNCHANGED <<dir, lines, map>>
    BY <1>6 DEF TakeWipe, TypeOK
  <2>2. QED
    BY <2>1, SameTidy DEF Known
<1>7. CASE WipeIndex(r)
  <2>1. pc[r] = "wipeIndex" /\ pc'[r] = "wipeMap" /\ UNCHANGED <<dir, lines>>
    BY <1>7 DEF WipeIndex, TypeOK
  <2>2. QED
    BY <2>1, SameTidy DEF Known, Blank
<1>8. CASE WipeMap(r)
  <2>1. pc[r] = "wipeMap" /\ pc'[r] = "idle" /\ map' = Blank /\ UNCHANGED <<dir, lines>>
    BY <1>8 DEF WipeMap, TypeOK
  <2>2. QED
    BY <2>1, SameTidy DEF Known, Blank
<1>9. QED
  BY <1>1, <1>2, <1>3, <1>4, <1>5, <1>6, <1>7, <1>8 DEF Save

LEMMA WipeDirsTidy ==
    ASSUME TypeOK, NEW r \in Runners, WipeDirs(r)
    PROVE  Tidy(r)'
<1>1. pc'[r] = "wipeIndex" /\ dir' = {} /\ lines' = [F \in Folders |-> {}]
  BY DEF WipeDirs, Goto, TypeOK
<1>2. Known(r)' = Blank
  BY <1>1 DEF Known, Blank
<1>3. \A c \in Chats : OwnHome(r, c)'
  BY <1>1, <1>2 DEF OwnHome, Blank
<1>4. QED
  BY <1>1, <1>2, <1>3 DEF Tidy, Blank

(* Only a chat with names that others share is ever merged.                 *)
LEMMA DropTidy ==
    ASSUME TypeOK, NEW r \in Runners, Tidy(r), DropOld(r)
    PROVE  Tidy(r)'
<1> DEFINE k == Chat(r)
<1>1. /\ pc[r] = "drop" /\ pc'[r] = "save" /\ UNCHANGED <<job, snap, folder>>
      /\ dir' = (dir \ {old[r]}) \cup {folder[r]}
      /\ lines' = [lines EXCEPT ![old[r]] = {}]
  BY DEF DropOld, Goto, TypeOK
<1>2. job[r] \in Events /\ k \in Chats /\ Known(r) = snap[r] /\ Known(r)' = snap[r]
  BY <1>1, ConstAssumption DEF TypeOK, Chat, Known
<1>3. /\ ~OwnNames(k) /\ folder[r] \in Places(k) \cup Suffixes(k) /\ old[r] \in Places(k)
  <2>1. folder[r] = Known(r)[k] /\ folder[r] # NoFolder
    BY <1>1, <1>2, ConstAssumption DEF Tidy, TypeOK
  <2>2. QED
    BY <1>1, <1>2, <2>1, PlacesTypes DEF Tidy
<1> HIDE DEF k
<1>4. ASSUME NEW c \in Chats, OwnNames(c) PROVE OwnHome(r, c)'
  <2>1. OwnHome(r, c) /\ \A F \in Places(k) \cup Suffixes(k) : F \notin Places(c)
    BY <1>2, <1>3, <1>4 DEF Tidy, OwnNames
  <2>2. \A F \in Places(c) : F \in dir' <=> F \in dir
    BY <1>1, <1>3, <2>1
  <2>3. \A e \in Events, F \in Folders : e \in lines'[F] => e \in lines[F]
    BY <1>1 DEF TypeOK
  <2>4. QED
    BY <1>2, <2>1, <2>2, <2>3, Elsewhere
<1>5. QED
  BY <1>1, <1>2, <1>4 DEF Tidy, Chat

LEMMA WriteTidy ==
    ASSUME TypeOK, NEW r \in Runners, Tidy(r), Write(r)
    PROVE  Tidy(r)'
<1> DEFINE k == Chat(r)
           H == folder[r]
<1>1. /\ pc[r] = "write" /\ pc'[r] = "idle" /\ UNCHANGED map
      /\ dir' = dir \cup {H} /\ lines' = [lines EXCEPT ![H] = @ \cup {job[r]}]
  BY DEF Write, Finish, Goto, TypeOK
<1>2. job[r] \in Events /\ k \in Chats /\ k = EvChat[job[r]] /\ H \in Folders
  BY <1>1, ConstAssumption DEF TypeOK, Chat
<1>3. Known(r) = snap[r] /\ H = Known(r)[k] /\ H # NoFolder /\ Known(r)' = Known(r)
  BY <1>1, <1>2, ConstAssumption DEF Known, Tidy
<1>4. \A e \in Events, F \in Folders : e \in lines'[F] => e \in lines[F] \/ (e = job[r] /\ F = H)
  BY <1>1, <1>2 DEF TypeOK
<1> HIDE DEF k, H
<1>5. ASSUME NEW c \in Chats, OwnNames(c) PROVE OwnHome(r, c)'
  <2>1. OwnHome(r, c)
    BY <1>5 DEF Tidy
  <2>2. CASE c = k
    <3>1. H = Home(r, c) /\ H \in dir /\ dir' = dir /\ Home(r, c)' = Home(r, c)
      BY <1>1, <1>3, <2>1, <2>2 DEF OwnHome, Home
    <3>2. QED
      BY <1>3, <1>4, <2>1, <2>2, <3>1 DEF OwnHome
  <2>3. CASE c # k
    <3>1. H \in Places(k) \cup Suffixes(k)
      BY <1>2, <1>3 DEF Tidy
    <3>2. H \notin Places(c)
      BY <1>2, <1>5, <2>3, <3>1 DEF OwnNames
    <3>3. \A F \in Places(c) : F \in dir' <=> F \in dir
      BY <1>1, <3>2
    <3>4. \A e \in Events, F \in Folders : EvChat[e] = c /\ e \in lines'[F] => e \in lines[F]
      BY <1>2, <1>4, <2>3
    <3>5. QED
      BY <1>3, <2>1, <3>3, <3>4, Elsewhere
  <2>4. QED
    BY <2>2, <2>3
<1>6. QED
  BY <1>1, <1>3, <1>5 DEF Tidy

(* A name sheet renames a chat to a free name of its own.                   *)
LEMMA NamesTidy ==
    ASSUME TypeOK, MergeInv, NEW r \in Runners, Tidy(r), RenameChat(r)
    PROVE  Tidy(r)'
<1>1. pc[r] = "names" /\ UNCHANGED <<pc, job, folder, map>> /\ job[r] \in Sheets
  BY DEF RenameChat, TypeOK
<1>2. Known(r) = snap[r] /\ Known(r)' = snap'[r] /\ snap[r] \in Maps /\ dir \subseteq Folders
  BY <1>1 DEF Known, TypeOK
<1>3. PICK k \in todo[r] :
        \/ UNCHANGED <<dir, lines, snap>>
        \/ /\ snap[r][k] \in dir
           /\ NameFolder[SheetName[job[r]][k]] \notin dir
           /\ RenameDir(snap[r][k], NameFolder[SheetName[job[r]][k]])
           /\ snap' = [snap EXCEPT ![r][k] = NameFolder[SheetName[job[r]][k]]]
  BY DEF RenameChat
<1> DEFINE C == snap[r][k]
           W == NameFolder[SheetName[job[r]][k]]
<1>4. k \in Chats /\ W \in Places(k)
  BY <1>1 DEF TypeOK, Places, NamedFolders
<1>5. CASE UNCHANGED <<dir, lines, snap>>
  BY <1>1, <1>2, <1>5, SameTidy
<1>6. CASE C \in dir /\ W \notin dir /\ RenameDir(C, W) /\ snap' = [snap EXCEPT ![r][k] = W]
  <2>1. Known(r)'[k] = W /\ \A c \in Chats \ {k} : Known(r)'[c] = Known(r)[c]
    BY <1>2, <1>4, <1>6 DEF TypeOK, Maps
  <2>2. C \in Places(k) \cup Suffixes(k) /\ W \in Folders
    BY <1>2, <1>4, <1>6, PlacesTypes DEF Tidy
  <2>3. C = Known(r)[k]
    BY <1>2
  <2> HIDE DEF C, W
  <2>4. ASSUME NEW c \in Chats, OwnNames(c) PROVE OwnHome(r, c)'
    <3>1. OwnHome(r, c)
      BY <2>4 DEF Tidy
    <3>2. CASE c = k
      <4>1. C \in Places(c)
        BY <1>2, <1>6, <2>3, <3>1, <3>2, PlacesTypes DEF OwnHome
      <4>2. QED
        BY <1>4, <1>6, <2>1, <3>1, <3>2, <4>1, RenameHome
    <3>3. CASE c # k
      <4>1. C \notin Places(c) /\ W \notin Places(c)
        BY <1>4, <2>2, <2>4, <3>3 DEF OwnNames
      <4>2. QED
        BY <1>6, <2>1, <2>2, <3>1, <3>3, <4>1, RenameElsewhere
    <3>4. QED
      BY <3>2, <3>3
  <2>5. \A c \in Chats : Known(r)'[c] \in Places(c) \cup Suffixes(c) \cup {NoFolder}
    BY <1>4, <2>1 DEF Tidy
  <2>6. QED
    BY <1>1, <2>4, <2>5 DEF Tidy
<1>7. QED
  BY <1>3, <1>5, <1>6

LEMMA TidyStep ==
    ASSUME TypeOK, MergeInv, NEW r \in Runners, Tidy(r), Pass(r)
    PROVE  Tidy(r)'
  BY PlaceTidy, QuietTidy, WipeDirsTidy, DropTidy, WriteTidy, NamesTidy DEF Pass, Place, Wipe

LEMMA TidyInit ==
    ASSUME Init, NEW r \in Runners
    PROVE  Tidy(r)
<1>1. /\ pc[r] = "idle" /\ Known(r) = Blank /\ dir = {DmsFolder[EvChat[e]] : e \in Old}
      /\ lines = [F \in Folders |-> {e \in Old : DmsFolder[EvChat[e]] = F}]
  BY DEF Init, Known
<1>2. ASSUME NEW c \in Chats, OwnNames(c) PROVE OwnHome(r, c)
  <2>1. Known(r)[c] = NoFolder /\ Home(r, c) = Standing(c)
    BY <1>1 DEF Blank, Home
  <2>2. ASSUME NEW F \in Places(c) \cap dir PROVE F = DmsFolder[c]
    <3>1. PICK e \in Old : F = DmsFolder[EvChat[e]]
      BY <1>1
    <3>2. EvChat[e] \in Chats /\ F \in Places(EvChat[e])
      BY <3>1, ConstAssumption DEF Places
    <3>3. QED
      BY <1>2, <3>1, <3>2 DEF OwnNames
  <2>3. Standing(c) = DmsFolder[c]
    BY <2>2, PlacesTypes DEF Standing
  <2>4. ASSUME NEW e \in Events, NEW F \in Folders, EvChat[e] = c, e \in lines[F]
        PROVE  F = DmsFolder[c] /\ e \in Old
    BY <1>1, <2>4
  <2>5. QED
    BY <2>1, <2>2, <2>3, <2>4 DEF OwnHome
<1>3. QED
  BY <1>1, <1>2 DEF Tidy, Blank

(* With one consumer the invariant holds in every state.                    *)
LEMMA AlwaysTidy == ASSUME NEW watch, Runners = {watch} PROVE Spec => []TidyInv(watch)
<1>1. OneRunner /\ watch \in Runners
  BY DEF OneRunner
<1>2. Init => MergeInv /\ Tidy(watch)
  <2> SUFFICES ASSUME Init PROVE MergeInv /\ Tidy(watch)
    OBVIOUS
  <2>1. \A F \in Folders : F \notin dir => lines[F] = {}
    BY DEF Init
  <2>2. QED
    BY <1>1, <2>1, TidyInit DEF Init, MergeInv
<1>3. TypeOK /\ MergeInv /\ (faults = 0 => Tidy(watch)) /\ [Next]_vars
         => MergeInv' /\ (faults' = 0 => Tidy(watch)')
  <2> SUFFICES ASSUME TypeOK, MergeInv, faults = 0 => Tidy(watch), [Next]_vars
               PROVE  MergeInv' /\ (faults' = 0 => Tidy(watch)')
    OBVIOUS
  <2>1. CASE Pass(watch)
    <3>1. faults' = faults
      BY <2>1 DEF Pass, Place, Save, Wipe, TakeEvent, UpgradeFolder, KeepFolder, PlaceAnew, DropOld,
                  OpenMap, WriteMap, Write, TakeSheet, RenameChat, NamesApplied, TakeWipe, WipeDirs,
                  WipeIndex, WipeMap
    <3>2. QED
      BY <1>1, <2>1, <3>1, MergeStep, TidyStep
  <2>2. CASE Fault(watch)
    <3>1. faults' # 0
      BY <2>2, ConstAssumption DEF Fault, TypeOK
    <3>2. QED
      BY <1>1, <2>2, <3>1, MergeStep
  <2>3. CASE UNCHANGED vars
    BY <2>3 DEF vars, MergeInv, Left, Tidy, OwnHome, Home, Standing, Known, Chat
  <2>4. QED
    BY <1>1, <2>1, <2>2, <2>3 DEF Next
<1>4. TypeOK /\ Init => TidyInv(watch)
  BY <1>2 DEF TidyInv
<1>5. TypeOK /\ TypeOK' /\ TidyInv(watch) /\ [Next]_vars => TidyInv(watch)'
  BY <1>3 DEF TidyInv
<1>6. QED
  BY <1>4, <1>5, FoldersTypeCorrect, PTL DEF Spec

(* With one consumer that never crashed, the whole log of a chat stays in   *)
(* one folder, the one in the map, by any sequence of renames, name sheets, *)
(* other chats' merges and wipes, as long as its names are its own.         *)
THEOREM LogInOneFolder == ASSUME NEW watch, Runners = {watch} PROVE Spec => []LinesTogether
<1>1. TidyInv(watch) => LinesTogether
  <2> SUFFICES ASSUME TidyInv(watch), Quiet, faults = 0,
                      NEW e \in Events, NEW f \in Events, NEW F \in Folders, NEW G \in Folders,
                      e \in lines[F], f \in lines[G], EvChat[e] = EvChat[f], OwnNames(EvChat[e])
               PROVE  F = G /\ (map[EvChat[e]] = F \/ (e \in Old /\ f \in Old))
    BY DEF LinesTogether
  <2>1. Known(watch) = map
    BY DEF Quiet, Known
  <2>2. EvChat[e] \in Chats /\ OwnHome(watch, EvChat[e])
    BY ConstAssumption DEF TidyInv, Tidy
  <2>3. QED
    BY <2>1, <2>2 DEF OwnHome, Home
<1>2. QED
  BY <1>1, AlwaysTidy, PTL

(* consumer.py:216: with one consumer that never crashed, resolve_chat_dir  *)
(* does not go back to the bare id of a chat that has lines under a name.   *)
THEOREM NameNeverLost == ASSUME NEW watch, Runners = {watch} PROVE Spec => NeverDowngrade
<1> DEFINE Step == \A r \in Runners :
              pc[r] = "place" /\ faults = 0 /\ OwnNames(Chat(r)) /\ folder'[r] = IdFolder[Chat(r)] =>
                  \A e \in Events, F \in Folders \ {folder'[r], DmsFolder[Chat(r)]} :
                      EvChat[e] = Chat(r) => e \notin lines[F]
<1>1. TidyInv(watch) /\ [Next]_vars => [Step]_vars
  <2> SUFFICES ASSUME TidyInv(watch), Pass(watch) \/ Fault(watch),
                      pc[watch] = "place", faults = 0, OwnNames(Chat(watch)),
                      folder'[watch] = IdFolder[Chat(watch)],
                      NEW e \in Events,
                      NEW F \in Folders \ {folder'[watch], DmsFolder[Chat(watch)]},
                      EvChat[e] = Chat(watch), e \in lines[F]
               PROVE  FALSE
    BY DEF Next
  <2> DEFINE c == Chat(watch)
             id == IdFolder[c]
             dms == DmsFolder[c]
  <2>1. /\ watch \in Runners /\ c \in Chats /\ id \in Folders /\ F # id /\ F # dms /\ TypeOK /\ MergeInv
        /\ Known(watch)[c] = Cur(watch) /\ NoFolder \notin Folders /\ dir \subseteq Folders
        /\ OwnHome(watch, c)
    BY FolderTypes, WantedFacts, ConstAssumption DEF TidyInv, Cur, TypeOK
  <2>2. F = Home(watch, c)
    BY <2>1 DEF OwnHome
  <2>3. Cur(watch) = F /\ F \in dir
    BY <2>1, <2>2 DEF Home, OwnHome, Standing
  <2>4. CASE UpgradeFolder(watch)
    <3>1. folder'[watch] = Wanted(watch) /\ Wanted(watch) \notin dir /\ Cur(watch) = id
      BY <2>1, <2>4 DEF UpgradeFolder, Upgrades, Settle, TypeOK
    <3>2. QED
      BY <2>1, <2>3, <3>1
  <2>5. CASE KeepFolder(watch)
    <3>1. folder'[watch] = (IF Wanted(watch) \in dir THEN Wanted(watch) ELSE Cur(watch))
      BY <2>1, <2>5 DEF KeepFolder, Settle, TypeOK
    <3>2. id \in dir /\ id \in Places(c)
      BY <2>1, <2>3, <3>1, PlacesTypes
    <3>3. QED
      BY <2>1, <2>2, <3>2 DEF OwnHome
  <2>6. CASE PlaceAnew(watch)
    BY <2>3, <2>6 DEF PlaceAnew
  <2>7. CASE Fault(watch)
    <3>1. folder'[watch] = NoFolder
      BY <2>1, <2>7 DEF Fault, Finish, TypeOK
    <3>2. QED
      BY <2>1, <3>1
  <2>8. QED
    BY <2>4, <2>5, <2>6, <2>7
       DEF Pass, Place, Save, Wipe, TakeEvent, DropOld, OpenMap, WriteMap, Write, TakeSheet,
           RenameChat, NamesApplied, TakeWipe, WipeDirs, WipeIndex, WipeMap, Take
<1>2. QED
  BY <1>1, AlwaysTidy, PTL DEF Spec, NeverDowngrade
=============================================================================

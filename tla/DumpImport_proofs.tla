-------------------------- MODULE DumpImport_proofs --------------------------
(***************************************************************************)
(* Theorems about DumpImport for any chats, messages, names, number of     *)
(* imports and crashes: its type invariant, that no two chats of an import *)
(* share a folder, that an import that ends has stored the whole backup,   *)
(* and that index and logs agree after one that wiped the store.           *)
(***************************************************************************)
EXTENDS DumpImport, FiniteSetTheorems, WellFoundedInduction, TLAPS

InChat    == {"place", "copy", "log", "rows"}
Starting  == {"off", "wipe", "wipeIndex", "wipeMap", "wipeInbox", "contacts"}
Emptied   == Steps \ {"off", "wipe", "wipeIndex"}

(* F is not the bare id of a chat other than c.                             *)
OwnFolder(c, F) == \A d \in Chats \ {c} : F # IdFolder[d]

(* What the control state says of the import's own variables.               *)
RunInv ==
    /\ finished # "no" => pc = "off"
    /\ pc \in Starting => pos = 0 /\ mapping = Blank /\ txn = {}
    /\ pc \in InChat => pos < Len(Tables) /\ DumpOf(Chat) # {} /\ Here \in Folders
    /\ IF pc = "copy" THEN \E m \in todo : copying = {m} ELSE copying = {}
    /\ IF pc \in {"place", "copy"} THEN todo \subseteq DumpOf(Chat) ELSE todo = {}
    /\ pc \in {"save", "saving"} => pos = Len(Tables) /\ txn = {}
    /\ \A i \in DOMAIN Tables :
          i > pos /\ ~(pc \in InChat /\ i = pos + 1) => mapping[Tables[i]] = NoFolder

(* The folders that the maps name: none is the bare id of another chat.     *)
NameInv ==
    /\ \A c \in Chats : OwnFolder(c, map[c]) /\ OwnFolder(c, mapping[c])
    /\ \A c \in Chats : mapping[c] # NoFolder =>
          /\ mapping[c] \in dir
          /\ mapping[c] = IdFolder[c] <=> DumpName[c] = IdFolder[c]

(* m's media file is there, in a folder that no upload of another chat      *)
(* merges away; short only as DumpStored allows it.                         *)
Filed(m) ==
    \E F \in dir : /\ OwnFolder(ChatOf[m], F)
                   /\ body[F][m] = "whole" \/ (m \in cut /\ body[F][m] = "part")

(* A short file that no crash accounts for is a leftover that was replaced: *)
(* it was moved out of the folder of the bare id, to which the import       *)
(* returns, or it stands beside a whole one that nothing moves.             *)
PartInv ==
    \A F \in Folders, m \in Msgs : body[F][m] = "part" /\ m \notin cut \cup copying =>
        IF DumpName[ChatOf[m]] = IdFolder[ChatOf[m]]
          THEN F # IdFolder[ChatOf[m]]
          ELSE \E G \in dir : body[G][m] = "whole" /\ \A d \in Chats : G # IdFolder[d]

(* The import is through with m's chat.                                     *)
Through(m) == \E i \in 1..pos : Tables[i] = ChatOf[m]

DoneInv ==
    /\ \A m \in InDump : Through(m) =>
          /\ mapping[ChatOf[m]] # NoFolder
          /\ m \in lines[mapping[ChatOf[m]]]
          /\ m \in DumpBody \ taken => Filed(m)
          /\ m \in txn \/ row[m] # NoRow
    /\ \A m \in txn : Through(m)
    /\ pc \in InChat => \A m \in DumpOf(Chat) :
          /\ m \in DumpBody \ (todo \cup taken) => Filed(m)
          /\ pc = "rows" => m \in lines[Here]

(* After an import every chat of the backup is where the map says.          *)
EndInv ==
    finished # "no" =>
        /\ \A c \in Chats : map[c] \in dir \cup {NoFolder}
        /\ \A m \in InDump :
              /\ map[ChatOf[m]] # NoFolder
              /\ row[m] # NoRow
              /\ \E F \in Folders : m \in lines[F]
              /\ m \in DumpBody \ taken => Filed(m)

(* What is in the store during an import that wiped it: lines and rows of   *)
(* the backup alone, each chat's files in the folder that this import chose *)
(* for it, none under another's name.                                       *)
WipedInv ==
    /\ pc = "wipeIndex" => \A F \in Folders : lines[F] = {}
    /\ wipe /\ pc \in Emptied \cup {"wipeIndex"} => \A F \in Folders, m \in DumpBody :
          body[F][m] # "none" => mapping[ChatOf[m]] = F
    /\ (wipe /\ pc # "off") \/ finished = "wiped" => taken = {}
    /\ wipe /\ pc \in Emptied => \A m \in Msgs :
          row[m] # NoRow \/ (\E F \in Folders : m \in lines[F]) => m \in InDump

IInv == /\ TypeOK /\ RunInv /\ NameInv /\ FoldersDistinct /\ PartInv
        /\ DoneInv /\ EndInv /\ WipedInv /\ RowsLogged

-----------------------------------------------------------------------------
(* The tables and the folder of a chat.                                     *)

LEMMA SmallestNumber ==
    ASSUME NEW S \in SUBSET Nat, S # {}
    PROVE  \E i \in S : \A j \in S : i <= j
<1>1. PICK i \in S : \A j \in S : ~(<<j, i>> \in OpToRel(<, Nat))
  BY NatLessThanWellFounded, WFMin, Zenon
<1>2. \A j \in S : ~(j < i)
  BY <1>1 DEF OpToRel
<1>3. QED
  BY <1>2

LEMMA TablesFacts ==
    /\ Len(Tables) \in Nat /\ DOMAIN Tables = 1..Len(Tables)
    /\ \A i \in 1..Len(Tables) : Tables[i] \in Chats
    /\ \A i, j \in 1..Len(Tables) : Tables[i] = Tables[j] => i = j
    /\ \A m \in InDump : \E i \in 1..Len(Tables) : Tables[i] = ChatOf[m]
<1>1. /\ Tables \in Seq(Chats)
      /\ \A i, j \in DOMAIN Tables : Tables[i] = Tables[j] => i = j
      /\ \A m \in InDump : \E i \in DOMAIN Tables : Tables[i] = ChatOf[m]
  BY ConstAssumption
<1>2. Len(Tables) \in Nat /\ DOMAIN Tables = 1..Len(Tables)
  BY <1>1
<1>3. \A i \in 1..Len(Tables) : Tables[i] \in Chats
  BY <1>1
<1>4. QED
  BY <1>1, <1>2, <1>3

(* The chat whose turn it is comes after all those that are through.        *)
LEMMA ChatFacts ==
    ASSUME TypeOK, pos < Len(Tables)
    PROVE  /\ pos \in Nat /\ pos + 1 \in 1..Len(Tables) /\ Chat \in Chats
           /\ \A m \in Msgs : Through(m) => ChatOf[m] # Chat
           /\ DumpOf(Chat) \subseteq InDump /\ DumpOf(Chat) \subseteq Msgs
           /\ \A m \in DumpOf(Chat) : ChatOf[m] = Chat
<1>1. pos \in Nat /\ pos + 1 \in 1..Len(Tables)
  BY TablesFacts DEF TypeOK
<1>2. Chat \in Chats
  BY <1>1, TablesFacts DEF Chat
<1>3. ASSUME NEW m \in Msgs, Through(m) PROVE ChatOf[m] # Chat
  <2>1. PICK i \in 1..pos : Tables[i] = ChatOf[m]
    BY <1>3 DEF Through
  <2>2. i \in 1..Len(Tables) /\ i # pos + 1
    BY <1>1
  <2>3. QED
    BY <1>1, <2>1, <2>2, TablesFacts DEF Chat
<1>4. QED
  BY <1>1, <1>2, <1>3, ConstAssumption DEF DumpOf

(* Some alternative is not used, and so there is a first such one.          *)
LEMMA FreeNumber ==
    ASSUME TypeOK, NEW c \in Chats, mapping[c] = NoFolder
    PROVE  \E k \in DOMAIN Suffixed[DumpName[c]][c] :
              /\ Suffixed[DumpName[c]][c][k] \notin Used
              /\ \A j \in 1..(k - 1) : Suffixed[DumpName[c]][c][j] \in Used
<1> DEFINE alt == Suffixed[DumpName[c]][c]
           others == Chats \ {c}
           Free == {i \in 1..Len(alt) : alt[i] \notin Used}
<1>1. /\ alt \in Seq(Folders) /\ Len(alt) \in Nat /\ DOMAIN alt = 1..Len(alt)
      /\ Len(alt) >= Cardinality(Chats)
      /\ \A i, j \in DOMAIN alt : alt[i] = alt[j] => i = j
  BY ConstAssumption, SuffixAssumption
<1> HIDE DEF alt
<1>2. /\ IsFiniteSet(others) /\ Cardinality(others) = Cardinality(Chats) - 1
      /\ Cardinality(Chats) \in Nat
  BY SuffixAssumption, FS_RemoveElement, FS_CardinalityType
<1>3. IsFiniteSet(1..Len(alt)) /\ Cardinality(1..Len(alt)) = Len(alt)
  <2>1. 1 \in Int /\ Len(alt) \in Int
    BY <1>1
  <2>2. /\ IsFiniteSet(1..Len(alt))
        /\ Cardinality(1..Len(alt)) = IF 1 > Len(alt) THEN 0 ELSE Len(alt) - 1 + 1
    BY <2>1, FS_Interval
  <2>3. QED
    BY <1>1, <2>2
<1>4. Free # {}
  <2> SUFFICES ASSUME Free = {} PROVE FALSE
    OBVIOUS
  <2>1. \A i \in 1..Len(alt) : \E d \in others : mapping[d] = alt[i]
    BY DEF Used
  <2> DEFINE taker == [i \in 1..Len(alt) |-> CHOOSE d \in others : mapping[d] = alt[i]]
  <2>2. /\ taker \in [1..Len(alt) -> others]
        /\ \A i \in 1..Len(alt) : mapping[taker[i]] = alt[i]
    BY <2>1
  <2> HIDE DEF taker, others
  <2>3. Cardinality(others) < Cardinality(1..Len(alt))
    BY <1>1, <1>2, <1>3
  <2>4. PICK i, j \in 1..Len(alt) : i # j /\ taker[i] = taker[j]
    BY <1>2, <1>3, <2>2, <2>3, FS_PigeonHole
  <2>5. QED
    BY <1>1, <2>2, <2>4
<1>5. PICK k \in Free : \A j \in Free : k <= j
  <2>1. Free \in SUBSET Nat
    OBVIOUS
  <2> HIDE DEF Free
  <2>2. QED
    BY <1>4, <2>1, SmallestNumber
<1>6. k \in 1..Len(alt) /\ alt[k] \notin Used /\ \A j \in 1..(k - 1) : alt[j] \in Used
  BY <1>1, <1>5
<1>7. QED
  BY <1>1, <1>6 DEF alt

(* A new folder of its own, which is the bare id of the chat or of nobody.  *)
LEMMA FolderFacts ==
    ASSUME TypeOK, NEW c \in Chats, mapping[c] = NoFolder
    PROVE  /\ FolderFor(c) \in Folders /\ FolderFor(c) \notin Used
           /\ OwnFolder(c, FolderFor(c))
           /\ (\A d \in Chats : OwnFolder(d, mapping[d])) =>
                 (FolderFor(c) = IdFolder[c] <=> DumpName[c] = IdFolder[c])
<1>1. DumpName[c] \in Folders /\ \A d \in Chats \ {c} : DumpName[c] # IdFolder[d]
  BY ConstAssumption, IdAssumption
<1>2. CASE DumpName[c] \notin Used
  BY <1>1, <1>2 DEF FolderFor, OwnFolder
<1>3. CASE DumpName[c] \in Used
  <2> DEFINE alt == Suffixed[DumpName[c]][c]
  <2>1. PICK n \in DOMAIN alt : FolderFor(c) = alt[n] /\ alt[n] \notin Used
    BY <1>3, FreeNumber DEF FolderFor
  <2>2. alt[n] \in Folders /\ \A d \in Chats : alt[n] # IdFolder[d]
    BY <1>1, ConstAssumption, IdAssumption
  <2>3. (\A d \in Chats : OwnFolder(d, mapping[d])) => DumpName[c] # IdFolder[c]
    <3>1. PICK d \in Chats : mapping[d] = DumpName[c]
      BY <1>3 DEF Used
    <3>2. d # c
      BY <1>1, <3>1, ConstAssumption
    <3>3. QED
      BY <3>1, <3>2 DEF OwnFolder
  <2>4. QED
    BY <2>1, <2>2, <2>3 DEF OwnFolder
<1>4. QED
  BY <1>2, <1>3

-----------------------------------------------------------------------------
(* Outside the tables.                                                      *)

LEMMA IdFacts ==
    /\ NoFolder \notin Folders
    /\ \A d \in Chats : IdFolder[d] \in Folders
    /\ \A c \in Chats : OwnFolder(c, NoFolder) /\ OwnFolder(c, IdFolder[c])
  BY ConstAssumption, IdAssumption DEF OwnFolder

LEMMA InitInv ==
    ASSUME Init
    PROVE  IInv
<1>1. TypeOK
  <2>1. pos \in 0..Len(Tables) /\ chats \in 0..pos
    BY TablesFacts DEF Init
  <2>2. faults \in 0..MaxFaults /\ runs \in 0..MaxRuns
    BY ConstAssumption DEF Init
  <2>3. QED
    BY <2>1, <2>2 DEF Init, TypeOK, Maps, Blank, Empty, Bytes, Steps
<1>2. RunInv
  BY TablesFacts DEF Init, RunInv, Starting, InChat, Blank
<1>3. NameInv /\ FoldersDistinct
  BY IdFacts DEF Init, NameInv, FoldersDistinct, Blank
<1>4. PartInv
  BY DEF Init, PartInv, Empty
<1>5. DoneInv
  BY DEF Init, DoneInv, Through, InChat
<1>6. EndInv /\ WipedInv /\ RowsLogged
  BY DEF Init, EndInv, WipedInv, RowsLogged
<1>7. QED
  BY <1>1, <1>2, <1>3, <1>4, <1>5, <1>6 DEF IInv

(* Before the first table, and after the last one, the run has nothing.     *)
LEMMA StartFacts ==
    ASSUME IInv, pc \in Starting
    PROVE  pos = 0 /\ chats = 0 /\ mapping = Blank /\ txn = {} /\ todo = {} /\ copying = {}
  BY DEF IInv, RunInv, TypeOK, Starting

LEMMA AtStart ==
    ASSUME pc' \in Starting, pos' = 0, mapping' = Blank, txn' = {}, todo' = {}, copying' = {},
           finished' # "no" => pc' = "off"
    PROVE  RunInv' /\ FoldersDistinct' /\ DoneInv'
<1>1. RunInv'
  BY TablesFacts DEF RunInv, Starting, InChat, Blank
<1>2. FoldersDistinct'
  BY DEF FoldersDistinct, Blank
<1>3. DoneInv'
  BY DEF DoneInv, Through, Starting, InChat
<1>4. QED
  BY <1>1, <1>2, <1>3

(* The phone and the switch touch neither the store nor the import.         *)
LEMMA QuietInv ==
    ASSUME IInv, TypeOK', UNCHANGED <<storeVars, pc, runVars, histVars>>
    PROVE  IInv'
<1> USE DEF storeVars, runVars, histVars
<1>1. RunInv'
  BY DEF IInv, RunInv, Chat, Here, DumpOf
<1>2. NameInv' /\ FoldersDistinct'
  BY DEF IInv, NameInv, FoldersDistinct, OwnFolder
<1>3. PartInv'
  BY DEF IInv, PartInv
<1>4. DoneInv'
  BY DEF IInv, DoneInv, Through, Filed, OwnFolder, Chat, Here, DumpOf
<1>5. EndInv'
  BY DEF IInv, EndInv, Filed, OwnFolder
<1>6. WipedInv' /\ RowsLogged'
  BY DEF IInv, WipedInv, RowsLogged
<1>7. QED
  BY <1>1, <1>2, <1>3, <1>4, <1>5, <1>6 DEF IInv

LEMMA SmallSteps ==
    ASSUME IInv, UNCHANGED vars \/ Switch \/ \E m \in Uploads : Put(m) \/ Claim(m)
    PROVE  IInv'
<1>1. UNCHANGED <<storeVars, pc, runVars, histVars>>
  BY DEF vars, Switch, Put, Claim
<1>2. TypeOK'
  <2> USE DEF IInv, TypeOK, Steps, storeVars, runVars, histVars
  <2>1. CASE UNCHANGED vars
    BY <2>1 DEF vars, liveVars
  <2>2. CASE Switch
    BY <2>2 DEF Switch
  <2>3. ASSUME NEW m \in Uploads, Put(m) \/ Claim(m) PROVE TypeOK'
    BY <2>3 DEF Put, Claim
  <2>4. QED
    BY <2>1, <2>2, <2>3
<1>3. QED
  BY <1>1, <1>2, QuietInv

LEMMA BeginInv ==
    ASSUME IInv, Begin
    PROVE  IInv'
<1> USE DEF storeVars, liveVars
<1>0. pc = "off" /\ pc' \in {"wipe", "contacts"} /\ (pc' = "contacts" => ~wipe')
  BY DEF Begin, Step
<1>1. TypeOK'
  BY <1>0, ConstAssumption DEF IInv, TypeOK, Begin, Steps
<1>2. RunInv' /\ FoldersDistinct' /\ DoneInv'
  BY <1>0, StartFacts, AtStart DEF Begin, Starting
<1>3. NameInv'
  BY DEF Begin, IInv, NameInv, OwnFolder
<1>4. PartInv'
  BY DEF Begin, IInv, PartInv
<1>5. EndInv' /\ WipedInv' /\ RowsLogged'
  BY <1>0 DEF Begin, EndInv, WipedInv, RowsLogged, Emptied
<1>6. QED
  BY <1>1, <1>2, <1>3, <1>4, <1>5 DEF IInv

(* An import that fails has changed nothing but the store.                  *)
LEMMA StopInv ==
    ASSUME IInv, pc # "off", pc' = "off", Forget, cut' = cut \cup copying,
           faults < MaxFaults, faults' = faults + 1,
           UNCHANGED <<liveVars, storeVars, wipe, runs, finished, taken>>
    PROVE  IInv'
<1> USE DEF storeVars, liveVars, Forget
<1>0. finished' = "no"
  BY DEF IInv, RunInv
<1>1. TypeOK'
  BY TablesFacts, ConstAssumption DEF IInv, TypeOK, Steps, Maps, Blank
<1>2. RunInv' /\ FoldersDistinct' /\ DoneInv'
  BY <1>0, AtStart DEF Starting
<1>3. NameInv'
  BY IdFacts DEF IInv, NameInv, OwnFolder, Blank
<1>4. PartInv'
  BY DEF IInv, PartInv
<1>5. EndInv' /\ WipedInv' /\ RowsLogged'
  BY <1>0 DEF EndInv, WipedInv, RowsLogged, Emptied
<1>6. QED
  BY <1>1, <1>2, <1>3, <1>4, <1>5 DEF IInv

LEMMA FailInv ==
    ASSUME IInv, Crash \/ NoContacts
    PROVE  IInv'
<1>1. CASE Crash
  BY <1>1, StopInv DEF Crash
<1>2. CASE NoContacts
  <2>1. Forget /\ cut' = cut \cup copying
    BY <1>2, StartFacts DEF NoContacts, Step, Starting, Forget, runVars
  <2>2. QED
    BY <1>2, <2>1, StopInv DEF NoContacts, Step, runVars, storeVars, liveVars
<1>3. QED
  BY <1>1, <1>2

LEMMA WipeInv ==
    ASSUME IInv, Wipe \/ LoadContacts
    PROVE  IInv'
<1> USE DEF runVars, histVars, storeVars, liveVars
<1>0. /\ pc \in Starting /\ pc # "off" /\ finished' = "no"
      /\ UNCHANGED <<runVars, finished>>
  BY DEF IInv, RunInv, Wipe, WipeDirs, WipeIndex, WipeMap, WipeInbox, LoadContacts, Step, Starting
<1>1. pos = 0 /\ mapping = Blank /\ txn = {} /\ todo = {} /\ copying = {}
  BY <1>0, StartFacts
<1>2. EndInv' /\ RowsLogged'
  BY <1>0 DEF EndInv, RowsLogged
<1>3. ASSUME Wipe PROVE RunInv' /\ FoldersDistinct' /\ DoneInv'
  BY <1>0, <1>1, <1>3, AtStart
     DEF Wipe, WipeDirs, WipeIndex, WipeMap, WipeInbox, Step, Starting
<1>4. CASE WipeDirs
  <2>1. TypeOK'
    BY <1>4, ConstAssumption DEF IInv, TypeOK, WipeDirs, Step, Steps, Empty, Bytes
  <2>2. /\ NameInv' /\ PartInv'
        /\ pc' = "wipeIndex" /\ lines' = [F \in Folders |-> {}] /\ body' = [F \in Folders |-> Empty]
        /\ wipe' = wipe /\ taken' = taken
    BY <1>0, <1>1, <1>4, IdFacts
       DEF IInv, NameInv, OwnFolder, PartInv, WipeDirs, Step, Empty, Blank
  <2>3. \A F \in Folders, m \in DumpBody : body'[F][m] = "none"
    BY <2>2, ConstAssumption DEF Empty
  <2>4. WipedInv'
    BY <1>0, <2>2, <2>3 DEF IInv, WipedInv, Emptied
  <2>5. QED
    BY <1>2, <1>3, <1>4, <2>1, <2>2, <2>4 DEF IInv, Wipe
<1>5. CASE WipeIndex
  <2>1. TypeOK'
    BY <1>5 DEF IInv, TypeOK, WipeIndex, Step, Steps
  <2>2. NameInv' /\ PartInv' /\ WipedInv'
    BY <1>5 DEF IInv, NameInv, OwnFolder, PartInv, WipedInv, WipeIndex, Step
  <2>3. QED
    BY <1>2, <1>3, <1>5, <2>1, <2>2 DEF IInv, Wipe
<1>6. CASE WipeMap
  <2>1. TypeOK'
    BY <1>6 DEF IInv, TypeOK, WipeMap, Step, Steps, Maps, Blank
  <2>2. NameInv' /\ PartInv' /\ WipedInv'
    BY <1>6, IdFacts
       DEF IInv, NameInv, OwnFolder, PartInv, WipedInv, WipeMap, Step, Blank, Emptied, Steps
  <2>3. QED
    BY <1>2, <1>3, <1>6, <2>1, <2>2 DEF IInv, Wipe
<1>7. CASE WipeInbox
  <2>1. TypeOK'
    BY <1>7 DEF IInv, TypeOK, WipeInbox, Step, Steps
  <2>2. NameInv' /\ PartInv' /\ WipedInv'
    BY <1>7 DEF IInv, NameInv, OwnFolder, PartInv, WipedInv, WipeInbox, Step, Emptied, Steps
  <2>3. QED
    BY <1>2, <1>3, <1>7, <2>1, <2>2 DEF IInv, Wipe
<1>8. CASE LoadContacts
  <2>1. TypeOK'
    BY <1>8 DEF IInv, TypeOK, LoadContacts, Step, Steps
  <2>2. RunInv' /\ FoldersDistinct' /\ DoneInv'
    BY <1>0, <1>1, <1>8, TablesFacts
       DEF RunInv, FoldersDistinct, DoneInv, Through, LoadContacts, Step, Starting, InChat, Blank
  <2>3. NameInv' /\ PartInv' /\ WipedInv'
    BY <1>8 DEF IInv, NameInv, OwnFolder, PartInv, WipedInv, LoadContacts, Step, Emptied, Steps
  <2>4. QED
    BY <1>2, <2>1, <2>2, <2>3 DEF IInv
<1>9. QED
  BY <1>4, <1>5, <1>6, <1>7, <1>8 DEF Wipe

-----------------------------------------------------------------------------
(* A chat's turn.                                                           *)

(* While an import runs, nothing is promised of how it ended.               *)
LEMMA Running ==
    ASSUME IInv, pc # "off", finished' = finished
    PROVE  EndInv' /\ RowsLogged'
<1>1. finished' = "no"
  BY DEF IInv, RunInv
<1>2. QED
  BY <1>1 DEF EndInv, RowsLogged

(* The chat at hand has a folder of its own, which is its bare id only if   *)
(* the backup calls it so.                                                  *)
LEMMA TurnFacts ==
    ASSUME IInv, pc \in InChat
    PROVE  /\ pos < Len(Tables) /\ Chat \in Chats /\ Here \in dir /\ Here \in Folders
           /\ OwnFolder(Chat, Here) /\ (Here = IdFolder[Chat] <=> DumpName[Chat] = IdFolder[Chat])
           /\ \A m \in InDump : Through(m) => mapping[ChatOf[m]] # Here /\ ChatOf[m] # Chat
           /\ todo \subseteq DumpOf(Chat) /\ todo \subseteq Msgs
           /\ \A m \in DumpOf(Chat) : ChatOf[m] = Chat
           /\ DumpOf(Chat) \subseteq InDump
<1>1. pos < Len(Tables) /\ Here \in Folders /\ todo \subseteq DumpOf(Chat)
  BY DEF IInv, RunInv
<1>2. /\ Chat \in Chats /\ \A m \in Msgs : Through(m) => ChatOf[m] # Chat
      /\ DumpOf(Chat) \subseteq InDump /\ DumpOf(Chat) \subseteq Msgs
      /\ \A m \in DumpOf(Chat) : ChatOf[m] = Chat
  BY <1>1, ChatFacts DEF IInv
<1>3. Here # NoFolder
  BY <1>1, IdFacts
<1>4. /\ Here \in dir /\ OwnFolder(Chat, Here)
      /\ (Here = IdFolder[Chat] <=> DumpName[Chat] = IdFolder[Chat])
  BY <1>2, <1>3 DEF IInv, NameInv, Here
<1>5. \A m \in InDump : Through(m) => mapping[ChatOf[m]] # Here
  BY <1>2, <1>3, ConstAssumption DEF IInv, FoldersDistinct, Here
<1>6. QED
  BY <1>1, <1>2, <1>4, <1>5, ConstAssumption

(* With one more table behind it the import is through with its chat too.   *)
LEMMA ThroughMore ==
    ASSUME TypeOK, pos < Len(Tables), pos' = pos + 1
    PROVE  \A m : Through(m)' <=> Through(m) \/ ChatOf[m] = Chat
<1>1. pos \in Nat
  BY TablesFacts DEF TypeOK
<1>2. QED
  BY <1>1 DEF Through, Chat

LEMMA SkipChatInv ==
    ASSUME IInv, SkipChat
    PROVE  IInv'
<1> USE DEF storeVars, liveVars, histVars
<1>0. pc = "chat" /\ pos < Len(Tables) /\ pos' = pos + 1 /\ DumpOf(Chat) = {}
  BY DEF SkipChat
<1>1. TypeOK'
  BY <1>0, TablesFacts DEF IInv, TypeOK, SkipChat
<1>2. RunInv'
  BY <1>0, TablesFacts DEF IInv, TypeOK, RunInv, SkipChat, Starting, InChat
<1>3. NameInv' /\ FoldersDistinct'
  BY DEF IInv, NameInv, FoldersDistinct, OwnFolder, SkipChat
<1>4. PartInv'
  BY DEF IInv, PartInv, SkipChat
<1>5. DoneInv'
  <2>1. \A m \in InDump : Through(m)' => Through(m)
    BY <1>0, ThroughMore DEF IInv, DumpOf
  <2>2. \A m \in txn : Through(m)'
    BY <1>0, ThroughMore DEF IInv, DoneInv
  <2>3. pc' \notin InChat /\ txn' = txn
    BY <1>0 DEF SkipChat, InChat
  <2>4. \A m : Filed(m)' <=> Filed(m)
    BY DEF Filed, OwnFolder, SkipChat
  <2>5. mapping' = mapping /\ lines' = lines /\ row' = row /\ taken' = taken
    BY DEF SkipChat
  <2>6. QED
    BY <2>1, <2>2, <2>3, <2>4, <2>5 DEF IInv, DoneInv
<1>6. EndInv' /\ RowsLogged'
  BY <1>0, Running DEF SkipChat
<1>7. WipedInv'
  BY DEF IInv, WipedInv, SkipChat
<1>8. QED
  BY <1>1, <1>2, <1>3, <1>4, <1>5, <1>6, <1>7 DEF IInv

LEMMA BeginChatInv ==
    ASSUME IInv, BeginChat
    PROVE  IInv'
<1> USE DEF liveVars, histVars
<1> DEFINE F == FolderFor(Chat)
<1>0. /\ pc = "chat" /\ pc' = "place" /\ pos < Len(Tables) /\ DumpOf(Chat) # {}
      /\ mapping' = [mapping EXCEPT ![Chat] = F] /\ dir' = dir \cup {F}
      /\ todo' = DumpOf(Chat) \cap DumpBody
      /\ UNCHANGED <<lines, body, row, map, wipe, pos, chats, copying, txn, histVars>>
  BY DEF BeginChat, Step
<1>1. /\ pos \in Nat /\ pos + 1 \in 1..Len(Tables) /\ Chat \in Chats
      /\ \A m \in Msgs : Through(m) => ChatOf[m] # Chat
      /\ Chat' = Chat
  BY <1>0, ChatFacts DEF IInv, Chat
<1>2. mapping[Chat] = NoFolder
  BY <1>0, <1>1, TablesFacts DEF IInv, RunInv, InChat, Chat
<1>3. /\ F \in Folders /\ F \notin Used /\ OwnFolder(Chat, F)
      /\ F = IdFolder[Chat] <=> DumpName[Chat] = IdFolder[Chat]
  BY <1>1, <1>2, FolderFacts DEF IInv, NameInv
<1> HIDE DEF F
<1>4. /\ mapping'[Chat] = F /\ Here' = F
      /\ \A c \in Chats \ {Chat} : mapping'[c] = mapping[c]
  <2>1. DOMAIN mapping = Chats /\ Chat \in Chats
    BY <1>1 DEF IInv, TypeOK, Maps
  <2>2. mapping' = [mapping EXCEPT ![Chat] = F]
    BY <1>0
  <2>3. mapping'[Chat] = F /\ \A c \in Chats \ {Chat} : mapping'[c] = mapping[c]
    BY <2>1, <2>2
  <2>4. Here' = mapping'[Chat]
    BY <1>1 DEF Here
  <2>5. QED
    BY <2>3, <2>4
<1>5. TypeOK'
  <2>1. dir' \subseteq Folders /\ todo' \subseteq DumpBody /\ pc' \in Steps
    BY <1>0, <1>3 DEF IInv, TypeOK, Steps
  <2>2. mapping' \in Maps
    <3>1. mapping \in [Chats -> Folders \cup {NoFolder}]
      BY DEF IInv, TypeOK, Maps
    <3>2. mapping' = [mapping EXCEPT ![Chat] = F]
      BY <1>0
    <3>3. QED
      BY <1>1, <1>3, <3>1, <3>2 DEF Maps
  <2>3. on' = on /\ faults' = faults /\ (pc' # "off" => ~on')
    BY <1>0 DEF BeginChat, IInv, TypeOK
  <2>4. QED
    BY <1>0, <2>1, <2>2, <2>3 DEF IInv, TypeOK, BeginChat
<1>6. RunInv'
  <2>1. \A i \in DOMAIN Tables :
           i > pos' /\ ~(pc' \in InChat /\ i = pos' + 1) => mapping'[Tables[i]] = NoFolder
    <3> SUFFICES ASSUME NEW i \in DOMAIN Tables, i > pos, i # pos + 1
                 PROVE  mapping'[Tables[i]] = NoFolder
      BY <1>0 DEF InChat
    <3>1. Tables[i] \in Chats \ {Chat}
      BY <1>1, TablesFacts DEF Chat
    <3>2. mapping[Tables[i]] = NoFolder
      BY <1>0 DEF IInv, RunInv, InChat
    <3>3. QED
      BY <1>4, <3>1, <3>2
  <2>2. QED
    BY <1>0, <1>1, <1>3, <1>4, <2>1 DEF IInv, RunInv, Starting, InChat
<1>7. NameInv'
  BY <1>0, <1>1, <1>3, <1>4 DEF IInv, NameInv, OwnFolder
<1>8. FoldersDistinct'
  BY <1>0, <1>1, <1>3, <1>4 DEF IInv, FoldersDistinct, Used
<1>9. PartInv'
  BY <1>0 DEF IInv, PartInv
<1>10. DoneInv'
  <2>1. \A m \in InDump : Filed(m) => Filed(m)'
    BY <1>0 DEF Filed, OwnFolder
  <2>2. \A m : Through(m)' <=> Through(m)
    BY <1>0 DEF Through
  <2>3. \A m \in InDump : Through(m) => mapping'[ChatOf[m]] = mapping[ChatOf[m]]
    BY <1>1, <1>4, ConstAssumption
  <2>4. QED
    BY <1>0, <1>1, <2>1, <2>2, <2>3 DEF IInv, DoneInv
<1>11. EndInv' /\ RowsLogged'
  BY <1>0, Running
<1>12. WipedInv'
  <2>1. ASSUME wipe, NEW G \in Folders, NEW m \in DumpBody, body[G][m] # "none"
        PROVE  mapping'[ChatOf[m]] = G
    <3>1. mapping[ChatOf[m]] = G /\ ChatOf[m] \in Chats
      BY <1>0, <2>1, ConstAssumption DEF IInv, WipedInv, Emptied, Steps
    <3>2. ChatOf[m] # Chat
      BY <1>2, <3>1, IdFacts
    <3>3. QED
      BY <1>4, <3>1, <3>2
  <2>2. QED
    BY <1>0, <2>1 DEF IInv, WipedInv, Emptied, Steps
<1>13. QED
  BY <1>5, <1>6, <1>7, <1>8, <1>9, <1>10, <1>11, <1>12 DEF IInv

(* Placing and copying media: what the turn of a chat leaves as it is.      *)
LEMMA MediaStep ==
    ASSUME IInv, TypeOK', pc \in {"place", "copy"}, pc' \in {"place", "copy"},
           UNCHANGED <<dir, lines, row, map, wipe, pos, chats, mapping, txn, finished>>,
           todo' \subseteq todo,
           IF pc' = "copy" THEN \E m \in todo' : copying' = {m} ELSE copying' = {},
           \A m \in InDump : Filed(m) /\ m \notin todo => Filed(m)',
           \A m \in todo \ todo' : Filed(m)' \/ m \in taken',
           \A F \in Folders, m \in DumpBody :
              body'[F][m] # "none" => body[F][m] # "none" \/ (F = Here /\ m \in todo),
           taken \subseteq taken', wipe => taken' = taken,
           PartInv'
    PROVE  IInv'
<1>1. Chat' = Chat /\ Here' = Here /\ pc \in InChat /\ pc' \in InChat
  BY DEF Chat, Here, InChat
<1>2. RunInv'
  BY <1>1 DEF IInv, RunInv, InChat, Starting
<1>3. NameInv' /\ FoldersDistinct'
  BY DEF IInv, NameInv, FoldersDistinct, OwnFolder
<1>4. DoneInv'
  <2>1. \A m : Through(m)' <=> Through(m)
    BY DEF Through
  <2>2. \A m \in InDump : Through(m) => m \notin todo
    BY <1>1, TurnFacts
  <2>3. \A m \in DumpOf(Chat) : m \in DumpBody \ (todo' \cup taken') => Filed(m)'
    BY <1>1, TurnFacts DEF IInv, DoneInv
  <2>4. QED
    BY <1>1, <2>1, <2>2, <2>3 DEF IInv, DoneInv
<1>5. EndInv' /\ RowsLogged'
  BY Running
<1>6. WipedInv'
  <2>1. \A m \in todo : mapping[ChatOf[m]] = Here
    BY <1>1, TurnFacts DEF Here
  <2>2. wipe => \A F \in Folders, m \in DumpBody : body'[F][m] # "none" => mapping[ChatOf[m]] = F
    BY <2>1 DEF IInv, WipedInv, Emptied, Steps
  <2>3. QED
    BY <2>2 DEF IInv, RunInv, WipedInv, Emptied, Steps
<1>7. QED
  BY <1>2, <1>3, <1>4, <1>5, <1>6 DEF IInv

(* What is short in the chat's own folder was cut short by a crash, or the  *)
(* whole file is in another.                                                *)
LEMMA ThereIsFiled ==
    ASSUME IInv, pc = "place", NEW m \in todo, body[Here][m] # "none"
    PROVE  Filed(m)
<1>1. /\ Here \in dir /\ Here \in Folders /\ OwnFolder(Chat, Here) /\ m \in Msgs
      /\ ChatOf[m] = Chat /\ (Here = IdFolder[Chat] <=> DumpName[Chat] = IdFolder[Chat])
  BY TurnFacts DEF InChat
<1>2. body[Here][m] \in {"part", "whole"} /\ copying = {}
  BY <1>1 DEF IInv, TypeOK, RunInv, Bytes
<1>3. CASE body[Here][m] = "whole" \/ m \in cut
  BY <1>1, <1>2, <1>3 DEF Filed
<1>4. CASE body[Here][m] = "part" /\ m \notin cut
  <2>1. PICK G \in dir : body[G][m] = "whole" /\ \A d \in Chats : G # IdFolder[d]
    BY <1>1, <1>2, <1>4 DEF IInv, PartInv
  <2>2. QED
    BY <2>1 DEF Filed, OwnFolder
<1>5. QED
  BY <1>2, <1>3, <1>4

(* A file that is kept is the message's own, or it is another chat's: not   *)
(* after a wipe, when each chat has a folder of its own.                    *)
LEMMA KeepInv ==
    ASSUME IInv, NEW m \in todo, Keep(m)
    PROVE  IInv'
<1> USE DEF histVars, liveVars, storeVars
<1>0. /\ pc = "place" /\ pc' = "place" /\ todo' = todo \ {m} /\ copying = {} /\ copying' = {}
      /\ Standing(m) # {}
      /\ taken' = IF m \in Standing(m) THEN taken ELSE taken \cup {m}
      /\ UNCHANGED <<storeVars, wipe, pos, chats, mapping, txn, finished, cut>>
  BY DEF Keep, IInv, RunInv
<1>1. /\ Chat \in Chats /\ Here \in Folders /\ ChatOf[m] = Chat /\ m \in DumpBody
      /\ Here = mapping[Chat]
  BY <1>0, TurnFacts DEF InChat, Here, IInv, TypeOK
<1>2. TypeOK'
  BY <1>0, <1>1 DEF IInv, TypeOK, Keep
<1>3. \A x : Filed(x)' <=> Filed(x)
  BY <1>0 DEF Filed, OwnFolder
<1>4. Filed(m)' \/ m \in taken'
  BY <1>0, <1>3, ThereIsFiled DEF Standing
<1>5. PartInv'
  BY <1>0 DEF IInv, PartInv
<1>6. ASSUME wipe PROVE taken' = taken
  <2>1. PICK x \in DumpBody : body[Here][x] # "none" /\ FileOf[x] = FileOf[m]
    BY <1>0 DEF Standing
  <2>2. mapping[ChatOf[x]] = Here /\ ChatOf[x] \in Chats
    BY <1>0, <1>1, <1>6, <2>1, ConstAssumption DEF IInv, WipedInv, Emptied, Steps
  <2>3. ChatOf[x] = Chat
    BY <1>1, <2>2, IdFacts DEF IInv, FoldersDistinct
  <2>4. x = m
    BY <1>1, <2>1, <2>3, ConstAssumption
  <2>5. QED
    BY <1>0, <2>1, <2>4 DEF Standing
<1>7. \A x \in todo \ todo' : Filed(x)' \/ x \in taken'
  BY <1>0, <1>4
<1>8. /\ taken \subseteq taken'
      /\ UNCHANGED <<dir, lines, row, map, wipe, pos, chats, mapping, txn, finished>>
      /\ body' = body
  BY <1>0
<1>9. QED
  BY <1>0, <1>2, <1>3, <1>5, <1>6, <1>7, <1>8, MediaStep

LEMMA PlaceInv ==
    ASSUME IInv, NEW m \in todo, Place(m)
    PROVE  IInv'
<1> USE DEF histVars, liveVars
<1>0. /\ pc = "place" /\ pc' = "place" /\ todo' = todo \ {m} /\ copying = {} /\ copying' = {}
      /\ UNCHANGED <<dir, lines, row, map, wipe, pos, chats, mapping, txn, finished, cut, taken>>
  BY DEF Place, IInv, RunInv
<1>1. /\ Here \in Folders /\ Here \in dir /\ OwnFolder(Chat, Here) /\ m \in Msgs /\ ChatOf[m] = Chat
  BY <1>0, TurnFacts DEF InChat
<1>2. \A F \in Folders, x \in Msgs :
         body'[F][x] = IF F = Here /\ x = m THEN "whole" ELSE body[F][x]
  BY <1>1 DEF Place, IInv, TypeOK
<1>3. TypeOK'
  <2>1. body' \in [Folders -> [Msgs -> Bytes]]
    BY <1>1 DEF Place, IInv, TypeOK, Bytes
  <2>2. QED
    BY <1>0, <2>1 DEF IInv, TypeOK, Place
<1>4. \A x \in Msgs : Filed(x) => Filed(x)'
  BY <1>0, <1>2 DEF IInv, TypeOK, Filed, OwnFolder
<1>5. Filed(m)'
  BY <1>0, <1>1, <1>2 DEF Filed, OwnFolder
<1>6. PartInv'
  <2>1. /\ \A F \in Folders, x \in Msgs : body'[F][x] = "part" => body[F][x] = "part"
        /\ \A F \in Folders, x \in Msgs : body[F][x] = "whole" => body'[F][x] = "whole"
    BY <1>2
  <2>2. dir \subseteq Folders
    BY DEF IInv, TypeOK
  <2>3. QED
    BY <1>0, <2>1, <2>2 DEF IInv, PartInv
<1>7. \A x \in InDump : Filed(x) /\ x \notin todo => Filed(x)'
  BY <1>4, ConstAssumption
<1>8. \A x \in todo \ todo' : Filed(x)' \/ x \in taken'
  BY <1>0, <1>5
<1>9. \A F \in Folders, x \in DumpBody :
         body'[F][x] # "none" => body[F][x] # "none" \/ (F = Here /\ x \in todo)
  BY <1>2, ConstAssumption
<1>10. QED
  BY <1>0, <1>3, <1>6, <1>7, <1>8, <1>9, MediaStep

LEMMA BeginCopyInv ==
    ASSUME IInv, NEW m \in todo, BeginCopy(m)
    PROVE  IInv'
<1> USE DEF liveVars
<1>0. /\ pc = "place" /\ pc' = "copy" /\ todo' = todo /\ copying = {} /\ copying' = {m}
      /\ cut' = cut \ {m}
      /\ UNCHANGED <<dir, lines, row, map, wipe, pos, chats, mapping, txn, finished, taken>>
  BY DEF BeginCopy, IInv, RunInv, Step
<1>1. Here \in Folders /\ m \in Msgs
  BY <1>0, TurnFacts DEF InChat
<1>2. \A F \in Folders, x \in Msgs :
         body'[F][x] = IF F = Here /\ x = m THEN "part" ELSE body[F][x]
  BY <1>1 DEF BeginCopy, IInv, TypeOK
<1>3. TypeOK'
  <2>1. body' \in [Folders -> [Msgs -> Bytes]]
    BY <1>1 DEF BeginCopy, IInv, TypeOK, Bytes
  <2>2. QED
    BY <1>0, <2>1 DEF IInv, TypeOK, BeginCopy, Steps
<1>4. \A x \in InDump : Filed(x) /\ x \notin todo => Filed(x)'
  <2> SUFFICES ASSUME NEW x \in InDump, Filed(x), x \notin todo PROVE Filed(x)'
    OBVIOUS
  <2>1. x # m /\ x \in Msgs
    BY ConstAssumption
  <2>2. \A F \in Folders : body'[F][x] = body[F][x]
    BY <1>2, <2>1
  <2>3. dir \subseteq Folders
    BY DEF IInv, TypeOK
  <2>4. QED
    BY <1>0, <2>1, <2>2, <2>3 DEF Filed, OwnFolder
<1>5. PartInv'
  BY <1>0, <1>2 DEF IInv, TypeOK, PartInv
<1>6. \A F \in Folders, x \in DumpBody :
         body'[F][x] # "none" => body[F][x] # "none" \/ (F = Here /\ x \in todo)
  BY <1>2, ConstAssumption
<1>7. QED
  BY <1>0, <1>3, <1>4, <1>5, <1>6, MediaStep

LEMMA EndCopyInv ==
    ASSUME IInv, NEW m \in todo, EndCopy(m)
    PROVE  IInv'
<1> USE DEF histVars, liveVars
<1>0. /\ pc = "copy" /\ pc' = "place" /\ todo' = todo \ {m} /\ copying = {m} /\ copying' = {}
      /\ UNCHANGED <<dir, lines, row, map, wipe, pos, chats, mapping, txn, finished, cut, taken>>
  BY DEF EndCopy, IInv, RunInv, Step
<1>1. /\ Here \in Folders /\ Here \in dir /\ OwnFolder(Chat, Here) /\ m \in Msgs /\ ChatOf[m] = Chat
      /\ (Here = IdFolder[Chat] <=> DumpName[Chat] = IdFolder[Chat])
  BY <1>0, TurnFacts DEF InChat
<1>2. \A F \in Folders, x \in Msgs :
         body'[F][x] = IF F = Here /\ x = m THEN "whole" ELSE body[F][x]
  BY <1>1 DEF EndCopy, IInv, TypeOK
<1>3. TypeOK'
  <2>1. body' \in [Folders -> [Msgs -> Bytes]]
    BY <1>1 DEF EndCopy, IInv, TypeOK, Bytes
  <2>2. QED
    BY <1>0, <2>1 DEF IInv, TypeOK, EndCopy, Steps
<1>4. \A x \in Msgs : Filed(x) => Filed(x)'
  BY <1>0, <1>2 DEF IInv, TypeOK, Filed, OwnFolder
<1>5. Filed(m)'
  BY <1>0, <1>1, <1>2 DEF Filed, OwnFolder
<1>6. PartInv'
  <2> SUFFICES ASSUME NEW F \in Folders, NEW x \in Msgs, body'[F][x] = "part", x \notin cut
               PROVE  IF DumpName[ChatOf[x]] = IdFolder[ChatOf[x]]
                        THEN F # IdFolder[ChatOf[x]]
                        ELSE \E G \in dir : body'[G][x] = "whole" /\ \A d \in Chats : G # IdFolder[d]
    BY <1>0 DEF PartInv
  <2>1. body[F][x] = "part"
    BY <1>2
  <2>2. CASE x = m
    BY <1>1, <1>2, <2>2 DEF OwnFolder
  <2>3. CASE x # m
    BY <1>0, <1>2, <2>1, <2>3 DEF IInv, TypeOK, PartInv
  <2>4. QED
    BY <2>2, <2>3
<1>7. \A x \in InDump : Filed(x) /\ x \notin todo => Filed(x)'
  BY <1>4, ConstAssumption
<1>8. \A x \in todo \ todo' : Filed(x)' \/ x \in taken'
  BY <1>0, <1>5
<1>9. \A F \in Folders, x \in DumpBody :
         body'[F][x] # "none" => body[F][x] # "none" \/ (F = Here /\ x \in todo)
  BY <1>2, ConstAssumption
<1>10. QED
  BY <1>0, <1>3, <1>6, <1>7, <1>8, <1>9, MediaStep

(* The log is emptied and written: no other chat's log is touched.          *)
LEMMA OpenLogInv ==
    ASSUME IInv, OpenLog
    PROVE  IInv'
<1> USE DEF storeVars, liveVars, histVars, runVars
<1>0. /\ pc = "place" /\ pc' = "log" /\ todo = {} /\ lines' = [lines EXCEPT ![Here] = {}]
      /\ UNCHANGED <<dir, body, row, map, runVars, finished, cut, taken>>
  BY DEF OpenLog, Step
<1>1. /\ Chat' = Chat /\ Here' = Here /\ Here \in Folders
      /\ \A m \in InDump : Through(m) => mapping[ChatOf[m]] # Here
  BY <1>0, TurnFacts DEF Chat, Here, InChat
<1>2. \A F \in Folders : lines'[F] = IF F = Here THEN {} ELSE lines[F]
  BY <1>0 DEF IInv, TypeOK
<1>3. TypeOK'
  BY <1>0 DEF IInv, TypeOK, OpenLog, Steps
<1>4. RunInv'
  BY <1>0, <1>1 DEF IInv, RunInv, InChat, Starting
<1>5. NameInv' /\ FoldersDistinct' /\ PartInv'
  BY <1>0 DEF IInv, NameInv, FoldersDistinct, OwnFolder, PartInv
<1>6. DoneInv'
  <2>1. \A m : (Through(m)' <=> Through(m)) /\ (Filed(m)' <=> Filed(m))
    BY <1>0 DEF Through, Filed, OwnFolder
  <2>2. \A m \in InDump : Through(m) => m \in lines'[mapping[ChatOf[m]]]
    <3> SUFFICES ASSUME NEW m \in InDump, Through(m) PROVE m \in lines'[mapping[ChatOf[m]]]
      OBVIOUS
    <3>1. mapping[ChatOf[m]] \in Folders \ {Here} /\ m \in lines[mapping[ChatOf[m]]]
      BY <1>1, ConstAssumption DEF IInv, DoneInv, TypeOK, Maps
    <3>2. QED
      BY <1>2, <3>1
  <2>3. QED
    BY <1>0, <1>1, <2>1, <2>2 DEF IInv, DoneInv, InChat
<1>7. EndInv' /\ RowsLogged'
  BY <1>0, Running
<1>8. WipedInv'
  BY <1>0, <1>2 DEF IInv, WipedInv, Emptied, Steps
<1>9. QED
  BY <1>3, <1>4, <1>5, <1>6, <1>7, <1>8 DEF IInv

LEMMA WriteLogInv ==
    ASSUME IInv, WriteLog
    PROVE  IInv'
<1> USE DEF storeVars, liveVars, histVars, runVars
<1>0. /\ pc = "log" /\ pc' = "rows" /\ lines' = [lines EXCEPT ![Here] = DumpOf(Chat)]
      /\ UNCHANGED <<dir, body, row, map, runVars, finished, cut, taken>>
  BY DEF WriteLog, Step
<1>1. /\ Chat' = Chat /\ Here' = Here /\ Here \in Folders /\ DumpOf(Chat) \subseteq InDump
      /\ \A m \in InDump : Through(m) => mapping[ChatOf[m]] # Here
  BY <1>0, TurnFacts DEF Chat, Here, InChat
<1>2. \A F \in Folders : lines'[F] = IF F = Here THEN DumpOf(Chat) ELSE lines[F]
  BY <1>0 DEF IInv, TypeOK
<1>3. TypeOK'
  BY <1>0, <1>1, ConstAssumption DEF IInv, TypeOK, WriteLog, Steps
<1>4. RunInv'
  BY <1>0, <1>1 DEF IInv, RunInv, InChat, Starting
<1>5. NameInv' /\ FoldersDistinct' /\ PartInv'
  BY <1>0 DEF IInv, NameInv, FoldersDistinct, OwnFolder, PartInv
<1>6. DoneInv'
  <2>1. \A m : (Through(m)' <=> Through(m)) /\ (Filed(m)' <=> Filed(m))
    BY <1>0 DEF Through, Filed, OwnFolder
  <2>2. \A m \in InDump : Through(m) => m \in lines'[mapping[ChatOf[m]]]
    <3> SUFFICES ASSUME NEW m \in InDump, Through(m) PROVE m \in lines'[mapping[ChatOf[m]]]
      OBVIOUS
    <3>1. mapping[ChatOf[m]] \in Folders \ {Here} /\ m \in lines[mapping[ChatOf[m]]]
      BY <1>1, ConstAssumption DEF IInv, DoneInv, TypeOK, Maps
    <3>2. QED
      BY <1>2, <3>1
  <2>3. \A m \in DumpOf(Chat) : m \in lines'[Here]
    BY <1>1, <1>2
  <2>4. QED
    BY <1>0, <1>1, <2>1, <2>2, <2>3 DEF IInv, DoneInv, InChat
<1>7. EndInv' /\ RowsLogged'
  BY <1>0, Running
<1>8. WipedInv'
  BY <1>0, <1>1, <1>2 DEF IInv, WipedInv, Emptied, Steps
<1>9. QED
  BY <1>3, <1>4, <1>5, <1>6, <1>7, <1>8 DEF IInv

LEMMA InsertInv ==
    ASSUME IInv, Insert
    PROVE  IInv'
<1> USE DEF storeVars, liveVars, histVars
<1>0. /\ pc = "rows" /\ pc' \in {"commit", "chat"} /\ txn' = txn \cup DumpOf(Chat)
      /\ chats' = chats + 1 /\ pos' = pos + 1 /\ todo = {} /\ copying = {}
      /\ UNCHANGED <<storeVars, wipe, mapping, todo, copying, finished, cut, taken>>
  BY DEF Insert, Step, IInv, RunInv
<1>1. /\ pos < Len(Tables) /\ Chat \in Chats /\ Here \in Folders /\ DumpOf(Chat) \subseteq InDump
      /\ \A m \in DumpOf(Chat) : ChatOf[m] = Chat
  BY <1>0, TurnFacts DEF InChat
<1>2. \A m : Through(m)' <=> Through(m) \/ ChatOf[m] = Chat
  BY <1>0, <1>1, ThroughMore DEF IInv
<1>3. TypeOK'
  <2>1. pos' \in 0..Len(Tables) /\ chats' \in 0..pos'
    BY <1>0, <1>1, TablesFacts DEF IInv, TypeOK
  <2>2. QED
    BY <1>0, <1>1, <2>1 DEF IInv, TypeOK, Insert, Steps
<1>4. RunInv'
  <2>1. \A i \in DOMAIN Tables : i > pos' => mapping'[Tables[i]] = NoFolder
    <3> SUFFICES ASSUME NEW i \in 1..Len(Tables), i > pos + 1 PROVE mapping[Tables[i]] = NoFolder
      BY <1>0, TablesFacts
    <3>1. i > pos /\ i # pos + 1 /\ i \in DOMAIN Tables
      BY TablesFacts DEF IInv, TypeOK
    <3>2. QED
      BY <3>1 DEF IInv, RunInv
  <2>2. QED
    BY <1>0, <2>1 DEF IInv, RunInv, InChat, Starting
<1>5. NameInv' /\ FoldersDistinct' /\ PartInv'
  BY <1>0 DEF IInv, NameInv, FoldersDistinct, OwnFolder, PartInv
<1>6. DoneInv'
  <2>1. \A m : Filed(m)' <=> Filed(m)
    BY <1>0 DEF Filed, OwnFolder
  <2>2. \A m \in DumpOf(Chat) : /\ mapping[ChatOf[m]] # NoFolder /\ m \in lines[mapping[ChatOf[m]]]
                                /\ m \in DumpBody \ taken => Filed(m)
                                /\ m \in txn'
    BY <1>0, <1>1, IdFacts DEF IInv, DoneInv, InChat, Here
  <2>3. ASSUME NEW m \in InDump, Through(m)'
        PROVE  /\ mapping[ChatOf[m]] # NoFolder /\ m \in lines[mapping[ChatOf[m]]]
               /\ m \in DumpBody \ taken => Filed(m)
               /\ m \in txn' \/ row[m] # NoRow
    <3>1. CASE Through(m)
      BY <1>0, <3>1 DEF IInv, DoneInv
    <3>2. CASE ChatOf[m] = Chat
      BY <2>2, <3>2 DEF DumpOf
    <3>3. QED
      BY <1>2, <2>3, <3>1, <3>2
  <2>4. \A m \in txn' : Through(m)'
    BY <1>0, <1>1, <1>2 DEF IInv, DoneInv
  <2>5. QED
    BY <1>0, <2>1, <2>3, <2>4 DEF DoneInv, InChat
<1>7. EndInv' /\ RowsLogged'
  BY <1>0, Running
<1>8. WipedInv'
  BY <1>0 DEF IInv, WipedInv, Emptied, Steps
<1>9. QED
  BY <1>3, <1>4, <1>5, <1>6, <1>7, <1>8 DEF IInv

(* A commit gives every message of the open transaction a row, and changes  *)
(* whether there is one for no other.                                       *)
LEMMA CommittedFacts ==
    ASSUME IInv
    PROVE  /\ Committed \in [Msgs -> Folders \cup {Bare, NoRow}]
           /\ \A m \in Msgs : Committed[m] # NoRow <=> row[m] # NoRow \/ m \in txn
<1>1. \A m \in txn : m \in InDump /\ mapping[ChatOf[m]] \in Folders
  BY ConstAssumption DEF IInv, TypeOK, DoneInv, Maps
<1>2. Bare # NoRow /\ NoRow \notin Folders /\ row \in [Msgs -> Folders \cup {Bare, NoRow}]
  BY ConstAssumption DEF IInv, TypeOK
<1>3. ASSUME NEW m \in Msgs
      PROVE  /\ Committed[m] \in Folders \cup {Bare, NoRow}
             /\ Committed[m] # NoRow <=> row[m] # NoRow \/ m \in txn
  BY <1>1, <1>2 DEF Committed, Upsert
<1>4. QED
  BY <1>3 DEF Committed

LEMMA CommitInv ==
    ASSUME IInv, Commit \/ LastCommit
    PROVE  IInv'
<1> USE DEF storeVars, liveVars, histVars
<1>0. /\ pc \in {"commit", "chat"} /\ pc' \in {"chat", "save"} /\ (pc' = "save" => pos = Len(Tables))
      /\ row' = Committed /\ txn' = {}
      /\ UNCHANGED <<liveVars, dir, lines, body, map, wipe, pos, chats, mapping, todo, copying, histVars>>
  BY DEF Commit, LastCommit, Step
<1>1. TypeOK'
  BY <1>0, CommittedFacts DEF IInv, TypeOK, Steps
<1>2. RunInv'
  BY <1>0 DEF IInv, RunInv, InChat, Starting
<1>3. NameInv' /\ FoldersDistinct' /\ PartInv'
  BY <1>0 DEF IInv, NameInv, FoldersDistinct, OwnFolder, PartInv
<1>4. DoneInv'
  <2>1. \A m : (Through(m)' <=> Through(m)) /\ (Filed(m)' <=> Filed(m))
    BY <1>0 DEF Through, Filed, OwnFolder
  <2>2. \A m \in InDump : m \in txn \/ row[m] # NoRow => row'[m] # NoRow
    BY <1>0, CommittedFacts, ConstAssumption
  <2>3. QED
    BY <1>0, <2>1, <2>2 DEF IInv, DoneInv, InChat
<1>5. EndInv' /\ RowsLogged'
  BY <1>0, Running
<1>6. WipedInv'
  BY <1>0, CommittedFacts DEF IInv, TypeOK, WipedInv, Emptied, Steps
<1>7. QED
  BY <1>1, <1>2, <1>3, <1>4, <1>5, <1>6 DEF IInv

LEMMA OpenMapInv ==
    ASSUME IInv, OpenMap
    PROVE  IInv'
<1> USE DEF storeVars, liveVars, histVars, runVars
<1>0. /\ pc = "save" /\ pc' = "saving" /\ map' = Blank
      /\ UNCHANGED <<liveVars, dir, lines, body, row, runVars, histVars>>
  BY DEF OpenMap, Step
<1>1. TypeOK'
  BY <1>0 DEF IInv, TypeOK, Steps, Maps, Blank
<1>2. RunInv'
  BY <1>0 DEF IInv, RunInv, InChat, Starting
<1>3. NameInv' /\ FoldersDistinct' /\ PartInv'
  BY <1>0, IdFacts DEF IInv, NameInv, FoldersDistinct, OwnFolder, PartInv, Blank
<1>4. DoneInv'
  BY <1>0 DEF IInv, DoneInv, Through, Filed, OwnFolder, InChat
<1>5. EndInv' /\ RowsLogged'
  BY <1>0, Running
<1>6. WipedInv'
  BY <1>0 DEF IInv, WipedInv, Emptied, Steps
<1>7. QED
  BY <1>1, <1>2, <1>3, <1>4, <1>5, <1>6 DEF IInv

(* The end of an import: all tables are behind it, so the whole backup is   *)
(* stored; after a wipe there is nothing else.                              *)
LEMMA WriteMapInv ==
    ASSUME IInv, WriteMap
    PROVE  IInv'
<1> USE DEF liveVars
<1>0. /\ pc = "saving" /\ pc' = "off" /\ map' = mapping /\ Forget
      /\ finished' = (IF wipe THEN "wiped" ELSE "kept")
      /\ UNCHANGED <<liveVars, dir, lines, body, row, wipe, faults, runs, cut, taken>>
      /\ pos = Len(Tables) /\ txn = {} /\ copying = {}
  BY DEF WriteMap, Step, IInv, RunInv
<1>1. TypeOK'
  BY <1>0, TablesFacts DEF IInv, TypeOK, Steps, Maps, Blank, Forget
<1>2. RunInv' /\ FoldersDistinct' /\ DoneInv'
  BY <1>0, AtStart DEF Starting, Forget
<1>3. NameInv'
  BY <1>0, IdFacts DEF IInv, NameInv, OwnFolder, Blank, Forget
<1>4. PartInv'
  BY <1>0 DEF IInv, PartInv, Forget
<1>5. \A m \in InDump :
         /\ mapping[ChatOf[m]] \in Folders /\ m \in lines[mapping[ChatOf[m]]] /\ row[m] # NoRow
         /\ m \in DumpBody \ taken => Filed(m)
  <2>1. \A m \in InDump : Through(m)
    BY <1>0, TablesFacts DEF Through
  <2>2. QED
    BY <1>0, <2>1, ConstAssumption DEF IInv, DoneInv, TypeOK, Maps
<1>6. EndInv'
  <2>1. \A m : Filed(m)' <=> Filed(m)
    BY <1>0 DEF Filed, OwnFolder
  <2>2. \A c \in Chats : mapping[c] \in dir \cup {NoFolder}
    BY DEF IInv, NameInv
  <2>3. QED
    BY <1>0, <1>5, <2>1, <2>2, IdFacts DEF EndInv
<1>7. RowsLogged'
  <2>1. wipe => \A m \in Msgs : row[m] # NoRow \/ (\E F \in Folders : m \in lines[F]) => m \in InDump
    BY <1>0 DEF IInv, WipedInv, Emptied, Steps
  <2>2. QED
    BY <1>0, <1>5, <2>1 DEF RowsLogged
<1>8. WipedInv'
  BY <1>0 DEF IInv, WipedInv, Emptied
<1>9. QED
  BY <1>1, <1>2, <1>3, <1>4, <1>6, <1>7, <1>8 DEF IInv

-----------------------------------------------------------------------------
(* An upload is stored while no import runs.                                *)

(* Only the folder of the chat's bare id is given up, and when the map      *)
(* names a folder that exists, only to be renamed.                          *)
LEMMA ResolvedFacts ==
    ASSUME IInv, NEW m \in Uploads
    PROVE  LET r == Resolved(m)
               c == ChatOf[m]
           IN  /\ c \in Chats
               /\ r.to \in Folders /\ OwnFolder(c, r.to)
               /\ r.old \in {NoFolder, IdFolder[c]} /\ r.old \in dir \cup {NoFolder}
               /\ r.old # r.to
               /\ r.old # NoFolder /\ map[c] \in dir => r.to \notin dir
<1> DEFINE c == ChatOf[m]
           named == LiveName[m]
           cur == map[c]
           wanted == IF named # NoFolder THEN named ELSE IF cur # NoFolder THEN cur ELSE IdFolder[c]
           owned == wanted \in dir /\ \E k \in Chats \ {c} : map[k] = wanted
           target == IF cur # wanted /\ owned THEN Suffixed[wanted][c][1] ELSE wanted
<1>1. c \in Chats /\ dir \subseteq Folders /\ NoFolder \notin Folders /\ IdFolder[c] \in Folders
  BY ConstAssumption DEF IInv, TypeOK
<1>2. cur \in Folders \cup {NoFolder} /\ OwnFolder(c, cur)
  BY <1>1 DEF IInv, TypeOK, Maps, NameInv
<1>3. wanted \in Folders /\ OwnFolder(c, wanted)
  BY <1>1, <1>2, ConstAssumption, IdAssumption DEF OwnFolder
<1> HIDE DEF wanted
<1>4. target \in Folders /\ OwnFolder(c, target)
  <2> DEFINE alt == Suffixed[wanted][c]
  <2>1. alt \in Seq(Folders) /\ alt # <<>>
    BY <1>1, <1>3, ConstAssumption, SuffixAssumption
  <2>2. 1 \in DOMAIN alt /\ alt[1] \in Folders
    <3> HIDE DEF alt
    <3>1. QED
      BY <2>1
  <2>3. \A d \in Chats : alt[1] # IdFolder[d]
    BY <1>1, <1>3, <2>2, IdAssumption
  <2>4. QED
    BY <1>3, <2>2, <2>3 DEF OwnFolder
<1> DEFINE r == Resolved(m)
           upgrade == named # NoFolder /\ cur = IdFolder[c] /\ wanted \notin dir
<1>5. r = IF cur \in dir
            THEN IF upgrade THEN [to |-> wanted, old |-> cur]
                 ELSE [to |-> IF wanted \in dir THEN wanted ELSE cur, old |-> NoFolder]
            ELSE [to |-> target,
                  old |-> IF IdFolder[c] \in dir \ {target} THEN IdFolder[c] ELSE NoFolder]
  BY DEF Resolved, wanted
<1> HIDE DEF r, target, c, cur, named
<1>6. /\ r.to \in Folders /\ OwnFolder(c, r.to)
      /\ r.old \in {NoFolder, IdFolder[c]} /\ r.old \in dir \cup {NoFolder}
      /\ r.old # r.to
      /\ r.old # NoFolder /\ cur \in dir => r.to \notin dir
  <2>1. CASE cur \in dir /\ upgrade
    BY <1>1, <1>2, <1>3, <1>5, <2>1
  <2>2. CASE cur \in dir /\ ~upgrade
    BY <1>1, <1>2, <1>3, <1>5, <2>2
  <2>3. CASE cur \notin dir
    BY <1>1, <1>4, <1>5, <2>3
  <2>4. QED
    BY <2>1, <2>2, <2>3
<1>7. QED
  BY <1>1, <1>6 DEF r, c, cur

LEMMA StoreInv ==
    ASSUME IInv, NEW m \in Uploads, Store(m)
    PROVE  IInv'
<1> USE DEF runVars, histVars
<1> DEFINE c == ChatOf[m]
           to == Resolved(m).to
           old == Resolved(m).old
           moved == IF to \in dir \/ old = NoFolder THEN body[to] ELSE body[old]
           merged == IF old = NoFolder THEN {} ELSE lines[old]
           added == IF Appends(m) THEN {m} ELSE {}
           new == IF m \in UploadBody THEN to ELSE Bare
<1>1. /\ c \in Chats /\ to \in Folders /\ OwnFolder(c, to) /\ old # to
      /\ old \in {NoFolder, IdFolder[c]} /\ old \in dir \cup {NoFolder}
      /\ old # NoFolder /\ map[c] \in dir => to \notin dir
  BY ResolvedFacts
<1>2. /\ on /\ dir' = (dir \ {old}) \cup {to}
      /\ map' = [map EXCEPT ![c] = to]
      /\ lines' = [F \in Folders |-> CASE F = to -> lines[F] \cup merged \cup added
                                       [] F = old -> {}
                                       [] OTHER -> lines[F]]
      /\ body' = [F \in Folders |-> IF F = to THEN moved ELSE IF F = old THEN Empty ELSE body[F]]
      /\ row' = [row EXCEPT ![m] = Upsert(@, new)]
      /\ up' = [up EXCEPT ![m] = "done"]
      /\ UNCHANGED <<on, pc, runVars, histVars>>
  BY DEF Store
<1> HIDE DEF to, old, c
<1>3. m \in Msgs /\ NoFolder \notin Folders /\ NoRow \notin Folders /\ Bare # NoRow
  BY ConstAssumption
<1>4. /\ pc = "off" /\ pos = 0 /\ mapping = Blank /\ txn = {} /\ todo = {} /\ copying = {}
  BY <1>2, StartFacts DEF IInv, TypeOK, Starting
<1>5. moved \in [Msgs -> Bytes] /\ merged \subseteq Msgs /\ added \subseteq Msgs
  BY <1>1, <1>3 DEF IInv, TypeOK
<1>6. \A x \in Msgs :
         (\E F \in Folders : x \in lines'[F]) <=> (\E F \in Folders : x \in lines[F]) \/ x \in added
  <2> SUFFICES ASSUME NEW x \in Msgs
               PROVE  (\E F \in Folders : x \in lines'[F])
                         <=> (\E F \in Folders : x \in lines[F]) \/ x \in added
    OBVIOUS
  <2>1. /\ lines'[to] = lines[to] \cup merged \cup added
        /\ \A F \in Folders \ {to} : lines'[F] = IF F = old THEN {} ELSE lines[F]
    BY <1>1, <1>2
  <2>2. old # NoFolder => old \in Folders
    BY <1>1 DEF IInv, TypeOK
  <2> HIDE DEF added
  <2>3. QED
    BY <1>1, <1>3, <2>1, <2>2
<1>7. /\ \A x \in Msgs : row[x] # NoRow => row'[x] # NoRow
      /\ \A x \in Msgs \ {m} : row'[x] = row[x]
      /\ row'[m] # NoRow
      /\ row' \in [Msgs -> Folders \cup {Bare, NoRow}]
  BY <1>1, <1>2, <1>3, ConstAssumption DEF IInv, TypeOK, Upsert
<1> HIDE DEF moved, merged, new
<1>8. /\ map'[c] = to /\ \A d \in Chats \ {c} : map'[d] = map[d]
      /\ map' \in Maps
  BY <1>1, <1>2 DEF IInv, TypeOK, Maps
<1>9. TypeOK'
  <2>1. lines' \in [Folders -> SUBSET Msgs]
    <3>1. \A F \in Folders : lines[F] \subseteq Msgs
      BY DEF IInv, TypeOK
    <3>2. QED
      BY <1>2, <1>5, <3>1
  <2>2. body' \in [Folders -> [Msgs -> Bytes]]
    BY <1>2, <1>5 DEF IInv, TypeOK, Empty, Bytes
  <2>3. dir' \subseteq Folders
    BY <1>1, <1>2 DEF IInv, TypeOK
  <2>4. up' \in [Uploads -> {"phone", "inbox", "claimed", "done", "gone"}]
    BY <1>2 DEF IInv, TypeOK
  <2>5. QED
    BY <1>2, <1>7, <1>8, <2>1, <2>2, <2>3, <2>4 DEF IInv, TypeOK
<1>10. RunInv' /\ FoldersDistinct' /\ DoneInv'
  BY <1>2, <1>4, AtStart DEF IInv, RunInv, Starting
<1>11. NameInv'
  BY <1>1, <1>2, <1>4, <1>8 DEF IInv, NameInv, OwnFolder, Blank
<1>12. \A G \in dir \ {old} : G \in dir' /\ \A x \in Msgs : body'[G][x] = body[G][x] \/ body'[G][x] = "whole"
  BY <1>1, <1>2, <1>5 DEF IInv, TypeOK, moved
<1>13. PartInv'
  <2> SUFFICES ASSUME NEW F \in Folders, NEW x \in Msgs, body'[F][x] = "part", x \notin cut
               PROVE  IF DumpName[ChatOf[x]] = IdFolder[ChatOf[x]]
                        THEN F # IdFolder[ChatOf[x]]
                        ELSE \E G \in dir' : body'[G][x] = "whole" /\ \A d \in Chats : G # IdFolder[d]
    BY <1>2, <1>4 DEF PartInv
  <2>1. PICK H \in Folders : body[H][x] = "part" /\ (H = F \/ (H = old /\ F = to))
    BY <1>1, <1>2, <1>5 DEF IInv, TypeOK, Empty, moved
  <2>2. ChatOf[x] \in Chats
    BY ConstAssumption
  <2>3. CASE DumpName[ChatOf[x]] = IdFolder[ChatOf[x]]
    <3>1. H # IdFolder[ChatOf[x]]
      BY <1>4, <2>1, <2>3 DEF IInv, PartInv
    <3>2. QED
      BY <1>1, <1>3, <2>1, <2>2, <2>3, <3>1 DEF OwnFolder
  <2>4. CASE DumpName[ChatOf[x]] # IdFolder[ChatOf[x]]
    <3>1. PICK G \in dir : body[G][x] = "whole" /\ \A d \in Chats : G # IdFolder[d]
      BY <1>4, <2>1, <2>4 DEF IInv, PartInv
    <3>2. G # old
      BY <1>1, <1>3, <3>1 DEF IInv, TypeOK
    <3>3. QED
      BY <1>12, <2>4, <3>1, <3>2
  <2>5. QED
    BY <2>3, <2>4
<1>14. EndInv'
  <2> SUFFICES ASSUME finished # "no"
               PROVE  /\ \A d \in Chats : map'[d] \in dir' \cup {NoFolder}
                      /\ \A x \in InDump :
                            /\ map'[ChatOf[x]] # NoFolder /\ row'[x] # NoRow
                            /\ \E F \in Folders : x \in lines'[F]
                            /\ x \in DumpBody \ taken => Filed(x)'
    BY <1>2 DEF EndInv
  <2>1. \A d \in Chats : map[d] \in dir \cup {NoFolder}
    BY DEF IInv, EndInv
  <2>2. ASSUME NEW d \in Chats PROVE map'[d] \in dir' \cup {NoFolder}
    <3>1. CASE d = c
      BY <1>2, <1>8, <3>1
    <3>2. CASE d # c
      BY <1>1, <1>2, <1>8, <2>1, <3>2 DEF IInv, NameInv, OwnFolder
    <3>3. QED
      BY <3>1, <3>2
  <2>3. ASSUME NEW x \in InDump
        PROVE  /\ map'[ChatOf[x]] # NoFolder /\ row'[x] # NoRow
               /\ \E F \in Folders : x \in lines'[F]
    <3>1. /\ x \in Msgs /\ ChatOf[x] \in Chats
          /\ map[ChatOf[x]] # NoFolder /\ row[x] # NoRow
          /\ \E F \in Folders : x \in lines[F]
      BY ConstAssumption DEF IInv, EndInv
    <3>2. QED
      BY <1>1, <1>3, <1>6, <1>7, <1>8, <3>1
  <2>4. ASSUME NEW x \in DumpBody \ taken PROVE Filed(x)'
    <3>1. x \in Msgs /\ ChatOf[x] \in Chats /\ map[ChatOf[x]] # NoFolder /\ Filed(x)
      BY ConstAssumption DEF IInv, EndInv
    <3>2. PICK F \in dir : /\ OwnFolder(ChatOf[x], F)
                           /\ body[F][x] = "whole" \/ (x \in cut /\ body[F][x] = "part")
      BY <3>1 DEF Filed
    <3>3. CASE F # old
      BY <1>2, <1>12, <3>1, <3>2, <3>3 DEF Filed, OwnFolder
    <3>4. CASE F = old
      <4>1. ChatOf[x] = c
        BY <1>1, <1>3, <3>1, <3>2, <3>4 DEF OwnFolder, IInv, TypeOK
      <4>2. to \notin dir /\ old # NoFolder
        BY <1>1, <1>3, <2>1, <3>1, <3>2, <3>4, <4>1 DEF IInv, TypeOK
      <4>3. moved = body[old]
        BY <4>2 DEF moved
      <4>4. body'[to][x] = "whole" \/ body'[to][x] = body[old][x]
        BY <1>1, <1>2, <1>5, <3>1, <4>3
      <4>5. to \in dir' /\ OwnFolder(ChatOf[x], to) /\ cut' = cut
        BY <1>1, <1>2, <4>1
      <4>6. QED
        BY <3>2, <3>4, <4>4, <4>5 DEF Filed, OwnFolder
    <3>5. QED
      BY <3>3, <3>4
  <2>5. QED
    BY <2>2, <2>3, <2>4
<1>15. RowsLogged'
  <2> SUFFICES ASSUME finished = "wiped", NEW x \in Msgs
               PROVE  row'[x] # NoRow <=> \E F \in Folders : x \in lines'[F]
    BY <1>2 DEF RowsLogged
  <2>1. row[x] # NoRow <=> \E F \in Folders : x \in lines[F]
    BY DEF IInv, RowsLogged
  <2>2. CASE x = m
    BY <1>6, <1>7, <2>1, <2>2 DEF Appends
  <2>3. CASE x # m
    BY <1>6, <1>7, <2>1, <2>3
  <2>4. QED
    BY <2>2, <2>3
<1>16. WipedInv'
  BY <1>2, <1>4 DEF IInv, WipedInv, Emptied
<1>17. QED
  BY <1>9, <1>10, <1>11, <1>13, <1>14, <1>15, <1>16 DEF IInv

-----------------------------------------------------------------------------
(* The theorems.                                                            *)

LEMMA NextInv ==
    ASSUME IInv, [Next]_vars
    PROVE  IInv'
<1>1. CASE UNCHANGED vars \/ Switch \/ \E m \in Uploads : Put(m) \/ Claim(m)
  BY <1>1, SmallSteps
<1>2. CASE \E m \in Uploads : Store(m)
  BY <1>2, StoreInv
<1>3. CASE Begin
  BY <1>3, BeginInv
<1>4. CASE Wipe \/ LoadContacts
  BY <1>4, WipeInv
<1>5. CASE SkipChat \/ BeginChat
  BY <1>5, SkipChatInv, BeginChatInv
<1>6. CASE \E m \in todo : Keep(m) \/ Place(m) \/ BeginCopy(m) \/ EndCopy(m)
  BY <1>6, KeepInv, PlaceInv, BeginCopyInv, EndCopyInv
<1>7. CASE OpenLog \/ WriteLog \/ Insert
  BY <1>7, OpenLogInv, WriteLogInv, InsertInv
<1>8. CASE Commit \/ LastCommit \/ OpenMap \/ WriteMap
  BY <1>8, CommitInv, OpenMapInv, WriteMapInv
<1>9. CASE NoContacts \/ Crash
  BY <1>9, FailInv
<1>10. QED
  BY <1>1, <1>2, <1>3, <1>4, <1>5, <1>6, <1>7, <1>8, <1>9 DEF Next, Live, Import

LEMMA AlwaysIInv == Spec => []IInv
<1>1. Init => IInv
  BY InitInv
<1>2. IInv /\ [Next]_vars => IInv'
  BY NextInv
<1>3. QED
  BY <1>1, <1>2, PTL DEF Spec

(* Every variable of the import, the store and the uploads keeps its type,  *)
(* and an import never runs beside the consumer (main).                     *)
THEOREM DumpTypeCorrect == Spec => []TypeOK
<1>1. IInv => TypeOK
  BY DEF IInv
<1>2. QED
  BY <1>1, AlwaysIInv, PTL

(* chat_folder_name never gives two chats of an import one folder, however  *)
(* many of them are called alike or like another's suffixed name.           *)
THEOREM FoldersStayDistinct == Spec => []FoldersDistinct
<1>1. IInv => FoldersDistinct
  BY DEF IInv
<1>2. QED
  BY <1>1, AlwaysIInv, PTL

(* However many imports failed before and at whatever step: one that ends   *)
(* has stored the whole backup (the tables, place_media, the log, the rows),*)
(* and what the consumer renames and merges afterwards loses none of it.    *)
(* Without the wipe a media file may be missing where place_media found     *)
(* another chat's file under its name: with the wipe it never does.         *)
THEOREM BackupStored == Spec => []DumpStored
<1>1. IInv => DumpStored
  <2>1. ASSUME IInv, NEW m \in DumpBody, Filed(m)
        PROVE  \E F \in Folders : body[F][m] = "whole" \/ (m \in cut /\ body[F][m] = "part")
    BY <2>1 DEF IInv, TypeOK, Filed
  <2>2. QED
    BY <2>1 DEF IInv, EndInv, WipedInv, TypeOK, DumpStored
<1>2. QED
  BY <1>1, AlwaysIInv, PTL

(* After an import that wiped the store, index and logs hold the same       *)
(* messages, and the uploads that follow keep it so (_persist_event).       *)
THEOREM IndexMatchesLogs == Spec => []RowsLogged
<1>1. IInv => RowsLogged
  BY DEF IInv
<1>2. QED
  BY <1>1, AlwaysIInv, PTL
=============================================================================

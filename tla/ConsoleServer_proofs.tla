------------------------ MODULE ConsoleServer_proofs ------------------------
(***************************************************************************)
(* Theorems about ConsoleServer for any threads, settings, changes and     *)
(* limits: its type invariant, the bound on failed logins, that files no   *)
(* two threads worked on at once are whole, that saves which did not       *)
(* overlap are kept, and that a voice one request at a time works on is    *)
(* whole.                                                                  *)
(***************************************************************************)
EXTENDS ConsoleServer, FiniteSetTheorems, TLAPS

USE DEF OtherSteps

(* The handlers past the look at the failures.                              *)
Trying == {t \in Handlers : pc[t] \in LoginSteps}

LoginInv ==
    /\ pc[Loop] \notin LoginSteps
    /\ FormBounded

(* One thread at a time works on a file that was not raced for; what it has *)
(* written so far is under the temporary name.                              *)
FileInv == \A f \in Files \ raced :
    /\ disk[f]["own"].bytes \in {"none", "whole"}
    /\ \A t, u \in Working(f) : t = u
    /\ \A t \in Working(f) :
         /\ pc[t] = "write" => fd[t] = "tmp" /\ disk[f]["tmp"].bytes = "empty"
         /\ pc[t] = "replace" => disk[f]["tmp"] = Text(t)

(* Only a save has a change in hand, and it will write that change upon the *)
(* settings as they are.                                                    *)
SaveInv ==
    /\ \A t \in Threads : file[t] # "settings" => upd[t] = {}
    /\ \A t \in Threads : file[t] = "settings" => pc[t] \in FileSteps
    /\ "settings" \notin raced =>
         /\ Loaded = want
         /\ \A t \in Working("settings") : got[t] = Merged(want, upd[t])

(* A voice that was not raced for has one thread at it, that read a whole   *)
(* .pcm.                                                                    *)
VoiceInv == "voice" \notin raced /\ spoilt = {} =>
    /\ joined = {}
    /\ \A t, u \in Transcoding : t = u
    /\ wav \in {"none", "empty", "whole"}
    /\ \A t \in Threads : pc[t] = "pcm" => pcm \in {"none", "empty", "whole"}
    /\ \A t \in Threads : pc[t] = "wav" => heard[t] = "whole"

ServerInv == TypeOK /\ LoginInv /\ FileInv /\ SaveInv /\ VoiceInv

-----------------------------------------------------------------------------
LEMMA TryingCount ==
    /\ IsFiniteSet(Trying)
    /\ Cardinality(Trying) \in Nat
    /\ Cardinality(Trying) <= Cardinality(Handlers)
    /\ Cardinality(Handlers) \in Nat
<1>1. Trying \in SUBSET Handlers
  BY DEF Trying
<1>2. QED
  BY <1>1, ConstAssumption, FS_Subset, FS_CardinalityType DEF ConstAssumption

LEMMA ServerInit == Init => ServerInv
<1> SUFFICES ASSUME Init PROVE ServerInv
  OBVIOUS
<1>1. TypeOK
  BY ConstAssumption DEF Init, TypeOK, ConstAssumption, Files, Names, Bytes, Content, NoFile
<1>2. LoginInv
  <2>1. Trying = {}
    BY DEF Init, Trying, LoginSteps, Threads
  <2>2. Cardinality(Trying) = 0
    BY <2>1, FS_EmptySet
  <2>3. QED
    BY <2>2, TryingCount, ConstAssumption
       DEF Init, LoginInv, FormBounded, Trying, LoginSteps, Threads, ConstAssumption
<1>3. FileInv
  BY DEF Init, FileInv, Working, FileSteps, NoFile, Files, Names
<1>4. SaveInv
  BY DEF Init, SaveInv, Working, FileSteps, NoFile, Files, Names, Loaded
<1>5. VoiceInv
  BY DEF Init, VoiceInv, Transcoding, VoiceSteps
<1>6. QED
  BY <1>1, <1>2, <1>3, <1>4, <1>5 DEF ServerInv

-----------------------------------------------------------------------------
(* What the steps of one part leave of the others.                          *)

LEMMA LoginElse ==
    ASSUME TypeOK, LoginInv, NEW t \in Threads, NEW x,
           pc[t] \notin LoginSteps, x \notin LoginSteps,
           pc' = [pc EXCEPT ![t] = x], fails' = fails
    PROVE  LoginInv'
<1>1. pc \in [Threads -> OtherSteps \cup LoginSteps \cup FileSteps \cup VoiceSteps]
  BY DEF TypeOK
<1>2. Trying' = Trying
  BY <1>1 DEF Trying, Threads
<1>3. pc'[Loop] \notin LoginSteps
  BY <1>1 DEF LoginInv, Threads
<1>4. QED
  BY <1>2, <1>3 DEF LoginInv, FormBounded, Trying

LEMMA FileElse ==
    ASSUME TypeOK, FileInv, SaveInv, NEW t \in Threads, NEW x,
           pc[t] \notin FileSteps, x \notin FileSteps,
           pc' = [pc EXCEPT ![t] = x], UNCHANGED fileVars, raced \subseteq raced'
    PROVE  FileInv' /\ SaveInv'
<1>1. pc \in [Threads -> OtherSteps \cup LoginSteps \cup FileSteps \cup VoiceSteps]
  BY DEF TypeOK
<1>2. \A u \in Threads : pc'[u] \in FileSteps \/ pc[u] \in FileSteps => pc'[u] = pc[u]
  BY <1>1
<1>3. \A f \in Files : Working(f)' = Working(f)
  BY <1>2 DEF Working, fileVars
<1>4. \A u \in Threads : Text(u)' = Text(u)
  BY DEF Text, fileVars
<1>5. FileInv'
  BY <1>2, <1>3, <1>4 DEF FileInv, fileVars, Working
<1>6. SaveInv'
  BY <1>2, <1>3 DEF SaveInv, fileVars, Loaded, Merged, Working, Files
<1>7. QED
  BY <1>5, <1>6

LEMMA VoiceElse ==
    ASSUME TypeOK, VoiceInv, NEW t \in Threads, NEW x,
           pc[t] \notin VoiceSteps, x \notin VoiceSteps,
           pc' = [pc EXCEPT ![t] = x], UNCHANGED voiceVars, raced \subseteq raced'
    PROVE  VoiceInv'
<1>1. pc \in [Threads -> OtherSteps \cup LoginSteps \cup FileSteps \cup VoiceSteps]
  BY DEF TypeOK
<1>2. \A u \in Threads : pc'[u] \in VoiceSteps \/ pc[u] \in VoiceSteps => pc'[u] = pc[u]
  BY <1>1
<1>3. Transcoding' = Transcoding
  BY <1>2 DEF Transcoding
<1>4. QED
  BY <1>2, <1>3 DEF VoiceInv, voiceVars, VoiceSteps

-----------------------------------------------------------------------------
LEMMA LoginStepInv ==
    ASSUME ServerInv, NEW t \in Threads,
           \/ t \in Handlers /\ BeginLogin(t)
           \/ Verify(t) \/ NoteFail(t)
           \/ BeginBasic(t) \/ EndBasic(t)
    PROVE  ServerInv'
<1> USE DEF ServerInv
<1>0. pc \in [Threads -> OtherSteps \cup LoginSteps \cup FileSteps \cup VoiceSteps]
  BY DEF TypeOK
<1>1. CASE t \in Handlers /\ BeginLogin(t)
  <2>1. TypeOK'
    BY <1>1 DEF BeginLogin, Step, TypeOK, LoginSteps, loginVars, fileVars, voiceVars
  <2>2. Trying' \in SUBSET Handlers
    BY DEF Trying
  <2>3. Cardinality(Trying)' <= Cardinality(Handlers) /\ Cardinality(Trying)' \in Nat
    BY <2>2, ConstAssumption, FS_Subset, FS_CardinalityType DEF ConstAssumption
  <2>4. fails' = fails /\ fails <= Limit - 1 /\ fails \in Nat
    BY <1>1, ConstAssumption DEF BeginLogin, Allowed, TypeOK, ConstAssumption, loginVars
  <2>5. Cardinality({u \in Handlers : pc[u] \in LoginSteps})' = Cardinality(Trying)'
    BY DEF Trying
  <2>6. FormBounded'
    BY <2>3, <2>4, <2>5, TryingCount, ConstAssumption DEF FormBounded, ConstAssumption
  <2>7. pc'[Loop] \notin LoginSteps
    BY <1>0, <1>1, ConstAssumption DEF BeginLogin, Step, LoginInv, Threads, ConstAssumption
  <2>8. FileInv' /\ SaveInv'
    BY <1>1, FileElse DEF BeginLogin, Step, FileSteps
  <2>9. VoiceInv'
    BY <1>1, VoiceElse DEF BeginLogin, Step, VoiceSteps
  <2>10. QED
    BY <2>1, <2>6, <2>7, <2>8, <2>9 DEF LoginInv
<1>2. CASE Verify(t)
  <2>1. TypeOK'
    BY <1>2 DEF Verify, Step, TypeOK, LoginSteps, loginVars, fileVars, voiceVars
  <2>2. pc[t] = "verify" /\ (pc' = [pc EXCEPT ![t] = "idle"] \/ pc' = [pc EXCEPT ![t] = "note"])
    BY <1>2 DEF Verify, Step
  <2>3. pc'[Loop] \notin LoginSteps
    BY <1>0, <2>2 DEF LoginInv, Threads, LoginSteps
  <2>4. Trying' \in SUBSET Trying
    BY <1>0, <2>2 DEF Trying, LoginSteps, Threads
  <2>5. Cardinality(Trying') <= Cardinality(Trying) /\ Cardinality(Trying') \in Nat
    BY <2>4, TryingCount, FS_Subset, FS_CardinalityType
  <2>6. FormBounded'
    BY <1>2, <2>5, TryingCount, ConstAssumption
       DEF FormBounded, LoginInv, Trying, Verify, loginVars, TypeOK, ConstAssumption
  <2>7. FileInv' /\ SaveInv'
    BY <1>2, <2>2, FileElse DEF Verify, FileSteps
  <2>8. VoiceInv'
    BY <1>2, <2>2, VoiceElse DEF Verify, VoiceSteps
  <2>9. QED
    BY <2>1, <2>3, <2>6, <2>7, <2>8 DEF LoginInv
<1>3. CASE NoteFail(t)
  <2>1. TypeOK'
    BY <1>3 DEF NoteFail, Step, TypeOK, LoginSteps, fileVars, voiceVars
  <2>2. pc[t] = "note" /\ pc' = [pc EXCEPT ![t] = "idle"] /\ fails' = fails + 1
    BY <1>3 DEF NoteFail, Step
  <2>3. t \in Trying /\ Trying' = Trying \ {t} /\ pc'[Loop] \notin LoginSteps
    BY <1>0, <2>2 DEF Trying, LoginSteps, Threads, LoginInv
  <2>4. Cardinality(Trying') = Cardinality(Trying) - 1
    BY <2>3, TryingCount, FS_RemoveElement
  <2>5. FormBounded'
    BY <2>2, <2>4, TryingCount, ConstAssumption
       DEF FormBounded, LoginInv, Trying, TypeOK, ConstAssumption
  <2>6. FileInv' /\ SaveInv'
    BY <1>3, <2>2, FileElse DEF NoteFail, FileSteps
  <2>7. VoiceInv'
    BY <1>3, <2>2, VoiceElse DEF NoteFail, VoiceSteps
  <2>8. QED
    BY <2>1, <2>3, <2>5, <2>6, <2>7 DEF LoginInv
<1>4. CASE BeginBasic(t) \/ EndBasic(t)
  <2>1. PICK x \in OtherSteps : pc' = [pc EXCEPT ![t] = x] /\ pc[t] \in OtherSteps
    BY <1>4 DEF BeginBasic, EndBasic, Step
  <2>2. UNCHANGED <<loginVars, fileVars, voiceVars, raced>>
    BY <1>4 DEF BeginBasic, EndBasic
  <2>3. TypeOK'
    BY <2>1, <2>2 DEF TypeOK, loginVars, fileVars, voiceVars
  <2>4. LoginInv'
    BY <2>1, <2>2, LoginElse DEF LoginSteps, loginVars
  <2>5. FileInv' /\ SaveInv'
    BY <2>1, <2>2, FileElse DEF FileSteps
  <2>6. VoiceInv'
    BY <2>1, <2>2, VoiceElse DEF VoiceSteps
  <2>7. QED
    BY <2>3, <2>4, <2>5, <2>6
<1>5. QED
  BY <1>1, <1>2, <1>3, <1>4

-----------------------------------------------------------------------------
(* The first step of each writer: the file it begins to work on is raced    *)
(* for, or nobody else works on it.                                         *)
Begins(t, f) ==
    /\ pc[t] = "idle"
    /\ pc' = [pc EXCEPT ![t] = "open"]
    /\ file' = [file EXCEPT ![t] = f]
    /\ NoteRace(f)
    /\ UNCHANGED <<fd, disk, want>>

LEMMA BeginFileInv ==
    ASSUME TypeOK, FileInv, NEW t \in Threads, NEW f \in Files, Begins(t, f),
           \A u \in Threads \ {t} : got'[u] = got[u]
    PROVE  FileInv'
<1>1. /\ pc \in [Threads -> OtherSteps \cup LoginSteps \cup FileSteps \cup VoiceSteps]
      /\ file \in [Threads -> Files]
  BY DEF TypeOK
<1> SUFFICES ASSUME NEW g \in Files \ raced'
             PROVE  /\ disk'[g]["own"].bytes \in {"none", "whole"}
                    /\ \A u, v \in Working(g)' : u = v
                    /\ \A u \in Working(g)' :
                         /\ pc'[u] = "write" => fd'[u] = "tmp" /\ disk'[g]["tmp"].bytes = "empty"
                         /\ pc'[u] = "replace" => disk'[g]["tmp"] = Text(u)'
  BY DEF FileInv
<1>2. g \notin raced /\ disk' = disk /\ fd' = fd
  BY DEF Begins, NoteRace
<1>3. CASE g = f
  <2>1. Working(g) = {}
    BY <1>3, <1>2 DEF Begins, NoteRace
  <2>2. Working(g)' = {t}
    BY <1>1, <1>3, <2>1 DEF Begins, Working, FileSteps
  <2>3. pc'[t] = "open"
    BY <1>1 DEF Begins
  <2>4. QED
    BY <1>2, <2>2, <2>3 DEF FileInv
<1>4. CASE g # f
  <2>1. t \notin Working(g)' /\ t \notin Working(g)
    BY <1>1, <1>4 DEF Begins, Working, FileSteps
  <2>2. \A u \in Threads \ {t} : pc'[u] = pc[u] /\ file'[u] = file[u] /\ Text(u)' = Text(u)
    BY <1>1 DEF Begins, Text
  <2>3. Working(g)' = Working(g)
    BY <2>1, <2>2 DEF Working
  <2>4. Working(g) \subseteq Threads \ {t}
    BY <2>1 DEF Working
  <2>5. QED
    BY <1>2, <2>2, <2>3, <2>4 DEF FileInv
<1>5. QED
  BY <1>3, <1>4

(* A thread without a change in hand begins on a file other than the        *)
(* settings.                                                                *)
LEMMA BeginOtherSave ==
    ASSUME TypeOK, SaveInv, NEW t \in Threads, NEW f \in Files \ {"settings"}, Begins(t, f),
           UNCHANGED <<upd, got>>
    PROVE  SaveInv'
<1>1. /\ pc \in [Threads -> OtherSteps \cup LoginSteps \cup FileSteps \cup VoiceSteps]
      /\ file \in [Threads -> Files]
  BY DEF TypeOK
<1>2. file[t] # "settings" /\ upd[t] = {}
  BY DEF SaveInv, Begins, FileSteps
<1>3. \A u \in Threads \ {t} : pc'[u] = pc[u] /\ file'[u] = file[u]
  BY <1>1 DEF Begins
<1>4. file'[t] = f /\ f # "settings" /\ "settings" \in Files
  BY <1>1 DEF Begins, Files
<1>5. Working("settings")' = Working("settings")
  BY <1>2, <1>3, <1>4 DEF Working
<1>6. raced \subseteq raced' /\ disk' = disk /\ want' = want
  BY DEF Begins, NoteRace
<1>7. Loaded' = Loaded
  BY <1>6 DEF Loaded
<1>8. QED
  BY <1>2, <1>3, <1>4, <1>5, <1>6, <1>7 DEF SaveInv, Merged, Begins

LEMMA BeginStepInv ==
    ASSUME ServerInv, NEW t \in Threads, BeginSave(t) \/ BeginStatus(t) \/ BeginPreview(t)
    PROVE  ServerInv'
<1> USE DEF ServerInv
<1>0. /\ pc \in [Threads -> OtherSteps \cup LoginSteps \cup FileSteps \cup VoiceSteps]
      /\ file \in [Threads -> Files]
      /\ upd \in [Threads -> SUBSET Updates]
      /\ got \in [Threads -> SUBSET Keys]
  BY DEF TypeOK
<1>1. PICK f \in Files :
        /\ Begins(t, f)
        /\ \/ f # "settings" /\ UNCHANGED <<upd, got>>
           \/ f = "settings" /\ BeginSave(t)
        /\ UNCHANGED <<loginVars, voiceVars>>
  BY DEF BeginSave, BeginStatus, BeginPreview, Begins, Step, Files
<1>2. LoginInv'
  BY <1>1, LoginElse DEF Begins, LoginSteps, loginVars
<1>3. VoiceInv'
  <2>1. raced \subseteq raced' /\ pc[t] \notin VoiceSteps
    BY <1>1 DEF Begins, NoteRace, VoiceSteps
  <2>2. pc' = [pc EXCEPT ![t] = "open"] /\ "open" \notin VoiceSteps
    BY <1>1 DEF Begins, VoiceSteps
  <2>3. QED
    BY <1>1, <2>1, <2>2, VoiceElse
<1>4. TypeOK'
  <2>1. pc' \in [Threads -> OtherSteps \cup LoginSteps \cup FileSteps \cup VoiceSteps]
    BY <1>0, <1>1 DEF Begins, FileSteps
  <2>2. file' \in [Threads -> Files] /\ raced' \in SUBSET (Files \cup {"voice"})
    BY <1>0, <1>1 DEF Begins, NoteRace, TypeOK
  <2>3. upd' \in [Threads -> SUBSET Updates] /\ got' \in [Threads -> SUBSET Keys]
    <3>1. CASE UNCHANGED <<upd, got>>
      BY <1>0, <3>1
    <3>2. CASE BeginSave(t)
      <4>1. PICK u \in Updates : upd' = [upd EXCEPT ![t] = {u}]
                               /\ got' = [got EXCEPT ![t] = Merged(Loaded, {u})]
        BY <3>2 DEF BeginSave
      <4>2. Loaded \subseteq Keys
        BY DEF Loaded, TypeOK, Files, Names, Content
      <4>3. Merged(Loaded, {u}) \subseteq Keys
        BY <4>2, ConstAssumption DEF Merged, ConstAssumption
      <4>4. QED
        BY <1>0, <4>1, <4>3
    <3>3. QED
      BY <1>1, <3>1, <3>2
  <2>4. QED
    BY <1>1, <2>1, <2>2, <2>3 DEF TypeOK, Begins, loginVars, voiceVars
<1>5. \A u \in Threads \ {t} : got'[u] = got[u] /\ upd'[u] = upd[u]
  BY <1>0, <1>1 DEF BeginSave
<1>6. FileInv'
  BY <1>1, <1>5, BeginFileInv
<1>7. SaveInv'
  <2>1. CASE f # "settings" /\ UNCHANGED <<upd, got>>
    BY <1>1, <2>1, BeginOtherSave
  <2>2. CASE f = "settings" /\ BeginSave(t)
    <3>1. PICK u \in Updates : upd' = [upd EXCEPT ![t] = {u}]
                             /\ got' = [got EXCEPT ![t] = Merged(Loaded, {u})]
      BY <2>2 DEF BeginSave
    <3>2. \A v \in Threads \ {t} : pc'[v] = pc[v] /\ file'[v] = file[v]
      BY <1>0, <1>1 DEF Begins
    <3>3. file'[t] = "settings" /\ pc'[t] = "open"
      BY <1>0, <1>1, <2>2 DEF Begins
    <3>4. /\ \A v \in Threads : file'[v] # "settings" => upd'[v] = {}
          /\ \A v \in Threads : file'[v] = "settings" => pc'[v] \in FileSteps
      BY <1>5, <3>2, <3>3 DEF SaveInv, FileSteps
    <3>5. ASSUME "settings" \notin raced'
          PROVE  Loaded' = want' /\ \A v \in Working("settings")' : got'[v] = Merged(want', upd'[v])
      <4>1. Working("settings") = {} /\ "settings" \notin raced
        BY <1>1, <2>2, <3>5 DEF Begins, NoteRace
      <4>2. Working("settings")' = {t}
        BY <3>2, <3>3, <4>1 DEF Working, FileSteps
      <4>3. Loaded' = Loaded /\ want' = want /\ Loaded = want
        BY <1>1, <4>1 DEF Begins, Loaded, SaveInv
      <4>4. got'[t] = Merged(Loaded, {u}) /\ upd'[t] = {u}
        BY <1>0, <3>1
      <4>5. QED
        BY <4>2, <4>3, <4>4
    <3>6. QED
      BY <3>4, <3>5 DEF SaveInv, Merged
  <2>3. QED
    BY <1>1, <2>1, <2>2
<1>8. QED
  BY <1>2, <1>3, <1>4, <1>6, <1>7

-----------------------------------------------------------------------------
LEMMA OpenFileInv ==
    ASSUME ServerInv, NEW t \in Threads, OpenFile(t)
    PROVE  ServerInv'
<1> USE DEF ServerInv
<1>0. /\ pc \in [Threads -> OtherSteps \cup LoginSteps \cup FileSteps \cup VoiceSteps]
      /\ file \in [Threads -> Files]
      /\ fd \in [Threads -> Names \cup {"closed", "gone"}]
      /\ disk \in [Files -> [Names -> Content]]
  BY DEF TypeOK
<1>1. /\ pc[t] = "open" /\ pc' = [pc EXCEPT ![t] = "write"]
      /\ fd' = [fd EXCEPT ![t] = "tmp"]
      /\ disk' = [disk EXCEPT ![file[t]]["tmp"] = [bytes |-> "empty", set |-> {}]]
      /\ UNCHANGED <<file, upd, got, want, loginVars, voiceVars, raced>>
  BY DEF OpenFile, Step, OpenName
<1>2. TypeOK'
  <2>1. disk' \in [Files -> [Names -> Content]]
    BY <1>0, <1>1 DEF Content, Bytes, Names
  <2>2. QED
    BY <1>0, <1>1, <2>1 DEF TypeOK, FileSteps, Names, loginVars, voiceVars
<1>3. LoginInv'
  BY <1>1, LoginElse DEF LoginSteps, loginVars
<1>4. VoiceInv'
  BY <1>1, VoiceElse DEF VoiceSteps
<1>5. \A f \in Files : Working(f)' = Working(f)
  BY <1>0, <1>1 DEF Working, FileSteps
<1>6. \A f \in Files : disk'[f]["own"] = disk[f]["own"]
  BY <1>0, <1>1 DEF Names
<1>7. FileInv'
  <2> SUFFICES ASSUME NEW f \in Files \ raced, NEW u \in Working(f)
               PROVE  /\ pc'[u] = "write" => fd'[u] = "tmp" /\ disk'[f]["tmp"].bytes = "empty"
                      /\ pc'[u] = "replace" => disk'[f]["tmp"] = Text(u)'
    BY <1>1, <1>5, <1>6 DEF FileInv
  <2>1. CASE file[t] = f
    <3>1. u = t
      BY <1>1, <2>1 DEF FileInv, Working, FileSteps
    <3>2. QED
      BY <1>0, <1>1, <2>1, <3>1 DEF Names
  <2>2. CASE file[t] # f
    <3>1. u # t /\ u \in Threads
      BY <2>2 DEF Working
    <3>2. pc'[u] = pc[u] /\ fd'[u] = fd[u] /\ disk'[f] = disk[f] /\ Text(u)' = Text(u)
      BY <1>0, <1>1, <2>2, <3>1 DEF Text
    <3>3. QED
      BY <3>2 DEF FileInv
  <2>3. QED
    BY <2>1, <2>2
<1>8. SaveInv'
  <2>1. Loaded' = Loaded
    BY <1>6 DEF Loaded, Files
  <2>2. \A u \in Threads : pc[u] \in FileSteps => pc'[u] \in FileSteps
    BY <1>0, <1>1 DEF FileSteps
  <2>3. Working("settings")' = Working("settings")
    BY <1>5 DEF Files
  <2>4. QED
    BY <1>1, <2>1, <2>2, <2>3 DEF SaveInv, Merged
<1>9. QED
  BY <1>2, <1>3, <1>4, <1>7, <1>8

LEMMA WriteFileInv ==
    ASSUME ServerInv, NEW t \in Threads, WriteFile(t)
    PROVE  ServerInv'
<1> USE DEF ServerInv
<1>0. /\ pc \in [Threads -> OtherSteps \cup LoginSteps \cup FileSteps \cup VoiceSteps]
      /\ file \in [Threads -> Files]
      /\ fd \in [Threads -> Names \cup {"closed", "gone"}]
      /\ disk \in [Files -> [Names -> Content]]
      /\ got \in [Threads -> SUBSET Keys]
  BY DEF TypeOK
<1>1. /\ pc[t] = "write" /\ pc' = [pc EXCEPT ![t] = "replace"]
      /\ fd' = [fd EXCEPT ![t] = "closed"]
      /\ UNCHANGED <<file, upd, got, want, loginVars, voiceVars, raced>>
  BY DEF WriteFile, Step
<1>2. \/ disk' = disk
      \/ /\ fd[t] \in Names
         /\ \E c \in Over(disk[file[t]][fd[t]], Text(t), file[t]) :
              disk' = [disk EXCEPT ![file[t]][fd[t]] = c]
  BY DEF WriteFile
<1>3. TypeOK'
  <2>1. \A c \in Over(disk[file[t]][fd[t]], Text(t), file[t]) : c \in Content
    BY <1>0 DEF Over, Text, Content, Bytes
  <2>2. disk' \in [Files -> [Names -> Content]]
    <3>1. CASE disk' = disk
      BY <1>0, <3>1
    <3>2. ASSUME NEW c \in Content, fd[t] \in Names,
                 disk' = [disk EXCEPT ![file[t]][fd[t]] = c]
          PROVE  disk' \in [Files -> [Names -> Content]]
      <4>1. [disk[file[t]] EXCEPT ![fd[t]] = c] \in [Names -> Content]
        BY <1>0
      <4>2. QED
        BY <1>0, <3>2, <4>1
    <3>3. QED
      BY <1>2, <2>1, <3>1, <3>2
  <2>3. QED
    BY <1>0, <1>1, <2>2 DEF TypeOK, FileSteps, loginVars, voiceVars
<1>4. LoginInv'
  BY <1>1, LoginElse DEF LoginSteps, loginVars
<1>5. VoiceInv'
  BY <1>1, VoiceElse DEF VoiceSteps
<1>6. \A f \in Files : Working(f)' = Working(f)
  BY <1>0, <1>1 DEF Working, FileSteps
<1>7. \A f \in Files \ {file[t]} : disk'[f] = disk[f]
  BY <1>0, <1>2
<1>8. ASSUME file[t] \notin raced
      PROVE  disk'[file[t]]["tmp"] = Text(t) /\ disk'[file[t]]["own"] = disk[file[t]]["own"]
  <2>1. t \in Working(file[t]) /\ file[t] \in Files \ raced
    BY <1>0, <1>1, <1>8 DEF Working, FileSteps
  <2>2. fd[t] = "tmp" /\ disk[file[t]]["tmp"].bytes = "empty"
    BY <1>1, <2>1 DEF FileInv
  <2>3. Over(disk[file[t]]["tmp"], Text(t), file[t]) = {Text(t)}
    BY <2>2 DEF Over
  <2>4. disk' = [disk EXCEPT ![file[t]]["tmp"] = Text(t)]
    BY <2>2, <2>3 DEF WriteFile, Names
  <2>5. QED
    BY <1>0, <2>4 DEF Names
<1>9. FileInv'
  <2> SUFFICES ASSUME NEW f \in Files \ raced
               PROVE  /\ disk'[f]["own"].bytes \in {"none", "whole"}
                      /\ \A u \in Working(f) :
                          /\ pc'[u] = "write" => fd'[u] = "tmp" /\ disk'[f]["tmp"].bytes = "empty"
                          /\ pc'[u] = "replace" => disk'[f]["tmp"] = Text(u)'
    BY <1>1, <1>6 DEF FileInv
  <2>1. \A u \in Threads : Text(u)' = Text(u)
    BY <1>1 DEF Text
  <2>2. CASE file[t] = f
    <3>1. \A u \in Working(f) : u = t
      BY <1>1, <2>2 DEF FileInv, Working, FileSteps
    <3>2. pc'[t] = "replace"
      BY <1>0, <1>1
    <3>3. QED
      BY <1>8, <2>1, <2>2, <3>1, <3>2 DEF FileInv
  <2>3. CASE file[t] # f
    <3>1. \A u \in Working(f) : u # t /\ u \in Threads
      BY <2>3 DEF Working
    <3>2. \A u \in Working(f) : pc'[u] = pc[u] /\ fd'[u] = fd[u] /\ Text(u)' = Text(u)
      BY <1>0, <1>1, <2>1, <3>1
    <3>3. disk'[f] = disk[f]
      BY <1>7, <2>3
    <3>4. QED
      BY <3>2, <3>3 DEF FileInv
  <2>4. QED
    BY <2>2, <2>3
<1>10. SaveInv'
  <2>1. \A u \in Threads : pc[u] \in FileSteps => pc'[u] \in FileSteps
    BY <1>0, <1>1 DEF FileSteps
  <2>2. Working("settings")' = Working("settings")
    BY <1>6 DEF Files
  <2>3. "settings" \notin raced => Loaded' = Loaded
    BY <1>7, <1>8 DEF Loaded, Files
  <2>4. QED
    BY <1>1, <2>1, <2>2, <2>3 DEF SaveInv, Merged
<1>11. QED
  BY <1>3, <1>4, <1>5, <1>9, <1>10

-----------------------------------------------------------------------------
(* A thread lets go of its file: nothing it did is left to anyone.          *)
LEMMA ReplaceFailsInv ==
    ASSUME ServerInv, NEW t \in Threads, ReplaceFails(t)
    PROVE  ServerInv'
<1> USE DEF ServerInv
<1>0. /\ pc \in [Threads -> OtherSteps \cup LoginSteps \cup FileSteps \cup VoiceSteps]
      /\ file \in [Threads -> Files]
      /\ upd \in [Threads -> SUBSET Updates]
      /\ got \in [Threads -> SUBSET Keys]
  BY DEF TypeOK
<1>1. /\ pc[t] = "replace" /\ pc' = [pc EXCEPT ![t] = "idle"]
      /\ upd' = [upd EXCEPT ![t] = {}] /\ got' = [got EXCEPT ![t] = {}]
      /\ file' = [file EXCEPT ![t] = "server"]
      /\ UNCHANGED <<fd, disk, want, loginVars, voiceVars, raced>>
  BY DEF ReplaceFails, Step, Forget
<1>2. TypeOK'
  BY <1>0, <1>1 DEF TypeOK, Files, loginVars, voiceVars
<1>3. LoginInv'
  BY <1>1, LoginElse DEF LoginSteps, loginVars
<1>4. VoiceInv'
  BY <1>1, VoiceElse DEF VoiceSteps
<1>5. \A u \in Threads \ {t} : /\ pc'[u] = pc[u] /\ file'[u] = file[u] /\ upd'[u] = upd[u]
                              /\ got'[u] = got[u] /\ Text(u)' = Text(u)
  BY <1>0, <1>1 DEF Text
<1>6. \A f \in Files : Working(f)' \subseteq Working(f) \ {t}
  BY <1>0, <1>1, <1>5 DEF Working, FileSteps
<1>7. \A f \in Files : Working(f)' \subseteq Threads \ {t}
  BY <1>6 DEF Working
<1>8. FileInv'
  BY <1>1, <1>5, <1>6, <1>7 DEF FileInv
<1>9. SaveInv'
  <2>1. Loaded' = Loaded
    BY <1>1 DEF Loaded
  <2>2. pc'[t] = "idle" /\ file'[t] = "server" /\ upd'[t] = {}
    BY <1>0, <1>1
  <2>3. "settings" \in Files
    BY DEF Files
  <2>4. QED
    BY <1>1, <1>5, <1>6, <1>7, <2>1, <2>2, <2>3 DEF SaveInv, Merged
<1>10. QED
  BY <1>2, <1>3, <1>4, <1>8, <1>9

LEMMA ReplaceFileInv ==
    ASSUME ServerInv, NEW t \in Threads, ReplaceFile(t)
    PROVE  ServerInv'
<1> USE DEF ServerInv
<1>0. /\ pc \in [Threads -> OtherSteps \cup LoginSteps \cup FileSteps \cup VoiceSteps]
      /\ file \in [Threads -> Files]
      /\ upd \in [Threads -> SUBSET Updates]
      /\ got \in [Threads -> SUBSET Keys]
      /\ fd \in [Threads -> Names \cup {"closed", "gone"}]
      /\ disk \in [Files -> [Names -> Content]]
      /\ want \in SUBSET Keys
  BY DEF TypeOK
<1> DEFINE F == file[t]
           x == IF F = "settings" THEN "open" ELSE "idle"
<1>1. /\ pc[t] = "replace" /\ pc' = [pc EXCEPT ![t] = x]
      /\ upd' = [upd EXCEPT ![t] = {}] /\ got' = [got EXCEPT ![t] = {}]
      /\ file' = [file EXCEPT ![t] = "server"]
      /\ disk' = [disk EXCEPT ![F] = [tmp |-> NoFile, own |-> @["tmp"]]]
      /\ want' = Merged(want, upd[t])
      /\ UNCHANGED <<loginVars, voiceVars>>
  BY DEF ReplaceFile, AfterReplace, Step, Forget
<1>2. IF F = "settings" THEN NoteRace("server") ELSE raced' = raced
  BY DEF ReplaceFile, AfterReplace
<1>3. raced \subseteq raced' /\ raced' \subseteq raced \cup {"server"}
  BY <1>2 DEF NoteRace
<1>4. fd' = [u \in Threads |->
                IF u \notin Working(F) THEN fd[u]
                ELSE CASE fd[u] = "tmp" -> "own" [] fd[u] = "own" -> "gone"
                       [] OTHER -> fd[u]]
  BY DEF ReplaceFile
<1>5. F \in Files /\ t \in Working(F)
  BY <1>0, <1>1 DEF Working, FileSteps
<1>6. TypeOK'
  <2>1. fd' \in [Threads -> Names \cup {"closed", "gone"}]
    BY <1>0, <1>4 DEF Names
  <2>2. disk' \in [Files -> [Names -> Content]]
    <3>1. [tmp |-> NoFile, own |-> disk[F]["tmp"]] \in [Names -> Content]
      BY <1>0, <1>5 DEF Names, NoFile, Content, Bytes
    <3>2. QED
      BY <1>0, <1>1, <1>5, <3>1
  <2>3. want' \in SUBSET Keys
    BY <1>0, <1>1, ConstAssumption DEF Merged, ConstAssumption
  <2>4. pc' \in [Threads -> OtherSteps \cup LoginSteps \cup FileSteps \cup VoiceSteps]
    BY <1>0, <1>1 DEF FileSteps
  <2>5. raced' \in SUBSET (Files \cup {"voice"})
    BY <1>3 DEF TypeOK, Files
  <2>6. QED
    BY <1>0, <1>1, <2>1, <2>2, <2>3, <2>4, <2>5 DEF TypeOK, Files, loginVars, voiceVars
<1>7. LoginInv'
  BY <1>1, LoginElse DEF LoginSteps, loginVars
<1>8. VoiceInv'
  BY <1>1, <1>3, VoiceElse DEF VoiceSteps
<1>9. \A u \in Threads \ {t} : /\ pc'[u] = pc[u] /\ file'[u] = file[u] /\ upd'[u] = upd[u]
                              /\ got'[u] = got[u] /\ Text(u)' = Text(u)
  BY <1>0, <1>1 DEF Text
<1>10. \A f \in Files \ {F} : disk'[f] = disk[f]
  BY <1>0, <1>1
<1>11. disk'[F]["own"] = disk[F]["tmp"]
  BY <1>0, <1>1, <1>5 DEF Names
<1>12. \A f \in Files : Working(f)' \subseteq (Working(f) \ {t}) \cup (IF F = "settings" /\ f = "server" THEN {t} ELSE {})
  BY <1>0, <1>1, <1>9 DEF Working, FileSteps
<1>13. FileInv'
  <2> SUFFICES ASSUME NEW f \in Files \ raced'
               PROVE  /\ disk'[f]["own"].bytes \in {"none", "whole"}
                      /\ \A u, v \in Working(f)' : u = v
                      /\ \A u \in Working(f)' :
                          /\ pc'[u] = "write" => fd'[u] = "tmp" /\ disk'[f]["tmp"].bytes = "empty"
                          /\ pc'[u] = "replace" => disk'[f]["tmp"] = Text(u)'
    BY DEF FileInv
  <2>1. f \in Files \ raced
    BY <1>3
  <2>2. CASE f = F
    <3>1. Working(f)' = {}
      BY <1>5, <1>12, <2>1, <2>2 DEF FileInv
    <3>2. disk[F]["tmp"] = Text(t)
      BY <1>1, <1>5, <2>1, <2>2 DEF FileInv
    <3>3. disk'[f]["own"].bytes = "whole"
      BY <1>11, <2>2, <3>2 DEF Text
    <3>4. QED
      BY <3>1, <3>3
  <2>3. CASE f # F /\ ~(F = "settings" /\ f = "server")
    <3>1. Working(f)' \subseteq Working(f) \ {t} /\ Working(f)' \subseteq Threads \ {t}
      BY <1>12, <2>3 DEF Working
    <3>2. \A u \in Working(f)' : u \notin Working(F) /\ u \in Threads
      BY <2>3, <3>1 DEF Working
    <3>3. \A u \in Working(f)' : fd'[u] = fd[u]
      BY <1>4, <3>2
    <3>4. QED
      BY <1>9, <1>10, <2>1, <2>3, <3>1, <3>3 DEF FileInv
  <2>4. CASE F = "settings" /\ f = "server"
    <3>1. Working("server") = {}
      BY <1>2, <2>4 DEF NoteRace
    <3>2. Working(f)' \subseteq {t} /\ pc'[t] = "open"
      BY <1>0, <1>1, <1>12, <2>4, <3>1
    <3>3. disk'[f] = disk[f]
      BY <1>10, <2>4
    <3>4. QED
      BY <2>1, <3>2, <3>3 DEF FileInv
  <2>5. QED
    BY <2>2, <2>3, <2>4
<1>14. SaveInv'
  <2>1. file'[t] = "server" /\ upd'[t] = {}
    BY <1>0, <1>1
  <2>2. /\ \A v \in Threads : file'[v] # "settings" => upd'[v] = {}
        /\ \A v \in Threads : file'[v] = "settings" => pc'[v] \in FileSteps
    BY <1>9, <2>1 DEF SaveInv
  <2>3. ASSUME "settings" \notin raced'
        PROVE  Loaded' = want' /\ \A v \in Working("settings")' : got'[v] = Merged(want', upd'[v])
    <3>1. "settings" \notin raced /\ "settings" \in Files
      BY <1>3, <2>3 DEF Files
    <3>2. CASE F = "settings"
      <4>1. Working("settings")' = {}
        BY <1>5, <1>12, <3>1, <3>2 DEF FileInv
      <4>2. disk'["settings"]["own"] = Text(t)
        BY <1>1, <1>5, <1>11, <3>1, <3>2 DEF FileInv
      <4>3. Loaded' = got[t]
        BY <3>2, <4>2 DEF Loaded, Text
      <4>4. got[t] = Merged(want, upd[t])
        BY <1>5, <3>1, <3>2 DEF SaveInv
      <4>5. QED
        BY <1>1, <4>1, <4>3, <4>4
    <3>3. CASE F # "settings"
      <4>1. upd[t] = {}
        BY <3>3 DEF SaveInv
      <4>2. want' = want
        BY <1>1, <4>1 DEF Merged
      <4>3. Loaded' = Loaded
        BY <1>10, <3>1, <3>3 DEF Loaded
      <4>4. Working("settings")' \subseteq Working("settings") \ {t}
        BY <1>12, <3>1, <3>3
      <4>5. Working("settings")' \subseteq Threads \ {t}
        BY <4>4 DEF Working
      <4>6. QED
        BY <1>9, <3>1, <4>2, <4>3, <4>4, <4>5 DEF SaveInv, Merged
    <3>4. QED
      BY <3>2, <3>3
  <2>4. QED
    BY <2>2, <2>3 DEF SaveInv, Merged
<1>15. QED
  BY <1>6, <1>7, <1>8, <1>13, <1>14

-----------------------------------------------------------------------------
VoiceStep(t) ==
    \/ BeginVoice(t) \/ WriteSilk(t) \/ StartDecoder(t) \/ DecoderFails(t) \/ DecoderEnds(t)
    \/ DecoderCut(t) \/ DecoderWrites(t) \/ WavBreaks(t) \/ NoPcm(t) \/ ReadPcm(t) \/ WriteWav(t) \/ UnlinkPcm(t)

(* One request works on the voice: each step finds what the one before left.*)
LEMMA VoiceInvStep ==
    ASSUME ServerInv, NEW t \in Threads, VoiceStep(t)
    PROVE  VoiceInv'
<1> USE DEF ServerInv
<1>0. /\ pc \in [Threads -> OtherSteps \cup LoginSteps \cup FileSteps \cup VoiceSteps]
      /\ heard \in [Threads -> Bytes]
  BY DEF TypeOK
<1> SUFFICES ASSUME "voice" \notin raced', spoilt' = {}
             PROVE  /\ joined' = {}
                    /\ \A u, v \in Transcoding' : u = v
                    /\ wav' \in {"none", "empty", "whole"}
                    /\ \A u \in Threads : pc'[u] = "pcm" => pcm' \in {"none", "empty", "whole"}
                    /\ \A u \in Threads : pc'[u] = "wav" => heard'[u] = "whole"
  BY DEF VoiceInv
<1>1. "voice" \notin raced /\ spoilt = {}
  BY DEF VoiceStep, BeginVoice, WriteSilk, StartDecoder, DecoderFails, DecoderEnds,
         DecoderCut, DecoderWrites, WavBreaks, NoPcm, ReadPcm, WriteWav, UnlinkPcm, voiceVars
<1>2. PICK x \in VoiceSteps \cup {"idle"} :
         pc' = [pc EXCEPT ![t] = x]
         /\ \/ BeginVoice(t) /\ pc[t] = "idle" /\ x = "silk"
            \/ WriteSilk(t) /\ pc[t] = "silk" /\ x = "decode"
            \/ StartDecoder(t) /\ pc[t] = "decode" /\ x = "decoding"
            \/ DecoderWrites(t) /\ pc[t] = "decoding" /\ x = "decoding"
            \/ DecoderFails(t) /\ pc[t] \in {"decode", "decoding"} /\ x = "pcm"
            \/ DecoderEnds(t) /\ pc[t] = "decoding" /\ x = "pcm"
            \/ DecoderCut(t) /\ pc[t] = "decoding" /\ x = "idle"
            \/ NoPcm(t) /\ pc[t] = "pcm" /\ x = "idle"
            \/ ReadPcm(t) /\ pc[t] = "pcm" /\ x = "wav"
            \/ WriteWav(t) /\ pc[t] = "wav" /\ x = "tidy"
            \/ WavBreaks(t) /\ pc[t] = "wav" /\ x = "idle"
            \/ UnlinkPcm(t) /\ pc[t] = "tidy" /\ x = "idle"
  <2>1. CASE DecoderWrites(t)
    <3>1. pc' = [pc EXCEPT ![t] = "decoding"] /\ pc[t] = "decoding"
      BY <1>0, <2>1 DEF DecoderWrites
    <3>2. QED
      BY <2>1, <3>1 DEF VoiceSteps, DecoderWrites
  <2>2. CASE ~DecoderWrites(t)
    BY <2>2 DEF VoiceStep, BeginVoice, WriteSilk, StartDecoder, DecoderFails, DecoderEnds,
         DecoderCut, WavBreaks, NoPcm, ReadPcm, WriteWav, UnlinkPcm, Step, VoiceSteps
  <2>3. QED
    BY <2>1, <2>2
<1>3. \A u \in Threads \ {t} : pc'[u] = pc[u]
  BY <1>0, <1>2
<1>4. pc'[t] = x
  BY <1>0, <1>2
<1>5. CASE BeginVoice(t)
  <2>1. Transcoding = {} /\ joined' = {}
    BY <1>1, <1>5 DEF BeginVoice
  <2>2. \A u \in Threads : pc[u] \notin VoiceSteps
    BY <2>1 DEF Transcoding
  <2>3. \A u \in Threads \ {t} : pc'[u] \notin VoiceSteps
    BY <1>3, <2>2
  <2>4. pc'[t] = "silk" /\ wav' = wav
    BY <1>0, <1>5 DEF BeginVoice, Step
  <2>5. \A u \in Threads : pc'[u] \notin {"pcm", "wav"}
    BY <2>3, <2>4 DEF VoiceSteps
  <2>6. Transcoding' \subseteq {t}
    BY <2>3 DEF Transcoding
  <2>7. QED
    BY <1>1, <2>1, <2>4, <2>5, <2>6 DEF VoiceInv
<1>6. CASE ~BeginVoice(t)
  <2>1. pc[t] \in VoiceSteps
    BY <1>2, <1>6 DEF VoiceSteps
  <2>2. \A u \in Threads \ {t} : pc[u] \notin VoiceSteps /\ pc'[u] \notin VoiceSteps
    BY <1>1, <1>3, <2>1 DEF VoiceInv, Transcoding
  <2>3. Transcoding' \subseteq {t}
    BY <2>2 DEF Transcoding
  <2>4. joined' = {} /\ joined = {}
    BY <1>1, <1>2, <1>6 DEF VoiceInv, WriteSilk, StartDecoder, DecoderFails, DecoderEnds,
           DecoderCut, DecoderWrites, WavBreaks, NoPcm, ReadPcm, WriteWav, UnlinkPcm, voiceVars
  <2>5. wav' \in {"none", "empty", "whole"}
    BY <1>1, <1>2, <1>6 DEF VoiceInv, WriteSilk, StartDecoder, DecoderFails, DecoderEnds,
           DecoderCut, DecoderWrites, WavBreaks, NoPcm, ReadPcm, WriteWav, UnlinkPcm, voiceVars
  <2>6. pc'[t] = "pcm" => pcm' \in {"none", "empty", "whole"}
    <3>1. CASE DecoderFails(t)
      BY <1>1, <3>1 DEF DecoderFails, TypeOK, Bytes
    <3>2. CASE DecoderEnds(t)
      BY <2>4, <3>2 DEF DecoderEnds
    <3>3. CASE ~DecoderFails(t) /\ ~DecoderEnds(t)
      BY <1>2, <1>4, <1>6, <3>3
    <3>4. QED
      BY <3>1, <3>2, <3>3
  <2>7. pc'[t] = "wav" => heard'[t] = "whole"
    <3>1. CASE ReadPcm(t)
      BY <1>0, <1>1, <1>2, <3>1 DEF ReadPcm, VoiceInv, Step
    <3>2. CASE ~ReadPcm(t)
      BY <1>2, <1>4, <1>6, <3>2
    <3>3. QED
      BY <3>1, <3>2
  <2>8. QED
    BY <2>2, <2>3, <2>4, <2>5, <2>6, <2>7 DEF VoiceSteps
<1>7. QED
  BY <1>5, <1>6

LEMMA VoiceStepInv ==
    ASSUME ServerInv, NEW t \in Threads, VoiceStep(t)
    PROVE  ServerInv'
<1> USE DEF ServerInv
<1>0. /\ pc \in [Threads -> OtherSteps \cup LoginSteps \cup FileSteps \cup VoiceSteps]
      /\ heard \in [Threads -> Bytes]
  BY DEF TypeOK
<1>1. PICK x \in VoiceSteps \cup {"idle"} :
         /\ pc' = [pc EXCEPT ![t] = x]
         /\ pc[t] \in VoiceSteps \cup {"idle"}
         /\ UNCHANGED <<loginVars, fileVars>>
         /\ raced \subseteq raced' /\ raced' \subseteq raced \cup {"voice"}
  <2>1. CASE DecoderWrites(t)
    <3>1. pc' = [pc EXCEPT ![t] = "decoding"] /\ pc[t] = "decoding"
      BY <1>0, <2>1 DEF DecoderWrites
    <3>2. QED
      BY <2>1, <3>1 DEF VoiceSteps, DecoderWrites
  <2>2. CASE ~DecoderWrites(t)
    BY <2>2 DEF VoiceStep, BeginVoice, WriteSilk, StartDecoder, DecoderFails, DecoderEnds,
         DecoderCut, WavBreaks, NoPcm, ReadPcm, WriteWav, UnlinkPcm, Step, VoiceSteps
  <2>3. QED
    BY <2>1, <2>2
<1>2. LoginInv'
  BY <1>1, LoginElse DEF LoginSteps, VoiceSteps, loginVars
<1>3. FileInv' /\ SaveInv'
  <2>1. pc[t] \notin FileSteps /\ x \notin FileSteps
    BY <1>1 DEF FileSteps, VoiceSteps
  <2>2. QED
    BY <1>1, <2>1, FileElse
<1>4. pc' \in [Threads -> OtherSteps \cup LoginSteps \cup FileSteps \cup VoiceSteps]
  BY <1>0, <1>1
<1>5. /\ silk' \in Bytes /\ pcm' \in Bytes /\ wav' \in Bytes
      /\ heard' \in [Threads -> Bytes] /\ spoilt' \in SUBSET {"pcm", "wav"}
  BY <1>0 DEF TypeOK, VoiceStep, BeginVoice, WriteSilk, StartDecoder, DecoderFails, DecoderEnds,
         DecoderCut, DecoderWrites, WavBreaks, NoPcm, ReadPcm, WriteWav, UnlinkPcm, Bytes, voiceVars
<1>6. joined' \in SUBSET Threads
  BY DEF TypeOK, VoiceStep, BeginVoice, WriteSilk, StartDecoder, DecoderFails, DecoderEnds,
         DecoderCut, DecoderWrites, WavBreaks, NoPcm, ReadPcm, WriteWav, UnlinkPcm, voiceVars, Transcoding
<1>7. TypeOK'
  BY <1>1, <1>4, <1>5, <1>6 DEF TypeOK, loginVars, fileVars
<1>8. QED
  BY <1>2, <1>3, <1>7, VoiceInvStep

-----------------------------------------------------------------------------
LEMMA ExpireInv == ASSUME ServerInv, Expire PROVE ServerInv'
<1> USE DEF ServerInv
<1>1. TypeOK'
  BY DEF Expire, TypeOK, fileVars, voiceVars
<1>2. LoginInv'
  <2>1. fails' = fails - 1 /\ fails \in Nat /\ Trying' = Trying
    BY DEF Expire, TypeOK, Trying
  <2>2. QED
    BY <2>1, TryingCount, ConstAssumption
       DEF Expire, LoginInv, FormBounded, Trying, ConstAssumption
<1>3. FileInv'
  BY DEF Expire, FileInv, fileVars, Working, Text
<1>4. SaveInv' /\ VoiceInv'
  BY DEF Expire, SaveInv, VoiceInv, Loaded, Merged, fileVars, voiceVars, Working, Transcoding
<1>5. QED
  BY <1>1, <1>2, <1>3, <1>4

LEMMA RestartInv == ASSUME ServerInv, Restart PROVE ServerInv'
<1> USE DEF ServerInv
<1>1. /\ pc' = [t \in Threads |-> "idle"] /\ fails' = 0
      /\ file' = [t \in Threads |-> "server"] /\ upd' = [t \in Threads |-> {}]
      /\ UNCHANGED <<mix, disk, want, silk, pcm, wav, spoilt, raced>>
      /\ joined' = {} /\ heard' = [t \in Threads |-> "none"]
  BY DEF Restart
<1>2. TypeOK'
  BY ConstAssumption DEF Restart, TypeOK, ConstAssumption, Files, Bytes
<1>3. LoginInv'
  <2>1. Trying' = {}
    BY <1>1 DEF Trying, Threads, LoginSteps
  <2>2. Cardinality(Trying') = 0
    BY <2>1, FS_EmptySet
  <2>3. QED
    BY <1>1, <2>2, TryingCount, ConstAssumption
       DEF LoginInv, FormBounded, Trying, Threads, LoginSteps, ConstAssumption
<1>4. \A f \in Files : Working(f)' = {}
  BY <1>1 DEF Working, FileSteps
<1>5. FileInv'
  BY <1>1, <1>4 DEF FileInv
<1>6. SaveInv'
  BY <1>1, <1>4 DEF SaveInv, Loaded, Files, Merged
<1>7. VoiceInv'
  BY <1>1 DEF VoiceInv, Transcoding, VoiceSteps
<1>8. QED
  BY <1>2, <1>3, <1>5, <1>6, <1>7

LEMMA ServerNext == ServerInv /\ [Next]_vars => ServerInv'
<1> SUFFICES ASSUME ServerInv, [Next]_vars PROVE ServerInv'
  OBVIOUS
<1>1. CASE UNCHANGED vars
  <2>1. /\ TypeOK' = TypeOK /\ SaveInv' = SaveInv /\ VoiceInv' = VoiceInv
        /\ LoginInv' = LoginInv /\ FileInv' = FileInv
    BY <1>1 DEF vars, loginVars, fileVars, voiceVars, TypeOK, LoginInv, FormBounded, FileInv,
                SaveInv, VoiceInv, Working, Transcoding, Loaded, Merged, Text
  <2>2. QED
    BY <2>1 DEF ServerInv
<1>2. ASSUME NEW t \in Handlers, Request(t) PROVE ServerInv'
  <2>1. t \in Threads
    BY DEF Threads
  <2>2. CASE RefuseLogin(t)
    BY <1>1, <2>2 DEF RefuseLogin
  <2>3. QED
    BY <1>2, <2>1, <2>2, LoginStepInv, BeginStepInv, VoiceStepInv DEF Request, VoiceStep
<1>3. CASE BeginStatus(Loop)
  BY <1>3, BeginStepInv DEF Threads
<1>4. ASSUME NEW t \in Threads, Serve(t) PROVE ServerInv'
  BY <1>4, LoginStepInv, OpenFileInv, WriteFileInv, ReplaceFileInv, ReplaceFailsInv, VoiceStepInv
     DEF Serve, VoiceStep
<1>5. QED
  BY <1>1, <1>2, <1>3, <1>4, ExpireInv, RestartInv DEF Next

(* ServerInv holds in every state of every behaviour.                       *)
LEMMA ServerAlways == Spec => []ServerInv
<1>1. QED
  BY ServerInit, ServerNext, PTL DEF Spec

-----------------------------------------------------------------------------
(* Every variable of the server keeps its type (console/app.py).            *)
THEOREM ServerTypeCorrect == Spec => []TypeOK
<1>1. ServerInv => TypeOK
  BY DEF ServerInv
<1>2. QED
  BY <1>1, ServerAlways, PTL

(* The look at the failures and the append of one are two holds of the lock *)
(* (login_allowed, note_login_fail): of the login form, the threads under   *)
(* way come on top of the limit, and no more than they, whatever passwords  *)
(* other requests carry at the same time.                                   *)
THEOREM LoginsBounded == Spec => []FormBounded
<1>1. ServerInv => FormBounded
  BY DEF ServerInv, LoginInv
<1>2. QED
  BY <1>1, ServerAlways, PTL

(* Written to a temporary name and renamed (save_settings,                  *)
(* write_server_status, decode_wxgf_file), a file that one thread at a time *)
(* works on is whole at every moment, whatever step a restart cuts off.     *)
THEOREM FilesAreWhole == Spec => []FilesWhole
<1>1. ServerInv => FilesWhole
  BY DEF ServerInv, FileInv, FilesWhole
<1>2. QED
  BY <1>1, ServerAlways, PTL

(* save_settings reads, merges and replaces: saves that do not overlap are  *)
(* all kept, in their order.                                                *)
THEOREM SavesAreKept == Spec => []SettingsKept
<1>1. ServerInv => SettingsKept
  BY DEF ServerInv, SaveInv, SettingsKept
<1>2. QED
  BY <1>1, ServerAlways, PTL

(* transcode_silk keeps a wav only of the decoder's whole output, whatever  *)
(* timeouts and restarts leave behind, until two requests ask for the voice *)
(* at once, a decoder fails over a .pcm with something in it, or the write  *)
(* of the wav itself breaks off.                                            *)
THEOREM VoicesAreWhole == Spec => []VoiceWhole
<1>1. ServerInv => VoiceWhole
  BY DEF ServerInv, VoiceInv, VoiceWhole
<1>2. QED
  BY <1>1, ServerAlways, PTL
=============================================================================

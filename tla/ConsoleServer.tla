---------------------------- MODULE ConsoleServer ----------------------------
(***************************************************************************)
(* The console's server process (console/app.py): one thread per request   *)
(* (ThreadingHTTPServer), one status thread, and what they share without a *)
(* lock of their own:                                                      *)
(*                                                                         *)
(*   - the list of failed logins of an address, under _login_lock for one  *)
(*     look or one append at a time;                                       *)
(*   - console.json, server.json and the preview of a picture, each        *)
(*     written to one fixed temporary name and renamed over its target;    *)
(*   - the files beside a voice message: the .silk and the .pcm on the way *)
(*     and the .wav that is kept.                                          *)
(*                                                                         *)
(* A file's bytes are abstracted to whether they are all there; of the     *)
(* settings, to which of them have a value.  A request that saves, reads   *)
(* or plays something has been authorised before it begins, by its cookie  *)
(* or by the name and password it carries itself (HTTP Basic).             *)
(* Operators named Slip... are deliberate errors that no specification     *)
(* uses: they stand for the bugs that the properties below would catch.    *)
(***************************************************************************)
EXTENDS Integers, FiniteSets

CONSTANTS
    Handlers,   \* request threads that may run at once
    Loop,       \* the status thread
    Keys,       \* the settings
    Updates,    \* the changes of one setting that the browser may send
    Limit,      \* failed logins that close the door
    MaxRestarts, \* bound on restarts of the container
    Mixes       \* sets of kinds of request that one behaviour may mix

Threads == Handlers \cup {Loop}

ASSUME ConstAssumption ==
    /\ IsFiniteSet(Handlers)
    /\ Loop \notin Handlers
    /\ Updates \subseteq [key : Keys, on : BOOLEAN]
    /\ Limit \in Nat \ {0}
    /\ MaxRestarts \in Nat

VARIABLES
    restarts, \* restarts so far
    mix,     \* the kinds of request that this behaviour mixes
    fails,   \* failed logins of the last ten minutes
    pc,      \* pc[t]: the next step of thread t
    file,    \* file[t]: the file that t is replacing
    upd,     \* upd[t]: the change of a setting that t has not saved yet
    got,     \* got[t]: the settings that t will write
    fd,      \* fd[t]: where the file that t has open now lives
    disk,    \* disk[f][p]: bytes of f under its own or its temporary name
    silk, pcm, wav,  \* bytes of the three files of the voice message
    heard,   \* heard[t]: bytes of the pcm that t has read
    joined,  \* transcoding threads that were not alone at it all the time
    spoilt,  \* history: files of the voice that were used although the step
             \* that wrote them had failed half-way
    want,    \* history: the settings after the saves so far, in order
    raced    \* history: what two requests have worked on at once

loginVars == <<restarts, mix, fails>>
fileVars  == <<file, upd, got, fd, disk, want>>
voiceVars == <<silk, pcm, wav, heard, joined, spoilt>>
vars == <<restarts, mix, fails, pc, file, upd, got, fd, disk, silk, pcm, wav, heard,
          joined, spoilt, want, raced>>

Files      == {"settings", "server", "preview"}
Names      == {"tmp", "own"}
Bytes      == {"none", "empty", "part", "whole"}
Content    == [bytes : Bytes, set : SUBSET Keys]
LoginSteps == {"verify", "note"}
OtherSteps == {"idle", "basic"}
FileSteps  == {"open", "write", "replace"}
VoiceSteps == {"silk", "decode", "decoding", "pcm", "wav", "tidy"}
NoFile     == [bytes |-> "none", set |-> {}]

TypeOK ==
    /\ restarts \in 0..MaxRestarts
    /\ mix \in Mixes
    /\ fails \in Nat
    /\ pc \in [Threads -> OtherSteps \cup LoginSteps \cup FileSteps \cup VoiceSteps]
    /\ file \in [Threads -> Files]
    /\ upd \in [Threads -> SUBSET Updates]
    /\ got \in [Threads -> SUBSET Keys]
    /\ fd \in [Threads -> Names \cup {"closed", "gone"}]
    /\ disk \in [Files -> [Names -> Content]]
    /\ silk \in Bytes /\ pcm \in Bytes /\ wav \in Bytes
    /\ heard \in [Threads -> Bytes]
    /\ joined \in SUBSET Threads
    /\ spoilt \in SUBSET {"pcm", "wav"}
    /\ want \in SUBSET Keys
    /\ raced \in SUBSET (Files \cup {"voice"})

Init ==
    /\ restarts = 0
    /\ mix \in Mixes
    /\ fails = 0
    /\ pc = [t \in Threads |-> "idle"]
    /\ file = [t \in Threads |-> "server"]
    /\ upd = [t \in Threads |-> {}]
    /\ got = [t \in Threads |-> {}]
    /\ fd = [t \in Threads |-> "closed"]
    /\ disk = [f \in Files |-> [p \in Names |-> NoFile]]
    /\ silk = "none" /\ pcm = "none" /\ wav = "none"
    /\ heard = [t \in Threads |-> "none"]
    /\ joined = {}
    /\ spoilt = {}
    /\ want = {}
    /\ raced = {}

Step(t, from, to) == pc[t] = from /\ pc' = [pc EXCEPT ![t] = to]

-----------------------------------------------------------------------------
(* POST /login, and the name and password that any other request may carry. *)

(* login_allowed, under the lock: an address with eight failures in the     *)
(* last ten minutes is refused without a look at the password.              *)
Allowed == fails < Limit

(* No failure is added by a refusal; the slip adds one.                     *)

SlipRefuse(t) ==
    /\ pc[t] = "idle"
    /\ ~Allowed
    /\ fails' = IF fails < Limit + 3 THEN fails + 1 ELSE fails
    /\ UNCHANGED <<restarts, mix, pc, fileVars, voiceVars, raced>>

RefuseLogin(t) ==
    /\ pc[t] = "idle"
    /\ ~Allowed
    /\ UNCHANGED vars

(* The slip: nothing is remembered of an admitted attempt but its failure.  *)
SlipBegin(t) ==
    /\ Step(t, "idle", "verify")
    /\ UNCHANGED <<loginVars, fileVars, voiceVars, raced>>

BeginLogin(t) ==
    /\ Allowed
    /\ Step(t, "idle", "verify")
    /\ UNCHANGED <<loginVars, fileVars, voiceVars, raced>>

(* credentials_ok, outside the lock.                                        *)
Verify(t) ==
    /\ Step(t, "verify", "idle") \/ Step(t, "verify", "note")
    /\ UNCHANGED <<loginVars, fileVars, voiceVars, raced>>

(* note_login_fail, under the lock again.                                   *)
NoteFail(t) ==
    /\ Step(t, "note", "idle")
    /\ fails' = fails + 1
    /\ UNCHANGED <<restarts, mix, fileVars, voiceVars, raced>>

(* _session_user of a request without a valid cookie, but with a name and a *)
(* password (HTTP Basic): credentials_ok looks at them at once.             *)
BeginBasic(t) ==
    /\ Step(t, "idle", "basic")
    /\ UNCHANGED <<loginVars, fileVars, voiceVars, raced>>

(* Right or wrong, nothing is looked up and nothing is counted: the request *)
(* is served or answered with 401.                                          *)
EndBasic(t) ==
    /\ Step(t, "basic", "idle")
    /\ UNCHANGED <<loginVars, fileVars, voiceVars, raced>>

(* The oldest failure turns ten minutes old: no look counts it any more.    *)
Expire ==
    /\ fails > 0
    /\ fails' = fails - 1
    /\ UNCHANGED <<restarts, mix, pc, fileVars, voiceVars, raced>>

-----------------------------------------------------------------------------
(* Files written to a temporary name and renamed.                           *)

(* Another thread is between the first look at f and its rename.            *)
Working(f) == {t \in Threads : pc[t] \in FileSteps /\ file[t] = f}
NoteRace(f) == raced' = IF Working(f) # {} THEN raced \cup {f} ELSE raced

(* load_settings: what cannot be parsed counts as no settings at all.       *)
Loaded == IF disk["settings"]["own"].bytes = "whole"
            THEN disk["settings"]["own"].set ELSE {}

(* The slip: the update replaces the settings instead of joining them.      *)
SlipMerged(set, us) == {u.key : u \in {v \in us : v.on}}

(* save_settings' merge: a value that is set to nothing loads as default.   *)
Merged(set, us) == (set \ {u.key : u \in us}) \cup {u.key : u \in {v \in us : v.on}}

(* POST /api/settings: load_settings and the merge.  A body with several    *)
(* settings changes them all in the one merge; here it has one.             *)
BeginSave(t) ==
    /\ Step(t, "idle", "open")
    /\ \E u \in Updates :
         /\ upd' = [upd EXCEPT ![t] = {u}]
         /\ got' = [got EXCEPT ![t] = Merged(Loaded, {u})]
    /\ file' = [file EXCEPT ![t] = "settings"]
    /\ NoteRace("settings")
    /\ UNCHANGED <<fd, disk, want, loginVars, voiceVars>>

(* GET /api/status, the status thread every 20 seconds, and main: the       *)
(* status is built from files that are only read.                           *)
BeginStatus(t) ==
    /\ Step(t, "idle", "open")
    /\ file' = [file EXCEPT ![t] = "server"]
    /\ NoteRace("server")
    /\ UNCHANGED <<upd, got, fd, disk, want, loginVars, voiceVars>>

(* A preview of more than 32 bytes is served as it is.                      *)
PreviewKept == disk["preview"]["own"].bytes \in {"part", "whole"}

(* GET of a picture in WeChat's own format: without a preview, ffmpeg makes *)
(* one; when that fails nothing is written.                                 *)
BeginPreview(t) ==
    /\ ~PreviewKept
    /\ Step(t, "idle", "open")
    /\ file' = [file EXCEPT ![t] = "preview"]
    /\ NoteRace("preview")
    /\ UNCHANGED <<upd, got, fd, disk, want, loginVars, voiceVars>>

(* The slip: the target itself is opened for writing.                       *)
SlipOpenName == "own"
OpenName == "tmp"

(* write_text opens the temporary name, which empties what is there.        *)
OpenFile(t) ==
    /\ Step(t, "open", "write")
    /\ fd' = [fd EXCEPT ![t] = OpenName]
    /\ disk' = [disk EXCEPT ![file[t]][OpenName] = [bytes |-> "empty", set |-> {}]]
    /\ UNCHANGED <<file, upd, got, want, loginVars, voiceVars, raced>>

(* What t writes: the settings it merged, or bytes without settings.        *)
Text(t) == [bytes |-> "whole", set |-> IF file[t] = "settings" THEN got[t] ELSE {}]

(* Bytes over bytes that another thread has written to the same open file:  *)
(* a shorter text leaves the end of the longer one behind.  Two previews    *)
(* of one picture are the same bytes.                                       *)
Over(old, new, f) ==
    IF old.bytes = "empty" \/ (old = new /\ f = "preview")
      THEN {new}
      ELSE {new, [bytes |-> "part", set |-> {}]}

(* The bytes go to the open file, whatever name it has by now.              *)
WriteFile(t) ==
    /\ Step(t, "write", "replace")
    /\ IF fd[t] \in Names
         THEN \E c \in Over(disk[file[t]][fd[t]], Text(t), file[t]) :
                disk' = [disk EXCEPT ![file[t]][fd[t]] = c]
         ELSE UNCHANGED disk
    /\ fd' = [fd EXCEPT ![t] = "closed"]
    /\ UNCHANGED <<file, upd, got, want, loginVars, voiceVars, raced>>

(* The locals of the request are gone.                                      *)
Forget(t) ==
    /\ upd' = [upd EXCEPT ![t] = {}]
    /\ got' = [got EXCEPT ![t] = {}]
    /\ file' = [file EXCEPT ![t] = "server"]

(* After the settings the same request writes the status; all other writers *)
(* are done.                                                                *)
AfterReplace(t) ==
    IF file[t] = "settings"
      THEN Step(t, "replace", "open") /\ NoteRace("server")
      ELSE Step(t, "replace", "idle") /\ UNCHANGED raced

(* replace: files that are open follow their names.                         *)
ReplaceFile(t) ==
    /\ disk[file[t]]["tmp"].bytes # "none"
    /\ disk' = [disk EXCEPT ![file[t]] = [tmp |-> NoFile, own |-> @["tmp"]]]
    /\ fd' = [u \in Threads |->
                IF u \notin Working(file[t]) THEN fd[u]
                ELSE CASE fd[u] = "tmp" -> "own" [] fd[u] = "own" -> "gone"
                       [] OTHER -> fd[u]]
    /\ want' = Merged(want, upd[t])
    /\ AfterReplace(t)
    /\ Forget(t)
    /\ UNCHANGED <<loginVars, voiceVars>>

(* The temporary name is gone: the request ends with an error, the preview  *)
(* is not served, status_loop prints and sleeps.                            *)
ReplaceFails(t) ==
    /\ disk[file[t]]["tmp"].bytes = "none"
    /\ Step(t, "replace", "idle")
    /\ Forget(t)
    /\ UNCHANGED <<fd, disk, want, loginVars, voiceVars, raced>>

-----------------------------------------------------------------------------
(* GET of a voice message: transcode_silk.                                  *)

Transcoding == {t \in Threads : pc[t] \in VoiceSteps}

(* A wav that starts with RIFF is served as it is.  (One older than the     *)
(* source is made again: the consumer does not write a body twice.)         *)
(* Without one the bytes go to the .silk file.                              *)
BeginVoice(t) ==
    /\ wav \notin {"part", "whole"}
    /\ Step(t, "idle", "silk")
    /\ silk' = "empty"
    /\ IF Transcoding = {}
         THEN joined' = {} /\ UNCHANGED raced
         ELSE joined' = Transcoding \cup {t} /\ raced' = raced \cup {"voice"}
    /\ UNCHANGED <<pcm, wav, heard, spoilt, loginVars, fileVars>>

WriteSilk(t) ==
    /\ Step(t, "silk", "decode")
    /\ silk' = "whole"
    /\ UNCHANGED <<pcm, wav, heard, joined, spoilt, loginVars, fileVars, raced>>

(* The decoder opens the .pcm, which empties it.                            *)
StartDecoder(t) ==
    /\ Step(t, "decode", "decoding")
    /\ pcm' = "empty"
    /\ UNCHANGED <<silk, wav, heard, joined, spoilt, loginVars, fileVars, raced>>

DecoderWrites(t) ==
    /\ pc[t] = "decoding" /\ pcm = "empty"
    /\ pcm' = "part"
    /\ UNCHANGED <<pc, silk, wav, heard, joined, spoilt, loginVars, fileVars, raced>>

(* The decoder fails, before it has opened the .pcm or after part of its    *)
(* output.  Its exit code is not looked at: what lies there, its own part   *)
(* or what an earlier run left, is taken for the voice.                     *)
DecoderFails(t) ==
    /\ Step(t, "decode", "pcm") \/ Step(t, "decoding", "pcm")
    /\ spoilt' = IF pcm \in {"part", "whole"} THEN spoilt \cup {"pcm"} ELSE spoilt
    /\ UNCHANGED <<silk, pcm, wav, heard, joined, loginVars, fileVars, raced>>

(* It ends well.  Another decoder on the same files may have cut what it    *)
(* read or what it wrote, or its output may have lost its name.             *)
DecoderEnds(t) ==
    /\ Step(t, "decoding", "pcm")
    /\ pcm' \in IF pcm = "none" THEN {"none"}
                ELSE IF t \in joined THEN {"empty", "part", "whole"} ELSE {"whole"}
    /\ UNCHANGED <<silk, wav, heard, joined, spoilt, loginVars, fileVars, raced>>

(* The slip: after a timeout the request goes on with what there is.        *)
SlipCut(t) ==
    /\ Step(t, "decoding", "pcm")
    /\ UNCHANGED <<voiceVars, loginVars, fileVars, raced>>

(* 20 seconds are over: the decoder is killed and its output stays.         *)
DecoderCut(t) ==
    /\ Step(t, "decoding", "idle")
    /\ UNCHANGED <<voiceVars, loginVars, fileVars, raced>>

(* No .pcm, or one of less than 16 bytes: no wav.                           *)
NoPcm(t) ==
    /\ pcm \in {"none", "empty"}
    /\ Step(t, "pcm", "idle")
    /\ UNCHANGED <<voiceVars, loginVars, fileVars, raced>>

(* The .pcm is read and the wav opened, which empties it.                   *)
ReadPcm(t) ==
    /\ pcm \in {"part", "whole"}
    /\ Step(t, "pcm", "wav")
    /\ heard' = [heard EXCEPT ![t] = pcm]
    /\ wav' = "empty"
    /\ UNCHANGED <<silk, pcm, joined, spoilt, loginVars, fileVars, raced>>

WriteWav(t) ==
    /\ Step(t, "wav", "tidy")
    /\ wav' = heard[t]
    /\ heard' = [heard EXCEPT ![t] = "none"]
    /\ UNCHANGED <<silk, pcm, joined, spoilt, loginVars, fileVars, raced>>

(* The write breaks off after the header (a full disk, a kill): the file    *)
(* under the wav's own name starts with RIFF.                               *)
WavBreaks(t) ==
    /\ Step(t, "wav", "idle")
    /\ wav' = "part"
    /\ spoilt' = spoilt \cup {"wav"}
    /\ heard' = [heard EXCEPT ![t] = "none"]
    /\ UNCHANGED <<silk, pcm, joined, loginVars, fileVars, raced>>

UnlinkPcm(t) ==
    /\ Step(t, "tidy", "idle")
    /\ pcm' = "none"
    /\ UNCHANGED <<silk, wav, heard, joined, spoilt, loginVars, fileVars, raced>>

-----------------------------------------------------------------------------
(* The container is restarted: the failures are forgotten, the files stay.  *)
(* MaxRestarts is a bound.                                                  *)
Restart ==
    /\ restarts < MaxRestarts
    /\ restarts' = restarts + 1
    /\ fails' = 0
    /\ file' = [t \in Threads |-> "server"]
    /\ upd' = [t \in Threads |-> {}] /\ got' = [t \in Threads |-> {}]
    /\ pc' = [t \in Threads |-> "idle"]
    /\ fd' = [t \in Threads |-> "closed"]
    /\ heard' = [t \in Threads |-> "none"]
    /\ joined' = {}
    /\ UNCHANGED <<mix, disk, want, silk, pcm, wav, spoilt, raced>>

(* What the browser asks for.  Mixes bounds what one behaviour combines:    *)
(* logins, saves with status reads, previews and voices share no state.     *)
Request(t) ==
    \/ "login" \in mix /\ (BeginLogin(t) \/ RefuseLogin(t) \/ BeginBasic(t))
    \/ "save" \in mix /\ BeginSave(t)
    \/ "status" \in mix /\ BeginStatus(t)
    \/ "preview" \in mix /\ BeginPreview(t)
    \/ "voice" \in mix /\ BeginVoice(t)

Serve(t) ==
    \/ Verify(t) \/ NoteFail(t) \/ EndBasic(t)
    \/ OpenFile(t) \/ WriteFile(t) \/ ReplaceFile(t) \/ ReplaceFails(t)
    \/ WriteSilk(t) \/ StartDecoder(t) \/ DecoderWrites(t)
    \/ DecoderFails(t) \/ DecoderEnds(t) \/ DecoderCut(t)
    \/ NoPcm(t) \/ ReadPcm(t) \/ WriteWav(t) \/ WavBreaks(t) \/ UnlinkPcm(t)

Next ==
    \/ \E t \in Handlers : Request(t)
    \/ BeginStatus(Loop)
    \/ \E t \in Threads : Serve(t)
    \/ Expire
    \/ Restart

Spec == Init /\ [][Next]_vars

(* Threads that have begun go on, the status thread begins again and again, *)
(* and time passes.  No request has to come.                                *)
Fairness ==
    /\ \A t \in Threads : WF_vars(Serve(t))
    /\ WF_vars(BeginStatus(Loop))
    /\ WF_vars(Expire)

FairSpec == Spec /\ Fairness

-----------------------------------------------------------------------------
(* Properties.                                                              *)

(* Of the login form: the look and the append of one login are two holds of *)
(* the lock, so more failures than the limit can be counted, one less than  *)
(* the limit and one of every thread that was already past the look.  Never *)
(* more than that.  Passwords that come with the requests themselves        *)
(* (BeginBasic) are neither held back nor counted by it.                    *)
FormBounded ==
    fails + Cardinality({t \in Handlers : pc[t] \in LoginSteps})
        <= Limit - 1 + Cardinality(Handlers)

(* A file that no two threads have worked on at once is whole for every     *)
(* reader at every moment, through crashes at any step.                     *)
FilesWhole ==
    \A f \in Files \ raced : disk[f]["own"].bytes \in {"none", "whole"}

(* As long as no two saves overlapped, no save loses what an earlier one    *)
(* set, and a save that a restart cut off changes nothing.                  *)
SettingsKept == "settings" \notin raced => Loaded = want

(* A wav with too little in it, which is kept and served for ever, needs    *)
(* two requests for the same voice at once, a decoder that failed over a    *)
(* .pcm with something in it, or a write of the wav that broke off.  A      *)
(* decoder that is killed, and a restart at any other step, do not make one,*)
(* whatever they leave behind.                                              *)
VoiceWhole ==
    "voice" \notin raced /\ spoilt = {} => wav \in {"none", "empty", "whole"}

(* An address that was closed out is let in again, even if it keeps trying. *)
LockoutEnds == ~Allowed ~> Allowed

(* When the browser asks for no more status and saves no more settings,     *)
(* server.json becomes whole and stays so, whatever the threads and the     *)
(* restarts before left of it and of its temporary name.                    *)
StatusSettles ==
    <>[](\A t \in Handlers : pc[t] \notin FileSteps)
        => <>[](disk["server"]["own"].bytes = "whole")
=============================================================================

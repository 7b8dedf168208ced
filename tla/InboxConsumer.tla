--------------------------- MODULE InboxConsumer ---------------------------
(***************************************************************************)
(* The hand-over of one message from the phone to the NAS store:           *)
(*                                                                         *)
(*   - the phone's serial SFTP queue (SftpInboxClient.m) writes            *)
(*     inbox/<uuid>.<ext> and then inbox/<uuid>.json IN PLACE, retrying a  *)
(*     failed put on the same path;                                        *)
(*   - any number of consumer processes (consumer.py: the --watch daemon,  *)
(*     the path-triggered oneshot, the per-minute cron line) claim a json  *)
(*     by renaming it into inbox/.processing/, copy the media body, upsert *)
(*     the SQLite row, append the JSONL line and unlink the upload.        *)
(*                                                                         *)
(* A file is one upload, named by its uuid; Msg gives the (chat_id,        *)
(* msg_id) it carries, and several uploads may carry the same message.     *)
(* The abstraction keeps of a file's bytes only whether they are all       *)
(* there, and of time only whether a file's mtime is 15 seconds old.       *)
(* Operators named Slip... are deliberate errors: no specification uses    *)
(* them, they stand for the bugs that the properties below would catch.    *)
(***************************************************************************)
EXTENDS Naturals, Sequences, FiniteSets

CONSTANTS
    Files,        \* uuids of the uploads
    Msgs,         \* (chat_id, msg_id) keys
    Msg,          \* Msg[f]: the message that upload f carries
    WithMedia,    \* uploads that come with a media body
    Valid,        \* uploads whose json passes _normalize_event
    Unstorable,   \* the valid ones that SQLite refuses (a ts beyond 64 bits)
    TooBig,       \* uploads whose body decide_media refuses to copy
    Runners,      \* consumer processes on this inbox
    MaxAttempts,  \* SftpInboxClient.maxAttempts
    MaxFaults,    \* bound on the crashes and I/O errors of consumers
    MaxSheets,    \* bound on the changes of names.json
    MayStall,     \* may an open upload be silent for 15 seconds?
    None,         \* an empty media_path
    NoRow         \* no row in the index

ASSUME ConstAssumption ==
    /\ Msg \in [Files -> Msgs]
    /\ WithMedia \subseteq Files
    /\ Valid \subseteq Files
    /\ Unstorable \subseteq Valid
    /\ TooBig \subseteq Files
    /\ MaxAttempts \in Nat \ {0}
    /\ MaxFaults \in Nat
    /\ MaxSheets \in Nat
    /\ MayStall \in BOOLEAN
    /\ None \notin Files
    /\ NoRow \notin Files
    /\ NoRow # None

VARIABLES
    upload,   \* upload[f]: where the phone is with f
    try,      \* try[f]: put attempts begun for the current target of f
    handle,   \* handle[f]: where the file the phone has open now lives
    json,     \* json[f][p]: bytes of <f>.json in place p
    media,    \* media[f]: bytes of inbox/<f>.<ext>
    body,     \* body[f]: bytes of the copy in the chat's media folder
    row,      \* row[m]: media_path of the index row of m
    log,      \* log[m]: the media_paths of the JSONL lines of m
    pc,       \* pc[r]: the next step of runner r
    cur,      \* cur[r]: the upload runner r works on
    todoIn,   \* todoIn[r]: what its glob of inbox/ still holds
    todoProc, \* todoProc[r]: what its glob of .processing/ still holds
    found,    \* found[r]: bytes of the media file it found next to the json
    prev,     \* prev[r]: the media_path its SELECT returned
    faults,   \* faults so far
    unread,   \* uploads whose json a consumer could not read, for the properties
    cutSheet, \* is there a names.json that ends inside a UTF-8 character?
    sheets    \* changes of names.json so far

phoneVars  == <<upload, try, handle>>
storeVars  == <<body, row, log>>
runnerVars == <<pc, cur, todoIn, todoProc, found, prev>>
sideVars   == <<faults, unread, cutSheet, sheets>>
vars == <<upload, try, handle, json, media, body, row, log,
          pc, cur, todoIn, todoProc, found, prev, faults, unread, cutSheet, sheets>>

Places  == {"inbox", "processing", "failed"}
Bytes   == {"none", "partial", "complete"}
Uploads == {"queued", "media", "json", "acked", "local", "lost"}
Steps   == {"idle", "list", "scan", "next", "read", "bad", "invalid", "find", "open",
            "copy", "select", "upsert", "append", "unlink", "sweep"}
Busy    == Steps \ {"idle", "list", "scan", "next"}  \* between a claim and its end
Nowhere == [p \in Places |-> "none"]

UploadsTypeOK ==
    /\ upload \in [Files -> Uploads]
    /\ try \in [Files -> 0..MaxAttempts]
    /\ handle \in [Files -> Places \cup {"closed", "gone"}]
    /\ json \in [Files -> [Places -> Bytes]]
    /\ media \in [Files -> Bytes]

StoreTypeOK ==
    /\ body \in [Files -> Bytes]
    /\ row \in [Msgs -> Files \cup {None, NoRow}]
    /\ log \in [Msgs -> Seq(Files \cup {None})]

RunnersTypeOK ==
    /\ pc \in [Runners -> Steps]
    /\ cur \in [Runners -> Files \cup {None}]
    /\ todoIn \in [Runners -> SUBSET Files]
    /\ todoProc \in [Runners -> SUBSET Files]
    /\ found \in [Runners -> Bytes]
    /\ prev \in [Runners -> Files \cup {None, NoRow}]
    /\ \A r \in Runners : pc[r] \in Busy => cur[r] \in Files

SidesTypeOK ==
    /\ faults \in 0..MaxFaults
    /\ unread \subseteq Files
    /\ cutSheet \in BOOLEAN
    /\ sheets \in 0..MaxSheets

(* The type invariant.                                                      *)
TypeOK == UploadsTypeOK /\ StoreTypeOK /\ RunnersTypeOK /\ SidesTypeOK

Init ==
    /\ upload = [f \in Files |-> "queued"]
    /\ try = [f \in Files |-> 0]
    /\ handle = [f \in Files |-> "closed"]
    /\ json = [f \in Files |-> Nowhere]
    /\ media = [f \in Files |-> "none"]
    /\ body = [f \in Files |-> "none"]
    /\ row = [m \in Msgs |-> NoRow]
    /\ log = [m \in Msgs |-> <<>>]
    /\ pc = [r \in Runners |-> "idle"]
    /\ cur = [r \in Runners |-> None]
    /\ todoIn = [r \in Runners |-> {}]
    /\ todoProc = [r \in Runners |-> {}]
    /\ found = [r \in Runners |-> "none"]
    /\ prev = [r \in Runners |-> NoRow]
    /\ faults = 0
    /\ unread = {}
    /\ cutSheet = FALSE
    /\ sheets = 0

-----------------------------------------------------------------------------
(* The phone.  All puts run on one serial dispatch queue.                  *)

Sending(f) == upload[f] \in {"media", "json"}

(* enqueueEvent's block reaches the head of the queue; the media body goes  *)
(* first, an event without one starts with its json.                        *)
StartUpload(f) ==
    /\ upload[f] = "queued"
    /\ \A g \in Files : ~Sending(g)
    /\ upload' = [upload EXCEPT ![f] = IF f \in WithMedia THEN "media" ELSE "json"]
    /\ UNCHANGED <<try, handle, json, media, storeVars, runnerVars, sideVars>>

(* putData: open with WRITE|CREAT|TRUNC at the inbox path, so an attempt    *)
(* empties what an earlier one left there, or creates a file anew when the  *)
(* earlier one was moved away.                                              *)
OpenPut(f) ==
    /\ Sending(f)
    /\ handle[f] = "closed"
    /\ try[f] < MaxAttempts
    /\ try' = [try EXCEPT ![f] = @ + 1]
    /\ handle' = [handle EXCEPT ![f] = "inbox"]
    /\ IF upload[f] = "media"
         THEN media' = [media EXCEPT ![f] = "partial"] /\ UNCHANGED json
         ELSE json' = [json EXCEPT ![f]["inbox"] = "partial"] /\ UNCHANGED media
    /\ UNCHANGED <<upload, storeVars, runnerVars, sideVars>>

(* The bytes the phone has open become b, wherever the file is by now.      *)
WriteOpen(f, b) ==
    IF upload[f] = "media"
      THEN media' = [media EXCEPT ![f] = b] /\ UNCHANGED json
      ELSE /\ json' = [json EXCEPT ![f] =
                  [p \in Places |-> IF p = handle[f] THEN b ELSE @[p]]]
           /\ UNCHANGED media

(* putWithRetry returns YES: after the media body comes the json.           *)
FinishPut(f) ==
    /\ Sending(f)
    /\ handle[f] # "closed"
    /\ WriteOpen(f, "complete")
    /\ handle' = [handle EXCEPT ![f] = "closed"]
    /\ IF upload[f] = "media"
         THEN /\ upload' = [upload EXCEPT ![f] = "json"]
              /\ try' = [try EXCEPT ![f] = 0]
         ELSE /\ upload' = [upload EXCEPT ![f] = "acked"]
              /\ UNCHANGED try
    /\ UNCHANGED <<storeVars, runnerVars, sideVars>>

(* What putWithRetry does after attempt number n failed: another attempt on *)
(* the same path, or NO.  A body that could not be sent does not hold back  *)
(* the json; a json that could not be sent goes to the local queue          *)
(* directory (persistLocally), which nothing reads.                         *)
AfterFailure(f, n) ==
    IF n < MaxAttempts
      THEN /\ try' = [try EXCEPT ![f] = n]
           /\ UNCHANGED upload
      ELSE IF upload[f] = "media"
             THEN /\ upload' = [upload EXCEPT ![f] = "json"]
                  /\ try' = [try EXCEPT ![f] = 0]
             ELSE /\ upload' = [upload EXCEPT ![f] = "local"]
                  /\ try' = [try EXCEPT ![f] = n]

(* No connection, or SFTP open failed: nothing is written.                  *)
RefusePut(f) ==
    /\ Sending(f)
    /\ handle[f] = "closed"
    /\ try[f] < MaxAttempts
    /\ AfterFailure(f, try[f] + 1)
    /\ UNCHANGED <<handle, json, media, storeVars, runnerVars, sideVars>>

(* libssh2_sftp_write failed.  Part of the bytes stay behind, or all of     *)
(* them when only the acknowledgement of the last write was lost.           *)
BreakPut(f) ==
    /\ Sending(f)
    /\ handle[f] # "closed"
    /\ \E b \in {"partial", "complete"} : WriteOpen(f, b)
    /\ handle' = [handle EXCEPT ![f] = "closed"]
    /\ AfterFailure(f, try[f])
    /\ UNCHANGED <<storeVars, runnerVars, sideVars>>

(* iOS ends the app: the queue lives in memory only.                        *)
KillApp ==
    /\ \E f \in Files : upload[f] = "queued" \/ Sending(f)
    /\ upload' = [f \in Files |->
           IF upload[f] = "queued" \/ Sending(f) THEN "lost" ELSE upload[f]]
    /\ handle' = [f \in Files |-> "closed"]
    /\ UNCHANGED <<try, json, media, storeVars, runnerVars, sideVars>>

(* enqueueNameMap puts names.json in place too, on the same queue: at any    *)
(* moment of the put, and for good when it breaks off, the sheet may end in  *)
(* the middle of a character.  A sheet that is whole, or torn between two    *)
(* characters (JSONDecodeError), is no obstacle to a pass.                   *)
PutSheet ==
    /\ \A f \in Files : ~Sending(f)
    /\ sheets < MaxSheets
    /\ sheets' = sheets + 1
    /\ cutSheet' = ~cutSheet
    /\ UNCHANGED <<phoneVars, json, media, storeVars, runnerVars, faults, unread>>

Phone ==
    \/ \E f \in Files :
          StartUpload(f) \/ OpenPut(f) \/ FinishPut(f) \/ RefusePut(f) \/ BreakPut(f)
    \/ PutSheet \/ KillApp

-----------------------------------------------------------------------------
(* The files under the inbox.                                               *)

(* rename(2): src replaces what dst held; onto itself it does nothing.  A   *)
(* file the phone has open moves with its bytes, or loses its name.         *)
Rename(f, src, dst) ==
    /\ json' = [json EXCEPT ![f] = [p \in Places |->
           IF p = dst THEN @[src] ELSE IF p = src THEN "none" ELSE @[p]]]
    /\ handle' = IF upload[f] # "json" \/ src = dst \/ handle[f] \notin {src, dst}
                   THEN handle
                   ELSE [handle EXCEPT ![f] = IF @ = src THEN dst ELSE "gone"]

(* unlink(missing_ok) of the claimed json.                                  *)
UnlinkClaim(f) ==
    /\ json' = [json EXCEPT ![f]["processing"] = "none"]
    /\ handle' = IF upload[f] = "json" /\ handle[f] = "processing"
                   THEN [handle EXCEPT ![f] = "gone"]
                   ELSE handle

-----------------------------------------------------------------------------
(* A consumer process.                                                      *)

Goto(r, step) == pc' = [pc EXCEPT ![r] = step]

(* An exception leaves consume_one and ends the pass; the locals are gone.  *)
EndOfPass(r) ==
    /\ Goto(r, "idle")
    /\ cur' = [cur EXCEPT ![r] = None]
    /\ todoIn' = [todoIn EXCEPT ![r] = {}]
    /\ todoProc' = [todoProc EXCEPT ![r] = {}]
    /\ found' = [found EXCEPT ![r] = "none"]
    /\ prev' = [prev EXCEPT ![r] = NoRow]

(* consume_one returns: on to the next path of the pass.                    *)
NextFile(r) ==
    /\ Goto(r, "next")
    /\ cur' = [cur EXCEPT ![r] = None]
    /\ found' = [found EXCEPT ![r] = "none"]
    /\ prev' = [prev EXCEPT ![r] = NoRow]
    /\ UNCHANGED <<todoIn, todoProc>>

(* consume_inbox first reads the name sheets.  A sheet cut inside a         *)
(* character raises UnicodeDecodeError, which the except of the loop does   *)
(* not name: the pass is over before it has listed a single upload.         *)
ReadNames(r) ==
    /\ pc[r] = "idle"
    /\ ~cutSheet
    /\ Goto(r, "list")
    /\ UNCHANGED <<phoneVars, json, media, storeVars, cur, todoIn, todoProc, found, prev, sideVars>>

(* Then it lists inbox/ and .processing/, in two system calls.              *)
ScanInbox(r) ==
    /\ pc[r] = "list"
    /\ todoIn' = [todoIn EXCEPT ![r] = {f \in Files : json[f]["inbox"] # "none"}]
    /\ Goto(r, "scan")
    /\ UNCHANGED <<phoneVars, json, media, storeVars, cur, todoProc, found, prev, sideVars>>

(* The slip: claims of a crashed pass are not picked up again.              *)
SlipNoReclaim(r) ==
    /\ pc[r] = "scan"
    /\ Goto(r, "next")
    /\ UNCHANGED <<phoneVars, json, media, storeVars, cur, todoIn, todoProc, found, prev, sideVars>>

ScanProcessing(r) ==
    /\ pc[r] = "scan"
    /\ todoProc' = [todoProc EXCEPT ![r] = {f \in Files : json[f]["processing"] # "none"}]
    /\ Goto(r, "next")
    /\ UNCHANGED <<phoneVars, json, media, storeVars, cur, todoIn, found, prev, sideVars>>

(* FileNotFoundError: another process has it, go on to the next path.       *)
(* The slip: the exception is swallowed but the path is read all the same.  *)
SlipSkipReads(r) == Goto(r, "read") /\ UNCHANGED <<json, handle, cur>>
SkipPath(r) == UNCHANGED <<json, handle, pc, cur>>

(* Claim the next path: inbox paths come before .processing paths, each in  *)
(* the order of the random uuids.  rename of a path that is gone raises     *)
(* FileNotFoundError and skips it; a .processing path is renamed to itself. *)
Claim(r) ==
    /\ pc[r] = "next"
    /\ LET src  == IF todoIn[r] # {} THEN "inbox" ELSE "processing"
           todo == IF todoIn[r] # {} THEN todoIn[r] ELSE todoProc[r]
       IN \E f \in todo :
            /\ IF src = "inbox"
                 THEN todoIn' = [todoIn EXCEPT ![r] = @ \ {f}] /\ UNCHANGED todoProc
                 ELSE todoProc' = [todoProc EXCEPT ![r] = @ \ {f}] /\ UNCHANGED todoIn
            /\ IF json[f][src] = "none"
                 THEN SkipPath(r)
                 ELSE /\ Rename(f, src, "processing")
                      /\ Goto(r, "read")
                      /\ cur' = [cur EXCEPT ![r] = f]
    /\ UNCHANGED <<upload, try, media, storeVars, found, prev, sideVars>>

(* Nothing left: the pass is over (readable.refresh writes no state here).  *)
FinishPass(r) ==
    /\ pc[r] = "next"
    /\ todoIn[r] = {} /\ todoProc[r] = {}
    /\ EndOfPass(r)
    /\ UNCHANGED <<phoneVars, json, media, storeVars, sideVars>>

(* read_text, json.loads and _normalize_event.                              *)
Read(r) ==
    /\ pc[r] = "read"
    /\ \/ /\ json[cur[r]]["processing"] = "complete"
          /\ Goto(r, IF cur[r] \in Valid THEN "find" ELSE "invalid")
       \/ /\ json[cur[r]]["processing"] = "partial"
          /\ Goto(r, "bad")
    /\ UNCHANGED <<phoneVars, json, media, storeVars, cur, todoIn, todoProc, found, prev, sideVars>>

(* The slip: a json that does not parse is unlinked.                        *)
SlipDropYoung(r) ==
    /\ pc[r] = "bad"
    /\ UnlinkClaim(cur[r])
    /\ NextFile(r)
    /\ UNCHANGED <<upload, try, media, storeVars, sideVars>>

(* JSONDecodeError, mtime younger than 15 seconds: back to inbox/.          *)
PutBack(r) ==
    /\ pc[r] = "bad"
    /\ json[cur[r]]["processing"] # "none"
    /\ Rename(cur[r], "processing", "inbox")
    /\ NextFile(r)
    /\ UNCHANGED <<upload, try, media, storeVars, sideVars>>

(* The slip: no grace period for a json still being written.                *)
SlipNoGrace(r) ==
    /\ pc[r] = "bad"
    /\ json[cur[r]]["processing"] # "none"
    /\ Rename(cur[r], "processing", "failed")
    /\ NextFile(r)
    /\ UNCHANGED <<upload, try, media, storeVars, sideVars>>

(* JSONDecodeError, older: to the failed directory.  A write younger than   *)
(* 15 seconds keeps the file young, so unless the writer may stall the file *)
(* is neither open nor finished since it was read.                          *)
RejectStale(r) ==
    /\ pc[r] = "bad"
    /\ json[cur[r]]["processing"] # "none"
    /\ \/ MayStall
       \/ /\ json[cur[r]]["processing"] = "partial"
          /\ handle[cur[r]] # "processing"
    /\ Rename(cur[r], "processing", "failed")
    /\ NextFile(r)
    /\ UNCHANGED <<upload, try, media, storeVars, sideVars>>

(* ValueError from _normalize_event: to the failed directory at any age.    *)
RejectInvalid(r) ==
    /\ pc[r] = "invalid"
    /\ json[cur[r]]["processing"] # "none"
    /\ Rename(cur[r], "processing", "failed")
    /\ NextFile(r)
    /\ UNCHANGED <<upload, try, media, storeVars, sideVars>>

(* Any other OSError of read_text (EIO, EMFILE, EACCES) on a claim that is  *)
(* there: to the failed directory at any age, whatever the file holds.      *)
ReadFails(r) ==
    /\ pc[r] = "read"
    /\ json[cur[r]]["processing"] # "none"
    /\ faults < MaxFaults
    /\ faults' = faults + 1
    /\ unread' = unread \cup {cur[r]}
    /\ Rename(cur[r], "processing", "failed")
    /\ NextFile(r)
    /\ UNCHANGED <<upload, try, media, storeVars, cutSheet, sheets>>

(* The claimed json vanished: read_text fails with an OSError, and then, as *)
(* after "bad" and "invalid", claimed.replace raises out of consume_one.    *)
ClaimGone(r) ==
    /\ pc[r] \in {"read", "bad", "invalid"}
    /\ json[cur[r]]["processing"] = "none"
    /\ EndOfPass(r)
    /\ UNCHANGED <<phoneVars, json, media, storeVars, sideVars>>

(* _find_media_next_to looks in inbox/ itself: bodies are never claimed.    *)
FindMedia(r) ==
    /\ pc[r] = "find"
    /\ found' = [found EXCEPT ![r] = media[cur[r]]]
    /\ Goto(r, IF media[cur[r]] = "none" THEN "select" ELSE "open")
    /\ UNCHANGED <<phoneVars, json, media, storeVars, cur, todoIn, todoProc, prev, sideVars>>

(* stat, decide_media, and the start of copy2, which truncates the copy.    *)
OpenCopy(r) ==
    /\ pc[r] = "open"
    /\ media[cur[r]] # "none"
    /\ IF cur[r] \in TooBig
         THEN Goto(r, "select") /\ UNCHANGED body
         ELSE Goto(r, "copy") /\ body' = [body EXCEPT ![cur[r]] = "partial"]
    /\ UNCHANGED <<phoneVars, json, media, row, log, cur, todoIn, todoProc, found, prev, sideVars>>

(* The body found is not there any more: FileNotFoundError out of stat.     *)
MediaGone(r) ==
    /\ pc[r] = "open"
    /\ media[cur[r]] = "none"
    /\ EndOfPass(r)
    /\ UNCHANGED <<phoneVars, json, media, storeVars, sideVars>>

(* The slip: the body is moved instead of copied.                           *)
SlipMoveBody(r) ==
    /\ pc[r] = "copy"
    /\ body' = [body EXCEPT ![cur[r]] = found[r]]
    /\ media' = [media EXCEPT ![cur[r]] = "none"]
    /\ Goto(r, "select")
    /\ UNCHANGED <<phoneVars, json, row, log, cur, todoIn, todoProc, found, prev, sideVars>>

(* The slip: an error of the copy is swallowed like one of the previews.    *)
SlipShortCopy(r) ==
    /\ pc[r] = "copy"
    /\ \E b \in {"partial", found[r]} : body' = [body EXCEPT ![cur[r]] = b]
    /\ Goto(r, "select")
    /\ UNCHANGED <<phoneVars, json, media, row, log, cur, todoIn, todoProc, found, prev, sideVars>>

FinishCopy(r) ==
    /\ pc[r] = "copy"
    /\ body' = [body EXCEPT ![cur[r]] = found[r]]
    /\ Goto(r, "select")
    /\ UNCHANGED <<phoneVars, json, media, row, log, cur, todoIn, todoProc, found, prev, sideVars>>

(* The slip: a media_path for every event.                                  *)
SlipPathAlways(r) == cur[r]

(* event["media_path"]: the copy's path, named by the uuid, or NULL.        *)
MediaPath(r) ==
    IF found[r] # "none" /\ cur[r] \notin TooBig THEN cur[r] ELSE None

(* Under _PERSIST_LOCK, which only threads of one process share; Python     *)
(* opens the transaction at the INSERT, so the SELECT stands outside it.    *)
SelectPrev(r) ==
    /\ pc[r] = "select"
    /\ prev' = [prev EXCEPT ![r] = row[Msg[cur[r]]]]
    /\ Goto(r, "upsert")
    /\ UNCHANGED <<phoneVars, json, media, storeVars, cur, todoIn, todoProc, found, sideVars>>

(* INSERT ... ON CONFLICT: the row as it is, or an empty media_path filled. *)
Upserted(old, new) == IF old = NoRow \/ (old = None /\ new # None) THEN new ELSE old

Upsert(r) ==
    /\ pc[r] = "upsert"
    /\ cur[r] \notin Unstorable
    /\ row' = [row EXCEPT ![Msg[cur[r]]] = Upserted(@, MediaPath(r))]
    /\ Goto(r, "append")
    /\ UNCHANGED <<phoneVars, json, media, body, log, cur, todoIn, todoProc, found, prev, sideVars>>

(* The INSERT raises OverflowError out of consume_one, on this pass and on  *)
(* every later one: the claim stays, and nothing behind it is reached.      *)
RefuseRow(r) ==
    /\ pc[r] = "upsert"
    /\ cur[r] \in Unstorable
    /\ EndOfPass(r)
    /\ UNCHANGED <<phoneVars, json, media, storeVars, sideVars>>

(* The slips: an unconditional append; one without a look at the old path.  *)
SlipAlwaysAppend(r) == TRUE
SlipAppendBody(r) == prev[r] = NoRow \/ MediaPath(r) # None

ShouldAppend(r) == prev[r] = NoRow \/ (prev[r] = None /\ MediaPath(r) # None)

AppendLog(r) ==
    /\ pc[r] = "append"
    /\ log' = IF ShouldAppend(r)
                THEN [log EXCEPT ![Msg[cur[r]]] = Append(@, MediaPath(r))]
                ELSE log
    /\ Goto(r, "unlink")
    /\ UNCHANGED <<phoneVars, json, media, body, row, cur, todoIn, todoProc, found, prev, sideVars>>

UnlinkJson(r) ==
    /\ pc[r] = "unlink"
    /\ UnlinkClaim(cur[r])
    /\ IF found[r] # "none"
         THEN Goto(r, "sweep") /\ UNCHANGED <<cur, todoIn, todoProc, found, prev>>
         ELSE NextFile(r)
    /\ UNCHANGED <<upload, try, media, storeVars, sideVars>>

UnlinkMedia(r) ==
    /\ pc[r] = "sweep"
    /\ media' = [media EXCEPT ![cur[r]] = "none"]
    /\ NextFile(r)
    /\ UNCHANGED <<phoneVars, json, storeVars, sideVars>>

(* The process dies, or an I/O error (a full disk, a locked database) ends  *)
(* the pass at any step; --watch, systemd or cron starts the next pass.     *)
Fault(r) ==
    /\ pc[r] # "idle"
    /\ faults < MaxFaults
    /\ faults' = faults + 1
    /\ EndOfPass(r)
    /\ UNCHANGED <<phoneVars, json, media, storeVars, unread, cutSheet, sheets>>

-----------------------------------------------------------------------------
Pass(r) ==
    \/ ReadNames(r) \/ ScanInbox(r) \/ ScanProcessing(r) \/ Claim(r) \/ FinishPass(r)
    \/ Read(r) \/ PutBack(r) \/ RejectStale(r) \/ RejectInvalid(r) \/ ClaimGone(r)
    \/ FindMedia(r) \/ OpenCopy(r) \/ MediaGone(r) \/ FinishCopy(r)
    \/ SelectPrev(r) \/ Upsert(r) \/ RefuseRow(r) \/ AppendLog(r) \/ UnlinkJson(r) \/ UnlinkMedia(r)

Consumers == \E r \in Runners : Pass(r) \/ ReadFails(r) \/ Fault(r)

Next == Phone \/ Consumers

Spec == Init /\ [][Next]_vars

(* --watch, the path unit and cron keep every runner going; a file nobody   *)
(* writes does grow older than 15 seconds, so a json that is put back again *)
(* again is in the end rejected.  Of the phone only this: a put that never  *)
(* stalls has an end, since a file is finite; one that stalls need not.     *)
EndPut(f) == ~MayStall /\ (FinishPut(f) \/ BreakPut(f))

Fairness ==
    /\ \A r \in Runners : WF_vars(Pass(r)) /\ SF_vars(RejectStale(r))
    /\ \A f \in Files : WF_vars(EndPut(f))

FairSpec == Spec /\ Fairness

-----------------------------------------------------------------------------
(* Properties.                                                              *)

Indexed(m) == row[m] # NoRow

(* A row that names a body names one of the message's own uploads, and the  *)
(* copy is there: the body is copied before the row is written, and a row   *)
(* never keeps the path of a copy that was not started.                     *)
IndexBacked ==
    \A m \in Msgs : row[m] \in Files =>
        /\ Msg[row[m]] = m
        /\ row[m] \in WithMedia \ TooBig
        /\ body[row[m]] # "none"

(* A valid event whose json the phone put successfully at the first attempt *)
(* is never lost: it is indexed, or its whole json is still in one of the   *)
(* three places.  Any runners, any faults, any interleaving of claims,      *)
(* put-backs and rejections.                                                *)
FirstPutKept ==
    \A f \in Valid : upload[f] = "acked" /\ try[f] = 1 =>
        Indexed(Msg[f]) \/ \E p \in Places : json[f][p] = "complete"

(* The last name of a claimed json, and a body beside the inbox, disappear  *)
(* only once the message has its row.                                       *)
UnlinkedOnlyIndexed ==
    [][\A f \in Files :
          \/ json[f]["processing"] # "none" /\ json'[f] = Nowhere
          \/ media[f] # "none" /\ media'[f] = "none"
          => Indexed(Msg[f])]_vars

(* One runner, any crashes: the body beside the inbox goes only when the    *)
(* copy that the row names has all that the phone put; a torn copy is the   *)
(* phone's own.                                                             *)
UnlinkedOnlyCopied ==
    [][\A f \in Files :
          media[f] # "none" /\ media'[f] = "none" /\ row[Msg[f]] = f => body[f] = media[f]]_vars

(* consumer.py:18-19 "nothing is unlinked until the JSONL append, media     *)
(* copy, and SQLite upsert all succeeded".                                  *)
UnlinkedOnlyAppended ==
    [][\A f \in Files :
          json[f]["processing"] # "none" /\ json'[f] = Nowhere => log[Msg[f]] # <<>>]_vars

(* One runner, any crashes: the log never repeats a state of the row, never *)
(* runs ahead of it, and a line without a body never follows one with it.   *)
LogFollowsRow ==
    \A m \in Msgs :
        \/ log[m] = <<>>
        \/ log[m] = <<None>> /\ Indexed(m)
        \/ row[m] \in Files /\ log[m] \in {<<row[m]>>, <<None, row[m]>>}

(* One runner, any crashes: the detailed store implements the ledger.       *)
Ledger == INSTANCE EventLedger WITH
              Files <- Files, Msgs <- Msgs, Msg <- Msg, None <- None,
              NoRow <- NoRow, row <- row, log <- log
LedgerSpec == Ledger!Spec

(* A claim that no pass gets past: the INSERT refuses it every time.        *)
Stuck(g) == g \in Unstorable /\ json[g]["processing"] = "complete"

(* "Stay up and drain the inbox as files land" (consumer.py:847), as far as *)
(* it is true: a name sheet that stays cut inside a character keeps every   *)
(* pass from starting; otherwise inbox/ is emptied for good, however the    *)
(* phone's puts broke off and the consumers crashed, and .processing/ too   *)
(* unless it holds an event that SQLite refuses.                            *)
Drains ==
    \/ <>[]cutSheet
    \/ /\ <>[](\A f \in Files : json[f]["inbox"] = "none")
       /\ <>[](\/ \A f \in Files : json[f]["processing"] = "none"
              \/ \E g \in Files : Stuck(g))

(* A valid event put at the first attempt is in the end indexed, unless a   *)
(* consumer could not read its json and moved it away, it is claimed behind *)
(* an event that SQLite refuses, or a cut name sheet stops the passes.      *)
FirstPutIndexed ==
    \/ <>[]cutSheet
    \/ \A f \in Valid \ Unstorable :
          (upload[f] = "acked" /\ try[f] = 1)
             ~> \/ Indexed(Msg[f])
                \/ f \in unread
                \/ json[f]["processing"] = "complete" /\ \E g \in Files : Stuck(g)
=============================================================================

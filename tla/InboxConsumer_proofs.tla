------------------------ MODULE InboxConsumer_proofs ------------------------
(***************************************************************************)
(* Theorems about InboxConsumer for every set of uploads, messages and     *)
(* runners and every number of attempts and faults.                        *)
(***************************************************************************)
EXTENDS InboxConsumer, TLAPS, SequenceTheorems

(* The names the places, the bytes and the phone's states go by.            *)
LEMMA Names ==
    /\ "queued" \in Uploads /\ "media" \in Uploads /\ "json" \in Uploads
    /\ "acked" \in Uploads /\ "local" \in Uploads /\ "lost" \in Uploads
    /\ "none" \in Bytes /\ "partial" \in Bytes /\ "complete" \in Bytes
    /\ "inbox" \in Places /\ "processing" \in Places /\ "failed" \in Places
  BY DEF Uploads, Bytes, Places

(* What a step leaves alone keeps its type.                                 *)
LEMMA FrameType ==
    ASSUME TypeOK
    PROVE  /\ UNCHANGED <<upload, try, handle, json, media>> => UploadsTypeOK'
           /\ UNCHANGED <<body, row, log>> => StoreTypeOK'
           /\ UNCHANGED runnerVars => RunnersTypeOK'
<1>1. UNCHANGED <<upload, try, handle, json, media>> => UploadsTypeOK'
  BY DEF TypeOK, UploadsTypeOK
<1>2. UNCHANGED <<body, row, log>> => StoreTypeOK'
  BY DEF TypeOK, StoreTypeOK
<1>3. UNCHANGED runnerVars => RunnersTypeOK'
  BY DEF TypeOK, RunnersTypeOK, runnerVars
<1>4. QED
  BY <1>1, <1>2, <1>3

(* Replacing one json's entry by a well-typed one keeps the type.           *)
LEMMA JsonType ==
    ASSUME UploadsTypeOK, NEW f \in Files, NEW e \in [Places -> Bytes],
           json' = [json EXCEPT ![f] = e]
    PROVE  json' \in [Files -> [Places -> Bytes]]
  BY DEF UploadsTypeOK

(* rename(2) keeps the types of the directory and of the open files.        *)
LEMMA RenameType ==
    ASSUME UploadsTypeOK, NEW f \in Files, NEW src \in Places, NEW dst \in Places,
           Rename(f, src, dst)
    PROVE  /\ json' \in [Files -> [Places -> Bytes]]
           /\ handle' \in [Files -> Places \cup {"closed", "gone"}]
<1> DEFINE after == [p \in Places |->
               IF p = dst THEN json[f][src] ELSE IF p = src THEN "none" ELSE json[f][p]]
<1>1. after \in [Places -> Bytes]
  BY Names DEF UploadsTypeOK
<1>2. json' = [json EXCEPT ![f] = after]
  BY DEF Rename
<1>3. json' \in [Files -> [Places -> Bytes]]
  <2> HIDE DEF after
  <2> QED BY <1>1, <1>2, JsonType
<1>4. handle' \in [Files -> Places \cup {"closed", "gone"}]
  BY DEF UploadsTypeOK, Rename
<1>5. QED
  BY <1>3, <1>4

(* A write to the open file keeps the types of both directories.            *)
LEMMA WriteType ==
    ASSUME UploadsTypeOK, NEW f \in Files, NEW b \in Bytes, WriteOpen(f, b)
    PROVE  /\ json' \in [Files -> [Places -> Bytes]]
           /\ media' \in [Files -> Bytes]
<1> DEFINE after == [p \in Places |-> IF p = handle[f] THEN b ELSE json[f][p]]
<1>1. after \in [Places -> Bytes]
  BY DEF UploadsTypeOK
<1>2. UNCHANGED json \/ json' = [json EXCEPT ![f] = after]
  BY DEF WriteOpen
<1>3. json' \in [Files -> [Places -> Bytes]]
  <2> HIDE DEF after
  <2> QED BY <1>1, <1>2, JsonType DEF UploadsTypeOK
<1>4. media' \in [Files -> Bytes]
  BY DEF UploadsTypeOK, WriteOpen
<1>5. QED
  BY <1>3, <1>4

(* A failed attempt leaves the upload in a known state, within its attempts. *)
LEMMA FailureType ==
    ASSUME UploadsTypeOK, NEW f \in Files, NEW n \in 0..MaxAttempts, AfterFailure(f, n)
    PROVE  /\ upload' \in [Files -> Uploads]
           /\ try' \in [Files -> 0..MaxAttempts]
<1>1. 0 \in 0..MaxAttempts
  BY ConstAssumption
<1>2. QED
  BY <1>1, Names DEF UploadsTypeOK, AfterFailure

(* Every step of the phone keeps the types.                                 *)
LEMMA PhoneType == TypeOK /\ Phone => UploadsTypeOK'
<1> SUFFICES ASSUME TypeOK, Phone PROVE UploadsTypeOK'
  OBVIOUS
<1>0. UploadsTypeOK
  BY DEF TypeOK
<1>1. ASSUME NEW f \in Files, StartUpload(f) PROVE UploadsTypeOK'
  BY <1>0, <1>1, Names DEF StartUpload, UploadsTypeOK
<1>2. ASSUME NEW f \in Files, OpenPut(f) PROVE UploadsTypeOK'
  <2>1. try' \in [Files -> 0..MaxAttempts]
    BY <1>0, <1>2, ConstAssumption DEF OpenPut, UploadsTypeOK
  <2>2. media' \in [Files -> Bytes]
    BY <1>0, <1>2, Names DEF OpenPut, UploadsTypeOK
  <2>3. json' \in [Files -> [Places -> Bytes]]
    <3> DEFINE after == [json[f] EXCEPT !["inbox"] = "partial"]
    <3>1. after \in [Places -> Bytes]
      BY <1>0, Names DEF UploadsTypeOK
    <3>2. UNCHANGED json \/ json' = [json EXCEPT ![f] = after]
      BY <1>2 DEF OpenPut
    <3> HIDE DEF after
    <3>3. QED
      BY <1>0, <3>1, <3>2, JsonType DEF UploadsTypeOK
  <2>4. QED
    BY <1>0, <1>2, <2>1, <2>2, <2>3, Names DEF OpenPut, UploadsTypeOK
<1>3. ASSUME NEW f \in Files, FinishPut(f) PROVE UploadsTypeOK'
  <2>1. json' \in [Files -> [Places -> Bytes]] /\ media' \in [Files -> Bytes]
    BY <1>0, <1>3, WriteType, Names DEF FinishPut
  <2>2. upload' \in [Files -> Uploads]
    BY <1>0, <1>3, Names DEF FinishPut, UploadsTypeOK
  <2>3. 0 \in 0..MaxAttempts
    BY ConstAssumption
  <2>4. try' \in [Files -> 0..MaxAttempts]
    BY <1>0, <1>3, <2>3 DEF FinishPut, UploadsTypeOK
  <2>5. QED
    BY <1>0, <1>3, <2>1, <2>2, <2>4 DEF FinishPut, UploadsTypeOK
<1>4. ASSUME NEW f \in Files, RefusePut(f) PROVE UploadsTypeOK'
  <2>1. AfterFailure(f, try[f] + 1) /\ try[f] + 1 \in 0..MaxAttempts
    BY <1>0, <1>4, ConstAssumption DEF RefusePut, UploadsTypeOK
  <2>2. upload' \in [Files -> Uploads] /\ try' \in [Files -> 0..MaxAttempts]
    BY <1>0, <2>1, FailureType
  <2>3. QED
    BY <1>0, <1>4, <2>2 DEF RefusePut, UploadsTypeOK
<1>5. ASSUME NEW f \in Files, BreakPut(f) PROVE UploadsTypeOK'
  <2>1. PICK b \in Bytes : WriteOpen(f, b)
    BY <1>5, Names DEF BreakPut
  <2>2. json' \in [Files -> [Places -> Bytes]] /\ media' \in [Files -> Bytes]
    BY <1>0, <2>1, WriteType
  <2>3. try[f] \in 0..MaxAttempts
    BY <1>0 DEF UploadsTypeOK
  <2>4. upload' \in [Files -> Uploads] /\ try' \in [Files -> 0..MaxAttempts]
    BY <1>0, <1>5, <2>3, FailureType DEF BreakPut
  <2>5. QED
    BY <1>0, <1>5, <2>2, <2>4 DEF BreakPut, UploadsTypeOK
<1>6. ASSUME KillApp PROVE UploadsTypeOK'
  BY <1>0, <1>6, Names DEF KillApp, UploadsTypeOK
<1>7. ASSUME PutSheet PROVE UploadsTypeOK'
  BY <1>0, <1>7 DEF PutSheet, UploadsTypeOK, phoneVars
<1>8. QED
  BY <1>1, <1>2, <1>3, <1>4, <1>5, <1>6, <1>7 DEF Phone

-----------------------------------------------------------------------------
(* The names a runner's steps go by.                                        *)
LEMMA StepNames ==
    /\ "idle" \in Steps \ Busy /\ "list" \in Steps \ Busy /\ "scan" \in Steps \ Busy /\ "next" \in Steps \ Busy
    /\ "read" \in Busy /\ "bad" \in Busy /\ "invalid" \in Busy /\ "find" \in Busy
    /\ "open" \in Busy /\ "copy" \in Busy /\ "select" \in Busy /\ "upsert" \in Busy
    /\ "append" \in Busy /\ "unlink" \in Busy /\ "sweep" \in Busy
    /\ Busy \subseteq Steps
  BY DEF Steps, Busy

(* A runner that goes from step to step with its file keeps the types.      *)
LEMMA GotoType ==
    ASSUME RunnersTypeOK, NEW r \in Runners, NEW s \in Steps, Goto(r, s),
           UNCHANGED cur,
           s \in Busy => cur[r] \in Files,
           todoIn' \in [Runners -> SUBSET Files],
           todoProc' \in [Runners -> SUBSET Files],
           found' \in [Runners -> Bytes],
           prev' \in [Runners -> Files \cup {None, NoRow}]
    PROVE  RunnersTypeOK'
<1>1. pc' \in [Runners -> Steps]
  BY DEF RunnersTypeOK, Goto
<1>2. ASSUME NEW q \in Runners, pc'[q] \in Busy PROVE cur'[q] \in Files
  BY <1>2 DEF RunnersTypeOK, Goto
<1>3. QED
  BY <1>1, <1>2 DEF RunnersTypeOK

(* Dropping the file, at the end of consume_one or of the pass, is typed.   *)
LEMMA DropType ==
    ASSUME RunnersTypeOK, NEW r \in Runners, EndOfPass(r) \/ NextFile(r)
    PROVE  RunnersTypeOK'
<1>1. pc' \in [Runners -> Steps]
  BY StepNames DEF RunnersTypeOK, EndOfPass, NextFile, Goto
<1>2. cur' \in [Runners -> Files \cup {None}]
  BY DEF RunnersTypeOK, EndOfPass, NextFile
<1>3. todoIn' \in [Runners -> SUBSET Files] /\ todoProc' \in [Runners -> SUBSET Files]
  BY DEF RunnersTypeOK, EndOfPass, NextFile
<1>4. found' \in [Runners -> Bytes]
  BY Names DEF RunnersTypeOK, EndOfPass, NextFile
<1>5. prev' \in [Runners -> Files \cup {None, NoRow}]
  BY DEF RunnersTypeOK, EndOfPass, NextFile
<1>6. ASSUME NEW q \in Runners, pc'[q] \in Busy PROVE cur'[q] \in Files
  BY <1>6, StepNames DEF RunnersTypeOK, EndOfPass, NextFile, Goto
<1>7. QED
  BY <1>1, <1>2, <1>3, <1>4, <1>5, <1>6 DEF RunnersTypeOK

(* Claim: a skipped path changes one list, a claimed one also the json.     *)
LEMMA ClaimType ==
    ASSUME TypeOK, NEW r \in Runners, Claim(r)
    PROVE  UploadsTypeOK' /\ RunnersTypeOK'
<1>0. UploadsTypeOK /\ RunnersTypeOK
  BY DEF TypeOK
<1>1. PICK src \in {"inbox", "processing"}, f \in todoIn[r] \cup todoProc[r] :
        /\ IF src = "inbox"
             THEN todoIn' = [todoIn EXCEPT ![r] = @ \ {f}] /\ UNCHANGED todoProc
             ELSE todoProc' = [todoProc EXCEPT ![r] = @ \ {f}] /\ UNCHANGED todoIn
        /\ IF json[f][src] = "none"
             THEN UNCHANGED <<json, handle, pc, cur>>
             ELSE /\ Rename(f, src, "processing")
                  /\ Goto(r, "read")
                  /\ cur' = [cur EXCEPT ![r] = f]
  BY DEF Claim, SkipPath
<1>2. f \in Files
  BY <1>0 DEF RunnersTypeOK
<1>3. todoIn' \in [Runners -> SUBSET Files] /\ todoProc' \in [Runners -> SUBSET Files]
  BY <1>0, <1>1 DEF RunnersTypeOK
<1>4. UNCHANGED <<upload, try, media, found, prev>>
  BY DEF Claim, SkipPath
<1>5. CASE UNCHANGED <<json, handle, pc, cur>>
  BY <1>0, <1>3, <1>4, <1>5 DEF UploadsTypeOK, RunnersTypeOK
<1>6. CASE Rename(f, src, "processing") /\ Goto(r, "read") /\ cur' = [cur EXCEPT ![r] = f]
  <2>1. /\ json' \in [Files -> [Places -> Bytes]]
        /\ handle' \in [Files -> Places \cup {"closed", "gone"}]
    BY <1>0, <1>2, <1>6, RenameType, Names
  <2>2. pc' \in [Runners -> Steps] /\ cur' \in [Runners -> Files \cup {None}]
    BY <1>0, <1>2, <1>6, StepNames DEF RunnersTypeOK, Goto
  <2>3. ASSUME NEW q \in Runners, pc'[q] \in Busy PROVE cur'[q] \in Files
    BY <1>0, <1>2, <1>6, <2>3 DEF RunnersTypeOK, Goto
  <2>4. QED
    BY <1>0, <1>3, <1>4, <2>1, <2>2, <2>3 DEF UploadsTypeOK, RunnersTypeOK
<1>7. QED
  BY <1>1, <1>5, <1>6

(* One more line keeps the type of a log.                                   *)
LEMMA AppendType ==
    ASSUME NEW S, NEW s \in Seq(S), NEW x \in S
    PROVE  Append(s, x) \in Seq(S)
  OBVIOUS

(* Every step of a runner keeps the types.                                  *)
LEMMA PassType ==
    ASSUME TypeOK, NEW r \in Runners, Pass(r) \/ ReadFails(r)
    PROVE  UploadsTypeOK' /\ StoreTypeOK' /\ RunnersTypeOK'
<1>0. UploadsTypeOK /\ StoreTypeOK /\ RunnersTypeOK
  BY DEF TypeOK
<1>r. /\ todoIn \in [Runners -> SUBSET Files] /\ todoProc \in [Runners -> SUBSET Files]
      /\ found \in [Runners -> Bytes] /\ prev \in [Runners -> Files \cup {None, NoRow}]
      /\ pc[r] \in Busy => cur[r] \in Files
  BY <1>0 DEF RunnersTypeOK
<1>n. CASE ReadNames(r)
  <2>1. RunnersTypeOK'
    BY <1>0, <1>r, <1>n, GotoType, StepNames DEF ReadNames
  <2>2. QED
    BY <1>n, <2>1, FrameType DEF ReadNames, phoneVars, storeVars
<1>1. CASE ScanInbox(r)
  <2>1. todoIn' \in [Runners -> SUBSET Files]
    BY <1>r, <1>1 DEF ScanInbox
  <2>2. RunnersTypeOK'
    BY <1>0, <1>r, <1>1, <2>1, GotoType, StepNames DEF ScanInbox
  <2>3. QED
    BY <1>1, <2>2, FrameType DEF ReadNames, ScanInbox, phoneVars, storeVars
<1>2. CASE ScanProcessing(r)
  <2>1. todoProc' \in [Runners -> SUBSET Files]
    BY <1>r, <1>2 DEF ScanProcessing
  <2>2. RunnersTypeOK'
    BY <1>0, <1>r, <1>2, <2>1, GotoType, StepNames DEF ScanProcessing
  <2>3. QED
    BY <1>2, <2>2, FrameType DEF ScanProcessing, phoneVars, storeVars
<1>3. CASE Claim(r)
  <2>1. UNCHANGED <<body, row, log>>
    BY <1>3 DEF Claim, SkipPath, storeVars
  <2>2. QED
    BY <1>3, <2>1, ClaimType, FrameType
<1>4. CASE FinishPass(r) \/ ClaimGone(r) \/ MediaGone(r) \/ RefuseRow(r)
  <2>1. EndOfPass(r) /\ UNCHANGED <<upload, try, handle, json, media, body, row, log>>
    BY <1>4 DEF FinishPass, ClaimGone, MediaGone, RefuseRow, phoneVars, storeVars
  <2>2. QED
    BY <1>0, <2>1, DropType, FrameType
<1>5. CASE Read(r)
  <2>1. PICK s \in {"find", "invalid", "bad"} : Goto(r, s) /\ pc[r] = "read"
    BY <1>5 DEF Read
  <2>2. RunnersTypeOK'
    BY <1>0, <1>r, <1>5, <2>1, GotoType, StepNames DEF Read
  <2>3. QED
    BY <1>5, <2>2, FrameType DEF Read, phoneVars, storeVars
<1>6. CASE PutBack(r) \/ RejectStale(r) \/ RejectInvalid(r) \/ ReadFails(r)
  <2>1. PICK dst \in {"inbox", "failed"} : Rename(cur[r], "processing", dst)
    BY <1>6 DEF PutBack, RejectStale, RejectInvalid, ReadFails
  <2>2. /\ cur[r] \in Files /\ NextFile(r)
        /\ UNCHANGED <<upload, try, media, body, row, log>>
    BY <1>r, <1>6, StepNames DEF PutBack, RejectStale, RejectInvalid, ReadFails, storeVars
  <2>3. /\ json' \in [Files -> [Places -> Bytes]]
        /\ handle' \in [Files -> Places \cup {"closed", "gone"}]
    BY <1>0, <2>1, <2>2, RenameType, Names
  <2>4. UploadsTypeOK'
    BY <1>0, <2>2, <2>3 DEF UploadsTypeOK
  <2>5. QED
    BY <1>0, <2>2, <2>4, DropType, FrameType
<1>7. CASE FindMedia(r)
  <2>1. PICK s \in {"select", "open"} : Goto(r, s) /\ pc[r] = "find"
    BY <1>7 DEF FindMedia
  <2>2. found' \in [Runners -> Bytes]
    BY <1>0, <1>r, <1>7, StepNames DEF FindMedia, UploadsTypeOK
  <2>3. RunnersTypeOK'
    BY <1>0, <1>r, <1>7, <2>1, <2>2, GotoType, StepNames DEF FindMedia
  <2>4. QED
    BY <1>7, <2>3, FrameType DEF FindMedia, phoneVars, storeVars
<1>8. CASE OpenCopy(r) \/ FinishCopy(r)
  <2>1. PICK s \in {"select", "copy"} : Goto(r, s) /\ pc[r] \in Busy
    BY <1>8, StepNames DEF OpenCopy, FinishCopy
  <2>2. UNCHANGED <<upload, try, handle, json, media, row, log,
                    cur, todoIn, todoProc, found, prev>>
    BY <1>8 DEF OpenCopy, FinishCopy, phoneVars
  <2>3. RunnersTypeOK'
    BY <1>0, <1>r, <2>1, <2>2, GotoType, StepNames
  <2>4. found[r] \in Bytes
    BY <1>r
  <2>5. body' \in [Files -> Bytes]
    BY <1>0, <1>8, <2>4, Names DEF OpenCopy, FinishCopy, StoreTypeOK
  <2>6. StoreTypeOK'
    BY <1>0, <2>2, <2>5 DEF StoreTypeOK
  <2>7. QED
    BY <2>2, <2>3, <2>6, FrameType
<1>9. CASE SelectPrev(r)
  <2>1. pc[r] = "select" /\ cur[r] \in Files
    BY <1>r, <1>9, StepNames DEF SelectPrev
  <2>2. row[Msg[cur[r]]] \in Files \cup {None, NoRow}
    BY <1>0, <2>1, ConstAssumption DEF StoreTypeOK
  <2>3. prev' \in [Runners -> Files \cup {None, NoRow}]
    BY <1>r, <1>9, <2>2 DEF SelectPrev
  <2>4. RunnersTypeOK'
    BY <1>0, <1>r, <1>9, <2>1, <2>3, GotoType, StepNames DEF SelectPrev
  <2>5. QED
    BY <1>9, <2>4, FrameType DEF SelectPrev, phoneVars, storeVars
<1>10. CASE Upsert(r) \/ AppendLog(r)
  <2>1. PICK s \in {"append", "unlink"} : Goto(r, s)
    BY <1>10 DEF Upsert, AppendLog
  <2>2. pc[r] \in Busy /\ cur[r] \in Files /\ Msg[cur[r]] \in Msgs
    BY <1>r, <1>10, StepNames, ConstAssumption DEF Upsert, AppendLog
  <2>3. UNCHANGED <<upload, try, handle, json, media, body, cur, todoIn, todoProc, found, prev>>
    BY <1>10 DEF Upsert, AppendLog, phoneVars
  <2>4. RunnersTypeOK'
    BY <1>0, <1>r, <2>1, <2>2, <2>3, GotoType, StepNames
  <2>5. MediaPath(r) \in Files \cup {None}
    BY <2>2 DEF MediaPath
  <2>6. row' \in [Msgs -> Files \cup {None, NoRow}]
    BY <1>0, <1>10, <2>2, <2>5 DEF Upsert, AppendLog, Upserted, StoreTypeOK
  <2>7. log' \in [Msgs -> Seq(Files \cup {None})]
    <3> DEFINE lines == Append(log[Msg[cur[r]]], MediaPath(r))
    <3>1. log[Msg[cur[r]]] \in Seq(Files \cup {None})
      BY <1>0, <2>2 DEF StoreTypeOK
    <3>2. lines \in Seq(Files \cup {None})
      BY <2>5, <3>1, AppendType
    <3>3. UNCHANGED log \/ log' = [log EXCEPT ![Msg[cur[r]]] = lines]
      BY <1>10 DEF Upsert, AppendLog
    <3> HIDE DEF lines
    <3>4. QED
      BY <1>0, <3>2, <3>3 DEF StoreTypeOK
  <2>8. StoreTypeOK'
    BY <1>0, <2>3, <2>6, <2>7 DEF StoreTypeOK
  <2>9. QED
    BY <2>3, <2>4, <2>8, FrameType
<1>11. CASE UnlinkJson(r)
  <2>1. cur[r] \in Files /\ pc[r] \in Busy
    BY <1>r, <1>11, StepNames DEF UnlinkJson
  <2>2. UNCHANGED <<upload, try, media, body, row, log>>
    BY <1>11 DEF UnlinkJson, storeVars
  <2>3. handle' \in [Files -> Places \cup {"closed", "gone"}]
    BY <1>0, <1>11, <2>1 DEF UnlinkJson, UnlinkClaim, UploadsTypeOK
  <2>4. json' \in [Files -> [Places -> Bytes]]
    <3> DEFINE after == [json[cur[r]] EXCEPT !["processing"] = "none"]
    <3>1. after \in [Places -> Bytes]
      BY <1>0, <2>1, Names DEF UploadsTypeOK
    <3>2. json' = [json EXCEPT ![cur[r]] = after]
      BY <1>11 DEF UnlinkJson, UnlinkClaim
    <3> HIDE DEF after
    <3>3. QED
      BY <1>0, <2>1, <3>1, <3>2, JsonType
  <2>5. UploadsTypeOK'
    BY <1>0, <2>2, <2>3, <2>4 DEF UploadsTypeOK
  <2>6. CASE Goto(r, "sweep") /\ UNCHANGED <<cur, todoIn, todoProc, found, prev>>
    <3>1. RunnersTypeOK'
      BY <1>0, <1>r, <2>1, <2>6, GotoType, StepNames
    <3>2. QED
      BY <2>2, <2>5, <3>1, FrameType
  <2>7. CASE NextFile(r)
    BY <1>0, <2>2, <2>5, <2>7, DropType, FrameType
  <2>8. QED
    BY <1>11, <2>6, <2>7 DEF UnlinkJson
<1>12. CASE UnlinkMedia(r)
  <2>1. cur[r] \in Files /\ NextFile(r)
    BY <1>r, <1>12, StepNames DEF UnlinkMedia
  <2>2. UNCHANGED <<upload, try, handle, json, body, row, log>>
    BY <1>12 DEF UnlinkMedia, phoneVars, storeVars
  <2>3. media' \in [Files -> Bytes]
    BY <1>0, <1>12, Names DEF UnlinkMedia, UploadsTypeOK
  <2>4. UploadsTypeOK'
    BY <1>0, <2>2, <2>3 DEF UploadsTypeOK
  <2>5. QED
    BY <1>0, <2>1, <2>2, <2>4, DropType, FrameType
<1>13. QED
  BY <1>1, <1>2, <1>3, <1>4, <1>5, <1>6, <1>7, <1>8, <1>9, <1>10, <1>11, <1>12,
     <1>n DEF Pass

(* Type correctness: every reachable state has the types of TypeOK.         *)
THEOREM TypeCorrect == Spec => []TypeOK
<1>1. Init => TypeOK
  <2> SUFFICES ASSUME Init PROVE TypeOK
    OBVIOUS
  <2>1. UploadsTypeOK
    <3>1. Nowhere \in [Places -> Bytes]
      BY Names DEF Nowhere
    <3>2. 0 \in 0..MaxAttempts
      BY ConstAssumption
    <3>3. QED
      BY <3>1, <3>2, Names DEF Init, UploadsTypeOK
  <2>2. StoreTypeOK
    BY Names DEF Init, StoreTypeOK
  <2>3. RunnersTypeOK
    BY Names, StepNames DEF Init, RunnersTypeOK
  <2>4. SidesTypeOK
    <3>1. 0 \in 0..MaxFaults /\ 0 \in 0..MaxSheets
      BY ConstAssumption
    <3>2. QED
      BY <3>1 DEF Init, SidesTypeOK
  <2>5. QED
    BY <2>1, <2>2, <2>3, <2>4 DEF TypeOK
<1>2. TypeOK /\ [Next]_vars => TypeOK'
  <2> SUFFICES ASSUME TypeOK, [Next]_vars PROVE TypeOK'
    OBVIOUS
  <2>1. CASE Phone
    <3>1. UNCHANGED <<body, row, log, pc, cur, todoIn, todoProc, found, prev>>
      BY <2>1 DEF Phone, StartUpload, OpenPut, FinishPut, RefusePut, BreakPut, PutSheet,
                  KillApp, storeVars, runnerVars
    <3>2. UNCHANGED sideVars \/ PutSheet
      BY <2>1 DEF Phone, StartUpload, OpenPut, FinishPut, RefusePut, BreakPut, KillApp
    <3>3. SidesTypeOK'
      <4>1. faults' = faults /\ unread' = unread
        BY <3>2 DEF sideVars, PutSheet
      <4>2. sheets' \in 0..MaxSheets
        BY <3>2, ConstAssumption DEF TypeOK, SidesTypeOK, sideVars, PutSheet
      <4>3. cutSheet' \in BOOLEAN
        BY <3>2 DEF TypeOK, SidesTypeOK, sideVars, PutSheet
      <4>4. QED
        BY <4>1, <4>2, <4>3 DEF TypeOK, SidesTypeOK
    <3>4. QED
      BY <2>1, <3>1, <3>3, PhoneType, FrameType DEF TypeOK, runnerVars
  <2>2. ASSUME NEW r \in Runners, Pass(r) \/ ReadFails(r) PROVE TypeOK'
    <3>1. UNCHANGED sideVars \/ ReadFails(r)
      BY <2>2 DEF Pass, ReadNames, ScanInbox, ScanProcessing, Claim, SkipPath, FinishPass, Read, PutBack,
                  RejectStale, RejectInvalid, ClaimGone, FindMedia, OpenCopy, MediaGone, RefuseRow,
                  FinishCopy, SelectPrev, Upsert, AppendLog, UnlinkJson, UnlinkMedia
    <3>2. ReadFails(r) => cur[r] \in Files
      BY StepNames DEF ReadFails, TypeOK, RunnersTypeOK
    <3>3. SidesTypeOK'
      BY <3>1, <3>2, ConstAssumption DEF TypeOK, SidesTypeOK, sideVars, ReadFails
    <3>4. QED
      BY <2>2, <3>3, PassType DEF TypeOK
  <2>3. ASSUME NEW r \in Runners, Fault(r) PROVE TypeOK'
    <3>1. EndOfPass(r) /\ UNCHANGED <<upload, try, handle, json, media, body, row, log>>
      BY <2>3 DEF Fault, phoneVars, storeVars
    <3>2. SidesTypeOK'
      BY <2>3, ConstAssumption DEF Fault, TypeOK, SidesTypeOK
    <3>3. RunnersTypeOK'
      BY <3>1, DropType DEF TypeOK
    <3>4. QED
      BY <3>1, <3>2, <3>3, FrameType DEF TypeOK
  <2>4. CASE UNCHANGED vars
    BY <2>4, FrameType DEF TypeOK, SidesTypeOK, vars, runnerVars
  <2>5. QED
    BY <2>1, <2>2, <2>3, <2>4 DEF Next, Consumers
<1>3. QED
  BY <1>1, <1>2, PTL DEF Spec

-----------------------------------------------------------------------------
(* The argument that a first put is kept.  Of every upload: until its json  *)
(* is first opened it has none; while its json was opened at most once it   *)
(* has one copy at most, so that no rename can overwrite it; and the copy   *)
(* the phone has open exists, unless a runner unlinked it, which a runner   *)
(* does only after its upsert (DoneIndexed).                                *)

JsonUnopened(f) == upload[f] \in {"queued", "media"} \/ (upload[f] = "json" /\ try[f] = 0)

KeepFile(f) ==
    /\ handle[f] # "closed" => Sending(f) /\ try[f] # 0
    /\ JsonUnopened(f) => json[f] = Nowhere
    /\ upload[f] = "json" /\ handle[f] \in Places => json[f][handle[f]] # "none"
    /\ try[f] <= 1 =>
          \A p, q \in Places : json[f][p] # "none" /\ json[f][q] # "none" => p = q
    /\ upload[f] = "json" /\ try[f] = 1 /\ handle[f] = "gone" => Indexed(Msg[f])
    /\ f \in Valid /\ upload[f] = "acked" /\ try[f] = 1 =>
          Indexed(Msg[f]) \/ \E p \in Places : json[f][p] = "complete"

DoneIndexed ==
    \A r \in Runners : pc[r] \in {"append", "unlink", "sweep"} => Indexed(Msg[cur[r]])

KeepInv == DoneIndexed /\ \A f \in Files : KeepFile(f)

(* What one step of a runner can do to the uploads: move a json that is     *)
(* there, or unlink the one it has finished with.  Rows do not go away.     *)
LEMMA PassEffect ==
    ASSUME TypeOK, NEW r \in Runners, Pass(r) \/ ReadFails(r)
    PROVE  /\ UNCHANGED <<upload, try>>
           /\ \/ UNCHANGED <<json, handle>>
              \/ \E f \in Files, src \in {"inbox", "processing"}, dst \in Places :
                    json[f][src] # "none" /\ Rename(f, src, dst)
              \/ pc[r] = "unlink" /\ UnlinkClaim(cur[r])
           /\ \A m \in Msgs : Indexed(m) => row'[m] # NoRow
<1>0. /\ pc[r] \in Busy => cur[r] \in Files
      /\ todoIn[r] \subseteq Files /\ todoProc[r] \subseteq Files
      /\ row \in [Msgs -> Files \cup {None, NoRow}]
  BY DEF TypeOK, RunnersTypeOK, StoreTypeOK
<1>1. CASE UNCHANGED <<upload, try, json, handle, row>>
  BY <1>1 DEF Indexed
<1>2. CASE Claim(r)
  <2>1. UNCHANGED <<upload, try, row>>
    BY <1>2 DEF Claim, SkipPath, storeVars
  <2>2. PICK src \in {"inbox", "processing"}, f \in todoIn[r] \cup todoProc[r] :
          IF json[f][src] = "none" THEN UNCHANGED <<json, handle, pc, cur>>
                                   ELSE Rename(f, src, "processing")
    BY <1>2 DEF Claim, SkipPath
  <2>3. f \in Files /\ "processing" \in Places
    BY <1>0, Names
  <2>4. QED
    BY <2>1, <2>2, <2>3 DEF Indexed
<1>3. CASE PutBack(r) \/ RejectStale(r) \/ RejectInvalid(r) \/ ReadFails(r)
  <2>1. UNCHANGED <<upload, try, row>>
    BY <1>3 DEF PutBack, RejectStale, RejectInvalid, ReadFails, storeVars
  <2>2. cur[r] \in Files /\ json[cur[r]]["processing"] # "none"
    BY <1>0, <1>3, StepNames DEF PutBack, RejectStale, RejectInvalid, ReadFails
  <2>3. PICK dst \in {"inbox", "failed"} : Rename(cur[r], "processing", dst)
    BY <1>3 DEF PutBack, RejectStale, RejectInvalid, ReadFails
  <2>4. QED
    BY <2>1, <2>2, <2>3, Names DEF Indexed
<1>4. CASE Upsert(r)
  <2>1. UNCHANGED <<upload, try, json, handle>>
    BY <1>4 DEF Upsert, phoneVars
  <2>2. cur[r] \in Files /\ Msg[cur[r]] \in Msgs
    BY <1>0, <1>4, StepNames, ConstAssumption DEF Upsert
  <2>3. MediaPath(r) # NoRow
    BY <2>2, ConstAssumption DEF MediaPath
  <2>4. ASSUME NEW m \in Msgs, row[m] # NoRow PROVE row'[m] # NoRow
    BY <1>0, <1>4, <2>2, <2>3, <2>4 DEF Upsert, Upserted
  <2>5. QED
    BY <2>1, <2>4 DEF Indexed
<1>5. CASE UnlinkJson(r)
  BY <1>5 DEF UnlinkJson, Indexed, storeVars
<1>6. QED
  <2>1. CASE \/ ReadNames(r) \/ ScanInbox(r) \/ ScanProcessing(r) \/ FinishPass(r) \/ Read(r)
             \/ ClaimGone(r) \/ FindMedia(r) \/ OpenCopy(r) \/ MediaGone(r) \/ RefuseRow(r)
    BY <1>1, <2>1 DEF ReadNames, ScanInbox, ScanProcessing, FinishPass, Read, ClaimGone,
                      FindMedia, OpenCopy, MediaGone, RefuseRow, phoneVars, storeVars
  <2>2. CASE FinishCopy(r) \/ SelectPrev(r) \/ AppendLog(r) \/ UnlinkMedia(r)
    BY <1>1, <2>2 DEF FinishCopy, SelectPrev, AppendLog, UnlinkMedia, phoneVars, storeVars
  <2>3. QED
    BY <1>2, <1>3, <1>4, <1>5, <2>1, <2>2 DEF Pass

(* A runner's step leaves the others' locals alone.                         *)
LEMMA PassOthers ==
    ASSUME TypeOK, NEW r \in Runners, Pass(r) \/ ReadFails(r) \/ Fault(r), NEW q \in Runners, q # r
    PROVE  pc'[q] = pc[q] /\ cur'[q] = cur[q] /\ found'[q] = found[q] /\ prev'[q] = prev[q]
<1> USE DEF TypeOK, RunnersTypeOK, Goto, EndOfPass, NextFile
<1>1. CASE ReadNames(r) \/ ScanInbox(r) \/ ScanProcessing(r) \/ FinishPass(r) \/ Read(r) \/ ClaimGone(r)
  BY <1>1 DEF ReadNames, ScanInbox, ScanProcessing, FinishPass, Read, ClaimGone
<1>2. CASE Claim(r) \/ PutBack(r) \/ RejectStale(r) \/ RejectInvalid(r) \/ ReadFails(r) \/ Fault(r)
  BY <1>2 DEF Claim, SkipPath, PutBack, RejectStale, RejectInvalid, ReadFails, Fault
<1>3. CASE FindMedia(r) \/ OpenCopy(r) \/ MediaGone(r) \/ RefuseRow(r) \/ FinishCopy(r) \/ SelectPrev(r)
  BY <1>3 DEF FindMedia, OpenCopy, MediaGone, RefuseRow, FinishCopy, SelectPrev
<1>4. CASE Upsert(r) \/ AppendLog(r) \/ UnlinkJson(r) \/ UnlinkMedia(r)
  BY <1>4 DEF Upsert, AppendLog, UnlinkJson, UnlinkMedia
<1>5. QED
  BY <1>1, <1>2, <1>3, <1>4 DEF Pass

(* A runner reaches the steps after the upsert through the upsert only.     *)
LEMMA PassDone ==
    ASSUME TypeOK, NEW r \in Runners, Pass(r) \/ ReadFails(r), pc'[r] \in {"append", "unlink", "sweep"}
    PROVE  /\ cur'[r] = cur[r]
           /\ \/ pc[r] \in {"append", "unlink", "sweep"}
              \/ Upsert(r)
<1> USE DEF TypeOK, RunnersTypeOK, Goto, EndOfPass, NextFile
<1>1. CASE ReadNames(r) \/ ScanInbox(r) \/ ScanProcessing(r) \/ FinishPass(r) \/ Read(r) \/ ClaimGone(r)
  BY <1>1 DEF ReadNames, ScanInbox, ScanProcessing, FinishPass, Read, ClaimGone
<1>2. CASE Claim(r)
  BY <1>2 DEF Claim, SkipPath
<1>3. CASE PutBack(r) \/ RejectStale(r) \/ RejectInvalid(r) \/ ReadFails(r)
  BY <1>3 DEF PutBack, RejectStale, RejectInvalid, ReadFails
<1>4. CASE FindMedia(r) \/ OpenCopy(r) \/ MediaGone(r) \/ RefuseRow(r) \/ FinishCopy(r) \/ SelectPrev(r)
  BY <1>4 DEF FindMedia, OpenCopy, MediaGone, RefuseRow, FinishCopy, SelectPrev
<1>5. CASE Upsert(r) \/ AppendLog(r) \/ UnlinkJson(r) \/ UnlinkMedia(r)
  BY <1>5 DEF Upsert, AppendLog, UnlinkJson, UnlinkMedia
<1>6. QED
  BY <1>1, <1>2, <1>3, <1>4, <1>5 DEF Pass

(* The upsert gives the message a row, whatever stood there.                *)
LEMMA UpsertIndexes ==
    ASSUME TypeOK, NEW r \in Runners, Upsert(r)
    PROVE  row'[Msg[cur[r]]] # NoRow
<1>1. cur[r] \in Files /\ Msg[cur[r]] \in Msgs
  BY StepNames, ConstAssumption DEF Upsert, TypeOK, RunnersTypeOK
<1>2. MediaPath(r) # NoRow
  BY <1>1, ConstAssumption DEF MediaPath
<1>3. QED
  BY <1>1, <1>2 DEF Upsert, Upserted, TypeOK, StoreTypeOK

LEMMA DoneStep ==
    ASSUME TypeOK, DoneIndexed, NEW r \in Runners, Pass(r) \/ ReadFails(r) \/ Fault(r)
    PROVE  DoneIndexed'
<1> SUFFICES ASSUME NEW q \in Runners, pc'[q] \in {"append", "unlink", "sweep"}
             PROVE  row'[Msg[cur'[q]]] # NoRow
  BY DEF DoneIndexed, Indexed
<1>1. CASE q # r
  <2>1. pc[q] \in {"append", "unlink", "sweep"} /\ cur'[q] = cur[q]
    BY <1>1, PassOthers
  <2>2. Msg[cur[q]] \in Msgs /\ row[Msg[cur[q]]] # NoRow
    BY <2>1, StepNames, ConstAssumption DEF DoneIndexed, Indexed, TypeOK, RunnersTypeOK
  <2>3. CASE Pass(r) \/ ReadFails(r)
    BY <2>1, <2>2, <2>3, PassEffect DEF Indexed
  <2>4. CASE Fault(r)
    BY <2>1, <2>2, <2>4 DEF Fault, storeVars
  <2>5. QED
    BY <2>3, <2>4
<1>2. CASE q = r /\ (Pass(r) \/ ReadFails(r))
  <2>1. CASE Upsert(r)
    BY <1>2, <2>1, PassDone, UpsertIndexes
  <2>2. CASE pc[r] \in {"append", "unlink", "sweep"}
    <3>1. cur'[r] = cur[r]
      BY <1>2, PassDone
    <3>2. Msg[cur[r]] \in Msgs /\ row[Msg[cur[r]]] # NoRow
      BY <2>2, StepNames, ConstAssumption DEF DoneIndexed, Indexed, TypeOK, RunnersTypeOK
    <3>3. QED
      BY <1>2, <3>1, <3>2, PassEffect DEF Indexed
  <2>3. QED
    BY <1>2, <2>1, <2>2, PassDone
<1>3. CASE q = r /\ Fault(r)
  BY <1>3 DEF Fault, EndOfPass, Goto, TypeOK, RunnersTypeOK
<1>4. QED
  BY <1>1, <1>2, <1>3

(* A step that does not touch an upload keeps what is known of it.          *)
LEMMA KeepFrame ==
    ASSUME NEW f \in Files, KeepFile(f),
           upload'[f] = upload[f], try'[f] = try[f],
           handle'[f] = handle[f], json'[f] = json[f],
           Indexed(Msg[f]) => row'[Msg[f]] # NoRow
    PROVE  KeepFile(f)'
  BY DEF KeepFile, Sending, JsonUnopened, Indexed

(* Renaming a json keeps it: with one copy there is nothing to overwrite.   *)
LEMMA RenameKeep ==
    ASSUME TypeOK, NEW f \in Files, KeepFile(f),
           NEW src \in Places, NEW dst \in Places,
           json[f][src] # "none", Rename(f, src, dst),
           UNCHANGED <<upload, try>>,
           Indexed(Msg[f]) => row'[Msg[f]] # NoRow
    PROVE  KeepFile(f)'
<1>1. /\ json'[f] = [p \in Places |-> IF p = dst THEN json[f][src]
                                      ELSE IF p = src THEN "none" ELSE json[f][p]]
      /\ handle[f] \in Places \cup {"closed", "gone"}
      /\ handle'[f] = IF upload[f] # "json" \/ src = dst \/ handle[f] \notin {src, dst}
                        THEN handle[f] ELSE IF handle[f] = src THEN dst ELSE "gone"
  BY DEF TypeOK, UploadsTypeOK, Rename
<1>2. ~JsonUnopened(f)
  BY DEF KeepFile, Nowhere
<1>3. (handle[f] # "closed" => Sending(f) /\ try[f] # 0)'
  <2>1. "closed" \notin Places
    BY DEF Places
  <2>2. handle'[f] # "closed" => handle[f] # "closed"
    BY <1>1, <2>1
  <2>3. upload'[f] = upload[f] /\ try'[f] = try[f]
    OBVIOUS
  <2>4. QED
    BY <2>2, <2>3 DEF KeepFile, Sending
<1>4. (upload[f] = "json" /\ handle[f] \in Places => json[f][handle[f]] # "none")'
  <2> SUFFICES ASSUME upload[f] = "json", handle'[f] \in Places
               PROVE  json'[f][handle'[f]] # "none"
    OBVIOUS
  <2>1. "gone" \notin Places
    BY DEF Places
  <2>2. CASE handle[f] = src
    BY <1>1, <2>2
  <2>3. CASE handle[f] # src
    <3>1. handle'[f] = handle[f] /\ json[f][handle[f]] # "none"
      BY <1>1, <2>1, <2>3 DEF KeepFile
    <3>2. QED
      BY <1>1, <2>3, <3>1
  <2>4. QED
    BY <2>2, <2>3
<1>5. (try[f] <= 1 =>
          \A p, q \in Places : json[f][p] # "none" /\ json[f][q] # "none" => p = q)'
  BY <1>1 DEF KeepFile
<1>6. (upload[f] = "json" /\ try[f] = 1 /\ handle[f] = "gone" => Indexed(Msg[f]))'
  <2> SUFFICES ASSUME upload[f] = "json", try[f] = 1, handle'[f] = "gone"
               PROVE  row'[Msg[f]] # NoRow
    BY DEF Indexed
  <2>1. CASE handle[f] = "gone"
    BY <2>1 DEF KeepFile
  <2>2. CASE handle[f] = dst /\ src # dst
    BY <2>2 DEF KeepFile
  <2>3. "gone" \notin Places
    BY DEF Places
  <2>4. QED
    BY <1>1, <2>1, <2>2, <2>3
<1>7. (f \in Valid /\ upload[f] = "acked" /\ try[f] = 1 =>
          Indexed(Msg[f]) \/ \E p \in Places : json[f][p] = "complete")'
  <2> SUFFICES ASSUME f \in Valid, upload[f] = "acked", try[f] = 1, row'[Msg[f]] = NoRow
               PROVE  \E p \in Places : json'[f][p] = "complete"
    BY DEF Indexed
  <2>1. PICK p \in Places : json[f][p] = "complete"
    BY DEF KeepFile
  <2>2. p = src
    BY <2>1 DEF KeepFile
  <2>3. json'[f][dst] = "complete"
    BY <1>1, <2>1, <2>2
  <2>4. QED
    BY <2>3
<1>8. QED
  BY <1>2, <1>3, <1>4, <1>5, <1>6, <1>7 DEF KeepFile, JsonUnopened

(* Unlinking a claimed json keeps what is known: the message is indexed.    *)
LEMMA UnlinkKeep ==
    ASSUME TypeOK, NEW f \in Files, KeepFile(f), UnlinkClaim(f),
           UNCHANGED <<upload, try, row>>, Indexed(Msg[f])
    PROVE  KeepFile(f)'
<1>1. /\ json'[f] = [json[f] EXCEPT !["processing"] = "none"]
      /\ json[f] \in [Places -> Bytes]
      /\ handle'[f] = IF upload[f] = "json" /\ handle[f] = "processing"
                        THEN "gone" ELSE handle[f]
  BY DEF TypeOK, UploadsTypeOK, UnlinkClaim
<1>2. \A p \in Places : json'[f][p] = IF p = "processing" THEN "none" ELSE json[f][p]
  BY <1>1
<1>3. JsonUnopened(f) => json'[f] = Nowhere
  BY <1>1 DEF KeepFile, Nowhere
<1>4. "gone" \notin Places
  BY DEF Places
<1>5. (upload[f] = "json" /\ handle[f] \in Places => json[f][handle[f]] # "none")'
  BY <1>1, <1>2, <1>4 DEF KeepFile
<1>6. (try[f] <= 1 =>
          \A p, q \in Places : json[f][p] # "none" /\ json[f][q] # "none" => p = q)'
  BY <1>2 DEF KeepFile
<1>7. QED
  BY <1>1, <1>3, <1>5, <1>6 DEF KeepFile, JsonUnopened, Sending, Indexed

(* What a write to the open file does to the json.                          *)
LEMMA WriteJson ==
    ASSUME TypeOK, NEW f \in Files, NEW b \in Bytes, WriteOpen(f, b)
    PROVE  /\ upload[f] = "media" => json'[f] = json[f]
           /\ upload[f] # "media" => \A p \in Places :
                 json'[f][p] = IF p = handle[f] THEN b ELSE json[f][p]
<1>1. CASE upload[f] = "media"
  BY <1>1 DEF WriteOpen
<1>2. CASE upload[f] # "media"
  <2>1. json' = [json EXCEPT ![f] = [p \in Places |-> IF p = handle[f] THEN b ELSE json[f][p]]]
    BY <1>2 DEF WriteOpen
  <2>2. json'[f] = [p \in Places |-> IF p = handle[f] THEN b ELSE json[f][p]]
    BY <2>1 DEF TypeOK, UploadsTypeOK
  <2>3. QED
    BY <1>2, <2>2
<1>3. QED
  BY <1>1, <1>2

(* What is known of an upload survives the phone's steps on it.             *)
LEMMA OpenKeep ==
    ASSUME TypeOK, NEW f \in Files, KeepFile(f), OpenPut(f)
    PROVE  KeepFile(f)'
<1>1. /\ upload'[f] = upload[f] /\ Sending(f) /\ row' = row
      /\ try[f] \in Nat /\ try'[f] = try[f] + 1
      /\ handle'[f] = "inbox"
      /\ json[f] \in [Places -> Bytes]
  BY ConstAssumption DEF OpenPut, storeVars, TypeOK, UploadsTypeOK
<1>2. CASE upload[f] = "media"
  <2>1. json' = json
    BY <1>2 DEF OpenPut
  <2>2. QED
    BY <1>1, <1>2, <2>1 DEF KeepFile, JsonUnopened, Sending
<1>3. CASE upload[f] = "json"
  <2>1. \A p \in Places : json'[f][p] = IF p = "inbox" THEN "partial" ELSE json[f][p]
    BY <1>1, <1>3 DEF OpenPut, TypeOK, UploadsTypeOK
  <2>2. ~JsonUnopened(f)'
    BY <1>1, <1>3 DEF JsonUnopened
  <2>3. try'[f] <= 1 => \A p \in Places : json[f][p] = "none"
    BY <1>1, <1>3 DEF KeepFile, JsonUnopened, Nowhere
  <2>4. QED
    BY <1>1, <1>3, <2>1, <2>2, <2>3, Names DEF KeepFile, Sending
<1>4. QED
  BY <1>1, <1>2, <1>3 DEF Sending

LEMMA FinishKeep ==
    ASSUME TypeOK, NEW f \in Files, KeepFile(f), FinishPut(f)
    PROVE  KeepFile(f)'
<1>1. /\ Sending(f) /\ handle[f] # "closed" /\ handle'[f] = "closed" /\ row' = row
      /\ handle[f] \in Places \cup {"closed", "gone"}
      /\ WriteOpen(f, "complete")
  BY DEF FinishPut, storeVars, TypeOK, UploadsTypeOK
<1>2. CASE upload[f] = "media"
  <2>1. upload'[f] = "json" /\ try'[f] = 0
    BY <1>2 DEF FinishPut, TypeOK, UploadsTypeOK
  <2>2. json'[f] = Nowhere
    BY <1>1, <1>2, WriteJson, Names DEF KeepFile, JsonUnopened
  <2>3. "closed" \notin Places
    BY DEF Places
  <2>4. QED
    BY <1>1, <2>1, <2>2, <2>3 DEF KeepFile, Nowhere, Sending
<1>3. CASE upload[f] = "json"
  <2>1. upload'[f] = "acked" /\ try'[f] = try[f]
    BY <1>3 DEF FinishPut, TypeOK, UploadsTypeOK
  <2>2. \A p \in Places : json'[f][p] = IF p = handle[f] THEN "complete" ELSE json[f][p]
    BY <1>1, <1>3, WriteJson, Names
  <2>3. (try[f] <= 1 =>
            \A p, q \in Places : json[f][p] # "none" /\ json[f][q] # "none" => p = q)'
    BY <1>3, <2>1, <2>2 DEF KeepFile
  <2>4. CASE handle[f] \in Places
    BY <1>1, <2>1, <2>2, <2>3, <2>4 DEF KeepFile, JsonUnopened, Sending
  <2>5. CASE handle[f] = "gone"
    BY <1>1, <1>3, <2>1, <2>3, <2>5 DEF KeepFile, JsonUnopened, Sending, Indexed
  <2>6. QED
    BY <1>1, <2>4, <2>5
<1>4. QED
  BY <1>1, <1>2, <1>3 DEF Sending

(* A failed attempt, whose json is as before or has bytes where it was.     *)
LEMMA FailureKeep ==
    ASSUME TypeOK, NEW f \in Files, KeepFile(f), Sending(f),
           NEW n \in 1..MaxAttempts, n = try[f] \/ n = try[f] + 1,
           AfterFailure(f, n), handle'[f] = "closed", row' = row,
           upload[f] = "media" => json'[f] = json[f],
           upload[f] = "json" =>
              \A p \in Places : json'[f][p] # "none" => json[f][p] # "none"
    PROVE  KeepFile(f)'
<1>1. /\ try[f] \in Nat /\ n \in Nat \ {0}
      /\ "closed" \notin Places
      /\ upload[f] \in {"media", "json"}
  BY ConstAssumption DEF TypeOK, UploadsTypeOK, Places, Sending
<1>2. CASE upload[f] = "media"
  <2>1. json'[f] = Nowhere
    BY <1>2 DEF KeepFile, JsonUnopened
  <2>2. upload'[f] \in {"media", "json"}
    BY <1>2 DEF AfterFailure, TypeOK, UploadsTypeOK
  <2>3. QED
    BY <2>1, <2>2, <1>1 DEF KeepFile, Nowhere, Sending
<1>3. CASE upload[f] = "json"
  <2>1. upload'[f] \in {"json", "local"} /\ try'[f] = n
    BY <1>3 DEF AfterFailure, TypeOK, UploadsTypeOK
  <2>2. n <= 1 => try[f] <= 1
    BY <1>1
  <2>3. ~JsonUnopened(f)'
    BY <1>1, <2>1 DEF JsonUnopened
  <2>4. QED
    BY <1>1, <1>3, <2>1, <2>2, <2>3 DEF KeepFile, Sending
<1>4. QED
  BY <1>1, <1>2, <1>3

LEMMA PhoneKeep ==
    ASSUME TypeOK, Phone, \A f \in Files : KeepFile(f)
    PROVE  \A f \in Files : KeepFile(f)'
<1> SUFFICES ASSUME NEW f \in Files PROVE KeepFile(f)'
  OBVIOUS
<1>0. KeepFile(f)
  OBVIOUS
<1>1. ASSUME NEW g \in Files, g # f,
             StartUpload(g) \/ OpenPut(g) \/ FinishPut(g) \/ RefusePut(g) \/ BreakPut(g)
      PROVE  KeepFile(f)'
  <2>1. upload'[f] = upload[f] /\ try'[f] = try[f] /\ handle'[f] = handle[f] /\ row' = row
    BY <1>1 DEF StartUpload, OpenPut, FinishPut, RefusePut, BreakPut, AfterFailure,
                storeVars, TypeOK, UploadsTypeOK
  <2>2. json'[f] = json[f]
    BY <1>1 DEF StartUpload, OpenPut, FinishPut, RefusePut, BreakPut, WriteOpen,
                TypeOK, UploadsTypeOK
  <2>3. QED
    BY <1>0, <2>1, <2>2, KeepFrame DEF Indexed
<1>2. CASE StartUpload(f)
  <2>1. /\ upload[f] = "queued" /\ upload'[f] \in {"media", "json"}
        /\ try' = try /\ handle' = handle /\ json' = json /\ row' = row
    BY <1>2 DEF StartUpload, storeVars, TypeOK, UploadsTypeOK
  <2>2. handle[f] = "closed" /\ json[f] = Nowhere /\ "closed" \notin Places
    BY <1>0, <2>1 DEF KeepFile, JsonUnopened, Sending, Places
  <2>3. QED
    BY <1>0, <2>1, <2>2 DEF KeepFile, Nowhere, Sending
<1>3. CASE OpenPut(f)
  BY <1>0, <1>3, OpenKeep
<1>4. CASE FinishPut(f)
  BY <1>0, <1>4, FinishKeep
<1>5. CASE RefusePut(f)
  <2>1. /\ Sending(f) /\ try[f] + 1 \in 1..MaxAttempts /\ AfterFailure(f, try[f] + 1)
        /\ handle'[f] = "closed" /\ row' = row /\ json' = json
    BY <1>5, ConstAssumption DEF RefusePut, storeVars, TypeOK, UploadsTypeOK
  <2>2. QED
    BY <1>0, <2>1, FailureKeep
<1>6. CASE BreakPut(f)
  <2>1. PICK b \in Bytes : WriteOpen(f, b)
    BY <1>6, Names DEF BreakPut
  <2>2. /\ Sending(f) /\ handle[f] # "closed" /\ AfterFailure(f, try[f])
        /\ handle'[f] = "closed" /\ row' = row
    BY <1>6 DEF BreakPut, storeVars, TypeOK, UploadsTypeOK
  <2>3. try[f] \in 1..MaxAttempts
    BY <1>0, <2>2, ConstAssumption DEF KeepFile, TypeOK, UploadsTypeOK
  <2>4. upload[f] = "media" => json'[f] = json[f]
    BY <2>1, WriteJson
  <2>5. upload[f] = "json" => \A p \in Places : json'[f][p] # "none" => json[f][p] # "none"
    BY <1>0, <2>1, WriteJson DEF KeepFile
  <2>6. QED
    BY <1>0, <2>2, <2>3, <2>4, <2>5, FailureKeep
<1>7. CASE KillApp
  <2>1. /\ try' = try /\ json' = json /\ row' = row /\ handle'[f] = "closed"
        /\ upload'[f] = IF upload[f] = "queued" \/ Sending(f) THEN "lost" ELSE upload[f]
    BY <1>7 DEF KillApp, storeVars
  <2>2. "closed" \notin Places
    BY DEF Places
  <2>3. QED
    BY <1>0, <2>1, <2>2 DEF KeepFile, JsonUnopened, Sending, Indexed
<1>8. CASE PutSheet
  <2>1. UNCHANGED <<upload, try, handle, json, row>>
    BY <1>8 DEF PutSheet, phoneVars, storeVars
  <2>2. QED
    BY <1>0, <2>1, KeepFrame DEF Indexed
<1>9. QED
  BY <1>1, <1>2, <1>3, <1>4, <1>5, <1>6, <1>7, <1>8 DEF Phone

(* What is known of every upload survives the runners' steps.               *)
LEMMA PassKeep ==
    ASSUME TypeOK, KeepInv, NEW r \in Runners, Pass(r) \/ ReadFails(r)
    PROVE  \A f \in Files : KeepFile(f)'
<1> SUFFICES ASSUME NEW f \in Files PROVE KeepFile(f)'
  OBVIOUS
<1>1. KeepFile(f) /\ Msg[f] \in Msgs
  BY ConstAssumption DEF KeepInv
<1>2. UNCHANGED <<upload, try>> /\ (Indexed(Msg[f]) => row'[Msg[f]] # NoRow)
  BY <1>1, PassEffect
<1>3. CASE UNCHANGED <<json, handle>>
  BY <1>1, <1>2, <1>3, KeepFrame
<1>4. ASSUME NEW g \in Files, NEW src \in {"inbox", "processing"}, NEW dst \in Places,
             json[g][src] # "none", Rename(g, src, dst)
      PROVE  KeepFile(f)'
  <2>1. CASE g = f
    BY <1>1, <1>2, <1>4, <2>1, RenameKeep, Names
  <2>2. CASE g # f
    <3>1. json'[f] = json[f] /\ handle'[f] = handle[f]
      BY <1>4, <2>2 DEF Rename, TypeOK, UploadsTypeOK
    <3>2. QED
      BY <1>1, <1>2, <3>1, KeepFrame
  <2>3. QED
    BY <2>1, <2>2
<1>5. CASE UnlinkJson(r)
  <2>1. cur[r] \in Files /\ UnlinkClaim(cur[r]) /\ row' = row /\ Indexed(Msg[cur[r]])
    BY <1>5, StepNames DEF UnlinkJson, storeVars, TypeOK, RunnersTypeOK, KeepInv, DoneIndexed
  <2>2. CASE cur[r] = f
    BY <1>1, <1>2, <2>1, <2>2, UnlinkKeep
  <2>3. CASE cur[r] # f
    <3>1. json'[f] = json[f] /\ handle'[f] = handle[f]
      BY <2>1, <2>3 DEF UnlinkClaim, TypeOK, UploadsTypeOK
    <3>2. QED
      BY <1>1, <1>2, <3>1, KeepFrame
  <2>4. QED
    BY <2>2, <2>3
<1>6. CASE pc[r] = "unlink" /\ UnlinkClaim(cur[r])
  <2>1. UnlinkJson(r)
    BY <1>6 DEF Pass, ReadNames, ScanInbox, ScanProcessing, Claim, SkipPath, FinishPass, Read, PutBack,
                RejectStale, RejectInvalid, ReadFails, ClaimGone, FindMedia, OpenCopy, MediaGone, RefuseRow,
                FinishCopy, SelectPrev, Upsert, AppendLog, UnlinkMedia
  <2>2. QED
    BY <1>5, <2>1
<1>7. QED
  BY <1>3, <1>4, <1>6, PassEffect

LEMMA KeepInvariant == Spec => []KeepInv
<1>1. Init => KeepInv
  <2> SUFFICES ASSUME Init PROVE KeepInv
    OBVIOUS
  <2>1. DoneIndexed
    BY DEF Init, DoneIndexed
  <2>2. ASSUME NEW f \in Files PROVE KeepFile(f)
    <3>1. /\ upload[f] = "queued" /\ try[f] = 0 /\ handle[f] = "closed"
          /\ json[f] = Nowhere
      BY DEF Init
    <3>2. \A p \in Places : json[f][p] = "none"
      BY <3>1 DEF Nowhere
    <3>3. QED
      BY <3>1, <3>2 DEF KeepFile, JsonUnopened, Sending
  <2>3. QED
    BY <2>1, <2>2 DEF KeepInv
<1>2. TypeOK /\ KeepInv /\ [Next]_vars => KeepInv'
  <2> SUFFICES ASSUME TypeOK, KeepInv, [Next]_vars PROVE KeepInv'
    OBVIOUS
  <2>1. CASE Phone
    <3>1. UNCHANGED <<row, pc, cur>>
      BY <2>1 DEF Phone, StartUpload, OpenPut, FinishPut, RefusePut, BreakPut, PutSheet, KillApp,
                  storeVars, runnerVars
    <3>2. DoneIndexed'
      BY <3>1 DEF KeepInv, DoneIndexed, Indexed
    <3>3. QED
      BY <2>1, <3>2, PhoneKeep DEF KeepInv
  <2>2. ASSUME NEW r \in Runners, Pass(r) \/ ReadFails(r) PROVE KeepInv'
    BY <2>2, PassKeep, DoneStep DEF KeepInv
  <2>3. ASSUME NEW r \in Runners, Fault(r) PROVE KeepInv'
    <3>1. UNCHANGED <<upload, try, handle, json, row>>
      BY <2>3 DEF Fault, phoneVars, storeVars
    <3>2. \A f \in Files : KeepFile(f)'
      BY <3>1, KeepFrame DEF KeepInv, Indexed
    <3>3. QED
      BY <2>3, <3>2, DoneStep DEF KeepInv
  <2>4. CASE UNCHANGED vars
    BY <2>4 DEF vars, KeepInv, KeepFile, DoneIndexed, Indexed, JsonUnopened, Sending
  <2>5. QED
    BY <2>1, <2>2, <2>3, <2>4 DEF Next, Consumers
<1>3. QED
  BY <1>1, <1>2, TypeCorrect, PTL DEF Spec

(* A valid event whose json was put at the first attempt is never lost,     *)
(* however many consumers interleave, crash and put partial files back.     *)
THEOREM FirstPutNeverLost == Spec => []FirstPutKept
<1>1. KeepInv => FirstPutKept
  BY ConstAssumption DEF KeepInv, KeepFile, FirstPutKept
<1>2. QED
  BY <1>1, KeepInvariant, PTL

-----------------------------------------------------------------------------
Vanishes(f) ==
    \/ json[f]["processing"] # "none" /\ json'[f] = Nowhere
    \/ media[f] # "none" /\ media'[f] = "none"

(* The phone's writes leave bytes behind.                                   *)
LEMMA PhoneKeepsFiles ==
    ASSUME TypeOK, Phone, NEW f \in Files
    PROVE  ~Vanishes(f)
<1>0. /\ json \in [Files -> [Places -> Bytes]] /\ media \in [Files -> Bytes]
      /\ "inbox" \in Places /\ "processing" \in Places
      /\ json[f]["processing"] # "none" => json[f] # Nowhere
  BY DEF TypeOK, UploadsTypeOK, Places, Nowhere
<1>1. CASE UNCHANGED <<json, media>>
  BY <1>0, <1>1 DEF Vanishes
<1>2. ASSUME NEW g \in Files, OpenPut(g) PROVE ~Vanishes(f)
  <2>1. CASE upload[g] = "media"
    BY <1>0, <1>2, <2>1 DEF OpenPut, Vanishes
  <2>2. CASE upload[g] # "media"
    <3>1. json' = [json EXCEPT ![g]["inbox"] = "partial"] /\ media' = media
      BY <1>2, <2>2 DEF OpenPut
    <3>2. json'[f]["processing"] = json[f]["processing"]
      BY <1>0, <3>1
    <3>3. QED
      BY <1>0, <3>1, <3>2 DEF Vanishes, Nowhere
  <2>3. QED
    BY <2>1, <2>2
<1>3. ASSUME NEW g \in Files, NEW b \in {"partial", "complete"}, WriteOpen(g, b)
      PROVE  ~Vanishes(f)
  <2>1. CASE upload[g] = "media"
    BY <1>0, <1>3, <2>1 DEF WriteOpen, Vanishes
  <2>2. CASE upload[g] # "media"
    <3>1. /\ media' = media
          /\ json' = [json EXCEPT ![g] =
                         [p \in Places |-> IF p = handle[g] THEN b ELSE json[g][p]]]
      BY <1>3, <2>2 DEF WriteOpen
    <3>2. json'[f]["processing"] \in {json[f]["processing"], b}
      BY <1>0, <3>1
    <3>3. QED
      BY <1>0, <3>1, <3>2 DEF Vanishes, Nowhere
  <2>3. QED
    BY <2>1, <2>2
<1>4. QED
  BY <1>1, <1>2, <1>3 DEF Phone, StartUpload, FinishPut, RefusePut, BreakPut, PutSheet, KillApp

(* A runner takes the last name of a json, or a body, after its upsert.     *)
LEMMA PassKeepsFiles ==
    ASSUME TypeOK, DoneIndexed, NEW r \in Runners, Pass(r) \/ ReadFails(r), NEW f \in Files, Vanishes(f)
    PROVE  Indexed(Msg[f])
<1>0. /\ json \in [Files -> [Places -> Bytes]] /\ media \in [Files -> Bytes]
      /\ "processing" \in Places
      /\ json[f]["processing"] # "none" => json[f] # Nowhere
      /\ pc[r] \in Busy => cur[r] \in Files
  BY DEF TypeOK, UploadsTypeOK, RunnersTypeOK, Places, Nowhere
<1>1. CASE media[f] # "none" /\ media'[f] = "none"
  <2>1. UnlinkMedia(r)
    BY <1>1 DEF Pass, ReadNames, ScanInbox, ScanProcessing, Claim, FinishPass, Read, PutBack, RejectStale,
                RejectInvalid, ReadFails, ClaimGone, FindMedia, OpenCopy, MediaGone, RefuseRow, FinishCopy,
                SelectPrev, Upsert, AppendLog, UnlinkJson
  <2>2. f = cur[r]
    BY <1>0, <1>1, <2>1 DEF UnlinkMedia
  <2>3. QED
    BY <2>1, <2>2 DEF UnlinkMedia, DoneIndexed
<1>2. CASE json[f]["processing"] # "none" /\ json'[f] = Nowhere
  <2>1. json'[f] # json[f]
    BY <1>0, <1>2
  <2>2. ASSUME NEW g \in Files, NEW src \in {"inbox", "processing"}, NEW dst \in Places,
               json[g][src] # "none", Rename(g, src, dst)
        PROVE  FALSE
    <3>1. g = f
      BY <1>0, <2>1, <2>2 DEF Rename
    <3>2. json'[f][dst] = json[f][src]
      BY <1>0, <2>2, <3>1 DEF Rename
    <3>3. QED
      BY <1>2, <2>2, <3>1, <3>2 DEF Nowhere
  <2>3. pc[r] = "unlink" /\ UnlinkClaim(cur[r])
    BY <2>1, <2>2, PassEffect
  <2>4. f = cur[r]
    BY <1>0, <2>1, <2>3 DEF UnlinkClaim
  <2>5. QED
    BY <2>3, <2>4 DEF DoneIndexed
<1>3. QED
  BY <1>1, <1>2 DEF Vanishes

(* An event's last json, and its body, disappear only when the message has  *)
(* its row: a consumer that dies at any step leaves what the next one needs.*)
THEOREM UnlinkAfterIndex == Spec => UnlinkedOnlyIndexed
<1> DEFINE Safe == \A f \in Files : Vanishes(f) => Indexed(Msg[f])
<1>1. TypeOK /\ KeepInv /\ [Next]_vars => [Safe]_vars
  <2> SUFFICES ASSUME TypeOK, KeepInv, Next PROVE Safe
    OBVIOUS
  <2>1. CASE Phone
    BY <2>1, PhoneKeepsFiles
  <2>2. ASSUME NEW r \in Runners, Pass(r) \/ ReadFails(r) PROVE Safe
    BY <2>2, PassKeepsFiles DEF KeepInv
  <2>3. ASSUME NEW r \in Runners, Fault(r) PROVE Safe
    <3>1. json' = json /\ media' = media
      BY <2>3 DEF Fault
    <3>2. QED
      BY <3>1 DEF Vanishes, Nowhere, TypeOK, UploadsTypeOK, Places
  <2>4. QED
    BY <2>1, <2>2, <2>3 DEF Next, Consumers
<1>2. QED
  BY <1>1, TypeCorrect, KeepInvariant, PTL DEF Spec, UnlinkedOnlyIndexed, Vanishes

-----------------------------------------------------------------------------
(* The argument that the body an index row names is there: a runner that    *)
(* will write a media_path has found the body and has begun to copy it, and *)
(* nothing removes a copy.                                                  *)

Early  == {"idle", "list", "scan", "next", "read", "bad", "invalid", "find"}
Copied == {"select", "upsert", "append", "unlink", "sweep"}

BodyOf(r) ==
    /\ pc[r] \in Early => found[r] = "none"
    /\ pc[r] \in {"open", "copy"} => found[r] # "none"
    /\ found[r] # "none" => cur[r] \in WithMedia
    /\ pc[r] = "copy" => cur[r] \notin TooBig
    /\ pc[r] \in Copied /\ MediaPath(r) # None => body[cur[r]] # "none"

BodyInv ==
    /\ \A f \in Files : upload[f] = "media" \/ media[f] # "none" => f \in WithMedia
    /\ \A r \in Runners : BodyOf(r)
    /\ IndexBacked

(* Bodies beside the inbox are the phone's, copies only come.               *)
LEMMA PassBodies ==
    ASSUME TypeOK, BodyInv, NEW r \in Runners, Pass(r) \/ ReadFails(r) \/ Fault(r), NEW f \in Files
    PROVE  /\ media'[f] # "none" => media[f] # "none"
           /\ body[f] # "none" => body'[f] # "none"
<1>0. /\ media \in [Files -> Bytes] /\ body \in [Files -> Bytes]
      /\ pc[r] \in Busy => cur[r] \in Files
  BY DEF TypeOK, UploadsTypeOK, StoreTypeOK, RunnersTypeOK
<1>1. CASE OpenCopy(r)
  BY <1>0, <1>1 DEF OpenCopy
<1>2. CASE FinishCopy(r)
  BY <1>0, <1>2 DEF FinishCopy, BodyInv, BodyOf
<1>3. CASE UnlinkMedia(r)
  BY <1>0, <1>3 DEF UnlinkMedia, storeVars
<1>4. QED
  BY <1>1, <1>2, <1>3 DEF Pass, Fault, ReadNames, ScanInbox, ScanProcessing, Claim, FinishPass, Read,
         PutBack, RejectStale, RejectInvalid, ReadFails, ClaimGone, FindMedia, MediaGone, RefuseRow, SelectPrev,
         Upsert, AppendLog, UnlinkJson, storeVars

LEMMA PassBodyOf ==
    ASSUME TypeOK, BodyInv, NEW r \in Runners, Pass(r) \/ ReadFails(r) \/ Fault(r)
    PROVE  BodyOf(r)'
<1>0. /\ BodyOf(r) /\ pc[r] \in Steps /\ (pc[r] \in Busy => cur[r] \in Files)
      /\ body \in [Files -> Bytes]
  BY DEF BodyInv, TypeOK, RunnersTypeOK, StoreTypeOK
<1> USE DEF TypeOK, RunnersTypeOK, Goto, EndOfPass, NextFile, Early, Copied
<1>1. CASE \/ FinishPass(r) \/ ClaimGone(r) \/ MediaGone(r) \/ RefuseRow(r) \/ Fault(r)
           \/ PutBack(r) \/ RejectStale(r) \/ RejectInvalid(r) \/ ReadFails(r) \/ UnlinkMedia(r)
  <2>1. pc'[r] \in {"idle", "next"} /\ found'[r] = "none"
    BY <1>1 DEF FinishPass, ClaimGone, MediaGone, RefuseRow, Fault, PutBack, RejectStale,
                RejectInvalid, ReadFails, UnlinkMedia
  <2>2. QED
    BY <2>1 DEF BodyOf
<1>2. CASE ReadNames(r) \/ ScanInbox(r) \/ ScanProcessing(r) \/ Claim(r) \/ Read(r)
  <2>1. pc[r] \in Early /\ pc'[r] \in Early /\ found'[r] = found[r]
    BY <1>2 DEF ReadNames, ScanInbox, ScanProcessing, Claim, SkipPath, Read
  <2>2. QED
    BY <1>0, <2>1 DEF BodyOf
<1>3. CASE FindMedia(r)
  <2>1. /\ cur'[r] = cur[r] /\ found'[r] = media[cur[r]] /\ cur[r] \in Files
        /\ pc'[r] = IF media[cur[r]] = "none" THEN "select" ELSE "open"
    BY <1>0, <1>3, StepNames DEF FindMedia
  <2>2. found'[r] # "none" => cur'[r] \in WithMedia
    BY <2>1 DEF BodyInv
  <2>3. QED
    BY <2>1, <2>2 DEF BodyOf, MediaPath
<1>4. CASE OpenCopy(r)
  <2>1. /\ pc[r] = "open" /\ cur'[r] = cur[r] /\ found'[r] = found[r]
        /\ pc'[r] = IF cur[r] \in TooBig THEN "select" ELSE "copy"
    BY <1>4 DEF OpenCopy
  <2>2. QED
    BY <1>0, <2>1 DEF BodyOf, MediaPath
<1>5. CASE FinishCopy(r)
  <2>1. /\ pc[r] = "copy" /\ cur'[r] = cur[r] /\ found'[r] = found[r] /\ pc'[r] = "select"
        /\ cur[r] \in Files /\ body'[cur[r]] = found[r]
    BY <1>0, <1>5, StepNames DEF FinishCopy
  <2>2. QED
    BY <1>0, <2>1 DEF BodyOf, MediaPath
<1>6. CASE SelectPrev(r) \/ Upsert(r) \/ AppendLog(r)
  <2>1. /\ pc[r] \in Copied /\ pc'[r] \in Copied /\ cur'[r] = cur[r] /\ found'[r] = found[r]
        /\ body' = body
    BY <1>6 DEF SelectPrev, Upsert, AppendLog, storeVars
  <2>2. QED
    BY <1>0, <2>1 DEF BodyOf, MediaPath
<1>7. CASE UnlinkJson(r)
  <2>1. pc[r] = "unlink" /\ body' = body
    BY <1>7 DEF UnlinkJson, storeVars
  <2>2. CASE found[r] # "none"
    BY <1>0, <1>7, <2>1, <2>2 DEF UnlinkJson, BodyOf, MediaPath
  <2>3. CASE found[r] = "none"
    BY <1>7, <2>3 DEF UnlinkJson, BodyOf
  <2>4. QED
    BY <2>2, <2>3
<1>8. QED
  BY <1>1, <1>2, <1>3, <1>4, <1>5, <1>6, <1>7 DEF Pass

(* The upsert names the upload the runner works on, whose copy is there.    *)
LEMMA PassBacked ==
    ASSUME TypeOK, BodyInv, NEW r \in Runners, Pass(r) \/ ReadFails(r) \/ Fault(r)
    PROVE  IndexBacked'
<1> SUFFICES ASSUME NEW m \in Msgs, row'[m] \in Files
             PROVE  /\ Msg[row'[m]] = m
                    /\ row'[m] \in WithMedia \ TooBig
                    /\ body'[row'[m]] # "none"
  BY DEF IndexBacked
<1>1. CASE row'[m] = row[m]
  BY <1>1, PassBodies DEF BodyInv, IndexBacked
<1>2. CASE row'[m] # row[m]
  <2>1. Upsert(r)
    BY <1>2 DEF Pass, Fault, ReadNames, ScanInbox, ScanProcessing, Claim, FinishPass, Read, PutBack,
           RejectStale, RejectInvalid, ReadFails, ClaimGone, FindMedia, OpenCopy, MediaGone, RefuseRow, FinishCopy,
           SelectPrev, AppendLog, UnlinkJson, UnlinkMedia, storeVars
  <2>2. cur[r] \in Files /\ row \in [Msgs -> Files \cup {None, NoRow}] /\ body' = body
    BY <2>1, StepNames DEF Upsert, TypeOK, RunnersTypeOK, StoreTypeOK
  <2>3. m = Msg[cur[r]] /\ row'[m] = MediaPath(r)
    BY <1>2, <2>1, <2>2 DEF Upsert, Upserted
  <2>4. row'[m] = cur[r] /\ found[r] # "none" /\ cur[r] \notin TooBig /\ MediaPath(r) # None
    BY <2>2, <2>3, ConstAssumption DEF MediaPath
  <2>5. cur[r] \in WithMedia /\ body[cur[r]] # "none"
    BY <2>1, <2>4 DEF Upsert, BodyInv, BodyOf, Copied
  <2>6. QED
    BY <2>2, <2>3, <2>4, <2>5
<1>3. QED
  BY <1>1, <1>2

(* A row that names a media body names one of its own message's, and the    *)
(* copy exists, whatever consumers and crashes did.                         *)
THEOREM RowsBacked == Spec => []IndexBacked
<1>1. Init => BodyInv
  BY ConstAssumption DEF Init, BodyInv, BodyOf, IndexBacked, Copied
<1>2. TypeOK /\ BodyInv /\ [Next]_vars => BodyInv'
  <2> SUFFICES ASSUME TypeOK, BodyInv, [Next]_vars PROVE BodyInv'
    OBVIOUS
  <2>1. CASE Phone
    <3>1. UNCHANGED <<pc, cur, found, body, row>>
      BY <2>1 DEF Phone, StartUpload, OpenPut, FinishPut, RefusePut, BreakPut, PutSheet, KillApp,
                  storeVars, runnerVars
    <3>2. ASSUME NEW f \in Files, upload'[f] = "media" \/ media'[f] # "none"
          PROVE  f \in WithMedia
      BY <2>1, <3>2 DEF Phone, StartUpload, OpenPut, FinishPut, RefusePut, BreakPut, PutSheet, KillApp,
                  phoneVars, WriteOpen, AfterFailure, BodyInv, TypeOK, UploadsTypeOK
    <3>3. QED
      BY <3>1, <3>2 DEF BodyInv, BodyOf, MediaPath, IndexBacked
  <2>2. ASSUME NEW r \in Runners, Pass(r) \/ ReadFails(r) \/ Fault(r) PROVE BodyInv'
    <3>1. upload' = upload
      BY <2>2, PassEffect DEF Fault, phoneVars
    <3>2. \A f \in Files : upload'[f] = "media" \/ media'[f] # "none" => f \in WithMedia
      BY <2>2, <3>1, PassBodies DEF BodyInv
    <3>3. ASSUME NEW q \in Runners PROVE BodyOf(q)'
      <4>1. CASE q = r
        BY <2>2, <4>1, PassBodyOf
      <4>2. CASE q # r
        <5>1. pc'[q] = pc[q] /\ cur'[q] = cur[q] /\ found'[q] = found[q]
          BY <2>2, <4>2, PassOthers
        <5>2. body[cur[q]] # "none" /\ cur[q] \in Files => body'[cur[q]] # "none"
          BY <2>2, PassBodies
        <5>3. pc[q] \in Copied => cur[q] \in Files
          BY DEF TypeOK, RunnersTypeOK, Copied, Busy, Steps
        <5>4. QED
          BY <5>1, <5>2, <5>3 DEF BodyInv, BodyOf, MediaPath
      <4>3. QED
        BY <4>1, <4>2
    <3>4. QED
      BY <2>2, <3>2, <3>3, PassBacked DEF BodyInv
  <2>3. CASE UNCHANGED vars
    BY <2>3 DEF vars, BodyInv, BodyOf, MediaPath, IndexBacked
  <2>4. QED
    BY <2>1, <2>2, <2>3 DEF Next, Consumers
<1>3. BodyInv => IndexBacked
  BY DEF BodyInv
<1>4. QED
  BY <1>1, <1>2, <1>3, TypeCorrect, PTL DEF Spec

-----------------------------------------------------------------------------
(* One consumer process: the store implements EventLedger, and its JSONL    *)
(* log follows its rows, however often that consumer crashes.  With two     *)
(* processes both fail: the SELECT and the append of _persist_event are not *)
(* in one transaction.                                                      *)

OneRunner == \A r, s \in Runners : r = s

(* The lines of m's log are states its row went through.                    *)
LogOf(m) ==
    \/ log[m] = <<>>
    \/ log[m] = <<None>> /\ Indexed(m)
    \/ row[m] \in Files /\ log[m] \in {<<row[m]>>, <<None, row[m]>>}

(* What the runner's SELECT told it is still what it has to append.         *)
PrevOf(r) ==
    /\ pc[r] = "upsert" => prev[r] = row[Msg[cur[r]]]
    /\ pc[r] = "append" /\ prev[r] = NoRow =>
          log[Msg[cur[r]]] = <<>> /\ row[Msg[cur[r]]] = MediaPath(r)
    /\ pc[r] = "append" /\ prev[r] = None /\ MediaPath(r) # None =>
          log[Msg[cur[r]]] \in {<<>>, <<None>>} /\ row[Msg[cur[r]]] = MediaPath(r)

LogInv == (\A m \in Msgs : LogOf(m)) /\ (\A r \in Runners : PrevOf(r))

(* Types of what the three steps of _persist_event's store part use.        *)
LEMMA StoreTypes ==
    ASSUME TypeOK, NEW r \in Runners, pc[r] \in {"select", "upsert", "append"}
    PROVE  /\ cur[r] \in Files /\ Msg[cur[r]] \in Msgs
           /\ MediaPath(r) \in Files \cup {None}
           /\ row \in [Msgs -> Files \cup {None, NoRow}]
           /\ log \in [Msgs -> Seq(Files \cup {None})]
           /\ pc \in [Runners -> Steps] /\ prev \in [Runners -> Files \cup {None, NoRow}]
  BY StepNames, ConstAssumption DEF TypeOK, StoreTypeOK, RunnersTypeOK, MediaPath

(* All but three steps leave row, log and the runner's decision alone.      *)
LEMMA OtherSteps ==
    ASSUME TypeOK, NEW r \in Runners, Pass(r) \/ ReadFails(r) \/ Fault(r),
           ~SelectPrev(r), ~Upsert(r), ~AppendLog(r)
    PROVE  UNCHANGED <<row, log>> /\ pc'[r] \notin {"upsert", "append"}
  BY DEF Pass, Fault, ReadNames, ScanInbox, ScanProcessing, Claim, SkipPath, FinishPass, Read, PutBack,
         RejectStale, RejectInvalid, ReadFails, ClaimGone, FindMedia, OpenCopy, MediaGone, RefuseRow, FinishCopy,
         UnlinkJson, UnlinkMedia, storeVars, Goto, EndOfPass, NextFile, TypeOK, RunnersTypeOK

LEMMA UpsertLog ==
    ASSUME TypeOK, LogInv, NEW r \in Runners, Upsert(r)
    PROVE  PrevOf(r)' /\ \A m \in Msgs : LogOf(m)'
<1> DEFINE m == Msg[cur[r]]
           x == MediaPath(r)
<1>1. /\ m \in Msgs /\ x \in Files \cup {None} /\ pc[r] = "upsert"
      /\ row \in [Msgs -> Files \cup {None, NoRow}]
      /\ prev[r] = row[m] /\ LogOf(m)
  BY StoreTypes DEF Upsert, LogInv, PrevOf
<1>2. /\ row' = [row EXCEPT ![m] = Upserted(row[m], x)] /\ log' = log
      /\ pc'[r] = "append" /\ prev'[r] = prev[r]
      /\ Msg[cur'[r]] = m /\ MediaPath(r)' = x
  BY StoreTypes DEF Upsert, Goto, MediaPath
<1> HIDE DEF m, x
<1>3. /\ row[m] = NoRow => log[m] = <<>> /\ row'[m] = x
      /\ row[m] = None => log[m] \in {<<>>, <<None>>}
      /\ row[m] = None /\ x # None => row'[m] = x
      /\ row[m] \in Files => row'[m] = row[m]
      /\ row'[m] # NoRow
  BY <1>1, <1>2, ConstAssumption DEF LogOf, Indexed, Upserted
<1>4. PrevOf(r)'
  BY <1>1, <1>2, <1>3 DEF PrevOf
<1>5. ASSUME NEW n \in Msgs PROVE LogOf(n)'
  <2>1. CASE n = m
    BY <1>1, <1>2, <1>3, <2>1 DEF LogOf, Indexed
  <2>2. CASE n # m
    BY <1>1, <1>2, <2>2 DEF LogInv, LogOf, Indexed
  <2>3. QED
    BY <2>1, <2>2
<1>6. QED
  BY <1>4, <1>5

(* What an append adds, when it adds something.                             *)
LEMMA AppendedLine ==
    ASSUME TypeOK, LogInv, NEW r \in Runners, AppendLog(r), ShouldAppend(r)
    PROVE  /\ row[Msg[cur[r]]] = MediaPath(r)
           /\ \/ log[Msg[cur[r]]] = <<>>
              \/ log[Msg[cur[r]]] = <<None>> /\ MediaPath(r) # None
           /\ log' = [log EXCEPT ![Msg[cur[r]]] = Append(log[Msg[cur[r]]], MediaPath(r))]
<1>1. pc[r] = "append" /\ PrevOf(r)
  BY DEF AppendLog, LogInv
<1>2. QED
  BY <1>1 DEF AppendLog, ShouldAppend, PrevOf

LEMMA ShortLogs ==
    ASSUME NEW S, NEW x \in S, NEW y \in S
    PROVE  Append(<<>>, x) = <<x>> /\ Append(<<y>>, x) = <<y, x>>
<1>1. /\ <<>> \in Seq(S) /\ Len(<<>>) = 0
      /\ <<x>> \in Seq(S) /\ Len(<<x>>) = 1 /\ <<x>>[1] = x
      /\ <<y>> \in Seq(S) /\ Len(<<y>>) = 1 /\ <<y>>[1] = y
      /\ <<y, x>> \in Seq(S) /\ Len(<<y, x>>) = 2
      /\ <<y, x>>[1] = y /\ <<y, x>>[2] = x
  OBVIOUS
<1>2. Append(<<>>, x) = <<x>>
  <2>1. /\ Append(<<>>, x) \in Seq(S)
        /\ Len(Append(<<>>, x)) = 1 /\ Append(<<>>, x)[1] = x
    BY <1>1, AppendProperties
  <2>2. QED
    BY <1>1, <2>1, SeqEqual
<1>3. Append(<<y>>, x) = <<y, x>>
  <2> DEFINE s == Append(<<y>>, x)
             t == <<y, x>>
  <2>1. s \in Seq(S) /\ Len(s) = 2 /\ s[1] = y /\ s[2] = x
    BY <1>1, AppendProperties
  <2>2. t \in Seq(S) /\ Len(t) = 2 /\ t[1] = y /\ t[2] = x
    BY <1>1
  <2> HIDE DEF s, t
  <2>3. \A i \in 1..Len(s) : s[i] = t[i]
    BY <2>1, <2>2
  <2>4. s = t
    BY <2>1, <2>2, <2>3, SeqEqual
  <2>5. QED
    BY <2>4 DEF s, t
<1>4. QED
  BY <1>2, <1>3

LEMMA AppendLogs ==
    ASSUME TypeOK, LogInv, NEW r \in Runners, AppendLog(r)
    PROVE  PrevOf(r)' /\ \A m \in Msgs : LogOf(m)'
<1>1. pc'[r] = "unlink" /\ row' = row
  BY StoreTypes DEF AppendLog, Goto
<1>2. ASSUME NEW m \in Msgs PROVE LogOf(m)'
  <2>1. CASE log'[m] = log[m]
    BY <1>1, <2>1 DEF LogInv, LogOf, Indexed
  <2>2. CASE log'[m] # log[m]
    <3>1. ShouldAppend(r)
      BY <2>2 DEF AppendLog
    <3>2. /\ log \in [Msgs -> Seq(Files \cup {None})] /\ MediaPath(r) \in Files \cup {None}
      BY StoreTypes DEF AppendLog
    <3> DEFINE x == MediaPath(r)
    <3>3. m = Msg[cur[r]] /\ log'[m] = Append(log[m], x)
      BY <2>2, <3>1, <3>2, AppendedLine
    <3>4. row'[m] = x /\ (log[m] = <<>> \/ (log[m] = <<None>> /\ x # None))
      BY <1>1, <3>1, <3>3, AppendedLine
    <3>5. x \in Files \cup {None}
      BY <3>2
    <3> HIDE DEF x
    <3>6. log'[m] = <<x>> \/ (log'[m] = <<None, x>> /\ x # None)
      <4>1. Append(<<>>, x) = <<x>> /\ Append(<<None>>, x) = <<None, x>>
        <5> DEFINE S == Files \cup {None}
        <5>1. x \in S /\ None \in S
          BY <3>5
        <5> HIDE DEF S
        <5>2. QED
          BY <5>1, ShortLogs
      <4>2. QED
        BY <3>3, <3>4, <4>1
    <3>7. CASE x = None
      <4>1. log'[m] = <<None>> /\ row'[m] # NoRow
        BY <3>4, <3>6, <3>7, ConstAssumption
      <4>2. QED
        BY <4>1 DEF LogOf, Indexed
    <3>8. CASE x # None
      <4>1. row'[m] \in Files /\ log'[m] \in {<<row'[m]>>, <<None, row'[m]>>}
        BY <3>4, <3>5, <3>6, <3>8
      <4>2. QED
        BY <4>1 DEF LogOf
    <3>9. QED
      BY <3>7, <3>8
  <2>3. QED
    BY <2>1, <2>2
<1>3. QED
  BY <1>1, <1>2 DEF PrevOf

(* One runner's steps, its crashes and the phone's keep the log sound.      *)
LEMMA LogStep ==
    ASSUME OneRunner, TypeOK, LogInv, [Next]_vars
    PROVE  LogInv'
<1>1. CASE Phone \/ UNCHANGED vars
  <2>1. UNCHANGED <<row, log, pc, cur, found, prev>>
    BY <1>1 DEF Phone, StartUpload, OpenPut, FinishPut, RefusePut, BreakPut, PutSheet, KillApp,
                storeVars, runnerVars, vars
  <2>2. QED
    BY <2>1 DEF LogInv, LogOf, PrevOf, Indexed, MediaPath
<1>2. ASSUME NEW r \in Runners, Pass(r) \/ ReadFails(r) \/ Fault(r) PROVE LogInv'
  <2>1. ASSUME NEW q \in Runners PROVE q = r
    BY DEF OneRunner
  <2>2. PrevOf(r)' /\ \A m \in Msgs : LogOf(m)'
    <3>1. CASE SelectPrev(r)
      <4>1. /\ pc'[r] = "upsert" /\ prev'[r] = row[Msg[cur[r]]] /\ cur'[r] = cur[r]
            /\ row' = row /\ log' = log
        BY <3>1, StoreTypes DEF SelectPrev, Goto, storeVars
      <4>2. QED
        BY <4>1 DEF LogInv, LogOf, PrevOf, Indexed
    <3>2. CASE Upsert(r)
      BY <3>2, UpsertLog
    <3>3. CASE AppendLog(r)
      BY <3>3, AppendLogs
    <3>4. CASE ~SelectPrev(r) /\ ~Upsert(r) /\ ~AppendLog(r)
      BY <1>2, <3>4, OtherSteps DEF LogInv, LogOf, PrevOf, Indexed
    <3>5. QED
      BY <3>1, <3>2, <3>3, <3>4
  <2>3. QED
    BY <2>1, <2>2 DEF LogInv
<1>3. QED
  BY <1>1, <1>2 DEF Next, Consumers

LEMMA LogInvariant ==
    ASSUME OneRunner
    PROVE  Spec => []LogInv
<1>1. Init => LogInv
  BY DEF Init, LogInv, LogOf, PrevOf
<1>2. TypeOK /\ LogInv /\ [Next]_vars => LogInv'
  BY LogStep
<1>3. QED
  BY <1>1, <1>2, TypeCorrect, PTL DEF Spec

(* The JSONL log of one consumer never repeats a state of a row and never   *)
(* runs ahead of it, whatever step a crash cuts short.                      *)
THEOREM LogSound ==
    ASSUME OneRunner
    PROVE  Spec => []LogFollowsRow
<1>1. LogInv => LogFollowsRow
  BY DEF LogInv, LogOf, LogFollowsRow
<1>2. QED
  BY <1>1, LogInvariant, PTL

(* Every step of one consumer is a step of the ledger or leaves it alone.   *)
LEMMA LedgerStep ==
    ASSUME OneRunner, TypeOK, LogInv, [Next]_vars
    PROVE  [Ledger!Next]_Ledger!ledgerVars
<1> USE DEF Ledger!ledgerVars
<1>1. CASE UNCHANGED <<row, log>>
  BY <1>1
<1>2. ASSUME NEW r \in Runners, Upsert(r) PROVE [Ledger!Next]_Ledger!ledgerVars
  <2> DEFINE m == Msg[cur[r]]
             x == MediaPath(r)
  <2>1. /\ m \in Msgs /\ x \in Ledger!BodiesOf(m) \cup {None}
        /\ row \in [Msgs -> Files \cup {None, NoRow}]
        /\ row' = [row EXCEPT ![m] = Upserted(row[m], x)] /\ log' = log
    BY <1>2, StoreTypes DEF Upsert, MediaPath, Ledger!BodiesOf
  <2> HIDE DEF m, x
  <2>2. CASE row[m] = NoRow
    BY <2>1, <2>2 DEF Upserted, Ledger!Next, Ledger!Insert
  <2>3. CASE row[m] = None /\ x # None
    BY <2>1, <2>3 DEF Upserted, Ledger!Next, Ledger!Upgrade
  <2>4. CASE row[m] # NoRow /\ ~(row[m] = None /\ x # None)
    BY <2>1, <2>4 DEF Upserted
  <2>5. QED
    BY <2>2, <2>3, <2>4
<1>3. ASSUME NEW r \in Runners, AppendLog(r), ShouldAppend(r) PROVE Ledger!Next
  <2> DEFINE m == Msg[cur[r]]
             x == MediaPath(r)
  <2>1. m \in Msgs /\ x \in Files \cup {None} /\ row' = row
    BY <1>3, StoreTypes DEF AppendLog
  <2>2. /\ row[m] = x /\ (log[m] = <<>> \/ (log[m] = <<None>> /\ x # None))
        /\ log' = [log EXCEPT ![m] = Append(log[m], row[m])]
    BY <1>3, AppendedLine
  <2> HIDE DEF m, x
  <2>3. row[m] # NoRow /\ \A i \in DOMAIN log[m] : log[m][i] # row[m]
    BY <2>1, <2>2, ConstAssumption
  <2>4. Ledger!Publish(m)
    BY <2>1, <2>2, <2>3 DEF Ledger!Publish
  <2>5. QED
    BY <2>1, <2>4 DEF Ledger!Next
<1>4. CASE Phone \/ UNCHANGED vars
  BY <1>1, <1>4 DEF Phone, StartUpload, OpenPut, FinishPut, RefusePut, BreakPut, PutSheet, KillApp,
                    storeVars, vars
<1>5. ASSUME NEW r \in Runners, Pass(r) \/ ReadFails(r) \/ Fault(r) PROVE [Ledger!Next]_Ledger!ledgerVars
  <2>1. CASE SelectPrev(r)
    BY <1>1, <2>1 DEF SelectPrev, storeVars
  <2>2. CASE AppendLog(r) /\ ~ShouldAppend(r)
    BY <1>1, <2>2 DEF AppendLog
  <2>3. CASE ~SelectPrev(r) /\ ~Upsert(r) /\ ~AppendLog(r)
    BY <1>1, <1>5, <2>3, OtherSteps
  <2>4. QED
    BY <1>2, <1>3, <2>1, <2>2, <2>3
<1>6. QED
  BY <1>4, <1>5 DEF Next, Consumers

(* One consumer, any crashes: the detailed store implements EventLedger.    *)
THEOREM ImplementsLedger ==
    ASSUME OneRunner
    PROVE  Spec => LedgerSpec
<1>1. Init => Ledger!Init
  BY DEF Init, Ledger!Init
<1>2. TypeOK /\ LogInv /\ [Next]_vars => [Ledger!Next]_Ledger!ledgerVars
  BY LedgerStep
<1>3. QED
  BY <1>1, <1>2, TypeCorrect, LogInvariant, PTL DEF Spec, LedgerSpec, Ledger!Spec

-----------------------------------------------------------------------------
(* The argument that a body goes only when its copy is whole: an upload     *)
(* whose json is there has had its last put of the body, so what the runner *)
(* found is what lies there until it unlinks it, and the copy is that.      *)

BodyDue(f) == upload[f] \in {"queued", "media"}

CopyOf(r) ==
    /\ pc[r] \in Busy => ~BodyDue(cur[r])
    /\ pc[r] \in {"open", "copy", "sweep"} => found[r] # "none"
    /\ pc[r] \in {"open", "copy"} \cup Copied /\ found[r] # "none" => found[r] = media[cur[r]]
    /\ pc[r] \in Copied /\ found[r] # "none" /\ cur[r] \notin TooBig => body[cur[r]] = found[r]

CopyInv ==
    /\ \A f \in Files, p \in Places : json[f][p] # "none" => ~BodyDue(f)
    /\ \A r \in Runners : CopyOf(r)

(* The phone puts the body first and never touches it again.                *)
LEMMA PhoneCopy ==
    ASSUME TypeOK, CopyInv, Phone
    PROVE  CopyInv'
<1>0. /\ upload \in [Files -> Uploads] /\ media \in [Files -> Bytes]
      /\ json \in [Files -> [Places -> Bytes]]
      /\ \A r \in Runners : pc[r] \in Busy => cur[r] \in Files
  BY DEF TypeOK, UploadsTypeOK, RunnersTypeOK
<1>1. UNCHANGED <<pc, cur, found, body>>
  BY DEF Phone, StartUpload, OpenPut, FinishPut, RefusePut, BreakPut, PutSheet, KillApp,
         storeVars, runnerVars
<1>2. ASSUME NEW f \in Files, ~BodyDue(f)
      PROVE  ~BodyDue(f)' /\ media'[f] = media[f]
  BY <1>0, <1>2 DEF Phone, StartUpload, OpenPut, FinishPut, RefusePut, BreakPut, PutSheet, KillApp,
         phoneVars, WriteOpen, AfterFailure, BodyDue, Sending
<1>3. ASSUME NEW f \in Files, NEW p \in Places, json'[f][p] # "none"
      PROVE  ~BodyDue(f)'
  <2>1. CASE json'[f] = json[f]
    BY <1>2, <1>3, <2>1 DEF CopyInv
  <2>2. CASE json'[f] # json[f]
    <3>1. upload[f] = "json"
      BY <1>0, <2>2 DEF Phone, StartUpload, OpenPut, FinishPut, RefusePut, BreakPut, PutSheet, KillApp,
                        WriteOpen, Sending
    <3>2. QED
      BY <1>2, <3>1 DEF BodyDue
  <2>3. QED
    BY <2>1, <2>2
<1>4. ASSUME NEW r \in Runners PROVE CopyOf(r)'
  <2>1. {"open", "copy"} \cup Copied \subseteq Busy
    BY StepNames DEF Copied
  <2>2. CASE pc[r] \in Busy
    BY <1>0, <1>1, <1>2, <2>1, <2>2 DEF CopyInv, CopyOf
  <2>3. CASE pc[r] \notin Busy
    BY <1>1, <2>1, <2>3, StepNames DEF CopyOf
  <2>4. QED
    BY <2>2, <2>3
<1>5. QED
  BY <1>3, <1>4 DEF CopyInv

(* A json goes only where one was.                                          *)
LEMMA PassJson ==
    ASSUME TypeOK, CopyInv, NEW r \in Runners, Pass(r) \/ ReadFails(r) \/ Fault(r),
           NEW f \in Files, NEW p \in Places, json'[f][p] # "none"
    PROVE  ~BodyDue(f)
<1>0. json \in [Files -> [Places -> Bytes]] /\ (pc[r] \in Busy => cur[r] \in Files)
  BY DEF TypeOK, UploadsTypeOK, RunnersTypeOK
<1>1. CASE json' = json
  BY <1>1 DEF CopyInv
<1>2. ASSUME NEW g \in Files, NEW src \in Places, NEW dst \in Places, Rename(g, src, dst)
      PROVE  ~BodyDue(f)
  <2>1. json'[f][p] \in {json[f][p], json[f][src], "none"}
    BY <1>0, <1>2 DEF Rename
  <2>2. QED
    BY <2>1 DEF CopyInv
<1>3. CASE UnlinkClaim(cur[r]) /\ pc[r] = "unlink"
  <2>1. json'[f][p] \in {json[f][p], "none"}
    BY <1>0, <1>3, StepNames, Names DEF UnlinkClaim
  <2>2. QED
    BY <2>1 DEF CopyInv
<1>4. QED
  BY <1>1, <1>2, <1>3, PassEffect, Names DEF Fault

LEMMA PassCopyOf ==
    ASSUME TypeOK, CopyInv, NEW r \in Runners, Pass(r) \/ ReadFails(r) \/ Fault(r)
    PROVE  CopyOf(r)'
<1>0. /\ CopyOf(r) /\ pc[r] \in Steps /\ (pc[r] \in Busy => cur[r] \in Files)
      /\ body \in [Files -> Bytes] /\ media \in [Files -> Bytes]
      /\ \A f \in Files : BodyDue(f)' <=> BodyDue(f)
  <2>1. upload' = upload
    BY PassEffect DEF Fault, phoneVars
  <2>2. QED
    BY <2>1 DEF CopyInv, BodyDue, TypeOK, RunnersTypeOK, StoreTypeOK, UploadsTypeOK
<1> USE DEF TypeOK, RunnersTypeOK, Goto, EndOfPass, NextFile, Copied
<1>1. CASE \/ FinishPass(r) \/ ClaimGone(r) \/ MediaGone(r) \/ RefuseRow(r) \/ Fault(r) \/ ReadNames(r) \/ ScanInbox(r)
           \/ ScanProcessing(r) \/ PutBack(r) \/ RejectStale(r) \/ RejectInvalid(r) \/ ReadFails(r) \/ UnlinkMedia(r)
  <2>1. pc'[r] \in {"idle", "list", "scan", "next"}
    BY <1>1 DEF FinishPass, ClaimGone, MediaGone, RefuseRow, Fault, PutBack, RejectStale,
                RejectInvalid, ReadFails, UnlinkMedia, ReadNames, ScanInbox, ScanProcessing
  <2>2. QED
    BY <2>1, StepNames DEF CopyOf
<1>2. CASE Claim(r)
  <2>1. CASE pc'[r] = "next"
    BY <2>1, StepNames DEF CopyOf
  <2>2. CASE pc'[r] # "next"
    <3>1. PICK f \in Files, src \in {"inbox", "processing"} :
             json[f][src] # "none" /\ pc'[r] = "read" /\ cur'[r] = f
      BY <1>2, <2>2 DEF Claim, SkipPath
    <3>2. ~BodyDue(f)
      BY <3>1, Names DEF CopyInv
    <3>3. QED
      BY <1>0, <3>1, <3>2 DEF CopyOf
  <2>3. QED
    BY <2>1, <2>2
<1>3. CASE Read(r)
  <2>1. pc[r] = "read" /\ pc'[r] \in {"find", "invalid", "bad"} /\ cur'[r] = cur[r]
    BY <1>3 DEF Read
  <2>2. QED
    BY <1>0, <2>1, StepNames DEF CopyOf
<1>4. CASE FindMedia(r)
  <2>1. /\ pc[r] = "find" /\ cur'[r] = cur[r] /\ found'[r] = media[cur[r]] /\ cur[r] \in Files
        /\ media' = media /\ pc'[r] = IF media[cur[r]] = "none" THEN "select" ELSE "open"
    BY <1>0, <1>4, StepNames DEF FindMedia
  <2>2. QED
    BY <1>0, <2>1, StepNames DEF CopyOf
<1>5. CASE OpenCopy(r)
  <2>1. /\ pc[r] = "open" /\ cur'[r] = cur[r] /\ found'[r] = found[r] /\ media' = media
        /\ pc'[r] = IF cur[r] \in TooBig THEN "select" ELSE "copy"
    BY <1>5 DEF OpenCopy
  <2>2. QED
    BY <1>0, <2>1, StepNames DEF CopyOf
<1>6. CASE FinishCopy(r)
  <2>1. /\ pc[r] = "copy" /\ cur'[r] = cur[r] /\ found'[r] = found[r] /\ media' = media
        /\ pc'[r] = "select" /\ cur[r] \in Files /\ body'[cur[r]] = found[r]
    BY <1>0, <1>6, StepNames DEF FinishCopy
  <2>2. QED
    BY <1>0, <2>1, StepNames DEF CopyOf
<1>7. CASE SelectPrev(r) \/ Upsert(r) \/ AppendLog(r)
  <2>1. /\ pc[r] \in Copied /\ pc'[r] \in {"upsert", "append", "unlink"} /\ cur'[r] = cur[r]
        /\ found'[r] = found[r] /\ UNCHANGED <<body, media>>
    BY <1>7 DEF SelectPrev, Upsert, AppendLog, storeVars
  <2>2. QED
    BY <1>0, <2>1, StepNames DEF CopyOf
<1>8. CASE UnlinkJson(r)
  <2>1. pc[r] = "unlink" /\ UNCHANGED <<body, media>>
    BY <1>8 DEF UnlinkJson, storeVars
  <2>2. CASE found[r] # "none"
    <3>1. pc'[r] = "sweep" /\ cur'[r] = cur[r] /\ found'[r] = found[r]
      BY <1>8, <2>2 DEF UnlinkJson
    <3>2. QED
      BY <1>0, <2>1, <2>2, <3>1, StepNames DEF CopyOf
  <2>3. CASE found[r] = "none"
    <3>1. pc'[r] = "next"
      BY <1>8, <2>3 DEF UnlinkJson
    <3>2. QED
      BY <3>1, StepNames DEF CopyOf
  <2>4. QED
    BY <2>2, <2>3
<1>9. QED
  BY <1>1, <1>2, <1>3, <1>4, <1>5, <1>6, <1>7, <1>8 DEF Pass

LEMMA CopyInvariant ==
    ASSUME OneRunner
    PROVE  Spec => []CopyInv
<1>1. Init => CopyInv
  BY StepNames DEF Init, CopyInv, CopyOf, Copied, Nowhere
<1>2. TypeOK /\ CopyInv /\ [Next]_vars => CopyInv'
  <2> SUFFICES ASSUME TypeOK, CopyInv, [Next]_vars PROVE CopyInv'
    OBVIOUS
  <2>1. CASE Phone
    BY <2>1, PhoneCopy
  <2>2. ASSUME NEW r \in Runners, Pass(r) \/ ReadFails(r) \/ Fault(r) PROVE CopyInv'
    <3>1. \A f \in Files : BodyDue(f)' <=> BodyDue(f)
      BY <2>2, PassEffect DEF Fault, phoneVars, BodyDue
    <3>2. \A f \in Files, p \in Places : json'[f][p] # "none" => ~BodyDue(f)'
      BY <2>2, <3>1, PassJson
    <3>3. \A q \in Runners : CopyOf(q)'
      BY <2>2, PassCopyOf DEF OneRunner
    <3>4. QED
      BY <3>2, <3>3 DEF CopyInv
  <2>3. CASE UNCHANGED vars
    BY <2>3 DEF vars, CopyInv, CopyOf, BodyDue
  <2>4. QED
    BY <2>1, <2>2, <2>3 DEF Next, Consumers
<1>3. QED
  BY <1>1, <1>2, TypeCorrect, PTL DEF Spec

(* One consumer, any crashes: the body beside the inbox is unlinked only    *)
(* when the copy that the row names has all that the phone put.             *)
THEOREM BodiesCopied ==
    ASSUME OneRunner
    PROVE  Spec => UnlinkedOnlyCopied
<1> DEFINE Safe == \A f \in Files :
               media[f] # "none" /\ media'[f] = "none" /\ row[Msg[f]] = f => body[f] = media[f]
<1>1. TypeOK /\ IndexBacked /\ CopyInv /\ [Next]_vars => [Safe]_vars
  <2> SUFFICES ASSUME TypeOK, IndexBacked, CopyInv, Next,
                      NEW f \in Files, media[f] # "none", media'[f] = "none", row[Msg[f]] = f
               PROVE  body[f] = media[f]
    OBVIOUS
  <2>1. PICK r \in Runners : Pass(r) \/ ReadFails(r) \/ Fault(r)
    BY PhoneKeepsFiles DEF Vanishes, Next, Consumers
  <2>2. UnlinkMedia(r)
    BY <2>1 DEF Pass, Fault, ReadNames, ScanInbox, ScanProcessing, Claim, FinishPass, Read, PutBack,
           RejectStale, RejectInvalid, ReadFails, ClaimGone, FindMedia, OpenCopy, MediaGone, RefuseRow, FinishCopy,
           SelectPrev, Upsert, AppendLog, UnlinkJson
  <2>3. f = cur[r] /\ pc[r] = "sweep"
    BY <2>2, StepNames DEF UnlinkMedia, TypeOK, UploadsTypeOK
  <2>4. f \notin TooBig
    BY ConstAssumption DEF IndexBacked
  <2>5. QED
    BY <2>3, <2>4 DEF CopyInv, CopyOf, Copied
<1>2. QED
  BY <1>1, TypeCorrect, RowsBacked, CopyInvariant, PTL DEF Spec, UnlinkedOnlyCopied
=============================================================================

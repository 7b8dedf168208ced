------------------------- MODULE SftpClient_proofs -------------------------
(***************************************************************************)
(* Theorems about SftpClient for every set of jobs, every number of        *)
(* attempts and every behaviour of the network: its type invariant, that   *)
(* the backlog counter counts, that the endpoint follows the route, and    *)
(* that an undisturbed event is kept only when the phone is offline.       *)
(***************************************************************************)
EXTENDS SftpClient, FiniteSetTheorems, TLAPS

(* What the queue holds and works on has been queued and is not over, and   *)
(* nothing stands in it twice.                                              *)
QueueInv ==
    /\ cur \in Jobs => stage[cur] = "queued"
    /\ \A i \in 1..Len(queue) : queue[i] \in Jobs =>
          /\ stage[queue[i]] = "queued"
          /\ queue[i] # cur
          /\ \A k \in 1..Len(queue) : queue[k] = queue[i] => k = i

JobInv == TypeOK /\ QueueInv /\ PendingCounts

LEMMA ThreadTypes ==
    /\ Main \in Threads /\ Worker \in Threads /\ Jobs \subseteq Threads
    /\ Reconnect \notin Jobs
  BY ConstAssumption DEF Threads, Reconnect

LEMMA RouteType ==
    /\ Route \in Routes
    /\ \A r \in Routes : Whole(r) \in Endpoints
  BY DEF Route, Routes, Whole, Endpoints

LEMMA ChannelType ==
    ASSUME TypeOK
    PROVE  Channel \in Endpoints \cup {NoChannel}
  BY DEF TypeOK, CaptureOK, Channel

(* The counted jobs that are queued, after one more is or one is over.      *)
LEMMA CountNat == Cardinality({j \in Counted : stage[j] = "queued"}) \in Nat
<1>1. IsFiniteSet(Counted)
  BY ConstAssumption, FS_Subset
<1>2. IsFiniteSet({j \in Counted : stage[j] = "queued"})
  BY <1>1, FS_Subset
<1>3. QED
  BY <1>2, FS_CardinalityType

LEMMA CountUp ==
    ASSUME JobInv, NEW j \in Jobs, stage[j] # "queued",
           stage' = [stage EXCEPT ![j] = "queued"],
           pending' = IF j \in Counted THEN pending + 1 ELSE pending
    PROVE  PendingCounts'
<1> DEFINE Q == {k \in Counted : stage[k] = "queued"}
           R == {k \in Counted : stage'[k] = "queued"}
<1>1. IsFiniteSet(Q)
  BY ConstAssumption, FS_Subset
<1>2. stage \in [Jobs -> {"new", "posting", "queued", "sent", "kept", "dropped"}] /\ Counted \subseteq Jobs
  BY ConstAssumption DEF JobInv, TypeOK, WorkOK
<1>3. CASE j \in Counted
  <2>1. R = Q \cup {j} /\ j \notin Q
    BY <1>2, <1>3
  <2>2. Cardinality(R) = Cardinality(Q) + 1
    BY <1>1, <2>1, FS_AddElement
  <2>3. QED
    BY <1>3, <2>2 DEF JobInv, PendingCounts
<1>4. CASE j \notin Counted
  <2>1. R = Q
    BY <1>2, <1>4
  <2>2. QED
    BY <1>4, <2>1 DEF JobInv, PendingCounts
<1>5. QED
  BY <1>3, <1>4

LEMMA CountDown ==
    ASSUME JobInv, NEW j \in Jobs, stage[j] = "queued", NEW s, s # "queued",
           stage' = [stage EXCEPT ![j] = s],
           pending' = IF j \in Counted THEN pending - 1 ELSE pending
    PROVE  PendingCounts'
<1> DEFINE Q == {k \in Counted : stage[k] = "queued"}
           R == {k \in Counted : stage'[k] = "queued"}
<1>1. IsFiniteSet(Q)
  BY ConstAssumption, FS_Subset
<1>2. stage \in [Jobs -> {"new", "posting", "queued", "sent", "kept", "dropped"}] /\ Counted \subseteq Jobs
  BY ConstAssumption DEF JobInv, TypeOK, WorkOK
<1>3. CASE j \in Counted
  <2>1. R = Q \ {j} /\ j \in Q
    BY <1>2, <1>3
  <2>2. Cardinality(R) = Cardinality(Q) - 1
    BY <1>1, <2>1, FS_RemoveElement
  <2>3. QED
    BY <1>3, <2>2 DEF JobInv, PendingCounts
<1>4. CASE j \notin Counted
  <2>1. R = Q
    BY <1>2, <1>4
  <2>2. QED
    BY <1>4, <2>1 DEF JobInv, PendingCounts
<1>5. QED
  BY <1>3, <1>4

-----------------------------------------------------------------------------
(* One lemma per group of actions.                                          *)

LEMMA Untouched ==
    ASSUME JobInv, UNCHANGED <<jobVars, cur>>
    PROVE  QueueInv' /\ PendingCounts' /\ pending' \in Nat
  BY DEF JobInv, TypeOK, QueueInv, PendingCounts, jobVars

LEMMA OutdateType ==
    ASSUME TypeOK, Outdate
    PROVE  old' \in [Threads -> BOOLEAN]
  BY DEF TypeOK, CaptureOK, Outdate

LEMMA WorldJob ==
    ASSUME JobInv, World
    PROVE  JobInv'
<1>1. UNCHANGED <<jobVars, workVars>> /\ UNCHANGED glitches
  BY DEF World, Flip, TickSees, TickSettles
<1>2. PathOK' /\ calm' \in BOOLEAN
  <2>1. CASE Flip
    <3>1. home' \in BOOLEAN /\ force' \in BOOLEAN /\ calm' \in BOOLEAN
      BY <2>1 DEF Flip, JobInv, TypeOK, PathOK, pathVars
    <3>2. flips' \in 0..MaxFlips
      BY <2>1, ConstAssumption DEF Flip, JobInv, TypeOK, PathOK
    <3>3. link' \subseteq Interfaces
      BY <2>1 DEF Flip, JobInv, TypeOK, PathOK
    <3>4. QED
      BY <2>1, <3>1, <3>2, <3>3 DEF Flip, JobInv, TypeOK, PathOK, pathVars
  <2>2. CASE TickSees
    BY <2>2 DEF TickSees, JobInv, TypeOK, PathOK, WorkOK, linkVars
  <2>3. CASE TickSettles
    <3>1. home' \in BOOLEAN /\ force' \in BOOLEAN /\ calm' \in BOOLEAN
      BY <2>3 DEF TickSettles, JobInv, TypeOK, PathOK, linkVars
    <3>2. notices' \in Nat
      BY <2>3 DEF TickSettles, JobInv, TypeOK, PathOK
    <3>3. QED
      BY <2>3, <3>1, <3>2 DEF TickSettles, JobInv, TypeOK, PathOK, linkVars
  <2>4. QED
    BY <2>1, <2>2, <2>3 DEF World
<1>3. CaptureOK'
  <2>1. CASE TickSettles
    BY <2>1, OutdateType DEF TickSettles, JobInv, TypeOK, CaptureOK
  <2>2. CASE Flip \/ TickSees
    BY <2>2 DEF Flip, TickSees, JobInv, TypeOK, CaptureOK, capVars
  <2>3. QED
    BY <2>1, <2>2 DEF World
<1>4. WorkOK'
  BY <1>1, <1>2 DEF JobInv, TypeOK, WorkOK, workVars, jobVars
<1>5. QED
  BY <1>1, <1>2, <1>3, <1>4, Untouched DEF JobInv, TypeOK, workVars

LEMMA CaptureJob ==
    ASSUME JobInv, NEW t \in Threads, Capture(t)
    PROVE  JobInv'
<1>1. UNCHANGED <<linkVars, pathVars, jobVars, workVars>> /\ UNCHANGED <<calm, glitches>>
  BY DEF Capture, ReadHost, ReadPort, Store
<1>2. CaptureOK'
  <2>1. CASE ReadHost(t)
    BY <2>1, RouteType DEF ReadHost, JobInv, TypeOK, CaptureOK
  <2>2. CASE ReadPort(t)
    BY <2>2, RouteType DEF ReadPort, JobInv, TypeOK, CaptureOK
  <2>3. CASE Store(t)
    <3>1. desired' \in Endpoints
      BY <2>3 DEF Store, JobInv, TypeOK, CaptureOK, Endpoints
    <3>2. QED
      BY <2>3, <3>1 DEF Store, JobInv, TypeOK, CaptureOK, Routes
  <2>4. QED
    BY <2>1, <2>2, <2>3 DEF Capture
<1>3. PathOK' /\ WorkOK'
  BY <1>1 DEF JobInv, TypeOK, PathOK, WorkOK, workVars, jobVars, linkVars, pathVars
<1>4. QED
  BY <1>1, <1>2, <1>3, Untouched DEF JobInv, TypeOK, workVars

LEMMA ObserverJob ==
    ASSUME JobInv, Observe \/ ApplyEndpoint
    PROVE  JobInv'
<1>1. CASE Observe
  <2>1. PathOK' /\ CaptureOK'
    BY <1>1, ThreadTypes DEF Observe, JobInv, TypeOK, PathOK, CaptureOK, linkVars
  <2>2. WorkOK'
    BY <1>1 DEF Observe, JobInv, TypeOK, WorkOK, workVars, jobVars
  <2>3. QED
    BY <1>1, <2>1, <2>2, Untouched DEF Observe, JobInv, TypeOK, workVars
<1>2. CASE ApplyEndpoint
  <2>1. PathOK' /\ CaptureOK'
    BY <1>2 DEF ApplyEndpoint, JobInv, TypeOK, PathOK, CaptureOK, linkVars, pathVars
  <2>2. queue \in Seq(Jobs \cup {Reconnect}) /\ queue' = Append(queue, Reconnect)
    BY <1>2 DEF ApplyEndpoint, JobInv, TypeOK, WorkOK
  <2>3. queue' \in Seq(Jobs \cup {Reconnect})
    BY <2>2
  <2>4. WorkOK' /\ pending' \in Nat /\ PendingCounts'
    BY <1>2, <2>3 DEF ApplyEndpoint, JobInv, TypeOK, WorkOK, workVars, PendingCounts
  <2>5. \A i \in 1..Len(queue') : queue'[i] \in Jobs => i \in 1..Len(queue) /\ queue'[i] = queue[i]
    BY <2>2, ThreadTypes
  <2>6. QueueInv'
    BY <1>2, <2>5 DEF QueueInv, JobInv, ApplyEndpoint, workVars
  <2>7. QED
    BY <2>1, <2>4, <2>6 DEF JobInv, TypeOK
<1>3. QED
  BY <1>1, <1>2

LEMMA CallerJob ==
    ASSUME JobInv, NEW j \in Jobs, Post(j) \/ Enqueue(j)
    PROVE  JobInv'
<1> USE DEF JobInv
<1>1. CASE Post(j)
  <2>1. PathOK' /\ CaptureOK'
    BY <1>1, ThreadTypes DEF Post, TypeOK, PathOK, CaptureOK, linkVars, pathVars
  <2>2. WorkOK' /\ pending' \in Nat
    BY <1>1 DEF Post, TypeOK, WorkOK, workVars
  <2>3. \A k \in Jobs : (stage'[k] = "queued") = (stage[k] = "queued")
    BY <1>1 DEF Post, TypeOK, WorkOK
  <2>4. QueueInv'
    BY <1>1, <2>3 DEF Post, QueueInv, workVars
  <2>5. {k \in Counted : stage'[k] = "queued"} = {k \in Counted : stage[k] = "queued"}
    BY <2>3, ConstAssumption
  <2>6. PendingCounts'
    BY <1>1, <2>5 DEF Post, PendingCounts
  <2>7. QED
    BY <2>1, <2>2, <2>4, <2>6 DEF TypeOK
<1>2. CASE Enqueue(j)
  <2>1. PathOK' /\ CaptureOK'
    BY <1>2 DEF Enqueue, TypeOK, PathOK, CaptureOK, linkVars, pathVars, capVars
  <2>2. PendingCounts'
    BY <1>2, CountUp DEF Enqueue
  <2>3. queue \in Seq(Jobs \cup {Reconnect}) /\ queue' = Append(queue, j)
    BY <1>2 DEF Enqueue, TypeOK, WorkOK
  <2>4. queue' \in Seq(Jobs \cup {Reconnect})
    BY <2>3
  <2>5. WorkOK' /\ pending' \in Nat
    BY <1>2, <2>4 DEF Enqueue, TypeOK, WorkOK, workVars
  <2>6. /\ \A i \in 1..Len(queue') :
              queue'[i] = IF i \in 1..Len(queue) THEN queue[i] ELSE j
        /\ \A i \in 1..Len(queue') : i \in 1..Len(queue) \/ i = Len(queue) + 1
        /\ Len(queue) \in Nat
    BY <2>3
  <2>7. /\ stage[j] = "posting"
        /\ \A k \in Jobs : stage'[k] = IF k = j THEN "queued" ELSE stage[k]
        /\ cur' = cur
    BY <1>2 DEF Enqueue, TypeOK, WorkOK, workVars
  <2>8. \A i \in 1..Len(queue) : queue[i] # j
    BY <2>7 DEF QueueInv
  <2>9. QueueInv'
    BY <2>6, <2>7, <2>8 DEF QueueInv
  <2>10. QED
    BY <2>1, <2>2, <2>5, <2>9 DEF TypeOK
<1>3. QED
  BY <1>1, <1>2

-----------------------------------------------------------------------------
(* The queue.                                                               *)

LEMMA TakeJobInv ==
    ASSUME JobInv, TakeReconnect \/ TakeJob
    PROVE  JobInv'
<1> USE DEF JobInv
<1>1. /\ queue \in Seq(Jobs \cup {Reconnect}) /\ queue # <<>> /\ queue' = Tail(queue)
      /\ stage' = stage /\ pending' = pending
      /\ wpc = "idle" /\ cur = NoJob
  BY DEF TakeReconnect, TakeJob, TypeOK, WorkOK
<1>2. /\ queue' \in Seq(Jobs \cup {Reconnect})
      /\ \A i \in 1..Len(queue') : i + 1 \in 1..Len(queue) /\ queue'[i] = queue[i + 1]
      /\ 1 \in 1..Len(queue) /\ Head(queue) = queue[1]
      /\ Len(queue) \in Nat /\ Len(queue') \in Nat
  BY <1>1
<1>3. PathOK' /\ CaptureOK' /\ PendingCounts' /\ pending' \in Nat
  BY <1>1 DEF TakeReconnect, TakeJob, TypeOK, PathOK, CaptureOK, PendingCounts,
              linkVars, pathVars, capVars
<1>4. CASE TakeReconnect
  <2>1. WorkOK'
    BY <1>1, <1>2, <1>4, ChannelType DEF TakeReconnect, TypeOK, WorkOK
  <2>2. cur' = cur
    BY <1>4 DEF TakeReconnect
  <2>3. QueueInv'
    BY <1>1, <1>2, <2>2 DEF QueueInv
  <2>4. QED
    BY <1>3, <2>1, <2>3 DEF TypeOK
<1>5. CASE TakeJob
  <2>1. Head(queue) \in Jobs
    BY <1>1, <1>2, <1>5 DEF TakeJob
  <2>2. WorkOK'
    BY <1>1, <1>2, <1>5, <2>1, ConstAssumption DEF TakeJob, TypeOK, WorkOK
  <2>3. cur' = queue[1]
    BY <1>2, <1>5 DEF TakeJob
  <2>4. QueueInv'
    BY <1>1, <1>2, <2>1, <2>3 DEF QueueInv
  <2>5. QED
    BY <1>3, <2>2, <2>4 DEF TypeOK
<1>6. QED
  BY <1>4, <1>5

(* Any end of a put keeps the invariant of the jobs.                        *)
LEMMA EndPutInv ==
    ASSUME JobInv, cur \in Jobs, NEW ok \in BOOLEAN, EndPut(ok) \/ Finish(ok), queue' = queue
    PROVE  /\ QueueInv' /\ PendingCounts' /\ pending' \in Nat
           /\ stage' \in [Jobs -> {"new", "posting", "queued", "sent", "kept", "dropped"}]
           /\ wpc' \in {"idle", "connect", "put", "mark", "capture"}
           /\ cur' \in Jobs \cup {NoJob}
           /\ wpc' = "idle" <=> cur' = NoJob
           /\ nth' \in Nat
           /\ try' \in 0..MaxAttempts
<1> USE DEF JobInv
<1>1. CASE EndPut(ok) /\ ~Finish(ok)
  <2>1. UNCHANGED <<stage, pending, cur>> /\ nth' = nth + 1 /\ wpc' = "connect" /\ try' = 0
    BY <1>1 DEF EndPut
  <2>2. QueueInv' /\ PendingCounts' /\ pending' \in Nat
    BY <2>1, Untouched DEF jobVars
  <2>3. QED
    BY <2>1, <2>2, ConstAssumption DEF TypeOK, WorkOK
<1>2. CASE Finish(ok)
  <2> DEFINE s == IF ok THEN "sent" ELSE IF cur \in Events THEN "kept" ELSE "dropped"
  <2>1. stage[cur] = "queued"
    BY DEF QueueInv
  <2>2. /\ stage' = [stage EXCEPT ![cur] = s]
        /\ s \in {"sent", "kept", "dropped"}
        /\ pending' = IF cur \in Counted THEN pending - 1 ELSE pending
    BY <1>2 DEF Finish
  <2>3. PendingCounts'
    BY <2>1, <2>2, CountDown
  <2>4. pending' \in Nat
    <3>1. IsFiniteSet(Counted)
      BY ConstAssumption, FS_Subset
    <3>2. IsFiniteSet({j \in Counted : stage'[j] = "queued"})
      BY <3>1, FS_Subset
    <3>3. QED
      BY <2>3, <3>2, FS_CardinalityType DEF PendingCounts
  <2>5. /\ stage' \in [Jobs -> {"new", "posting", "queued", "sent", "kept", "dropped"}]
        /\ \A k \in Jobs : k # cur => stage'[k] = stage[k]
    BY <2>2 DEF TypeOK, WorkOK
  <2>6. cur' = NoJob /\ wpc' = "idle" /\ nth' = 0 /\ try' = 0
    BY <1>2 DEF Finish
  <2>7. QueueInv'
    BY <2>5, <2>6, ConstAssumption DEF QueueInv
  <2>8. QED
    BY <2>3, <2>4, <2>5, <2>6, <2>7, ConstAssumption
<1>3. QED
  BY <1>1, <1>2

LEMMA NextTryInv ==
    ASSUME JobInv, cur \in Jobs, NextTry, queue' = queue
    PROVE  /\ QueueInv' /\ PendingCounts' /\ pending' \in Nat
           /\ stage' \in [Jobs -> {"new", "posting", "queued", "sent", "kept", "dropped"}]
           /\ wpc' \in {"idle", "connect", "put", "mark", "capture"}
           /\ cur' \in Jobs \cup {NoJob}
           /\ wpc' = "idle" <=> cur' = NoJob
           /\ nth' \in Nat
           /\ try' \in 0..MaxAttempts
<1>1. CASE try < MaxAttempts
  <2>1. UNCHANGED <<stage, pending, cur, nth>> /\ wpc' = "put" /\ try' = try + 1
    BY <1>1 DEF NextTry
  <2>2. QueueInv' /\ PendingCounts' /\ pending' \in Nat
    BY <2>1, Untouched DEF jobVars
  <2>3. QED
    BY <1>1, <2>1, <2>2, ConstAssumption DEF JobInv, TypeOK, WorkOK
<1>2. CASE ~(try < MaxAttempts)
  <2>1. EndPut(FALSE)
    BY <1>2 DEF NextTry
  <2>2. QED
    BY <2>1, EndPutInv
<1>3. QED
  BY <1>1, <1>2

LEMMA PutInv ==
    ASSUME JobInv, ReadStatus \/ Connect \/ PutOk \/ PutFails \/ MarkLANFailed \/ Fallback
    PROVE  JobInv'
<1> USE DEF JobInv
<1>1. cur \in Jobs /\ cur # NoJob /\ queue' = queue
  BY ConstAssumption DEF ReadStatus, Connect, PutOk, PutFails, MarkLANFailed, Fallback,
                         TypeOK, WorkOK, jobVars
<1>2. CASE ReadStatus
  <2>1. PICK ok \in BOOLEAN : Finish(ok)
    BY <1>2 DEF ReadStatus
  <2>2. QED
    BY <1>1, <1>2, <2>1, EndPutInv, ChannelType
       DEF ReadStatus, TypeOK, WorkOK, PathOK, CaptureOK, linkVars, pathVars, capVars
<1>3. CASE Connect
  <2>1. PathOK' /\ CaptureOK' /\ chan' \in Endpoints \cup {NoChannel} /\ UNCHANGED <<calm, glitches>>
    BY <1>3, ChannelType DEF Connect, TypeOK, PathOK, CaptureOK, linkVars, pathVars, capVars
  <2>2. CASE Channel = NoChannel
    <3>1. EndPut(FALSE)
      BY <1>3, <2>2 DEF Connect
    <3>2. QED
      BY <1>1, <2>1, <3>1, EndPutInv DEF TypeOK, WorkOK
  <2>3. CASE Channel # NoChannel
    <3>1. wpc' = "put" /\ try' = 1 /\ UNCHANGED <<cur, nth, stage, pending>>
      BY <1>3, <2>3 DEF Connect
    <3>2. QueueInv' /\ PendingCounts' /\ pending' \in Nat
      BY <1>1, <3>1, Untouched DEF jobVars
    <3>3. QED
      BY <1>1, <2>1, <3>1, <3>2, ConstAssumption DEF TypeOK, WorkOK
  <2>4. QED
    BY <2>2, <2>3
<1>4. CASE PutOk
  <2>1. EndPut(TRUE)
    BY <1>4 DEF PutOk
  <2>2. QED
    BY <1>1, <1>4, <2>1, EndPutInv
       DEF PutOk, TypeOK, WorkOK, PathOK, CaptureOK, linkVars, pathVars, capVars
<1>5. CASE PutFails
  <2>1. PathOK' /\ CaptureOK' /\ chan' = chan
    BY <1>5 DEF PutFails, TypeOK, PathOK, CaptureOK, linkVars, pathVars, capVars
  <2>2. calm' \in BOOLEAN /\ glitches' \in 0..MaxGlitches
    <3>1. CASE CanPut(chan)
      <4>1. glitches < MaxGlitches /\ glitches' = glitches + 1 /\ calm' = FALSE
        BY <1>5, <3>1 DEF PutFails
      <4>2. QED
        <5>1. glitches' \in 0..MaxGlitches
          BY <4>1, ConstAssumption DEF TypeOK, WorkOK
        <5>2. QED
          BY <4>1, <5>1
    <3>2. CASE ~CanPut(chan)
      BY <1>5, <3>2 DEF PutFails, TypeOK, WorkOK
    <3>3. QED
      BY <3>1, <3>2
  <2>3. CASE NextTry
    BY <1>1, <2>1, <2>2, <2>3, NextTryInv DEF TypeOK, WorkOK
  <2>4. CASE wpc' = "mark" /\ UNCHANGED <<cur, nth, try, stage, pending>>
    <3>1. QueueInv' /\ PendingCounts' /\ pending' \in Nat
      BY <1>1, <2>4, Untouched DEF jobVars
    <3>2. QED
      BY <1>1, <2>1, <2>2, <2>4, <3>1 DEF TypeOK, WorkOK
  <2>5. QED
    BY <1>5, <2>3, <2>4 DEF PutFails
<1>6. CASE MarkLANFailed
  <2>1. UNCHANGED <<jobVars, cur, nth, try, chan, glitches>> /\ wpc' = "capture"
    BY <1>6 DEF MarkLANFailed
  <2>2. calm' \in BOOLEAN
    BY <1>6 DEF MarkLANFailed, TypeOK, WorkOK
  <2>3. PathOK' /\ CaptureOK'
    BY <1>6, OutdateType, ThreadTypes
       DEF MarkLANFailed, TypeOK, PathOK, CaptureOK, linkVars
  <2>4. QueueInv' /\ PendingCounts' /\ pending' \in Nat
    BY <2>1, Untouched
  <2>5. QED
    BY <1>1, <2>1, <2>2, <2>3, <2>4 DEF TypeOK, WorkOK, jobVars
<1>7. CASE Fallback
  <2>1. PathOK' /\ CaptureOK' /\ chan' \in Endpoints \cup {NoChannel} /\ UNCHANGED <<calm, glitches>>
    BY <1>7, ChannelType DEF Fallback, TypeOK, PathOK, CaptureOK, linkVars, pathVars, capVars
  <2>2. NextTry
    BY <1>7 DEF Fallback
  <2>3. QED
    BY <1>1, <2>1, <2>2, NextTryInv DEF TypeOK, WorkOK
<1>8. QED
  BY <1>2, <1>3, <1>4, <1>5, <1>6, <1>7

LEMMA JobInvInit == Init => JobInv
<1> SUFFICES ASSUME Init PROVE JobInv
  OBVIOUS
<1>1. PathOK /\ CaptureOK /\ WorkOK /\ pending \in Nat
  <2>1. PathOK
    <3>1. flips \in 0..MaxFlips /\ notices \in Nat
      BY ConstAssumption DEF Init
    <3>2. home \in BOOLEAN /\ force \in BOOLEAN
      BY DEF Init
    <3>3. QED
      BY <3>1, <3>2 DEF Init, PathOK
  <2>2. CaptureOK
    BY RouteType DEF Init, CaptureOK, Routes
  <2>3. chan \in Endpoints \cup {NoChannel}
    BY RouteType DEF Init
  <2>4. queue \in Seq(Jobs \cup {Reconnect})
    BY DEF Init
  <2>5. WorkOK /\ pending \in Nat
    <3>1. stage \in [Jobs -> {"new", "posting", "queued", "sent", "kept", "dropped"}]
      BY DEF Init
    <3>2. nth \in Nat /\ try \in 0..MaxAttempts /\ glitches \in 0..MaxGlitches /\ pending \in Nat
      BY ConstAssumption DEF Init
    <3>3. QED
      BY <2>3, <2>4, <3>1, <3>2 DEF Init, WorkOK
  <2>6. QED
    BY <2>1, <2>2, <2>5
<1>2. QueueInv
  BY ConstAssumption DEF Init, QueueInv
<1>3. {j \in Counted : stage[j] = "queued"} = {}
  BY ConstAssumption DEF Init
<1>4. PendingCounts
  BY <1>3, FS_EmptySet DEF Init, PendingCounts
<1>5. QED
  BY <1>1, <1>2, <1>4 DEF JobInv, TypeOK

LEMMA JobInvNext == JobInv /\ [Next]_vars => JobInv'
<1> SUFFICES ASSUME JobInv, [Next]_vars PROVE JobInv'
  OBVIOUS
<1>1. CASE World
  BY <1>1, WorldJob
<1>2. CASE Observer
  BY <1>2, ObserverJob, CaptureJob, ThreadTypes DEF Observer
<1>3. ASSUME NEW j \in Jobs, Caller(j) PROVE JobInv'
  BY <1>3, CallerJob, CaptureJob, ThreadTypes DEF Caller
<1>4. CASE Queue
  BY <1>4, TakeJobInv, PutInv, CaptureJob, ThreadTypes DEF Queue
<1>5. CASE UNCHANGED vars
  BY <1>5 DEF vars, linkVars, pathVars, capVars, jobVars, workVars, JobInv, TypeOK, PathOK,
              CaptureOK, WorkOK, QueueInv, PendingCounts
<1>6. CASE Hang
  <2>1. QueueInv' /\ PendingCounts' /\ pending' \in Nat
    BY <1>6, Untouched DEF Hang
  <2>2. PathOK' /\ CaptureOK' /\ chan' \in Endpoints \cup {NoChannel}
    BY <1>6, ChannelType
       DEF Hang, JobInv, TypeOK, PathOK, CaptureOK, WorkOK, linkVars, pathVars, capVars
  <2>3. wpc # "idle" /\ wpc' = "hung" /\ UNCHANGED <<stage, queue, cur, nth, try, calm, glitches>>
    BY <1>6 DEF Hang, jobVars
  <2>4. QED
    BY <2>1, <2>2, <2>3 DEF JobInv, TypeOK, WorkOK
<1>7. QED
  BY <1>1, <1>2, <1>3, <1>4, <1>5, <1>6 DEF Next

(* For any jobs, attempts and networks every variable keeps its type; in    *)
(* particular the backlog counter, an unsigned atomic that the display      *)
(* reads, does not go below zero.                                           *)
THEOREM SftpTypeCorrect == Spec => []TypeOK
<1>1. JobInv => TypeOK
  BY DEF JobInv
<1>2. QED
  BY <1>1, JobInvInit, JobInvNext, PTL DEF Spec

(* The backlog counter counts exactly the counted jobs that are queued or   *)
(* being worked on.                                                         *)
THEOREM BacklogCounts == Spec => []PendingCounts
<1>1. JobInv => PendingCounts
  BY DEF JobInv
<1>2. QED
  BY <1>1, JobInvInit, JobInvNext, PTL DEF Spec

-----------------------------------------------------------------------------
(* The endpoint.                                                            *)

(* What a capture has read is of the route in use unless the route changed  *)
(* since, and the observer and the queue capture only where they should.    *)
FollowInv ==
    /\ \A t \in Threads : ~old[t] =>
          /\ cap[t] \in {"port", "store"} => host[t] = Route
          /\ cap[t] = "store" => port[t] = Route
    /\ cap[Main] # "no" => mpc \in {"shared", "apply"}
    /\ EndpointFollows

(* A change of route outdates the captures under way.                       *)
LEMMA OutdateFollow ==
    ASSUME TypeOK, FollowInv, Outdate, UNCHANGED <<host, port>>,
           NEW t \in Threads, cap'[t] \in {cap[t], "host"}, ~old'[t]
    PROVE  /\ cap'[t] \in {"port", "store"} => host'[t] = Route'
           /\ cap'[t] = "store" => port'[t] = Route'
<1>1. old'[t] = (old[t] \/ (cap[t] \in {"port", "store"} /\ Route' # Route))
  BY DEF Outdate
<1>2. ~old[t]
  BY <1>1
<1>3. cap'[t] \in {"port", "store"} => cap[t] = cap'[t] /\ Route' = Route
  BY <1>1
<1>4. QED
  BY <1>2, <1>3 DEF FollowInv

LEMMA FollowCapture ==
    ASSUME TypeOK, FollowInv, NEW t \in Threads, Capture(t)
    PROVE  FollowInv'
<1>1. Route' = Route /\ notices' = notices /\ wpc' = wpc
  BY DEF Capture, ReadHost, ReadPort, Store, Route, UsingLAN, pathVars, workVars
<1>2. CASE ReadHost(t)
  <2>1. /\ cap \in [Threads -> {"no", "host", "port", "store"}] /\ cap[t] = "host"
        /\ host \in [Threads -> Routes] /\ old \in [Threads -> BOOLEAN]
        /\ cap' = [cap EXCEPT ![t] = "port"] /\ host' = [host EXCEPT ![t] = Route]
        /\ old' = [old EXCEPT ![t] = FALSE] /\ UNCHANGED <<mpc, desired, port, late>>
    BY <1>2 DEF ReadHost, TypeOK, CaptureOK
  <2>2. QED
    BY <1>1, <2>1, ThreadTypes DEF FollowInv, EndpointFollows, Whole
<1>3. CASE ReadPort(t)
  <2>1. /\ cap \in [Threads -> {"no", "host", "port", "store"}] /\ cap[t] = "port"
        /\ port \in [Threads -> Routes]
        /\ cap' = [cap EXCEPT ![t] = "store"] /\ port' = [port EXCEPT ![t] = Route]
        /\ UNCHANGED <<mpc, desired, host, late, old>>
    BY <1>3 DEF ReadPort, TypeOK, CaptureOK
  <2>2. QED
    BY <1>1, <2>1, ThreadTypes DEF FollowInv, EndpointFollows, Whole
<1>4. CASE Store(t)
  <2>1. /\ cap \in [Threads -> {"no", "host", "port", "store"}] /\ cap[t] = "store"
        /\ host \in [Threads -> Routes] /\ port \in [Threads -> Routes]
        /\ old \in [Threads -> BOOLEAN]
        /\ desired' = [host |-> host[t], port |-> port[t]]
        /\ late' = old[t]
        /\ old' = [old EXCEPT ![t] = FALSE]
        /\ cap' = [cap EXCEPT ![t] = IF t = Main /\ mpc = "shared" THEN "host" ELSE "no"]
        /\ mpc' = IF t # Main THEN mpc ELSE IF mpc = "shared" THEN "apply" ELSE "dispatch"
        /\ host' = [host EXCEPT ![t] = "LAN"] /\ port' = [port EXCEPT ![t] = "LAN"]
    BY <1>4 DEF Store, TypeOK, CaptureOK
  <2>2. ~late' => desired' = Whole(Route)'
    BY <1>1, <2>1 DEF FollowInv, Whole
  <2>3. \A u \in Threads : ~old'[u] =>
           /\ cap'[u] \in {"port", "store"} => host'[u] = Route'
           /\ cap'[u] = "store" => port'[u] = Route'
    <3> TAKE u \in Threads
    <3>1. CASE u = t
      BY <2>1, <3>1
    <3>2. CASE u # t
      <4>1. cap'[u] = cap[u] /\ host'[u] = host[u] /\ port'[u] = port[u] /\ old'[u] = old[u]
        BY <2>1, <3>2
      <4>2. QED
        BY <1>1, <4>1 DEF FollowInv
    <3>3. QED
      BY <3>1, <3>2
  <2>4. cap'[Main] # "no" => mpc' \in {"shared", "apply"}
    BY <2>1, ThreadTypes DEF FollowInv
  <2>5. QED
    BY <2>2, <2>3, <2>4 DEF FollowInv, EndpointFollows
<1>5. QED
  BY <1>2, <1>3, <1>4 DEF Capture

(* Actions of the queue other than its capture and the fallback's mark, and *)
(* everything that enters the queue.                                        *)
LEMMA FollowUntouched ==
    ASSUME TypeOK, FollowInv, UNCHANGED <<net, force, notices>>,
           UNCHANGED <<desired, host, port, old, late>>,
           \A t \in Threads : cap'[t] \in {cap[t], "host"},
           cap'[Main] = cap[Main], mpc' \in {mpc, "idle"}, mpc' # mpc => cap[Main] = "no" /\ mpc = "dispatch",
           wpc' # "capture" \/ cap'[Worker] = "no" => wpc # "capture" \/ cap[Worker] = "no"
    PROVE  FollowInv'
<1>1. Route' = Route
  BY DEF Route, UsingLAN
<1>2. \A t \in Threads : ~old'[t] =>
         /\ cap'[t] \in {"port", "store"} => host'[t] = Route'
         /\ cap'[t] = "store" => port'[t] = Route'
  BY <1>1 DEF FollowInv
<1>3. cap'[Main] # "no" => mpc' \in {"shared", "apply"}
  BY DEF FollowInv
<1>4. EndpointFollows'
  BY <1>1 DEF FollowInv, EndpointFollows, Whole
<1>5. QED
  BY <1>2, <1>3, <1>4 DEF FollowInv

LEMMA FollowNext == TypeOK /\ FollowInv /\ [Next]_vars => FollowInv'
<1> SUFFICES ASSUME TypeOK, FollowInv, [Next]_vars PROVE FollowInv'
  OBVIOUS
<1> USE ThreadTypes
<1>1. CASE TickSettles
  <2>1. UNCHANGED <<host, port, mpc, desired, cap, late>> /\ notices' = notices + 1 /\ Outdate
    BY <1>1 DEF TickSettles
  <2>2. notices' # 0
    BY <2>1 DEF TypeOK, PathOK
  <2>3. \A t \in Threads : ~old'[t] =>
           /\ cap'[t] \in {"port", "store"} => host'[t] = Route'
           /\ cap'[t] = "store" => port'[t] = Route'
    BY <2>1, OutdateFollow
  <2>4. QED
    BY <2>1, <2>2, <2>3 DEF FollowInv, EndpointFollows
<1>2. CASE Flip \/ TickSees
  BY <1>2, FollowUntouched DEF Flip, TickSees, pathVars, capVars, workVars
<1>3. CASE Observe
  <2>1. /\ cap \in [Threads -> {"no", "host", "port", "store"}]
        /\ cap' = [cap EXCEPT ![Main] = "host"] /\ mpc' = "shared"
        /\ UNCHANGED <<net, force, desired, host, port, old, late>>
    BY <1>3 DEF Observe, TypeOK, CaptureOK
  <2>2. Route' = Route
    BY <2>1 DEF Route, UsingLAN
  <2>3. QED
    BY <2>1, <2>2 DEF FollowInv, EndpointFollows
<1>4. CASE ApplyEndpoint
  <2>1. cap[Main] = "no"
    BY <1>4 DEF ApplyEndpoint, FollowInv
  <2>2. QED
    BY <1>4, <2>1, FollowUntouched DEF ApplyEndpoint, pathVars, workVars
<1>5. ASSUME NEW t \in Threads, Capture(t) PROVE FollowInv'
  BY <1>5, FollowCapture
<1>6. ASSUME NEW j \in Jobs, Post(j) PROVE FollowInv'
  <2>1. /\ cap \in [Threads -> {"no", "host", "port", "store"}]
        /\ cap' = [cap EXCEPT ![j] = "host"]
        /\ UNCHANGED <<net, force, notices>> /\ UNCHANGED <<desired, host, port, old, late>>
        /\ mpc' = mpc /\ wpc' = wpc
    BY <1>6 DEF Post, TypeOK, CaptureOK, pathVars, workVars
  <2>2. j # Main /\ j # Worker
    BY ConstAssumption
  <2>3. \A t \in Threads : cap'[t] \in {cap[t], "host"}
    BY <2>1
  <2>4. cap'[Main] = cap[Main] /\ cap'[Worker] = cap[Worker]
    BY <2>1, <2>2
  <2>5. QED
    BY <2>1, <2>3, <2>4, FollowUntouched
<1>7. ASSUME NEW j \in Jobs, Enqueue(j) PROVE FollowInv'
  BY <1>7, FollowUntouched DEF Enqueue, pathVars, capVars, workVars
<1>8. CASE MarkLANFailed
  <2>1. /\ cap \in [Threads -> {"no", "host", "port", "store"}]
        /\ cap' = [cap EXCEPT ![Worker] = "host"] /\ Outdate
        /\ UNCHANGED <<host, port, mpc>> /\ wpc' = "capture"
    BY <1>8 DEF MarkLANFailed, TypeOK, CaptureOK
  <2>2. \A t \in Threads : cap'[t] \in {cap[t], "host"}
    BY <2>1
  <2>3. \A t \in Threads : ~old'[t] =>
           /\ cap'[t] \in {"port", "store"} => host'[t] = Route'
           /\ cap'[t] = "store" => port'[t] = Route'
    BY <2>1, <2>2, OutdateFollow
  <2>4. cap'[Worker] = "host" /\ cap'[Main] = cap[Main]
    BY <2>1, ConstAssumption
  <2>5. QED
    BY <2>1, <2>3, <2>4 DEF FollowInv, EndpointFollows
<1>9. CASE TakeReconnect \/ TakeJob \/ ReadStatus \/ Connect \/ PutOk \/ PutFails \/ Fallback
           \/ Hang
  <2>1. UNCHANGED <<net, force, notices, desired, cap, host, port, old, late, mpc>>
    BY <1>9 DEF TakeReconnect, TakeJob, ReadStatus, Connect, PutOk, PutFails, Fallback, Hang,
                pathVars, capVars
  <2>2. wpc # "capture" \/ cap[Worker] = "no"
    BY <1>9 DEF TakeReconnect, TakeJob, ReadStatus, Connect, PutOk, PutFails, Fallback, Hang
  <2>3. QED
    BY <2>1, <2>2, FollowUntouched
<1>10. CASE UNCHANGED vars
  BY <1>10, FollowUntouched DEF vars, pathVars, capVars, workVars
<1>11. QED
  BY <1>1, <1>2, <1>3, <1>4, <1>5, <1>6, <1>7, <1>8, <1>9, <1>10
     DEF Next, World, Observer, Caller, Queue

(* For any number of threads, route changes and failures: once the changes  *)
(* of route have been observed, the desired endpoint is the route's, host   *)
(* and port, unless the thread that stored it last began before a change.   *)
THEOREM RouteFollowed == Spec => []EndpointFollows
<1>1. Init => FollowInv
  BY ThreadTypes DEF Init, FollowInv, EndpointFollows
<1>2. FollowInv => EndpointFollows
  BY DEF FollowInv
<1>3. QED
  BY <1>1, <1>2, FollowNext, SftpTypeCorrect, PTL DEF Spec

-----------------------------------------------------------------------------
(* An upload that nothing disturbs.                                         *)

(* While nothing disturbs a job, no capture is outdated, the endpoint is    *)
(* the route's except during the fallback's own capture, the channel is the *)
(* route's during a put, and a second try is on the WAN.                    *)
CalmInv ==
    calm /\ wpc # "idle" /\ Configured = Routes =>
        /\ \A t \in Threads : ~old[t]
        /\ wpc # "capture" \/ cap[Worker] = "no" => desired = Whole(Route)
        /\ wpc = "put" => chan = Whole(Route) /\ try > 0
        /\ wpc = "put" /\ try > 1 /\ cur \notin Streams => Route = "WAN"
        /\ wpc \in {"mark", "capture"} => try = 1
        /\ wpc = "mark" => Route = "LAN"
        /\ wpc = "capture" => Route = "WAN"

(* What an undisturbed job does to an event.                                *)
CalmStep ==
    \A e \in Events :
        stage[e] # "kept" /\ stage'[e] = "kept" /\ calm' /\ Configured = Routes => link = {}

(* Steps outside the queue, but for captures: the route stays unless calm   *)
(* ends, and nothing the queue works with changes.                          *)
LEMMA CalmOutside ==
    ASSUME TypeOK, CalmInv, UNCHANGED workVars,
           calm' => calm /\ UNCHANGED <<net, force, desired, old>>, cap'[Worker] = cap[Worker]
    PROVE  CalmInv'
  BY DEF CalmInv, Route, UsingLAN, Whole, workVars

LEMMA CalmCapture ==
    ASSUME TypeOK, FollowInv, CalmInv, NEW t \in Threads, Capture(t)
    PROVE  CalmInv'
<1>1. Route' = Route /\ UNCHANGED <<wpc, cur, nth, try, chan>> /\ calm' = calm
  BY DEF Capture, ReadHost, ReadPort, Store, Route, UsingLAN, pathVars, workVars
<1> SUFFICES ASSUME calm, wpc # "idle", Configured = Routes PROVE CalmInv'
  BY <1>1 DEF CalmInv
<1>2. /\ cap \in [Threads -> {"no", "host", "port", "store"}]
      /\ old \in [Threads -> BOOLEAN]
      /\ \A u \in Threads : ~old[u]
  BY DEF CalmInv, TypeOK, CaptureOK
<1>3. \A u \in Threads : ~old'[u]
  <2>1. old' = old \/ old' = [old EXCEPT ![t] = FALSE]
    BY DEF Capture, ReadHost, ReadPort, Store
  <2>2. QED
    BY <1>2, <2>1
<1>4. wpc # "capture" \/ cap'[Worker] = "no" => desired' = Whole(Route)
  <2>1. CASE Store(t)
    <3>1. host[t] = Route /\ port[t] = Route
      BY <1>2, <2>1 DEF FollowInv, Store
    <3>2. QED
      BY <2>1, <3>1 DEF Store, Whole
  <2>2. CASE ReadHost(t) \/ ReadPort(t)
    <3>1. /\ desired' = desired /\ cap[t] # "no"
          /\ cap' = [cap EXCEPT ![t] = "port"] \/ cap' = [cap EXCEPT ![t] = "store"]
      BY <2>2 DEF ReadHost, ReadPort
    <3>2. cap'[Worker] = "no" => cap[Worker] = "no"
      BY <1>2, <3>1, ThreadTypes
    <3>3. QED
      BY <3>1, <3>2 DEF CalmInv
  <2>3. QED
    BY <2>1, <2>2 DEF Capture
<1>5. QED
  BY <1>1, <1>3, <1>4 DEF CalmInv, Whole

(* The job that ends, and how.                                              *)
LEMMA Ended ==
    ASSUME TypeOK, NEW ok \in BOOLEAN, EndPut(ok) \/ Finish(ok), calm' = calm,
           CalmInv, wpc # "idle", UNCHANGED <<net, force, desired, old>>,
           wpc # "capture" \/ cap[Worker] = "no",
           ok \/ (cur \in Events /\ calm /\ Configured = Routes => link = {})
    PROVE  CalmInv' /\ CalmStep
<1>1. (wpc' = "connect" /\ stage' = stage) \/ (wpc' = "idle" /\ Finish(ok))
  BY DEF EndPut, Finish
<1>2. CalmInv'
  BY <1>1 DEF CalmInv, Route, UsingLAN, Whole
<1>3. CalmStep
  <2>1. CASE stage' = stage
    BY <2>1 DEF CalmStep
  <2>2. CASE Finish(ok)
    <3>1. stage' = [stage EXCEPT ![cur] =
                      IF ok THEN "sent" ELSE IF cur \in Events THEN "kept" ELSE "dropped"]
      BY <2>2 DEF Finish
    <3>2. ASSUME NEW e \in Events, stage[e] # "kept", stage'[e] = "kept", calm', Configured = Routes
          PROVE  link = {}
      <4>1. stage \in [Jobs -> {"new", "posting", "queued", "sent", "kept", "dropped"}] /\ e \in Jobs
        BY ConstAssumption DEF TypeOK, WorkOK
      <4>2. e = cur
        BY <3>1, <3>2, <4>1
      <4>3. ~ok
        BY <3>1, <3>2, <4>1, <4>2
      <4>4. QED
        BY <3>2, <4>2, <4>3
    <3>3. QED
      BY <3>2 DEF CalmStep
  <2>3. QED
    BY <1>1, <2>1, <2>2
<1>4. QED
  BY <1>2, <1>3

LEMMA Configures ==
    ASSUME TypeOK, Configured = Routes
    PROVE  Channel = desired /\ Channel # NoChannel
  BY ConfiguredAssumption DEF Channel, TypeOK, CaptureOK, Endpoints

LEMMA CalmTake ==
    ASSUME TypeOK, CalmInv, TakeReconnect \/ TakeJob
    PROVE  CalmInv' /\ CalmStep
<1>1. stage' = stage /\ UNCHANGED <<net, force, desired, old, cap>>
  BY DEF TakeReconnect, TakeJob, pathVars, capVars
<1>2. CalmStep
  BY <1>1 DEF CalmStep
<1>3. CASE TakeReconnect
  BY <1>2, <1>3 DEF TakeReconnect, CalmInv
<1>4. CASE TakeJob
  BY <1>1, <1>2, <1>4 DEF TakeJob, CalmInv, Route, UsingLAN, Whole
<1>5. QED
  BY <1>3, <1>4

LEMMA CalmStatus ==
    ASSUME TypeOK, CalmInv, ReadStatus
    PROVE  CalmInv' /\ CalmStep
<1>1. PICK ok \in BOOLEAN : Finish(ok)
  BY DEF ReadStatus
<1>2. cur \notin Events /\ wpc = "connect" /\ calm' = calm
  BY ConstAssumption DEF ReadStatus
<1>3. UNCHANGED <<net, force, desired, old>>
  BY DEF ReadStatus, pathVars, capVars
<1>4. QED
  BY <1>1, <1>2, <1>3, Ended

LEMMA CalmConnect ==
    ASSUME TypeOK, CalmInv, Connect
    PROVE  CalmInv' /\ CalmStep
<1>1. UNCHANGED <<net, force, desired, old, cap, calm>> /\ wpc = "connect" /\ chan' = Channel
  BY DEF Connect, pathVars, capVars
<1>2. CASE Channel = NoChannel
  <2>1. EndPut(FALSE)
    BY <1>2 DEF Connect
  <2>2. Configured # Routes
    BY <1>2, Configures
  <2>3. QED
    BY <1>1, <2>1, <2>2, Ended
<1>3. CASE Channel # NoChannel
  <2>1. wpc' = "put" /\ try' = 1 /\ UNCHANGED <<cur, stage>>
    BY <1>3 DEF Connect
  <2>2. CalmInv'
    BY <1>1, <2>1, Configures DEF CalmInv, Route, UsingLAN, Whole
  <2>3. QED
    BY <2>1, <2>2 DEF CalmStep
<1>4. QED
  BY <1>2, <1>3

LEMMA CalmPut ==
    ASSUME TypeOK, CalmInv, PutOk
    PROVE  CalmInv' /\ CalmStep
<1>1. EndPut(TRUE) /\ wpc = "put" /\ calm' = calm
  BY DEF PutOk
<1>2. UNCHANGED <<net, force, desired, old>>
  BY DEF PutOk, pathVars, capVars
<1>3. QED
  BY <1>1, <1>2, Ended

(* A put that fails without a reason disturbs the job; one that fails on    *)
(* the WAN has found no interface up.                                       *)
LEMMA CalmPutFails ==
    ASSUME TypeOK, CalmInv, PutFails
    PROVE  CalmInv' /\ CalmStep
<1>1. UNCHANGED <<net, force, desired, old, cap, link, chan>> /\ wpc = "put" /\ (calm' => calm)
  BY DEF PutFails, pathVars, capVars, linkVars
<1>2. Route' = Route
  BY <1>1 DEF Route, UsingLAN
<1>3. try \in 0..MaxAttempts /\ MaxAttempts \in Nat /\ MaxAttempts > 1
  BY ConstAssumption DEF TypeOK, WorkOK
<1>4. CASE wpc' = "mark" /\ UNCHANGED <<cur, nth, try, stage, pending>> /\ try = 1 /\ UsingLAN
  <2>1. CalmInv'
    BY <1>1, <1>2, <1>4 DEF CalmInv, Route, Whole
  <2>2. QED
    BY <1>4, <2>1 DEF CalmStep
<1>5. CASE NextTry /\ (cur \in Streams \/ try # 1 \/ ~UsingLAN)
  <2>1. calm /\ Configured = Routes /\ cur \notin Streams => Route = "WAN"
    BY <1>1, <1>3, <1>5 DEF CalmInv, Route
  <2>2. CASE try < MaxAttempts
    <3>1. try' = try + 1 /\ wpc' = "put" /\ UNCHANGED <<cur, stage>>
      BY <1>5, <2>2 DEF NextTry
    <3>2. CalmInv'
      BY <1>1, <1>2, <1>3, <2>1, <3>1 DEF CalmInv, Whole
    <3>3. QED
      BY <3>1, <3>2 DEF CalmStep
  <2>3. CASE ~(try < MaxAttempts)
    <3>1. EndPut(FALSE)
      BY <1>5, <2>3 DEF NextTry
    <3>2. CASE calm' = calm
      <4>1. ASSUME cur \in Events, calm, Configured = Routes PROVE link = {}
        <5>1. Route = "WAN" /\ chan = Whole("WAN")
          BY <1>1, <2>1, <4>1, ConstAssumption DEF CalmInv
        <5>2. ~CanPut(chan)
          BY <3>2, <4>1 DEF PutFails
        <5>3. chan # NoChannel
          BY <5>1, RouteType, ConfiguredAssumption DEF Routes
        <5>4. QED
          BY <5>1, <5>2, <5>3 DEF CanPut, Answers, Whole
      <4>2. QED
        BY <1>1, <3>1, <3>2, <4>1, Ended
    <3>3. CASE ~calm'
      BY <3>3 DEF CalmInv, CalmStep
    <3>4. calm' = calm \/ ~calm'
      BY DEF PutFails
    <3>5. QED
      BY <3>2, <3>3, <3>4
  <2>4. QED
    BY <2>2, <2>3
<1>6. QED
  BY <1>4, <1>5 DEF PutFails

(* The mark leaves the LAN, and calm only lasts if nobody was capturing.    *)
LEMMA CalmMark ==
    ASSUME TypeOK, CalmInv, MarkLANFailed
    PROVE  CalmInv' /\ CalmStep
<1>1. /\ wpc = "mark" /\ wpc' = "capture" /\ UNCHANGED <<stage, cur, try, chan>>
      /\ net' = net /\ force' = (force \/ "wifi" \in net)
      /\ calm' = (calm /\ \A t \in Threads : ~old'[t])
      /\ cap' = [cap EXCEPT ![Worker] = "host"]
      /\ cap \in [Threads -> {"no", "host", "port", "store"}]
  BY DEF MarkLANFailed, TypeOK, CaptureOK, jobVars
<1>2. cap'[Worker] = "host"
  BY <1>1, ThreadTypes
<1>3. Route = "LAN" => Route' = "WAN"
  BY <1>1 DEF Route, UsingLAN
<1>4. CalmInv'
  BY <1>1, <1>2, <1>3 DEF CalmInv
<1>5. QED
  BY <1>1, <1>4 DEF CalmStep

LEMMA CalmFallback ==
    ASSUME TypeOK, CalmInv, Fallback
    PROVE  CalmInv' /\ CalmStep
<1>1. /\ UNCHANGED <<net, force, desired, old, cap, calm>> /\ chan' = Channel
      /\ wpc = "capture" /\ cap[Worker] = "no" /\ NextTry
  BY DEF Fallback, pathVars, capVars
<1>2. try \in 0..MaxAttempts /\ MaxAttempts \in Nat /\ MaxAttempts > 1
  BY ConstAssumption DEF TypeOK, WorkOK
<1>3. CASE try < MaxAttempts
  <2>1. try' = try + 1 /\ wpc' = "put" /\ UNCHANGED <<cur, stage>>
    BY <1>1, <1>3 DEF NextTry
  <2>2. CalmInv'
    BY <1>1, <1>2, <2>1, Configures DEF CalmInv, Route, UsingLAN, Whole
  <2>3. QED
    BY <2>1, <2>2 DEF CalmStep
<1>4. CASE ~(try < MaxAttempts)
  <2>1. EndPut(FALSE)
    BY <1>1, <1>4 DEF NextTry
  <2>2. ~(calm /\ Configured = Routes)
    BY <1>1, <1>2, <1>4 DEF CalmInv
  <2>3. QED
    BY <1>1, <2>1, <2>2, Ended
<1>5. QED
  BY <1>3, <1>4

LEMMA CalmNext == TypeOK /\ FollowInv /\ CalmInv /\ [Next]_vars => CalmInv' /\ CalmStep
<1> SUFFICES ASSUME TypeOK, FollowInv, CalmInv, [Next]_vars PROVE CalmInv' /\ CalmStep
  OBVIOUS
<1>1. CASE World
  BY <1>1, CalmOutside DEF World, Flip, TickSees, TickSettles, CalmStep, jobVars, capVars
<1>2. CASE Observe \/ ApplyEndpoint
  <2>1. cap'[Worker] = cap[Worker]
    BY <1>2, ThreadTypes, ConstAssumption DEF Observe, ApplyEndpoint, TypeOK, CaptureOK
  <2>2. /\ UNCHANGED <<stage, net, force, desired, old, calm>> /\ UNCHANGED workVars
    BY <1>2 DEF Observe, ApplyEndpoint, jobVars, pathVars
  <2>3. QED
    BY <2>1, <2>2, CalmOutside DEF CalmStep
<1>3. ASSUME NEW t \in Threads, Capture(t) PROVE CalmInv' /\ CalmStep
  BY <1>3, CalmCapture DEF CalmStep, Capture, ReadHost, ReadPort, Store, jobVars
<1>4. ASSUME NEW j \in Jobs, Post(j) \/ Enqueue(j) PROVE CalmInv' /\ CalmStep
  <2>1. cap'[Worker] = cap[Worker]
    BY <1>4, ConstAssumption DEF Post, Enqueue, TypeOK, CaptureOK, capVars, Threads
  <2>2. UNCHANGED <<net, force, desired, old, calm>> /\ UNCHANGED workVars
    BY <1>4 DEF Post, Enqueue, pathVars, capVars
  <2>3. \A e \in Events : stage'[e] = "kept" => stage[e] = "kept"
    BY <1>4, ConstAssumption DEF Post, Enqueue, TypeOK, WorkOK
  <2>4. QED
    BY <2>1, <2>2, <2>3, CalmOutside DEF CalmStep
<1>5. CASE TakeReconnect \/ TakeJob
  BY <1>5, CalmTake
<1>6. CASE ReadStatus \/ Connect \/ PutOk
  BY <1>6, CalmStatus, CalmConnect, CalmPut
<1>7. CASE PutFails \/ MarkLANFailed \/ Fallback
  BY <1>7, CalmPutFails, CalmMark, CalmFallback
<1>8. CASE UNCHANGED vars
  <2>1. UNCHANGED <<stage, net, force, desired, old, calm, cap>> /\ UNCHANGED workVars
    BY <1>8 DEF vars, jobVars, pathVars, capVars
  <2>2. QED
    BY <2>1, CalmOutside DEF CalmStep
<1>9. CASE Hang
  <2>1. UNCHANGED <<stage, net, force, desired, old, calm, cap>> /\ wpc # "idle" /\ wpc' = "hung"
    BY <1>9 DEF Hang, jobVars, pathVars, capVars
  <2>2. wpc # "capture"
    BY <1>9 DEF Hang
  <2>3. QED
    BY <2>1, <2>2 DEF CalmInv, CalmStep, Route, UsingLAN, Whole
<1>10. QED
  BY <1>1, <1>2, <1>3, <1>4, <1>5, <1>6, <1>7, <1>8, <1>9, ThreadTypes
     DEF Next, World, Observer, Caller, Queue

(* With both hosts configured, whatever the threads and the network do: an  *)
(* event that nothing disturbed while the queue worked on it is kept on the *)
(* phone only if no interface is up.                                        *)
THEOREM KeptWhenOffline == Spec => KeptOnlyDisturbed
<1>1. Init => FollowInv /\ CalmInv
  BY ThreadTypes DEF Init, FollowInv, EndpointFollows, CalmInv
<1>2. CalmStep =>
         [\A e \in Events : stage[e] # "kept" /\ stage'[e] = "kept" /\ calm' /\ Configured = Routes
                               => link = {}]_vars
  BY DEF CalmStep
<1>3. QED
  BY <1>1, <1>2, FollowNext, CalmNext, SftpTypeCorrect, PTL DEF Spec, KeptOnlyDisturbed
=============================================================================

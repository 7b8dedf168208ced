----------------------------- MODULE SftpClient -----------------------------
(***************************************************************************)
(* The phone's upload queue and the route its uploads take.                *)
(*                                                                         *)
(* WeChatIngestSftpInboxClient runs every put on one serial queue, over    *)
(* one SSH channel.  Which host and port the channel should have is kept   *)
(* in the desired endpoint; threads that enqueue, the observer of network  *)
(* changes, and the queue itself after a failure on the LAN each capture   *)
(* it anew: they ask the settings for the host, ask them again for the     *)
(* port, and store both.  WXIngestNetwork decides the route: LAN on a      *)
(* settled Wi-Fi unless a LAN put failed since the network last settled,   *)
(* WAN otherwise.                                                          *)
(*                                                                         *)
(* Automatic switching is on, and settings are not edited.  The bytes of a *)
(* put are InboxConsumer's subject; here a put succeeds or fails.  link is *)
(* what getifaddrs would say, home is whether the LAN host answers.        *)
(* Operators named Slip... are deliberate errors: no specification uses    *)
(* them, they stand for the bugs that the properties below would catch.    *)
(***************************************************************************)
EXTENDS Naturals, Sequences, FiniteSets

CONSTANTS
    Jobs,        \* blocks that threads enqueue
    Events,      \* those of enqueueEvent: kept on the phone when they fail
    Counted,     \* those that the pending counter counts
    Streams,     \* those of enqueueLocalFile: no change of route on failure
    Puts,        \* Puts[j]: number of files j puts (0: it reads the server's status)
    Configured,  \* routes whose host is not empty
    MaxAttempts, \* maxAttempts
    MaxFlips,    \* bound on changes of link and home
    MaxGlitches, \* bound on puts that fail although the host answers
    Main,        \* the thread of the network observer
    Worker,      \* the serial queue
    NoJob, NoChannel

ASSUME ConstAssumption ==
    /\ IsFiniteSet(Jobs)
    /\ Events \subseteq Counted
    /\ Counted \subseteq Jobs
    /\ Streams \subseteq Jobs \ Events
    /\ Puts \in [Jobs -> Nat]
    /\ \A e \in Events : Puts[e] > 0
    /\ MaxAttempts \in Nat /\ MaxAttempts > 1
    /\ MaxFlips \in Nat
    /\ MaxGlitches \in Nat
    /\ Main \notin Jobs /\ Worker \notin Jobs /\ NoJob \notin Jobs
    /\ Main # Worker

Routes == {"LAN", "WAN"}
Endpoints == [host : Routes, port : Routes]
Interfaces == {"wifi", "cell"}
Threads == Jobs \cup {Main, Worker}

ASSUME ConfiguredAssumption ==
    /\ Configured \subseteq Routes
    /\ NoChannel \notin Endpoints

VARIABLES
    link,     \* interfaces that are up
    home,     \* the LAN host answers
    seen,     \* gSeenWifi, gSeenCell
    net,      \* gWifi, gCell
    force,    \* gForceWan
    notices,  \* change notifications posted and not yet observed
    mpc,      \* the observer: in the capture of sharedClientWithDefaults, in its own
    desired,  \* _desiredHost, _desiredPort: the route each belongs to
    cap,      \* cap[t]: the next step of thread t's capture
    host,     \* host[t]: the host t has read, "LAN" between captures
    port,     \* port[t]: the port t has read, "LAN" between captures
    old,      \* old[t]: the route changed since t read the host
    late,     \* the last store came from such a capture
    stage,    \* stage[j]: what became of j
    queue,    \* blocks in the serial queue
    pending,  \* _pending
    wpc,      \* the next step of the queue
    cur,      \* the job it works on
    nth,      \* which of the job's puts
    try,      \* attempt
    chan,     \* self.channel: its endpoint, or NoChannel
    calm,     \* nothing has disturbed cur: see KeptOnlyDisturbed
    flips, glitches

linkVars == <<link, home, flips>>
pathVars == <<seen, net, force, notices>>
capVars  == <<mpc, desired, cap, host, port, old, late>>
jobVars  == <<stage, queue, pending>>
workVars == <<wpc, cur, nth, try, chan>>
vars == <<linkVars, pathVars, capVars, jobVars, workVars, calm, glitches>>

(* The observer's block of applyCurrentEndpoint.                            *)
Reconnect == Main

PathOK ==
    /\ link \subseteq Interfaces /\ seen \subseteq Interfaces /\ net \subseteq Interfaces
    /\ home \in BOOLEAN /\ force \in BOOLEAN
    /\ notices \in Nat
    /\ flips \in 0..MaxFlips

CaptureOK ==
    /\ mpc \in {"idle", "shared", "apply", "dispatch"}
    /\ desired \in Endpoints
    /\ cap \in [Threads -> {"no", "host", "port", "store"}]
    /\ host \in [Threads -> Routes]
    /\ port \in [Threads -> Routes]
    /\ old \in [Threads -> BOOLEAN]
    /\ late \in BOOLEAN

WorkOK ==
    /\ stage \in [Jobs -> {"new", "posting", "queued", "sent", "kept", "dropped"}]
    /\ queue \in Seq(Jobs \cup {Reconnect})
    /\ wpc \in {"idle", "connect", "put", "mark", "capture", "hung"}
    /\ cur \in Jobs \cup {NoJob}
    /\ wpc = "idle" <=> cur = NoJob
    /\ nth \in Nat
    /\ try \in 0..MaxAttempts
    /\ chan \in Endpoints \cup {NoChannel}
    /\ calm \in BOOLEAN
    /\ glitches \in 0..MaxGlitches

(* The type invariant.                                                      *)
TypeOK == PathOK /\ CaptureOK /\ WorkOK /\ pending \in Nat

-----------------------------------------------------------------------------
(* The route.                                                               *)

(* preferLAN and usingLAN.                                                  *)
UsingLAN == "wifi" \in net /\ ~force
Route == IF UsingLAN THEN "LAN" ELSE "WAN"

Whole(r) == [host |-> r, port |-> r]

Answers(r) == IF r = "LAN" THEN "wifi" \in link /\ home ELSE link # {}

(* Captures under way when the route changes hold a host, and perhaps a     *)
(* port, of the route before.                                               *)
Outdate ==
    old' = [t \in Threads |-> old[t] \/ (cap[t] \in {"port", "store"} /\ Route' # Route)]

Init ==
    /\ link \in SUBSET Interfaces
    /\ home \in BOOLEAN
    /\ seen = link
    /\ net = link
    /\ force = FALSE
    /\ notices = 0
    /\ mpc = "idle"
    /\ desired = Whole(Route)
    /\ cap = [t \in Threads |-> "no"]
    /\ host = [t \in Threads |-> "LAN"]
    /\ port = [t \in Threads |-> "LAN"]
    /\ old = [t \in Threads |-> FALSE]
    /\ late = FALSE
    /\ stage = [j \in Jobs |-> "new"]
    /\ queue = <<>>
    /\ pending = 0
    /\ wpc = "idle"
    /\ cur = NoJob
    /\ nth = 0
    /\ try = 0
    /\ chan = IF Route \in Configured THEN desired ELSE NoChannel
    /\ calm = FALSE
    /\ flips = 0
    /\ glitches = 0

-----------------------------------------------------------------------------
(* The world, and WXIngestNetwork's 2-second tick.                          *)

Flip ==
    /\ flips < MaxFlips
    /\ flips' = flips + 1
    /\ \/ link' \in (SUBSET Interfaces) \ {link} /\ home' = home
       \/ link' = link /\ home' = ~home
    /\ calm' = FALSE
    /\ UNCHANGED <<pathVars, capVars, jobVars, workVars, glitches>>

(* Something differs from the tick before: wait for the next tick.          *)
TickSees ==
    /\ link # seen
    /\ seen' = link
    /\ UNCHANGED <<linkVars, net, force, notices, capVars, jobVars, workVars, calm, glitches>>

(* The slip: the new state is taken over but nobody is told.                *)
SlipNoNotice ==
    /\ link = seen
    /\ seen # net
    /\ net' = seen
    /\ force' = FALSE
    /\ Outdate
    /\ calm' = FALSE
    /\ UNCHANGED <<linkVars, seen, notices, mpc, desired, cap, host, port, late,
                   jobVars, workVars, glitches>>

(* The same interfaces for 1.6 seconds, and not those in use.               *)
TickSettles ==
    /\ link = seen
    /\ seen # net
    /\ net' = seen
    /\ force' = FALSE
    /\ notices' = notices + 1
    /\ Outdate
    /\ calm' = FALSE
    /\ UNCHANGED <<linkVars, seen, mpc, desired, cap, host, port, late,
                   jobVars, workVars, glitches>>

-----------------------------------------------------------------------------
(* captureDesiredEndpoint, by any thread.                                   *)

Post(j) ==
    /\ stage[j] = "new"
    /\ stage' = [stage EXCEPT ![j] = "posting"]
    /\ cap' = [cap EXCEPT ![j] = "host"]
    /\ UNCHANGED <<linkVars, pathVars, mpc, desired, host, port, old, late,
                   queue, pending, workVars, calm, glitches>>

Observe ==
    /\ mpc = "idle"
    /\ notices > 0
    /\ notices' = notices - 1
    /\ mpc' = "shared"
    /\ cap' = [cap EXCEPT ![Main] = "host"]
    /\ UNCHANGED <<linkVars, seen, net, force, desired, host, port, old, late,
                   jobVars, workVars, calm, glitches>>

ReadHost(t) ==
    /\ cap[t] = "host"
    /\ host' = [host EXCEPT ![t] = Route]
    /\ old' = [old EXCEPT ![t] = FALSE]
    /\ cap' = [cap EXCEPT ![t] = "port"]
    /\ UNCHANGED <<linkVars, pathVars, mpc, desired, port, late, jobVars, workVars, calm, glitches>>

ReadPort(t) ==
    /\ cap[t] = "port"
    /\ port' = [port EXCEPT ![t] = Route]
    /\ cap' = [cap EXCEPT ![t] = "store"]
    /\ UNCHANGED <<linkVars, pathVars, mpc, desired, host, old, late, jobVars, workVars, calm, glitches>>

Store(t) ==
    /\ cap[t] = "store"
    /\ desired' = [host |-> host[t], port |-> port[t]]
    /\ late' = old[t]
    /\ old' = [old EXCEPT ![t] = FALSE]
    /\ cap' = [cap EXCEPT ![t] = IF t = Main /\ mpc = "shared" THEN "host" ELSE "no"]
    /\ mpc' = IF t # Main THEN mpc ELSE IF mpc = "shared" THEN "apply" ELSE "dispatch"
    /\ host' = [host EXCEPT ![t] = "LAN"]
    /\ port' = [port EXCEPT ![t] = "LAN"]
    /\ UNCHANGED <<linkVars, pathVars, jobVars, workVars, calm, glitches>>

Capture(t) == ReadHost(t) \/ ReadPort(t) \/ Store(t)

-----------------------------------------------------------------------------
(* Blocks enter the queue.                                                  *)

Enqueue(j) ==
    /\ stage[j] = "posting"
    /\ cap[j] = "no"
    /\ stage' = [stage EXCEPT ![j] = "queued"]
    /\ pending' = IF j \in Counted THEN pending + 1 ELSE pending
    /\ queue' = Append(queue, j)
    /\ UNCHANGED <<linkVars, pathVars, capVars, workVars, calm, glitches>>

ApplyEndpoint ==
    /\ mpc = "dispatch"
    /\ mpc' = "idle"
    /\ queue' = Append(queue, Reconnect)
    /\ UNCHANGED <<linkVars, pathVars, desired, cap, host, port, old, late,
                   stage, pending, workVars, calm, glitches>>

-----------------------------------------------------------------------------
(* The queue works.                                                         *)

(* reconnectOnQueue: the channel for the desired endpoint.                  *)
Channel == IF desired.host \in Configured THEN desired ELSE NoChannel

TakeReconnect ==
    /\ wpc = "idle"
    /\ queue # <<>> /\ Head(queue) = Reconnect
    /\ queue' = Tail(queue)
    /\ chan' = Channel
    /\ UNCHANGED <<linkVars, pathVars, capVars, stage, pending, wpc, cur, nth, try, calm, glitches>>

TakeJob ==
    /\ wpc = "idle"
    /\ queue # <<>> /\ Head(queue) # Reconnect
    /\ queue' = Tail(queue)
    /\ cur' = Head(queue)
    /\ nth' = 1
    /\ wpc' = "connect"
    /\ calm' = (desired = Whole(Route) /\ \A t \in Threads : ~old[t])
    /\ UNCHANGED <<linkVars, pathVars, capVars, stage, pending, try, chan, glitches>>

(* The slip: jobs that were never counted are counted off.                  *)
SlipCountOff(ok) ==
    /\ stage' = [stage EXCEPT ![cur] =
                    IF ok THEN "sent" ELSE IF cur \in Events THEN "kept" ELSE "dropped"]
    /\ pending' = pending - 1
    /\ wpc' = "idle"
    /\ cur' = NoJob
    /\ nth' = 0
    /\ try' = 0

(* The block ends; an event whose json was not put is kept in a local       *)
(* directory, which nothing empties.                                        *)
Finish(ok) ==
    /\ stage' = [stage EXCEPT ![cur] =
                    IF ok THEN "sent" ELSE IF cur \in Events THEN "kept" ELSE "dropped"]
    /\ pending' = IF cur \in Counted THEN pending - 1 ELSE pending
    /\ wpc' = "idle"
    /\ cur' = NoJob
    /\ nth' = 0
    /\ try' = 0

(* One put of the job is over; the next one, the json after the body, is    *)
(* done whatever became of it.                                              *)
EndPut(ok) ==
    IF nth < Puts[cur]
      THEN /\ nth' = nth + 1
           /\ wpc' = "connect"
           /\ try' = 0
           /\ UNCHANGED <<cur, stage, pending>>
      ELSE Finish(ok)

CanPut(ch) == ch # NoChannel /\ ch.host = ch.port /\ Answers(ch.host)

(* fetchServerStatusWithCompletion.                                         *)
ReadStatus ==
    /\ wpc = "connect"
    /\ Puts[cur] = 0
    /\ chan' = Channel
    /\ \E ok \in BOOLEAN : (ok => CanPut(Channel)) /\ Finish(ok)
    /\ UNCHANGED <<linkVars, pathVars, capVars, queue, calm, glitches>>

(* putWithRetry and putFileWithRetry.                                       *)
Connect ==
    /\ wpc = "connect"
    /\ Puts[cur] > 0
    /\ chan' = Channel
    /\ IF Channel = NoChannel
         THEN EndPut(FALSE)
         ELSE wpc' = "put" /\ try' = 1 /\ UNCHANGED <<cur, nth, stage, pending>>
    /\ UNCHANGED <<linkVars, pathVars, capVars, queue, calm, glitches>>

PutOk ==
    /\ wpc = "put"
    /\ CanPut(chan)
    /\ EndPut(TRUE)
    /\ UNCHANGED <<linkVars, pathVars, capVars, queue, chan, calm, glitches>>

(* The slip: try until it works.                                            *)
SlipForever == wpc' = "put" /\ UNCHANGED <<cur, nth, try, stage, pending>>

NextTry ==
    IF try < MaxAttempts
      THEN try' = try + 1 /\ wpc' = "put" /\ UNCHANGED <<cur, nth, stage, pending>>
      ELSE EndPut(FALSE)

(* The first failure on the LAN goes through the fallback.                  *)
PutFails ==
    /\ wpc = "put"
    /\ IF CanPut(chan)
         THEN glitches < MaxGlitches /\ glitches' = glitches + 1 /\ calm' = FALSE
         ELSE UNCHANGED <<glitches, calm>>
    /\ IF cur \notin Streams /\ try = 1 /\ UsingLAN
         THEN wpc' = "mark" /\ UNCHANGED <<cur, nth, try, stage, pending>>
         ELSE NextTry
    /\ UNCHANGED <<linkVars, pathVars, capVars, queue, chan>>

(* The slip: the LAN is not avoided, and the capture finds it again.        *)
SlipNotMarked ==
    /\ wpc = "mark"
    /\ wpc' = "capture"
    /\ cap' = [cap EXCEPT ![Worker] = "host"]
    /\ UNCHANGED <<linkVars, pathVars, mpc, desired, host, port, old, late,
                   jobVars, cur, nth, try, chan, calm, glitches>>

(* markLANFailed looks at the Wi-Fi again.                                  *)
MarkLANFailed ==
    /\ wpc = "mark"
    /\ force' = (force \/ "wifi" \in net)
    /\ net' = net
    /\ Outdate
    /\ calm' = (calm /\ \A t \in Threads : ~old'[t])
    /\ wpc' = "capture"
    /\ cap' = [cap EXCEPT ![Worker] = "host"]
    /\ UNCHANGED <<linkVars, seen, notices, mpc, desired, host, port, late,
                   jobVars, cur, nth, try, chan, glitches>>

Fallback ==
    /\ wpc = "capture"
    /\ cap[Worker] = "no"
    /\ chan' = Channel
    /\ NextTry
    /\ UNCHANGED <<linkVars, pathVars, capVars, queue, calm, glitches>>

(* The session is blocking and has no timeout, and the socket no keepalive: *)
(* a put or a read of the status whose answer is lost, with the route it    *)
(* came by or with the server, waits for ever, and the queue with it.       *)
Hang ==
    /\ \/ wpc = "put" /\ chan' = chan
       \/ wpc = "connect" /\ Puts[cur] = 0 /\ Channel # NoChannel /\ chan' = Channel
    /\ wpc' = "hung"
    /\ UNCHANGED <<linkVars, pathVars, capVars, jobVars, cur, nth, try, calm, glitches>>

-----------------------------------------------------------------------------
World == Flip \/ TickSees \/ TickSettles

Observer == Observe \/ Capture(Main) \/ ApplyEndpoint

Caller(j) == Post(j) \/ Capture(j) \/ Enqueue(j)

Queue ==
    \/ TakeReconnect \/ TakeJob \/ ReadStatus \/ Connect \/ PutOk \/ PutFails
    \/ MarkLANFailed \/ Capture(Worker) \/ Fallback

Next == World \/ Observer \/ (\E j \in Jobs : Caller(j)) \/ Queue \/ Hang

Spec == Init /\ [][Next]_vars

(* The system runs the blocks of the serial queue: as long as no answer is  *)
(* lost for good, a put ends one way or the other.  Nothing is assumed of   *)
(* the network or of the callers, nor that a put does not hang.             *)
FairSpec == Spec /\ WF_vars(Queue)

-----------------------------------------------------------------------------
(* Properties.                                                              *)

(* Once every change of route has been observed, the endpoint the queue     *)
(* will connect to is that of the route in use, host and port, unless the   *)
(* last thread that stored it had read the host before the change.          *)
EndpointFollows ==
    /\ notices = 0
    /\ mpc \in {"idle", "dispatch"}
    /\ wpc # "capture" \/ cap[Worker] = "no"
    /\ ~late
    => desired = Whole(Route)

(* The backlog the display shows is the number of counted jobs that are in  *)
(* the queue or being worked on: none is counted twice or left counted.     *)
PendingCounts == pending = Cardinality({j \in Counted : stage[j] = "queued"})

(* With both hosts configured, an event whose upload nothing disturbed - no *)
(* change of the network, no put that failed without reason, no capture     *)
(* that straddled a change of route - is not kept on the phone unless it    *)
(* is offline: a LAN that does not answer makes the queue try the WAN.  (A  *)
(* phone on Wi-Fi that has only a WAN host keeps everything: the LAN route  *)
(* then has no host, and putWithRetry gives up without the fallback.)       *)
KeptOnlyDisturbed ==
    [][\A e \in Events :
          stage[e] # "kept" /\ stage'[e] = "kept" /\ calm' /\ Configured = Routes
              => link = {}]_vars

(* However puts fail, the queue runs empty and the backlog counter that the *)
(* display shows returns to zero, unless a call on the session never        *)
(* returns: that is the only way in which the queue can stand still.        *)
BacklogClears ==
    []<>(pending = 0 /\ queue = <<>> /\ wpc = "idle") \/ <>[](wpc = "hung")
=============================================================================

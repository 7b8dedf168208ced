---------------------------- MODULE MediaCapture ----------------------------
(***************************************************************************)
(* From WeChat's message callbacks to the upload queue (MessageHooks.m).   *)
(*                                                                         *)
(* Three methods of CMessageMgr are hooked, and WeChat calls them on       *)
(* threads of its own, more than one of them for the same message.  A      *)
(* hook drops what the table of seen messages holds and what the settings  *)
(* do not select; it hands text, and media the settings leave out, to the  *)
(* queue at once.  Any other medium becomes the pending item of its        *)
(* message, and a chain of timers tries to extract its body until it finds *)
(* one or has tried often enough; then it hands the item over, with the    *)
(* body or without.  Chains run on a concurrent queue, and look up the     *)
(* item of their message each time: two chains of one message, captured    *)
(* twice, meet on the second item.                                         *)
(*                                                                         *)
(* Settings are what Decide chooses among.  Extraction and download are    *)
(* WeChat's: body says what the disk holds.  Chain i is the one started    *)
(* with item i.  Operators named Slip... are deliberate errors that no     *)
(* specification uses.                                                     *)
(***************************************************************************)
EXTENDS Naturals, FiniteSets, FiniteSetsExt

CONSTANTS
    Messages,    \* messages, by conversation and local id
    Media,       \* those with an image, a voice, a video or a file
    Threads,     \* WeChat's threads
    SeenLimit,   \* 500: how many keys the table of seen messages holds
    MaxAttempts, \* 20: maxAttempts
    MaxItems,    \* bound on pending items ever started
    MaxMarks,    \* bound on callbacks that are not dropped as seen
    MaxKills,    \* bound on restarts of the app
    NoMessage

ASSUME ConstAssumption ==
    /\ Media \subseteq Messages
    /\ NoMessage \notin Messages
    /\ SeenLimit \in Nat \ {0}
    /\ MaxAttempts \in Nat
    /\ MaxItems \in Nat
    /\ MaxMarks \in Nat
    /\ MaxKills \in Nat

Items == 1..MaxItems
NoItem == 0
Kinds == {"none", "body", "big"}

VARIABLES
    seen,     \* WeChatIngestSeenKeys
    msg,      \* msg[t]: the message thread t has marked and not yet decided on
    marks,    \* marks[m]: how often m was taken for new
    ousted,   \* ousted[m]: how often another message emptied the table of m
    body,     \* body[m]: what extraction finds
    pending,  \* WeChatIngestPendingMedia: pending[m], an item or NoItem
    item,     \* item[i]: "fresh" (not sent), "bare" (sent), "body" (has_media)
    of,       \* of[i]: the message of item and chain i
    at,       \* at[i]: the next step of chain i
    try,      \* try[i]: attempt
    got,      \* got[i]: what chain i extracted last
    claim,    \* claim[i]: the item chain i marked as sent
    handed,   \* what chains handed to the upload queue
    started,  \* items started
    kills

hookVars  == <<seen, msg, marks, ousted>>
itemVars  == <<pending, item, of, started>>
chainVars == <<at, try, got, claim>>
vars == <<hookVars, body, itemVars, chainVars, handed, kills>>

TypeOK ==
    /\ seen \subseteq Messages
    /\ msg \in [Threads -> Messages \cup {NoMessage}]
    /\ marks \in [Messages -> Nat]
    /\ ousted \in [Messages -> Nat]
    /\ body \in [Messages -> Kinds]
    /\ pending \in [Messages -> Items \cup {NoItem}]
    /\ item \in [Items -> {"fresh", "bare", "body"}]
    /\ of \in [Items -> Messages \cup {NoMessage}]
    /\ at \in [Items -> {"free", "timer", "extract", "finish", "enqueue", "done", "lost"}]
    /\ try \in [Items -> 0..MaxAttempts]
    /\ got \in [Items -> Kinds]
    /\ claim \in [Items -> Items \cup {NoItem}]
    /\ handed \subseteq [by : Items, item : Items, as : {"bare", "body"}]
    /\ started \in 0..MaxItems
    /\ kills \in 0..MaxKills

Init ==
    /\ seen = {}
    /\ msg = [t \in Threads |-> NoMessage]
    /\ marks = [m \in Messages |-> 0]
    /\ ousted = [m \in Messages |-> 0]
    /\ body = [m \in Messages |-> "none"]
    /\ pending = [m \in Messages |-> NoItem]
    /\ item = [i \in Items |-> "fresh"]
    /\ of = [i \in Items |-> NoMessage]
    /\ at = [i \in Items |-> "free"]
    /\ try = [i \in Items |-> 0]
    /\ got = [i \in Items |-> "none"]
    /\ claim = [i \in Items |-> NoItem]
    /\ handed = {}
    /\ started = 0
    /\ kills = 0

-----------------------------------------------------------------------------
(* The hooks.                                                               *)

Full(m) == Cardinality(seen \cup {m}) > SeenLimit

(* The slip: the table is emptied after the new key was added.              *)
SlipForgetNew(m) == IF Full(m) THEN {} ELSE seen \cup {m}

(* The table with m in it; one key too many, and only m stays.              *)
Remember(m) == IF Full(m) THEN {m} ELSE seen \cup {m}

(* WeChatIngestMarkSeen, under the table's lock: m is new to thread t.      *)
(* Messages the table holds are dropped there without a trace.              *)
MarkSeen(t, m) ==
    /\ msg[t] = NoMessage
    /\ m \notin seen
    /\ MapThenSumSet(LAMBDA k : marks[k], Messages) < MaxMarks
    /\ seen' = Remember(m)
    /\ msg' = [msg EXCEPT ![t] = m]
    /\ marks' = [marks EXCEPT ![m] = @ + 1]
    /\ ousted' = [k \in Messages |-> IF Full(m) /\ k \in seen THEN ousted[k] + 1 ELSE ousted[k]]
    /\ UNCHANGED <<body, itemVars, chainVars, handed, kills>>

(* The chat is not selected; or it is, and the event has no body to wait    *)
(* for: text, a sticker, a medium whose upload is off or waits for Wi-Fi.   *)
DropOrReady(t) ==
    /\ msg[t] # NoMessage
    /\ msg' = [msg EXCEPT ![t] = NoMessage]
    /\ UNCHANGED <<seen, marks, ousted, body, itemVars, chainVars, handed, kills>>

(* StartMedia: a new item takes the place of an older one of the message.   *)
StartMedia(t) ==
    /\ msg[t] \in Media
    /\ started < MaxItems
    /\ started' = started + 1
    /\ pending' = [pending EXCEPT ![msg[t]] = started']
    /\ of' = [of EXCEPT ![started'] = msg[t]]
    /\ at' = [at EXCEPT ![started'] = "timer"]
    /\ msg' = [msg EXCEPT ![t] = NoMessage]
    /\ UNCHANGED <<seen, marks, ousted, body, item, try, got, claim, handed, kills>>

-----------------------------------------------------------------------------
(* A chain.                                                                 *)

(* TryPendingMedia looks its message up.                                    *)
LookUp(i) ==
    /\ at[i] = "timer"
    /\ LET now == pending[of[i]] IN
       at' = [at EXCEPT ![i] =
                 IF now = NoItem \/ item[now] = "body" THEN "done" ELSE "extract"]
    /\ UNCHANGED <<hookVars, body, itemVars, try, got, claim, handed, kills>>

(* The slip: no last attempt.                                               *)
SlipNeverLast(i) ==
    /\ at[i] = "extract"
    /\ got' = [got EXCEPT ![i] = body[of[i]]]
    /\ IF body[of[i]] # "none"
         THEN at' = [at EXCEPT ![i] = "finish"] /\ try' = try
         ELSE at' = [at EXCEPT ![i] = "timer"] /\ try' = try
    /\ UNCHANGED <<hookVars, body, itemVars, claim, handed, kills>>

(* It extracts a body, or finds none: then it sets the timer again, the     *)
(* last time excepted.                                                      *)
Extract(i) ==
    /\ at[i] = "extract"
    /\ got' = [got EXCEPT ![i] = body[of[i]]]
    /\ IF body[of[i]] # "none" \/ try[i] >= MaxAttempts
         THEN at' = [at EXCEPT ![i] = "finish"] /\ try' = try
         ELSE at' = [at EXCEPT ![i] = "timer"] /\ try' = [try EXCEPT ![i] = @ + 1]
    /\ UNCHANGED <<hookVars, body, itemVars, claim, handed, kills>>

Found(i) == got[i] = "body"

As(i) == IF Found(i) THEN "body" ELSE "bare"

(* The slips: whatever was sent is not sent again, a body neither; or a     *)
(* body is sent however often it is found.                                  *)
SlipNoUpgrade(i, k) == item[k] # "fresh"
SlipEachBody(i, k) == item[k] # "fresh" /\ ~Found(i)

(* Item k, as chain i finds it, has been sent, and with a body unless chain *)
(* i has none either.                                                       *)
Settled(i, k) == item[k] # "fresh" /\ (~Found(i) \/ item[k] = "body")

(* FinishMedia, under the lock: test and set.                               *)
FinishMedia(i) ==
    /\ at[i] = "finish"
    /\ LET k == pending[of[i]] IN
       IF Settled(i, k)
         THEN at' = [at EXCEPT ![i] = "done"] /\ UNCHANGED <<item, claim>>
         ELSE /\ item' = [item EXCEPT ![k] = As(i)]
              /\ claim' = [claim EXCEPT ![i] = k]
              /\ at' = [at EXCEPT ![i] = "enqueue"]
    /\ UNCHANGED <<hookVars, body, pending, of, started, try, got, handed, kills>>

(* FinishMedia, after the lock: EnqueueReady.                               *)
EnqueueReady(i) ==
    /\ at[i] = "enqueue"
    /\ handed' = handed \cup {[by |-> i, item |-> claim[i], as |-> As(i)]}
    /\ at' = [at EXCEPT ![i] = "done"]
    /\ UNCHANGED <<hookVars, body, itemVars, try, got, claim, kills>>

-----------------------------------------------------------------------------
(* WeChat downloads a body.                                                 *)
Download(m) ==
    /\ body[m] = "none"
    /\ \E b \in {"body", "big"} : body' = [body EXCEPT ![m] = b]
    /\ UNCHANGED <<hookVars, itemVars, chainVars, handed, kills>>

(* iOS ends the app: tables and timers were in memory only.                 *)
Kill ==
    /\ kills < MaxKills
    /\ kills' = kills + 1
    /\ seen' = {}
    /\ msg' = [t \in Threads |-> NoMessage]
    /\ pending' = [m \in Messages |-> NoItem]
    /\ at' = [i \in Items |-> IF at[i] \in {"free", "done"} THEN at[i] ELSE "lost"]
    /\ UNCHANGED <<marks, ousted, body, item, of, started, try, got, claim, handed>>

Chain(i) == LookUp(i) \/ Extract(i) \/ FinishMedia(i) \/ EnqueueReady(i)

Hook(t) == (\E m \in Messages : MarkSeen(t, m)) \/ DropOrReady(t) \/ StartMedia(t)

Next ==
    \/ \E t \in Threads : Hook(t)
    \/ \E i \in Items : Chain(i)
    \/ \E m \in Media : Download(m)
    \/ Kill

Spec == Init /\ [][Next]_vars

(* Timers fire, and the concurrent queue runs their blocks.                 *)
FairSpec == Spec /\ \A i \in Items : WF_vars(Chain(i))

-----------------------------------------------------------------------------
(* Properties.                                                              *)

(* Whichever chains meet on an item, it is handed to the queue at most once *)
(* without a body and at most once with one.                                *)
OncePerItem ==
    \A h, k \in handed : h.item = k.item /\ h.as = k.as => h = k

(* A body that was found is not lost to a race: the chain that found it     *)
(* ends only when a body of the message has been handed over or another     *)
(* chain, past the lock, is about to, unless the app was killed.            *)
BodyReaches ==
    \A i \in Items : at[i] = "done" /\ Found(i) =>
        \E h \in Items :
            /\ of[h] = of[i]
            /\ \/ \E d \in handed : d.by = h /\ d.as = "body"
               \/ at[h] = "enqueue" /\ Found(h)
               \/ at[h] = "lost"

(* A message is taken for new again only after a restart, or after another  *)
(* message found the table full and put it out: each time once at most, and *)
(* its own callbacks never do that to it.                                   *)
SeenOnce ==
    \A m \in Messages : marks[m] <= 1 + kills + ousted[m]

(* An item that waits for its body is handed over in the end, with it or    *)
(* without, unless a newer item takes its place or the app is killed.       *)
EveryItemHanded ==
    \A i \in Items :
        (of[i] \in Messages /\ pending[of[i]] = i)
            ~> (\/ \E h \in handed : h.item = i
                \/ of[i] \in Messages /\ pending[of[i]] # i)
=============================================================================

---------------------------- MODULE ConsolePages ----------------------------
(***************************************************************************)
(* The console's message pages: the page of the browser and the threads of *)
(* the HTTP server, over logs that the inbox consumer appends to.          *)
(*                                                                         *)
(* The server keeps no index of a log.  For every request it takes the     *)
(* file's size, reads a tail of it, and reads a longer tail as long as it  *)
(* has too few messages.  The browser shows one chat; opening a chat,      *)
(* loading an older page and the poll every 20 seconds each await a        *)
(* request and then update the same variables, in the order in which the   *)
(* answers come.                                                           *)
(*                                                                         *)
(* A log is a prefix of the constant Lines, whose members are the sort     *)
(* keys (ts, msg_id) as numbers: a message whose key is not above those    *)
(* before it came late or is the second line of a message that got its     *)
(* body.  Lines have any length, in bytes.  A msg_id belongs to one        *)
(* message of a chat, and repeats between chats.  Chats are not renamed    *)
(* while they are open, and every chat is in the list of chats.            *)
(* Operators named Slip... are deliberate errors that no specification     *)
(* uses: they stand for the bugs that the properties below would catch.    *)
(***************************************************************************)
EXTENDS Integers, Sequences, FiniteSets

CONSTANTS
    Chats,
    Lines,       \* Lines[c]: what is, or will be, in the log of c
    Ends,        \* Ends[c][i]: its bytes up to the end of line i
    MsgId,       \* MsgId[m]: the msg_id in the sort key m
    Limit,       \* messages in a page
    FirstChunk,  \* bytes in the first tail
    Step,        \* least growth of the tail
    MaxChunk,    \* the longest tail
    Calls,       \* requests of the browser that may be under way at once
    MaxGrowth,   \* bound on lines appended to a log
    MaxOpens,    \* bound on clicks on a chat
    MaxFails,    \* bound on requests that fail
    NoChat

Messages == UNION {{Lines[c][i] : i \in 1..Len(Lines[c])} : c \in Chats}

ASSUME ConstAssumption ==
    /\ Lines \in [Chats -> Seq(Nat \ {0})]
    /\ Ends \in [Chats -> Seq(Nat \ {0})]
    /\ \A c \in Chats :
          /\ Len(Ends[c]) = Len(Lines[c])
          /\ \A i, j \in 1..Len(Ends[c]) : i < j => Ends[c][i] < Ends[c][j]
          /\ \A i, j \in 1..Len(Lines[c]) :
                MsgId[Lines[c][i]] = MsgId[Lines[c][j]] => Lines[c][i] = Lines[c][j]
    /\ MsgId \in [Messages -> Nat \ {0}]
    /\ Limit \in Nat \ {0}
    /\ FirstChunk \in Nat \ {0}
    /\ Step \in Nat \ {0}
    /\ MaxChunk \in Nat \ {0}
    /\ MaxGrowth \in Nat
    /\ MaxOpens \in Nat
    /\ MaxFails \in Nat
    /\ NoChat \notin Chats

VARIABLES
    len,          \* len[c]: lines now in the log of c
    call,         \* call[k]: the request k, see Requests
    current,      \* the chat that is open
    shown,        \* the messages shown, each with the chat it is of
    top,          \* the sort key of shown[0], the cursor of the next older
                  \* page; 0 if none
    hasMore,
    loadingOlder,
    pinLatest,
    lastKey,      \* see KeyOf
    opens, fails

vars == <<len, call, current, shown, top, hasMore, loadingOlder, pinLatest,
          lastKey, opens, fails>>

pageVars == <<current, shown, top, hasMore, loadingOlder, pinLatest,
              lastKey>>

-----------------------------------------------------------------------------
(* Requests and their place in the server.                                 *)

Minimum(S) == CHOOSE x \in S : \A y \in S : x <= y
Maximum(S) == CHOOSE x \in S : \A y \in S : y <= x

MaxSize == Maximum({0} \cup {Len(Lines[c]) : c \in Chats})
(* Bytes of the first n lines of the log of c.                             *)
Bytes(c, n) == IF n = 0 THEN 0 ELSE Ends[c][n]

(* at: "free", the three steps of the server, "answer" when the answer is  *)
(* on its way to the browser; before: the cursor, 0 when there is none;    *)
(* size: the bytes that stat said first; chunk: those of the tail; whole:  *)
(* what the stat of the tail said; seen: lines in the log when the tail    *)
(* was read; page: sort keys of messages of the chat.                      *)
Requests == [at : {"free", "stat", "tail", "read", "answer"},
             kind : {"open", "older", "poll"},
             chat : Chats \cup {NoChat},
             before : Nat,
             size : Nat, chunk : Nat, whole : BOOLEAN, seen : Nat,
             page : SUBSET Messages, more : BOOLEAN]

Free == [at |-> "free", kind |-> "open", chat |-> NoChat, before |-> 0,
         size |-> 0, chunk |-> 0, whole |-> FALSE, seen |-> 0,
         page |-> {}, more |-> FALSE]

Sent(kind, c, before) ==
    [Free EXCEPT !.at = "stat", !.kind = kind, !.chat = c, !.before = before]

Init ==
    /\ len \in [Chats -> 0..MaxSize]
    /\ \A c \in Chats : len[c] <= Len(Lines[c]) /\ len[c] >= Len(Lines[c]) - MaxGrowth
    /\ call = [k \in Calls |-> Free]
    /\ current = NoChat
    /\ shown = {} /\ top = 0
    /\ hasMore = TRUE /\ loadingOlder = FALSE /\ pinLatest = TRUE
    /\ lastKey = -1
    /\ opens = 0 /\ fails = 0

(* The consumer appends a line.                                            *)
Append1(c) ==
    /\ len[c] < Len(Lines[c])
    /\ len' = [len EXCEPT ![c] = @ + 1]
    /\ UNCHANGED <<call, opens, fails>> /\ UNCHANGED pageVars

-----------------------------------------------------------------------------
(* The server.                                                             *)

Least(a, b) == IF a <= b THEN a ELSE b
Greater(a, b) == IF a >= b THEN a ELSE b

(* The slip: the n oldest.                                                 *)
SlipOldest(rows, n) == {x \in rows : Cardinality({y \in rows : y < x}) < n}

(* rows[-n:], the n newest of a set of messages.                           *)
Newest(rows, n) == {x \in rows : Cardinality({y \in rows : y > x}) < n}

IsBefore(x, cursor) == cursor = 0 \/ x < cursor

(* What a tail holds: all of the log, or its last bytes without the first  *)
(* line in them, which may be cut.                                         *)
TailOf(r) ==
    LET c == r.chat
        n == len[c]
    IN {Lines[c][i] : i \in {j \in 1..n :
           r.whole \/ Bytes(c, j - 1) > Bytes(c, n) - r.chunk}}

RowsOf(r) == {x \in TailOf(r) : IsBefore(x, r.before)}

Becomes(k, r) == call' = [call EXCEPT ![k] = r]

(* The size, which bounds the tails; an empty log is answered at once.     *)
Stat(k) ==
    LET n == Bytes(call[k].chat, len[call[k].chat])
    IN /\ call[k].at = "stat"
       /\ Becomes(k, [call[k] EXCEPT !.at = IF n = 0 THEN "answer" ELSE "tail",
                                      !.size = n,
                                      !.chunk = Least(n, FirstChunk)])
       /\ UNCHANGED <<len, opens, fails>> /\ UNCHANGED pageVars

(* The tail takes the size again, to see whether it must seek.             *)
StatTail(k) ==
    /\ call[k].at = "tail"
    /\ Becomes(k, [call[k] EXCEPT !.at = "read",
                                   !.whole =
                         Bytes(call[k].chat, len[call[k].chat]) <= call[k].chunk])
    /\ UNCHANGED <<len, opens, fails>> /\ UNCHANGED pageVars

Longer(r) == Least(Least(r.size, MaxChunk), Greater(2 * r.chunk, r.chunk + Step))

(* The slip: one tail.                                                     *)
SlipNeverLonger(r) == TRUE

(* One message more than a page has is asked for, to know has_more.        *)
Enough(r) ==
    \/ Cardinality(RowsOf(r)) >= Limit + 1
    \/ r.chunk >= r.size
    \/ r.chunk >= Least(r.size, MaxChunk)

ReadTail(k) ==
    LET r == call[k]
    IN /\ r.at = "read"
       /\ Becomes(k, IF Enough(r)
                        THEN [r EXCEPT !.at = "answer", !.seen = len[r.chat],
                                       !.page = Newest(RowsOf(r), Limit),
                                       !.more = Cardinality(RowsOf(r)) > Limit]
                        ELSE [r EXCEPT !.at = "tail", !.chunk = Longer(r)])
       /\ UNCHANGED <<len, opens, fails>> /\ UNCHANGED pageVars

-----------------------------------------------------------------------------
(* The browser.                                                            *)

Send(k, kind, c, before) ==
    /\ call[k].at = "free"
    /\ Becomes(k, Sent(kind, c, before))

Answered(k, kind) == call[k].at = "answer" /\ call[k].kind = kind
Finish(k) == Becomes(k, Free)

(* The key the poll compares: the msg_id of the last message of the list,  *)
(* 0 when the list is empty.  openChat sets a key in another form, which   *)
(* no poll has: -1.                                                        *)
KeyOf(list) == IF list = {} THEN 0 ELSE MsgId[Maximum(list)]
TopOf(list) == IF list = {} THEN 0 ELSE Minimum(list)

(* A page as the messages to show, and those of it that are not shown yet, *)
(* going by the msg_id.                                                    *)
Shown(c, list) == {<<c, x>> : x \in list}
Extra(list) == {x \in list : \A m \in shown : MsgId[m[2]] # MsgId[x]}

OpenChat(k, c) ==
    /\ opens < MaxOpens
    /\ opens' = opens + 1
    /\ Send(k, "open", c, 0)
    /\ current' = c
    /\ shown' = {} /\ top' = 0
    /\ hasMore' = TRUE /\ loadingOlder' = FALSE /\ pinLatest' = TRUE
    /\ lastKey' = -1
    /\ UNCHANGED <<len, fails>>

(* The answer is shown whatever chat is open by now.                       *)
OpenDone(k) ==
    LET list == call[k].page
    IN /\ Answered(k, "open")
       /\ Finish(k)
       /\ shown' = Shown(call[k].chat, list) /\ top' = TopOf(list)
       /\ hasMore' = (call[k].more /\ Cardinality(list) >= Limit)
       /\ lastKey' = IF list = {} THEN 0 ELSE -1
       /\ UNCHANGED <<len, current, loadingOlder, pinLatest, opens, fails>>

LoadOlder(k) ==
    /\ current # NoChat /\ ~loadingOlder /\ hasMore /\ shown # {}
    /\ Send(k, "older", current, top)
    /\ loadingOlder' = TRUE
    /\ UNCHANGED <<len, current, shown, top, hasMore, pinLatest, lastKey, opens, fails>>

OlderDone(k) ==
    LET add == Extra(call[k].page)
    IN /\ Answered(k, "older")
       /\ Finish(k)
       /\ shown' = shown \cup Shown(call[k].chat, add)
       /\ top' = IF add = {} THEN top ELSE Minimum(add)
       /\ hasMore' = (call[k].more /\ add # {})
       /\ loadingOlder' = FALSE
       /\ UNCHANGED <<len, current, pinLatest, lastKey, opens, fails>>

(* setInterval: the answer of /api/chats only delays the second request,   *)
(* which asks for the chat that is open by then.                           *)
Poll(k) ==
    /\ current # NoChat
    /\ Send(k, "poll", current, 0)
    /\ UNCHANGED <<len, opens, fails>> /\ UNCHANGED pageVars

(* The slip: while an older page loads, or away from the bottom, a poll    *)
(* only notes the key.                                                     *)
SlipRefresh(c, list, more) ==
    IF pinLatest /\ ~loadingOlder
      THEN /\ shown' = Shown(c, list) /\ top' = TopOf(list)
           /\ hasMore' = (more /\ Cardinality(list) >= Limit)
      ELSE UNCHANGED <<shown, top, hasMore>>

(* At the bottom the list replaces what is shown, elsewhere its new        *)
(* messages go below.                                                      *)
Refresh(c, list, more) ==
    IF pinLatest /\ ~loadingOlder
      THEN /\ shown' = Shown(c, list) /\ top' = TopOf(list)
           /\ hasMore' = (more /\ Cardinality(list) >= Limit)
      ELSE /\ shown' = shown \cup Shown(c, Extra(list))
           /\ top' = IF shown = {} THEN TopOf(list) ELSE top
           /\ UNCHANGED hasMore

PollDone(k) ==
    LET list == call[k].page
    IN /\ Answered(k, "poll")
       /\ Finish(k)
       /\ IF KeyOf(list) = lastKey
            THEN UNCHANGED <<shown, top, hasMore, lastKey>>
            ELSE lastKey' = KeyOf(list) /\ Refresh(call[k].chat, list, call[k].more)
       /\ UNCHANGED <<len, current, loadingOlder, pinLatest, opens, fails>>

(* A request fails: openChat and the poll leave everything, loadOlder      *)
(* offers the older page again.                                            *)
Fail(k) ==
    /\ fails < MaxFails
    /\ fails' = fails + 1
    /\ call[k].at # "free"
    /\ Finish(k)
    /\ IF call[k].kind = "older"
         THEN hasMore' = TRUE /\ loadingOlder' = FALSE
         ELSE UNCHANGED <<hasMore, loadingOlder>>
    /\ UNCHANGED <<len, current, shown, top, pinLatest, lastKey, opens>>

(* The user scrolls to the bottom or away from it.                         *)
Scroll ==
    /\ shown # {}
    /\ pinLatest' = ~pinLatest
    /\ UNCHANGED <<len, call, current, shown, top, hasMore, loadingOlder,
                   lastKey, opens, fails>>

-----------------------------------------------------------------------------
Serve(k) == Stat(k) \/ StatTail(k) \/ ReadTail(k)
Deliver(k) == OpenDone(k) \/ OlderDone(k) \/ PollDone(k)

Next ==
    \/ \E c \in Chats : Append1(c)
    \/ \E k \in Calls : \/ Serve(k) \/ Deliver(k) \/ Fail(k)
                        \/ LoadOlder(k) \/ Poll(k)
                        \/ \E c \in Chats : OpenChat(k, c)
    \/ Scroll

Spec == Init /\ [][Next]_vars

(* Threads of the server and the browser's promises go on, and setInterval *)
(* fires again.  The user and the consumer owe nothing.                    *)
Fairness ==
    /\ \A k \in Calls : WF_vars(Serve(k)) /\ WF_vars(Deliver(k))
    /\ WF_vars(\E k \in Calls : Poll(k))

FairSpec == Spec /\ Fairness

-----------------------------------------------------------------------------
(* Properties.                                                             *)

(* Types; a tail is never longer than the size it was asked for, and the   *)
(* cursor of the next page is that of a message that is shown.             *)
TypeOK ==
    /\ len \in [Chats -> Nat] /\ \A c \in Chats : len[c] <= Len(Lines[c])
    /\ call \in [Calls -> Requests]
    /\ \A k \in Calls : call[k].chunk <= call[k].size
    /\ current \in Chats \cup {NoChat}
    /\ shown \subseteq Chats \X Messages
    /\ IF shown = {} THEN top = 0 ELSE \E m \in shown : m[2] = top
    /\ hasMore \in BOOLEAN /\ loadingOlder \in BOOLEAN /\ pinLatest \in BOOLEAN
    /\ lastKey \in Nat \cup {-1}
    /\ opens \in Nat /\ fails \in Nat

(* Bytes by which the log grew between a request's first stat and its last *)
(* read.                                                                   *)
Grown(r) == Bytes(r.chat, r.seen) - r.size

EndHolds(r) ==
    r.at = "answer" /\ ~r.more /\ r.size <= MaxChunk =>
        \A i \in 1..r.seen :
            /\ Grown(r) = 0 \/ Bytes(r.chat, i - 1) > Grown(r)
            /\ IsBefore(Lines[r.chat][i], r.before)
            => Lines[r.chat][i] \in r.page

(* "No earlier messages" is true: a page without has_more holds every      *)
(* message before the cursor, but for the lines that begin in as many      *)
(* bytes at the head of the log as were appended during the request: many  *)
(* short lines, when one long line came.  Logs longer than MaxChunk are    *)
(* cut there.                                                              *)
EndIsEnd == \A k \in Calls : EndHolds(call[k])

(* Messages older than line i of the log that were written after it.       *)
LateAfter(c, i, n) == {m \in {Lines[c][j] : j \in (i + 1)..n} : m < Lines[c][i]}

NoHole(r) ==
    r.at = "answer" /\ r.more =>
        \A i \in 1..r.seen :
            LET x == Lines[r.chat][i]
            IN IsBefore(x, r.before) /\ (\E p \in r.page : p < x) /\ x \notin r.page
                 => \E p, q \in LateAfter(r.chat, i, r.seen) : p # q

(* A page that has an older one behind it has no hole: the next cursor     *)
(* leaves no message out, unless at least two older messages were written  *)
(* after it.  The one message read beyond the page makes up for one.       *)
NothingSkipped == \A k \in Calls : NoHole(call[k])

Newer(c) == Maximum({Lines[c][i] : i \in 1..len[c]})

(* The poll brings the newest message of the chat that stays open, if it   *)
(* is the newest line too, wherever the user has scrolled and however late *)
(* the answers for other chats come.  One thing keeps it away: a message   *)
(* with the same msg_id that a late answer for another chat has put there. *)
LatestShown ==
    \A c \in Chats :
        <>[](current = c /\ len[c] > 0 /\ Lines[c][len[c]] = Newer(c))
            => <>[](/\ len[c] > 0
                    /\ \/ <<c, Newer(c)>> \in shown
                       \/ \E m \in shown : m[1] # c /\ MsgId[m[2]] = MsgId[Newer(c)])
=============================================================================

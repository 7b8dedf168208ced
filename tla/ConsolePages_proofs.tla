------------------------ MODULE ConsolePages_proofs ------------------------
(***************************************************************************)
(* Theorems about ConsolePages for any logs, page and tail sizes, and any  *)
(* number of requests under way.                                           *)
(***************************************************************************)
EXTENDS ConsolePages, FiniteSetTheorems, WellFoundedInduction, TLAPS

-----------------------------------------------------------------------------
(* Numbers.                                                                 *)

LEMMA LeastNumber ==
    ASSUME NEW S \in SUBSET Nat, S # {}
    PROVE  \E x \in S : \A y \in S : x <= y
<1> DEFINE R == OpToRel(<, Nat)
<1>1. IsWellFoundedOn(R, Nat)
  BY NatLessThanWellFounded
<1>2. \A x, y \in Nat : <<y, x>> \in R <=> y < x
  BY DEF OpToRel
<1> HIDE DEF R
<1>3. PICK x \in S : \A y \in S : ~(<<y, x>> \in R)
  BY <1>1, WFMin
<1>4. \A y \in S : ~(y < x)
  BY <1>2, <1>3
<1> QED
  BY <1>4

LEMMA MinimumIn ==
    ASSUME NEW S \in SUBSET Nat, S # {}
    PROVE  Minimum(S) \in S
BY LeastNumber DEF Minimum

(* A finite set has a greatest member: one with the fewest above it.        *)
LEMMA MaximumIn ==
    ASSUME NEW S \in SUBSET Nat, S # {}, IsFiniteSet(S)
    PROVE  Maximum(S) \in S
<1> DEFINE Above(x) == {y \in S : y > x}
           Counts == {Cardinality(Above(x)) : x \in S}
<1>1. \A x \in S : IsFiniteSet(Above(x)) /\ Cardinality(Above(x)) \in Nat
  BY FS_Subset, FS_CardinalityType
<1>2. PICK n \in Counts : \A m \in Counts : n <= m
  <2>1. Counts \in SUBSET Nat /\ Counts # {}
    BY <1>1
  <2> QED
    BY <2>1, LeastNumber
<1>3. PICK x \in S : n = Cardinality(Above(x))
  BY <1>2
<1>4. ASSUME NEW z \in S, z > x PROVE FALSE
  <2>1. Above(z) \in SUBSET Above(x)
    <3>1. ASSUME NEW y \in S, y > z PROVE y > x
      BY <1>4, <3>1
    <3> QED
      BY <3>1
  <2>2. z \in Above(x) /\ z \notin Above(z)
    BY <1>4
  <2>3. Cardinality(Above(z)) # Cardinality(Above(x)) /\ Cardinality(Above(z)) <= Cardinality(Above(x))
    BY <1>1, <2>1, <2>2, FS_Subset
  <2>4. Cardinality(Above(x)) <= Cardinality(Above(z))
    BY <1>2, <1>3
  <2> QED
    BY <1>1, <2>3, <2>4
<1>5. \A y \in S : y <= x
  BY <1>4
<1> QED
  BY <1>5 DEF Maximum

-----------------------------------------------------------------------------
(* What a tail and a page are.                                              *)

(* A log gets longer, line by line.                                         *)
LEMMA BytesGrow ==
    ASSUME NEW c \in Chats, NEW n \in 0..Len(Lines[c])
    PROVE  /\ Bytes(c, n) \in Nat
           /\ n > 0 => Bytes(c, n) > 0
           /\ \A m \in 0..n : Bytes(c, m) <= Bytes(c, n)
<1>1. /\ Ends[c] \in Seq(Nat \ {0}) /\ Len(Lines[c]) \in Nat /\ Len(Ends[c]) = Len(Lines[c])
      /\ \A i, j \in 1..Len(Ends[c]) : i < j => Ends[c][i] < Ends[c][j]
  BY ConstAssumption
<1>2. \A i \in 1..Len(Lines[c]) : Ends[c][i] \in Nat \ {0}
  BY <1>1
<1>3. Bytes(c, n) \in Nat /\ (n > 0 => Bytes(c, n) > 0)
  BY <1>1, <1>2 DEF Bytes
<1>4. ASSUME NEW m \in 0..n PROVE Bytes(c, m) <= Bytes(c, n)
  <2>1. CASE m = n
    BY <1>3, <2>1
  <2>2. CASE m = 0
    BY <1>3, <2>2 DEF Bytes
  <2>3. CASE m # 0 /\ m < n
    <3>1. m \in 1..Len(Ends[c]) /\ n \in 1..Len(Ends[c])
      BY <1>1, <2>3
    <3>2. Ends[c][m] < Ends[c][n] /\ Ends[c][m] \in Nat /\ Ends[c][n] \in Nat
      BY <1>1, <1>2, <2>3, <3>1
    <3>3. Bytes(c, m) = Ends[c][m] /\ Bytes(c, n) = Ends[c][n]
      BY <2>3 DEF Bytes
    <3> QED
      BY <3>2, <3>3
  <2> QED
    BY <1>1, <2>1, <2>2, <2>3
<1> QED
  BY <1>3, <1>4

LEMMA TailFacts ==
    ASSUME NEW r \in Requests, r.chat \in Chats,
           len \in [Chats -> Nat], len[r.chat] <= Len(Lines[r.chat])
    PROVE  /\ TailOf(r) \subseteq Messages
           /\ TailOf(r) \subseteq Nat \ {0}
           /\ IsFiniteSet(TailOf(r))
           /\ IsFiniteSet(RowsOf(r))
<1> DEFINE c == r.chat
           n == len[c]
           I == {j \in 1..n : r.whole \/ Bytes(c, j - 1) > Bytes(c, n) - r.chunk}
           f == [i \in I |-> Lines[r.chat][i]]
<1>1. Lines[r.chat] \in Seq(Nat \ {0})
  BY ConstAssumption
<1>2. I \in SUBSET (1..Len(Lines[r.chat])) /\ Len(Lines[r.chat]) \in Nat
  BY <1>1
<1>3. TailOf(r) = {Lines[r.chat][i] : i \in I}
  BY DEF TailOf
<1>4. IsFiniteSet(I)
  <2>1. IsFiniteSet(1..Len(Lines[r.chat]))
    BY <1>2, FS_Interval
  <2> HIDE DEF I
  <2> QED
    BY <1>2, <2>1, FS_Subset
<1>5. f \in Surjection(I, TailOf(r))
  BY <1>3 DEF Surjection
<1>6. IsFiniteSet(TailOf(r))
  BY <1>4, <1>5, FS_Surjection
<1>7. TailOf(r) \subseteq Nat \ {0} /\ TailOf(r) \subseteq Messages
  BY <1>1, <1>2, <1>3 DEF Messages
<1>8. RowsOf(r) \in SUBSET TailOf(r)
  BY DEF RowsOf
<1> QED
  BY <1>6, <1>7, <1>8, FS_Subset

(* The newest messages of a set are closed upwards, and a set with more     *)
(* than n has one that is older than all of them.                           *)
LEMMA NewestFacts ==
    ASSUME NEW S \in SUBSET Nat, IsFiniteSet(S), NEW n \in Nat
    PROVE  /\ Newest(S, n) \subseteq S
           /\ IsFiniteSet(Newest(S, n))
           /\ \A p \in Newest(S, n), x \in S : p <= x => x \in Newest(S, n)
           /\ Cardinality(S) <= n => Newest(S, n) = S
           /\ Cardinality(S) > n => \E q \in S : q \notin Newest(S, n)
<1> DEFINE Above(x) == {y \in S : y > x}
<1>1. \A x \in S : IsFiniteSet(Above(x)) /\ Cardinality(Above(x)) \in Nat
  BY FS_Subset, FS_CardinalityType
<1>2. Newest(S, n) = {x \in S : Cardinality(Above(x)) < n}
  BY DEF Newest
<1>3. ASSUME NEW p \in Newest(S, n), NEW x \in S, p <= x PROVE x \in Newest(S, n)
  <2>0. p \in S /\ Cardinality(Above(p)) < n
    BY <1>2
  <2>1. Above(x) \in SUBSET Above(p)
    <3>1. ASSUME NEW y \in S, y > x PROVE y > p
      BY <1>3, <2>0, <3>1
    <3> QED
      BY <3>1
  <2>2. Cardinality(Above(x)) <= Cardinality(Above(p))
    BY <1>1, <2>0, <2>1, FS_Subset
  <2>3. Cardinality(Above(x)) < n
    BY <1>1, <2>0, <2>2
  <2> QED
    BY <1>2, <2>3
<1>4. ASSUME Cardinality(S) <= n, NEW x \in S PROVE Cardinality(Above(x)) < n
  <2>1. Above(x) \in SUBSET S /\ Above(x) # S
    OBVIOUS
  <2>2. Cardinality(Above(x)) <= Cardinality(S) /\ Cardinality(Above(x)) # Cardinality(S)
    BY <2>1, FS_Subset
  <2> QED
    BY <1>1, <1>4, <2>2, FS_CardinalityType
<1>5. ASSUME Cardinality(S) > n PROVE \E q \in S : q \notin Newest(S, n)
  <2>1. S # {} /\ Cardinality(S) \in Nat
    BY <1>5, FS_EmptySet, FS_CardinalityType
  <2>2. PICK q \in S : \A y \in S : q <= y
    BY <2>1, LeastNumber
  <2>3. Above(q) = S \ {q}
    <3>1. ASSUME NEW y \in S PROVE y > q <=> y # q
      BY <2>2
    <3> QED
      BY <3>1
  <2>4. Cardinality(Above(q)) = Cardinality(S) - 1
    BY <2>3, FS_RemoveElement
  <2>5. ~(Cardinality(Above(q)) < n)
    BY <1>5, <2>1, <2>4
  <2> QED
    BY <1>2, <2>5
<1> QED
  BY <1>2, <1>3, <1>4, <1>5, FS_Subset

(* What is known of a request whose log has n lines by now.                 *)
CallOK(r, n) ==
    /\ IsFiniteSet(r.page)
    /\ r.chunk <= r.size
    /\ r.at # "free" =>
        /\ r.chat \in Chats
        /\ r.size <= Bytes(r.chat, n)
        /\ r.at \in {"tail", "read"} => r.chunk > 0
        /\ r.at = "read" /\ ~r.whole => Bytes(r.chat, n) > r.chunk
        /\ r.at # "answer" => r.seen = 0
        /\ r.at = "answer" => r.seen <= n

(* The answer of a last tail.                                               *)
AnswerOf(r) ==
    [r EXCEPT !.at = "answer", !.seen = len[r.chat],
              !.page = Newest(RowsOf(r), Limit),
              !.more = Cardinality(RowsOf(r)) > Limit]

LEMMA Answered1 ==
    ASSUME NEW r \in Requests, NEW n, NEW page, NEW more
    PROVE  [r EXCEPT !.at = "answer", !.seen = n, !.page = page, !.more = more]
             = [at |-> "answer", kind |-> r.kind, chat |-> r.chat,
                before |-> r.before, size |-> r.size, chunk |-> r.chunk,
                whole |-> r.whole, seen |-> n, page |-> page, more |-> more]
<1> DEFINE a == [r EXCEPT !.at = "answer", !.seen = n, !.page = page, !.more = more]
           Fields == {"at", "kind", "chat", "before", "size", "chunk", "whole",
                      "seen", "page", "more"}
<1>1. DOMAIN r = Fields
  BY DEF Requests
<1>2. a = [x \in Fields |->
         IF x = "more" THEN more ELSE IF x = "page" THEN page
         ELSE IF x = "seen" THEN n ELSE IF x = "at" THEN "answer" ELSE r[x]]
  BY <1>1
<1> QED
  BY <1>2

LEMMA AnswerFields ==
    ASSUME NEW r \in Requests
    PROVE  /\ AnswerOf(r).at = "answer" /\ AnswerOf(r).seen = len[r.chat]
           /\ AnswerOf(r).chat = r.chat /\ AnswerOf(r).before = r.before
           /\ AnswerOf(r).size = r.size /\ AnswerOf(r).chunk = r.chunk
           /\ AnswerOf(r).page = Newest(RowsOf(r), Limit)
           /\ AnswerOf(r).more = (Cardinality(RowsOf(r)) > Limit)
<1> DEFINE page == Newest(RowsOf(r), Limit)
           more == Cardinality(RowsOf(r)) > Limit
           a == AnswerOf(r)
<1>1. a = [r EXCEPT !.at = "answer", !.seen = len[r.chat], !.page = page, !.more = more]
  BY DEF AnswerOf
<1> HIDE DEF page, more, a
<1>2. /\ a.at = "answer" /\ a.seen = len[r.chat] /\ a.chat = r.chat /\ a.before = r.before
      /\ a.size = r.size /\ a.chunk = r.chunk /\ a.page = page /\ a.more = more
  BY <1>1, Answered1
<1> QED
  BY <1>2 DEF page, more, a

LEMMA AnswerIsRequest ==
    ASSUME NEW r \in Requests, r.chat \in Chats,
           len \in [Chats -> Nat], len[r.chat] <= Len(Lines[r.chat])
    PROVE  AnswerOf(r) \in Requests /\ IsFiniteSet(AnswerOf(r).page)
<1>1. RowsOf(r) \in SUBSET Nat /\ RowsOf(r) \subseteq Messages /\ IsFiniteSet(RowsOf(r))
  BY TailFacts DEF RowsOf
<1>2. /\ Newest(RowsOf(r), Limit) \subseteq Messages
      /\ IsFiniteSet(Newest(RowsOf(r), Limit))
  BY <1>1, NewestFacts, ConstAssumption
<1>3. (Cardinality(RowsOf(r)) > Limit) \in BOOLEAN
  OBVIOUS
<1> QED
  BY <1>2, <1>3, Answered1 DEF AnswerOf, Requests

LEMMA LastTail ==
    ASSUME NEW r \in Requests, r.at = "read",
           len \in [Chats -> Nat], len[r.chat] <= Len(Lines[r.chat]),
           CallOK(r, len[r.chat]), Enough(r)
    PROVE  EndHolds(AnswerOf(r)) /\ NoHole(AnswerOf(r))
<1> DEFINE c == r.chat
           n == len[c]
           InTail(i) == r.whole \/ Bytes(c, i - 1) > Bytes(c, n) - r.chunk
           rows == RowsOf(r)
           page == Newest(rows, Limit)
           x(i) == Lines[r.chat][i]
<1>1. /\ r.chat \in Chats /\ n \in Nat
      /\ r.chunk \in Nat /\ r.size \in Nat
      /\ r.chunk <= r.size /\ n <= Len(Lines[c])
      /\ ~r.whole => Bytes(c, n) > r.chunk
  BY DEF CallOK, Requests
<1>2. rows \in SUBSET Nat /\ IsFiniteSet(rows) /\ Cardinality(rows) \in Nat
  BY <1>1, TailFacts, FS_CardinalityType DEF RowsOf
<1>3. ASSUME NEW i \in 1..n, InTail(i), IsBefore(x(i), r.before) PROVE x(i) \in rows
  BY <1>3 DEF RowsOf, TailOf
<1>4. ASSUME NEW m \in rows PROVE \E j \in 1..n : InTail(j) /\ m = x(j)
  BY <1>4 DEF RowsOf, TailOf
<1> DEFINE a == AnswerOf(r)
<1>5. /\ a.at = "answer" /\ a.chat = r.chat /\ a.before = r.before /\ a.size = r.size
      /\ a.seen = n /\ a.page = page /\ a.more = (Cardinality(rows) > Limit)
  BY AnswerFields
<1> HIDE DEF a
<1>6. Limit \in Nat /\ MaxChunk \in Nat
  BY ConstAssumption
<1>7. \A i \in 1..n : x(i) \in Nat
  BY <1>1, ConstAssumption
<1>8. EndHolds(a)
  <2> SUFFICES ASSUME ~(Cardinality(rows) > Limit), r.size <= MaxChunk,
                      NEW i \in 1..n, Grown(a) = 0 \/ Bytes(c, i - 1) > Grown(a),
                      IsBefore(x(i), r.before)
               PROVE  x(i) \in page
    BY <1>5 DEF EndHolds
  <2>1. page = rows
    BY <1>2, <1>6, NewestFacts
  <2>2. r.chunk = r.size
    BY <1>1, <1>2, <1>6 DEF Enough, Least
  <2>3. Grown(a) = Bytes(c, n) - r.size /\ Bytes(c, n) \in Nat
    BY <1>1, <1>5, BytesGrow DEF Grown
  <2>4. InTail(i)
    BY <1>1, <2>2, <2>3
  <2> QED
    BY <1>3, <2>1, <2>4
<1>9. ASSUME Cardinality(rows) > Limit, NEW i \in 1..n, IsBefore(x(i), r.before),
             NEW p \in page, p < x(i), x(i) \notin page
      PROVE  \E u, v \in LateAfter(r.chat, i, n) : u # v
  <2>1. p \in rows /\ p \in Nat
    BY <1>2, <1>6, <1>9, NewestFacts
  <2>2. x(i) \notin rows
    <3>1. x(i) \in Nat /\ p <= x(i)
      BY <1>7, <1>9, <2>1
    <3> QED
      BY <1>2, <1>6, <1>9, <2>1, <3>1, NewestFacts
  <2>3. ~InTail(i)
    BY <1>3, <1>9, <2>2
  <2>4. PICK q \in rows : q \notin page
    BY <1>2, <1>6, <1>9, NewestFacts
  <2>5. q < p
    <3>1. ~(p <= q)
      BY <1>2, <1>6, <1>9, <2>4, NewestFacts
    <3> QED
      BY <1>2, <2>1, <2>4, <3>1
  <2>6. ASSUME NEW m \in rows, m < x(i) PROVE m \in LateAfter(r.chat, i, n)
    <3>1. PICK j \in 1..n : InTail(j) /\ m = x(j)
      BY <1>4
    <3>2. j \in (i + 1)..n
      <4> SUFFICES ASSUME j <= i PROVE FALSE
        BY <1>1
      <4>1. j - 1 \in 0..(i - 1) /\ i - 1 \in 0..Len(Lines[c])
        BY <1>1
      <4>2. /\ Bytes(c, j - 1) <= Bytes(c, i - 1) /\ Bytes(c, i - 1) \in Nat
            /\ Bytes(c, j - 1) \in Nat /\ Bytes(c, n) \in Nat
        BY <1>1, <4>1, BytesGrow
      <4> QED
        BY <1>1, <2>3, <3>1, <4>2
    <3> QED
      BY <2>6, <3>1, <3>2 DEF LateAfter
  <2>7. q < x(i)
    BY <1>2, <1>7, <1>9, <2>1, <2>4, <2>5
  <2> QED
    BY <1>2, <1>9, <2>1, <2>4, <2>5, <2>6, <2>7
<1>10. NoHole(a)
  <2>1. ASSUME a.more, NEW i \in 1..a.seen, IsBefore(Lines[a.chat][i], a.before),
               NEW p \in a.page, p < Lines[a.chat][i], Lines[a.chat][i] \notin a.page
        PROVE  \E u, v \in LateAfter(a.chat, i, a.seen) : u # v
    <3>1. i \in 1..n /\ p \in page /\ Cardinality(rows) > Limit
      BY <1>5, <2>1
    <3>2. IsBefore(x(i), r.before) /\ p < x(i) /\ x(i) \notin page
      BY <1>5, <2>1
    <3>3. \E u, v \in LateAfter(r.chat, i, n) : u # v
      BY <1>9, <3>1, <3>2
    <3> QED
      BY <1>5, <3>3
  <2> QED
    BY <2>1 DEF NoHole
<1> QED
  BY <1>8, <1>10 DEF a

-----------------------------------------------------------------------------
(* The inductive invariant: the logs, the requests, and the page.           *)

LogInv == len \in [Chats -> Nat] /\ \A c \in Chats : len[c] <= Len(Lines[c])

CallInv ==
    /\ call \in [Calls -> Requests]
    /\ \A k \in Calls :
          /\ CallOK(call[k], len[call[k].chat])
          /\ EndHolds(call[k])
          /\ NoHole(call[k])

BrowserInv ==
    /\ current \in Chats \cup {NoChat}
    /\ shown \subseteq Chats \X Messages
    /\ IF shown = {} THEN top = 0 ELSE \E m \in shown : m[2] = top
    /\ hasMore \in BOOLEAN /\ loadingOlder \in BOOLEAN /\ pinLatest \in BOOLEAN
    /\ lastKey \in Nat \cup {-1}
    /\ opens \in Nat /\ fails \in Nat

PagesInv == LogInv /\ CallInv /\ BrowserInv

LEMMA MessagesNat == Messages \subseteq Nat \ {0}
<1>1. ASSUME NEW c \in Chats, NEW i \in 1..Len(Lines[c]) PROVE Lines[c][i] \in Nat \ {0}
  <2>1. Lines[c] \in Seq(Nat \ {0})
    BY ConstAssumption
  <2> QED
    BY <2>1
<1> QED
  BY <1>1 DEF Messages

LEMMA FreeOK ==
    /\ Free \in Requests /\ EndHolds(Free) /\ NoHole(Free)
    /\ \A n : CallOK(Free, n)
BY FS_EmptySet DEF Free, Requests, EndHolds, NoHole, CallOK

LEMMA SentOK ==
    ASSUME NEW c \in Chats, NEW before \in Nat, NEW n \in 0..Len(Lines[c]),
           NEW kind \in {"open", "older", "poll"}
    PROVE  /\ Sent(kind, c, before) \in Requests
           /\ Sent(kind, c, before).chat = c
           /\ EndHolds(Sent(kind, c, before)) /\ NoHole(Sent(kind, c, before))
           /\ CallOK(Sent(kind, c, before), n)
<1> DEFINE s == Sent(kind, c, before)
<1>1. s = [at |-> "stat", kind |-> kind, chat |-> c, before |-> before,
           size |-> 0, chunk |-> 0, whole |-> FALSE, seen |-> 0,
           page |-> {}, more |-> FALSE]
  <2> DEFINE Fields == {"at", "kind", "chat", "before", "size", "chunk", "whole",
                        "seen", "page", "more"}
  <2>1. DOMAIN Free = Fields
    BY DEF Free
  <2>2. s = [x \in Fields |-> IF x = "before" THEN before ELSE IF x = "chat" THEN c
              ELSE IF x = "kind" THEN kind ELSE IF x = "at" THEN "stat" ELSE Free[x]]
    BY <2>1 DEF Sent
  <2> QED
    BY <2>2 DEF Free
<1>2. s \in Requests
  BY <1>1 DEF Requests
<1>3. s.at = "stat" /\ s.chat = c /\ s.size = 0 /\ s.chunk = 0 /\ s.seen = 0 /\ s.page = {}
  BY <1>1
<1> HIDE DEF s
<1>4. EndHolds(s) /\ NoHole(s)
  BY <1>3 DEF EndHolds, NoHole
<1>5. CallOK(s, n)
  BY <1>3, BytesGrow, FS_EmptySet DEF CallOK
<1> QED
  BY <1>2, <1>3, <1>4, <1>5 DEF s

(* One request becomes r, and the logs stay.                                *)
LEMMA OneCall ==
    ASSUME CallInv, UNCHANGED len, NEW k \in Calls, NEW r \in Requests,
           Becomes(k, r), CallOK(r, len[r.chat]), EndHolds(r), NoHole(r)
    PROVE  CallInv'
<1>1. call' = [call EXCEPT ![k] = r] /\ call \in [Calls -> Requests]
  BY DEF Becomes, CallInv
<1>2. call' \in [Calls -> Requests] /\ \A j \in Calls : call'[j] = IF j = k THEN r ELSE call[j]
  BY <1>1
<1>3. ASSUME NEW j \in Calls
      PROVE  CallOK(call'[j], len[call'[j].chat]) /\ EndHolds(call'[j]) /\ NoHole(call'[j])
  BY <1>2 DEF CallInv
<1>4. len' = len
  OBVIOUS
<1> QED
  BY <1>2, <1>3, <1>4 DEF CallInv

LEMMA PageFacts ==
    ASSUME CallInv, NEW k \in Calls
    PROVE  /\ call[k] \in Requests
           /\ call[k].page \subseteq Messages
           /\ KeyOf(call[k].page) \in Nat
           /\ IF call[k].page = {} THEN TopOf(call[k].page) = 0
                                   ELSE TopOf(call[k].page) \in call[k].page
<1>1. call[k] \in Requests /\ IsFiniteSet(call[k].page)
  BY DEF CallInv, CallOK
<1>2. call[k].page \subseteq Messages /\ call[k].page \in SUBSET Nat
  BY <1>1, MessagesNat DEF Requests
<1>3. call[k].page # {} => Maximum(call[k].page) \in Messages
  BY <1>1, <1>2, MaximumIn
<1>4. KeyOf(call[k].page) \in Nat
  BY <1>3, ConstAssumption DEF KeyOf
<1> QED
  BY <1>1, <1>2, <1>4, MinimumIn DEF TopOf

(* A page becomes what is shown, or a part of it comes before or after.     *)
LEMMA ShownFacts ==
    ASSUME NEW c \in Chats, NEW list \in SUBSET Messages, NEW t,
           IF list = {} THEN t = 0 ELSE t \in list
    PROVE  /\ Shown(c, list) \subseteq Chats \X Messages
           /\ IF Shown(c, list) = {} THEN t = 0 ELSE \E m \in Shown(c, list) : m[2] = t
           /\ Shown(c, list) = {} <=> list = {}
<1>1. \A x \in list : <<c, x>> \in Shown(c, list) /\ <<c, x>>[2] = x
  BY DEF Shown
<1>2. \A m \in Shown(c, list) : m \in Chats \X Messages /\ list # {}
  BY DEF Shown
<1> QED
  BY <1>1, <1>2

LEMMA PagesInit == Init => PagesInv
<1> SUFFICES ASSUME Init PROVE PagesInv
  OBVIOUS
<1>1. LogInv
  BY DEF Init, LogInv
<1>2. CallInv
  BY FreeOK DEF Init, CallInv
<1>3. BrowserInv
  BY DEF Init, BrowserInv
<1> QED
  BY <1>1, <1>2, <1>3 DEF PagesInv

LEMMA PagesStep == PagesInv /\ [Next]_vars => PagesInv'
<1> SUFFICES ASSUME PagesInv, [Next]_vars PROVE PagesInv'
  OBVIOUS
<1> USE DEF PagesInv
<1>1. ASSUME NEW c \in Chats, Append1(c) PROVE PagesInv'
  <2>1. LogInv' /\ \A d \in Chats : len[d] \in Nat /\ len'[d] \in Nat /\ len[d] <= len'[d]
    <3>1. Len(Lines[c]) \in Nat
      BY ConstAssumption
    <3> QED
      BY <1>1, <3>1 DEF Append1, LogInv
  <2>2. BrowserInv'
    BY <1>1 DEF Append1, BrowserInv, pageVars
  <2>3. ASSUME NEW k \in Calls PROVE CallOK(call[k], len'[call[k].chat])
    <3>1. CallOK(call[k], len[call[k].chat]) /\ call[k] \in Requests
      BY DEF CallInv
    <3>2. CASE call[k].at = "free"
      BY <3>1, <3>2 DEF CallOK
    <3>3. CASE call[k].at # "free"
      <4> DEFINE d == call[k].chat
      <4>1. d \in Chats /\ Len(Lines[d]) \in Nat /\ len'[d] <= Len(Lines[d])
        BY <2>1, <3>1, <3>3, ConstAssumption DEF CallOK, LogInv
      <4>2. Bytes(d, len[d]) <= Bytes(d, len'[d]) /\ Bytes(d, len[d]) \in Nat
            /\ Bytes(d, len'[d]) \in Nat
        BY <2>1, <4>1, BytesGrow
      <4>3. call[k].size \in Nat /\ call[k].chunk \in Nat /\ call[k].seen \in Nat
        BY <3>1 DEF Requests
      <4> QED
        BY <2>1, <3>1, <3>3, <4>1, <4>2, <4>3 DEF CallOK
    <3> QED
      BY <3>2, <3>3
  <2>4. CallInv'
    BY <1>1, <2>3 DEF Append1, CallInv
  <2> QED
    BY <2>1, <2>2, <2>4
<1>2. ASSUME NEW k \in Calls, Stat(k) PROVE PagesInv'
  <2> DEFINE n == Bytes(call[k].chat, len[call[k].chat])
             r == [call[k] EXCEPT !.at = IF n = 0 THEN "answer" ELSE "tail",
                                  !.size = n, !.chunk = Least(n, FirstChunk)]
  <2>1. call[k] \in Requests /\ call[k].chat \in Chats /\ IsFiniteSet(call[k].page)
    BY <1>2 DEF Stat, CallInv, CallOK
  <2>2. n \in Nat
    BY <2>1, BytesGrow, ConstAssumption DEF LogInv
  <2>3. Least(n, FirstChunk) \in Nat /\ Least(n, FirstChunk) <= n
        /\ (n > 0 => Least(n, FirstChunk) > 0)
    BY <2>2, ConstAssumption DEF Least
  <2>4. /\ r \in Requests
        /\ r.chat = call[k].chat /\ r.page = call[k].page
        /\ r.size = n /\ r.chunk = Least(n, FirstChunk) /\ r.seen = 0
        /\ r.at = IF n = 0 THEN "answer" ELSE "tail"
    <3>1. call[k].seen = 0
      BY <1>2 DEF Stat, CallInv, CallOK
    <3> QED
      BY <2>1, <2>2, <2>3, <3>1 DEF Requests
  <2> HIDE DEF r
  <2>5. CallOK(r, len[call[k].chat]) /\ EndHolds(r) /\ NoHole(r)
    BY <2>1, <2>2, <2>3, <2>4 DEF CallOK, EndHolds, NoHole, LogInv
  <2>6. CallInv'
    <3>1. Becomes(k, r) /\ UNCHANGED len
      BY <1>2 DEF Stat, r
    <3> QED
      BY <2>4, <2>5, <3>1, OneCall
  <2>7. LogInv' /\ BrowserInv'
    BY <1>2 DEF Stat, LogInv, BrowserInv, pageVars
  <2> QED
    BY <2>6, <2>7
<1>3. ASSUME NEW k \in Calls, StatTail(k) PROVE PagesInv'
  <2> DEFINE n == len[call[k].chat]
             b == Bytes(call[k].chat, n)
             w == b <= call[k].chunk
             r == [call[k] EXCEPT !.at = "read", !.whole = w]
  <2>1. call[k] \in Requests /\ CallOK(call[k], n) /\ call[k].chat \in Chats /\ n \in Nat
        /\ b \in Nat
    <3>1. call[k] \in Requests /\ CallOK(call[k], n) /\ call[k].chat \in Chats /\ n \in Nat
          /\ n <= Len(Lines[call[k].chat]) /\ Len(Lines[call[k].chat]) \in Nat
      BY <1>3, ConstAssumption DEF StatTail, CallInv, CallOK, LogInv
    <3> QED
      BY <3>1, BytesGrow
  <2>2. w \in BOOLEAN
    OBVIOUS
  <2> HIDE DEF w
  <2>3. /\ r \in Requests
        /\ r.chat = call[k].chat /\ r.page = call[k].page
        /\ r.size = call[k].size /\ r.chunk = call[k].chunk /\ r.seen = call[k].seen
        /\ r.at = "read" /\ r.whole = w
    BY <2>1, <2>2 DEF Requests
  <2> HIDE DEF r
  <2>4. CallOK(r, n) /\ EndHolds(r) /\ NoHole(r)
    <3>1. call[k].at = "tail" /\ call[k].chunk \in Nat
      BY <1>3, <2>1 DEF StatTail, Requests
    <3>2. ~r.whole => b > r.chunk
      <4>1. ~w => b > call[k].chunk
        BY <2>1, <3>1 DEF w
      <4>2. r.whole = w /\ r.chunk = call[k].chunk
        BY <2>3
      <4> QED
        BY <4>1, <4>2
    <3>3. CallOK(r, n)
      BY <2>1, <2>3, <3>1, <3>2 DEF CallOK
    <3> QED
      BY <2>3, <3>3 DEF EndHolds, NoHole
  <2>5. CallInv'
    <3>1. Becomes(k, r) /\ UNCHANGED len
      BY <1>3 DEF StatTail, r, w
    <3> QED
      BY <2>1, <2>3, <2>4, <3>1, OneCall
  <2>6. LogInv' /\ BrowserInv'
    BY <1>3 DEF StatTail, LogInv, BrowserInv, pageVars
  <2> QED
    BY <2>5, <2>6
<1>4. ASSUME NEW k \in Calls, ReadTail(k) PROVE PagesInv'
  <2> DEFINE n == len[call[k].chat]
             r == [call[k] EXCEPT !.at = "tail", !.chunk = Longer(call[k])]
  <2>1. call[k] \in Requests /\ CallOK(call[k], n) /\ call[k].chat \in Chats /\ n \in Nat
        /\ n <= Len(Lines[call[k].chat]) /\ call[k].at = "read"
    BY <1>4 DEF ReadTail, CallInv, CallOK, LogInv
  <2>2. UNCHANGED len /\ LogInv' /\ BrowserInv'
    BY <1>4 DEF ReadTail, LogInv, BrowserInv, pageVars
  <2>3. CASE Enough(call[k])
    <3> DEFINE a == AnswerOf(call[k])
    <3>1. a \in Requests /\ IsFiniteSet(a.page) /\ EndHolds(a) /\ NoHole(a)
      BY <2>1, <2>3, AnswerIsRequest, LastTail DEF LogInv
    <3>2. a.at = "answer" /\ a.seen = n /\ a.size = call[k].size
          /\ a.chunk = call[k].chunk /\ a.chat = call[k].chat
      BY <2>1, AnswerFields
    <3>3. Becomes(k, a)
      BY <1>4, <2>3 DEF ReadTail, AnswerOf
    <3> HIDE DEF a
    <3>4. CallOK(a, n)
      BY <2>1, <3>1, <3>2 DEF CallOK
    <3> QED
      BY <2>2, <3>1, <3>2, <3>3, <3>4, OneCall
  <2>4. CASE ~Enough(call[k])
    <3>1. /\ call[k].size \in Nat /\ call[k].chunk \in Nat
          /\ call[k].chunk > 0 /\ call[k].chunk <= call[k].size
      BY <2>1 DEF CallOK, Requests
    <3>2. Longer(call[k]) \in Nat /\ Longer(call[k]) <= call[k].size /\ Longer(call[k]) > 0
      BY <3>1, ConstAssumption DEF Longer, Least, Greater
    <3>3. /\ r \in Requests
          /\ r.chat = call[k].chat /\ r.page = call[k].page /\ r.size = call[k].size
          /\ r.chunk = Longer(call[k]) /\ r.seen = call[k].seen /\ r.at = "tail"
      BY <2>1, <3>2 DEF Requests
    <3>4. Becomes(k, r)
      BY <1>4, <2>4 DEF ReadTail
    <3> HIDE DEF r
    <3>5. CallOK(r, n) /\ EndHolds(r) /\ NoHole(r)
      BY <2>1, <3>1, <3>2, <3>3 DEF CallOK, EndHolds, NoHole
    <3> QED
      BY <2>2, <3>3, <3>4, <3>5, OneCall
  <2> QED
    BY <2>3, <2>4
<1>5. ASSUME NEW k \in Calls, NEW c \in Chats, OpenChat(k, c) PROVE PagesInv'
  <2>1. CallInv'
    <3>1. len[c] \in 0..Len(Lines[c])
      BY ConstAssumption DEF LogInv
    <3> QED
      BY <1>5, <3>1, SentOK, OneCall DEF OpenChat, Send
  <2> QED
    <3>1. LogInv'
      BY <1>5 DEF OpenChat, LogInv
    <3>2. /\ current' = c /\ shown' = {} /\ top' = 0
          /\ hasMore' = TRUE /\ loadingOlder' = FALSE /\ pinLatest' = TRUE
          /\ lastKey' = -1 /\ opens' = opens + 1 /\ fails' = fails
      BY <1>5 DEF OpenChat
    <3>3. opens' \in Nat /\ fails' \in Nat
      BY <3>2 DEF BrowserInv
    <3>4. hasMore' \in BOOLEAN /\ loadingOlder' \in BOOLEAN /\ pinLatest' \in BOOLEAN
      BY <3>2
    <3>5. current' \in Chats /\ shown' = {} /\ top' = 0 /\ lastKey' \in {-1, 0}
      BY <3>2
    <3>6. BrowserInv'
      BY <3>3, <3>4, <3>5 DEF BrowserInv
    <3> QED
      BY <2>1, <3>1, <3>6
<1>6. ASSUME NEW k \in Calls, OpenDone(k) PROVE PagesInv'
  <2>1. CallInv'
    BY <1>6, FreeOK, OneCall DEF OpenDone, Finish
  <2>2. call[k].page \subseteq Messages /\ call[k].more \in BOOLEAN
        /\ IF call[k].page = {} THEN TopOf(call[k].page) = 0
                                ELSE TopOf(call[k].page) \in call[k].page
    BY PageFacts DEF Requests
  <2> DEFINE more == call[k].more /\ Cardinality(call[k].page) >= Limit
  <2>3. more \in BOOLEAN
    OBVIOUS
  <2>4. hasMore' = more
    BY <1>6 DEF OpenDone
  <2> HIDE DEF more
  <2>5. LogInv' /\ current' = current /\ loadingOlder' = loadingOlder
        /\ pinLatest' = pinLatest /\ opens' = opens /\ fails' = fails
    BY <1>6 DEF OpenDone, LogInv
  <2>6. /\ shown' = Shown(call[k].chat, call[k].page) /\ call[k].chat \in Chats
        /\ top' = TopOf(call[k].page) /\ lastKey' \in {-1, 0}
    BY <1>6 DEF OpenDone, Answered, CallInv, CallOK
  <2>7. BrowserInv'
    BY <2>2, <2>3, <2>4, <2>5, <2>6, ShownFacts DEF BrowserInv
  <2> QED
    BY <2>1, <2>5, <2>7
<1>7. ASSUME NEW k \in Calls, LoadOlder(k) PROVE PagesInv'
  <2>1. current \in Chats /\ top \in Nat /\ len[current] \in 0..Len(Lines[current])
    <3>1. current \in Chats /\ Len(Lines[current]) \in Nat
      BY <1>7, ConstAssumption DEF LoadOlder, BrowserInv
    <3>2. PICK m \in shown : m[2] = top
      BY <1>7 DEF LoadOlder, BrowserInv
    <3>3. top \in Nat
      BY <3>2, MessagesNat DEF BrowserInv
    <3> QED
      BY <3>1, <3>3 DEF LogInv
  <2>2. CallInv'
    BY <1>7, <2>1, SentOK, OneCall DEF LoadOlder, Send
  <2> QED
    BY <1>7, <2>2 DEF LoadOlder, LogInv, BrowserInv
<1>8. ASSUME NEW k \in Calls, OlderDone(k) PROVE PagesInv'
  <2> DEFINE add == Extra(call[k].page)
             c == call[k].chat
  <2>1. CallInv'
    BY <1>8, FreeOK, OneCall DEF OlderDone, Finish
  <2>2. add \in SUBSET Messages /\ call[k].more \in BOOLEAN /\ c \in Chats
    BY <1>8, PageFacts DEF Requests, Extra, OlderDone, Answered, CallInv, CallOK
  <2>3. add # {} => Minimum(add) \in add
    BY <2>2, MessagesNat, MinimumIn
  <2> DEFINE t == IF add = {} THEN 0 ELSE Minimum(add)
  <2>4. /\ Shown(c, add) \subseteq Chats \X Messages
        /\ add # {} => \E m \in Shown(c, add) : m[2] = Minimum(add)
        /\ Shown(c, add) = {} <=> add = {}
    BY <2>2, <2>3, ShownFacts
  <2>5. /\ shown' = shown \cup Shown(c, add) /\ top' = IF add = {} THEN top ELSE Minimum(add)
        /\ hasMore' = (call[k].more /\ add # {}) /\ loadingOlder' = FALSE
        /\ UNCHANGED <<len, current, pinLatest, lastKey, opens, fails>>
    BY <1>8 DEF OlderDone
  <2>6. hasMore' \in BOOLEAN
    <3>1. (call[k].more /\ add # {}) \in BOOLEAN
      OBVIOUS
    <3> QED
      BY <2>5, <3>1
  <2> HIDE DEF add, c
  <2>7. IF shown' = {} THEN top' = 0 ELSE \E m \in shown' : m[2] = top'
    BY <2>4, <2>5 DEF BrowserInv
  <2>8. BrowserInv'
    BY <2>4, <2>5, <2>6, <2>7 DEF BrowserInv
  <2> QED
    BY <2>1, <2>5, <2>8 DEF LogInv
<1>9. ASSUME NEW k \in Calls, Poll(k) PROVE PagesInv'
  <2>1. current \in Chats /\ len[current] \in 0..Len(Lines[current])
    BY <1>9, ConstAssumption DEF Poll, BrowserInv, LogInv
  <2>2. CallInv'
    BY <1>9, <2>1, SentOK, OneCall DEF Poll, Send
  <2> QED
    BY <1>9, <2>2 DEF Poll, LogInv, BrowserInv, pageVars
<1>10. ASSUME NEW k \in Calls, PollDone(k) PROVE PagesInv'
  <2>1. CallInv'
    BY <1>10, FreeOK, OneCall DEF PollDone, Finish
  <2> DEFINE list == call[k].page
             c == call[k].chat
             extra == Extra(list)
  <2>2. /\ list \in SUBSET Messages /\ KeyOf(list) \in Nat /\ c \in Chats
        /\ IF list = {} THEN TopOf(list) = 0 ELSE TopOf(list) \in list
    BY <1>10, PageFacts DEF PollDone, Answered, CallInv, CallOK
  <2>3. (call[k].more /\ Cardinality(list) >= Limit) \in BOOLEAN
    OBVIOUS
  <2>4. LogInv' /\ current' = current /\ loadingOlder' = loadingOlder
        /\ pinLatest' = pinLatest /\ opens' = opens /\ fails' = fails
    BY <1>10 DEF PollDone, LogInv
  <2>5. CASE KeyOf(list) = lastKey
    BY <1>10, <2>1, <2>4, <2>5 DEF PollDone, BrowserInv
  <2>6. CASE KeyOf(list) # lastKey
    <3>1. lastKey' = KeyOf(list) /\ Refresh(c, list, call[k].more)
      BY <1>10, <2>6 DEF PollDone
    <3>2. CASE pinLatest /\ ~loadingOlder
      <4>1. /\ shown' = Shown(c, list) /\ top' = TopOf(list)
            /\ hasMore' = (call[k].more /\ Cardinality(list) >= Limit)
        BY <3>1, <3>2 DEF Refresh
      <4> QED
        BY <2>1, <2>2, <2>3, <2>4, <3>1, <4>1, ShownFacts DEF BrowserInv
    <3>3. CASE ~(pinLatest /\ ~loadingOlder)
      <4>1. shown' = shown \cup Shown(c, extra) /\ hasMore' = hasMore
            /\ top' = IF shown = {} THEN TopOf(list) ELSE top
        BY <3>1, <3>3 DEF Refresh
      <4>2. extra \in SUBSET Messages /\ (shown = {} => extra = list)
        BY <2>2 DEF Extra
      <4>3. Shown(c, extra) \subseteq Chats \X Messages
        BY <2>2, <4>2 DEF Shown
      <4>4. shown = {} => IF shown' = {} THEN top' = 0 ELSE \E m \in shown' : m[2] = top'
        BY <2>2, <4>1, <4>2, ShownFacts
      <4>5. shown # {} => \E m \in shown' : m[2] = top'
        BY <4>1 DEF BrowserInv
      <4>6. IF shown' = {} THEN top' = 0 ELSE \E m \in shown' : m[2] = top'
        BY <4>1, <4>4, <4>5
      <4> QED
        BY <2>1, <2>2, <2>4, <3>1, <4>1, <4>3, <4>6 DEF BrowserInv
    <3> QED
      BY <3>2, <3>3
  <2> QED
    BY <2>5, <2>6
<1>11. ASSUME NEW k \in Calls, Fail(k) PROVE PagesInv'
  <2>1. CallInv'
    BY <1>11, FreeOK, OneCall DEF Fail, Finish
  <2> QED
    <3>1. LogInv' /\ current' = current /\ shown' = shown /\ top' = top
          /\ pinLatest' = pinLatest /\ lastKey' = lastKey /\ opens' = opens
      BY <1>11 DEF Fail, LogInv
    <3>2. hasMore' \in BOOLEAN /\ loadingOlder' \in BOOLEAN /\ fails' \in Nat
      <4>1. \/ hasMore' = TRUE /\ loadingOlder' = FALSE
            \/ UNCHANGED <<hasMore, loadingOlder>>
        BY <1>11 DEF Fail
      <4>2. fails' = fails + 1
        BY <1>11 DEF Fail
      <4>3. hasMore' \in BOOLEAN /\ loadingOlder' \in BOOLEAN
        BY <4>1 DEF BrowserInv
      <4>4. fails' \in Nat
        BY <4>2 DEF BrowserInv
      <4> QED
        BY <4>3, <4>4
    <3>3. BrowserInv'
      BY <3>1, <3>2 DEF BrowserInv
    <3> QED
      BY <2>1, <3>1, <3>3
<1>12. CASE Scroll
  BY <1>12 DEF Scroll, LogInv, CallInv, BrowserInv
<1>13. CASE UNCHANGED vars
  BY <1>13 DEF vars, LogInv, CallInv, BrowserInv
<1> QED
  BY <1>1, <1>2, <1>3, <1>4, <1>5, <1>6, <1>7, <1>8, <1>9, <1>10, <1>11, <1>12, <1>13
     DEF Next, Serve, Deliver

LEMMA PagesInvariant == Spec => []PagesInv
BY PagesInit, PagesStep, PTL DEF Spec

(* Every variable keeps its type, a tail is never longer than the size the  *)
(* request took first, and the cursor is a message that is shown, whatever  *)
(* answers come when.                                                       *)
THEOREM PagesTypeCorrect == Spec => []TypeOK
<1>1. PagesInv => TypeOK
  BY DEF PagesInv, LogInv, CallInv, BrowserInv, CallOK, TypeOK
<1> QED
  BY <1>1, PagesInvariant, PTL

(* A page without has_more is the end of the log, but for the lines that    *)
(* begin in as many bytes at its head as were appended during the request.  *)
THEOREM EndReached == Spec => []EndIsEnd
<1>1. PagesInv => EndIsEnd
  BY DEF PagesInv, CallInv, EndIsEnd
<1> QED
  BY <1>1, PagesInvariant, PTL

(* A page with has_more has no hole unless two older messages were written  *)
(* after the one it leaves out.                                             *)
THEOREM PagesContiguous == Spec => []NothingSkipped
<1>1. PagesInv => NothingSkipped
  BY DEF PagesInv, CallInv, NothingSkipped
<1> QED
  BY <1>1, PagesInvariant, PTL
=============================================================================

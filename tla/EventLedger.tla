----------------------------- MODULE EventLedger -----------------------------
(***************************************************************************)
(* What the store promises about one message, whatever the uploads,        *)
(* retries and crashes that brought it there: one index row, that is first *)
(* written with or without a media body and may gain a body once, and a    *)
(* JSONL log that repeats each state of the row at most once, in order.    *)
(* The promise is of the ON CONFLICT rule of consumer.py's INSERT_SQL and  *)
(* of the should_append rule of _persist_event.                            *)
(***************************************************************************)
EXTENDS Naturals, Sequences

CONSTANTS Files, Msgs, Msg, None, NoRow

VARIABLES row, log

ledgerVars == <<row, log>>

Init ==
    /\ row = [m \in Msgs |-> NoRow]
    /\ log = [m \in Msgs |-> <<>>]

(* The uploads that can give message m a body.                              *)
BodiesOf(m) == {f \in Files : Msg[f] = m}

Insert(m) ==
    /\ row[m] = NoRow
    /\ \E x \in BodiesOf(m) \cup {None} : row' = [row EXCEPT ![m] = x]
    /\ UNCHANGED log

Upgrade(m) ==
    /\ row[m] = None
    /\ \E f \in BodiesOf(m) : row' = [row EXCEPT ![m] = f]
    /\ UNCHANGED log

(* The state of the row reaches the log, unless the log already ends in it. *)
Publish(m) ==
    /\ row[m] # NoRow
    /\ \A i \in DOMAIN log[m] : log[m][i] # row[m]
    /\ log' = [log EXCEPT ![m] = Append(@, row[m])]
    /\ UNCHANGED row

Next == \E m \in Msgs : Insert(m) \/ Upgrade(m) \/ Publish(m)

Spec == Init /\ [][Next]_ledgerVars
=============================================================================

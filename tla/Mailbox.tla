------------------------------ MODULE Mailbox ------------------------------
(***************************************************************************)
(* What an Interpreter promises its users, without threads or locks: a     *)
(* sequential machine with a mailbox.  Events are numbered as they are     *)
(* accepted; at most one is taken at a time, and the snapshot changes only  *)
(* by folding in the event that is taken.                                  *)
(***************************************************************************)
EXTENDS Naturals, Sequences

CONSTANT MaxEvents   \* bound: accepted events

VARIABLES
    status,    \* not_started, running, stopped
    snapshot,  \* the committed snapshot: the events folded in, in order
    inbox,     \* accepted events not yet taken, oldest first
    taken,     \* {} or the one event being processed
    busy,      \* a macrostep, or start, is under way
    count      \* events accepted so far

vars == <<status, snapshot, inbox, taken, busy, count>>

Init ==
    /\ status = "not_started"
    /\ snapshot = <<>>
    /\ inbox = <<>>
    /\ taken = {}
    /\ busy = FALSE
    /\ count = 0

\* The machine starts, on its initial or a restored snapshot; it is busy with
\* the entry actions, and what they send waits.
Start ==
    /\ status = "not_started"
    /\ status' = "running"
    /\ snapshot' \in {snapshot, <<0>>}
    /\ busy' = TRUE
    /\ UNCHANGED <<inbox, taken, count>>

Accept ==
    /\ status = "running"
    /\ count < MaxEvents
    /\ count' = count + 1
    /\ inbox' = Append(inbox, count + 1)
    /\ busy' = TRUE
    /\ UNCHANGED <<status, snapshot, taken>>

Take ==
    /\ status = "running" /\ busy
    /\ taken = {} /\ inbox # <<>>
    /\ taken' = {Head(inbox)}
    /\ inbox' = Tail(inbox)
    /\ UNCHANGED <<status, snapshot, busy, count>>

Fold ==
    /\ status = "running" /\ busy
    /\ \E e \in taken : snapshot' = Append(snapshot, e)
    /\ taken' = {}
    /\ UNCHANGED <<status, inbox, busy, count>>

\* The event taken is given up: its transition raised or came after Stop.
GiveUp ==
    /\ busy /\ taken # {}
    /\ taken' = {}
    /\ UNCHANGED <<status, snapshot, inbox, busy, count>>

\* The machine rests only with an empty inbox, unless it was stopped.
Rest ==
    /\ busy /\ taken = {}
    /\ inbox = <<>> \/ status # "running"
    /\ busy' = FALSE
    /\ UNCHANGED <<status, snapshot, inbox, taken, count>>

\* An exception discards what was queued behind the macrostep that raised.
Abort ==
    /\ busy /\ taken = {}
    /\ inbox' = <<>>
    /\ busy' = FALSE
    /\ UNCHANGED <<status, snapshot, taken, count>>

Stop ==
    /\ status' = "stopped"
    /\ inbox' = <<>>
    /\ UNCHANGED <<snapshot, taken, busy, count>>

Next == Start \/ Accept \/ Take \/ Fold \/ GiveUp \/ Rest \/ Abort \/ Stop

Spec == Init /\ [][Next]_vars
=============================================================================

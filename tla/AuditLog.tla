------------------------------ MODULE AuditLog ------------------------------
(***************************************************************************)
(* The audit log: AppendAudit and PruneAudit of internal/store/store.go,   *)
(* and the pruner of cmd/web-ssh/main.go, which prunes when the process    *)
(* starts and every six hours from then on.                                *)
(*                                                                         *)
(* log is the bucket in the order of its keys, which is the order of the   *)
(* appends, and has for each event its age: the wall clock now less the    *)
(* time in the event.  When the clock is set back, ages shrink, and an     *)
(* older event can be the younger one.  A transaction happens as a whole   *)
(* or not at all, so each is one step, and a crash comes between steps.    *)
(***************************************************************************)
EXTENDS Integers, Sequences, FiniteSetsExt, Positions

CONSTANTS
    Retention,   \* AuditRetention
    MaxEvents,   \* AuditMaxEvents
    Interval,    \* the pruner's ticker
    PageEvents,  \* events on one page of the database, at most
    MaxLog,      \* bound: events in the log
    MaxBack,     \* bound: how far the clock is set back in all
    MaxFails     \* bound: transactions of the pruner that fail

\* A page of 4 kB holds fewer than a hundred events, MaxEvents is 100 000.
ASSUME AuditAssumption ==
    /\ Retention \in Nat /\ MaxEvents \in Nat \ {0} /\ Interval \in Nat \ {0}
    /\ PageEvents \in Nat \ {0} /\ PageEvents <= 2 * MaxEvents
    /\ MaxLog \in Nat /\ MaxBack \in Nat /\ MaxFails \in Nat

VARIABLES
    log,    \* ages, the oldest key first
    since,  \* time since the pruner ran; Interval when it is due
    phase,  \* "down", "started", "pruned": up, and has pruned with success
    back,   \* how far the clock has been set back
    fails   \* how many prunes have failed

vars == <<log, since, phase, back, fails>>

\* Above this, ages are all alike: the code and the properties see them as old.
Old == Retention + Interval * (1 + MaxFails) + 2 * MaxBack + 1

TypeOK ==
    /\ log \in Seq(-MaxBack..Old) /\ Len(log) <= MaxLog
    /\ since \in 0..Interval
    /\ phase \in {"down", "started", "pruned"}
    /\ back \in 0..MaxBack /\ fails \in 0..MaxFails

Init == log = <<>> /\ since = Interval /\ phase = "started" /\ back = 0 /\ fails = 0

Up == phase # "down"

\* audit() leaves the time to AppendAudit, which sets it in the transaction.
AppendAudit ==
    /\ Up /\ Len(log) < MaxLog
    /\ log' = Append(log, 0)
    /\ UNCHANGED <<since, phase, back, fails>>

-----------------------------------------------------------------------------
(* PruneAudit.                                                             *)

\* The first pass deletes from the front up to an event that is not before
\* the cutoff.
Expired_Bad == IF log # <<>> /\ log[1] > Retention THEN 1 ELSE 0
Expired == Cardinality({i \in DOMAIN log : \A j \in 1..i : log[j] > Retention})

\* Stats counts the committed pages: the first pass's deletions do not show.
Excess_Bad == IF Len(log) <= MaxEvents THEN 0 ELSE Len(log)
Excess == IF Len(log) <= MaxEvents THEN 0 ELSE Len(log) - MaxEvents

\* The second pass's cursor.  A page the first pass has deleted from is in
\* memory and shrinks with each Delete, so that Next passes over an event;
\* `t' is how many of its events are left.  Other pages are read as they were.
Touched == IF Expired = 0 THEN {0} ELSE 0..Min({PageEvents - 1, Len(log) - Expired})
Visited(t) == {i \in Expired+1..Len(log) : i > Expired + t \/ (i - Expired) % 2 = 1}

Kept_Bad(t) ==
    {i \in Expired+1..Len(log) : i \in Visited(t) => Rank(Visited(t), i) >= Excess}

Kept(t) ==
    {i \in Expired+1..Len(log) : i \in Visited(t) => Rank(Visited(t), i) > Excess}

PruneAudit(t) == log' = ElementsAt(log, Kept(t))

\* runPruner calls Prune, which drops its error, and waits.
Prune ==
    /\ Up /\ since = Interval
    /\ \E t \in Touched : PruneAudit(t)
    /\ since' = 0 /\ phase' = "pruned"
    /\ UNCHANGED <<back, fails>>

PruneFails ==
    /\ Up /\ since = Interval /\ fails < MaxFails
    /\ since' = 0 /\ fails' = fails + 1
    /\ UNCHANGED <<log, phase, back>>

-----------------------------------------------------------------------------

Aged == [i \in DOMAIN log |-> Min({log[i] + 1, Old})]

\* The ticker does not keep the pruner waiting.
Tick_Bad ==
    /\ log' = Aged /\ since' = since + 1
    /\ UNCHANGED <<phase, back, fails>>

Tick ==
    /\ Up => since < Interval
    /\ log' = Aged
    /\ since' = IF Up THEN since + 1 ELSE since
    /\ UNCHANGED <<phase, back, fails>>

SetBack ==
    /\ back < MaxBack /\ back' = back + 1
    /\ log' = [i \in DOMAIN log |-> log[i] - 1]
    /\ UNCHANGED <<since, phase, fails>>

\* The process ends, by a crash or a shutdown, and starts again.
Stop == Up /\ phase' = "down" /\ UNCHANGED <<log, since, back, fails>>

Restart == ~Up /\ phase' = "started" /\ since' = Interval /\ UNCHANGED <<log, back, fails>>

Next == AppendAudit \/ Prune \/ PruneFails \/ Tick \/ SetBack \/ Stop \/ Restart

Spec == Init /\ [][Next]_vars

-----------------------------------------------------------------------------
(* Properties.                                                             *)

\* "capped at ... 100,000 events": a prune leaves at most MaxEvents, however
\* its cursor moves (PruneAudit).
CapAfterPrune == [][Prune => Len(log') <= MaxEvents]_vars

\* Once the process has pruned, no event stays longer than the retention, one
\* turn of the pruner, one more for each that failed, and the time the
\* clock was set back: an event that seems young holds up those behind it.
KeptInTime ==
    phase = "pruned" /\ since < Interval
    => \A i \in DOMAIN log : log[i] <= Retention + Interval * (1 + fails) + back

\* How many events the cursor of the second pass may pass over.
PassedOver == (PageEvents - 1) \div 2

Newest(s, n) == SubSeq(s, Len(s) - n + 1, Len(s))

\* If nothing has expired or the log is within the cap, a prune leaves exactly
\* what README and SECURITY.md say: what is not expired, or the newest
\* MaxEvents of it.  Otherwise the count it compares with the cap is that of
\* before its first pass (PruneAudit), and it may remove as many more as had
\* expired, and not always the oldest: one that the cursor passes over stays,
\* and a newer one goes for it.  But the newest of the log, all up to the cap
\* less those two counts, are there at its end.
KeepsNewest ==
    [][Prune =>
          IF Len(log) <= MaxEvents \/ Expired = 0
          THEN log' = SubSeq(log, 1 + Max({Expired, Len(log) - MaxEvents}), Len(log))
          ELSE LET spared == MaxEvents - Expired - PassedOver
               IN  /\ Len(log') >= MaxEvents - Expired
                   /\ spared > 0 => Newest(log', spared) = Newest(log, spared)]_vars

=============================================================================

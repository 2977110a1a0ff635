---------------------------- MODULE CommitLedger ----------------------------
(***************************************************************************)
(* The commit ledger: table commit_records of the customer's database and  *)
(* the seven operations the Store protocol offers on it.  Every operation  *)
(* is one database transaction, so each is one step here; the row-level    *)
(* compare-and-set conditions are the WHERE clauses of the SQL.            *)
(*                                                                         *)
(* last_attempt_at is abstracted to the one thing the code asks of it:     *)
(* whether it lies before the recovery cutoff ("stale").  result_json and  *)
(* error_json are evidence nobody branches on and are left out, which also *)
(* makes record_error a stutter.                                           *)
(***************************************************************************)
EXTENDS Naturals, Sequences

CONSTANT Keys          \* the idempotency keys in play

VARIABLES
    row,               \* row[k]: the commit_records row of key k
    audit              \* audit[k]: the audit events chained with k's resolution

InFlight == {"pending", "executing"}
Terminal == {"committed", "aborted", "failed", "unknown"}
LedgerStates == {"none"} \union InFlight \union Terminal

\* A resolution's audit event: the guarded call's one action_event, or the
\* reconciler's own reconcile event; either names the state written.
EventTypes == {"action_event", "reconcile"}
Event(type, st) == [type |-> type, outcome |-> st]
Events == [type: EventTypes, outcome: Terminal]

NoRow == [state |-> "none", attempts |-> 0, stale |-> FALSE]

LedgerType ==
    /\ row \in [Keys -> [state: LedgerStates, attempts: Nat, stale: BOOLEAN]]
    /\ audit \in [Keys -> Seq(Events)]

LedgerInit ==
    /\ row = [k \in Keys |-> NoRow]
    /\ audit = [k \in Keys |-> <<>>]

IsInFlight(k) == row[k].state \in InFlight
IsTerminal(k) == row[k].state \in Terminal

\* claim: INSERT ... ON CONFLICT DO NOTHING.  The winner owns epoch 1.
Unclaimed(k) == row[k].state = "none"

InsertClaim(k) ==
    /\ Unclaimed(k)
    /\ row' = [row EXCEPT ![k] = [state |-> "pending", attempts |-> 1, stale |-> FALSE]]
    /\ UNCHANGED audit

\* mark_executing: pending -> executing, only under the claimed epoch.
\* A faulty variant: the epoch alone decides.
MarkMatchesAnyState(k, e) == row[k].attempts = e

MarkMatches(k, e) == row[k].state = "pending" /\ row[k].attempts = e

\* A faulty variant: the marker does not restart the staleness clock.
MarkExecutingKeepsClock(k, e) ==
    /\ MarkMatches(k, e)
    /\ row' = [row EXCEPT ![k].state = "executing"]
    /\ UNCHANGED audit

MarkExecuting(k, e) ==
    /\ MarkMatches(k, e)
    /\ row' = [row EXCEPT ![k].state = "executing", ![k].stale = FALSE]
    /\ UNCHANGED audit

\* finalize: the terminal compare-and-set.  committed, failed and unknown say
\* something about an execution and are reachable from executing only; new,
\* the caller's audit event if it passes one, is appended in the same
\* transaction, and only on a match.
FinalizeFrom(st) == IF st = "aborted" THEN InFlight ELSE {"executing"}

\* A faulty variant: no epoch fence.
FinalizeMatchesUnfenced(k, e, st) == row[k].state \in FinalizeFrom(st)

FinalizeMatches(k, e, st) ==
    row[k].state \in FinalizeFrom(st) /\ row[k].attempts = e

Finalize(k, e, st, new) ==
    /\ FinalizeMatches(k, e, st)
    /\ row' = [row EXCEPT ![k].state = st]
    /\ audit' = [audit EXCEPT ![k] = @ \o new]

\* stale_inflight: a plain read, a snapshot that nothing keeps up to date.
\* A faulty variant: the sweep looks for stale claims only.
StaleClaims == {k \in Keys : row[k].state = "pending" /\ row[k].stale}

StaleInflight == {k \in Keys : IsInFlight(k) /\ row[k].stale}

\* bump_epoch: the takeover.  It re-checks staleness, but not the state or
\* the epoch the caller read earlier.
\* Faulty variants: a takeover of a row that is not stale, or is resolved.
BumpMatchesFresh(k) == IsInFlight(k)
BumpMatchesResolved(k) == row[k].stale

BumpMatches(k) == IsInFlight(k) /\ row[k].stale

\* A faulty variant: the takeover restarts the clock but keeps the epoch.
BumpEpochNoIncrement(k) ==
    /\ BumpMatches(k)
    /\ row' = [row EXCEPT ![k].stale = FALSE]
    /\ UNCHANGED audit

BumpEpoch(k) ==
    /\ BumpMatches(k)
    /\ row' = [row EXCEPT ![k].attempts = @ + 1, ![k].stale = FALSE]
    /\ UNCHANGED audit

\* The clock passes last_attempt_at + older_than.
GrowStale(k) ==
    /\ IsInFlight(k)
    /\ ~row[k].stale
    /\ row' = [row EXCEPT ![k].stale = TRUE]
    /\ UNCHANGED audit
=============================================================================

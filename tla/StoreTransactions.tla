------------------------- MODULE StoreTransactions -------------------------
(***************************************************************************)
(* The two stores (airlock/store/postgres.py and sqlite.py), statement by  *)
(* statement: every operation of the Store protocol that writes is one     *)
(* database transaction, begun, run, and then committed, rolled back or    *)
(* lost in a crash.  Other processes see committed data only.              *)
(*                                                                         *)
(* Postgres, READ COMMITTED: a guarded UPDATE or INSERT waits for the row  *)
(* another transaction has written and then looks at it again; an append   *)
(* waits for the head row (SELECT ... FOR UPDATE).  SQLite: BEGIN          *)
(* IMMEDIATE waits for the one write lock there is.                        *)
(***************************************************************************)
EXTENDS AuditChain, FiniteSets, Functions

CONSTANTS
    Keys,              \* idempotency keys: one ledger row, one paused run each
    Writers,           \* threads using a store
    Nobody,            \* holds the lock nobody holds
    Dialects,          \* the stores deployed: "postgres", "sqlite"
    Workloads,         \* which operations a deployment performs
    Outcomes,          \* the terminal states finalize is called with
    MaxEpoch,          \* bound: attempts of a row
    MaxEvents          \* bound: rows on the chain after genesis

VARIABLES
    dialect,           \* the store in use
    workload,          \* the operations performed on it
    row,               \* row[k]: the committed commit_records row
    run,               \* run[k]: the committed status of the paused_runs row
    events,            \* audit_events, in seq order
    head,              \* audit_chain_head
    owner,             \* owner[l]: who holds lock l
    tx,                \* tx[w]: the transaction w is in
    log,               \* history: the envelopes ever committed, in order
    silent             \* history: the envelopes of what was done without one

data == <<row, run, events, head, log, silent>>
deployment == <<dialect, workload>>
storeVars == <<deployment, data, owner, tx>>

\* What the envelopes say of one row of a table, in their order.
Said(envs, table, k) ==
    LET f[n \in 0..Len(envs)] ==
            IF n = 0 THEN <<>>
            ELSE IF envs[n].table = table /\ envs[n].key = k
                 THEN Append(f[n - 1], envs[n].what) ELSE f[n - 1]
    IN f[Len(envs)]

\* To a store an event is an event: one type stands for both.
TerminalEvents ==
    [k \in Keys |-> LET said == Said(log, "row", k)
                    IN [i \in DOMAIN said |-> [type |-> "action_event", outcome |-> said[i]]]]

Ledger == INSTANCE CommitLedger WITH audit <- TerminalEvents

ASSUME StoreAssumption ==
    /\ Dialects \subseteq {"postgres", "sqlite"} /\ Dialects # {}
    /\ Nobody \notin Writers
    /\ Outcomes \subseteq Ledger!Terminal
    /\ MaxEpoch \in Nat /\ MaxEvents \in Nat

-----------------------------------------------------------------------------
(* Locks, and the transaction of one writer.                               *)

RowLock(k) == <<"row", k>>
RunLock(k) == <<"run", k>>
HeadLock == <<"head", "head">>
FileLock == <<"file", "file">>
Locks == ({"row", "run"} \X Keys) \union {HeadLock, FileLock}

Free(l) == owner[l] = Nobody
Held(w) == {l \in Locks : owner[l] = w}
Take(w, ls) == owner' = [l \in Locks |-> IF l \in ls THEN w ELSE owner[l]]

Release(w) == owner' = [l \in Locks |-> IF owner[l] = w THEN Nobody ELSE owner[l]]

\* An operation: the row it is about, the guards and values of its SQL, and
\* whether the caller passes the audit event of what it does.
Op(name, k, epoch, from, to, audited) ==
    [name |-> name, key |-> k, epoch |-> epoch, from |-> from, to |-> to, audited |-> audited]

NoOp == Op("none", "none", 0, "none", "none", TRUE)

PauseTransitions ==
    {<<"proposed", "approved">>, <<"proposed", "rejected">>,
     <<"approved", "committed">>, <<"approved", "aborted">>, <<"rejected", "aborted">>}

\* What callers ask for; audit=None is theirs to pass to finalize,
\* save_paused and transition_paused.  append_audit stands for a mirror.
Plain(k) == {Op(name, k, 0, "none", "none", TRUE) : name \in {"claim", "bump", "append"}}
Marks(k) == {Op("mark", k, e, "none", "none", TRUE) : e \in 1..MaxEpoch}
Finalizes(k) ==
    {Op("finalize", k, e, "none", st, b) : e \in 1..MaxEpoch, st \in Outcomes, b \in BOOLEAN}
Saves(k) == {Op("save", k, 0, "none", "proposed", b) : b \in BOOLEAN}
Transitions(k) ==
    {Op("transition", k, 0, t[1], t[2], b) : t \in PauseTransitions, b \in BOOLEAN}

Operations(k) ==
    Plain(k) \union Marks(k) \union Finalizes(k) \union Saves(k) \union Transitions(k)

Env(table, k, what) == [table |-> table, key |-> k, what |-> what]

\* The audit events there are of an operation.
EventsOf(o) ==
    CASE o.name = "finalize" -> <<Env("row", o.key, o.to)>>
      [] o.name = "save" -> <<Env("run", o.key, o.to)>>
      [] o.name = "transition" /\ o.from = "rejected" ->
            <<Env("run", o.key, o.to), Env("rejection", o.key, o.to)>>
      [] o.name = "transition" /\ o.from # "rejected" -> <<Env("run", o.key, o.to)>>
      [] o.name = "append" -> <<Env("mirror", o.key, "none")>>
      [] OTHER -> <<>>

\* Those it appends once its statement has matched, and those it does not.
AuditOf(o) == IF o.audited THEN EventsOf(o) ELSE <<>>
Unsaid(o) == IF o.audited THEN {} ELSE {EventsOf(o)[i] : i \in DOMAIN EventsOf(o)}

Lock(o) == IF o.name \in {"save", "transition"} THEN RunLock(o.key) ELSE RowLock(o.key)

\* A faulty variant: finalize is not fenced by the state it started from.
MatchesLoose(o) ==
    CASE o.name = "claim" -> Ledger!Unclaimed(o.key)
      [] o.name = "mark" -> Ledger!MarkMatches(o.key, o.epoch)
      [] o.name = "finalize" -> row[o.key].attempts = o.epoch
      [] o.name = "bump" -> Ledger!BumpMatches(o.key)
      [] o.name = "save" -> run[o.key] = "none"
      [] o.name = "transition" -> run[o.key] = o.from
      [] o.name = "append" -> TRUE

\* The WHERE clause, or the absence of a conflicting row, in committed data.
Matches(o) ==
    CASE o.name = "claim" -> Ledger!Unclaimed(o.key)
      [] o.name = "mark" -> Ledger!MarkMatches(o.key, o.epoch)
      [] o.name = "finalize" -> Ledger!FinalizeMatches(o.key, o.epoch, o.to)
      [] o.name = "bump" -> Ledger!BumpMatches(o.key)
      [] o.name = "save" -> run[o.key] = "none"
      [] o.name = "transition" -> run[o.key] = o.from
      [] o.name = "append" -> TRUE

\* The row the statement leaves, given the row it found.
Written(o, r) ==
    CASE o.name = "claim" -> [state |-> "pending", attempts |-> 1, stale |-> FALSE]
      [] o.name = "mark" -> [r EXCEPT !.state = "executing", !.stale = FALSE]
      [] o.name = "finalize" -> [r EXCEPT !.state = o.to]
      [] o.name = "bump" -> [r EXCEPT !.attempts = @ + 1, !.stale = FALSE]
      [] OTHER -> r

Idle == [step |-> "idle", op |-> NoOp, hit |-> FALSE, put |-> Ledger!NoRow, new |-> <<>>]

In(w, step) == tx[w].step = step
GoOn(w, step) == tx' = [tx EXCEPT ![w].step = step]

\* The transaction is over: its locks go, and what it did not commit.
End(w) == tx' = [tx EXCEPT ![w] = Idle] /\ Release(w)

StoreInit ==
    /\ dialect \in Dialects /\ workload \in Workloads
    /\ row = [k \in Keys |-> Ledger!NoRow]
    /\ run = [k \in Keys |-> "none"]
    /\ events = <<Genesis>>
    /\ head = HeadOf(Genesis)
    /\ owner = [l \in Locks |-> Nobody]
    /\ tx = [w \in Writers |-> Idle]
    /\ log = <<>> /\ silent = {}

-----------------------------------------------------------------------------
(* One transaction.                                                        *)

\* A faulty variant: the head is read without FOR UPDATE.
MayTakeUnlocked(w, l) == l = HeadLock \/ dialect = "sqlite" \/ owner[l] \in {w, Nobody}

\* A faulty variant: a row under someone else's transaction is not waited for.
MayTakeAnyway(w, l) == TRUE

\* A faulty variant: each audit event is appended in a transaction of its own.
MayTakeAnew(w, l) == dialect = "sqlite" \/ owner[l] = Nobody

\* Whether w would have to wait for lock l: in SQLite only BEGIN waits.
MayTake(w, l) == dialect = "sqlite" \/ owner[l] \in {w, Nobody}
Taking(l) == IF dialect = "sqlite" THEN {} ELSE {l}

\* Room on the chain for what every transaction may still append.
FitsBound(o) ==
    LET pending(w) == IF In(w, "commit") THEN Len(tx[w].new) ELSE Len(AuditOf(tx[w].op))
    IN Len(log) + Len(AuditOf(o)) + FoldFunction(+, 0, [w \in Writers |-> pending(w)]) <= MaxEvents

FirstStep(o) == IF o.name = "append" THEN "audit" ELSE "statement"

Begin(w, o) ==
    /\ In(w, "idle")
    /\ o.name \in workload
    /\ o.name = "bump" => row[o.key].attempts < MaxEpoch
    /\ FitsBound(o)
    /\ dialect = "sqlite" => Free(FileLock)
    /\ Take(w, IF dialect = "sqlite" THEN {FileLock} ELSE {})
    /\ tx' = [tx EXCEPT ![w] = [Idle EXCEPT !.step = FirstStep(o), !.op = o]]
    /\ UNCHANGED <<deployment, data>>

\* The statement finds its row as the guard wants it, no one else writing it.
StatementHits(w) ==
    LET o == tx[w].op
    IN /\ In(w, "statement")
       /\ Matches(o)
       /\ MayTake(w, Lock(o))
       /\ Take(w, Taking(Lock(o)))
       /\ tx' = [tx EXCEPT ![w] = [@ EXCEPT
              !.hit = TRUE, !.put = Written(o, row[o.key]),
              !.step = IF AuditOf(o) = <<>> THEN "commit" ELSE "audit"]]
       /\ UNCHANGED <<deployment, data>>

\* rowcount 0, or an insert in conflict with a committed row.
StatementMisses(w) ==
    /\ In(w, "statement")
    /\ ~Matches(tx[w].op)
    /\ GoOn(w, IF tx[w].op.name \in {"claim", "save"} THEN "readback" ELSE "commit")
    /\ UNCHANGED <<deployment, data, owner>>

\* A faulty variant: the isolation level is inherited, and the read-back may
\* still see the table as it was before the competing insert committed.
ReadBackOldSnapshot(w) ==
    /\ In(w, "readback")
    /\ \E step \in {"commit", "gone"} : GoOn(w, step)
    /\ UNCHANGED owner
    /\ UNCHANGED <<deployment, data>>

\* The loser reads the winner's row, or raises because there is none.
ReadBack(w) ==
    LET o == tx[w].op
        found == IF o.name = "claim" THEN row[o.key].state # "none" ELSE run[o.key] # "none"
    IN /\ In(w, "readback")
       /\ GoOn(w, IF found THEN "commit" ELSE "gone")
       /\ UNCHANGED <<deployment, data, owner>>

\* _append_audit_on: lock the head, hash, insert, move the head.
HeadSeen(w) == IF tx[w].new = <<>> THEN head ELSE HeadOf(tx[w].new[Len(tx[w].new)])

AppendAudit(w) ==
    LET todo == AuditOf(tx[w].op)
        n == Len(tx[w].new)
    IN /\ In(w, "audit")
       /\ MayTake(w, HeadLock)
       /\ head # Nothing
       /\ \A i \in DOMAIN events : events[i].seq # HeadSeen(w).seq + 1
       /\ Take(w, Taking(HeadLock))
       /\ tx' = [tx EXCEPT ![w] = [@ EXCEPT
              !.new = Append(tx[w].new, NextRow(HeadSeen(w), todo[n + 1])),
              !.step = IF n + 1 = Len(todo) THEN "commit" ELSE "audit"]]
       /\ UNCHANGED <<deployment, data>>

\* All at once: the row, its audit events, and the head that covers them.
Commit(w) ==
    LET t == tx[w]
        k == t.op.key
    IN /\ In(w, "commit")
       /\ IF t.hit /\ Lock(t.op) = RowLock(k)
          THEN row' = [row EXCEPT ![k] = t.put] ELSE UNCHANGED row
       /\ IF t.hit /\ Lock(t.op) = RunLock(k)
          THEN run' = [run EXCEPT ![k] = t.op.to] ELSE UNCHANGED run
       /\ events' = events \o t.new
       /\ head' = HeadSeen(w)
       /\ log' = log \o [i \in DOMAIN t.new |-> t.new[i].env]
       /\ silent' = IF t.hit THEN silent \union Unsaid(t.op) ELSE silent
       /\ End(w)
       /\ UNCHANGED deployment

\* An exception anywhere in the block (a payload that cannot be hashed, a
\* missing head, a seq that is taken), a lost connection, a killed process:
\* nothing was done.
Rollback(w) ==
    /\ ~In(w, "idle")
    /\ End(w)
    /\ UNCHANGED <<deployment, data>>

\* stale_inflight and the two paused scans on Postgres: SELECT ... FOR UPDATE
\* SKIP LOCKED keeps the rows for one short transaction and waits for none.
Scan(w, locks) ==
    /\ In(w, "idle") /\ dialect = "postgres" /\ "scan" \in workload
    /\ Take(w, {l \in locks : Free(l)})
    /\ GoOn(w, "commit")
    /\ UNCHANGED <<deployment, data>>

StaleRows == {RowLock(k) : k \in Ledger!StaleInflight}
SweptRuns == {RunLock(k) : k \in {j \in Keys : run[j] \in {"proposed", "approved"}}}

\* ensure_schema on a schema that is there: genesis and head if missing.
SeedGenesis ==
    /\ \/ head = Nothing
       \/ \A i \in DOMAIN events : events[i].seq # 0
    /\ Free(HeadLock) /\ Free(FileLock)
    /\ events' = IF \A i \in DOMAIN events : events[i].seq # 0
                 THEN <<Genesis>> \o events ELSE events
    /\ head' = IF head = Nothing THEN HeadOf(Genesis) ELSE head
    /\ UNCHANGED <<deployment, row, run, log, silent, owner, tx>>

\* Time passes between two transactions on a row, or before a waiting one.
GrowStale(k) ==
    /\ \A w \in Writers : ~(tx[w].hit /\ tx[w].op.key = k)
    /\ Ledger!IsInFlight(k) /\ ~row[k].stale
    /\ row' = [row EXCEPT ![k].stale = TRUE]
    /\ UNCHANGED <<deployment, run, events, head, log, silent, owner, tx>>

StoreStep(w) ==
    \/ StatementHits(w) \/ StatementMisses(w) \/ ReadBack(w)
    \/ AppendAudit(w) \/ Commit(w)

StoreNext ==
    \/ \E w \in Writers :
         \/ \E k \in Keys : \E o \in Operations(k) : Begin(w, o)
         \/ StoreStep(w) \/ Rollback(w)
         \/ Scan(w, StaleRows) \/ Scan(w, SweptRuns)
    \/ \E k \in Keys : GrowStale(k)
    \/ SeedGenesis

StoreSpec == StoreInit /\ [][StoreNext]_storeVars

-----------------------------------------------------------------------------
(* What the callers build on.                                              *)

Trail(k) == Said(log, "run", k)
Rejections(k) == Said(log, "rejection", k)

\* What a change of a row or run left in the trail: its event, or nothing if
\* the caller passed none.
Heard(table, k, what) == IF Env(table, k, what) \in silent THEN <<>> ELSE <<what>>

RowStory(k) ==
    Said(log, "row", k) =
        IF Ledger!IsTerminal(k) THEN Heard("row", k, row[k].state) ELSE <<>>

RunStory(k) ==
    LET heard(what) == Heard("run", k, what)
    IN \/ run[k] = "none" /\ Trail(k) = <<>> /\ Rejections(k) = <<>>
       \/ run[k] = "proposed" /\ Trail(k) = heard("proposed") /\ Rejections(k) = <<>>
       \/ /\ run[k] \in {"approved", "rejected"}
          /\ Trail(k) = heard("proposed") \o heard(run[k])
          /\ Rejections(k) = <<>>
       \/ /\ run[k] \in {"committed", "aborted"}
          /\ Trail(k) = heard("proposed") \o heard("approved") \o heard(run[k])
          /\ Rejections(k) = <<>>
       \/ /\ run[k] = "aborted"
          /\ Trail(k) = heard("proposed") \o heard("rejected") \o heard("aborted")
          /\ Rejections(k) = Heard("rejection", k, "aborted")

\* The audit trail and the tables never disagree, whatever rolled back: an
\* event that was passed is there iff what it tells of was done.  A row is
\* terminal with its one event, a run's events are the path it took, and a
\* rejection's own event comes with its closing.
TrailMatchesTables == \A k \in Keys : RowStory(k) /\ RunStory(k)

\* The ledger part of the stores against the steps CommitProtocol takes: to
\* everybody else an operation is one indivisible step.
Service == INSTANCE LedgerService WITH audit <- TerminalEvents

ImplementsLedgerService == Service!Spec

\* A loser of the claim (or of save_paused) always finds the row it lost to.
LoserFindsRow == \A w \in Writers : ~In(w, "gone")

\* Waits are never circular: whenever transactions are under way, one of them
\* can take its next step without anybody giving up.
CanStep(w) ==
    /\ ~In(w, "idle")
    /\ In(w, "statement") /\ Matches(tx[w].op) => MayTake(w, Lock(tx[w].op))
    /\ In(w, "audit") => MayTake(w, HeadLock)

NoStandoff == (\E w \in Writers : ~In(w, "idle")) => \E w \in Writers : CanStep(w)
=============================================================================

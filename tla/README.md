# A TLA+ development of Airlock

Airlock wraps the side-effecting tools of an agent: every guarded call goes
through a policy, possibly through a human, and then through a ledger that is
to make the effect happen *exactly once*, whatever crashes, times out or is
delivered twice on the way. This directory holds TLA+ models of that machinery,
TLC runs over small instances, and TLAPS proofs for all instances.

## The system

| Component (`src/src/airlock/`) | State | Operations |
|---|---|---|
| Commit ledger: `store/sqlite.py`, `store/postgres.py`, `store/_schema.py` | `commit_records`: one row per idempotency key with state, epoch (`attempts`) and age; the chained `audit_events` | `claim`, `mark_executing`, `record_error`, `finalize`, `load`, `stale_inflight`, `bump_epoch`; each one transaction, `finalize` together with its audit events |
| `commit_once`: `commit.py` | a thread's place in the protocol, its epoch, calls abandoned at `execute_timeout` | claim, preconditions, mark, execute, post-verify, finalize; a loser waits, reads, or reconciles inline |
| Reconciler: `reconcile.py`, `effects.py` | a snapshot of stale rows, the epoch of the row in hand | `reconcile`, `reconcile_key`: fence, then probe, re-execute, abort or escalate |
| Durable pause: `pause.py` | `paused_runs`: status, `approval_id`, the decision; `pause_transition` events | `apply_decision`, with its drives for rejected and approved runs |
| Gate path: `_guard.py` | a thread's place | persist, send, record `approval_id`, wait, apply, surface; `Airlock.resume` |
| Paused sweeps: `reconcile.py` | none of their own | `reconcile_paused` (approved and stale), `backstop_poll_paused` (proposed, recorded, stale) |
| Transports: `transport/console.py`, `transport/http.py` | a file; a control plane and its webhooks | `send`, `wait`, `fetch_decision`, webhook delivery |
| Async bridge: `_async.py`, `_guard.py` | worker pool, in-flight count, the bridged loop | run the synchronous core on a worker, the coroutine on the caller's loop |
| Audit chain: `audit.py` | hash-linked rows and a head | append under the head, `verify_chain` on a live chain |
| Store transactions: `store/postgres.py`, `store/sqlite.py` | locks of the database, the transaction of each thread | begin, guarded statement, read-back, audit appends, commit or rollback |
| SQLite gate: `store/sqlite.py` | open operations, closing flag, connections | `_use`, `_conn`, `close` with a bounded drain |
| Policy: `policy.py` | none | `Rule.matches`, `Policy.evaluate` |
| Argument maps: `idempotency.py`, `_guard.py` | none | `build_arg_map`, `derive_key`, the live call and the call rebuilt by `_bind_from_map` |
| Webhook receiver and signing: `transport/http.py`, `_signing.py` | none of its own | verify the timestamp and signature, `apply_decision`, the answer |
| Registry, canonical JSON, events, CLI, errors, contracts | none or constant | wiring, encodings, declarations |

How they interact: a `@guard` call asks the policy. *Auto* runs `commit_once`
with the call's key. *Gate* writes a `paused_runs` row, asks the human side and
then, like webhooks, `resume` and both paused sweeps, calls `apply_decision`,
which for an approved run calls `commit_once` with the same key. Whoever loses
a claim and finds the row stale runs the reconciler inline; a cron runs it over
all stale rows. The only shared state is the database; the only atomic unit is
a transaction. Everything between two transactions can be overtaken, crash,
or be repeated by someone else, and that is where the hard behaviour is:

* a *fence* (the epoch) protects ledger writes but not the effect itself;
* staleness is a clock, so a slow process and a dead one look the same;
* snapshots are acted on later, against a row that has moved;
* a decision arrives zero, one or several times, over several paths, and
  conflicting ones may race;
* a run and its ledger row are updated in separate transactions.

What makes each part correct. *Ledger*: terminal rows are frozen, epochs unique
and growing, the right event for each resolved row. *Protocol*: the effect lands
at most once, "committed" means it did, "aborted" and "failed" mean it did not,
every caller is told the ledger's outcome, every claimed row is resolved in the
end. *Pause*: nothing is claimed before an approval is durable, one decision
wins for good, the run agrees with the ledger, one event closes an action, no
approved run is stranded. *Transactions*: an operation is one step to everybody
else, the audit trail holds the events passed for what was done, waits for locks
never form a circle. *Chain*: a healthy live chain verifies and one with
anything missing does not. *Pool*: effects are marked before they start, and no
thread is held for good. *Gate of the store*: `close` cuts no operation it did
not warn about. *Calls*: the key is the call, a recovered call is the original
one, nothing that policy or a human stopped runs, an acknowledged decision is
applied.

## The modules

| Module | What it models |
|---|---|
| `CommitLedger` | the ledger table and its statements, guards as in the `WHERE` clauses |
| `LedgerService` | the ledger alone, each operation one indivisible step: what the store promises |
| `CommitProtocol` | `commit_once` and the reconciler over `CommitLedger`, the outside effect, crashes, the clock; the safety properties |
| `ExactlyOnce` | the abstract promise: opened once, may take effect once, resolved once and truthfully, reported as resolved; and what is left of it for a key whose timing slipped |
| `CommitInvariants` | the inductive invariants behind the properties |
| `CommitProtocolMC`, `CommitLivenessMC` | instances, views, fairness |
| `CommitSafetyProofs`, `CommitPromiseProofs` | the proofs: types and what no timing can cost; what a slip can cost, and the refinement |
| `DurablePause` | the pause, the gate path and all callers of `apply_decision`, over `ExactlyOnce` in place of the ledger |
| `DurablePauseMC` | instances, fairness, liveness properties |
| `DurablePauseProofs` | type correctness and the safety invariants of the pause |
| `AuditChain` | hashing and linking of audit rows, what `verify_chain` demands of a span |
| `StoreTransactions` | every writing store operation as a transaction of either database, statement by statement; the stores against `LedgerService` |
| `VerifyChain` | a verification pass beside those writers, and damage to the tables |
| `StoreMC` | the instance |
| `StoreProofs` | locks never circular, losers find their row, trail and tables agree, the refinement of `LedgerService` |
| `ChainProofs` | the chain intact, whoever appends; what a verification pass accepts and refuses |
| `ConnectionGate` | `_use`, `close` and `iter_audit` of the SQLite store |
| `AsyncPool` | guarded async calls: pool, event loop, bridge, cancellation, timeout, over `ConnectionGate` |
| `RuntimeMC` | the instance |
| `RuntimeProofs` | the gate's promise, alone and under the pool; effects on the ledger, a full pool announced |
| `PolicyRules` | rule match and first-match evaluation |
| `ArgumentMap` | Python's binding of a call, `build_arg_map`, the call rebuilt from a map |
| `GuardedCall` | what `@guard` does with a call: deny, gate, auto, recovery from the map |
| `Transports` | webhooks, polling and the approvals file carrying decisions to `GuardedCall` |
| `EdgeMC` | four tools, every way to call them, a policy |
| `EdgeProofs` | the key is the call, recovery is faithful, nothing blocked runs, verdicts stand and are applied |
| `DataLemmas` | induction and sequences, for the proofs above |

They form four stacks, joined by two refinements:

* `VerifyChain` over `StoreTransactions` over `AuditChain` and `CommitLedger`.
  On either database the transactions implement `LedgerService`: to everybody
  else an operation is one step. `StoreAudit` checks that and `StoreProofs`
  proves it.
* `CommitProtocol` over the very steps of `LedgerService`. It implements
  `ExactlyOnce`: `CommitPromise` checks that and `CommitPromiseProofs` proves it.
* `DurablePause` over `ExactlyOnce`, slips included; it relies on nothing else of
  `commit_once`.
* `AsyncPool` over `ConnectionGate`, and `Transports` over `GuardedCall` over
  `ArgumentMap` and `PolicyRules`. These two ask what is done for one call, by
  which thread and with which arguments; the races for one row are the subject
  of the other stacks, and appear here as a row driven by one process at a time.

### CommitLedger and CommitProtocol

`row[k]` is the row of key `k` (`state`, `attempts`, `stale`), `audit[k]` the
events chained with its resolution, in order. Age is one bit: `GrowStale` may set
it on an in-flight row at any time, and every write that refreshes
`last_attempt_at` clears it. A process is a record `proc[p]`: where it is, as what
(`owner` in `commit_once`, `inline` or `sweep` in the reconciler), on which key,
under which epoch, and the state it read (`from`). `todo[p]` is the snapshot a
sweep still has to work off.

`finalize` appends what its caller passes, and only if it matched. An owner passes
its call's `action_event`, or nothing if the call came without an `event_context`
(the bare primitive; `Bare` lists such calls, `OwnersEvents`). A takeover passes a
`reconcile` event (`RecoverersEvents`). So a row that the reconciler resolved has
*no* `action_event`: see below.

Each action is the code between two points where another process can intervene:
one store transaction, the start of the effect, its return, or one probe. The
effect lands in a step of its own (`EffectLands`), between the call and its
return. `OwnerExecuteFails` and `RecoveryExecuteFails` stand for a raise and for
an overrun of `execute_timeout`, before or after the effect landed; a call let
go of moves to `abandoned[k]` and may land at any later time. `Crash` forgets
everything a process remembered. A lost `finalize` sends an owner to
`_await_terminal` and a sweep to its next row, as in the code. `RecoveryTable`
is the reconciler's table, entered with `from`, the state that was *read*.

Nothing is assumed about time: any process may pause anywhere for as long as it
likes, snapshots may be of any age, and abandoned calls may land whenever they
do. What the documentation asks of a deployment (`execute_timeout` below
`reconcile_after`, `reconcile.py:228-255`) cannot rule that out, since it bounds
owners only. Instead a history variable, `slips[k]`, records what the timing of a
key *let* happen; no guard reads it.

* `overrun`: the row went stale while its holder was inside the call into the
  tool, or inside a recovery, so that anyone could take it over (`Expire`).
* `outdated`: it was recovered from a state it was no longer in (`Bump`).
* `late`: a call nobody waits for any more landed although the row had been taken
  over, resolved or executed anew (`AbandonedLands`, `InTime`).

The properties say what a key is promised until one of the three has happened to
*it*, and what it is promised still after that: the effect of a probed key lands
at most once, respectively at most once per epoch; an aborted or failed row is
effect-free, respectively is at least final, reported as it stands, and fenced.
The other properties (the marker before the effect, epochs, callers, events, a
vouched-for commit, at most one effect for keys that recovery never re-executes)
know no exception.

### DurablePause

`status[k]`, `polled[k]` and `trail[k]` are the `paused_runs` row of key `k`:
its status, whether its `approval_id` is on record, and its `pause_transition`
events; `events[k]` holds the events that closed the action, whoever wrote them.
`LedgerResolves` appends the `action_event` of the call that resolved the row,
or the `reconcile` event of the takeover that did; `DriveRejected` appends the
`action_event` of a rejection. `asked` and `verdicts` are the human side, where
reviewers may disagree. `outcome`, `effects`, `told` and `slipped` are those of
`ExactlyOnce`: `apply_decision` relies on nothing else of `commit_once`, and
gets no better timing than it does (`LedgerSlips`). Gates, receivers (webhooks,
`resume`) and sweepers run the same `apply_decision`: the decision CAS (`cas`),
the read of whatever is recorded (`read`), and the drive it calls for (`reject`,
or `commit`, `ledger`, `close`), each transaction a step. Delivery is reading a
member of `verdicts[k]`, so decisions can be lost, repeated, delayed and
reordered. `Wired` names the processes that registered the action; others refuse
to drive an approved run. `said[k]` is how calls were answered, with a
`DecisionOutcome` counted as the exception or result `_surface_outcome` makes of
it. Age thresholds are nondeterminism: any approved run may be stale. `drives`
counts a call's turns of the re-read loop.

Left out of it: the refusals that change no state (`edited_args`, an unknown
`approval_ref`, an old `serialized_state` version), latency and evidence fields.

### StoreTransactions and VerifyChain

`row`, `run`, `events` and `head` are committed data. `log` and `silent` are
history: the envelopes ever committed, in order, and the changes that were
committed without one, because the caller passed `audit=None` to `finalize`,
`save_paused` or `transition_paused` (`AuditOf`, `Unsaid`). `tx[w]` is the
transaction of thread `w`, which goes `statement`, `audit` (once per event it
appends) and `commit`; the loser of an insert goes to `readback` instead, and to
`gone` if the row it lost to is not there. What a transaction has written and
not committed (`put`, `new`) nobody else sees. `owner` holds the locks. On
Postgres under READ COMMITTED a guarded statement waits for the row that another
transaction has written and looks at it again, an append waits for the head row
(`FOR UPDATE`), and the sweeps' scans take what rows they can get (`SKIP
LOCKED`) and wait for none. On SQLite only `BEGIN IMMEDIATE` waits, for the one
lock of the file. `Rollback` is anything that ends a transaction early, at any
point: an event that cannot be hashed, a lost connection, a kill. `SeedGenesis`
is `ensure_schema` run again by another process.

`ver` is one pass of `verify_chain`, from genesis or from a pair noted earlier
(`Genuine(n)`: the pair as it was when the row was written): stream a span out
of one snapshot, read the head, catch up while the head has moved and the last
span brought something. `Damage` strikes once: a row lost, altered, replaced by
one that hashes correctly, the head lost, or rows and head rewritten together.

Two things the model made plain. After a lost head, `ensure_schema` seeds the
head at row 0 of a chain that is longer, and every later append fails on
`UNIQUE(seq)`: loud, and until someone repairs it, final. And the catch-up loop
of `verify_chain` ends only if appends pause long enough for a pass to find
the head where it left it; nothing else bounds it.

### ConnectionGate and AsyncPool

`op[t]` is where thread `t`'s store operation is: `registered` (counted in
`active`, no connection yet), `using` one, or `cut`, its connection closed
underneath. `closer[c]` is one call of `close()`: it turns `closing` on, waits,
and tears down when `active` is 0 or its patience is over (`CloseAnyway`, which
warns: `missed`). `Fail` is an operation that raised or found no connection to
open. `streams` are the connections of `iter_audit`, which opens one of its own
outside `_use`, so that it works before, during and after `close()`: "Every read
and write goes through here" (`sqlite.py:508`) is not true of it. `GateHolds`
says what remains: after a `close()` that drained, no operation is running and the
only connections open are those audit readers opened, and will close, themselves.

`call[c]` is a call as its caller sees it, `at[t]` and `step[t]` the core a
thread is running and how far it is, `row[c]` its ledger row, `coro[c]` its
coroutine. The wrapper counts and queues (`Submit`), a worker takes up, and each
ledger write is an operation of the gate. `Place` is `run_coro_blocking`:
bridged to the caller's loop, on a loop of its own (a cron thread, or the fresh
thread of `execute_timeout`), refused (a thread whose own loop is running, or a
closed loop, and no `execute_timeout`), or dropped (a loop that accepts the
coroutine while ending and never runs it). `Cancel` is a task cancelled in the
wrapper: the count goes down, the worker stays busy. `Drive` is `apply_decision`
called by the ASGI receiver on the loop's thread or by a thread without a loop.
With an `execute_timeout` the loop's thread is not refused: the effect gets a
fresh thread with a loop of its own, and the receiver's loop stands still until
the effect has run or is abandoned (`commit.py:552-583`). Recovery has no
timeout and is driven by threads off the loop (`redo`).

The core is `commit_once` without competition. Three things shown here by name:

* a loop that ends between cancelling its tasks and closing drops a bridged
  coroutine, and its worker is held for good (`coro = "dropped"`);
* a pool whose workers all run calls that await queued calls is wedged for good
  (`Wedged`; with one worker, one nested call suffices), although the warning
  at `_guard.py:186-189` says that the calls "will still complete". That holds
  while fewer outer calls than workers are under way;
* `docs/api.md:138-140` and `_async.py:97-99` say a coroutine is cancelled at
  its timeout. `run_coro_blocking` is never given one, and under
  `execute_timeout` the effect runs on a fresh thread, so the coroutine runs on
  (`Abandon`), like an abandoned synchronous call in `CommitProtocol`.

### ArgumentMap, PolicyRules, GuardedCall and Transports

A tool is its signature (a sequence of parameters of Python's five kinds), the
names its key ignores and the parameter that receives the key. `Bind` and
`TypeError` are Python's binding; `BuildArgMap` the persisted map; `Positional`
and `Keyword` the call that `_bind_from_map` makes of it. `derive_key` is the map
itself, since SHA-256 over canonical JSON is taken to be free of collisions. A
policy rule holds its conditions as sets that are empty where a condition is not
set; a cost or blast radius that is unknown is empty, too. `key_ignore` may name
the `**kwargs` parameter itself, and then none of its entries is in the map
(`Extras`). `Rebuildable` is the shape a signature needs for its calls to be
rebuilt: no parameter that is passed by position stands behind an ignored one,
and the key is passed by name. `EdgeMC` assumes it of the four tools of `Edge`
and its negation of the one of `ArgShift`.

A program makes two calls of one tool. `Deny`, `Gate` and `CommitAuto` are the three
paths of `_invoke`; `RunLive` calls the tool with the caller's own arguments,
`RunFromMap` (recovery, an approved gate) with those of the map. `ran` records
which arguments the tool received for which row. A claim can end in any way the
code has: an auto call is aborted by its preconditions (`AbortLive`); `Recover`
re-issues a crashed row's call, finds its effect by the probe, or resolves the
row aborted, failed or unknown; a second call of the key joins whatever the row
says, returning or refusing (`Join`). `DriveApproved` closes the approved run as
the row ended: committed, or aborted because preconditions failed or the row was
aborted, failed or unknown (`pause.py:498-526`); `DriveRaises` leaves it approved.
`approved` is history: the runs whose approval became durable.

`cloud[i]` is the control plane's record (external), `pushes` its signed
requests under way, each with its timestamp, and `acked` what it saw answered
200. A request can be damaged, late, repeated, or lose its answer; the drive
behind it may raise, before or after the decision is durable. The approvals file
is `lines`; a writer can die within a line or just before its newline
(`RecordTorn`). In the second case the verdict is readable, and may be acted on,
until the next line is appended to the same one, which makes both unreadable
(`Written`): a verdict on a line without its newline can be lost. `VerdictStands`
says that it cannot be turned over by that append, that one on a finished line
cannot even be lost, and that whatever was decided by then stands.

## The runs

| Run | Instance | Checks |
|---|---|---|
| `CommitAsync` | 1 caller, 1 sweeper, an effect with probe and key beside one with neither that its process never registered and that is called without an `event_context` | type; a pending row never started; at most one effect when recovery never re-executes; unique epochs; committed took effect; callers agree; the audit chain holds the owner's or the takeover's event; row lifecycle; the fence; `AsyncInv` |
| `CommitPromise` | 2 callers, 2 sweepers, a verify-only effect | at most once under `on_absent=retry` until the timing slips, once per epoch after; aborted and failed are effect-free until it slips; `PunctualInv`; the protocol implements `ExactlyOnce` |
| `CommitLiveness` | 2 callers, 1 sweeper, two faults | every claimed row is resolved |
| `PauseSafety` | a gate, two deliveries (one in an unregistered process), a sweeper | approval before claim; run matches ledger; one event closes the action; one path; one drive per call; answers are true |
| `PauseLiveness` | a gate and a sweeper, three faults, no webhook, a key that is auto-committed too | an approved run is driven home; a recorded decision is fetched |
| `StoreAudit` | 3 writers, 1 key, either store, three workloads, a verification pass, five kinds of damage | the trail holds what was passed for what was done; losers find their row; no standoff; the chain intact; no false alarm, no false comfort; the stores implement `LedgerService` |
| `Runtime` | 2 workers, a loop, a cron, one `close()`, one audit reader; nested calls, a timed beside a plain one, an approved one with and without a timeout | the gate's promise; effects are on the ledger; a stall is announced; nothing hangs |
| `Edge` | four tools, seven ways to call, four risks, both transports | the key is the call; recovery is faithful; nothing blocked runs; an acknowledged decision is applied as its row ended; a verdict on a finished line stands |
| `StaleSnapshot` | `CommitProtocol`, one caller, two sweepers, the default `on_absent` | violation of `RefusedUnlessLate`, see below |
| `UnknownRun`, `RejectedStranded` | `DurablePause` | violations, see below |
| `ArgShift` | `Edge` with a tool whose ignored parameter comes first | violation, see below |

The passing runs have between 133,141 (`Runtime`) and 778,851 (`CommitAsync`)
distinct states.

Bounds. *Processes*: two per role where roles race themselves: a third owner or
recoverer of a key can only repeat what the second does, because each sees
nothing of the others but the row. In `CommitAsync`, with two keys, one caller
and one sweeper already include two drivers of a row and their predecessors,
since either may crash and start anew while calls it abandoned still land.
`StoreAudit` has three writers: one holding the row, one waiting for it, one
holding the head. *Epochs*: `MaxEpoch` stops a row from growing stale after that
many takeovers; 3 lets a takeover be taken over itself, with a fenced owner
still at work, which is where the counterexample below lies. `CommitLiveness`
needs 7 because a row is resolved only after the faults are used up, and every
fault can cost an epoch or two; the bound does not hide a stuck row, since one
that had used its epochs up in flight would violate the property. *Slips*:
`MaxEffects` 2 is one effect too many, which is all that `PauseSafety` can tell
from more. *Faults*: `MaxFaults` bounds crashes, raises and unknown probes in
fair runs: without a bound nothing need ever finish. *Chain*: `MaxEvents` 4 is a
run saved, rejected and closed (two events at once), or appends enough for a
pass to catch up twice. *Pool*: sizes 1 and 2 with two calls: a pool that one
nested call wedges and one that it does not; the audit reader takes part in
three of the four programs (`Audited`), all but the timed call beside a plain
one, which is the largest. *Edge*: `Window` 1 and `MaxClock` 2 make a request
that is still fresh, one on the edge and one too late; two requests in flight,
two lines.

Deadlock is checked in the commit and pause runs, where a process can always
start something. `StoreAudit`, `Runtime`, `Edge` and `ArgShift` switch the check
off: clients may stop asking and programs end. Transactions that wait for each
other are the invariant `NoStandoff`, threads held for good `NothingHangs`.

Symmetry is used in two safety runs only, over callers and over sweepers in
`CommitPromise` and over writers in `StoreAudit`, where no definition tells them
apart. Three runs have a `VIEW`, each with the reason at its definition:
`WithoutSlips` (`CommitAsync`) leaves out `slips`, which no guard and none of
that run's properties reads; `WhatMatters` (`PauseSafety`) leaves out `told`,
the decision in hand of a process past its compare-and-set, and, of a resolved
run, which can only be reported any more, which decisions may still be
delivered; `WhatIsLeft` (`StoreAudit`) leaves out what a transaction that has
nothing to do but end was about.

Fairness. *Commit*: weak fairness of `Progress(p)` (a thread that can run, runs),
of `Scan` and of `LiveExpire`: the cron starts the sweep again, and time passes. A row
grows stale there only while its holder is not inside a call or a recovery
(`Unhurried`): otherwise takeovers could follow one another for ever, each
overrun by the next.
*Pause*: weak fairness of progress, strong fairness of taking a given run in a
sweep or poll: passes are started again and again and each takes *every* listed
run, so a run that is listed again and again is taken. The CLI runs only
`reconcile` and `reconcile_paused`; the poll has to be scheduled by the
deployment (`__main__.py:278`), and `DecisionIsFetched` assumes that it is.
`LedgerResolves` is fair because `CommitLiveness` shows it. *Runtime*: weak
fairness of each thread's `CoreStep`, of each call's `LoopStep` and of `TakeUp`:
threads are scheduled, user coroutines end once what they await has. Nobody has
to cancel, abandon, close, end the loop or deliver a decision.

## What the runs found

* **`StaleSnapshot`** (`reconcile.py:640`). `bump_epoch` re-checks that a row is
  in flight and stale, not that it is still in the state that was read. A row
  read as pending, then marked, executed, left behind, and stale once more is
  recovered as "provably effect-free": it is aborted although its effect landed,
without any call having overrun its window or landed late.
* **`UnknownRun`** (`_guard.py:1006`). A run whose ledger row is `unknown` is
  closed as aborted, and its caller is told that no side effect ran.
* **`RejectedStranded`** (`pause.py:336`). A crash between the two transactions
  of a rejection leaves the run `rejected` and its terminal event unwritten; no
  sweep looks for such runs (a redelivered decision or a re-gate would heal it).
* **`ArgShift`** (`_guard.py:1257`). `_bind_from_map` passes parameters by
  position and skips one that the map lacks. A parameter named in `key_ignore`
  always is lacking: if it stands before a persisted one, recovery and approved
  gates hand every later argument to the parameter before it.

Two more boundaries are limits the documentation states rather than disagreements
with it; they are the slips `overrun` and `late`. `execute_timeout` must stay
below the staleness threshold (`commit.py:543`, `reconcile.py:232`), but it
bounds owners only: a reconciler's own re-execution (`reconcile.py:1004`) has no
timeout, can itself be taken over and probed absent while it runs, and the
effect then happens twice. And the fence stops an abandoned owner's ledger
writes, not the call it left behind (`commit.py:571`), which may land after a
recovery has probed absent and run the action again. That both stay confined to
the rows they happen to, and to one effect per epoch, is what
`AtMostOnceVerifiable`, `RefusedEffectFree` and `ImplementsExactlyOnce` say.

Four sentences of the repository are wider than the code, and the models follow
the code; no run is about them.

* `docs/event-schema.md:14-23`: "Exactly one terminal event per guarded call",
  written "as a hash-chained `audit_events` row (`event_type='action_event'`)". A
  call whose row the reconciler resolved gets a `reconcile` event instead and no
  `action_event` (`reconcile.py:1121-1155`). `AuditMatchesLedger` and
  `OneTerminalEvent` therefore speak of one event of either kind, and name which.
* `sqlite.py:508`: "Every read and write goes through here". `iter_audit` does not.
* `_guard.py:186-189`: queued calls "will still complete". Not those of a wedged
  pool.
* `docs/api.md:138-140`, `_async.py:97-99`: a coroutine is cancelled at its timeout.
  It runs on.

## The proofs

All are for arbitrary finite or infinite sets of processes and keys (threads and
calls are finite where they are counted) and arbitrary constants within the
`ASSUME`s of the modules; no theorem assumes anything about time.

`CommitSafetyProofs` proves `TypeCorrect`, `Spec => []TypeOK`, action by
action from lemmas on the few ways in which a process record can change. It goes
on to prove `AsyncInvariant`, `Spec => []AsyncInv`, and from it
the untimed properties of the runs. None of those is inductive by itself: that a
pending row is untouched, for instance, depends on where every process is and
on what it once read. `AsyncInv` is the conjunction of

* `MarkInv`: whoever is past the mark, or has read an executing row, works on a
  marked row, and an unmarked row has no effect and no call under way;
* `EpochInv`: epochs are unique among processes and not above the row's;
* `OnceInv`: for a key that is never re-executed, the executor, the call left
  behind and the landed effect exclude one another;
* `CommitInv`: who is about to commit knows that the effect landed.

`AsyncStep` proves that each step preserves it; the steps in which a process
merely lets go of a row, continues with it, or takes one up are treated once
each (`LettingGo`, `GoingOn`, `TakingUp`), `Marking` is the one step that starts
an effect. `RowSteps` lists what can change a row at all; `LedgerLifecycle`,
`FenceHolds`, `AuditMatchesLedger`, `CommittedTookEffect` and `CallersAgree`
follow from it and the invariant. `AuditIsExact` is about both kinds of event and
about calls that pass none.

`CommitPromiseProofs` proves `PunctualInvariant`, `Spec => []PunctualInv`, and from
it `VerifiableAtMostOnce`, `RefusedIsEffectFree` and `ProtocolImplementsPromise`:
that `commit_once` and the reconciler implement `ExactlyOnce`, which releases the
keys whose timing slipped and no others. What `PunctualInv` adds to `AsyncInv` is,
for keys that have not slipped,

* `DutyInv`: a recovery begins with the fence, and who holds a row has not
  resolved it;
* `SpanInv`: whoever is inside a call or a recovery holds a row that is not stale;
* `PendingInv`: a holder that found its row pending, and has not marked it, still
  finds it so;
* `EffectInv`: who is about to execute, to abort or to fail has an effect-free
  row;

and, for every key, `BudgetInv`: effects landed, calls under way unattended and
epochs whose holder has yet to execute are together no more than the epochs. It is
a fact about cardinalities: a takeover adds an epoch that is unspent (`RoomGrown`),
an execution spends one (`RoomSpent`), and nothing gives one back.

Until a slip, at most once rests on `EffectInv`, which rests on the three before it.
For the proof they are regrouped by process: `Fit(q)` is all they say of process `q`
if its key is punctual (`FitsPunctualInv`). A step then is one of few kinds: it
changes no data (`QuietStep`, `LeavingStep`, `GoingOnStep`), writes a row under its
own epoch (`HolderStep`), begins an epoch (`EpochStep`), lets time pass
(`ExpireStep`), or lands a call nobody waits for (`LandingStep`); in the last three
the key may slip, and then nothing is left to show (`SlipIfStays`).
`StepImplements` maps each step to one of `ExactlyOnce` or to a stutter.

`DurablePauseProofs` proves `PauseTypeCorrect` and `PauseInvariant`, `Spec =>
[]PauseInv`, and from it all safety properties of `PauseSafety`. `PauseInv`
joins them (they are inductive only together: that a rejection writes the one
event that closes its action needs that its key was never claimed, which needs
that a run is decided once) and adds

* `Knows`: a process that rejects, commits or closes a run finds that decision
  in the trail, one about to close has seen the ledger's outcome, and one that
  has driven a run already reads a resolved status;
* `LedgerInv`: what the pause relies on of `ExactlyOnce`.

`DecidedOnce` and `PathGrows` reduce the sequences of transition events to the
question what was decided; then a step moves one process (`ProcessMoves`), lets
a run take one edge of its state graph (`RunMoves`), or is the ledger's
(`LedgerMoves`). `NoSecondDrive` shows that the eight re-reads `apply_decision`
allows itself are never used up, for any number of racing appliers.

`StoreProofs` proves `StoreInvariant`, and from it `LosersFindTheirRow` and
`WaitsAreNeverCircular`, for any number of threads and keys on either store.
`StoreInv` says of each transaction what it is about and has written (`Shapes`,
`About`), that the row a loser lost to is there and stays (`LosersRow`), and that
nobody takes a lock into a step in which it may still wait for a row
(`HoldersAreLate`). From the last follows that locks are taken in one order, row
before head, and that whoever holds the head can go on.

It then proves `TrailsAgree`, that in the committed log each row and each run is
told exactly the story its table shows, but for the changes made with
`audit=None`, and `StoresImplementLedger`. `TrailInv`
adds to the first what makes it inductive: what a transaction has appended is the
beginning of what its operation appends, and all of it when it commits (`Writing`),
and what its statement found still holds, because it has the lock (`Guarding`). A
commit is then the whole operation at once (`CommitIsOneStep`), on tables that are
as its guard demands, and so a step of `LedgerService` (`PerformedIsService`); every
other step changes nothing that is committed.

`ChainProofs` builds on it and proves `ChainIsIntact`: no fork, no gap, nothing
committed missing from the chain, whatever rolls back. `ChainInv` adds two things
to the property, neither of which can be left out: what a transaction has
appended and not committed continues the chain as that transaction would leave
it (`Adding`), and who has appended anything holds the one lock under which the
chain grows, the head row in Postgres and the file in SQLite (`ChainLock`). So two
transactions never both have rows to bring (`OnlyAppender`), and what one commits
still fits what the others found. `NextIsLinked` is the lemma about hashes: the
row made of the right head is the right row. The one assumption is
`DamageAssumption`, that damage is one of the five kinds `Damaged` names.

Of `verify_chain` it proves that it raises no false alarm (`HealthyChainsPass`)
and gives no false comfort (`AcceptedAreGenuine`), beside any number of writers
that commit, roll back or die during the pass. For the first, whatever pair a
pass holds is genuine, and it streams again only while there is more to stream
(`NoAlarm`). For the second the chain itself is no longer known to be anything:
`PassInv` says what each kind of damage leaves as it was (`Remaining`), that
appends go on from the head whatever it says (`Stored`), and that the last hash
a pass has accepted spells out every row it has seen since its checkpoint
(`Covers`). The pass ends on a head that holds such a hash, so the rows seen are
the rows written, unless rows and head were rewritten together; then only the
length and the noted row a pass starts from still tell.

`RuntimeProofs` proves that the gate's promise holds for any number of threads
and of calls of `close()` (`GateKeepsItsPromise`), `iter_audit`'s own
connections excepted, and that it still does under everything the pool does
(`PoolKeepsTheGate`), whose steps use the gate through its actions only.
`GateHolds` is not inductive: it needs that `active` is the number of threads
inside (`GateInv`), which is a fact about cardinalities.

The same module proves `EffectsStayOnLedger` and `FullPoolIsAnnounced` for any number
of calls and workers. `PoolInv` says of a thread whose core it is running and how
far (`Driving`), of the queue that what it holds has not begun and is held once
(`QueueInv`), of a call what its row, its coroutine and its caller know of each
other (`Accounted`), and of `_INFLIGHT` that it counts the tasks suspended in the
wrapper (`CountInv`). The warning follows by counting: the busy workers and the
head of the queue are distinct suspended tasks, unless a cancelled task has left
its worker behind, and the property says so. A cancelled future leaves the queue
from the place where it stands (`LeftWithout`), and stands in one place only.

`EdgeProofs` proves the properties of `Edge` for any set of tools, arguments,
contexts and rules. `ProgramAssumption` is that a signature is one Python accepts
(`WellFormed`), `PolicyAssumption` that the rules are a list.

* `KeysTellCallsApart`: two accepted calls have the same key exactly when they mean
  the same arguments. The map is the bound call with `**kwargs` flattened into it;
  `ValueError` is what keeps the two from being mixed up.
* `EdgeInvariant`, `Spec => []EdgeInv`, joins what a call's phase says of its
  run and row (`CallInv`: an approved run is closed as committed only on a
  committed row, and as aborted only on a row that ended otherwise), what ran of
  the ledger (`LedgerInv`), and what the control plane, the requests under way
  and the acknowledgements say of the run (`WireInv`). From it follow
  `BlockedCallsStayBlocked`, `AcknowledgedIsApplied` and `VerdictsStand`. For
  the last, the verdict that `Scan` finds is the one on the first readable line
  about the call, and an append changes no line but an unfinished last one,
  which it makes unreadable.
* `RecoveryIsFaithful`, under the hypothesis that every tool is `Rebuildable`. The
  parameters by position that the map still has are a prefix of the signature
  (`PrefixOfPositions`), so the list `_bind_from_map` makes is that prefix followed by
  the `*args` (`FlattenLead`), every parameter finds its own value there or under its
  own name (`MapDelivers`). Without the hypothesis the statement is false:
  `ArgShift`. Whether Python accepts the rebuilt call is not part of it: a call
  that it refuses runs nothing.

`DataLemmas` is what these proofs needed in place of the library's induction
theorems, which take a predicate: a set of naturals has a least member, a set closed
under successor has them all. A recursive function of the community modules is
reached by proving that a function of its equation exists, which `CHOOSE` then picks
(`ReadingExists` for the story of a key, `FlatteningExists` for `FlattenSeq`).

Only model-checked are the four liveness properties, `EventuallyResolved`,
`ApprovedIsDriven`, `DecisionIsFetched` and `NothingHangs`: they hold under fairness,
which is stated with `ENABLED` and beyond the proof system.

## Hazards without a property

* `pause.py:719`: a key that is both gated and committed without a gate. The code
  makes no promise about what its caller is told; `SaidIsTrue` leaves it out.
* `_guard.py:946`: a crash between `send` and `set_approval_id` leaves a run that
  no poll looks up; by design it waits for the call to be made again.
* `__main__.py:278`: nobody may run the backstop poll; see fairness.
* `sqlite.py:348`: ages compare clocks of different machines. Age is a choice in
  all models, so an age that is wrong delays a sweep and does nothing else.

## The order of work

1. (done) The ledger protocol, its runs and the untimed proofs.
2. (done) `DurablePause`, its runs and the proofs of its safety.
3. (done) What the timing can cost, and the refinement of `ExactlyOnce`.
4. (done) `StoreTransactions`, `VerifyChain`, and the stores as `LedgerService`.
5. (done) `ConnectionGate` and `AsyncPool`.
6. (done) Argument maps, policy, and the transports over them.
7. (done) The proofs about data: the trail and the refinement of `LedgerService`,
   `verify_chain`, keys, recovered calls, transports.
8. Open: liveness, once a prover can reason about `ENABLED`.

## Not modelled

* `record_error` writes a column nothing reads. Escalation events, result and
  evidence payloads and best-effort event mirroring do not influence an outcome.
* SHA-256, HMAC and canonical JSON are taken to be injective; what a particular
  encoding does with a particular value is a matter of byte-level tests.
* Of the HTTP side: the wire mapping, the validators of what may leave the
  process, and the answers 400, 404 and 405, which change nothing. Of the console:
  the printed summary and a line with a misspelt verdict.
* `Airlock.init`'s argument checks, callable cost and blast radius, key strings
  supplied by the user, duplicate registration, the CLI's output.
* Wall clocks: where the code compares ages, the models choose.
* Within the database: what isolation levels other than the two used would do.
* `errors.py`, the public names, the contracts, examples and docs declare and
  describe; they have no behaviour of their own.

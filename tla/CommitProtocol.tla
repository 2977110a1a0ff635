--------------------------- MODULE CommitProtocol ---------------------------
(***************************************************************************)
(* commit_once (airlock/commit.py) and the verify-first reconciler         *)
(* (airlock/reconcile.py), run by any number of concurrent processes over  *)
(* one CommitLedger.  A process performs one ledger transaction, one call  *)
(* into the tool, or one probe per step; everything it remembers between   *)
(* two steps is in proc[p] and todo[p] and may be out of date.             *)
(***************************************************************************)
EXTENDS CommitLedger

CONSTANTS
    Callers,           \* threads inside commit_once
    Sweepers,          \* threads inside reconcile (CLI, startup hook)
    NoKey,             \* "works on no key"
    KeyParam,          \* keys whose Effect sets key_param (downstream dedups)
    HasVerify,         \* keys whose Effect sets verify (a probe)
    CanNoop,           \* keys whose tool may return without taking effect
    Registered,        \* keys whose action type the sweeper imported
    OnAbsent,          \* the on_absent settings in use
    Bare,              \* <<caller, key>>: called without an event_context
    MaxEpoch           \* bound: a row taken over this often never goes stale

VARIABLES
    proc,              \* proc[p]: where process p is and what it remembers
    todo,              \* todo[p][k]: state p's sweep read for row k, or none
    effects,           \* effects[k]: times the side effect landed downstream
    abandoned,         \* abandoned[k]: executes running with no one waiting
    told,              \* told[k]: outcomes returned to callers of key k
    slips              \* slips[k]: history: what the timing of k let happen

ledgerVars == <<row, audit>>
vars == <<row, audit, proc, todo, effects, abandoned, told, slips>>

Procs == Callers \union Sweepers

Guarantee(k) ==
    CASE k \in KeyParam -> "downstream_idempotent"
      [] k \in HasVerify \ KeyParam -> "verifiable"
      [] OTHER -> "none"

OwnerSteps    == {"precond", "mark", "exec", "ran", "verify", "commit", "fail", "abort"}
RecoverySteps == {"probe", "recheck", "unknown"} \union (OwnerSteps \ {"precond"})
Steps == {"idle", "await", "sweep", "bump"} \union OwnerSteps \union RecoverySteps

Snapshots == {"none"} \union InFlight

\* What the timing may let happen to a row: see Expire, Bump, AbandonedLands.
Slips == {"overrun", "outdated", "late"}

ASSUME ConstantsAssumption ==
    /\ NoKey \notin Keys
    /\ KeyParam \subseteq Keys /\ HasVerify \subseteq Keys
    /\ CanNoop \subseteq Keys /\ Registered \subseteq Keys
    /\ OnAbsent \subseteq {"abort", "retry"} /\ OnAbsent # {}
    /\ Bare \subseteq Callers \X Keys
    /\ MaxEpoch \in Nat

ProcRecord ==
    [pc: Steps, role: {"none", "owner", "inline", "sweep"},
     key: Keys \union {NoKey}, epoch: Nat, from: Snapshots]

ProcType ==
    /\ proc \in [Procs -> ProcRecord]
    /\ \A p \in Procs : proc[p].pc \notin {"idle", "sweep"} => proc[p].key \in Keys

\* Ledger, processes, sweeps and the outside world keep their shape; only an
\* in-flight state is ever handed to a recovery.
TypeOK ==
    /\ LedgerType
    /\ ProcType
    /\ todo \in [Procs -> [Keys -> Snapshots]]
    /\ effects \in [Keys -> Nat]
    /\ abandoned \in [Keys -> Nat]
    /\ told \in [Keys -> SUBSET Terminal]
    /\ slips \in [Keys -> SUBSET Slips]

-----------------------------------------------------------------------------
(* What a process may be doing between two steps.                          *)

At(pc, role, k, e, from) ==
    [pc |-> pc, role |-> role, key |-> k, epoch |-> e, from |-> from]

Idle == At("idle", "none", NoKey, 0, "none")
Sweeping == At("sweep", "sweep", NoKey, 0, "none")
Awaiting(k) == At("await", "owner", k, 0, "none")

NothingToDo == [k \in Keys |-> "none"]

Key(p) == proc[p].key
Epoch(p) == proc[p].epoch
IsOwner(p) == proc[p].role = "owner"
IsRecoverer(p) == proc[p].role \in {"inline", "sweep"}

Become(p, r) == proc' = [proc EXCEPT ![p] = r]
GoTo(p, pc) == proc' = [proc EXCEPT ![p].pc = pc]

\* Where p continues once it has lost the row or is through with it: a sweep
\* takes its next record, a caller goes (back) to _await_terminal.
Elsewhere(p) == IF proc[p].role = "sweep" THEN Sweeping ELSE Awaiting(Key(p))

Tell(k, outcome) == told' = [told EXCEPT ![k] = @ \union {outcome}]

\* p is responsible for row k under the row's current epoch.
Holds(p, k) == Key(p) = k /\ Epoch(p) = row[k].attempts

\* p is inside the call into the tool, or recovers on what a probe or the
\* recovery table said of the effect a moment ago.
InSpan(p) ==
    \/ IsOwner(p) /\ proc[p].pc \in {"exec", "ran"}
    \/ IsRecoverer(p) /\ proc[p].pc \in {"probe", "recheck", "exec", "ran"}

SlipIf(k, condition, what) ==
    slips' = [slips EXCEPT ![k] = IF condition THEN @ \union {what} ELSE @]

Init ==
    /\ LedgerInit
    /\ proc = [p \in Procs |-> Idle]
    /\ todo = [p \in Procs |-> NothingToDo]
    /\ effects = [k \in Keys |-> 0]
    /\ abandoned = [k \in Keys |-> 0]
    /\ told = [k \in Keys |-> {}]
    /\ slips = [k \in Keys |-> {}]

-----------------------------------------------------------------------------
(* commit_once: claim, preconditions, mark.                                *)

ClaimWon(p, k) ==
    /\ proc[p].pc = "idle"
    /\ InsertClaim(k)
    /\ Become(p, At("precond", "owner", k, 1, "none"))
    /\ UNCHANGED <<todo, effects, abandoned, told, slips>>

\* Losing the claim: read a terminal row back, otherwise wait for its owner.
ClaimLost(p, k) ==
    /\ proc[p].pc = "idle"
    /\ ~Unclaimed(k)
    /\ IF IsTerminal(k)
       THEN Tell(k, row[k].state) /\ UNCHANGED proc
       ELSE Become(p, Awaiting(k)) /\ UNCHANGED told
    /\ UNCHANGED <<row, audit, todo, effects, abandoned, slips>>

Preconditions(p) ==
    /\ proc[p].pc = "precond"
    /\ \/ GoTo(p, "mark")
       \/ GoTo(p, "abort")
    /\ UNCHANGED <<row, audit, todo, effects, abandoned, told, slips>>

\* A precondition that raises propagates out of commit_once; the row stays.
PreconditionsRaise(p) ==
    /\ proc[p].pc = "precond"
    /\ Become(p, Idle)
    /\ UNCHANGED <<row, audit, todo, effects, abandoned, told, slips>>

\* A faulty variant: the answer of mark_executing is ignored.
OwnerMarkIgnored(p) ==
    /\ proc[p].pc = "mark" /\ IsOwner(p)
    /\ GoTo(p, "exec")
    /\ \/ MarkExecuting(Key(p), Epoch(p))
       \/ ~MarkMatches(Key(p), Epoch(p)) /\ UNCHANGED ledgerVars
    /\ UNCHANGED <<todo, effects, abandoned, told, slips>>

OwnerMark(p) ==
    /\ proc[p].pc = "mark" /\ IsOwner(p)
    /\ \/ MarkExecuting(Key(p), Epoch(p)) /\ GoTo(p, "exec")
       \/ /\ ~MarkMatches(Key(p), Epoch(p))
          /\ Become(p, Awaiting(Key(p)))
          /\ UNCHANGED ledgerVars
    /\ UNCHANGED <<todo, effects, abandoned, told, slips>>

-----------------------------------------------------------------------------
(* The execute call.  The downstream is outside this repository: with a    *)
(* key_param it lands an effect once per key, otherwise once per call.     *)

LandOn(k) == effects' = [effects EXCEPT ![k] = IF k \in KeyParam THEN 1 ELSE @ + 1]

LeaveBehind(k) == abandoned' = [abandoned EXCEPT ![k] = @ + 1]

EffectLands(p) ==
    /\ proc[p].pc = "exec"
    /\ LandOn(Key(p))
    /\ GoTo(p, "ran")
    /\ UNCHANGED <<row, audit, todo, abandoned, told, slips>>

\* A faulty variant: nobody asks the probe.
ExecuteReturnsUnverified(p) ==
    /\ \/ proc[p].pc = "ran"
       \/ proc[p].pc = "exec" /\ Key(p) \in CanNoop
    /\ GoTo(p, "commit")
    /\ UNCHANGED <<row, audit, todo, effects, abandoned, told, slips>>

\* execute returns; the probe, if there is one, checks what it did.
ExecuteReturns(p) ==
    /\ \/ proc[p].pc = "ran"
       \/ proc[p].pc = "exec" /\ Key(p) \in CanNoop
    /\ GoTo(p, IF Key(p) \in HasVerify THEN "verify" ELSE "commit")
    /\ UNCHANGED <<row, audit, todo, effects, abandoned, told, slips>>

\* execute raised, or overran execute_timeout and was abandoned: the owner
\* records the error, leaves the row executing and raises.
OwnerExecuteFails(p) ==
    /\ proc[p].pc \in {"exec", "ran"} /\ IsOwner(p)
    /\ Become(p, Idle)
    /\ IF proc[p].pc = "exec" THEN LeaveBehind(Key(p)) ELSE UNCHANGED abandoned
    /\ UNCHANGED <<row, audit, todo, effects, told, slips>>

\* A faulty variant: a raise is taken for "did not happen".
RecoveryExecuteFailsAborts(p) ==
    /\ proc[p].pc \in {"exec", "ran"} /\ IsRecoverer(p)
    /\ GoTo(p, "abort")
    /\ UNCHANGED <<row, audit, todo, effects, abandoned, told, slips>>

\* The same raise inside _reexecute is caught: escalate, leave the row.
RecoveryExecuteFails(p) ==
    /\ proc[p].pc \in {"exec", "ran"} /\ IsRecoverer(p)
    /\ Become(p, Elsewhere(p))
    /\ IF proc[p].pc = "exec" THEN LeaveBehind(Key(p)) ELSE UNCHANGED abandoned
    /\ UNCHANGED <<row, audit, todo, effects, told, slips>>

-----------------------------------------------------------------------------
(* Post-verify and finalize.  The probe tells the truth or says unknown.   *)

Present(k) == effects[k] > 0

PostVerify(p) ==
    /\ proc[p].pc = "verify"
    /\ GoTo(p, IF Present(Key(p)) THEN "commit" ELSE "fail")
    /\ UNCHANGED <<row, audit, todo, effects, abandoned, told, slips>>

\* unknown: an owner raises VerificationUnknown, a reconciler escalates.
PostVerifyUnknown(p) ==
    /\ proc[p].pc = "verify"
    /\ Become(p, IF IsOwner(p) THEN Idle ELSE Elsewhere(p))
    /\ UNCHANGED <<row, audit, todo, effects, abandoned, told, slips>>

\* The terminal state a step is about to write.
Target(pc) ==
    CASE pc = "commit" -> "committed"
      [] pc = "fail" -> "failed"
      [] pc = "abort" -> "aborted"
      [] pc = "unknown" -> "unknown"

Finalizing(p) == proc[p].pc \in {"commit", "fail", "abort", "unknown"}

\* The owner's action_event, unless the call came without an event_context;
\* a reconciler's own event.
OwnersEvents(p, k, st) ==
    IF <<p, k>> \in Bare THEN <<>> ELSE <<Event("action_event", st)>>

RecoverersEvents(st) == <<Event("reconcile", st)>>

\* A faulty variant: a fenced owner reports its own outcome.
OwnerFinalizeOverrides(p) ==
    /\ Finalizing(p) /\ IsOwner(p)
    /\ LET k == Key(p)
           st == Target(proc[p].pc)
       IN /\ \/ Finalize(k, Epoch(p), st, OwnersEvents(p, k, st))
             \/ ~FinalizeMatches(k, Epoch(p), st) /\ UNCHANGED ledgerVars
          /\ Tell(k, st)
    /\ Become(p, Idle)
    /\ UNCHANGED <<todo, effects, abandoned, slips>>

\* An owner whose finalize matches returns that outcome; a fenced owner
\* overrides nothing and reports whatever the ledger converges to.
OwnerFinalize(p) ==
    /\ Finalizing(p) /\ IsOwner(p)
    /\ LET k == Key(p)
           st == Target(proc[p].pc)
       IN \/ Finalize(k, Epoch(p), st, OwnersEvents(p, k, st)) /\ Become(p, Idle) /\ Tell(k, st)
          \/ /\ ~FinalizeMatches(k, Epoch(p), st)
             /\ Become(p, Awaiting(k))
             /\ UNCHANGED <<row, audit, told>>
    /\ UNCHANGED <<todo, effects, abandoned, slips>>

\* A faulty variant: the audit event is appended outside the transaction.
RecoveryFinalizeAudits(p) ==
    /\ Finalizing(p) /\ IsRecoverer(p)
    /\ LET k == Key(p)
           st == Target(proc[p].pc)
       IN \/ Finalize(k, Epoch(p), st, RecoverersEvents(st))
          \/ /\ ~FinalizeMatches(k, Epoch(p), st)
             /\ audit' = [audit EXCEPT ![k] = @ \o RecoverersEvents(st)]
             /\ UNCHANGED row
    /\ Become(p, Elsewhere(p))
    /\ UNCHANGED <<todo, effects, abandoned, told, slips>>

RecoveryFinalize(p) ==
    /\ Finalizing(p) /\ IsRecoverer(p)
    /\ LET k == Key(p)
           st == Target(proc[p].pc)
       IN \/ Finalize(k, Epoch(p), st, RecoverersEvents(st))
          \/ ~FinalizeMatches(k, Epoch(p), st) /\ UNCHANGED ledgerVars
    /\ Become(p, Elsewhere(p))
    /\ UNCHANGED <<todo, effects, abandoned, told, slips>>

-----------------------------------------------------------------------------
(* _await_terminal: a caller that does not own the row.                    *)

ReturnRecorded(p) ==
    /\ proc[p].pc = "await"
    /\ IsTerminal(Key(p))
    /\ Tell(Key(p), row[Key(p)].state)
    /\ Become(p, Idle)
    /\ UNCHANGED <<row, audit, todo, effects, abandoned, slips>>

\* A faulty variant: the state of the loaded row is not checked.
ReconcileInlineAny(p) ==
    /\ proc[p].pc = "await"
    /\ Become(p, At("bump", "inline", Key(p), 0, row[Key(p)].state))
    /\ UNCHANGED <<row, audit, todo, effects, abandoned, told, slips>>

\* reconcile_key: load the row; its staleness is only checked by the bump.
ReconcileInline(p) ==
    /\ proc[p].pc = "await"
    /\ IsInFlight(Key(p))
    /\ Become(p, At("bump", "inline", Key(p), 0, row[Key(p)].state))
    /\ UNCHANGED <<row, audit, todo, effects, abandoned, told, slips>>

\* wait=False, or wait_timeout exhausted: CommitWaitTimeout.
GiveUp(p) ==
    /\ proc[p].pc = "await"
    /\ IsInFlight(Key(p))
    /\ Become(p, Idle)
    /\ UNCHANGED <<row, audit, todo, effects, abandoned, told, slips>>

-----------------------------------------------------------------------------
(* reconcile: scan once, then recover the listed rows one by one.          *)

Scan(p) ==
    /\ proc[p].pc = "idle"
    /\ Become(p, Sweeping)
    /\ todo' = [todo EXCEPT ![p] =
                  [k \in Keys |-> IF k \in StaleInflight THEN row[k].state ELSE "none"]]
    /\ UNCHANGED <<row, audit, effects, abandoned, told, slips>>

Strike(p, k) == todo' = [todo EXCEPT ![p][k] = "none"]

TakeRow(p, k) ==
    /\ proc[p].pc = "sweep"
    /\ todo[p][k] # "none"
    /\ k \in Registered
    /\ Become(p, At("bump", "sweep", k, 0, todo[p][k]))
    /\ Strike(p, k)
    /\ UNCHANGED <<row, audit, effects, abandoned, told, slips>>

\* No recovery wiring for the action type: leave the row, epoch included.
SkipUnregistered(p, k) ==
    /\ proc[p].pc = "sweep"
    /\ todo[p][k] # "none"
    /\ k \notin Registered
    /\ Strike(p, k)
    /\ UNCHANGED <<row, audit, proc, effects, abandoned, told, slips>>

SweepDone(p) ==
    /\ proc[p].pc = "sweep"
    /\ todo[p] = NothingToDo
    /\ Become(p, Idle)
    /\ UNCHANGED <<row, audit, todo, effects, abandoned, told, slips>>

-----------------------------------------------------------------------------
(* _reconcile_row: fence first, then the recovery table.                   *)

EffectFreeRecovery == {IF oa = "abort" THEN "abort" ELSE "recheck" : oa \in OnAbsent}

\* A faulty variant: an executing row without a guarantee is retried.
RecoveryTableRetries(k, from) ==
    IF from = "executing" /\ Guarantee(k) = "verifiable" THEN {"probe"} ELSE {"recheck"}

\* The table is entered with the state the record had when it was READ.
RecoveryTable(k, from) ==
    CASE from = "pending" -> EffectFreeRecovery
      [] from = "executing" /\ Guarantee(k) = "verifiable" -> {"probe"}
      [] from = "executing" /\ Guarantee(k) = "downstream_idempotent" -> {"recheck"}
      [] OTHER -> {"unknown"}

\* Slip "outdated": the row is no longer in the state it is recovered from.
Bump(p) ==
    /\ proc[p].pc = "bump"
    /\ LET k == Key(p)
       IN \/ /\ BumpEpoch(k)
             /\ \E step \in RecoveryTable(k, proc[p].from) :
                    Become(p, At(step, proc[p].role, k, row[k].attempts + 1, proc[p].from))
             /\ SlipIf(k, proc[p].from # row[k].state, "outdated")
          \/ ~BumpMatches(k) /\ Become(p, Elsewhere(p)) /\ UNCHANGED <<ledgerVars, slips>>
    /\ UNCHANGED <<todo, effects, abandoned, told>>

\* executing + verifiable: the probe before anything else.
Probe(p) ==
    /\ proc[p].pc = "probe"
    /\ IF Present(Key(p))
       THEN GoTo(p, "commit")
       ELSE \E step \in EffectFreeRecovery : GoTo(p, step)
    /\ UNCHANGED <<row, audit, todo, effects, abandoned, told, slips>>

\* A faulty variant: a probe that cannot tell counts as "absent".
ProbeUnknownIsAbsent(p) ==
    /\ proc[p].pc = "probe"
    /\ \E step \in EffectFreeRecovery : GoTo(p, step)
    /\ UNCHANGED <<row, audit, todo, effects, abandoned, told, slips>>

ProbeUnknown(p) ==
    /\ proc[p].pc = "probe"
    /\ Become(p, Elsewhere(p))
    /\ UNCHANGED <<row, audit, todo, effects, abandoned, told, slips>>

\* Re-validated preconditions: hold -> re-run the execute path; violated (or
\* raising) -> aborted if proven effect-free, unknown for a keyed re-issue.
Recheck(p) ==
    /\ proc[p].pc = "recheck"
    /\ \/ GoTo(p, IF proc[p].from = "pending" THEN "mark" ELSE "exec")
       \/ GoTo(p, IF proc[p].from = "executing" /\ Key(p) \in KeyParam
                  THEN "unknown" ELSE "abort")
    /\ UNCHANGED <<row, audit, todo, effects, abandoned, told, slips>>

RecoveryMark(p) ==
    /\ proc[p].pc = "mark" /\ IsRecoverer(p)
    /\ \/ MarkExecuting(Key(p), Epoch(p)) /\ GoTo(p, "exec")
       \/ /\ ~MarkMatches(Key(p), Epoch(p))
          /\ Become(p, Elsewhere(p))
          /\ UNCHANGED ledgerVars
    /\ UNCHANGED <<todo, effects, abandoned, told, slips>>

-----------------------------------------------------------------------------
(* The environment: crashes, abandoned calls, and the clock.               *)

\* A process dies: all it remembered is lost, a request it had under way may
\* be on the wire still.
Crash(p) ==
    /\ proc[p].pc # "idle"
    /\ Become(p, Idle)
    /\ todo' = [todo EXCEPT ![p] = NothingToDo]
    /\ IF proc[p].pc = "exec" THEN LeaveBehind(Key(p)) ELSE UNCHANGED abandoned
    /\ UNCHANGED <<row, audit, effects, told, slips>>

\* An effect that lands on k now is the one a row in flight stands for, or one
\* an unknown row allows for, and nobody acts on its absence.
InTime(k) ==
    \/ k \in KeyParam /\ effects[k] = 1
    \/ /\ IsInFlight(k) \/ row[k].state = "unknown"
       /\ effects[k] = 0
       /\ \A p \in Procs : ~Holds(p, k)

\* Slip "late": it lands when the row was taken over, resolved or done anew.
AbandonedLands(k) ==
    /\ abandoned[k] > 0
    /\ abandoned' = [abandoned EXCEPT ![k] = @ - 1]
    /\ LandOn(k)
    /\ SlipIf(k, ~InTime(k), "late")
    /\ UNCHANGED <<row, audit, proc, todo, told>>

AbandonedEnds(k) ==
    /\ abandoned[k] > 0
    /\ abandoned' = [abandoned EXCEPT ![k] = @ - 1]
    /\ UNCHANGED <<row, audit, proc, todo, effects, told, slips>>

\* Slip "overrun": the row goes stale while its holder is inside the call, or
\* inside a recovery: from now on anyone may take it over.
Expire(k) ==
    /\ row[k].attempts < MaxEpoch
    /\ GrowStale(k)
    /\ SlipIf(k, \E p \in Procs : Holds(p, k) /\ InSpan(p), "overrun")
    /\ UNCHANGED <<proc, todo, effects, abandoned, told>>

-----------------------------------------------------------------------------
Start(p) ==
    \/ p \in Callers /\ \E k \in Keys : ClaimWon(p, k) \/ ClaimLost(p, k)
    \/ p \in Sweepers /\ Scan(p)

\* The steps a running process takes of its own accord.
Progress(p) ==
    \/ Preconditions(p) \/ OwnerMark(p)
    \/ EffectLands(p) \/ ExecuteReturns(p)
    \/ PostVerify(p) \/ OwnerFinalize(p) \/ RecoveryFinalize(p)
    \/ ReturnRecorded(p) \/ ReconcileInline(p) \/ GiveUp(p)
    \/ \E k \in Keys : TakeRow(p, k) \/ SkipUnregistered(p, k)
    \/ SweepDone(p)
    \/ Bump(p) \/ Probe(p) \/ Recheck(p) \/ RecoveryMark(p)

\* What goes wrong around it.
Fault(p) ==
    \/ PreconditionsRaise(p)
    \/ OwnerExecuteFails(p) \/ RecoveryExecuteFails(p)
    \/ PostVerifyUnknown(p) \/ ProbeUnknown(p)
    \/ Crash(p)

Environment == \E k \in Keys : AbandonedLands(k) \/ AbandonedEnds(k) \/ Expire(k)

Next ==
    \/ \E p \in Procs : Start(p) \/ Progress(p) \/ Fault(p)
    \/ Environment

Spec == Init /\ [][Next]_vars

-----------------------------------------------------------------------------
(* Safety whatever the timing.                                             *)

Executing(k) == {p \in Procs : Key(p) = k /\ proc[p].pc \in {"exec", "ran"}}

\* A pending row never started its effect: nothing landed, nothing is under
\* way, nothing was left behind.  The executing marker is durable before the
\* effect is invoked (commit.py step 4), whatever crashes or stalls.
PendingNeverStarted ==
    \A k \in Keys : row[k].state \in {"none", "pending"} =>
        /\ effects[k] = 0
        /\ abandoned[k] = 0
        /\ Executing(k) = {}

\* An effect recovery never re-executes from an executing row: no probe and
\* no downstream key to make that safe, or on_absent is left at "abort".
NeverReexecuted ==
    {k \in Keys \ KeyParam : k \notin HasVerify \/ "retry" \notin OnAbsent}

\* Such an effect lands at most once, however slow the owner, however late an
\* abandoned call: one process passes the mark, and only that one executes.
AtMostOnceUnretried == \A k \in NeverReexecuted : effects[k] <= 1

\* No two processes are responsible for one row under one epoch, across
\* claims, takeovers, crashes and inline recoveries.
OneHolderPerEpoch ==
    \A p, q \in Procs :
        Key(p) = Key(q) /\ Epoch(p) = Epoch(q) /\ Epoch(p) > 0 => p = q

\* A committed row's effect took place, if a probe vouched for it or the
\* tool never returns without effect: also when a takeover committed it.
Vouched == Keys \ (CanNoop \ HasVerify)

CommittedTookEffect ==
    \A k \in Vouched : row[k].state = "committed" => effects[k] > 0

\* All callers that get an outcome for a key get the same one, the ledger's:
\* also a fenced owner that had already executed.
CallersAgree ==
    \A k \in Keys : told[k] \subseteq {row[k].state} \intersect Terminal

\* The audit chain holds, for a row its claimant resolved, that call's one
\* action_event, or nothing if the call came without an event_context; for a
\* row a takeover resolved, the reconciler's one event and no action_event;
\* for the others nothing.  The event names the state the row really has.
ResolvedEvents(k) ==
    IF row[k].attempts > 1
    THEN {RecoverersEvents(row[k].state)}
    ELSE {OwnersEvents(p, k, row[k].state) : p \in Callers}

AuditMatchesLedger ==
    \A k \in Keys : audit[k] \in IF IsTerminal(k) THEN ResolvedEvents(k) ELSE {<<>>}

\* What a step may do to a row: claim it, start it, take it over, resolve
\* it, or let it grow stale.  Resolved rows are frozen, epochs never fall.
RowLifecycle(k) ==
    LET old == row[k]
        new == row'[k]
    IN  /\ old.state \in Terminal => new = old
        /\ old.state # "none" => new.state # "none"
        /\ old.state = "executing" => new.state # "pending"
        /\ new.attempts \in {old.attempts, old.attempts + 1}

LedgerLifecycle == [][\A k \in Keys : RowLifecycle(k)]_vars

\* Only the holder of the current epoch moves a claimed row to another
\* state; a fenced process cannot, whatever it remembers.
MovedByHolder(k) ==
    IsInFlight(k) /\ row'[k].state # row[k].state
        => \E p \in Procs : Holds(p, k) /\ proc'[p] # proc[p]

FenceHolds == [][\A k \in Keys : MovedByHolder(k)]_vars

-----------------------------------------------------------------------------
(* Safety that a slip of the timing can cost.                              *)

\* Nothing went wrong with the timing of k so far.
Punctual(k) == slips[k] = {}

\* The effect of a verify-only key lands at most once, unless the row ran
\* over its holder, was recovered from an outdated state, or a call nobody
\* waits for landed late; and even then at most once for every epoch.
AtMostOnceVerifiable ==
    \A k \in Keys : Guarantee(k) = "verifiable" =>
        effects[k] <= IF Punctual(k) THEN 1 ELSE row[k].attempts

\* An aborted row was never executed, a failed one provably without effect,
\* and it stays that way: but for the same three slips.
RefusedEffectFree ==
    \A k \in Keys :
        Punctual(k) /\ row[k].state \in {"aborted", "failed"} => effects[k] = 0

\* The same, if only the slips a deployment can rule out by its timeouts are
\* excepted: no call overruns reconcile_after or lands after its timeout.
RefusedUnlessLate ==
    \A k \in Keys :
        slips[k] \subseteq {"outdated"} /\ row[k].state \in {"aborted", "failed"}
            => effects[k] = 0

Promised == INSTANCE ExactlyOnce WITH
    outcome <- [k \in Keys |-> IF IsInFlight(k) THEN "open" ELSE row[k].state],
    slipped <- {k \in Keys : ~Punctual(k)}

\* commit_once and the reconciler together implement the promise of module
\* ExactlyOnce: an in-flight row, whoever works on it, is one open action,
\* and only a key whose timing slipped is released from its single effect.
ImplementsExactlyOnce == Promised!AbsSpec
=============================================================================

------------------------- MODULE CommitSafetyProofs -------------------------
(***************************************************************************)
(* What CommitProtocol keeps without any timing assumption, for every set  *)
(* of processes and keys: the types, AsyncInv, which is inductive, and the *)
(* properties of CommitProtocol that follow from it.                       *)
(***************************************************************************)
EXTENDS CommitInvariants, TLAPS

-----------------------------------------------------------------------------
(* Type correctness of the helpers the actions are built from.             *)

\* The states and steps the actions name are among those the types list.
LEMMA StepNames ==
    /\ {"idle", "await", "sweep", "bump", "precond", "mark", "exec", "ran", "verify",
        "commit", "fail", "abort", "probe", "recheck", "unknown"} \subseteq Steps
    /\ InFlight \subseteq Snapshots /\ "none" \in Snapshots
    /\ InFlight \subseteq LedgerStates /\ Terminal \subseteq LedgerStates
BY DEF Steps, OwnerSteps, RecoverySteps, Snapshots, LedgerStates

\* A process may become any record whose parts are well typed (At).
LEMMA BecomeType ==
    ASSUME ProcType, NEW p \in Procs,
           NEW pc \in Steps, NEW role \in {"none", "owner", "inline", "sweep"},
           NEW k \in Keys \union {NoKey}, NEW e \in Nat, NEW from \in Snapshots,
           pc \notin {"idle", "sweep"} => k \in Keys,
           Become(p, At(pc, role, k, e, from))
    PROVE  ProcType'
<1>1. At(pc, role, k, e, from) \in ProcRecord
  BY DEF At, ProcRecord
<1>2. proc' = [proc EXCEPT ![p] = At(pc, role, k, e, from)]
  BY DEF Become
<1>3. proc' \in [Procs -> ProcRecord]
  BY <1>1, <1>2 DEF ProcType
<1>4. \A q \in Procs : proc'[q].pc \notin {"idle", "sweep"} => proc'[q].key \in Keys
  BY <1>2 DEF ProcType, At
<1>. QED BY <1>3, <1>4 DEF ProcType

\* Returning to the caller, or dying, keeps the process records well typed.
LEMMA IdleType ==
    ASSUME ProcType, NEW p \in Procs, Become(p, Idle) PROVE ProcType'
BY BecomeType, StepNames DEF Idle

\* So does entering _await_terminal for a key.
LEMMA AwaitingType ==
    ASSUME ProcType, NEW p \in Procs, NEW k \in Keys, Become(p, Awaiting(k))
    PROVE  ProcType'
BY BecomeType, StepNames DEF Awaiting

\* So does going back to the list of records the sweep holds.
LEMMA SweepingType ==
    ASSUME ProcType, NEW p \in Procs, Become(p, Sweeping) PROVE ProcType'
BY BecomeType, StepNames DEF Sweeping

\* So does leaving a row, in a sweep or in an inline reconciliation.
LEMMA ElsewhereType ==
    ASSUME ProcType, NEW p \in Procs, proc[p].pc \notin {"idle", "sweep"},
           Become(p, Elsewhere(p))
    PROVE  ProcType'
<1>1. Key(p) \in Keys
  BY DEF ProcType, Key
<1>. QED BY <1>1, AwaitingType, SweepingType DEF Elsewhere

\* A process that works on a row may go to any step: its key stays a key.
LEMMA GoToType ==
    ASSUME ProcType, NEW p \in Procs, NEW pc \in Steps,
           proc[p].pc \notin {"idle", "sweep"}, GoTo(p, pc)
    PROVE  ProcType'
<1>1. proc' = [proc EXCEPT ![p] = [@ EXCEPT !.pc = pc]]
  BY DEF GoTo
<1>2. [proc[p] EXCEPT !.pc = pc] \in ProcRecord
  BY DEF ProcType, ProcRecord
<1>3. proc' \in [Procs -> ProcRecord]
  BY <1>1, <1>2 DEF ProcType
<1>4. \A q \in Procs : proc'[q].pc \notin {"idle", "sweep"} => proc'[q].key \in Keys
  BY <1>1 DEF ProcType, ProcRecord
<1>. QED BY <1>3, <1>4 DEF ProcType

\* The effect counters stay natural numbers when an effect lands.
LEMMA LandOnType ==
    ASSUME effects \in [Keys -> Nat], NEW k \in Keys, LandOn(k)
    PROVE  effects' \in [Keys -> Nat]
BY DEF LandOn

\* So do the counts of the calls nobody waits for.
LEMMA LeaveBehindType ==
    ASSUME abandoned \in [Keys -> Nat], NEW k \in Keys, LeaveBehind(k)
    PROVE  abandoned' \in [Keys -> Nat]
BY DEF LeaveBehind

\* Only terminal states are ever told to callers.
LEMMA TellType ==
    ASSUME told \in [Keys -> SUBSET Terminal], NEW k \in Keys, NEW st \in Terminal,
           Tell(k, st)
    PROVE  told' \in [Keys -> SUBSET Terminal]
<1>1. told[k] \union {st} \in SUBSET Terminal
  OBVIOUS
<1>. QED BY <1>1 DEF Tell

\* The three transactions that change a claimed row.
LEMMA MarkExecutingType ==
    ASSUME LedgerType, NEW k \in Keys, NEW e, MarkExecuting(k, e) PROVE LedgerType'
<1>1. row' = [row EXCEPT ![k] = [@ EXCEPT !.state = "executing", !.stale = FALSE]]
  BY DEF MarkExecuting
<1>2. [row[k] EXCEPT !.state = "executing", !.stale = FALSE]
        \in [state: LedgerStates, attempts: Nat, stale: BOOLEAN]
  BY DEF LedgerType, LedgerStates, InFlight
<1>. QED BY <1>1, <1>2 DEF LedgerType, MarkExecuting

LEMMA FinalizeType ==
    ASSUME LedgerType, NEW k \in Keys, NEW e, NEW st \in Terminal, NEW new \in Seq(Events),
           Finalize(k, e, st, new)
    PROVE  LedgerType'
<1>1. row' = [row EXCEPT ![k] = [@ EXCEPT !.state = st]]
  BY DEF Finalize
<1>2. [row[k] EXCEPT !.state = st] \in [state: LedgerStates, attempts: Nat, stale: BOOLEAN]
  BY DEF LedgerType, LedgerStates
<1>3. audit[k] \o new \in Seq(Events)
  BY DEF LedgerType
<1>. QED BY <1>1, <1>2, <1>3 DEF LedgerType, Finalize

\* The events a resolution is chained with are audit events.
LEMMA EventsType ==
    ASSUME NEW p, NEW k, NEW st \in Terminal
    PROVE  OwnersEvents(p, k, st) \in Seq(Events) /\ RecoverersEvents(st) \in Seq(Events)
<1>1. Event("action_event", st) \in Events /\ Event("reconcile", st) \in Events
  BY DEF Event, Events, EventTypes
<1>. QED BY <1>1 DEF OwnersEvents, RecoverersEvents

\* A step may note one of the three slips, on one key.
LEMMA SlipIfType ==
    ASSUME slips \in [Keys -> SUBSET Slips], NEW k \in Keys, NEW condition, NEW what \in Slips,
           SlipIf(k, condition, what)
    PROVE  slips' \in [Keys -> SUBSET Slips]
<1>1. slips[k] \union {what} \in SUBSET Slips
  OBVIOUS
<1>. QED BY <1>1 DEF SlipIf

LEMMA BumpEpochType ==
    ASSUME LedgerType, NEW k \in Keys, BumpEpoch(k) PROVE LedgerType'
<1>1. row[k].attempts + 1 \in Nat
  BY DEF LedgerType
<1>2. row' = [row EXCEPT ![k] = [@ EXCEPT !.attempts = row[k].attempts + 1, !.stale = FALSE]]
  BY DEF BumpEpoch, LedgerType
<1>3. [row[k] EXCEPT !.attempts = row[k].attempts + 1, !.stale = FALSE]
        \in [state: LedgerStates, attempts: Nat, stale: BOOLEAN]
  BY <1>1 DEF LedgerType
<1>. QED BY <1>2, <1>3 DEF LedgerType, BumpEpoch

\* Every entry of the recovery table is a step of _reconcile_row.
LEMMA RecoveryTableSteps ==
    ASSUME NEW k, NEW from, NEW step \in RecoveryTable(k, from)
    PROVE  step \in {"abort", "recheck", "probe", "unknown"}
BY DEF RecoveryTable, EffectFreeRecovery

\* A step of Next is one of the actions, each by one process or on one key.
LEMMA NextActions ==
    ASSUME Next
    PROVE  \/ \E p \in Procs, k \in Keys :
                ClaimWon(p, k) \/ ClaimLost(p, k) \/ TakeRow(p, k) \/ SkipUnregistered(p, k)
           \/ \E p \in Procs :
                \/ Scan(p) \/ Preconditions(p) \/ OwnerMark(p) \/ EffectLands(p)
                \/ ExecuteReturns(p) \/ PostVerify(p) \/ OwnerFinalize(p)
                \/ RecoveryFinalize(p) \/ ReturnRecorded(p) \/ ReconcileInline(p)
                \/ GiveUp(p) \/ SweepDone(p) \/ Bump(p) \/ Probe(p) \/ Recheck(p)
                \/ RecoveryMark(p) \/ PreconditionsRaise(p) \/ OwnerExecuteFails(p)
                \/ RecoveryExecuteFails(p) \/ PostVerifyUnknown(p) \/ ProbeUnknown(p)
                \/ Crash(p)
           \/ \E k \in Keys : AbandonedLands(k) \/ AbandonedEnds(k) \/ Expire(k)
BY DEF Next, Start, Progress, Fault, Environment

\* Type correctness of the commit protocol, for every instance of it.
THEOREM TypeCorrect == Spec => []TypeOK
<1>1. Init => TypeOK
  BY DEF Init, TypeOK, LedgerInit, LedgerType, NoRow, Idle, At, NothingToDo, ProcType,
         ProcRecord, LedgerStates, Steps, Snapshots
<1>2. TypeOK /\ [Next]_vars => TypeOK'
  <2> SUFFICES ASSUME TypeOK, [Next]_vars PROVE TypeOK'
    OBVIOUS
  <2>0. CASE UNCHANGED vars
    BY <2>0 DEF vars, TypeOK, LedgerType, ProcType
  <2> USE DEF TypeOK, LedgerType
  <2>1. ASSUME NEW p \in Procs, NEW k \in Keys, ClaimWon(p, k) PROVE TypeOK'
    <3>1. ProcType'
      BY <2>1, BecomeType, StepNames DEF ClaimWon
    <3>. QED BY <2>1, <3>1, StepNames DEF ClaimWon, InsertClaim, Unclaimed, InFlight
  <2>2. ASSUME NEW p \in Procs, NEW k \in Keys, ClaimLost(p, k) PROVE TypeOK'
    <3>1. ProcType'
      BY <2>2, AwaitingType DEF ClaimLost, ProcType
    <3>2. told' \in [Keys -> SUBSET Terminal]
      BY <2>2, TellType DEF ClaimLost, IsTerminal
    <3>. QED BY <2>2, <3>1, <3>2 DEF ClaimLost
  <2>3. ASSUME NEW p \in Procs, NEW k \in Keys, TakeRow(p, k) PROVE TypeOK'
    <3>1. todo[p][k] \in Snapshots
      OBVIOUS
    <3>2. ProcType'
      BY <2>3, <3>1, BecomeType, StepNames DEF TakeRow
    <3>. QED BY <2>3, <3>2, StepNames DEF TakeRow, Strike
  <2>4. ASSUME NEW p \in Procs, NEW k \in Keys, SkipUnregistered(p, k) PROVE TypeOK'
    BY <2>4, StepNames DEF SkipUnregistered, Strike, ProcType
  <2>5. ASSUME NEW p \in Procs, Scan(p) PROVE TypeOK'
    <3>1. ProcType'
      BY <2>5, SweepingType DEF Scan
    <3>2. \A k \in StaleInflight : row[k].state \in Snapshots
      BY StepNames DEF StaleInflight, IsInFlight
    <3>. QED BY <2>5, <3>1, <3>2, StepNames DEF Scan
  <2>6. ASSUME NEW p \in Procs, Preconditions(p) PROVE TypeOK'
    BY <2>6, GoToType, StepNames DEF Preconditions
  <2>7. ASSUME NEW p \in Procs, OwnerMark(p) PROVE TypeOK'
    <3>1. ProcType'
      BY <2>7, GoToType, AwaitingType, StepNames DEF OwnerMark, ProcType, Key
    <3>2. LedgerType'
      BY <2>7, MarkExecutingType DEF OwnerMark, ledgerVars, ProcType, Key
    <3>. QED BY <2>7, <3>1, <3>2 DEF OwnerMark
  <2>8. ASSUME NEW p \in Procs, EffectLands(p) PROVE TypeOK'
    BY <2>8, GoToType, LandOnType, StepNames DEF EffectLands, ProcType, Key
  <2>9. ASSUME NEW p \in Procs, ExecuteReturns(p) PROVE TypeOK'
    BY <2>9, GoToType, StepNames DEF ExecuteReturns
  <2>10. ASSUME NEW p \in Procs, PostVerify(p) PROVE TypeOK'
    BY <2>10, GoToType, StepNames DEF PostVerify
  <2>11. ASSUME NEW p \in Procs, OwnerFinalize(p) PROVE TypeOK'
    <3>1. Key(p) \in Keys /\ Target(proc[p].pc) \in Terminal
      BY <2>11 DEF OwnerFinalize, Finalizing, ProcType, Key, Target, Terminal
    <3>2. ProcType'
      BY <2>11, <3>1, IdleType, AwaitingType DEF OwnerFinalize
    <3>3. LedgerType'
      BY <2>11, <3>1, FinalizeType, EventsType DEF OwnerFinalize
    <3>4. told' \in [Keys -> SUBSET Terminal]
      BY <2>11, <3>1, TellType DEF OwnerFinalize
    <3>. QED BY <2>11, <3>2, <3>3, <3>4 DEF OwnerFinalize
  <2>12. ASSUME NEW p \in Procs, RecoveryFinalize(p) PROVE TypeOK'
    <3>1. Key(p) \in Keys /\ Target(proc[p].pc) \in Terminal
      BY <2>12 DEF RecoveryFinalize, Finalizing, ProcType, Key, Target, Terminal
    <3>2. ProcType'
      BY <2>12, ElsewhereType DEF RecoveryFinalize, Finalizing
    <3>3. LedgerType'
      BY <2>12, <3>1, FinalizeType, EventsType DEF RecoveryFinalize, ledgerVars
    <3>. QED BY <2>12, <3>2, <3>3 DEF RecoveryFinalize
  <2>13. ASSUME NEW p \in Procs, ReturnRecorded(p) PROVE TypeOK'
    <3>1. Key(p) \in Keys
      BY <2>13 DEF ReturnRecorded, ProcType, Key
    <3>. QED BY <2>13, <3>1, IdleType DEF ReturnRecorded, Tell, IsTerminal
  <2>14. ASSUME NEW p \in Procs, ReconcileInline(p) PROVE TypeOK'
    <3>1. Key(p) \in Keys /\ row[Key(p)].state \in Snapshots
      BY <2>14, StepNames DEF ReconcileInline, ProcType, Key, IsInFlight
    <3>. QED BY <2>14, <3>1, BecomeType, StepNames DEF ReconcileInline
  <2>15. ASSUME NEW p \in Procs, GiveUp(p) PROVE TypeOK'
    BY <2>15, IdleType DEF GiveUp
  <2>16. ASSUME NEW p \in Procs, SweepDone(p) PROVE TypeOK'
    BY <2>16, IdleType DEF SweepDone
  <2>17. ASSUME NEW p \in Procs, Bump(p) PROVE TypeOK'
    <3>1. Key(p) \in Keys
      BY <2>17 DEF Bump, ProcType, Key
    <3>2. proc[p].from \in Snapshots /\ proc[p].role \in {"none", "owner", "inline", "sweep"}
      BY DEF ProcType, ProcRecord
    <3>3. CASE BumpEpoch(Key(p))
      <4>1. PICK step \in RecoveryTable(Key(p), proc[p].from) :
               Become(p, At(step, proc[p].role, Key(p), row[Key(p)].attempts + 1, proc[p].from))
        BY <2>17, <3>3 DEF Bump, BumpEpoch
      <4>2. step \in Steps /\ step \notin {"idle", "sweep"}
        BY RecoveryTableSteps, StepNames
      <4>5. row[Key(p)].attempts + 1 \in Nat
        BY <3>1
      <4>3. ProcType'
        BY <3>1, <3>2, <4>1, <4>2, <4>5, BecomeType
      <4>4. LedgerType'
        BY <3>1, <3>3, BumpEpochType
      <4>6. slips' \in [Keys -> SUBSET Slips]
        BY <2>17, <3>1, <3>3, SlipIfType DEF Bump, BumpEpoch, Slips
      <4>. QED BY <2>17, <4>3, <4>4, <4>6 DEF Bump
    <3>4. CASE ~BumpMatches(Key(p)) /\ Become(p, Elsewhere(p)) /\ UNCHANGED <<ledgerVars, slips>>
      BY <2>17, <3>4, ElsewhereType DEF Bump, ledgerVars
    <3>. QED BY <2>17, <3>3, <3>4 DEF Bump
  <2>18. ASSUME NEW p \in Procs, Probe(p) PROVE TypeOK'
    <3>1. EffectFreeRecovery \subseteq Steps
      BY StepNames DEF EffectFreeRecovery
    <3>. QED BY <2>18, <3>1, GoToType, StepNames DEF Probe
  <2>19. ASSUME NEW p \in Procs, Recheck(p) PROVE TypeOK'
    BY <2>19, GoToType, StepNames DEF Recheck
  <2>20. ASSUME NEW p \in Procs, RecoveryMark(p) PROVE TypeOK'
    <3>1. ProcType'
      BY <2>20, GoToType, ElsewhereType, StepNames DEF RecoveryMark
    <3>2. LedgerType'
      BY <2>20, MarkExecutingType DEF RecoveryMark, ledgerVars, ProcType, Key
    <3>. QED BY <2>20, <3>1, <3>2 DEF RecoveryMark
  <2>21. ASSUME NEW p \in Procs, PreconditionsRaise(p) PROVE TypeOK'
    BY <2>21, IdleType DEF PreconditionsRaise
  <2>22. ASSUME NEW p \in Procs, OwnerExecuteFails(p) PROVE TypeOK'
    BY <2>22, IdleType, LeaveBehindType DEF OwnerExecuteFails, ProcType, Key
  <2>23. ASSUME NEW p \in Procs, RecoveryExecuteFails(p) PROVE TypeOK'
    BY <2>23, ElsewhereType, LeaveBehindType DEF RecoveryExecuteFails, ProcType, Key
  <2>24. ASSUME NEW p \in Procs, PostVerifyUnknown(p) PROVE TypeOK'
    BY <2>24, IdleType, ElsewhereType DEF PostVerifyUnknown
  <2>25. ASSUME NEW p \in Procs, ProbeUnknown(p) PROVE TypeOK'
    BY <2>25, ElsewhereType DEF ProbeUnknown
  <2>26. ASSUME NEW p \in Procs, Crash(p) PROVE TypeOK'
    BY <2>26, IdleType, LeaveBehindType, StepNames DEF Crash, NothingToDo, ProcType, Key
  <2>27. ASSUME NEW k \in Keys, AbandonedLands(k) PROVE TypeOK'
    <3>1. slips' \in [Keys -> SUBSET Slips]
      BY <2>27, SlipIfType DEF AbandonedLands, Slips
    <3>2. effects' \in [Keys -> Nat]
      BY <2>27, LandOnType DEF AbandonedLands
    <3>3. abandoned' \in [Keys -> Nat]
      <4>1. abandoned[k] - 1 \in Nat
        BY <2>27 DEF AbandonedLands
      <4>. QED BY <2>27, <4>1 DEF AbandonedLands
    <3>. QED BY <2>27, <3>1, <3>2, <3>3 DEF AbandonedLands, ProcType
  <2>28. ASSUME NEW k \in Keys, AbandonedEnds(k) PROVE TypeOK'
    <3>1. abandoned[k] - 1 \in Nat
      BY <2>28 DEF AbandonedEnds
    <3>. QED BY <2>28, <3>1 DEF AbandonedEnds, ProcType
  <2>29. ASSUME NEW k \in Keys, Expire(k) PROVE TypeOK'
    <3>1. slips' \in [Keys -> SUBSET Slips]
      BY <2>29, SlipIfType DEF Expire, Slips
    <3>. QED BY <2>29, <3>1 DEF Expire, GrowStale, ProcType
  <2>. QED
    BY <2>0, <2>1, <2>2, <2>3, <2>4, <2>5, <2>6, <2>7, <2>8, <2>9, <2>10, <2>11, <2>12,
       <2>13, <2>14, <2>15, <2>16, <2>17, <2>18, <2>19, <2>20, <2>21, <2>22, <2>23,
       <2>24, <2>25, <2>26, <2>27, <2>28, <2>29, NextActions
<1>. QED BY <1>1, <1>2, PTL DEF Spec

-----------------------------------------------------------------------------
(* Ways in which processes and rows change.                                *)

\* What a process is doing while it is responsible for no row.
Away == {"idle", "sweep", "await"}

\* Row k keeps its epoch and, once marked, its mark.
RowKept(k) ==
    /\ row'[k].attempts = row[k].attempts
    /\ row'[k].state = "none" <=> row[k].state = "none"
    /\ Marked(k) => Marked(k)'

\* Only p moves, and it lets go of whatever it was responsible for.
LetsGo(p) ==
    /\ \A q \in Procs \ {p} : proc'[q] = proc[q]
    /\ proc'[p].pc \in Away /\ proc'[p].epoch = 0 /\ proc'[p].from = "none"

\* p leaves at most the one call behind that it was waiting for.
LeavesOneCall(p) ==
    \A k \in Keys :
        \/ abandoned'[k] = abandoned[k]
        \/ /\ proc[p].pc = "exec" /\ Key(p) = k
           /\ abandoned'[k] = abandoned[k] + 1

\* A process that lets go disturbs nothing the others rely on.
LEMMA LettingGo ==
    ASSUME TypeOK, AsyncInv, NEW p \in Procs, LetsGo(p), LeavesOneCall(p),
           UNCHANGED effects, \A k \in Keys : RowKept(k),
           \A q \in Procs, k \in Keys : todo'[q][k] = "executing" => Marked(k)
    PROVE  AsyncInv'
<1>1. \A q \in Procs : q # p => proc'[q] = proc[q]
  BY DEF LetsGo
<1>2. proc'[p].pc \in {"idle", "sweep", "await"} /\ proc'[p].epoch = 0 /\ proc'[p].from = "none"
  BY DEF LetsGo, Away
<1>3. \A k \in Keys : Marked(k) => Marked(k)'
  BY DEF RowKept
<1>4. \A q \in Procs : proc[q].pc \notin {"idle", "sweep"} => proc[q].key \in Keys
  BY DEF TypeOK, ProcType
<1>5. MarkInv'
  BY <1>1, <1>2, <1>3, <1>4 DEF AsyncInv, MarkInv, Key, LeavesOneCall
<1>6. EpochInv'
  BY <1>1, <1>2, <1>4 DEF AsyncInv, EpochInv, OneHolderPerEpoch, Key, Epoch, RowKept
<1>7. OnceInv'
  <2>1. \A k \in NeverReexecuted : k \in Keys /\ effects[k] \in Nat /\ abandoned[k] \in Nat
    BY DEF TypeOK, NeverReexecuted
  <2>. QED BY <1>1, <1>2, <1>4, <2>1 DEF AsyncInv, OnceInv, Key, LeavesOneCall
<1>8. CommitInv'
  BY <1>1, <1>2, <1>4 DEF AsyncInv, CommitInv, Key
<1>. QED BY <1>5, <1>6, <1>7, <1>8 DEF AsyncInv

\* Going idle, going elsewhere and starting to wait all let go of the row.
LEMMA Departs ==
    ASSUME ProcType, NEW p \in Procs,
           Become(p, Idle) \/ Become(p, Elsewhere(p)) \/ \E k \in Keys : Become(p, Awaiting(k))
    PROVE  LetsGo(p)
BY DEF ProcType, Become, Idle, Elsewhere, Sweeping, Awaiting, At, LetsGo, Away

\* finalize neither unmarks a row nor moves its epoch.
LEMMA FinalizeKeepsRow ==
    ASSUME LedgerType, NEW k \in Keys, NEW e, NEW st \in Terminal, NEW new,
           Finalize(k, e, st, new), NEW j \in Keys
    PROVE  RowKept(j)
BY DEF LedgerType, Finalize, FinalizeMatches, FinalizeFrom, RowKept, Marked, Terminal, InFlight

\* A step that leaves the ledger alone keeps every row.
LEMMA RowKeptUnchanged ==
    ASSUME UNCHANGED row, NEW k PROVE RowKept(k)
BY DEF RowKept, Marked

\* finalize is only ever called with a terminal state.
LEMMA TargetTerminal ==
    ASSUME NEW p, Finalizing(p) PROVE Target(proc[p].pc) \in Terminal
BY DEF Finalizing, Target, Terminal

\* A process that goes on under the epoch it holds keeps MarkInv and EpochInv,
\* if the step it goes to is one its row and its snapshot allow.
LEMMA GoingOn ==
    ASSUME TypeOK, AsyncInv, NEW p \in Procs, NEW pc \in Steps \ (Away \union {"bump"}),
           proc[p].pc \notin Away \union {"bump"}, GoTo(p, pc),
           UNCHANGED <<todo, abandoned>>, \A k \in Keys : RowKept(k),
           \A k \in Keys : ~Marked(k)' => effects'[k] = 0,
           pc \in {"exec", "ran", "verify", "commit", "fail"}
               => row'[Key(p)].state \notin {"none", "pending"},
           pc \in {"probe", "unknown"} => proc[p].from = "executing",
           pc = "recheck" => proc[p].from # "none"
    PROVE  /\ MarkInv' /\ EpochInv'
           /\ \A q \in Procs : q # p => proc'[q] = proc[q]
           /\ proc'[p] = [proc[p] EXCEPT !.pc = pc]
           /\ \A q \in Procs : Key(q)' = Key(q)
<1>1. /\ \A q \in Procs : q # p => proc'[q] = proc[q]
      /\ proc'[p] = [proc[p] EXCEPT !.pc = pc]
  BY DEF GoTo, TypeOK, ProcType
<1>2. \A q \in Procs : proc[q] \in ProcRecord
  BY DEF TypeOK, ProcType
<1>3. /\ proc'[p].pc = pc /\ proc'[p].from = proc[p].from
      /\ proc'[p].key = proc[p].key /\ proc'[p].epoch = proc[p].epoch
  BY <1>1, <1>2 DEF ProcRecord
<1>4. \A q \in Procs : Key(q)' = Key(q) /\ Epoch(q)' = Epoch(q)
  BY <1>1, <1>3 DEF Key, Epoch
<1>5. \A k \in Keys : Marked(k) => Marked(k)'
  BY DEF RowKept
<1>6. \A q \in Procs : proc[q].pc \notin {"idle", "sweep"} => proc[q].key \in Keys
  BY DEF TypeOK, ProcType
<1>7. MarkInv'
  <2>1. ASSUME NEW q \in Procs
        PROVE  /\ proc'[q].pc \in {"exec", "ran", "verify", "commit", "fail"}
                    => Marked(Key(q))'
               /\ proc'[q].from = "executing" => Marked(Key(q))'
    <3>1. CASE q = p
      BY <1>3, <1>4, <1>5, <1>6, <3>1 DEF AsyncInv, MarkInv, Key, Away, Marked
    <3>2. CASE q # p
      BY <1>1, <1>5, <1>6, <3>2 DEF AsyncInv, MarkInv, Key, Away
    <3>. QED BY <3>1, <3>2
  <2>2. \A k \in Keys : ~Marked(k)' => abandoned'[k] = 0
    BY <1>5 DEF AsyncInv, MarkInv
  <2>3. \A q \in Procs, k \in Keys : todo'[q][k] = "executing" => Marked(k)'
    BY <1>5 DEF AsyncInv, MarkInv
  <2>4. ASSUME NEW q \in Procs
        PROVE  /\ proc'[q].pc \in {"probe", "unknown"} => proc'[q].from = "executing"
               /\ proc'[q].pc \in {"bump", "recheck"} => proc'[q].from # "none"
               /\ proc'[q].pc \in {"idle", "sweep", "await"} => proc'[q].from = "none"
    BY <1>1, <1>3 DEF AsyncInv, MarkInv, Away
  <2>. QED BY <2>1, <2>2, <2>3, <2>4 DEF MarkInv
<1>8. EpochInv'
  <2>1. \A k \in Keys : row'[k].attempts = 0 <=> row'[k].state = "none"
    BY DEF AsyncInv, EpochInv, RowKept
  <2>2. \A q \in Procs : Epoch(q)' > 0 =>
            Key(q)' \in Keys /\ Epoch(q)' <= row'[Key(q)'].attempts
    BY <1>4 DEF AsyncInv, EpochInv, RowKept
  <2>3. \A q \in Procs : proc'[q].pc \in {"idle", "sweep", "await", "bump"} <=> Epoch(q)' = 0
    BY <1>1, <1>3, <1>4 DEF AsyncInv, EpochInv, Away
  <2>4. OneHolderPerEpoch'
    BY <1>4 DEF AsyncInv, EpochInv, OneHolderPerEpoch
  <2>. QED BY <2>1, <2>2, <2>3, <2>4 DEF EpochInv
<1>. QED BY <1>1, <1>4, <1>7, <1>8

\* The mark is passed by one process, and what it then executes is the first
\* execution.
LEMMA Marking ==
    ASSUME TypeOK, AsyncInv, NEW p \in Procs, proc[p].pc = "mark",
           MarkExecuting(Key(p), Epoch(p)), GoTo(p, "exec"),
           UNCHANGED <<todo, effects, abandoned>>
    PROVE  AsyncInv'
<1>1. Key(p) \in Keys
  BY DEF TypeOK, ProcType, Key
<1>2. /\ row[Key(p)].state = "pending"
      /\ \A k \in Keys : k # Key(p) => row'[k] = row[k]
      /\ row'[Key(p)].state = "executing" /\ row'[Key(p)].attempts = row[Key(p)].attempts
  BY <1>1 DEF MarkExecuting, MarkMatches, TypeOK, LedgerType
<1>3. \A k \in Keys : RowKept(k)
  BY <1>2 DEF RowKept, Marked
<1>4. ~Marked(Key(p)) /\ effects[Key(p)] = 0 /\ abandoned[Key(p)] = 0
  BY <1>1, <1>2 DEF Marked, AsyncInv, MarkInv
<1>5. \A k \in Keys : ~Marked(k)' => effects'[k] = 0
  BY <1>2 DEF Marked, AsyncInv, MarkInv
<1>6. "exec" \in Steps \ (Away \union {"bump"})
  BY StepNames DEF Away
<1>7. /\ MarkInv' /\ EpochInv'
      /\ \A q \in Procs : q # p => proc'[q] = proc[q]
      /\ proc'[p] = [proc[p] EXCEPT !.pc = "exec"]
      /\ \A q \in Procs : Key(q)' = Key(q)
  BY <1>2, <1>3, <1>5, <1>6, GoingOn DEF Away
<1>8. proc'[p].pc = "exec"
  BY <1>7 DEF TypeOK, ProcType, ProcRecord
<1>9. \A q \in Procs : Key(q) = Key(p) => proc[q].pc # "exec"
  BY <1>4 DEF AsyncInv, MarkInv
<1>10. OnceInv'
  <2>1. ASSUME NEW k \in NeverReexecuted, NEW q \in Procs, Key(q)' = k
        PROVE  /\ proc'[q].pc = "exec" => effects'[k] = 0 /\ abandoned'[k] = 0
               /\ proc'[q].pc = "probe" => "retry" \notin OnAbsent
               /\ proc'[q].pc = "recheck" => proc'[q].from = "pending"
    <3>1. Key(q) = k
      BY <1>7, <2>1
    <3>2. CASE q = p
      BY <1>4, <1>8, <3>1, <3>2
    <3>3. CASE q # p
      <4>1. proc'[q] = proc[q]
        BY <1>7, <3>3
      <4>. QED BY <3>1, <4>1 DEF AsyncInv, OnceInv
    <3>. QED BY <3>2, <3>3
  <2>2. ASSUME NEW k \in NeverReexecuted, NEW q \in Procs, NEW r \in Procs,
               Key(q)' = k, proc'[q].pc = "exec", Key(r)' = k, proc'[r].pc = "exec"
        PROVE  q = r
    BY <1>7, <1>9, <2>2 DEF AsyncInv, OnceInv
  <2>. QED BY <2>1, <2>2 DEF AsyncInv, OnceInv
<1>11. CommitInv'
  BY <1>7, <1>8 DEF AsyncInv, CommitInv
<1>. QED BY <1>7, <1>10, <1>11 DEF AsyncInv

\* Taking up a row to recover: p remembers a state the row has been in.
LEMMA TakingUp ==
    ASSUME TypeOK, AsyncInv, NEW p \in Procs, NEW k \in Keys, NEW role,
           NEW from \in InFlight, from = "executing" => Marked(k),
           Become(p, At("bump", role, k, 0, from)),
           UNCHANGED <<row, effects, abandoned>>,
           \A q \in Procs, j \in Keys : todo'[q][j] = "executing" => Marked(j)
    PROVE  AsyncInv'
<1>1. /\ \A q \in Procs : q # p => proc'[q] = proc[q]
      /\ proc'[p].pc = "bump" /\ proc'[p].key = k
      /\ proc'[p].epoch = 0 /\ proc'[p].from = from
  BY DEF Become, At, TypeOK, ProcType
<1>2. \A j : Marked(j)' <=> Marked(j)
  BY DEF Marked
<1>3. \A q \in Procs : q # p => Key(q)' = Key(q) /\ Epoch(q)' = Epoch(q)
  BY <1>1 DEF Key, Epoch
<1>4. MarkInv'
  <2>1. ASSUME NEW q \in Procs, q # p
        PROVE  /\ proc'[q].pc \in {"exec", "ran", "verify", "commit", "fail"}
                    => Marked(Key(q))'
               /\ proc'[q].from = "executing" => Marked(Key(q))'
    BY <1>1, <1>3, <2>1 DEF AsyncInv, MarkInv, Marked
  <2>2. proc'[p].from = "executing" => Marked(Key(p))'
    BY <1>1 DEF Key, Marked
  <2>3. \A j \in Keys : ~Marked(j)' => effects'[j] = 0 /\ abandoned'[j] = 0
    BY <1>2 DEF AsyncInv, MarkInv
  <2>. QED BY <1>1, <1>2, <2>1, <2>2, <2>3 DEF AsyncInv, MarkInv, InFlight
<1>5. EpochInv'
  BY <1>1, <1>3 DEF AsyncInv, EpochInv, OneHolderPerEpoch, Key, Epoch
<1>6. OnceInv'
  BY <1>1 DEF AsyncInv, OnceInv, Key
<1>7. CommitInv'
  BY <1>1 DEF AsyncInv, CommitInv, Key
<1>. QED BY <1>4, <1>5, <1>6, <1>7 DEF AsyncInv

\* Every step preserves the inductive invariant: one case per action.
LEMMA AsyncStep ==
    ASSUME TypeOK, AsyncInv, [Next]_vars PROVE AsyncInv'
<1>0. CASE UNCHANGED vars
  BY <1>0 DEF vars, AsyncInv, MarkInv, EpochInv, OnceInv, CommitInv, OneHolderPerEpoch,
              Marked, Key, Epoch
<1>t. LedgerType /\ ProcType
  BY DEF TypeOK
<1>k. \A p \in Procs : proc[p].pc \notin {"idle", "sweep"} => Key(p) \in Keys
  BY <1>t DEF ProcType, Key
<1>m. \A q \in Procs, k \in Keys : todo[q][k] = "executing" => Marked(k)
  BY DEF AsyncInv, MarkInv
<1>1. ASSUME NEW p \in Procs,
             \/ PreconditionsRaise(p) \/ PostVerifyUnknown(p) \/ ProbeUnknown(p)
             \/ ReturnRecorded(p) \/ GiveUp(p) \/ SweepDone(p)
      PROVE  AsyncInv'
  <2>1. LetsGo(p)
    BY <1>1, <1>t, Departs DEF PreconditionsRaise, PostVerifyUnknown, ProbeUnknown,
       ReturnRecorded, GiveUp, SweepDone
  <2>2. UNCHANGED <<row, todo, effects, abandoned>>
    BY <1>1 DEF PreconditionsRaise, PostVerifyUnknown, ProbeUnknown,
       ReturnRecorded, GiveUp, SweepDone
  <2>. QED BY <1>m, <2>1, <2>2, LettingGo, RowKeptUnchanged DEF LeavesOneCall
<1>2. ASSUME NEW p \in Procs, OwnerExecuteFails(p) \/ RecoveryExecuteFails(p) \/ Crash(p)
      PROVE  AsyncInv'
  <2>1. LetsGo(p)
    BY <1>2, <1>t, Departs DEF OwnerExecuteFails, RecoveryExecuteFails, Crash
  <2>2. UNCHANGED <<row, effects>>
    BY <1>2 DEF OwnerExecuteFails, RecoveryExecuteFails, Crash
  <2>3. LeavesOneCall(p)
    BY <1>2, <1>k DEF OwnerExecuteFails, RecoveryExecuteFails, Crash, LeaveBehind,
       LeavesOneCall, TypeOK
  <2>4. \A q \in Procs, k \in Keys : todo'[q][k] = "executing" => Marked(k)
    BY <1>2, <1>m DEF OwnerExecuteFails, RecoveryExecuteFails, Crash, NothingToDo, TypeOK
  <2>. QED BY <2>1, <2>2, <2>3, <2>4, LettingGo, RowKeptUnchanged
<1>3. ASSUME NEW p \in Procs, OwnerFinalize(p) \/ RecoveryFinalize(p)
      PROVE  AsyncInv'
  <2>1. Key(p) \in Keys /\ Target(proc[p].pc) \in Terminal
    BY <1>3, <1>k, TargetTerminal DEF OwnerFinalize, RecoveryFinalize, Finalizing
  <2>2. LetsGo(p)
    BY <1>3, <1>t, <2>1, Departs DEF OwnerFinalize, RecoveryFinalize
  <2>3. \A k \in Keys : RowKept(k)
    BY <1>3, <1>t, <2>1, FinalizeKeepsRow, RowKeptUnchanged
       DEF OwnerFinalize, RecoveryFinalize, ledgerVars
  <2>4. UNCHANGED <<todo, effects, abandoned>>
    BY <1>3 DEF OwnerFinalize, RecoveryFinalize
  <2>. QED BY <1>m, <2>2, <2>3, <2>4, LettingGo DEF LeavesOneCall
<1>4. ASSUME NEW p \in Procs, NEW k \in Keys, ClaimLost(p, k) PROVE AsyncInv'
  <2>1. CASE UNCHANGED proc
    BY <1>4, <2>1 DEF ClaimLost, AsyncInv, MarkInv, EpochInv, OnceInv, CommitInv,
       OneHolderPerEpoch, Marked, Key, Epoch
  <2>2. CASE Become(p, Awaiting(k))
    <3>1. LetsGo(p)
      BY <1>t, <2>2, Departs
    <3>. QED BY <1>4, <1>m, <3>1, LettingGo, RowKeptUnchanged DEF ClaimLost, LeavesOneCall
  <2>. QED BY <1>4, <2>1, <2>2 DEF ClaimLost
<1>5. ASSUME NEW p \in Procs, Scan(p) PROVE AsyncInv'
  <2>1. LetsGo(p)
    BY <1>5, <1>t DEF Scan, ProcType, Become, Sweeping, At, LetsGo, Away
  <2>2. \A q \in Procs, k \in Keys : todo'[q][k] = "executing" => Marked(k)
    BY <1>5, <1>m DEF Scan, TypeOK, Marked
  <2>. QED BY <1>5, <2>1, <2>2, LettingGo, RowKeptUnchanged DEF Scan, LeavesOneCall
<1>6. ASSUME NEW p \in Procs, NEW k \in Keys, SkipUnregistered(p, k) PROVE AsyncInv'
  <2>1. \A q \in Procs, j \in Keys : todo'[q][j] = "executing" => Marked(j)
    BY <1>6, <1>m DEF SkipUnregistered, Strike, TypeOK
  <2>. QED BY <1>6, <2>1 DEF SkipUnregistered, AsyncInv, MarkInv, EpochInv, OnceInv,
             CommitInv, OneHolderPerEpoch, Marked, Key, Epoch
<1>7. ASSUME NEW k \in Keys, Expire(k) PROVE AsyncInv'
  <2>1. \A j : Marked(j)' <=> Marked(j)
    BY <1>7, <1>t DEF Expire, GrowStale, Marked, LedgerType
  <2>2. \A j \in Keys : row'[j].attempts = row[j].attempts /\ row'[j].state = row[j].state
    BY <1>7, <1>t DEF Expire, GrowStale, LedgerType
  <2>3. UNCHANGED <<proc, todo, effects, abandoned>>
    BY <1>7 DEF Expire
  <2>4. MarkInv'
    BY <2>1, <2>3 DEF AsyncInv, MarkInv, Key
  <2>5. EpochInv'
    BY <2>2, <2>3 DEF AsyncInv, EpochInv, OneHolderPerEpoch, Key, Epoch
  <2>. QED BY <2>3, <2>4, <2>5 DEF AsyncInv, OnceInv, CommitInv, Key
<1>8. ASSUME NEW k \in Keys, AbandonedLands(k) \/ AbandonedEnds(k) PROVE AsyncInv'
  <2>1. UNCHANGED <<row, proc, todo>> /\ abandoned[k] > 0 /\ Marked(k)
    BY <1>8 DEF AbandonedLands, AbandonedEnds, AsyncInv, MarkInv, TypeOK
  <2>2. abandoned' = [abandoned EXCEPT ![k] = abandoned[k] - 1]
    BY <1>8 DEF AbandonedLands, AbandonedEnds, TypeOK
  <2>3. \A j \in Keys :
          /\ j # k => effects'[j] = effects[j]
          /\ effects[j] > 0 => effects'[j] > 0
          /\ j \notin KeyParam => effects'[j] \in {effects[j], effects[j] + 1}
    BY <1>8 DEF AbandonedLands, AbandonedEnds, LandOn, TypeOK
  <2>4. MarkInv'
    BY <2>1, <2>2, <2>3 DEF AsyncInv, MarkInv, Key, TypeOK, Marked
  <2>5. EpochInv'
    BY <2>1 DEF AsyncInv, EpochInv, OneHolderPerEpoch, Key, Epoch
  <2>6. OnceInv'
    BY <2>1, <2>2, <2>3 DEF AsyncInv, OnceInv, NeverReexecuted, Key, TypeOK
  <2>7. CommitInv'
    BY <1>k, <2>1, <2>3 DEF AsyncInv, CommitInv, Key
  <2>. QED BY <2>4, <2>5, <2>6, <2>7 DEF AsyncInv
<1>n. ASSUME NEW p \in Procs
      PROVE  proc[p].pc \in {"exec", "ran", "verify", "commit", "fail"} => Marked(Key(p))
  BY DEF AsyncInv, MarkInv
<1>u. \A k \in Keys : ~Marked(k) => effects[k] = 0 /\ abandoned[k] = 0
  BY DEF AsyncInv, MarkInv
<1>9. ASSUME NEW p \in Procs, Preconditions(p) PROVE AsyncInv'
  <2>1. UNCHANGED <<row, todo, effects, abandoned>> /\ proc[p].pc = "precond"
    BY <1>9 DEF Preconditions
  <2>2. PICK pc \in {"mark", "abort"} : GoTo(p, pc)
    BY <1>9 DEF Preconditions
  <2>3. pc \in Steps \ (Away \union {"bump"})
    BY StepNames DEF Away
  <2>4. /\ MarkInv' /\ EpochInv'
        /\ \A q \in Procs : q # p => proc'[q] = proc[q]
        /\ proc'[p] = [proc[p] EXCEPT !.pc = pc]
        /\ \A q \in Procs : Key(q)' = Key(q)
    BY <1>u, <2>1, <2>2, <2>3, GoingOn, RowKeptUnchanged DEF Away, Marked
  <2>5. OnceInv'
    BY <1>t, <2>1, <2>2, <2>4 DEF AsyncInv, OnceInv, ProcType, ProcRecord
  <2>6. CommitInv'
    BY <1>t, <2>1, <2>2, <2>4 DEF AsyncInv, CommitInv, ProcType, ProcRecord
  <2>. QED BY <2>4, <2>5, <2>6 DEF AsyncInv
<1>10. ASSUME NEW p \in Procs, ExecuteReturns(p) PROVE AsyncInv'
  <2>1. UNCHANGED <<row, todo, effects, abandoned>> /\ proc[p].pc \in {"exec", "ran"}
    BY <1>10 DEF ExecuteReturns
  <2>2. PICK pc \in {"verify", "commit"} :
          /\ GoTo(p, pc)
          /\ pc = "commit" /\ proc[p].pc = "exec" => Key(p) \notin Vouched
    BY <1>10 DEF ExecuteReturns, Vouched
  <2>3. pc \in Steps \ (Away \union {"bump"})
    BY StepNames DEF Away
  <2>4. /\ MarkInv' /\ EpochInv'
        /\ \A q \in Procs : q # p => proc'[q] = proc[q]
        /\ proc'[p] = [proc[p] EXCEPT !.pc = pc]
        /\ \A q \in Procs : Key(q)' = Key(q)
    BY <1>n, <1>u, <2>1, <2>2, <2>3, GoingOn, RowKeptUnchanged DEF Away, Marked
  <2>5. OnceInv'
    BY <1>t, <2>1, <2>2, <2>4 DEF AsyncInv, OnceInv, ProcType, ProcRecord
  <2>6. CommitInv'
    BY <1>t, <2>1, <2>2, <2>4 DEF AsyncInv, CommitInv, ProcType, ProcRecord
  <2>. QED BY <2>4, <2>5, <2>6 DEF AsyncInv
<1>11. ASSUME NEW p \in Procs, PostVerify(p) PROVE AsyncInv'
  <2>1. UNCHANGED <<row, todo, effects, abandoned>> /\ proc[p].pc = "verify"
    BY <1>11 DEF PostVerify
  <2>2. PICK pc \in {"commit", "fail"} : GoTo(p, pc) /\ (pc = "commit" => effects[Key(p)] > 0)
    BY <1>11 DEF PostVerify, Present
  <2>3. pc \in Steps \ (Away \union {"bump"})
    BY StepNames DEF Away
  <2>4. /\ MarkInv' /\ EpochInv'
        /\ \A q \in Procs : q # p => proc'[q] = proc[q]
        /\ proc'[p] = [proc[p] EXCEPT !.pc = pc]
        /\ \A q \in Procs : Key(q)' = Key(q)
    BY <1>n, <1>u, <2>1, <2>2, <2>3, GoingOn, RowKeptUnchanged DEF Away, Marked
  <2>5. OnceInv'
    BY <1>t, <2>1, <2>2, <2>4 DEF AsyncInv, OnceInv, ProcType, ProcRecord
  <2>6. CommitInv'
    BY <1>t, <2>1, <2>2, <2>4 DEF AsyncInv, CommitInv, ProcType, ProcRecord
  <2>. QED BY <2>4, <2>5, <2>6 DEF AsyncInv
<1>12. ASSUME NEW p \in Procs, Probe(p) PROVE AsyncInv'
  <2>1. /\ UNCHANGED <<row, todo, effects, abandoned>> /\ proc[p].pc = "probe"
        /\ proc[p].from = "executing" /\ Marked(Key(p))
    BY <1>12 DEF Probe, AsyncInv, MarkInv
  <2>2. PICK pc \in {"commit", "abort", "recheck"} :
          /\ GoTo(p, pc)
          /\ pc = "commit" => effects[Key(p)] > 0
          /\ pc = "recheck" => "retry" \in OnAbsent
    BY <1>12, ConstantsAssumption DEF Probe, Present, EffectFreeRecovery
  <2>3. pc \in Steps \ (Away \union {"bump"})
    BY StepNames DEF Away
  <2>4. /\ MarkInv' /\ EpochInv'
        /\ \A q \in Procs : q # p => proc'[q] = proc[q]
        /\ proc'[p] = [proc[p] EXCEPT !.pc = pc]
        /\ \A q \in Procs : Key(q)' = Key(q)
    BY <1>u, <2>1, <2>2, <2>3, GoingOn, RowKeptUnchanged DEF Away, Marked
  <2>5. OnceInv'
    BY <1>t, <2>1, <2>2, <2>4 DEF AsyncInv, OnceInv, ProcType, ProcRecord
  <2>6. CommitInv'
    BY <1>t, <2>1, <2>2, <2>4 DEF AsyncInv, CommitInv, ProcType, ProcRecord
  <2>. QED BY <2>4, <2>5, <2>6 DEF AsyncInv
<1>13. ASSUME NEW p \in Procs, Recheck(p) PROVE AsyncInv'
  <2>1. UNCHANGED <<row, todo, effects, abandoned>> /\ proc[p].pc = "recheck"
    BY <1>13 DEF Recheck
  <2>2. PICK pc \in {"mark", "exec", "unknown", "abort"} :
          /\ GoTo(p, pc)
          /\ pc = "exec" => proc[p].from # "pending"
          /\ pc = "unknown" => proc[p].from = "executing"
    BY <1>13 DEF Recheck
  <2>3. pc \in Steps \ (Away \union {"bump"})
    BY StepNames DEF Away
  <2>4. pc = "exec" => Marked(Key(p))
    BY <1>t, <2>1, <2>2 DEF AsyncInv, MarkInv, ProcType, ProcRecord, Snapshots, InFlight
  <2>5. /\ MarkInv' /\ EpochInv'
        /\ \A q \in Procs : q # p => proc'[q] = proc[q]
        /\ proc'[p] = [proc[p] EXCEPT !.pc = pc]
        /\ \A q \in Procs : Key(q)' = Key(q)
    BY <1>u, <2>1, <2>2, <2>3, <2>4, GoingOn, RowKeptUnchanged
       DEF Away, Marked, AsyncInv, MarkInv
  <2>6. OnceInv'
    BY <1>t, <2>1, <2>2, <2>5 DEF AsyncInv, OnceInv, ProcType, ProcRecord
  <2>7. CommitInv'
    BY <1>t, <2>1, <2>2, <2>5 DEF AsyncInv, CommitInv, ProcType, ProcRecord
  <2>. QED BY <2>5, <2>6, <2>7 DEF AsyncInv
<1>14. ASSUME NEW p \in Procs, OwnerMark(p) \/ RecoveryMark(p) PROVE AsyncInv'
  <2>1. UNCHANGED <<todo, effects, abandoned>> /\ proc[p].pc = "mark" /\ Key(p) \in Keys
    BY <1>14, <1>k DEF OwnerMark, RecoveryMark
  <2>2. CASE MarkExecuting(Key(p), Epoch(p)) /\ GoTo(p, "exec")
    BY <2>1, <2>2, Marking
  <2>3. CASE UNCHANGED ledgerVars /\ (Become(p, Elsewhere(p)) \/ Become(p, Awaiting(Key(p))))
    <3>1. LetsGo(p)
      BY <1>t, <2>1, <2>3, Departs
    <3>. QED BY <1>m, <2>1, <2>3, <3>1, LettingGo, RowKeptUnchanged DEF LeavesOneCall, ledgerVars
  <2>. QED BY <1>14, <2>2, <2>3 DEF OwnerMark, RecoveryMark
<1>15. ASSUME NEW p \in Procs, EffectLands(p) PROVE AsyncInv'
  <2>1. /\ UNCHANGED <<row, todo, abandoned>> /\ proc[p].pc = "exec"
        /\ Key(p) \in Keys /\ Marked(Key(p))
    BY <1>15, <1>k, <1>n DEF EffectLands
  <2>2. GoTo(p, "ran")
    BY <1>15 DEF EffectLands
  <2>3. \A j \in Keys :
          /\ j # Key(p) => effects'[j] = effects[j]
          /\ effects[j] > 0 => effects'[j] > 0
          /\ j = Key(p) => effects'[j] > 0
          /\ j = Key(p) /\ j \notin KeyParam => effects'[j] = effects[j] + 1
    BY <1>15, <2>1 DEF EffectLands, LandOn, TypeOK
  <2>4. "ran" \in Steps \ (Away \union {"bump"})
    BY StepNames DEF Away
  <2>5. \A j \in Keys : ~Marked(j)' => effects'[j] = 0
    BY <1>u, <2>1, <2>3 DEF Marked
  <2>6. /\ MarkInv' /\ EpochInv'
        /\ \A q \in Procs : q # p => proc'[q] = proc[q]
        /\ proc'[p] = [proc[p] EXCEPT !.pc = "ran"]
        /\ \A q \in Procs : Key(q)' = Key(q)
    BY <2>1, <2>2, <2>4, <2>5, GoingOn, RowKeptUnchanged DEF Away, Marked
  <2>7. proc'[p].pc = "ran"
    BY <1>t, <2>6 DEF ProcType, ProcRecord
  <2>8. OnceInv'
    <3>1. ASSUME NEW k \in NeverReexecuted PROVE effects'[k] + abandoned'[k] <= 1
      <4>1. k \in Keys \ KeyParam
        BY DEF NeverReexecuted
      <4>2. k = Key(p) => effects[k] = 0 /\ abandoned[k] = 0
        BY <2>1 DEF AsyncInv, OnceInv
      <4>3. effects[k] + abandoned[k] <= 1
        BY DEF AsyncInv, OnceInv
      <4>4. abandoned'[k] = abandoned[k] /\ effects[k] \in Nat /\ abandoned[k] \in Nat
        BY <2>1, <4>1 DEF TypeOK
      <4>5. CASE k = Key(p)
        BY <2>3, <4>1, <4>2, <4>4, <4>5
      <4>6. CASE k # Key(p)
        BY <2>3, <4>1, <4>3, <4>4, <4>6
      <4>. QED BY <4>5, <4>6
    <3>2. ASSUME NEW k \in NeverReexecuted, NEW q \in Procs, Key(q)' = k
          PROVE  /\ proc'[q].pc = "exec" => effects'[k] = 0 /\ abandoned'[k] = 0
                 /\ proc'[q].pc = "probe" => "retry" \notin OnAbsent
                 /\ proc'[q].pc = "recheck" => proc'[q].from = "pending"
      <4>1. k \in Keys
        BY DEF NeverReexecuted
      <4>2. Key(q) = k
        BY <2>6, <3>2
      <4>3. CASE q = p
        BY <2>7, <4>3
      <4>4. CASE q # p
        <5>1. proc'[q] = proc[q]
          BY <2>6, <4>4
        <5>2. proc[q].pc = "exec" => k # Key(p)
          BY <2>1, <4>2, <4>4 DEF AsyncInv, OnceInv
        <5>3. /\ proc[q].pc = "exec" => effects[k] = 0 /\ abandoned[k] = 0
              /\ proc[q].pc = "probe" => "retry" \notin OnAbsent
              /\ proc[q].pc = "recheck" => proc[q].from = "pending"
          BY <4>2 DEF AsyncInv, OnceInv
        <5>. QED BY <2>1, <2>3, <4>1, <5>1, <5>2, <5>3
      <4>. QED BY <4>3, <4>4
    <3>3. ASSUME NEW k \in NeverReexecuted, NEW q \in Procs, NEW r \in Procs,
                 Key(q)' = k, proc'[q].pc = "exec", Key(r)' = k, proc'[r].pc = "exec"
          PROVE  q = r
      <4>1. q # p /\ r # p
        BY <2>7, <3>3
      <4>2. /\ Key(q) = k /\ proc[q].pc = "exec"
            /\ Key(r) = k /\ proc[r].pc = "exec"
        BY <2>6, <3>3, <4>1
      <4>. QED BY <4>2 DEF AsyncInv, OnceInv
    <3>. QED BY <3>1, <3>2, <3>3 DEF OnceInv
  <2>9. CommitInv'
    BY <1>k, <2>1, <2>3, <2>6, <2>7 DEF AsyncInv, CommitInv
  <2>. QED BY <2>6, <2>8, <2>9 DEF AsyncInv
<1>16. ASSUME NEW p \in Procs, NEW k \in Keys, TakeRow(p, k) PROVE AsyncInv'
  <2>1. todo[p][k] \in InFlight /\ (todo[p][k] = "executing" => Marked(k))
    BY <1>16, <1>m DEF TakeRow, TypeOK, Snapshots
  <2>2. \A q \in Procs, j \in Keys : todo'[q][j] = "executing" => Marked(j)
    BY <1>16, <1>m DEF TakeRow, Strike, TypeOK
  <2>. QED BY <1>16, <2>1, <2>2, TakingUp DEF TakeRow
<1>17. ASSUME NEW p \in Procs, ReconcileInline(p) PROVE AsyncInv'
  <2>1. Key(p) \in Keys /\ row[Key(p)].state \in InFlight
    BY <1>17, <1>k DEF ReconcileInline, IsInFlight
  <2>2. row[Key(p)].state = "executing" => Marked(Key(p))
    BY DEF Marked
  <2>. QED BY <1>17, <1>m, <2>1, <2>2, TakingUp DEF ReconcileInline
<1>18. ASSUME NEW p \in Procs, NEW k \in Keys, ClaimWon(p, k) PROVE AsyncInv'
  <2>1. /\ row[k].state = "none" /\ UNCHANGED <<todo, effects, abandoned>>
        /\ row' = [row EXCEPT ![k] = [state |-> "pending", attempts |-> 1, stale |-> FALSE]]
    BY <1>18 DEF ClaimWon, InsertClaim, Unclaimed
  <2>2. /\ \A q \in Procs : q # p => proc'[q] = proc[q]
        /\ proc'[p].pc = "precond" /\ proc'[p].key = k
        /\ proc'[p].epoch = 1 /\ proc'[p].from = "none"
    BY <1>18, <1>t DEF ClaimWon, Become, At, ProcType
  <2>3. /\ row'[k].state = "pending" /\ row'[k].attempts = 1
        /\ \A j \in Keys : j # k => row'[j] = row[j]
    BY <1>t, <2>1 DEF LedgerType
  <2>4. ~Marked(k) /\ \A j \in Keys : Marked(j)' <=> Marked(j)
    BY <2>1, <2>3 DEF Marked
  <2>5. \A q \in Procs : q # p => Key(q)' = Key(q) /\ Epoch(q)' = Epoch(q)
    BY <2>2 DEF Key, Epoch
  <2>6. MarkInv'
    <3>1. ASSUME NEW q \in Procs, q # p
          PROVE  /\ proc'[q].pc \in {"exec", "ran", "verify", "commit", "fail"}
                      => Marked(Key(q))'
                 /\ proc'[q].from = "executing" => Marked(Key(q))'
      <4>1. Key(q) \in Keys \/ proc[q].pc \in {"idle", "sweep"}
        BY <1>k
      <4>2. /\ proc[q].pc \in {"exec", "ran", "verify", "commit", "fail"} => Marked(Key(q))
            /\ proc[q].from = "executing" => Marked(Key(q))
            /\ proc[q].pc \in {"idle", "sweep"} => proc[q].from = "none"
        BY DEF AsyncInv, MarkInv
      <4>. QED BY <2>2, <2>3, <2>4, <2>5, <3>1, <4>1, <4>2 DEF Marked
    <3>. QED BY <2>1, <2>2, <2>4, <3>1 DEF AsyncInv, MarkInv
  <2>7. EpochInv'
    <3>1. row[k].attempts = 0
      BY <2>1 DEF AsyncInv, EpochInv
    <3>2. \A q \in Procs : Epoch(q) > 0 => Key(q) # k
      BY <1>t, <3>1 DEF AsyncInv, EpochInv, ProcType, ProcRecord, Epoch
    <3>. QED BY <2>2, <2>3, <2>5, <3>2 DEF AsyncInv, EpochInv, OneHolderPerEpoch, Key, Epoch
  <2>8. OnceInv'
    BY <2>1, <2>2, <2>5 DEF AsyncInv, OnceInv
  <2>9. CommitInv'
    BY <2>1, <2>2, <2>5 DEF AsyncInv, CommitInv
  <2>. QED BY <2>6, <2>7, <2>8, <2>9 DEF AsyncInv
<1>19. ASSUME NEW p \in Procs, Bump(p) PROVE AsyncInv'
  <2>1. Key(p) \in Keys /\ proc[p].pc = "bump" /\ UNCHANGED <<todo, effects, abandoned>>
    BY <1>19, <1>k DEF Bump
  <2>2. CASE ~BumpMatches(Key(p)) /\ Become(p, Elsewhere(p)) /\ UNCHANGED ledgerVars
    <3>1. LetsGo(p)
      BY <1>t, <2>2, Departs
    <3>. QED BY <1>m, <2>1, <2>2, <3>1, LettingGo, RowKeptUnchanged DEF LeavesOneCall, ledgerVars
  <2>3. ASSUME BumpEpoch(Key(p)), NEW pc \in RecoveryTable(Key(p), proc[p].from),
               Become(p, At(pc, proc[p].role, Key(p), row[Key(p)].attempts + 1, proc[p].from))
        PROVE  AsyncInv'
    <3> DEFINE k == Key(p)
    <3>1. /\ row[k].attempts \in Nat
          /\ row'[k].attempts = row[k].attempts + 1 /\ row'[k].state = row[k].state
          /\ \A j \in Keys : j # k => row'[j] = row[j]
          /\ row[k].state \in InFlight
      BY <1>t, <2>1, <2>3 DEF BumpEpoch, BumpMatches, IsInFlight, LedgerType
    <3>2. /\ \A q \in Procs : q # p => proc'[q] = proc[q]
          /\ proc'[p].pc = pc /\ proc'[p].key = k
          /\ proc'[p].epoch = row[k].attempts + 1 /\ proc'[p].from = proc[p].from
      BY <1>t, <2>3 DEF Become, At, ProcType
    <3>3. /\ proc[p].from # "none"
          /\ proc[p].from = "executing" => Marked(k)
      BY <2>1 DEF AsyncInv, MarkInv
    <3>4. /\ pc \in {"abort", "recheck", "probe", "unknown"}
          /\ pc \in {"probe", "unknown"} => proc[p].from = "executing"
          /\ pc = "probe" => Guarantee(k) = "verifiable"
          /\ pc = "recheck" => proc[p].from = "pending" \/ Guarantee(k) = "downstream_idempotent"
      BY <1>t, <2>3, <3>3 DEF RecoveryTable, EffectFreeRecovery, ProcType, ProcRecord,
         Snapshots, InFlight
    <3>5. \A j \in Keys : Marked(j)' <=> Marked(j)
      BY <3>1 DEF Marked
    <3>6. \A q \in Procs : q # p => Key(q)' = Key(q) /\ Epoch(q)' = Epoch(q)
      BY <3>2 DEF Key, Epoch
    <3>7. MarkInv'
      <4>1. ASSUME NEW q \in Procs, q # p
            PROVE  /\ proc'[q].pc \in {"exec", "ran", "verify", "commit", "fail"}
                        => Marked(Key(q))'
                   /\ proc'[q].from = "executing" => Marked(Key(q))'
        <5>1. Key(q) \in Keys \/ proc[q].pc \in {"idle", "sweep"}
          BY <1>k
        <5>2. /\ proc[q].pc \in {"exec", "ran", "verify", "commit", "fail"} => Marked(Key(q))
              /\ proc[q].from = "executing" => Marked(Key(q))
              /\ proc[q].pc \in {"idle", "sweep"} => proc[q].from = "none"
          BY DEF AsyncInv, MarkInv
        <5>. QED BY <3>1, <3>2, <3>6, <4>1, <5>1, <5>2 DEF Marked
      <4>2. proc'[p].from = "executing" => Marked(Key(p))'
        BY <2>1, <3>1, <3>2, <3>3 DEF Key, Marked
      <4>3. \A j \in Keys : ~Marked(j)' => effects'[j] = 0 /\ abandoned'[j] = 0
        BY <1>u, <2>1, <3>5
      <4>4. \A q \in Procs, j \in Keys : todo'[q][j] = "executing" => Marked(j)'
        BY <1>m, <2>1, <3>5
      <4>. QED BY <3>2, <3>3, <3>4, <4>1, <4>2, <4>3, <4>4 DEF AsyncInv, MarkInv
    <3>8. EpochInv'
      <4>1. row[k].attempts > 0
        BY <2>1, <3>1 DEF AsyncInv, EpochInv, InFlight
      <4>2. \A q \in Procs : Key(q) = k /\ Epoch(q) > 0 => Epoch(q) <= row[k].attempts
        BY DEF AsyncInv, EpochInv
      <4>3. \A j \in Keys : row'[j].attempts = 0 <=> row'[j].state = "none"
        BY <2>1, <3>1, <4>1 DEF AsyncInv, EpochInv, InFlight
      <4>4. ASSUME NEW q \in Procs, Epoch(q)' > 0
            PROVE  Key(q)' \in Keys /\ Epoch(q)' <= row'[Key(q)'].attempts
        <5>1. CASE q = p
          BY <2>1, <3>1, <3>2, <5>1 DEF Key, Epoch
        <5>2. CASE q # p
          <6>1. Key(q) \in Keys /\ Epoch(q) <= row[Key(q)].attempts /\ Epoch(q) \in Nat
            BY <1>t, <3>6, <4>4, <5>2 DEF AsyncInv, EpochInv, ProcType, ProcRecord, Epoch
          <6>. QED BY <3>1, <3>6, <5>2, <6>1
        <5>. QED BY <5>1, <5>2
      <4>5. \A q \in Procs : proc'[q].pc \in {"idle", "sweep", "await", "bump"} <=> Epoch(q)' = 0
        BY <3>1, <3>2, <3>4, <3>6 DEF AsyncInv, EpochInv, Epoch
      <4>6. OneHolderPerEpoch'
        <5>1. ASSUME NEW q \in Procs, q # p, Key(q)' = k, Epoch(q)' > 0
              PROVE  Epoch(q)' # row[k].attempts + 1
          BY <1>t, <3>1, <3>6, <4>2, <5>1 DEF Epoch, ProcType, ProcRecord
        <5>2. Key(p)' = k /\ Epoch(p)' = row[k].attempts + 1
          BY <3>2 DEF Key, Epoch
        <5>. QED BY <3>6, <5>1, <5>2 DEF AsyncInv, EpochInv, OneHolderPerEpoch
      <4>. QED BY <4>3, <4>4, <4>5, <4>6 DEF EpochInv
    <3>9. OnceInv'
      <4>1. k \in NeverReexecuted =>
              /\ pc = "probe" => "retry" \notin OnAbsent
              /\ pc = "recheck" => proc[p].from = "pending"
        BY <3>4 DEF NeverReexecuted, Guarantee
      <4>2. Key(p)' = k
        BY <3>2 DEF Key
      <4>. QED BY <2>1, <3>2, <3>4, <3>6, <4>1, <4>2 DEF AsyncInv, OnceInv
    <3>10. CommitInv'
      BY <2>1, <3>2, <3>4, <3>6 DEF AsyncInv, CommitInv
    <3>. QED BY <3>7, <3>8, <3>9, <3>10 DEF AsyncInv
  <2>. QED BY <1>19, <2>2, <2>3 DEF Bump
<1>. QED
  BY <1>0, <1>1, <1>2, <1>3, <1>4, <1>5, <1>6, <1>7, <1>8, <1>9, <1>10, <1>11, <1>12,
     <1>13, <1>14, <1>15, <1>16, <1>17, <1>18, <1>19, NextActions

\* The inductive invariant holds throughout, whatever the timing: the marker is
\* durable before the effect, epochs are unique, unretried effects happen once.
THEOREM AsyncInvariant == Spec => []AsyncInv
<1>1. Init => AsyncInv
  BY DEF Init, LedgerInit, NoRow, Idle, At, NothingToDo, AsyncInv, MarkInv, EpochInv,
         OneHolderPerEpoch, OnceInv, CommitInv, Marked, Key, Epoch, NeverReexecuted
<1>2. TypeOK /\ AsyncInv /\ [Next]_vars => AsyncInv'
  BY AsyncStep
<1>. QED BY <1>1, <1>2, TypeCorrect, PTL DEF Spec

-----------------------------------------------------------------------------
(* What a step does to a row, its audit trail and its reported outcomes.   *)

Claimed(k) ==
    row[k].state = "none" /\ row'[k] = [state |-> "pending", attempts |-> 1, stale |-> FALSE]

MarkedBy(p, k) ==
    /\ Holds(p, k) /\ proc[p].pc = "mark" /\ proc'[p] # proc[p]
    /\ row[k].state = "pending" /\ row'[k].state = "executing"
    /\ row'[k].attempts = row[k].attempts

ResolvedBy(p, k) ==
    /\ Holds(p, k) /\ Finalizing(p) /\ proc'[p] # proc[p]
    /\ row[k].state \in FinalizeFrom(Target(proc[p].pc))
    /\ row'[k].state = Target(proc[p].pc)
    /\ row'[k].attempts = row[k].attempts
    /\ audit'[k] = audit[k] \o
          IF IsOwner(p) THEN OwnersEvents(p, k, row'[k].state) ELSE RecoverersEvents(row'[k].state)

TakenOver(k) ==
    /\ IsInFlight(k) /\ row'[k].state = row[k].state
    /\ row'[k].attempts \in {row[k].attempts, row[k].attempts + 1}

RowStep(k) ==
    \/ UNCHANGED <<row[k], audit[k]>>
    \/ UNCHANGED audit[k] /\ (Claimed(k) \/ TakenOver(k) \/ \E p \in Procs : MarkedBy(p, k))
    \/ \E p \in Procs : ResolvedBy(p, k)

\* What the steps of the protocol can do to one row and its audit events.
LEMMA RowSteps ==
    ASSUME TypeOK, [Next]_vars, NEW k \in Keys PROVE RowStep(k)
<1>t. LedgerType /\ ProcType
  BY DEF TypeOK
<1>0. CASE UNCHANGED <<row, audit>>
  BY <1>0 DEF RowStep
<1>1. ASSUME NEW p \in Procs, NEW j \in Keys, ClaimWon(p, j) PROVE RowStep(k)
  BY <1>1, <1>t DEF ClaimWon, InsertClaim, Unclaimed, Claimed, RowStep, LedgerType
<1>2. ASSUME NEW p \in Procs, OwnerMark(p) \/ RecoveryMark(p), ~UNCHANGED <<row, audit>>
      PROVE  RowStep(k)
  <2>1. MarkExecuting(Key(p), Epoch(p)) /\ GoTo(p, "exec") /\ proc[p].pc = "mark"
    BY <1>2 DEF OwnerMark, RecoveryMark, ledgerVars
  <2>2. proc'[p].pc = "exec"
    BY <1>t, <2>1 DEF GoTo, ProcType, ProcRecord
  <2>3. Key(p) \in Keys
    BY <1>t, <2>1 DEF ProcType, Key
  <2>. QED BY <1>t, <2>1, <2>2, <2>3
       DEF MarkExecuting, MarkMatches, MarkedBy, Holds, RowStep, LedgerType
<1>3. ASSUME NEW p \in Procs, OwnerFinalize(p) \/ RecoveryFinalize(p), ~UNCHANGED <<row, audit>>
      PROVE  RowStep(k)
  <2>. DEFINE st == Target(proc[p].pc)
  <2>1. /\ Finalizing(p)
        /\ Finalize(Key(p), Epoch(p), st,
                    IF IsOwner(p) THEN OwnersEvents(p, Key(p), st) ELSE RecoverersEvents(st))
    BY <1>3 DEF OwnerFinalize, RecoveryFinalize, ledgerVars, IsOwner, IsRecoverer
  <2>2. LetsGo(p)
    BY <1>3, <1>t, <2>1, Departs DEF OwnerFinalize, RecoveryFinalize
  <2>3. proc'[p] # proc[p]
    BY <2>1, <2>2 DEF LetsGo, Away, Finalizing
  <2>4. Key(p) \in Keys
    BY <1>t, <2>1 DEF ProcType, Key, Finalizing
  <2>. QED BY <1>t, <2>1, <2>3, <2>4
       DEF Finalize, FinalizeMatches, ResolvedBy, Holds, RowStep, LedgerType
<1>4. ASSUME NEW p \in Procs, Bump(p), ~UNCHANGED <<row, audit>> PROVE RowStep(k)
  <2>1. BumpEpoch(Key(p)) /\ Key(p) \in Keys
    BY <1>4, <1>t DEF Bump, ledgerVars, ProcType, Key
  <2>. QED BY <1>t, <2>1 DEF BumpEpoch, BumpMatches, TakenOver, RowStep, LedgerType
<1>5. ASSUME NEW j \in Keys, Expire(j) PROVE RowStep(k)
  BY <1>5, <1>t DEF Expire, GrowStale, TakenOver, RowStep, LedgerType
<1>. QED
  BY <1>0, <1>1, <1>2, <1>3, <1>4, <1>5, NextActions
     DEF vars, ClaimLost, TakeRow, SkipUnregistered, Scan, Preconditions, EffectLands,
         ExecuteReturns, PostVerify, ReturnRecorded, ReconcileInline, GiveUp, SweepDone,
         Probe, Recheck, PreconditionsRaise, OwnerExecuteFails, RecoveryExecuteFails,
         PostVerifyUnknown, ProbeUnknown, Crash, AbandonedLands, AbandonedEnds

-----------------------------------------------------------------------------
(* The properties.                                                         *)

\* A pending row never started its effect (commit.py, step 3 before step 4;
\* reconcile.py recovers pending rows on the strength of it).
THEOREM PendingIsUntouched == Spec => []PendingNeverStarted
<1>1. TypeOK /\ AsyncInv => PendingNeverStarted
  BY DEF PendingNeverStarted, AsyncInv, MarkInv, Marked, Executing
<1>. QED BY <1>1, TypeCorrect, AsyncInvariant, PTL

\* An effect recovery never re-executes lands at most once, with no
\* assumption on how slow any process is.
THEOREM UnretriedAtMostOnce == Spec => []AtMostOnceUnretried
<1>1. TypeOK /\ AsyncInv => AtMostOnceUnretried
  <2> SUFFICES ASSUME TypeOK, AsyncInv, NEW k \in NeverReexecuted PROVE effects[k] <= 1
    BY DEF AtMostOnceUnretried
  <2>1. effects[k] \in Nat /\ abandoned[k] \in Nat
    BY DEF TypeOK, NeverReexecuted
  <2>2. effects[k] + abandoned[k] <= 1
    BY DEF AsyncInv, OnceInv
  <2>. QED BY <2>1, <2>2
<1>. QED BY <1>1, TypeCorrect, AsyncInvariant, PTL

\* The epoch is a fencing token: one process per row and epoch.
THEOREM EpochsAreUnique == Spec => []OneHolderPerEpoch
<1>1. AsyncInv => OneHolderPerEpoch
  BY DEF AsyncInv, EpochInv
<1>. QED BY <1>1, AsyncInvariant, PTL

\* Resolved rows are frozen, epochs never fall, no state is revisited
\* (the WHERE clauses of mark_executing, bump_epoch and finalize).
THEOREM RowsOnlyAdvance == Spec => LedgerLifecycle
<1>1. TypeOK /\ AsyncInv /\ [Next]_vars => [\A k \in Keys : RowLifecycle(k)]_vars
  <2> SUFFICES ASSUME TypeOK, AsyncInv, [Next]_vars, NEW k \in Keys PROVE RowLifecycle(k)
    OBVIOUS
  <2>1. RowStep(k)
    BY RowSteps
  <2>2. row[k].attempts \in Nat /\ (row[k].state = "none" => row[k].attempts = 0)
    BY DEF TypeOK, LedgerType, AsyncInv, EpochInv
  <2>3. ASSUME NEW p \in Procs, ResolvedBy(p, k) PROVE RowLifecycle(k)
    <3>1. row[k].state \in InFlight /\ row'[k].state \in Terminal
      BY <2>3, TargetTerminal DEF ResolvedBy, FinalizeFrom, InFlight
    <3>. QED BY <2>2, <2>3, <3>1 DEF ResolvedBy, RowLifecycle, Terminal, InFlight
  <2>. QED BY <2>1, <2>2, <2>3 DEF RowStep, Claimed, MarkedBy, TakenOver, RowLifecycle,
          IsInFlight, InFlight, Terminal
<1>. QED BY <1>1, TypeCorrect, AsyncInvariant, PTL DEF Spec, LedgerLifecycle

\* A claimed row changes state only at the hand of the process holding its
\* current epoch: a fenced process cannot move it.
THEOREM FencedOut == Spec => FenceHolds
<1>1. TypeOK /\ [Next]_vars => [\A k \in Keys : MovedByHolder(k)]_vars
  <2> SUFFICES ASSUME TypeOK, [Next]_vars, NEW k \in Keys PROVE MovedByHolder(k)
    OBVIOUS
  <2>1. RowStep(k)
    BY RowSteps
  <2>. QED BY <2>1 DEF RowStep, Claimed, MarkedBy, TakenOver, ResolvedBy, MovedByHolder,
          IsInFlight, InFlight
<1>. QED BY <1>1, TypeCorrect, PTL DEF Spec, FenceHolds

\* Who claimed a row works under epoch 1, who took it over under a later one.
RoleInv ==
    \A p \in Procs :
        /\ Epoch(p) > 0 /\ IsOwner(p) => Epoch(p) = 1 /\ p \in Callers
        /\ Epoch(p) > 0 /\ ~IsOwner(p) => Epoch(p) > 1
        /\ proc[p].pc = "bump" => IsRecoverer(p)

LEMMA RoleStep ==
    ASSUME TypeOK, AsyncInv, RoleInv, [Next]_vars PROVE RoleInv'
<1>t. ProcType
  BY DEF TypeOK
<1>1. ASSUME NEW p \in Procs, \A q \in Procs \ {p} : proc'[q] = proc[q],
             \/ proc'[p].epoch = 0 /\ (proc'[p].pc = "bump" => proc'[p].role \in {"inline", "sweep"})
             \/ proc'[p].epoch = 1 /\ proc'[p].role = "owner" /\ p \in Callers /\ proc'[p].pc # "bump"
             \/ proc'[p].epoch > 1 /\ proc'[p].role # "owner" /\ proc'[p].pc # "bump"
             \/ proc'[p].epoch = proc[p].epoch /\ proc'[p].role = proc[p].role /\ proc'[p].pc # "bump"
      PROVE  RoleInv'
  BY <1>1 DEF RoleInv, Epoch, IsOwner, IsRecoverer
<1>2. ASSUME NEW p \in Procs, LetsGo(p) PROVE RoleInv'
  BY <1>1, <1>2 DEF LetsGo, Away
<1>3. ASSUME NEW p \in Procs, NEW pc, pc # "bump", GoTo(p, pc) PROVE RoleInv'
  <2>1. /\ \A q \in Procs \ {p} : proc'[q] = proc[q]
        /\ proc'[p] = [proc[p] EXCEPT !.pc = pc] /\ proc[p] \in ProcRecord
    BY <1>t, <1>3 DEF GoTo, ProcType
  <2>2. proc'[p].pc = pc /\ proc'[p].role = proc[p].role /\ proc'[p].epoch = proc[p].epoch
    BY <2>1 DEF ProcRecord
  <2>. QED BY <1>1, <1>3, <2>1, <2>2
<1>4. ASSUME NEW p \in Procs, NEW pc, NEW role, NEW k, NEW e, NEW from,
             Become(p, At(pc, role, k, e, from))
      PROVE  /\ \A q \in Procs \ {p} : proc'[q] = proc[q]
             /\ proc'[p].pc = pc /\ proc'[p].role = role /\ proc'[p].epoch = e
  BY <1>t, <1>4 DEF Become, At, ProcType
<1>5. ASSUME NEW p \in Procs, NEW k \in Keys, p \in Callers, ClaimWon(p, k) PROVE RoleInv'
  BY <1>1, <1>4, <1>5 DEF ClaimWon
<1>6. ASSUME NEW p \in Procs, Scan(p) PROVE RoleInv'
  BY <1>1, <1>4, <1>6 DEF Scan, Sweeping
<1>7. ASSUME NEW p \in Procs, ReconcileInline(p) \/ \E k \in Keys : TakeRow(p, k) PROVE RoleInv'
  <2>1. PICK role, k, from : role \in {"inline", "sweep"} /\ Become(p, At("bump", role, k, 0, from))
    BY <1>7 DEF ReconcileInline, TakeRow
  <2>. QED BY <1>1, <1>4, <2>1
<1>8. ASSUME NEW p \in Procs, Bump(p), ~Become(p, Elsewhere(p)) PROVE RoleInv'
  <2>1. PICK step \in RecoveryTable(Key(p), proc[p].from) :
          Become(p, At(step, proc[p].role, Key(p), row[Key(p)].attempts + 1, proc[p].from))
    BY <1>8 DEF Bump
  <2>2. step # "bump"
    BY RecoveryTableSteps
  <2>3. proc[p].role # "owner"
    BY <1>8 DEF Bump, RoleInv, IsRecoverer
  <2>4. row[Key(p)].attempts + 1 > 1
    <3>1. Key(p) \in Keys /\ IsInFlight(Key(p))
      BY <1>8, <1>t DEF Bump, BumpEpoch, BumpMatches, ProcType, Key
    <3>2. row[Key(p)].attempts \in Nat /\ row[Key(p)].attempts # 0
      BY <3>1 DEF TypeOK, LedgerType, AsyncInv, EpochInv, IsInFlight, InFlight
    <3>. QED BY <3>2
  <2>. QED BY <1>1, <1>4, <2>1, <2>2, <2>3, <2>4
<1>9. ASSUME NEW p \in Procs, Become(p, Idle) \/ Become(p, Elsewhere(p))
                                \/ \E k \in Keys : Become(p, Awaiting(k))
      PROVE  RoleInv'
  BY <1>2, <1>9, <1>t, Departs
<1>10. CASE UNCHANGED proc
  BY <1>10 DEF RoleInv, Epoch, IsOwner, IsRecoverer
<1>11. ASSUME NEW p \in Procs,
              \/ Preconditions(p) \/ OwnerMark(p) \/ RecoveryMark(p) \/ EffectLands(p)
              \/ ExecuteReturns(p) \/ PostVerify(p) \/ Probe(p) \/ Recheck(p)
       PROVE  RoleInv'
  <2>1. Key(p) \in Keys
    BY <1>11, <1>t DEF ProcType, Key, Preconditions, OwnerMark, RecoveryMark, EffectLands,
       ExecuteReturns, PostVerify, Probe, Recheck
  <2>2. \/ \E pc : pc # "bump" /\ GoTo(p, pc)
        \/ Become(p, Awaiting(Key(p))) \/ Become(p, Elsewhere(p))
    BY <1>11 DEF Preconditions, OwnerMark, RecoveryMark, EffectLands, ExecuteReturns, PostVerify,
       Probe, Recheck, EffectFreeRecovery
  <2>. QED BY <1>3, <1>9, <2>1, <2>2
<1>12. ASSUME NEW p \in Procs,
              \/ \E k \in Keys : ClaimLost(p, k) \/ SkipUnregistered(p, k)
              \/ OwnerFinalize(p) \/ RecoveryFinalize(p) \/ ReturnRecorded(p) \/ GiveUp(p)
              \/ SweepDone(p) \/ PreconditionsRaise(p) \/ OwnerExecuteFails(p)
              \/ RecoveryExecuteFails(p) \/ PostVerifyUnknown(p) \/ ProbeUnknown(p) \/ Crash(p)
       PROVE  RoleInv'
  <2>1. OwnerFinalize(p) => Key(p) \in Keys
    BY <1>t DEF ProcType, Key, OwnerFinalize, Finalizing
  <2>2. \/ UNCHANGED proc \/ Become(p, Idle) \/ Become(p, Elsewhere(p))
        \/ \E k \in Keys : Become(p, Awaiting(k))
    BY <1>12, <2>1 DEF ClaimLost, SkipUnregistered, OwnerFinalize, RecoveryFinalize,
       ReturnRecorded, GiveUp, SweepDone, PreconditionsRaise, OwnerExecuteFails,
       RecoveryExecuteFails, PostVerifyUnknown, ProbeUnknown, Crash
  <2>. QED BY <1>9, <1>10, <2>2
<1>13. Environment \/ UNCHANGED vars => UNCHANGED proc
  BY DEF Environment, AbandonedLands, AbandonedEnds, Expire, vars
<1>. QED
  BY <1>5, <1>6, <1>7, <1>8, <1>9, <1>10, <1>11, <1>12, <1>13
     DEF Next, Start, Progress, Fault

\* Each resolved row has the one audit event its resolver owes and no other
\* row has one: a claimant's action_event, or none for a call without an
\* event_context (commit.py:219), a reconciler's own event otherwise.
THEOREM AuditIsExact == Spec => []AuditMatchesLedger
<1>1. Init => AuditMatchesLedger /\ RoleInv
  <2>1. Init => RoleInv
    BY DEF Init, RoleInv, Idle, At, Epoch, IsOwner
  <2>2. ASSUME Init, NEW k \in Keys PROVE ~IsTerminal(k) /\ audit[k] = <<>>
    BY <2>2 DEF Init, LedgerInit, NoRow, IsTerminal, Terminal
  <2>. QED BY <2>1, <2>2 DEF AuditMatchesLedger
<1>2. TypeOK /\ AsyncInv /\ AuditMatchesLedger /\ RoleInv /\ [Next]_vars => AuditMatchesLedger'
  <2> SUFFICES ASSUME TypeOK, AsyncInv, AuditMatchesLedger, RoleInv, [Next]_vars, NEW k \in Keys
               PROVE  (audit[k] \in IF IsTerminal(k) THEN ResolvedEvents(k) ELSE {<<>>})'
    BY DEF AuditMatchesLedger
  <2>1. RowStep(k)
    BY RowSteps
  <2>2. audit[k] \in IF IsTerminal(k) THEN ResolvedEvents(k) ELSE {<<>>}
    BY DEF AuditMatchesLedger
  <2>3. ASSUME NEW p \in Procs, ResolvedBy(p, k)
        PROVE  (audit[k] \in IF IsTerminal(k) THEN ResolvedEvents(k) ELSE {<<>>})'
    <3>1. row[k].state \notin Terminal /\ row'[k].state \in Terminal
      BY <2>3, TargetTerminal DEF ResolvedBy, FinalizeFrom, InFlight, Terminal
    <3>2. audit[k] = <<>>
      BY <2>2, <3>1 DEF IsTerminal
    <3>3. Epoch(p) > 0 /\ Epoch(p) = row'[k].attempts
      <4>1. Epoch(p) \in Nat
        BY DEF TypeOK, ProcType, ProcRecord, Epoch
      <4>2. Epoch(p) # 0
        BY <2>3 DEF ResolvedBy, Finalizing, AsyncInv, EpochInv
      <4>. QED BY <2>3, <4>1, <4>2 DEF ResolvedBy, Holds
    <3>4. CASE IsOwner(p)
      <4>1. OwnersEvents(p, k, row'[k].state) \in Seq(Events)
        BY <3>1, EventsType
      <4>2. audit'[k] = OwnersEvents(p, k, row'[k].state)
        BY <2>3, <3>2, <3>4, <4>1 DEF ResolvedBy
      <4>3. row'[k].attempts = 1 /\ p \in Callers
        BY <3>3, <3>4 DEF RoleInv
      <4>. QED BY <3>1, <4>2, <4>3 DEF IsTerminal, ResolvedEvents
    <3>5. CASE ~IsOwner(p)
      <4>1. RecoverersEvents(row'[k].state) \in Seq(Events)
        BY <3>1, EventsType
      <4>2. audit'[k] = RecoverersEvents(row'[k].state)
        BY <2>3, <3>2, <3>5, <4>1 DEF ResolvedBy
      <4>3. row'[k].attempts > 1
        BY <3>3, <3>5 DEF RoleInv
      <4>. QED BY <3>1, <4>2, <4>3 DEF IsTerminal, ResolvedEvents
    <3>. QED BY <3>4, <3>5
  <2>4. CASE UNCHANGED <<row[k], audit[k]>>
    BY <2>2, <2>4 DEF IsTerminal, ResolvedEvents
  <2>5. CASE UNCHANGED audit[k] /\ (Claimed(k) \/ TakenOver(k) \/ \E p \in Procs : MarkedBy(p, k))
    <3>1. row[k].state \notin Terminal /\ row'[k].state \notin Terminal
      BY <2>5 DEF Claimed, MarkedBy, TakenOver, IsInFlight, InFlight, Terminal
    <3>. QED BY <2>2, <2>5, <3>1 DEF IsTerminal
  <2>. QED BY <2>1, <2>3, <2>4, <2>5 DEF RowStep
<1>3. TypeOK /\ AsyncInv /\ RoleInv /\ [Next]_vars => RoleInv'
  BY RoleStep
<1>. QED BY <1>1, <1>2, <1>3, TypeCorrect, AsyncInvariant, PTL DEF Spec

\* A committed row whose effect was vouched for took effect, whoever
\* committed it (the owner, or a takeover that probed it).
THEOREM CommittedIsTrue == Spec => []CommittedTookEffect
<1>1. Init => CommittedTookEffect
  BY DEF Init, LedgerInit, NoRow, CommittedTookEffect, Vouched
<1>2. TypeOK /\ AsyncInv /\ CommittedTookEffect /\ [Next]_vars => CommittedTookEffect'
  <2> SUFFICES ASSUME TypeOK, AsyncInv, CommittedTookEffect, [Next]_vars,
                      NEW k \in Vouched, row'[k].state = "committed"
               PROVE  effects'[k] > 0
    BY DEF CommittedTookEffect, Vouched
  <2>1. k \in Keys
    BY DEF Vouched
  <2>2. effects[k] > 0 => effects'[k] > 0
    <3>1. ASSUME NEW p \in Procs, EffectLands(p) PROVE effects[k] > 0 => effects'[k] > 0
      BY <2>1, <3>1 DEF EffectLands, LandOn, TypeOK
    <3>2. ASSUME NEW j \in Keys, AbandonedLands(j) PROVE effects[k] > 0 => effects'[k] > 0
      BY <2>1, <3>2 DEF AbandonedLands, LandOn, TypeOK
    <3>3. CASE UNCHANGED effects
      BY <3>3
    <3>. QED
      BY <3>1, <3>2, <3>3, NextActions
         DEF vars, ClaimWon, ClaimLost, TakeRow, SkipUnregistered, Scan, Preconditions,
             ExecuteReturns, PostVerify, OwnerFinalize, RecoveryFinalize, ReturnRecorded,
             ReconcileInline, GiveUp, SweepDone, OwnerMark, RecoveryMark, Bump, Probe,
             Recheck, PreconditionsRaise, OwnerExecuteFails, RecoveryExecuteFails,
             PostVerifyUnknown, ProbeUnknown, Crash, AbandonedEnds, Expire
  <2>3. RowStep(k)
    BY <2>1, RowSteps
  <2>4. ASSUME NEW p \in Procs, ResolvedBy(p, k) PROVE effects[k] > 0
    <3>1. proc[p].pc = "commit" /\ Key(p) = k
      BY <2>4 DEF ResolvedBy, Holds, Target, Finalizing
    <3>. QED BY <3>1 DEF AsyncInv, CommitInv
  <2>. QED BY <2>2, <2>3, <2>4 DEF RowStep, Claimed, MarkedBy, TakenOver, IsInFlight, InFlight,
          CommittedTookEffect
<1>. QED BY <1>1, <1>2, TypeCorrect, AsyncInvariant, PTL DEF Spec

\* Every caller that is given an outcome is given the ledger's.
THEOREM CallersNeverDisagree == Spec => []CallersAgree
<1>1. Init => CallersAgree
  BY DEF Init, CallersAgree
<1>2. TypeOK /\ AsyncInv /\ CallersAgree /\ [Next]_vars => CallersAgree'
  <2> SUFFICES ASSUME TypeOK, AsyncInv, CallersAgree, [Next]_vars, NEW k \in Keys
               PROVE  told'[k] \subseteq {row'[k].state} \intersect Terminal
    BY DEF CallersAgree
  <2>1. told[k] \subseteq {row[k].state} \intersect Terminal
    BY DEF CallersAgree
  <2>2. RowStep(k)
    BY RowSteps
  <2>3. row[k].state \in Terminal => row'[k].state = row[k].state
    <3>1. ASSUME NEW p \in Procs, ResolvedBy(p, k) PROVE row[k].state \notin Terminal
      BY <3>1 DEF ResolvedBy, FinalizeFrom, InFlight, Terminal
    <3>. QED BY <2>2, <3>1 DEF RowStep, Claimed, MarkedBy, TakenOver, IsInFlight, InFlight,
            Terminal
  <2>4. told'[k] \subseteq told[k] \union ({row'[k].state} \intersect Terminal)
    <3>1. ASSUME NEW p \in Procs, NEW j \in Keys, ClaimLost(p, j)
          PROVE  told'[k] \subseteq told[k] \union ({row'[k].state} \intersect Terminal)
      BY <3>1 DEF ClaimLost, Tell, IsTerminal, TypeOK
    <3>2. ASSUME NEW p \in Procs, ReturnRecorded(p)
          PROVE  told'[k] \subseteq told[k] \union ({row'[k].state} \intersect Terminal)
      BY <3>2 DEF ReturnRecorded, Tell, IsTerminal, TypeOK
    <3>3. ASSUME NEW p \in Procs, OwnerFinalize(p)
          PROVE  told'[k] \subseteq told[k] \union ({row'[k].state} \intersect Terminal)
      <4>1. Target(proc[p].pc) \in Terminal
        BY <3>3, TargetTerminal DEF OwnerFinalize
      <4>2. Key(p) \in Keys
        BY <3>3 DEF OwnerFinalize, Finalizing, TypeOK, ProcType, Key
      <4>3. CASE UNCHANGED told
        BY <4>3
      <4>4. CASE ~UNCHANGED told
        <5>1. /\ Tell(Key(p), Target(proc[p].pc))
              /\ \E new : Finalize(Key(p), Epoch(p), Target(proc[p].pc), new)
          BY <3>3, <4>4 DEF OwnerFinalize
        <5>2. row'[Key(p)].state = Target(proc[p].pc)
          BY <4>2, <5>1 DEF Finalize, TypeOK, LedgerType
        <5>3. told' = [told EXCEPT ![Key(p)] = told[Key(p)] \union {Target(proc[p].pc)}]
          BY <5>1 DEF Tell
        <5>. QED BY <4>1, <4>2, <5>2, <5>3 DEF TypeOK
      <4>. QED BY <4>3, <4>4
    <3>4. CASE UNCHANGED told
      BY <3>4
    <3>. QED
      BY <3>1, <3>2, <3>3, <3>4, NextActions
         DEF vars, ClaimWon, TakeRow, SkipUnregistered, Scan, Preconditions, EffectLands,
             ExecuteReturns, PostVerify, ReconcileInline, GiveUp, SweepDone, OwnerMark,
             RecoveryMark, RecoveryFinalize, Bump, Probe, Recheck, PreconditionsRaise,
             OwnerExecuteFails, RecoveryExecuteFails, PostVerifyUnknown, ProbeUnknown,
             Crash, AbandonedLands, AbandonedEnds, Expire
  <2>. QED BY <2>1, <2>3, <2>4
<1>. QED BY <1>1, <1>2, TypeCorrect, AsyncInvariant, PTL DEF Spec
=============================================================================

------------------------ MODULE CommitPromiseProofs ------------------------
(***************************************************************************)
(* What CommitProtocol promises of an effect, for every set of processes   *)
(* and keys and with no assumption on timing: PunctualInv is inductive     *)
(* beside AsyncInv; until the timing of a key slips, its verify-only       *)
(* effect lands once and nothing refused took effect, and after that it    *)
(* still lands at most once an epoch; the protocol implements ExactlyOnce. *)
(***************************************************************************)
EXTENDS CommitSafetyProofs, FiniteSetTheorems

InWindowSteps == {"exec", "ran", "probe", "recheck"}

\* q works on a key whose timing has not slipped.
Calm(q) == Key(q) \in Keys /\ Punctual(Key(q))

\* PunctualInv, one process at a time: what it says of q if q is calm,
Fit(q) ==
    LET k == Key(q)
        pc == proc[q].pc
        holds == Epoch(q) > 0 /\ Epoch(q) = row[k].attempts
    IN  /\ pc = "precond" => IsOwner(q)
        /\ pc = "bump" => IsRecoverer(q)
        /\ holds => row[k].state \in InFlight
        /\ InSpan(q) => holds /\ ~row[k].stale
        /\ pc \in InWindowSteps => InSpan(q)
        /\ /\ holds
           /\ \/ IsOwner(q) /\ pc \in {"precond", "mark", "abort"}
              \/ IsRecoverer(q) /\ proc[q].from = "pending" /\ pc \in {"recheck", "mark", "abort"}
           => row[k].state = "pending"
        /\ \/ pc \in {"exec", "recheck"} /\ k \notin KeyParam
           \/ holds /\ pc \in {"abort", "fail"}
           => effects[k] = 0

\* and of a punctual key k.
Sound(k) ==
    /\ effects[k] <= 1
    /\ row[k].state \in {"aborted", "failed"} => effects[k] = 0

AllFit ==
    /\ \A q \in Procs : Calm(q) => Fit(q)
    /\ \A k \in Keys : Punctual(k) => Sound(k)
    /\ \A k \in Keys \intersect KeyParam : effects[k] <= 1

\* A slip is never taken back.
SlipsStay == \A k \in Keys : Punctual(k)' => Punctual(k)

\* A process in its span is responsible for a row.
LEMMA SpanHolds ==
    ASSUME TypeOK, AsyncInv, NEW q \in Procs
    PROVE  /\ proc[q].pc \in InWindowSteps => Epoch(q) > 0
           /\ InSpan(q) => proc[q].pc \in InWindowSteps
BY DEF AsyncInv, EpochInv, TypeOK, ProcType, ProcRecord, Epoch, InSpan, InWindowSteps

LEMMA FitsPunctualInv ==
    ASSUME TypeOK, AsyncInv PROVE PunctualInv <=> AllFit /\ BudgetInv
<1>0. \A q \in Procs : q \in PunctualProcs <=> Calm(q)
  BY DEF PunctualProcs, Calm
<1>1. ASSUME PunctualInv PROVE AllFit
  <2>1. ASSUME NEW q \in Procs, Calm(q) PROVE Fit(q)
    BY <1>0, <1>1, <2>1, SpanHolds DEF PunctualInv, DutyInv, SpanInv, PendingInv, EffectInv, Fit,
       Holds, IsInFlight, InWindowSteps
  <2>2. \A k \in Keys : Punctual(k) => Sound(k)
    BY <1>1 DEF PunctualInv, EffectInv, RefusedEffectFree, Sound
  <2>3. \A k \in Keys \intersect KeyParam : effects[k] <= 1
    BY <1>1 DEF PunctualInv, EffectInv
  <2>. QED BY <2>1, <2>2, <2>3 DEF AllFit
<1>2. ASSUME AllFit, BudgetInv PROVE PunctualInv
  <2>f. \A q \in PunctualProcs : q \in Procs /\ Fit(q)
    BY <1>0, <1>2 DEF AllFit, PunctualProcs
  <2>1. DutyInv
    BY <2>f DEF Fit, DutyInv, Holds, IsInFlight
  <2>2. SpanInv
    BY <2>f DEF Fit, SpanInv, Holds, IsInFlight, InWindowSteps
  <2>3. PendingInv
    BY <2>f DEF Fit, PendingInv, Holds
  <2>4. EffectInv
    <3>1. \A p \in PunctualProcs :
            /\ \/ proc[p].pc = "exec" /\ Key(p) \notin KeyParam
               \/ proc[p].pc = "recheck" /\ Key(p) \notin KeyParam
               \/ Epoch(p) > 0 /\ proc[p].pc \in {"abort", "fail"} /\ Holds(p, Key(p))
            => effects[Key(p)] = 0
      BY <2>f DEF Fit, Holds
    <3>. QED BY <1>2, <3>1 DEF AllFit, Sound, EffectInv, RefusedEffectFree
  <2>. QED BY <1>2, <2>1, <2>2, <2>3, <2>4 DEF PunctualInv
<1>. QED BY <1>1, <1>2 DEF PunctualInv

\* Two processes never hold one row.
LEMMA Alone ==
    ASSUME AsyncInv, NEW p \in Procs, NEW q \in Procs, Key(p) = Key(q),
           Epoch(p) = Epoch(q), Epoch(p) > 0
    PROVE  p = q
BY DEF AsyncInv, EpochInv, OneHolderPerEpoch

-----------------------------------------------------------------------------
(* Fitness is kept.                                                        *)

\* A process that does not move fits as long as its row and effect stay.
LEMMA StillFits ==
    ASSUME NEW q \in Procs, Calm(q), Fit(q), proc'[q] = proc[q],
           row'[Key(q)] = row[Key(q)], effects'[Key(q)] = effects[Key(q)]
    PROVE  Fit(q)'
BY DEF Fit, Key, Epoch, IsOwner, IsRecoverer, InSpan

\* Whatever happens to its row, a process that does not hold it any more, and
\* is not inside the window, fits.
LEMMA OutsiderFits ==
    ASSUME NEW q \in Procs, Fit(q), proc'[q] = proc[q], proc[q].pc \notin InWindowSteps,
           Epoch(q) > 0 => Epoch(q) # row'[Key(q)].attempts
    PROVE  Fit(q)'
BY DEF Fit, Key, Epoch, IsOwner, IsRecoverer, InSpan, InWindowSteps

\* Who does not move and is calm after the step was calm, and fit, before it.
LEMMA WasFit ==
    ASSUME AllFit, SlipsStay, NEW q \in Procs, proc'[q] = proc[q], Calm(q)'
    PROVE  Calm(q) /\ Fit(q)
BY DEF AllFit, SlipsStay, Calm, Key

-----------------------------------------------------------------------------
(* The kinds of steps.                                                     *)

\* A step that changes neither rows nor effects, but for keys that slipped.
LEMMA QuietStep ==
    ASSUME AllFit, SlipsStay,
           \A q \in Procs : proc'[q] = proc[q] \/ (Calm(q)' => Fit(q)'),
           \A k \in Keys : \/ row'[k] = row[k] /\ effects'[k] = effects[k]
                           \/ ~Punctual(k)' /\ (k \in KeyParam => effects'[k] <= 1)
    PROVE  AllFit'
<1>1. ASSUME NEW q \in Procs, Calm(q)' PROVE Fit(q)'
  <2>1. CASE proc'[q] = proc[q]
    <3>1. Calm(q) /\ Fit(q)
      BY <1>1, <2>1, WasFit
    <3>2. row'[Key(q)] = row[Key(q)] /\ effects'[Key(q)] = effects[Key(q)]
      BY <1>1, <2>1, <3>1 DEF Calm, Key
    <3>. QED BY <2>1, <3>1, <3>2, StillFits
  <2>. QED BY <1>1, <2>1
<1>2. \A k \in Keys : Punctual(k)' => Sound(k)'
  BY DEF AllFit, Sound, SlipsStay
<1>3. \A k \in Keys \intersect KeyParam : effects'[k] <= 1
  BY DEF AllFit
<1>. QED BY <1>1, <1>2, <1>3 DEF AllFit

\* A step by which p, which holds row k, writes it or lands its effect.
LEMMA HolderStep ==
    ASSUME AsyncInv, AllFit, SlipsStay, NEW p \in Procs, NEW k \in Keys,
           Key(p) = k, Epoch(p) > 0, Epoch(p) = row[k].attempts,
           \A q \in Procs \ {p} : proc'[q] = proc[q],
           \A j \in Keys \ {k} : row'[j] = row[j] /\ effects'[j] = effects[j],
           row'[k].attempts = row[k].attempts,
           Calm(p)' => Fit(p)',
           Punctual(k)' \/ k \in KeyParam => effects'[k] <= 1,
           Punctual(k)' /\ row'[k].state \in {"aborted", "failed"} => effects'[k] = 0
    PROVE  AllFit'
<1>1. ASSUME NEW q \in Procs, q # p, Calm(q)' PROVE Fit(q)'
  <2>1. proc'[q] = proc[q] /\ Calm(q) /\ Fit(q)
    BY <1>1, WasFit
  <2>2. CASE Key(q) # k
    BY <2>1, <2>2, StillFits DEF Calm
  <2>3. CASE Key(q) = k
    <3>1. Epoch(q) > 0 => Epoch(q) # row[k].attempts
      BY <1>1, <2>3, Alone
    <3>2. proc[q].pc \notin InWindowSteps
      BY <2>1, <2>3, <3>1 DEF Fit
    <3>. QED BY <2>1, <2>3, <3>1, <3>2, OutsiderFits
  <2>. QED BY <2>2, <2>3
<1>2. \A j \in Keys : Punctual(j)' => Sound(j)'
  BY DEF AllFit, Sound, SlipsStay
<1>3. \A j \in Keys \intersect KeyParam : effects'[j] <= 1
  BY DEF AllFit
<1>. QED BY <1>1, <1>2, <1>3 DEF AllFit

\* A step by which p begins a new epoch of row k: a claim, or a takeover,
\* which finds nobody of a punctual key inside the window.
LEMMA EpochStep ==
    ASSUME TypeOK, AsyncInv, AllFit, SlipsStay, NEW p \in Procs, NEW k \in Keys,
           \A q \in Procs \ {p} : proc'[q] = proc[q],
           UNCHANGED effects,
           \A j \in Keys \ {k} : row'[j] = row[j],
           row'[k].attempts = row[k].attempts + 1, row'[k].state \in InFlight,
           row[k].stale \/ row[k].attempts = 0,
           Calm(p)' => Fit(p)'
    PROVE  AllFit'
<1>0. row[k].attempts \in Nat
  BY DEF TypeOK, LedgerType
<1>1. ASSUME NEW q \in Procs, q # p, Calm(q)' PROVE Fit(q)'
  <2>1. proc'[q] = proc[q] /\ Calm(q) /\ Fit(q)
    BY <1>1, WasFit
  <2>2. CASE Key(q) # k
    BY <2>1, <2>2, StillFits DEF Calm
  <2>3. CASE Key(q) = k
    <3>1. Epoch(q) \in Nat /\ (Epoch(q) > 0 => Epoch(q) <= row[k].attempts)
      BY <2>3 DEF AsyncInv, EpochInv, TypeOK, ProcType, ProcRecord, Epoch
    <3>2. proc[q].pc \notin InWindowSteps
      BY <1>0, <2>1, <2>3, <3>1 DEF Fit
    <3>. QED BY <1>0, <2>1, <2>3, <3>1, <3>2, OutsiderFits
  <2>. QED BY <2>2, <2>3
<1>2. \A j \in Keys : Punctual(j)' => Sound(j)'
  BY DEF AllFit, Sound, SlipsStay, InFlight
<1>. QED BY <1>1, <1>2 DEF AllFit

\* What SlipIf does: one key may slip, none is healed.
LEMMA SlipIfStays ==
    ASSUME slips \in [Keys -> SUBSET Slips], NEW k \in Keys, NEW condition, NEW what,
           SlipIf(k, condition, what)
    PROVE  /\ SlipsStay
           /\ \A j \in Keys \ {k} : Punctual(j)' <=> Punctual(j)
           /\ condition => ~Punctual(k)'
           /\ ~condition => (Punctual(k)' <=> Punctual(k))
<1>1. slips' = [slips EXCEPT ![k] = IF condition THEN slips[k] \union {what} ELSE slips[k]]
  BY DEF SlipIf
<1>2. \A j \in Keys \ {k} : slips'[j] = slips[j]
  BY <1>1
<1>3. slips'[k] = IF condition THEN slips[k] \union {what} ELSE slips[k]
  BY <1>1
<1>. QED BY <1>2, <1>3 DEF SlipsStay, Punctual

LEMMA NoSlip ==
    ASSUME UNCHANGED slips PROVE SlipsStay
BY DEF SlipsStay, Punctual

\* The clock passes the cutoff of a row: either nobody is inside its span, or
\* the key has slipped.
LEMMA ExpireStep ==
    ASSUME TypeOK, AsyncInv, AllFit, NEW k \in Keys, Expire(k) PROVE AllFit'
<1>1. /\ UNCHANGED <<proc, effects>>
      /\ \A j \in Keys : row'[j].state = row[j].state /\ row'[j].attempts = row[j].attempts
      /\ \A j \in Keys \ {k} : row'[j] = row[j]
  BY DEF Expire, GrowStale, TypeOK, LedgerType
<1>2. /\ SlipsStay
      /\ (\E p \in Procs : Holds(p, k) /\ InSpan(p)) => ~Punctual(k)'
  BY SlipIfStays DEF Expire, TypeOK
<1>3. ASSUME NEW q \in Procs, Calm(q)' PROVE Fit(q)'
  <2>1. Calm(q) /\ Fit(q)
    BY <1>1, <1>2, <1>3, WasFit
  <2>2. CASE Key(q) # k
    BY <1>1, <2>1, <2>2, StillFits DEF Calm
  <2>3. CASE Key(q) = k
    <3>1. ~InSpan(q)
      <4>1. Punctual(k)'
        BY <1>1, <1>3, <2>3 DEF Calm, Key
      <4>2. InSpan(q) => Holds(q, k)
        BY <2>1, <2>3 DEF Fit, Holds
      <4>. QED BY <1>2, <4>1, <4>2
    <3>. QED BY <1>1, <2>1, <2>3, <3>1 DEF Fit, Key, Epoch, IsOwner, IsRecoverer, InSpan
  <2>. QED BY <2>2, <2>3
<1>4. \A j \in Keys : Punctual(j)' => Sound(j)'
  BY <1>1, <1>2 DEF AllFit, Sound, SlipsStay
<1>. QED BY <1>1, <1>3, <1>4 DEF AllFit

\* An abandoned call lands: in time, where nobody acts on its absence, or
\* late, and then its key has slipped.
LEMMA LandingStep ==
    ASSUME TypeOK, AsyncInv, AllFit, NEW k \in Keys, AbandonedLands(k) PROVE AllFit'
<1>1. /\ UNCHANGED <<proc, row>> /\ effects[k] \in Nat
      /\ \A j \in Keys \ {k} : effects'[j] = effects[j]
      /\ effects'[k] = IF k \in KeyParam THEN 1 ELSE effects[k] + 1
  BY DEF AbandonedLands, LandOn, TypeOK
<1>2. /\ SlipsStay /\ (~InTime(k) => ~Punctual(k)')
  BY SlipIfStays DEF AbandonedLands, TypeOK
<1>3. CASE ~InTime(k) \/ effects'[k] = effects[k]
  BY <1>1, <1>2, <1>3, QuietStep
<1>4. CASE InTime(k) /\ effects'[k] # effects[k]
  <2>1. /\ row[k].state \in InFlight \union {"unknown"} /\ effects[k] = 0 /\ effects'[k] = 1
        /\ \A p \in Procs : ~Holds(p, k)
    BY <1>1, <1>4 DEF InTime, IsInFlight
  <2>2. ASSUME NEW q \in Procs, Calm(q)' PROVE Fit(q)'
    <3>1. Calm(q) /\ Fit(q)
      BY <1>1, <1>2, <2>2, WasFit
    <3>2. CASE Key(q) # k
      BY <1>1, <3>1, <3>2, StillFits DEF Calm
    <3>3. CASE Key(q) = k
      <4>1. Epoch(q) # row[k].attempts
        BY <2>1, <3>3 DEF Holds
      <4>2. proc[q].pc \notin InWindowSteps
        BY <3>1, <3>3, <4>1 DEF Fit
      <4>. QED BY <1>1, <3>1, <3>3, <4>1, <4>2, OutsiderFits
    <3>. QED BY <3>2, <3>3
  <2>3. \A j \in Keys : Punctual(j)' => Sound(j)'
    BY <1>1, <1>2, <2>1 DEF AllFit, Sound, SlipsStay, InFlight
  <2>. QED BY <1>1, <2>1, <2>2, <2>3 DEF AllFit
<1>. QED BY <1>3, <1>4

-----------------------------------------------------------------------------
(* Every step.                                                             *)

\* A step by which p only lets go of what it was responsible for.
LEMMA LeavingStep ==
    ASSUME AllFit, NEW p \in Procs, LetsGo(p), UNCHANGED <<row, effects, slips>>
    PROVE  AllFit'
<1>1. Fit(p)'
  BY DEF LetsGo, Away, Fit, Key, Epoch, IsOwner, IsRecoverer, InSpan, InWindowSteps
<1>. QED BY <1>1, QuietStep, NoSlip DEF LetsGo

\* A step by which p goes on under the epoch it holds, and all is as it was.
LEMMA GoingOnStep ==
    ASSUME TypeOK, AllFit, NEW p \in Procs, NEW pc, GoTo(p, pc),
           UNCHANGED <<row, effects, slips>>, Calm(p) => Fit(p)'
    PROVE  AllFit'
<1>1. /\ \A q \in Procs \ {p} : proc'[q] = proc[q]
      /\ proc'[p].key = proc[p].key
  BY DEF GoTo, TypeOK, ProcType, ProcRecord
<1>2. Calm(p)' => Calm(p)
  BY <1>1 DEF Calm, Key, Punctual
<1>. QED BY <1>1, <1>2, QuietStep, NoSlip

\* Every step keeps what holds of punctual keys: one case per action.
LEMMA PunctualStep ==
    ASSUME TypeOK, AsyncInv, AllFit, [Next]_vars PROVE AllFit'
<1>0. CASE UNCHANGED vars
  BY <1>0, QuietStep, NoSlip DEF vars
<1>t. LedgerType /\ ProcType
  BY DEF TypeOK
<1>k. \A p \in Procs : proc[p].pc \notin {"idle", "sweep"} => Key(p) \in Keys
  BY <1>t DEF ProcType, Key
<1>f. \A p \in Procs : Calm(p) => Fit(p)
  BY DEF AllFit
<1>u. \A k \in Keys : row[k].state \in {"none", "pending"} => effects[k] = 0
  BY DEF AsyncInv, MarkInv, Marked
<1>1. ASSUME NEW p \in Procs,
             \/ PreconditionsRaise(p) \/ PostVerifyUnknown(p) \/ ProbeUnknown(p)
             \/ ReturnRecorded(p) \/ GiveUp(p) \/ SweepDone(p)
             \/ OwnerExecuteFails(p) \/ RecoveryExecuteFails(p) \/ Crash(p)
      PROVE  AllFit'
  <2>1. LetsGo(p)
    BY <1>1, <1>t, Departs DEF PreconditionsRaise, PostVerifyUnknown, ProbeUnknown,
       ReturnRecorded, GiveUp, SweepDone, OwnerExecuteFails, RecoveryExecuteFails, Crash
  <2>2. UNCHANGED <<row, effects, slips>>
    BY <1>1 DEF PreconditionsRaise, PostVerifyUnknown, ProbeUnknown,
       ReturnRecorded, GiveUp, SweepDone, OwnerExecuteFails, RecoveryExecuteFails, Crash
  <2>. QED BY <2>1, <2>2, LeavingStep
<1>3. ASSUME NEW p \in Procs, UNCHANGED <<row, effects, slips>>,
             \/ OwnerMark(p) \/ RecoveryMark(p) \/ OwnerFinalize(p) \/ RecoveryFinalize(p)
             \/ Bump(p),
             Become(p, Elsewhere(p)) \/ Become(p, Awaiting(Key(p)))
      PROVE  AllFit'
  <2>1. Key(p) \in Keys
    BY <1>3, <1>k DEF OwnerMark, RecoveryMark, OwnerFinalize, RecoveryFinalize, Bump, Finalizing
  <2>2. LetsGo(p)
    BY <1>3, <1>t, <2>1, Departs
  <2>. QED BY <1>3, <2>2, LeavingStep
<1>4. ASSUME NEW p \in Procs, NEW k \in Keys, ClaimLost(p, k) PROVE AllFit'
  <2>1. CASE UNCHANGED proc
    BY <1>4, <2>1, QuietStep, NoSlip DEF ClaimLost
  <2>2. CASE Become(p, Awaiting(k))
    <3>1. LetsGo(p)
      BY <1>t, <2>2, Departs
    <3>. QED BY <1>4, <3>1, LeavingStep DEF ClaimLost
  <2>. QED BY <1>4, <2>1, <2>2 DEF ClaimLost
<1>5. ASSUME NEW p \in Procs, Scan(p) PROVE AllFit'
  <2>1. LetsGo(p)
    BY <1>5, <1>t DEF Scan, ProcType, Become, Sweeping, At, LetsGo, Away
  <2>. QED BY <1>5, <2>1, LeavingStep DEF Scan
<1>6. ASSUME NEW p \in Procs, NEW k \in Keys, SkipUnregistered(p, k) PROVE AllFit'
  BY <1>6, QuietStep, NoSlip DEF SkipUnregistered
<1>7. ASSUME NEW p \in Procs, NEW k \in Keys, NEW role \in {"inline", "sweep"}, NEW from,
             Become(p, At("bump", role, k, 0, from)), UNCHANGED <<row, effects, slips>>
      PROVE  AllFit'
  <2>1. /\ \A q \in Procs \ {p} : proc'[q] = proc[q]
        /\ proc'[p] = At("bump", role, k, 0, from)
    BY <1>7, <1>t DEF Become, ProcType
  <2>2. /\ proc'[p].pc = "bump" /\ proc'[p].role \in {"inline", "sweep"}
        /\ proc'[p].key = k /\ proc'[p].epoch = 0 /\ proc'[p].from = from
    BY <2>1 DEF At
  <2>3. Fit(p)'
    BY <2>2 DEF Fit, Key, Epoch, IsOwner, IsRecoverer, InSpan, InWindowSteps
  <2>. QED BY <1>7, <2>1, <2>3, QuietStep, NoSlip
<1>8. ASSUME NEW p \in Procs, NEW k \in Keys, TakeRow(p, k) PROVE AllFit'
  BY <1>7, <1>8 DEF TakeRow
<1>9. ASSUME NEW p \in Procs, ReconcileInline(p) PROVE AllFit'
  <2>1. Key(p) \in Keys
    BY <1>9, <1>k DEF ReconcileInline
  <2>. QED BY <1>7, <1>9, <2>1 DEF ReconcileInline
<1>10. ASSUME NEW p \in Procs, Preconditions(p) PROVE AllFit'
  <2>1. proc[p].pc = "precond" /\ UNCHANGED <<row, effects, slips>>
    BY <1>10 DEF Preconditions
  <2>2. PICK pc \in {"mark", "abort"} : GoTo(p, pc)
    BY <1>10 DEF Preconditions
  <2>3. proc'[p] = [proc[p] EXCEPT !.pc = pc] /\ proc[p] \in ProcRecord
    BY <1>t, <2>2 DEF GoTo, ProcType
  <2>4. /\ proc'[p].pc = pc /\ proc'[p].role = proc[p].role /\ proc'[p].key = proc[p].key
        /\ proc'[p].epoch = proc[p].epoch /\ proc'[p].from = proc[p].from
    BY <2>3 DEF ProcRecord
  <2>5. Calm(p) => Fit(p)'
    BY <1>f, <1>k, <1>u, <2>1, <2>4 DEF Fit, Key, Epoch, IsOwner, IsRecoverer, InSpan, InWindowSteps
  <2>. QED BY <2>1, <2>2, <2>5, GoingOnStep
<1>11. ASSUME NEW p \in Procs, ExecuteReturns(p) PROVE AllFit'
  <2>1. proc[p].pc \in {"exec", "ran"} /\ UNCHANGED <<row, effects, slips>>
    BY <1>11 DEF ExecuteReturns
  <2>2. PICK pc \in {"verify", "commit"} : GoTo(p, pc)
    BY <1>11 DEF ExecuteReturns
  <2>3. proc'[p] = [proc[p] EXCEPT !.pc = pc] /\ proc[p] \in ProcRecord
    BY <1>t, <2>2 DEF GoTo, ProcType
  <2>4. /\ proc'[p].pc = pc /\ proc'[p].role = proc[p].role /\ proc'[p].key = proc[p].key
        /\ proc'[p].epoch = proc[p].epoch /\ proc'[p].from = proc[p].from
    BY <2>3 DEF ProcRecord
  <2>5. Calm(p) => Fit(p)'
    BY <1>f, <2>1, <2>4 DEF Fit, Key, Epoch, IsOwner, IsRecoverer, InSpan, InWindowSteps
  <2>. QED BY <2>1, <2>2, <2>5, GoingOnStep
<1>12. ASSUME NEW p \in Procs, PostVerify(p) PROVE AllFit'
  <2>1. proc[p].pc = "verify" /\ UNCHANGED <<row, effects, slips>>
    BY <1>12 DEF PostVerify
  <2>2. PICK pc \in {"commit", "fail"} : GoTo(p, pc) /\ (pc = "fail" => effects[Key(p)] = 0)
    BY <1>12, <1>k DEF PostVerify, Present, TypeOK
  <2>3. proc'[p] = [proc[p] EXCEPT !.pc = pc] /\ proc[p] \in ProcRecord
    BY <1>t, <2>2 DEF GoTo, ProcType
  <2>4. /\ proc'[p].pc = pc /\ proc'[p].role = proc[p].role /\ proc'[p].key = proc[p].key
        /\ proc'[p].epoch = proc[p].epoch /\ proc'[p].from = proc[p].from
    BY <2>3 DEF ProcRecord
  <2>5. Calm(p) => Fit(p)'
    BY <1>f, <2>1, <2>2, <2>4 DEF Fit, Key, Epoch, IsOwner, IsRecoverer, InSpan, InWindowSteps
  <2>. QED BY <2>1, <2>2, <2>5, GoingOnStep
<1>13. ASSUME NEW p \in Procs, Probe(p) PROVE AllFit'
  <2>1. /\ proc[p].pc = "probe" /\ UNCHANGED <<row, effects, slips>>
        /\ proc[p].from = "executing"
    BY <1>13 DEF Probe, AsyncInv, MarkInv
  <2>2. PICK pc \in {"commit", "abort", "recheck"} :
          GoTo(p, pc) /\ (pc # "commit" => effects[Key(p)] = 0)
    BY <1>13, <1>k, <2>1 DEF Probe, Present, EffectFreeRecovery, TypeOK
  <2>3. proc'[p] = [proc[p] EXCEPT !.pc = pc] /\ proc[p] \in ProcRecord
    BY <1>t, <2>2 DEF GoTo, ProcType
  <2>4. /\ proc'[p].pc = pc /\ proc'[p].role = proc[p].role /\ proc'[p].key = proc[p].key
        /\ proc'[p].epoch = proc[p].epoch /\ proc'[p].from = proc[p].from
    BY <2>3 DEF ProcRecord
  <2>5. Calm(p) => Fit(p)'
    BY <1>f, <2>1, <2>2, <2>4 DEF Fit, Key, Epoch, IsOwner, IsRecoverer, InSpan, InWindowSteps
  <2>. QED BY <2>1, <2>2, <2>5, GoingOnStep
<1>14. ASSUME NEW p \in Procs, Recheck(p) PROVE AllFit'
  <2>1. /\ proc[p].pc = "recheck" /\ UNCHANGED <<row, effects, slips>>
        /\ proc[p].from \in {"pending", "executing"}
    BY <1>14, <1>t DEF Recheck, AsyncInv, MarkInv, ProcType, ProcRecord, Snapshots, InFlight
  <2>2. PICK pc \in {"mark", "exec", "unknown", "abort"} :
          /\ GoTo(p, pc)
          /\ pc = "mark" => proc[p].from = "pending"
          /\ pc = "exec" => proc[p].from = "executing"
          /\ pc = "abort" => proc[p].from = "pending" \/ Key(p) \notin KeyParam
    BY <1>14, <2>1 DEF Recheck
  <2>3. proc'[p] = [proc[p] EXCEPT !.pc = pc] /\ proc[p] \in ProcRecord
    BY <1>t, <2>2 DEF GoTo, ProcType
  <2>4. /\ proc'[p].pc = pc /\ proc'[p].role = proc[p].role /\ proc'[p].key = proc[p].key
        /\ proc'[p].epoch = proc[p].epoch /\ proc'[p].from = proc[p].from
    BY <2>3 DEF ProcRecord
  <2>5. Calm(p) => Fit(p)'
    BY <1>f, <1>k, <1>u, <2>1, <2>2, <2>4
       DEF Fit, Key, Epoch, IsOwner, IsRecoverer, InSpan, InWindowSteps
  <2>. QED BY <2>1, <2>2, <2>5, GoingOnStep
<1>15. ASSUME NEW p \in Procs, OwnerMark(p) \/ RecoveryMark(p) PROVE AllFit'
  <2>1. CASE UNCHANGED row
    <3>1. ~MarkExecuting(Key(p), Epoch(p))
      BY <1>15, <1>k, <1>t, <2>1 DEF OwnerMark, RecoveryMark, MarkExecuting, MarkMatches, LedgerType
    <3>. QED BY <1>3, <1>15, <2>1, <3>1 DEF OwnerMark, RecoveryMark
  <2>2. CASE ~UNCHANGED row
    <3>1. /\ MarkExecuting(Key(p), Epoch(p)) /\ GoTo(p, "exec") /\ proc[p].pc = "mark"
          /\ IsOwner(p) \/ IsRecoverer(p)
          /\ UNCHANGED <<effects, slips>>
      BY <1>15, <2>2 DEF OwnerMark, RecoveryMark, ledgerVars
    <3>2. /\ \A q \in Procs \ {p} : proc'[q] = proc[q]
          /\ proc'[p] = [proc[p] EXCEPT !.pc = "exec"] /\ proc[p] \in ProcRecord
      BY <1>t, <3>1 DEF GoTo, ProcType
    <3>3. /\ proc'[p].pc = "exec" /\ proc'[p].role = proc[p].role /\ proc'[p].key = proc[p].key
          /\ proc'[p].epoch = proc[p].epoch /\ proc'[p].from = proc[p].from
      BY <3>2 DEF ProcRecord
    <3>4. /\ Key(p) \in Keys /\ row[Key(p)].state = "pending"
          /\ Epoch(p) = row[Key(p)].attempts /\ effects[Key(p)] = 0
      BY <1>k, <1>u, <3>1 DEF MarkExecuting, MarkMatches
    <3>5. /\ \A j \in Keys \ {Key(p)} : row'[j] = row[j]
          /\ row'[Key(p)].state = "executing" /\ ~row'[Key(p)].stale
          /\ row'[Key(p)].attempts = row[Key(p)].attempts
      BY <1>t, <3>1, <3>4 DEF MarkExecuting, LedgerType
    <3>6. Epoch(p) > 0
      BY <3>1 DEF AsyncInv, EpochInv, TypeOK, ProcType, ProcRecord, Epoch
    <3>7. Fit(p)'
      BY <3>1, <3>3, <3>4, <3>5, <3>6
         DEF Fit, Key, Epoch, IsOwner, IsRecoverer, InSpan, InWindowSteps, InFlight
    <3>8. /\ \A j \in Keys \ {Key(p)} : row'[j] = row[j] /\ effects'[j] = effects[j]
          /\ effects'[Key(p)] <= 1
          /\ row'[Key(p)].state \notin {"aborted", "failed"}
      BY <3>1, <3>3, <3>4, <3>5
    <3>. QED BY <3>1, <3>2, <3>4, <3>5, <3>6, <3>7, <3>8, HolderStep, NoSlip
  <2>. QED BY <2>1, <2>2
<1>16. ASSUME NEW p \in Procs, OwnerFinalize(p) \/ RecoveryFinalize(p) PROVE AllFit'
  <2>k. PICK k \in Keys : k = Key(p)
    BY <1>16, <1>k DEF OwnerFinalize, RecoveryFinalize, Finalizing
  <2>s. PICK st \in Terminal : st = Target(proc[p].pc)
    BY <1>16, TargetTerminal DEF OwnerFinalize, RecoveryFinalize
  <2>0. Finalizing(p) /\ UNCHANGED <<effects, slips>>
    BY <1>16 DEF OwnerFinalize, RecoveryFinalize
  <2>1. LetsGo(p)
    BY <1>16, <1>t, <2>k, Departs DEF OwnerFinalize, RecoveryFinalize
  <2>2. CASE UNCHANGED row
    BY <2>0, <2>1, <2>2, LeavingStep
  <2>3. CASE ~UNCHANGED row
    <3>1. \E new : Finalize(k, Epoch(p), st, new)
      BY <1>16, <2>k, <2>s, <2>3 DEF OwnerFinalize, RecoveryFinalize, ledgerVars
    <3>2. /\ \A j \in Keys \ {k} : row'[j] = row[j]
          /\ row'[k].state = st /\ row'[k].attempts = row[k].attempts
          /\ Epoch(p) = row[k].attempts
      BY <1>t, <2>0, <3>1 DEF Finalize, FinalizeMatches, LedgerType
    <3>3. Epoch(p) > 0
      BY <2>0 DEF AsyncInv, EpochInv, TypeOK, ProcType, ProcRecord, Epoch, Finalizing
    <3>4. Punctual(k)' => Calm(p)
      BY <2>k, <2>0 DEF Calm, Punctual
    <3>5. Punctual(k)' /\ st \in {"aborted", "failed"} => effects[k] = 0
      BY <1>f, <2>k, <2>s, <2>0, <3>2, <3>3, <3>4 DEF Fit, Target, Finalizing
    <3>6. Fit(p)'
      BY <2>1 DEF LetsGo, Away, Fit, Key, Epoch, IsOwner, IsRecoverer, InSpan, InWindowSteps
    <3>7. Punctual(k)' \/ k \in KeyParam => effects[k] <= 1
      BY <2>0 DEF AllFit, Sound, Punctual
    <3>. QED
      BY <2>k, <2>0, <2>1, <3>2, <3>3, <3>5, <3>6, <3>7, HolderStep, NoSlip DEF LetsGo
  <2>. QED BY <2>2, <2>3
<1>17. ASSUME NEW p \in Procs, EffectLands(p) PROVE AllFit'
  <2>k. PICK k \in Keys : k = Key(p)
    BY <1>17, <1>k DEF EffectLands
  <2>1. /\ proc[p].pc = "exec" /\ GoTo(p, "ran") /\ LandOn(k)
        /\ UNCHANGED <<row, slips>> /\ k \in Keys
    BY <1>17, <2>k DEF EffectLands
  <2>2. /\ \A q \in Procs \ {p} : proc'[q] = proc[q]
        /\ proc'[p] = [proc[p] EXCEPT !.pc = "ran"] /\ proc[p] \in ProcRecord
    BY <1>t, <2>1 DEF GoTo, ProcType
  <2>3. /\ proc'[p].pc = "ran" /\ proc'[p].role = proc[p].role /\ proc'[p].key = proc[p].key
        /\ proc'[p].epoch = proc[p].epoch /\ proc'[p].from = proc[p].from
    BY <2>2 DEF ProcRecord
  <2>4. /\ \A j \in Keys \ {k} : effects'[j] = effects[j]
        /\ effects'[k] = IF k \in KeyParam THEN 1 ELSE effects[k] + 1
    BY <2>1 DEF LandOn, TypeOK
  <2>5. CASE Calm(p)
    <3>1. /\ Epoch(p) > 0 /\ Epoch(p) = row[k].attempts
          /\ row[k].state \in InFlight /\ ~row[k].stale
          /\ k \notin KeyParam => effects[k] = 0
      BY <1>f, <2>k, <2>1, <2>5 DEF Fit, InWindowSteps
    <3>2. effects'[k] <= 1
      BY <2>4, <3>1
    <3>3. Fit(p)'
      BY <1>f, <2>k, <2>1, <2>3, <2>5, <3>1
         DEF Fit, Key, Epoch, IsOwner, IsRecoverer, InSpan, InWindowSteps
    <3>4. row'[k].state \notin {"aborted", "failed"}
      BY <2>1, <3>1 DEF InFlight
    <3>. QED BY <2>k, <2>1, <2>2, <2>4, <3>1, <3>2, <3>3, <3>4, HolderStep, NoSlip
  <2>6. CASE ~Calm(p)
    <3>1. ~Calm(p)' /\ ~Punctual(k)'
      BY <2>k, <2>1, <2>3, <2>6 DEF Calm, Key, Punctual
    <3>. QED BY <2>k, <2>1, <2>2, <2>4, <3>1, QuietStep, NoSlip
  <2>. QED BY <2>5, <2>6
<1>18. ASSUME NEW p \in Procs, NEW k \in Keys, ClaimWon(p, k) PROVE AllFit'
  <2>1. /\ InsertClaim(k) /\ Become(p, At("precond", "owner", k, 1, "none"))
        /\ UNCHANGED <<effects, slips>>
    BY <1>18 DEF ClaimWon
  <2>2. /\ \A j \in Keys \ {k} : row'[j] = row[j]
        /\ row'[k].state = "pending" /\ row'[k].attempts = 1 /\ ~row'[k].stale
        /\ row[k].attempts = 0
    BY <1>t, <2>1 DEF InsertClaim, Unclaimed, LedgerType, AsyncInv, EpochInv
  <2>3. /\ \A q \in Procs \ {p} : proc'[q] = proc[q]
        /\ proc'[p] = At("precond", "owner", k, 1, "none")
    BY <1>t, <2>1 DEF Become, ProcType
  <2>4. /\ proc'[p].pc = "precond" /\ proc'[p].role = "owner"
        /\ proc'[p].key = k /\ proc'[p].epoch = 1 /\ proc'[p].from = "none"
    BY <2>3 DEF At
  <2>5. Fit(p)'
    BY <2>2, <2>4 DEF Fit, Key, Epoch, IsOwner, IsRecoverer, InSpan, InWindowSteps, InFlight
  <2>. QED BY <2>1, <2>2, <2>3, <2>5, EpochStep, NoSlip DEF InFlight
<1>19. ASSUME NEW p \in Procs, Bump(p) PROVE AllFit'
  <2>k. PICK k \in Keys : k = Key(p)
    BY <1>19, <1>k DEF Bump
  <2>f. PICK from : from = proc[p].from
    OBVIOUS
  <2>0. k = Key(p) /\ from = proc[p].from /\ proc[p].pc = "bump" /\ UNCHANGED effects
    BY <1>19, <2>k, <2>f DEF Bump
  <2>1. CASE UNCHANGED row
    <3>1. ~BumpEpoch(k)
      BY <1>t, <2>0, <2>1 DEF BumpEpoch, BumpMatches, LedgerType
    <3>. QED BY <1>3, <1>19, <2>0, <2>1, <3>1 DEF Bump
  <2>2. CASE ~UNCHANGED row
    <3>1. PICK step \in RecoveryTable(k, from) :
            /\ BumpEpoch(k)
            /\ Become(p, At(step, proc[p].role, k, row[k].attempts + 1, from))
            /\ SlipIf(k, from # row[k].state, "outdated")
      BY <1>19, <2>0, <2>2 DEF Bump, ledgerVars
    <3>2. /\ \A j \in Keys \ {k} : row'[j] = row[j]
          /\ row'[k].state = row[k].state /\ row'[k].attempts = row[k].attempts + 1
          /\ ~row'[k].stale /\ row[k].stale /\ row[k].state \in InFlight
      BY <1>t, <2>0, <3>1 DEF BumpEpoch, BumpMatches, LedgerType, IsInFlight
    <3>3. SlipsStay /\ (from # row[k].state => ~Punctual(k)')
      BY <2>0, <3>1, SlipIfStays DEF TypeOK
    <3>4. /\ \A q \in Procs \ {p} : proc'[q] = proc[q]
          /\ proc'[p] = At(step, proc[p].role, k, row[k].attempts + 1, from)
      BY <1>t, <3>1 DEF Become, ProcType
    <3>5. /\ proc'[p].pc = step /\ proc'[p].role = proc[p].role /\ proc'[p].key = k
          /\ proc'[p].epoch = row[k].attempts + 1 /\ proc'[p].from = from
      BY <3>4 DEF At
    <3>7. /\ step \in {"abort", "recheck", "probe", "unknown"}
          /\ step = "probe" => from = "executing"
          /\ step = "abort" => from = "pending"
          /\ step = "recheck" => from = "pending" \/ k \in KeyParam
      BY RecoveryTableSteps DEF RecoveryTable, EffectFreeRecovery, Guarantee
    <3>8. ASSUME Calm(p)' PROVE Fit(p)'
      <4>1. Punctual(k)' /\ Calm(p) /\ from = row[k].state
        BY <2>0, <3>3, <3>5, <3>8 DEF Calm, Key, SlipsStay
      <4>2. from = "pending" => effects[k] = 0
        BY <1>u, <2>0, <4>1
      <4>3. row[k].attempts + 1 > 0
        BY <1>t, <2>0 DEF LedgerType
      <4>4. IsRecoverer(p)
        BY <1>f, <2>0, <4>1 DEF Fit
      <4>5. /\ Key(p)' = k /\ IsRecoverer(p)' /\ ~IsOwner(p)' /\ proc'[p].pc = step
            /\ Epoch(p)' > 0 /\ Epoch(p)' = row'[k].attempts
            /\ row'[k].state = from /\ from \in InFlight /\ ~row'[k].stale
            /\ proc'[p].from = from /\ effects'[k] = effects[k]
        BY <2>0, <3>2, <3>5, <4>1, <4>3, <4>4 DEF Key, Epoch, IsOwner, IsRecoverer
      <4>. QED BY <3>7, <4>2, <4>5
           DEF Fit, Key, Epoch, IsOwner, IsRecoverer, InSpan, InWindowSteps
    <3>. QED BY <2>0, <3>2, <3>3, <3>4, <3>8, EpochStep
  <2>. QED BY <2>1, <2>2
<1>20. ASSUME NEW k \in Keys, AbandonedEnds(k) PROVE AllFit'
  BY <1>20, QuietStep, NoSlip DEF AbandonedEnds
<1>. QED
  BY <1>0, <1>1, <1>4, <1>5, <1>6, <1>8, <1>9, <1>10, <1>11, <1>12, <1>13, <1>14,
     <1>15, <1>16, <1>17, <1>18, <1>19, <1>20, ExpireStep, LandingStep, NextActions

-----------------------------------------------------------------------------
(* The budget of executions: one per epoch.                                *)

\* Before its epoch's execution.
Before == {"precond", "mark", "probe", "recheck", "exec"}

Room(k) == effects[k] + abandoned[k] + Cardinality(Unspent(k)) <= row[k].attempts

\* Whoever is before an execution for row k was so, under the same epoch.
NoNewcomer(k) ==
    \A q \in Procs : proc'[q].key = k /\ proc'[q].pc \in Before =>
        proc[q].key = k /\ proc[q].pc \in Before /\ proc'[q].epoch = proc[q].epoch

LEMMA RoomType ==
    ASSUME TypeOK, NEW k \in Keys
    PROVE  /\ effects[k] \in Nat /\ abandoned[k] \in Nat /\ row[k].attempts \in Nat
           /\ IsFiniteSet(Unspent(k)) /\ Cardinality(Unspent(k)) \in Nat
<1>1. effects[k] \in Nat /\ abandoned[k] \in Nat /\ row[k].attempts \in Nat
  BY DEF TypeOK, LedgerType
<1>2. IsFiniteSet(1..row[k].attempts)
  <2>1. 1 \in Int /\ row[k].attempts \in Int
    BY <1>1
  <2>. QED BY <2>1, FS_Interval
<1>3. Unspent(k) \in SUBSET (1..row[k].attempts)
  BY DEF Unspent
<1>4. IsFiniteSet(Unspent(k))
  BY <1>2, <1>3, FS_Subset
<1>. QED BY <1>1, <1>4, FS_CardinalityType

\* With nobody new, the unspent epochs are among those there were.
LEMMA UnspentShrinks ==
    ASSUME NEW k \in Keys, NoNewcomer(k), row'[k].attempts = row[k].attempts
    PROVE  Unspent(k)' \subseteq Unspent(k)
<1> SUFFICES ASSUME NEW e \in 1..row[k].attempts, NEW q \in Procs,
                    proc'[q].key = k, proc'[q].epoch = e, proc'[q].pc \in Before
             PROVE  e \in Unspent(k)
  BY DEF Unspent, Key, Epoch, Before
<1>1. proc[q].key = k /\ proc[q].pc \in Before /\ proc[q].epoch = e
  BY DEF NoNewcomer
<1>. QED BY <1>1 DEF Unspent, Key, Epoch, Before

\* A step that starts no execution of k.
LEMMA RoomKept ==
    ASSUME TypeOK, TypeOK', NEW k \in Keys, Room(k), NoNewcomer(k),
           row'[k].attempts = row[k].attempts,
           effects'[k] + abandoned'[k] <= effects[k] + abandoned[k]
    PROVE  Room(k)'
<1>1. Unspent(k)' \in SUBSET Unspent(k)
  BY UnspentShrinks
<1>2. Cardinality(Unspent(k)') <= Cardinality(Unspent(k)) /\ IsFiniteSet(Unspent(k)')
  BY <1>1, RoomType, FS_Subset
<1>3. Cardinality(Unspent(k)') \in Nat
  BY <1>2, FS_CardinalityType
<1>4. /\ effects[k] \in Nat /\ abandoned[k] \in Nat /\ row[k].attempts \in Nat
      /\ Cardinality(Unspent(k)) \in Nat
  BY RoomType
<1>5. effects'[k] \in Nat /\ abandoned'[k] \in Nat
  BY DEF TypeOK
<1>. QED BY <1>2, <1>3, <1>4, <1>5 DEF Room

\* A step by which p lands the execution of its epoch, or leaves it behind.
LEMMA RoomSpent ==
    ASSUME TypeOK, TypeOK', AsyncInv, NEW k \in Keys, Room(k), NoNewcomer(k),
           NEW p \in Procs, Key(p) = k, proc[p].pc = "exec", proc'[p].pc \notin Before,
           row'[k].attempts = row[k].attempts,
           effects'[k] + abandoned'[k] <= effects[k] + abandoned[k] + 1
    PROVE  Room(k)'
<1>1. /\ Epoch(p) \in Nat /\ Epoch(p) > 0 /\ Epoch(p) <= row[k].attempts
      /\ row[k].attempts \in Nat
  <2>1. Epoch(p) \in Nat /\ row[k].attempts \in Nat
    BY DEF TypeOK, ProcType, ProcRecord, LedgerType, Epoch
  <2>2. Epoch(p) # 0
    BY DEF AsyncInv, EpochInv
  <2>3. Epoch(p) > 0
    BY <2>1, <2>2
  <2>4. Epoch(p) <= row[k].attempts
    BY <2>3 DEF AsyncInv, EpochInv
  <2>. QED BY <2>1, <2>3, <2>4
<1>2. Epoch(p) \in Unspent(k)
  BY <1>1 DEF Unspent
<1>3. Epoch(p) \notin Unspent(k)'
  <2> SUFFICES ASSUME NEW q \in Procs, proc'[q].key = k, proc'[q].epoch = Epoch(p),
                      proc'[q].pc \in Before
               PROVE  FALSE
    BY DEF Unspent, Key, Epoch, Before
  <2>1. Key(q) = k /\ Epoch(q) = Epoch(p)
    BY DEF NoNewcomer, Key, Epoch
  <2>2. q = p
    BY <1>1, <2>1, Alone
  <2>. QED BY <2>2
<1>4. Unspent(k)' \in SUBSET (Unspent(k) \ {Epoch(p)})
  BY <1>3, UnspentShrinks
<1>5. /\ IsFiniteSet(Unspent(k) \ {Epoch(p)})
      /\ Cardinality(Unspent(k) \ {Epoch(p)}) = Cardinality(Unspent(k)) - 1
  BY <1>2, RoomType, FS_RemoveElement
<1>6. Cardinality(Unspent(k)') <= Cardinality(Unspent(k)) - 1 /\ IsFiniteSet(Unspent(k)')
  BY <1>4, <1>5, FS_Subset
<1>7. Cardinality(Unspent(k)') \in Nat
  BY <1>6, FS_CardinalityType
<1>8. /\ effects[k] \in Nat /\ abandoned[k] \in Nat /\ Cardinality(Unspent(k)) \in Nat
  BY RoomType
<1>9. effects'[k] \in Nat /\ abandoned'[k] \in Nat
  BY DEF TypeOK
<1>. QED BY <1>1, <1>6, <1>7, <1>8, <1>9 DEF Room

\* A step by which p begins a new epoch.
LEMMA RoomGrown ==
    ASSUME TypeOK, TypeOK', NEW k \in Keys, Room(k), NEW p \in Procs,
           \A q \in Procs \ {p} : proc'[q] = proc[q],
           proc'[p].key = k => proc'[p].epoch = row[k].attempts + 1,
           row'[k].attempts = row[k].attempts + 1,
           effects'[k] = effects[k], abandoned'[k] = abandoned[k]
    PROVE  Room(k)'
<1>1. /\ effects[k] \in Nat /\ abandoned[k] \in Nat /\ row[k].attempts \in Nat
      /\ IsFiniteSet(Unspent(k)) /\ Cardinality(Unspent(k)) \in Nat
  BY RoomType
<1>2. Unspent(k)' \in SUBSET (Unspent(k) \union {row[k].attempts + 1})
  <2> SUFFICES ASSUME NEW e \in 1..(row[k].attempts + 1), NEW q \in Procs,
                      proc'[q].key = k, proc'[q].epoch = e, proc'[q].pc \in Before,
                      e # row[k].attempts + 1
               PROVE  e \in Unspent(k)
    BY DEF Unspent, Key, Epoch, Before
  <2>1. proc[q] = proc'[q] /\ e \in 1..row[k].attempts
    BY <1>1
  <2>. QED BY <2>1 DEF Unspent, Key, Epoch, Before
<1>3. /\ IsFiniteSet(Unspent(k) \union {row[k].attempts + 1})
      /\ Cardinality(Unspent(k) \union {row[k].attempts + 1}) <= Cardinality(Unspent(k)) + 1
  <2>1. /\ IsFiniteSet(Unspent(k) \union {row[k].attempts + 1})
        /\ Cardinality(Unspent(k) \union {row[k].attempts + 1}) =
             IF row[k].attempts + 1 \in Unspent(k)
             THEN Cardinality(Unspent(k)) ELSE Cardinality(Unspent(k)) + 1
    BY <1>1, FS_AddElement
  <2>. QED BY <1>1, <2>1
<1>4. /\ Cardinality(Unspent(k)') <= Cardinality(Unspent(k) \union {row[k].attempts + 1})
      /\ IsFiniteSet(Unspent(k)')
  BY <1>2, <1>3, FS_Subset
<1>5. /\ Cardinality(Unspent(k)') \in Nat
      /\ Cardinality(Unspent(k) \union {row[k].attempts + 1}) \in Nat
  BY <1>3, <1>4, FS_CardinalityType
<1>. QED BY <1>1, <1>3, <1>4, <1>5 DEF Room

\* Nobody gets before an execution by leaving, nor by going on from there.
LEMMA LeavingIsNoNewcomer ==
    ASSUME NEW p \in Procs, \A q \in Procs \ {p} : proc'[q] = proc[q],
           proc'[p].pc \notin Before
    PROVE  \A k \in Keys : NoNewcomer(k)
BY DEF NoNewcomer

LEMMA GoingOnIsNoNewcomer ==
    ASSUME ProcType, NEW p \in Procs, NEW pc, GoTo(p, pc),
           pc \in Before => proc[p].pc \in Before
    PROVE  /\ \A q \in Procs \ {p} : proc'[q] = proc[q]
           /\ proc'[p].pc = pc
           /\ \A k \in Keys : NoNewcomer(k)
<1>1. /\ \A q \in Procs \ {p} : proc'[q] = proc[q]
      /\ proc'[p] = [proc[p] EXCEPT !.pc = pc] /\ proc[p] \in ProcRecord
  BY DEF GoTo, ProcType
<1>2. proc'[p].pc = pc /\ proc'[p].key = proc[p].key /\ proc'[p].epoch = proc[p].epoch
  BY <1>1 DEF ProcRecord
<1>. QED BY <1>1, <1>2 DEF NoNewcomer

\* Every step keeps within the budget: one case per action.
LEMMA BudgetStep ==
    ASSUME TypeOK, TypeOK', AsyncInv, BudgetInv, [Next]_vars PROVE BudgetInv'
<1>r. \A k \in Keys : Room(k)
  BY DEF BudgetInv, Room
<1> SUFFICES ASSUME NEW j \in Keys PROVE Room(j)'
  BY DEF BudgetInv, Room
<1>t. LedgerType /\ ProcType /\ effects[j] \in Nat /\ abandoned[j] \in Nat
  BY DEF TypeOK
<1>k. \A p \in Procs : proc[p].pc \notin {"idle", "sweep"} => Key(p) \in Keys
  BY <1>t DEF ProcType, Key
<1>q. ASSUME \A k \in Keys : NoNewcomer(k), UNCHANGED <<effects, abandoned>>,
             row'[j].attempts = row[j].attempts
      PROVE  Room(j)'
  BY <1>q, <1>r, <1>t, RoomKept
<1>0. CASE UNCHANGED vars
  BY <1>0, <1>q DEF vars, NoNewcomer
<1>1. ASSUME NEW p \in Procs, LetsGo(p), UNCHANGED <<effects, abandoned>>,
             row'[j].attempts = row[j].attempts
      PROVE  Room(j)'
  <2>1. \A k \in Keys : NoNewcomer(k)
    BY <1>1, LeavingIsNoNewcomer DEF LetsGo, Away, Before
  <2>. QED BY <1>1, <1>q, <2>1
<1>2. ASSUME NEW p \in Procs,
             \/ PreconditionsRaise(p) \/ PostVerifyUnknown(p) \/ ProbeUnknown(p)
             \/ ReturnRecorded(p) \/ GiveUp(p) \/ SweepDone(p)
      PROVE  Room(j)'
  <2>1. LetsGo(p)
    BY <1>2, <1>t, Departs DEF PreconditionsRaise, PostVerifyUnknown, ProbeUnknown,
       ReturnRecorded, GiveUp, SweepDone
  <2>. QED BY <1>1, <1>2, <2>1 DEF PreconditionsRaise, PostVerifyUnknown, ProbeUnknown,
       ReturnRecorded, GiveUp, SweepDone
<1>3. ASSUME NEW p \in Procs, OwnerExecuteFails(p) \/ RecoveryExecuteFails(p) \/ Crash(p)
      PROVE  Room(j)'
  <2>1. LetsGo(p) /\ UNCHANGED <<row, effects>>
    BY <1>3, <1>t, Departs DEF OwnerExecuteFails, RecoveryExecuteFails, Crash
  <2>2. proc'[p].pc \notin Before /\ \A k \in Keys : NoNewcomer(k)
    BY <2>1, LeavingIsNoNewcomer DEF LetsGo, Away, Before
  <2>3. CASE proc[p].pc = "exec"
    <3>1. LeaveBehind(Key(p)) /\ Key(p) \in Keys
      BY <1>3, <1>k, <2>3 DEF OwnerExecuteFails, RecoveryExecuteFails, Crash
    <3>2. CASE j = Key(p)
      <4>1. abandoned'[j] = abandoned[j] + 1
        BY <3>1, <3>2 DEF LeaveBehind, TypeOK
      <4>. QED BY <1>r, <1>t, <2>1, <2>2, <2>3, <3>2, <4>1, RoomSpent
    <3>3. CASE j # Key(p)
      <4>1. abandoned'[j] = abandoned[j]
        BY <3>1, <3>3 DEF LeaveBehind, TypeOK
      <4>. QED BY <1>r, <1>t, <2>1, <2>2, <4>1, RoomKept
    <3>. QED BY <3>2, <3>3
  <2>4. CASE proc[p].pc # "exec"
    <3>1. UNCHANGED abandoned
      BY <1>3, <2>4 DEF OwnerExecuteFails, RecoveryExecuteFails, Crash
    <3>. QED BY <1>1, <2>1, <3>1
  <2>. QED BY <2>3, <2>4
<1>4. ASSUME NEW p \in Procs, NEW pc, GoTo(p, pc), pc \in Before => proc[p].pc \in Before,
             UNCHANGED <<effects, abandoned>>, row'[j].attempts = row[j].attempts
      PROVE  Room(j)'
  <2>1. \A k \in Keys : NoNewcomer(k)
    BY <1>4, <1>t, GoingOnIsNoNewcomer
  <2>. QED BY <1>4, <1>q, <2>1
<1>5. ASSUME NEW p \in Procs,
             \/ Preconditions(p) \/ ExecuteReturns(p) \/ PostVerify(p) \/ Probe(p) \/ Recheck(p)
      PROVE  Room(j)'
  <2>1. UNCHANGED <<row, effects, abandoned>>
    BY <1>5 DEF Preconditions, ExecuteReturns, PostVerify, Probe, Recheck
  <2>2. \E pc : GoTo(p, pc) /\ (pc \in Before => proc[p].pc \in Before)
    BY <1>5 DEF Preconditions, ExecuteReturns, PostVerify, Probe, Recheck, EffectFreeRecovery,
       Before
  <2>. QED BY <1>4, <2>1, <2>2
<1>6. ASSUME NEW p \in Procs, OwnerMark(p) \/ RecoveryMark(p) PROVE Room(j)'
  <2>1. UNCHANGED <<effects, abandoned>> /\ proc[p].pc = "mark" /\ Key(p) \in Keys
    BY <1>6, <1>k DEF OwnerMark, RecoveryMark
  <2>2. CASE MarkExecuting(Key(p), Epoch(p)) /\ GoTo(p, "exec")
    <3>1. row'[j].attempts = row[j].attempts
      BY <1>t, <2>1, <2>2 DEF MarkExecuting, LedgerType
    <3>. QED BY <1>4, <2>1, <2>2, <3>1 DEF Before
  <2>3. CASE UNCHANGED row /\ (Become(p, Elsewhere(p)) \/ Become(p, Awaiting(Key(p))))
    <3>1. LetsGo(p)
      BY <1>t, <2>1, <2>3, Departs
    <3>. QED BY <1>1, <2>1, <2>3, <3>1
  <2>. QED BY <1>6, <2>2, <2>3 DEF OwnerMark, RecoveryMark, ledgerVars
<1>7. ASSUME NEW p \in Procs, OwnerFinalize(p) \/ RecoveryFinalize(p) PROVE Room(j)'
  <2>1. UNCHANGED <<effects, abandoned>> /\ Key(p) \in Keys /\ LetsGo(p)
    BY <1>7, <1>k, <1>t, Departs DEF OwnerFinalize, RecoveryFinalize, Finalizing
  <2>2. UNCHANGED row \/ \E st : row' = [row EXCEPT ![Key(p)].state = st]
    BY <1>7 DEF OwnerFinalize, RecoveryFinalize, ledgerVars, Finalize
  <2>3. row'[j].attempts = row[j].attempts
    BY <1>t, <2>1, <2>2 DEF LedgerType
  <2>. QED BY <1>1, <2>1, <2>3
<1>8. ASSUME NEW p \in Procs, NEW k \in Keys,
             ClaimLost(p, k) \/ SkipUnregistered(p, k) \/ TakeRow(p, k)
      PROVE  Room(j)'
  <2>1. UNCHANGED <<row, effects, abandoned>>
    BY <1>8 DEF ClaimLost, SkipUnregistered, TakeRow
  <2>2. UNCHANGED proc \/ \E role, from : \/ Become(p, At("bump", role, k, 0, from))
                                          \/ Become(p, Awaiting(k))
    BY <1>8 DEF ClaimLost, SkipUnregistered, TakeRow
  <2>3. \A i \in Keys : NoNewcomer(i)
    BY <1>t, <2>2 DEF NoNewcomer, Become, Awaiting, At, ProcType, Before
  <2>. QED BY <1>q, <2>1, <2>3
<1>9. ASSUME NEW p \in Procs, Scan(p) \/ ReconcileInline(p) PROVE Room(j)'
  <2>1. UNCHANGED <<row, effects, abandoned>>
    BY <1>9 DEF Scan, ReconcileInline
  <2>2. Become(p, Sweeping) \/ \E k, from : Become(p, At("bump", "inline", k, 0, from))
    BY <1>9 DEF Scan, ReconcileInline
  <2>3. \A i \in Keys : NoNewcomer(i)
    BY <1>t, <2>2 DEF NoNewcomer, Become, Sweeping, At, ProcType, Before
  <2>. QED BY <1>q, <2>1, <2>3
<1>10. ASSUME NEW p \in Procs, EffectLands(p) PROVE Room(j)'
  <2>1. /\ proc[p].pc = "exec" /\ GoTo(p, "ran") /\ LandOn(Key(p)) /\ Key(p) \in Keys
        /\ UNCHANGED <<row, abandoned>>
    BY <1>10, <1>k DEF EffectLands
  <2>2. proc'[p].pc \notin Before /\ \A k \in Keys : NoNewcomer(k)
    BY <1>t, <2>1, GoingOnIsNoNewcomer DEF Before
  <2>3. CASE j = Key(p)
    <3>1. effects'[j] <= effects[j] + 1 /\ effects'[j] \in Nat
      BY <1>t, <2>1, <2>3 DEF LandOn, TypeOK
    <3>. QED BY <1>r, <1>t, <2>1, <2>2, <2>3, <3>1, RoomSpent
  <2>4. CASE j # Key(p)
    <3>1. effects'[j] = effects[j]
      BY <2>1, <2>4 DEF LandOn, TypeOK
    <3>. QED BY <1>r, <1>t, <2>1, <2>2, <3>1, RoomKept
  <2>. QED BY <2>3, <2>4
<1>11. ASSUME NEW p \in Procs, NEW k \in Keys, NEW pc, NEW role, NEW from,
              Become(p, At(pc, role, k, row[k].attempts + 1, from)),
              UNCHANGED <<effects, abandoned>>,
              row'[k].attempts = row[k].attempts + 1,
              \A i \in Keys \ {k} : row'[i] = row[i]
       PROVE  Room(j)'
  <2>1. /\ \A q \in Procs \ {p} : proc'[q] = proc[q]
        /\ proc'[p].key = k /\ proc'[p].epoch = row[k].attempts + 1
    BY <1>11, <1>t DEF Become, At, ProcType
  <2>2. CASE j = k
    BY <1>11, <1>r, <2>1, <2>2, RoomGrown
  <2>3. CASE j # k
    <3>1. NoNewcomer(j)
      BY <2>1, <2>3 DEF NoNewcomer
    <3>. QED BY <1>11, <1>r, <1>t, <2>3, <3>1, RoomKept
  <2>. QED BY <2>2, <2>3
<1>12. ASSUME NEW p \in Procs, NEW k \in Keys, ClaimWon(p, k) PROVE Room(j)'
  <2>1. /\ row'[k].attempts = 1 /\ row[k].attempts = 0
        /\ \A i \in Keys \ {k} : row'[i] = row[i]
    BY <1>12, <1>t DEF ClaimWon, InsertClaim, Unclaimed, LedgerType, AsyncInv, EpochInv
  <2>2. Become(p, At("precond", "owner", k, row[k].attempts + 1, "none"))
    BY <1>12, <2>1 DEF ClaimWon
  <2>. QED BY <1>11, <1>12, <2>1, <2>2 DEF ClaimWon
<1>13. ASSUME NEW p \in Procs, Bump(p) PROVE Room(j)'
  <2>1. Key(p) \in Keys /\ UNCHANGED <<effects, abandoned>>
    BY <1>13, <1>k DEF Bump
  <2>2. CASE BumpEpoch(Key(p)) /\ \E step, role, from :
               Become(p, At(step, role, Key(p), row[Key(p)].attempts + 1, from))
    <3>1. /\ row'[Key(p)].attempts = row[Key(p)].attempts + 1
          /\ \A i \in Keys \ {Key(p)} : row'[i] = row[i]
      BY <1>t, <2>1, <2>2 DEF BumpEpoch, LedgerType
    <3>. QED BY <1>11, <2>1, <2>2, <3>1
  <2>3. CASE UNCHANGED row /\ Become(p, Elsewhere(p))
    <3>1. LetsGo(p)
      BY <1>t, <2>1, <2>3, Departs
    <3>. QED BY <1>1, <2>1, <2>3, <3>1
  <2>. QED BY <1>13, <2>2, <2>3 DEF Bump, ledgerVars
<1>14. ASSUME NEW k \in Keys, AbandonedLands(k) \/ AbandonedEnds(k) PROVE Room(j)'
  <2>1. UNCHANGED <<row, proc>> /\ \A i \in Keys : NoNewcomer(i)
    BY <1>14 DEF AbandonedLands, AbandonedEnds, NoNewcomer
  <2>2. effects'[j] + abandoned'[j] <= effects[j] + abandoned[j]
    <3>1. CASE j = k
      BY <1>14, <1>t, <3>1 DEF AbandonedLands, AbandonedEnds, LandOn, TypeOK
    <3>2. CASE j # k
      BY <1>14, <1>t, <3>2 DEF AbandonedLands, AbandonedEnds, LandOn, TypeOK
    <3>. QED BY <3>1, <3>2
  <2>. QED BY <1>r, <1>t, <2>1, <2>2, RoomKept
<1>15. ASSUME NEW k \in Keys, Expire(k) PROVE Room(j)'
  <2>1. /\ UNCHANGED <<proc, effects, abandoned>> /\ \A i \in Keys : NoNewcomer(i)
        /\ row'[j].attempts = row[j].attempts
    BY <1>15, <1>t DEF Expire, GrowStale, LedgerType, NoNewcomer
  <2>. QED BY <1>q, <2>1
<1>. QED
  BY <1>0, <1>2, <1>3, <1>5, <1>6, <1>7, <1>8, <1>9, <1>10, <1>12, <1>13, <1>14, <1>15,
     NextActions

-----------------------------------------------------------------------------
(* The properties.                                                         *)

\* PunctualInv holds throughout, whatever the timing: until a key's timing
\* slips, nobody acts on an effect that is not what they were told; and every
\* epoch a takeover hands out (commit.py:543) pays for one execution at most.
THEOREM PunctualInvariant == Spec => []PunctualInv
<1>1. Init => PunctualInv
  <2> SUFFICES ASSUME Init PROVE PunctualInv
    OBVIOUS
  <2>1. DutyInv /\ SpanInv /\ PendingInv /\ EffectInv
    BY DEF Init, LedgerInit, NoRow, Idle, At, DutyInv, SpanInv, PendingInv, EffectInv,
       RefusedEffectFree, InSpan, IsOwner, IsRecoverer, PunctualProcs, Key, Epoch, Holds
  <2>2. \A k \in Keys : Unspent(k) = {} /\ effects[k] = 0 /\ abandoned[k] = 0
                          /\ row[k].attempts = 0
    BY DEF Init, LedgerInit, NoRow, Idle, At, Unspent, Key, Epoch
  <2>3. BudgetInv
    <3>1. Cardinality({}) = 0
      BY FS_EmptySet
    <3> SUFFICES ASSUME NEW k \in Keys
                 PROVE  effects[k] + abandoned[k] + Cardinality(Unspent(k)) <= row[k].attempts
      BY DEF BudgetInv
    <3>. DEFINE unspent == Cardinality(Unspent(k))
    <3>2. unspent = 0 /\ effects[k] = 0 /\ abandoned[k] = 0 /\ row[k].attempts = 0
      BY <2>2, <3>1
    <3>. HIDE DEF unspent
    <3>3. effects[k] + abandoned[k] + unspent <= row[k].attempts
      BY <3>2
    <3>. QED BY <3>3 DEF unspent
  <2>. QED BY <2>1, <2>3 DEF PunctualInv
<1>2. TypeOK /\ AsyncInv => (PunctualInv <=> AllFit /\ BudgetInv)
  BY FitsPunctualInv
<1>3. TypeOK /\ TypeOK' /\ AsyncInv /\ AllFit /\ BudgetInv /\ [Next]_vars => AllFit' /\ BudgetInv'
  BY PunctualStep, BudgetStep
<1>. QED BY <1>1, <1>2, <1>3, TypeCorrect, AsyncInvariant, PTL DEF Spec

\* A verify-only effect lands at most once while its timing holds, also when
\* recovery retries what a probe found absent (on_absent="retry"); and once an
\* epoch, however slow its owners and however late their calls.
THEOREM VerifiableAtMostOnce == Spec => []AtMostOnceVerifiable
<1>1. TypeOK /\ PunctualInv => AtMostOnceVerifiable
  <2> SUFFICES ASSUME TypeOK, PunctualInv, NEW k \in Keys
               PROVE  effects[k] <= IF Punctual(k) THEN 1 ELSE row[k].attempts
    BY DEF AtMostOnceVerifiable
  <2>1. CASE Punctual(k)
    BY <2>1 DEF PunctualInv, EffectInv
  <2>2. CASE ~Punctual(k)
    <3>1. /\ effects[k] \in Nat /\ abandoned[k] \in Nat /\ row[k].attempts \in Nat
          /\ Cardinality(Unspent(k)) \in Nat
      BY RoomType
    <3>. QED BY <2>2, <3>1 DEF PunctualInv, BudgetInv
  <2>. QED BY <2>1, <2>2
<1>. QED BY <1>1, TypeCorrect, PunctualInvariant, PTL

\* Nothing refused took effect, before or after: an aborted or failed row is
\* effect-free and stays so, unless the timing of its key slipped.
THEOREM RefusedIsEffectFree == Spec => []RefusedEffectFree
<1>1. PunctualInv => RefusedEffectFree
  BY DEF PunctualInv, EffectInv
<1>. QED BY <1>1, PunctualInvariant, PTL

-----------------------------------------------------------------------------
(* The refinement.                                                         *)

Outcome(k) == IF IsInFlight(k) THEN "open" ELSE row[k].state

Slipped == {k \in Keys : ~Punctual(k)}

\* A step that moves rows among the in-flight states only is a stutter of the
\* promise.
LEMMA Stutters ==
    ASSUME UNCHANGED <<effects, told, slips>>, \A k \in Keys : Outcome(k)' = Outcome(k)
    PROVE  UNCHANGED Promised!absVars
BY DEF Promised!absVars, Outcome, IsInFlight, Punctual

\* If it also lets the timing of one key slip, that is all the promise sees.
LEMMA SlipStutters ==
    ASSUME slips \in [Keys -> SUBSET Slips], NEW k \in Keys, NEW condition, NEW what,
           SlipIf(k, condition, what), UNCHANGED <<effects, told>>, IsInFlight(k),
           \A j \in Keys : Outcome(j)' = Outcome(j)
    PROVE  Promised!Slip(k) \/ UNCHANGED Promised!absVars
<1>1. /\ \A j \in Keys \ {k} : Punctual(j)' <=> Punctual(j)
      /\ Punctual(k)' => Punctual(k)
      /\ (~condition => (Punctual(k)' <=> Punctual(k)))
  BY SlipIfStays DEF SlipsStay
<1>2. CASE Punctual(k)' <=> Punctual(k)
  <2>1. Slipped' = Slipped
    BY <1>1, <1>2 DEF Slipped
  <2>. QED BY <2>1 DEF Promised!absVars, Slipped, Outcome, IsInFlight
<1>3. CASE ~(Punctual(k)' <=> Punctual(k))
  <2>1. Slipped' = Slipped \union {k}
    BY <1>1, <1>3 DEF Slipped
  <2>. QED BY <2>1 DEF Promised!Slip, Slipped, Outcome, IsInFlight
<1>. QED BY <1>2, <1>3

\* A step that changes the outcome of one key only changes that function there.
LEMMA OneOutcome ==
    ASSUME NEW k \in Keys, \A j \in Keys \ {k} : row'[j] = row[j]
    PROVE  [j \in Keys |-> Outcome(j)'] = [[j \in Keys |-> Outcome(j)] EXCEPT ![k] = Outcome(k)']
BY DEF Outcome, IsInFlight

\* Every step of the protocol is one of the promise's, or a stutter.
LEMMA StepImplements ==
    ASSUME TypeOK, AsyncInv, AllFit, [Next]_vars
    PROVE  [Promised!AbsNext]_(Promised!absVars)
<1>t. LedgerType /\ ProcType /\ slips \in [Keys -> SUBSET Slips]
  BY DEF TypeOK
<1>k. \A p \in Procs : proc[p].pc \notin {"idle", "sweep"} => Key(p) \in Keys
  BY <1>t DEF ProcType, Key
<1>f. \A p \in Procs : Calm(p) => Fit(p)
  BY DEF AllFit
<1>0. CASE UNCHANGED <<row, effects, told, slips>>
  <2>1. \A k \in Keys : Outcome(k)' = Outcome(k)
    BY <1>0 DEF Outcome, IsInFlight
  <2>. QED BY <1>0, <2>1, Stutters
<1>s. UNCHANGED slips => Slipped' = Slipped
  BY DEF Slipped, Punctual
<1>1. ASSUME NEW p \in Procs, NEW k \in Keys, ClaimWon(p, k) PROVE Promised!Open(k)
  <2>1. /\ \A j \in Keys \ {k} : row'[j] = row[j]
        /\ row[k].state = "none" /\ row'[k].state = "pending"
        /\ UNCHANGED <<effects, told, slips>>
    BY <1>1, <1>t DEF ClaimWon, InsertClaim, Unclaimed, LedgerType
  <2>2. Outcome(k) = "none" /\ Outcome(k)' = "open"
    BY <2>1 DEF Outcome, IsInFlight, InFlight
  <2>. QED BY <1>s, <2>1, <2>2, OneOutcome DEF Promised!Open, Outcome, Slipped
<1>2. ASSUME NEW k \in Keys, IsTerminal(k), Tell(k, row[k].state),
             UNCHANGED <<row, effects, slips>>
      PROVE  Promised!Report(k)
  <2>1. Outcome(k) = row[k].state /\ row[k].state \in {"committed", "aborted", "failed", "unknown"}
    BY <1>2 DEF Outcome, IsInFlight, InFlight, IsTerminal, Terminal
  <2>. QED BY <1>2, <1>s, <2>1
       DEF Promised!Report, Promised!Resolutions, Outcome, Tell, IsInFlight, Slipped
<1>3. ASSUME NEW p \in Procs, OwnerMark(p) \/ RecoveryMark(p) PROVE UNCHANGED Promised!absVars
  <2>0. /\ Key(p) \in Keys /\ UNCHANGED <<effects, told, slips>>
        /\ UNCHANGED row \/ MarkExecuting(Key(p), Epoch(p))
    BY <1>3, <1>k DEF OwnerMark, RecoveryMark, ledgerVars
  <2>1. \A k \in Keys : row'[k].state = row[k].state
                          \/ (row[k].state \in InFlight /\ row'[k].state \in InFlight)
    BY <1>t, <2>0 DEF MarkExecuting, MarkMatches, LedgerType, InFlight
  <2>2. \A k \in Keys : Outcome(k)' = Outcome(k)
    BY <2>1 DEF Outcome, IsInFlight
  <2>. QED BY <2>0, <2>2, Stutters
<1>4. ASSUME NEW k \in Keys, NEW condition, NEW what, SlipIf(k, condition, what),
             UNCHANGED <<effects, told>>, IsInFlight(k),
             \A j \in Keys : row'[j].state = row[j].state
      PROVE  Promised!Slip(k) \/ UNCHANGED Promised!absVars
  <2>1. \A j \in Keys : Outcome(j)' = Outcome(j)
    BY <1>4 DEF Outcome, IsInFlight
  <2>. QED BY <1>4, <1>t, <2>1, SlipStutters
<1>5. ASSUME NEW p \in Procs, Bump(p)
      PROVE  (\E k \in Keys : Promised!Slip(k)) \/ UNCHANGED <<row, effects, told, slips>>
                \/ UNCHANGED Promised!absVars
  <2>1. Key(p) \in Keys /\ UNCHANGED <<effects, told>>
    BY <1>5, <1>k DEF Bump
  <2>2. CASE BumpEpoch(Key(p)) /\ SlipIf(Key(p), proc[p].from # row[Key(p)].state, "outdated")
    <3>1. IsInFlight(Key(p)) /\ \A j \in Keys : row'[j].state = row[j].state
      BY <1>t, <2>1, <2>2 DEF BumpEpoch, BumpMatches, LedgerType
    <3>. QED BY <1>4, <2>1, <2>2, <3>1
  <2>. QED BY <1>5, <2>1, <2>2 DEF Bump, ledgerVars
<1>6. ASSUME NEW k \in Keys, Expire(k)
      PROVE  (\E j \in Keys : Promised!Slip(j)) \/ UNCHANGED Promised!absVars
  <2>1. IsInFlight(k) /\ \A j \in Keys : row'[j].state = row[j].state
    BY <1>6, <1>t DEF Expire, GrowStale, LedgerType
  <2>. QED BY <1>4, <1>6, <2>1 DEF Expire
<1>7. ASSUME NEW k \in Keys, LandOn(k), ~UNCHANGED effects, UNCHANGED <<row, told>>,
             row[k].state # "none", Slipped' = Slipped \union {k}
      PROVE  Promised!LandAnyway(k)
  <2>1. effects[k] \in Nat /\ (k \in KeyParam => effects[k] <= 1)
    BY DEF TypeOK, AllFit
  <2>2. PICK n : n = IF k \in KeyParam THEN 1 ELSE effects[k] + 1
    OBVIOUS
  <2>s. effects' = [effects EXCEPT ![k] = n]
    BY <1>7, <2>2 DEF LandOn
  <2>n. n = effects[k] + 1
    BY <1>7, <2>1, <2>2, <2>s DEF TypeOK
  <2>3. effects' = [effects EXCEPT ![k] = effects[k] + 1]
    BY <2>s, <2>n, Zenon
  <2>4. Outcome(k) # "none"
    BY <1>7 DEF Outcome, IsInFlight
  <2>. QED BY <1>7, <2>3, <2>4 DEF Promised!LandAnyway, Outcome, IsInFlight, Slipped
<1>8. ASSUME NEW k \in Keys, LandOn(k), ~UNCHANGED effects, UNCHANGED <<row, told>>,
             row[k].state \in InFlight \union {"unknown"}, k \notin KeyParam => effects[k] = 0,
             Slipped' = Slipped
      PROVE  Promised!Land(k)
  <2>1. effects[k] \in Nat /\ (k \in KeyParam => effects[k] <= 1)
    BY DEF TypeOK, AllFit
  <2>2. effects[k] = 0
    BY <1>8, <2>1 DEF LandOn, TypeOK
  <2>3. effects' = [effects EXCEPT ![k] = 1]
    BY <1>8, <2>2 DEF LandOn
  <2>4. Outcome(k) \in {"open", "unknown"}
    BY <1>8 DEF Outcome, IsInFlight
  <2>. QED BY <1>8, <2>2, <2>3, <2>4 DEF Promised!Land, Outcome, IsInFlight, Slipped
<1>9. ASSUME NEW p \in Procs, EffectLands(p), ~UNCHANGED effects
      PROVE  \E k \in Keys : Promised!Land(k) \/ Promised!LandAnyway(k)
  <2>1. PICK k \in Keys : k = Key(p)
    BY <1>9, <1>k DEF EffectLands
  <2>2. /\ proc[p].pc = "exec" /\ LandOn(k) /\ UNCHANGED <<row, told, slips>>
        /\ row[k].state \notin {"none", "pending"}
    BY <1>9, <2>1 DEF EffectLands, AsyncInv, MarkInv, Marked
  <2>3. CASE Calm(p)
    <3>1. row[k].state \in InFlight /\ (k \notin KeyParam => effects[k] = 0)
      BY <1>f, <2>1, <2>2, <2>3 DEF Fit, InWindowSteps
    <3>. QED BY <1>8, <1>9, <1>s, <2>2, <3>1
  <2>4. CASE ~Calm(p)
    <3>1. k \in Slipped
      BY <2>1, <2>4 DEF Slipped, Calm
    <3>. QED BY <1>7, <1>9, <1>s, <2>2, <3>1
  <2>. QED BY <2>3, <2>4
<1>10. ASSUME NEW k \in Keys, AbandonedLands(k)
       PROVE  \/ \E j \in Keys : Promised!Land(j) \/ Promised!LandAnyway(j)
              \/ UNCHANGED <<row, effects, told, slips>>
  <2>1. /\ LandOn(k) /\ UNCHANGED <<row, told>> /\ abandoned[k] > 0
        /\ SlipIf(k, ~InTime(k), "late")
    BY <1>10 DEF AbandonedLands
  <2>2. CASE UNCHANGED effects
    <3>1. k \in KeyParam /\ effects[k] = 1
      BY <2>1, <2>2 DEF LandOn, TypeOK
    <3>2. slips'[k] = slips[k] /\ slips' = [slips EXCEPT ![k] = slips'[k]]
      BY <1>t, <2>1, <3>1 DEF SlipIf, InTime
    <3>3. UNCHANGED slips
      BY <1>t, <3>2
    <3>. QED BY <2>1, <2>2, <3>3
  <2>3. CASE ~UNCHANGED effects /\ InTime(k)
    <3>1. /\ \A j \in Keys : Punctual(j)' <=> Punctual(j)
      BY <1>t, <2>1, <2>3, SlipIfStays
    <3>2. ~(k \in KeyParam /\ effects[k] = 1)
      BY <2>1, <2>3 DEF LandOn, TypeOK
    <3>3. row[k].state \in InFlight \union {"unknown"} /\ effects[k] = 0
      BY <2>3, <3>2 DEF InTime, IsInFlight
    <3>. QED BY <1>8, <2>1, <2>3, <3>1, <3>3 DEF Slipped
  <2>4. CASE ~UNCHANGED effects /\ ~InTime(k)
    <3>1. /\ \A j \in Keys \ {k} : Punctual(j)' <=> Punctual(j)
          /\ ~Punctual(k)'
      BY <1>t, <2>1, <2>4, SlipIfStays
    <3>2. row[k].state # "none"
      BY <2>1 DEF AsyncInv, MarkInv, Marked, TypeOK
    <3>3. Slipped' = Slipped \union {k}
      BY <3>1 DEF Slipped
    <3>. QED BY <1>7, <2>1, <2>4, <3>2, <3>3
  <2>. QED BY <2>2, <2>3, <2>4
<1>11. ASSUME NEW p \in Procs, OwnerFinalize(p) \/ RecoveryFinalize(p), ~UNCHANGED <<row, told>>
       PROVE  \E k \in Keys, o \in Terminal : Promised!Resolve(k, o)
  <2>k. PICK k \in Keys : k = Key(p)
    BY <1>11, <1>k DEF OwnerFinalize, RecoveryFinalize, Finalizing
  <2>o. PICK o \in Terminal : o = Target(proc[p].pc)
    BY <1>11, TargetTerminal DEF OwnerFinalize, RecoveryFinalize
  <2>1. /\ Finalizing(p) /\ UNCHANGED <<effects, slips>>
        /\ \E new : Finalize(k, Epoch(p), o, new)
        /\ UNCHANGED told \/ Tell(k, o)
    BY <1>11, <2>k, <2>o DEF OwnerFinalize, RecoveryFinalize, Finalizing, ledgerVars
  <2>2. /\ \A j \in Keys \ {k} : row'[j] = row[j]
        /\ row[k].state \in InFlight /\ row'[k].state = o
        /\ Epoch(p) = row[k].attempts
    BY <1>t, <2>1 DEF Finalize, FinalizeMatches, FinalizeFrom, InFlight, LedgerType
  <2>3. Epoch(p) > 0
    BY <2>1 DEF AsyncInv, EpochInv, TypeOK, ProcType, ProcRecord, Epoch, Finalizing
  <2>4. o \in {"aborted", "failed"} => effects[k] = 0 \/ k \in Slipped
    <3>1. k \notin Slipped => Calm(p)
      BY <2>k DEF Slipped, Calm
    <3>. QED BY <1>f, <2>k, <2>o, <2>1, <2>2, <2>3, <3>1 DEF Fit, Target, Finalizing
  <2>5. o = "committed" /\ k \in Vouched => effects[k] > 0
    BY <2>k, <2>o, <2>1 DEF AsyncInv, CommitInv, Target, Finalizing
  <2>6. Outcome(k) = "open" /\ Outcome(k)' = o
    BY <2>1, <2>2 DEF Outcome, IsInFlight, InFlight, Terminal
  <2>7. Promised!Truthful(k, o)
    BY <2>4, <2>5 DEF Promised!Truthful, Slipped
  <2>8. Promised!Resolve(k, o)
    BY <1>s, <2>1, <2>2, <2>6, <2>7, OneOutcome DEF Promised!Resolve, Outcome, Tell, Slipped
  <2>. QED BY <2>8
<1>12. ASSUME NEW p \in Procs, NEW k \in Keys, ClaimLost(p, k),
              ~UNCHANGED <<row, effects, told, slips>>
       PROVE  Promised!Report(k)
  BY <1>2, <1>12 DEF ClaimLost
<1>13. ASSUME NEW p \in Procs, ReturnRecorded(p) PROVE Promised!Report(Key(p)) /\ Key(p) \in Keys
  <2>1. PICK k \in Keys : k = Key(p)
    BY <1>13, <1>k DEF ReturnRecorded
  <2>. QED BY <1>2, <1>13, <2>1 DEF ReturnRecorded
<1>a. Promised!Resolutions = Terminal
  BY DEF Promised!Resolutions, Terminal
<1>b. ASSUME NEW p \in Procs, EffectLands(p), UNCHANGED effects
      PROVE  UNCHANGED <<row, effects, told, slips>>
  BY <1>b DEF EffectLands
<1>c. ASSUME NEW p \in Procs, OwnerFinalize(p) \/ RecoveryFinalize(p), UNCHANGED <<row, told>>
      PROVE  UNCHANGED <<row, effects, told, slips>>
  BY <1>c DEF OwnerFinalize, RecoveryFinalize
<1>d. ASSUME NEW p \in Procs,
             \/ \E k \in Keys : TakeRow(p, k) \/ SkipUnregistered(p, k)
             \/ Scan(p) \/ Preconditions(p) \/ ExecuteReturns(p) \/ PostVerify(p)
             \/ ReconcileInline(p) \/ GiveUp(p) \/ SweepDone(p) \/ Probe(p) \/ Recheck(p)
             \/ PreconditionsRaise(p) \/ OwnerExecuteFails(p) \/ RecoveryExecuteFails(p)
             \/ PostVerifyUnknown(p) \/ ProbeUnknown(p) \/ Crash(p)
      PROVE  UNCHANGED <<row, effects, told, slips>>
  BY <1>d DEF TakeRow, SkipUnregistered, Scan, Preconditions, ExecuteReturns, PostVerify,
     ReconcileInline, GiveUp, SweepDone, Probe, Recheck, PreconditionsRaise,
     OwnerExecuteFails, RecoveryExecuteFails, PostVerifyUnknown, ProbeUnknown, Crash
<1>e. UNCHANGED vars => UNCHANGED <<row, effects, told, slips>>
  BY DEF vars
<1>g. ASSUME NEW k \in Keys, AbandonedEnds(k) PROVE UNCHANGED <<row, effects, told, slips>>
  BY <1>g DEF AbandonedEnds
<1>. QED
  <2>1. \/ Promised!AbsNext
        \/ UNCHANGED Promised!absVars
        \/ UNCHANGED <<row, effects, told, slips>>
    BY <1>1, <1>3, <1>5, <1>6, <1>9, <1>10, <1>11, <1>12, <1>13, <1>a, <1>b, <1>c, <1>d, <1>e,
       <1>g, NextActions
       DEF Promised!AbsNext
  <2>. QED BY <1>0, <2>1

\* commit_once and the reconciler implement the promise DurablePause relies
\* on, with no assumption on timing: each claimed action is resolved at most
\* once, truthfully, with one effect, and reported as resolved; an effect more,
\* or a wrong refusal, is for a key whose timing slipped.
THEOREM ProtocolImplementsPromise == Spec => ImplementsExactlyOnce
<1>1. Init => Promised!AbsInit
  BY DEF Init, LedgerInit, NoRow, Promised!AbsInit, IsInFlight, InFlight, Punctual
<1>2. TypeOK /\ AsyncInv /\ PunctualInv /\ [Next]_vars => [Promised!AbsNext]_(Promised!absVars)
  BY FitsPunctualInv, StepImplements
<1>. QED
  BY <1>1, <1>2, TypeCorrect, AsyncInvariant, PunctualInvariant, PTL
     DEF Spec, ImplementsExactlyOnce, Promised!AbsSpec
=============================================================================

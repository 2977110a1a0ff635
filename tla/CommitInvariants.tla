-------------------------- MODULE CommitInvariants --------------------------
(***************************************************************************)
(* The inductive invariants behind the safety properties of                *)
(* CommitProtocol: what the runs check on small instances first, and what  *)
(* CommitSafetyProofs and CommitPromiseProofs show every step to preserve. *)
(***************************************************************************)
EXTENDS CommitProtocol, FiniteSets

\* The executing marker of row k is durable.
Marked(k) == row[k].state \notin {"none", "pending"}

\* Whoever is past the mark, or has read an executing row, has a marked row;
\* so an unmarked row has no effect and no call under way.
MarkInv ==
    /\ \A p \in Procs :
         /\ proc[p].pc \in {"exec", "ran", "verify", "commit", "fail"} => Marked(Key(p))
         /\ proc[p].from = "executing" => Marked(Key(p))
         /\ proc[p].pc \in {"probe", "unknown"} => proc[p].from = "executing"
         /\ proc[p].pc \in {"bump", "recheck"} => proc[p].from # "none"
         /\ proc[p].pc \in {"idle", "sweep", "await"} => proc[p].from = "none"
         /\ \A k \in Keys : todo[p][k] = "executing" => Marked(k)
    /\ \A k \in Keys : ~Marked(k) => effects[k] = 0 /\ abandoned[k] = 0

\* Epochs are handed out once: none is above the row's, no two are equal.
EpochInv ==
    /\ \A k \in Keys : row[k].attempts = 0 <=> row[k].state = "none"
    /\ \A p \in Procs : Epoch(p) > 0 => Key(p) \in Keys /\ Epoch(p) <= row[Key(p)].attempts
    /\ \A p \in Procs : proc[p].pc \in {"idle", "sweep", "await", "bump"} <=> Epoch(p) = 0
    /\ OneHolderPerEpoch

\* For a key that is never re-executed, the executor, the calls it left
\* behind and the landed effect are one and the same execution.
OnceInv ==
    \A k \in NeverReexecuted :
        /\ effects[k] + abandoned[k] <= 1
        /\ \A p \in Procs : Key(p) = k =>
             /\ proc[p].pc = "exec" => effects[k] = 0 /\ abandoned[k] = 0
             /\ proc[p].pc = "probe" => "retry" \notin OnAbsent
             /\ proc[p].pc = "recheck" => proc[p].from = "pending"
        /\ \A p, q \in Procs :
             /\ Key(p) = k /\ proc[p].pc = "exec"
             /\ Key(q) = k /\ proc[q].pc = "exec"
             => p = q

\* What a process about to write "committed" knows.
CommitInv ==
    \A p \in Procs :
        /\ proc[p].pc = "ran" => effects[Key(p)] > 0
        /\ proc[p].pc = "commit" /\ Key(p) \in Vouched => effects[Key(p)] > 0

\* What makes the untimed safety properties inductive, taken together.
AsyncInv == MarkInv /\ EpochInv /\ OnceInv /\ CommitInv

-----------------------------------------------------------------------------
(* Every epoch pays for one execution.                                     *)

\* The epochs of row k whose holder has not executed yet.
Unspent(k) ==
    {e \in 1..row[k].attempts :
        \E p \in Procs :
            /\ Key(p) = k /\ Epoch(p) = e
            /\ proc[p].pc \in {"precond", "mark", "probe", "recheck", "exec"}}

\* What landed, what is under way unattended and what may still be started
\* are executions of different epochs.
BudgetInv ==
    \A k \in Keys : effects[k] + abandoned[k] + Cardinality(Unspent(k)) <= row[k].attempts

-----------------------------------------------------------------------------
(* What holds for a key as long as its timing has not slipped.             *)

PunctualProcs == {p \in Procs : Key(p) \in Keys /\ Punctual(Key(p))}

\* A recovery begins with the fence, and who holds a row has not resolved it.
DutyInv ==
    \A p \in PunctualProcs :
        /\ proc[p].pc = "precond" => IsOwner(p)
        /\ proc[p].pc = "bump" => IsRecoverer(p)
        /\ Epoch(p) > 0 /\ Holds(p, Key(p)) => IsInFlight(Key(p))

\* Nobody is taken over inside its span, nor can be.
SpanInv ==
    \A p \in PunctualProcs :
        /\ InSpan(p) => Holds(p, Key(p)) /\ IsInFlight(Key(p)) /\ ~row[Key(p)].stale
        /\ proc[p].pc \in {"exec", "ran", "probe", "recheck"} => InSpan(p)

\* Until it marks the row itself, a holder that found it pending finds it so.
PendingInv ==
    \A p \in PunctualProcs :
        /\ Epoch(p) > 0 /\ Holds(p, Key(p)) /\ IsInFlight(Key(p))
        /\ \/ IsOwner(p) /\ proc[p].pc \in {"precond", "mark", "abort"}
           \/ IsRecoverer(p) /\ proc[p].from = "pending"
                             /\ proc[p].pc \in {"recheck", "mark", "abort"}
        => row[Key(p)].state = "pending"

\* Who is about to execute, or to say "aborted" or "failed", and still holds
\* the row, has an effect-free row.
EffectInv ==
    /\ \A p \in PunctualProcs :
         /\ \/ proc[p].pc = "exec" /\ Key(p) \notin KeyParam
            \/ proc[p].pc = "recheck" /\ Key(p) \notin KeyParam
            \/ Epoch(p) > 0 /\ proc[p].pc \in {"abort", "fail"} /\ Holds(p, Key(p))
         => effects[Key(p)] = 0
    /\ \A k \in Keys : Punctual(k) \/ k \in KeyParam => effects[k] <= 1
    /\ RefusedEffectFree

\* Until its timing slips, an unmarked or probed-absent row is effect-free
\* when its holder acts on that; and no epoch executes twice in any case.
PunctualInv == DutyInv /\ SpanInv /\ PendingInv /\ EffectInv /\ BudgetInv
=============================================================================

-------------------------- MODULE CommitLivenessMC --------------------------
(***************************************************************************)
(* CommitProtocolMC with a budget of faults and the fairness of a          *)
(* deployment in which the sweep runs again and again.                     *)
(***************************************************************************)
EXTENDS CommitProtocolMC

CONSTANT MaxFaults     \* bound: crashes, raises and unknown probes, in total

VARIABLE faults

liveVars == <<vars, faults>>

LiveInit == Init /\ faults = 0

\* A row's holder finishes its call, a recovery its last ledger write, before
\* the row goes stale again: otherwise takeovers could go on for ever.
Unhurried(k) ==
    \A p \in Procs :
        Holds(p, k) => \/ IsOwner(p) /\ proc[p].pc \notin {"exec", "ran"}
                       \/ IsRecoverer(p) /\ proc[p].pc \notin RecoverySteps

LiveExpire(k) == Unhurried(k) /\ Expire(k)

LiveNext ==
    \/ (\E p \in Procs : Start(p) \/ Progress(p)) /\ UNCHANGED faults
    \/ (\E k \in Keys : AbandonedLands(k) \/ AbandonedEnds(k) \/ LiveExpire(k))
       /\ UNCHANGED faults
    \/ /\ faults < MaxFaults
       /\ \E p \in Procs : Fault(p)
       /\ faults' = faults + 1

\* Started processes keep running, the sweeper is started again whenever it
\* has finished, and time passes.  Nobody has to call commit_once.
Fairness ==
    /\ \A p \in Procs : WF_liveVars(Progress(p) /\ UNCHANGED faults)
    /\ \A p \in Sweepers : WF_liveVars(Scan(p) /\ UNCHANGED faults)
    /\ \A k \in Keys : WF_liveVars(LiveExpire(k) /\ UNCHANGED faults)

LiveSpec == LiveInit /\ [][LiveNext]_liveVars /\ Fairness

\* Every claimed row is resolved in the end, whatever crashed on the way:
\* the sweep takes a stranded row over and brings it to a terminal state.
EventuallyResolved == \A k \in Keys : IsInFlight(k) ~> IsTerminal(k)
=============================================================================

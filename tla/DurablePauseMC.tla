--------------------------- MODULE DurablePauseMC ---------------------------
(***************************************************************************)
(* Instances of DurablePause for TLC, with and without fairness.           *)
(***************************************************************************)
EXTENDS DurablePause, TLC

CONSTANTS
    g1, g2, r1, r2, sw, kGate, kBoth,
    MaxFaults          \* bound: crashes and raises in a fair run, in total

VARIABLE faults

fairVars == <<vars, faults>>

\* View of the safety run.  What commit_once told its callers decides nothing
\* about a paused run; nor does a decision in hand once it has been compared
\* and set; nor, once the run is resolved, which decisions there are to deliver,
\* whether a poll might look for them, and how often the run was driven: who
\* reads it now reports it.
Closed(k) == status[k] \in Resolved
InHand(p) ==
    CASE proc[p].pc \notin {"cas", "read"} -> [proc[p] EXCEPT !.verdict = "none"]
      [] proc[p].pc \in {"cas", "read"} /\ Closed(Key(p)) ->
            [proc[p] EXCEPT !.verdict = "none", !.drives = 0]
      [] OTHER -> proc[p]
Deliverable(k) == IF Closed(k) THEN {} ELSE verdicts[k]
WhatMatters ==
    <<status, trail, events, asked, said, outcome, effects, slipped,
      [k \in Keys |-> polled[k] /\ ~Closed(k)], [k \in Keys |-> Deliverable(k)],
      [p \in Procs |-> InHand(p)]>>

FreeInit == Init /\ faults = 0
FreeNext == Next /\ UNCHANGED faults
FreeSpec == FreeInit /\ [][FreeNext]_fairVars

FairNext ==
    \/ (\E p \in Procs : Start(p) \/ Progress(p)) /\ UNCHANGED faults
    \/ Environment /\ UNCHANGED faults
    \/ /\ faults < MaxFaults
       /\ \E p \in Procs : Fault(p)
       /\ faults' = faults + 1

\* Started processes run on, the paused sweep and the backstop poll are
\* started again whenever they have finished, and the ledger resolves what
\* was claimed (CommitLiveness).  Nobody need deliver, resume or gate again.
PauseFairness ==
    /\ \A p \in Procs : WF_fairVars(Progress(p) /\ UNCHANGED faults)
    /\ \A p \in Sweepers, k \in Keys :
         /\ SF_fairVars(SweepTakes(p, k) /\ UNCHANGED faults)
         /\ SF_fairVars(PollTakes(p, k) /\ UNCHANGED faults)
    /\ \A k \in Keys : WF_fairVars(LedgerResolves(k) /\ UNCHANGED faults)

FairSpec == FreeInit /\ [][FairNext]_fairVars /\ PauseFairness

\* An approved run is never stranded: whatever crashed after the approval,
\* the sweep drives it to the end.
ApprovedIsDriven == \A k \in Keys : status[k] = "approved" ~> status[k] \in Resolved

\* A decision the control plane holds for a run on record there is applied,
\* with no webhook delivered at all.
DecisionIsFetched ==
    \A k \in Keys : polled[k] /\ verdicts[k] # {} ~> status[k] # "proposed"

\* A rejected run reaches its terminal event too.
RejectedIsClosed == \A k \in Keys : status[k] = "rejected" ~> status[k] \in Resolved
=============================================================================

---------------------------- MODULE DurablePause ----------------------------
(***************************************************************************)
(* The durable pause (airlock/pause.py): a gated call is persisted, shown  *)
(* to a human, and driven home by apply_decision, which every path that    *)
(* learns of a decision goes through: the waiting @guard call, a webhook,  *)
(* Airlock.resume, the paused sweep and the backstop poll.                 *)
(*                                                                         *)
(* The commit ledger is the abstract one of ExactlyOnce: CommitProtocol    *)
(* implements it, timing slips included, and apply_decision relies on      *)
(* nothing else.  One store transaction, transport call or ledger step is  *)
(* one step here.                                                          *)
(***************************************************************************)
EXTENDS Naturals, Sequences

CONSTANTS
    Gates,             \* threads inside a gated @guard call
    Receivers,         \* webhook requests and Airlock.resume calls
    Sweepers,          \* reconcile_paused and backstop_poll_paused passes
    Keys,              \* idempotency keys, one per guarded call and its args
    NoKey,             \* "works on no key"
    AutoKeys,          \* keys an ungated call may commit as well
    Wired,             \* processes that imported the action's registration
    Hosted,            \* the transport's receipts carry an approval_id
    Vouched,           \* keys whose "committed" vouches for the effect
    MaxEffects         \* bound: a key with this many effects gets none too late

VARIABLES
    status,            \* status[k]: the paused_runs row of key k
    polled,            \* polled[k]: its approval_id is recorded
    trail,             \* trail[k]: statuses of its pause_transition events
    events,            \* events[k]: the audit events that close k's action
    asked,             \* asked[k]: the approval request reached the human side
    verdicts,          \* verdicts[k]: decisions humans took there
    proc,              \* proc[p]: where process p is and what it remembers
    said,              \* said[k]: how calls for k were answered
    outcome, effects, told, slipped     \* the commit ledger's promise

Ledger == INSTANCE ExactlyOnce

ledgerVars == <<outcome, effects, told, slipped>>
rowVars == <<status, polled, trail, events>>
outsideVars == <<asked, verdicts>>
vars == <<rowVars, outsideVars, proc, said, ledgerVars>>

Procs == Gates \union Receivers \union Sweepers
Decisions == {"approved", "rejected"}
Statuses == {"none", "proposed", "approved", "rejected", "committed", "aborted"}
Resolved == {"committed", "aborted"}
Steps == {"idle", "send", "record", "wait", "poll", "cas", "read", "reject",
          "commit", "ledger", "close"}
Answers == {"result", "ApprovalRejected", "PreconditionFailed"}

ASSUME PauseAssumption ==
    /\ NoKey \notin Keys
    /\ AutoKeys \subseteq Keys /\ Vouched \subseteq Keys
    /\ Wired \subseteq Procs
    /\ Hosted \in BOOLEAN
    /\ MaxEffects \in Nat

\* What closes an action in the chain: the guarded call's action_event, or
\* the reconcile event of a takeover; it names how the action ended.
EventTypes == {"action_event", "reconcile"}
Event(type, o) == [type |-> type, outcome |-> o]
Events == [type: EventTypes, outcome: Ledger!Resolutions]

\* Rows, processes and the ledger keep their shape; a process that is not
\* idle works on a key, and one about to close a run has seen a resolution.
TypeOK ==
    /\ status \in [Keys -> Statuses]
    /\ polled \in [Keys -> BOOLEAN]
    /\ trail \in [Keys -> Seq(Statuses)]
    /\ events \in [Keys -> Seq(Events)]
    /\ asked \in [Keys -> BOOLEAN]
    /\ verdicts \in [Keys -> SUBSET Decisions]
    /\ proc \in [Procs -> [pc: Steps, key: Keys \union {NoKey},
                           verdict: Decisions \union {"none"},
                           seen: Ledger!Resolutions \union {"none"}, drives: Nat]]
    /\ \A p \in Procs :
         /\ proc[p].pc # "idle" => proc[p].key \in Keys
         /\ proc[p].pc = "cas" => proc[p].verdict # "none"
         /\ proc[p].pc = "close" => proc[p].seen # "none"
    /\ said \in [Keys -> SUBSET Answers]
    /\ outcome \in [Keys -> Ledger!Resolutions \union {"none", "open"}]
    /\ effects \in [Keys -> Nat]
    /\ told \in [Keys -> SUBSET Ledger!Resolutions]
    /\ slipped \subseteq Keys

-----------------------------------------------------------------------------
Idle == [pc |-> "idle", key |-> NoKey, verdict |-> "none", seen |-> "none", drives |-> 0]
Driving(pc, k, d) == [Idle EXCEPT !.pc = pc, !.key = k, !.verdict = d]

Key(p) == proc[p].key
Become(p, r) == proc' = [proc EXCEPT ![p] = r]
GoTo(p, pc) == proc' = [proc EXCEPT ![p].pc = pc]

Init ==
    /\ status = [k \in Keys |-> "none"]
    /\ polled = [k \in Keys |-> FALSE]
    /\ trail = [k \in Keys |-> <<>>]
    /\ events = [k \in Keys |-> <<>>]
    /\ asked = [k \in Keys |-> FALSE]
    /\ verdicts = [k \in Keys |-> {}]
    /\ proc = [p \in Procs |-> Idle]
    /\ said = [k \in Keys |-> {}]
    /\ Ledger!AbsInit

\* transition_paused: the guarded compare-and-set; the pause_transition event
\* is appended in the same transaction, and only when the row matched.
\* A faulty variant: the row is updated whatever its status.
TransitionMatchesAny(k, from) == status[k] # "none"

TransitionMatches(k, from) == status[k] = from

Transition(k, from, to) ==
    /\ TransitionMatches(k, from)
    /\ status' = [status EXCEPT ![k] = to]
    /\ trail' = [trail EXCEPT ![k] = Append(@, to)]

TransitionLost(k, from, to) ==
    /\ ~TransitionMatches(k, from)
    /\ UNCHANGED <<status, trail>>

-----------------------------------------------------------------------------
(* The gated call (_guard.py): persist, deliver, wait.                     *)

\* save_paused: INSERT ... ON CONFLICT DO NOTHING.  A second gate of the same
\* key attaches to the run there is, and drives whatever that recorded.
SavePaused(p, k) ==
    /\ proc[p].pc = "idle"
    /\ \/ /\ status[k] = "none"
          /\ status' = [status EXCEPT ![k] = "proposed"]
          /\ trail' = [trail EXCEPT ![k] = Append(@, "proposed")]
          /\ Become(p, Driving("send", k, "none"))
       \/ /\ status[k] # "none"
          /\ Become(p, Driving("read", k, "none"))
          /\ UNCHANGED <<status, trail>>
    /\ UNCHANGED <<polled, events, outsideVars, said, ledgerVars>>

Send(p) ==
    /\ proc[p].pc = "send"
    /\ asked' = [asked EXCEPT ![Key(p)] = TRUE]
    /\ GoTo(p, IF Hosted THEN "record" ELSE "wait")
    /\ UNCHANGED <<rowVars, verdicts, said, ledgerVars>>

SetApprovalId(p) ==
    /\ proc[p].pc = "record"
    /\ polled' = [polled EXCEPT ![Key(p)] = TRUE]
    /\ GoTo(p, "wait")
    /\ UNCHANGED <<status, trail, events, outsideVars, said, ledgerVars>>

\* transport.wait returned a decision.
\* A faulty variant: a wait that timed out is driven like a decision.
DecisionMissing(p) ==
    /\ proc[p].pc = "wait"
    /\ Become(p, Driving("cas", Key(p), "none"))
    /\ UNCHANGED <<rowVars, outsideVars, said, ledgerVars>>

DecisionArrives(p) ==
    /\ proc[p].pc = "wait"
    /\ \E d \in verdicts[Key(p)] : Become(p, Driving("cas", Key(p), d))
    /\ UNCHANGED <<rowVars, outsideVars, said, ledgerVars>>

\* gate_wait is off, or gate_timeout passed: ActionPending.
Pend(p) ==
    /\ proc[p].pc = "wait"
    /\ Become(p, Idle)
    /\ UNCHANGED <<rowVars, outsideVars, said, ledgerVars>>

-----------------------------------------------------------------------------
(* The other ways into apply_decision.                                     *)

\* A webhook, possibly a redelivery, or Airlock.resume with a decision.
Deliver(p, k) ==
    /\ proc[p].pc = "idle"
    /\ \E d \in verdicts[k] : Become(p, Driving("cas", k, d))
    /\ UNCHANGED <<rowVars, outsideVars, said, ledgerVars>>

\* Airlock.resume without one.
ResumeBare(p, k) ==
    /\ proc[p].pc = "idle"
    /\ status[k] # "none"
    /\ Become(p, Driving("read", k, "none"))
    /\ UNCHANGED <<rowVars, outsideVars, said, ledgerVars>>

\* reconcile_paused: stale approved runs, and no others.
\* A faulty variant: it looks for runs nobody decided.
SweepTakesUndecided(p, k) ==
    /\ proc[p].pc = "idle"
    /\ status[k] = "proposed"
    /\ Become(p, Driving("read", k, "none"))
    /\ UNCHANGED <<rowVars, outsideVars, said, ledgerVars>>

SweepTakes(p, k) ==
    /\ proc[p].pc = "idle"
    /\ status[k] = "approved"
    /\ Become(p, Driving("read", k, "none"))
    /\ UNCHANGED <<rowVars, outsideVars, said, ledgerVars>>

\* backstop_poll_paused: undecided runs whose approval_id is on record.
PollTakes(p, k) ==
    /\ proc[p].pc = "idle"
    /\ status[k] = "proposed"
    /\ polled[k]
    /\ Become(p, Driving("poll", k, "none"))
    /\ UNCHANGED <<rowVars, outsideVars, said, ledgerVars>>

\* fetch_decision.
\* A faulty variant: the fetched decision is dropped.
FetchDecisionDropped(p) ==
    /\ proc[p].pc = "poll"
    /\ Become(p, Idle)
    /\ UNCHANGED <<rowVars, outsideVars, said, ledgerVars>>

FetchDecision(p) ==
    /\ proc[p].pc = "poll"
    /\ \/ \E d \in verdicts[Key(p)] : Become(p, Driving("cas", Key(p), d))
       \/ verdicts[Key(p)] = {} /\ Become(p, Idle)
    /\ UNCHANGED <<rowVars, outsideVars, said, ledgerVars>>

-----------------------------------------------------------------------------
(* apply_decision.                                                         *)

\* Step 1: proposed -> approved | rejected.  Losing it changes nothing about
\* what follows.
DecisionCas(p) ==
    /\ proc[p].pc = "cas"
    /\ \/ Transition(Key(p), "proposed", proc[p].verdict)
       \/ TransitionLost(Key(p), "proposed", proc[p].verdict)
    /\ GoTo(p, "read")
    /\ UNCHANGED <<polled, events, outsideVars, said, ledgerVars>>

\* Step 2: read the status there is now, whoever wrote it, and drive it on.
\* A faulty variant: the decision in hand is driven, not the recorded one.
DriveOwnDecision(p) ==
    /\ proc[p].pc = "read"
    /\ \/ status[Key(p)] = "rejected" /\ proc[p].verdict # "approved"
          /\ proc' = [proc EXCEPT ![p].pc = "reject", ![p].drives = @ + 1]
       \/ status[Key(p)] \in Decisions /\ proc[p].verdict = "approved" /\ p \in Wired
          /\ proc' = [proc EXCEPT ![p].pc = "commit", ![p].drives = @ + 1]
    /\ UNCHANGED <<rowVars, outsideVars, said, ledgerVars>>

ReadOn(p) ==
    /\ proc[p].pc = "read"
    /\ \/ status[Key(p)] = "rejected"
          /\ proc' = [proc EXCEPT ![p].pc = "reject", ![p].drives = @ + 1]
       \/ status[Key(p)] = "approved" /\ p \in Wired
          /\ proc' = [proc EXCEPT ![p].pc = "commit", ![p].drives = @ + 1]
    /\ UNCHANGED <<rowVars, outsideVars, said, ledgerVars>>

\* The action type is not registered in this process: refuse, loudly.
ReadUnregistered(p) ==
    /\ proc[p].pc = "read"
    /\ status[Key(p)] = "approved"
    /\ p \notin Wired
    /\ Become(p, Idle)
    /\ UNCHANGED <<rowVars, outsideVars, said, ledgerVars>>

\* Still proposed: nothing to drive.  A gated call asks the human again.
ReadProposed(p) ==
    /\ proc[p].pc = "read"
    /\ status[Key(p)] = "proposed"
    /\ Become(p, IF p \in Gates THEN Driving("send", Key(p), "none") ELSE Idle)
    /\ UNCHANGED <<rowVars, outsideVars, said, ledgerVars>>

\* rejected -> aborted, with the call's action_event in the transaction.
\* Faulty variants: the event is appended whoever won; the row is expected in
\* a status it has already left.
DriveRejectedAudits(p) ==
    /\ proc[p].pc = "reject"
    /\ \/ Transition(Key(p), "rejected", "aborted")
       \/ TransitionLost(Key(p), "rejected", "aborted")
    /\ events' = [events EXCEPT ![Key(p)] = Append(@, Event("action_event", "aborted"))]
    /\ GoTo(p, "read")
    /\ UNCHANGED <<polled, outsideVars, said, ledgerVars>>

DriveRejectedMissesRow(p) ==
    /\ proc[p].pc = "reject"
    /\ \/ Transition(Key(p), "proposed", "aborted")
       \/ TransitionLost(Key(p), "proposed", "aborted")
    /\ GoTo(p, "read")
    /\ UNCHANGED <<polled, events, outsideVars, said, ledgerVars>>

DriveRejected(p) ==
    /\ proc[p].pc = "reject"
    /\ \/ /\ Transition(Key(p), "rejected", "aborted")
          /\ events' = [events EXCEPT ![Key(p)] = Append(@, Event("action_event", "aborted"))]
       \/ TransitionLost(Key(p), "rejected", "aborted") /\ UNCHANGED events
    /\ GoTo(p, "read")
    /\ UNCHANGED <<polled, outsideVars, said, ledgerVars>>

\* approved: into commit_once anyway, the ledger deduplicates.
EnterLedger(p) ==
    /\ proc[p].pc = "commit"
    /\ \/ Ledger!Open(Key(p))
       \/ outcome[Key(p)] # "none" /\ UNCHANGED ledgerVars
    /\ GoTo(p, "ledger")
    /\ UNCHANGED <<rowVars, outsideVars, said>>

LedgerReturns(p) ==
    /\ proc[p].pc = "ledger"
    /\ Ledger!Report(Key(p))
    /\ proc' = [proc EXCEPT ![p].pc = "close", ![p].seen = outcome[Key(p)]]
    /\ UNCHANGED <<rowVars, outsideVars, said>>

\* commit_once raised (VerificationUnknown, ExecuteTimeout, CommitWaitTimeout,
\* the tool's own error): the run stays approved.
LedgerRaises(p) ==
    /\ proc[p].pc = "ledger"
    /\ Become(p, Idle)
    /\ UNCHANGED <<rowVars, outsideVars, said, ledgerVars>>

\* A faulty variant: a return of commit_once is taken for a commit.
CloseAsCommitted(o) == "committed"

\* Only committed closes the run as committed.
CloseAs(o) == IF o = "committed" THEN "committed" ELSE "aborted"

Close(p) ==
    /\ proc[p].pc = "close"
    /\ \/ Transition(Key(p), "approved", CloseAs(proc[p].seen))
       \/ TransitionLost(Key(p), "approved", CloseAs(proc[p].seen))
    /\ GoTo(p, "read")
    /\ UNCHANGED <<polled, events, outsideVars, said, ledgerVars>>

\* _recorded_human_decision: the row keeps who decided and when, not what, so
\* an aborted run's decision is inferred from the ledger.
\* A faulty variant: an aborted run counts as rejected.
RecordedDecisionByStatus(k) == IF status[k] = "aborted" THEN "rejected" ELSE "approved"

RecordedDecision(k) ==
    IF status[k] = "aborted" /\ outcome[k] = "none" THEN "rejected" ELSE "approved"

\* _surface_outcome: how the resolved run is reported.
Surface(k) ==
    CASE status[k] = "committed" -> "result"
      [] status[k] = "aborted" /\ RecordedDecision(k) = "rejected" -> "ApprovalRejected"
      [] OTHER -> "PreconditionFailed"

ReadResolved(p) ==
    /\ proc[p].pc = "read"
    /\ status[Key(p)] \in Resolved
    /\ said' = [said EXCEPT ![Key(p)] = @ \union {Surface(Key(p))}]
    /\ Become(p, Idle)
    /\ UNCHANGED <<rowVars, outsideVars, ledgerVars>>

-----------------------------------------------------------------------------
(* Around it: humans, the ledger, ungated calls, crashes.                  *)

\* Reviewers may disagree: each verdict stays deliverable.
Decide(k, d) ==
    /\ asked[k]
    /\ d \notin verdicts[k]
    /\ verdicts' = [verdicts EXCEPT ![k] = @ \union {d}]
    /\ UNCHANGED <<rowVars, asked, proc, said, ledgerVars>>

\* commit_once or a reconciler at work on an open row.
EffectLands(k) ==
    /\ Ledger!Land(k)
    /\ UNCHANGED <<rowVars, outsideVars, proc, said>>

\* The call itself resolves the row, with its action_event in the same
\* transaction, or a takeover does, with a reconcile event in its place.
LedgerResolves(k) ==
    /\ \E o \in Ledger!Resolutions, type \in EventTypes :
         /\ Ledger!Resolve(k, o)
         /\ events' = [events EXCEPT ![k] = Append(@, Event(type, o))]
    /\ UNCHANGED <<status, polled, trail, outsideVars, proc, said>>

\* The timing of an open row slips, or an effect lands that should not.
LedgerSlips(k) ==
    /\ \/ Ledger!Slip(k)
       \/ effects[k] < MaxEffects /\ Ledger!LandAnyway(k)
    /\ UNCHANGED <<rowVars, outsideVars, proc, said>>

\* _commit_auto: a call for the same key that the policy let through.
CommitAuto(k) ==
    /\ k \in AutoKeys
    /\ Ledger!Open(k)
    /\ UNCHANGED <<rowVars, outsideVars, proc, said>>

\* A process dies, or a store or transport call raises out of it.
Crash(p) ==
    /\ proc[p].pc # "idle"
    /\ Become(p, Idle)
    /\ UNCHANGED <<rowVars, outsideVars, said, ledgerVars>>

-----------------------------------------------------------------------------
Start(p) ==
    \E k \in Keys :
        \/ p \in Gates /\ SavePaused(p, k)
        \/ p \in Receivers /\ (Deliver(p, k) \/ ResumeBare(p, k))
        \/ p \in Sweepers /\ (SweepTakes(p, k) \/ PollTakes(p, k))

Progress(p) ==
    \/ Send(p) \/ SetApprovalId(p) \/ DecisionArrives(p) \/ Pend(p)
    \/ FetchDecision(p) \/ DecisionCas(p)
    \/ ReadOn(p) \/ ReadUnregistered(p) \/ ReadProposed(p) \/ ReadResolved(p)
    \/ DriveRejected(p) \/ EnterLedger(p) \/ LedgerReturns(p) \/ Close(p)

Fault(p) == LedgerRaises(p) \/ Crash(p)

Environment ==
    \E k \in Keys :
        \/ \E d \in Decisions : Decide(k, d)
        \/ EffectLands(k) \/ LedgerResolves(k) \/ LedgerSlips(k) \/ CommitAuto(k)

Next ==
    \/ \E p \in Procs : Start(p) \/ Progress(p) \/ Fault(p)
    \/ Environment

Spec == Init /\ [][Next]_vars

-----------------------------------------------------------------------------
(* Safety.                                                                 *)

WasDecided(k, d) == \E i \in DOMAIN trail[k] : trail[k][i] = d

\* The ledger is only claimed, and so the effect only runs, for a run whose
\* approval is durable: never for a rejected one, however the deliveries race.
ApprovalBeforeClaim ==
    \A k \in Keys \ AutoKeys : outcome[k] # "none" => WasDecided(k, "approved")

\* A resolved run says what the ledger says: committed iff it committed;
\* aborted means rejected, or approved and resolved without commit.
RunMatchesLedger ==
    \A k \in Keys :
        /\ status[k] = "committed" => outcome[k] = "committed"
        /\ status[k] = "aborted" =>
             \/ WasDecided(k, "rejected")
             \/ outcome[k] \in Ledger!Resolutions \ {"committed"}

\* Exactly one event closes a gated action, and it names how the ledger has
\* it: the call's action_event, or the reconcile event of the takeover that
\* resolved the row (docs/event-schema.md has an action_event there too).  A
\* rejection, which claims no row, is closed by the call's action_event.
\* Never both, however often the run is delivered.
ClosingEvents(s, o) ==
    IF o \in Ledger!Resolutions
    THEN {<<Event(type, o)>> : type \in EventTypes}
    ELSE IF s \in Resolved THEN {<<Event("action_event", "aborted")>>} ELSE {<<>>}

OneTerminalEvent ==
    \A k \in Keys \ AutoKeys : events[k] \in ClosingEvents(status[k], outcome[k])

\* The chained pause_transition events are the path the row really took: one
\* decision, never revised, then its consequence.
Paths ==
    {<<>>, <<"proposed">>, <<"proposed", "approved">>, <<"proposed", "rejected">>,
     <<"proposed", "approved", "committed">>, <<"proposed", "approved", "aborted">>,
     <<"proposed", "rejected", "aborted">>}

TrailIsPath ==
    \A k \in Keys :
        /\ trail[k] \in Paths
        /\ status[k] = IF trail[k] = <<>> THEN "none" ELSE trail[k][Len(trail[k])]

\* apply_decision settles: however many appliers race it, one call drives the
\* row once and reads it at most twice (the code gives up after 8 reads).
SettlesAtOnce == \A p \in Procs : proc[p].drives <= 1

\* What callers are told is what was decided and what was done: a result
\* means one effect, or more if the timing of its key slipped.
SaidIsTrue ==
    \A k \in Keys \ AutoKeys :
        /\ "result" \in said[k] =>
             /\ outcome[k] = "committed"
             /\ k \in Vouched => effects[k] = 1 \/ (effects[k] > 1 /\ k \in slipped)
        /\ "ApprovalRejected" \in said[k] => WasDecided(k, "rejected") /\ effects[k] = 0
        /\ "PreconditionFailed" \in said[k] => WasDecided(k, "approved")

\* "PreconditionFailed ... no side effect ran."  (Even if no timing slipped.)
NoSideEffectRan ==
    \A k \in Keys \ slipped : "PreconditionFailed" \in said[k] => effects[k] = 0
-----------------------------------------------------------------------------
(* What makes the safety properties inductive.                             *)

\* The ledger's promise, as far as the pause relies on it.
LedgerInv ==
    \A k \in Keys :
        /\ outcome[k] = "none" => effects[k] = 0
        /\ outcome[k] = "committed" /\ k \in Vouched => effects[k] > 0
        /\ k \in slipped \/ effects[k] <= 1

\* What a process driving a run knows: the decision it drives is recorded,
\* the outcome it closes with is the ledger's, and it drives only once.
Knows(p) ==
    /\ proc[p].pc = "reject" => WasDecided(Key(p), "rejected")
    /\ proc[p].pc \in {"commit", "ledger", "close"} => WasDecided(Key(p), "approved")
    /\ proc[p].pc = "ledger" => outcome[Key(p)] # "none"
    /\ proc[p].pc = "close" => proc[p].seen = outcome[Key(p)]
    /\ proc[p].drives = 0 \/ /\ proc[p].drives = 1
                             /\ proc[p].pc \in {"reject", "commit", "ledger", "close", "read"}
                             /\ proc[p].pc = "read" => status[Key(p)] \in Resolved

PauseInv ==
    /\ LedgerInv /\ (\A p \in Procs : Knows(p))
    /\ TrailIsPath /\ ApprovalBeforeClaim /\ RunMatchesLedger
    /\ OneTerminalEvent /\ SaidIsTrue
=============================================================================

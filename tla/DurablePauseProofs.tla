------------------------- MODULE DurablePauseProofs -------------------------
(***************************************************************************)
(* The safety of DurablePause for every set of processes and keys: PauseInv *)
(* is inductive, and the properties of DurablePause follow from it.        *)
(***************************************************************************)
EXTENDS DurablePause, SequenceTheorems, TLAPS

-----------------------------------------------------------------------------
(* The paths a run can take.                                               *)

\* The clauses of TrailIsPath for one key.
PathOf(k) ==
    /\ trail[k] \in Paths
    /\ status[k] = IF trail[k] = <<>> THEN "none" ELSE trail[k][Len(trail[k])]

\* A run is decided once: an approved one is not rejected, and its status
\* tells what was decided, up to an aborted run's.
LEMMA DecidedOnce ==
    ASSUME NEW k, PathOf(k)
    PROVE  /\ WasDecided(k, "approved") =>
                status[k] \in {"approved", "committed", "aborted"} /\ ~WasDecided(k, "rejected")
           /\ WasDecided(k, "rejected") => status[k] \in {"rejected", "aborted"}
           /\ status[k] \in Decisions => WasDecided(k, status[k])
           /\ status[k] = "aborted" => WasDecided(k, "approved") \/ WasDecided(k, "rejected")
<1>1. CASE trail[k] = <<>>
  BY <1>1 DEF PathOf, WasDecided, Decisions
<1>2. CASE trail[k] = <<"proposed">>
  BY <1>2 DEF PathOf, WasDecided, Decisions
<1>3. CASE trail[k] = <<"proposed", "approved">>
  BY <1>3 DEF PathOf, WasDecided, Decisions
<1>4. CASE trail[k] = <<"proposed", "rejected">>
  BY <1>4 DEF PathOf, WasDecided, Decisions
<1>5. CASE trail[k] = <<"proposed", "approved", "committed">>
  BY <1>5 DEF PathOf, WasDecided, Decisions
<1>6. CASE trail[k] = <<"proposed", "approved", "aborted">>
  BY <1>6 DEF PathOf, WasDecided, Decisions
<1>7. CASE trail[k] = <<"proposed", "rejected", "aborted">>
  BY <1>7 DEF PathOf, WasDecided, Decisions
<1>. QED BY <1>1, <1>2, <1>3, <1>4, <1>5, <1>6, <1>7 DEF PathOf, Paths

\* Appending to the short tuples a trail can be.
LEMMA AppendTuples ==
    ASSUME NEW x
    PROVE  /\ Append(<<>>, x) = <<x>>
           /\ \A a : Append(<<a>>, x) = <<a, x>>
           /\ \A a, b : Append(<<a, b>>, x) = <<a, b, x>>
<1>1. Append(<<>>, x) = <<x>>
  <2> DEFINE S == {x}
  <2>1. <<>> \in Seq(S) /\ <<x>> \in Seq(S) /\ x \in S
    OBVIOUS
  <2>2. Append(<<>>, x) \in Seq(S) /\ Len(Append(<<>>, x)) = 1
    BY <2>1
  <2>3. \A i \in 1..1 : Append(<<>>, x)[i] = <<x>>[i]
    BY <2>1
  <2> HIDE DEF S
  <2> QED BY <2>1, <2>2, <2>3, SeqEqual
<1>2. ASSUME NEW a PROVE Append(<<a>>, x) = <<a, x>>
  <2> DEFINE S == {a, x}
  <2>1. <<a>> \in Seq(S) /\ <<a, x>> \in Seq(S) /\ x \in S
    OBVIOUS
  <2>2. Append(<<a>>, x) \in Seq(S) /\ Len(Append(<<a>>, x)) = 2
    BY <2>1
  <2>3. \A i \in 1..2 : Append(<<a>>, x)[i] = <<a, x>>[i]
    BY <2>1
  <2> HIDE DEF S
  <2> QED BY <2>1, <2>2, <2>3, SeqEqual
<1>3. ASSUME NEW a, NEW b PROVE Append(<<a, b>>, x) = <<a, b, x>>
  <2> DEFINE S == {a, b, x}
  <2>1. <<a, b>> \in Seq(S) /\ <<a, b, x>> \in Seq(S) /\ x \in S
    OBVIOUS
  <2>2. Append(<<a, b>>, x) \in Seq(S) /\ Len(Append(<<a, b>>, x)) = 3
    BY <2>1
  <2>3. \A i \in 1..3 : Append(<<a, b>>, x)[i] = <<a, b, x>>[i]
    BY <2>1
  <2> HIDE DEF S
  <2> QED BY <2>1, <2>2, <2>3, SeqEqual
<1>. QED BY <1>1, <1>2, <1>3

\* The forward edges of a run's state graph.
Edges == {<<"none", "proposed">>, <<"proposed", "approved">>, <<"proposed", "rejected">>,
          <<"approved", "committed">>, <<"approved", "aborted">>, <<"rejected", "aborted">>}

\* Row k took an edge and its transition is in the trail; other rows stay.
TookEdge(k, to) ==
    /\ status' = [status EXCEPT ![k] = to]
    /\ trail' = [trail EXCEPT ![k] = Append(@, to)]

\* Taking an edge leads from path to path and forgets no decision.
LEMMA PathGrows ==
    ASSUME TypeOK, TrailIsPath, NEW k \in Keys, NEW to, <<status[k], to>> \in Edges,
           TookEdge(k, to)
    PROVE  /\ TrailIsPath'
           /\ \A j \in Keys : \A d : WasDecided(j, d) => WasDecided(j, d)'
           /\ to \in Decisions => WasDecided(k, to)'
<1>1. PathOf(k)
  BY DEF TrailIsPath, PathOf
<1>2. /\ status'[k] = to /\ trail'[k] = Append(trail[k], to)
      /\ \A j \in Keys \ {k} : status'[j] = status[j] /\ trail'[j] = trail[j]
  BY DEF TookEdge, TypeOK
<1>3. /\ trail'[k] \in Paths /\ trail'[k] # <<>> /\ trail'[k][Len(trail'[k])] = to
      /\ \A d : (\E i \in DOMAIN trail[k] : trail[k][i] = d)
                  => (\E i \in DOMAIN trail'[k] : trail'[k][i] = d)
      /\ \E i \in DOMAIN trail'[k] : trail'[k][i] = to
  <2>1. CASE trail[k] = <<>>
    <3>1. to = "proposed"
      BY <1>1, <2>1 DEF PathOf, Edges
    <3>2. trail'[k] = <<"proposed">>
      BY <3>1, <1>2, <2>1, AppendTuples
    <3>. QED BY <3>1, <3>2, <2>1 DEF Paths
  <2>2. CASE trail[k] = <<"proposed">>
    <3>1. to \in {"approved", "rejected"}
      BY <1>1, <2>2 DEF PathOf, Edges
    <3>2. trail'[k] = <<"proposed", to>>
      BY <1>2, <2>2, AppendTuples
    <3>. QED BY <3>1, <3>2, <2>2 DEF Paths
  <2>3. CASE trail[k] = <<"proposed", "approved">>
    <3>1. to \in {"committed", "aborted"}
      BY <1>1, <2>3 DEF PathOf, Edges
    <3>2. trail'[k] = <<"proposed", "approved", to>>
      BY <1>2, <2>3, AppendTuples
    <3>. QED BY <3>1, <3>2, <2>3 DEF Paths
  <2>4. CASE trail[k] = <<"proposed", "rejected">>
    <3>1. to = "aborted"
      BY <1>1, <2>4 DEF PathOf, Edges
    <3>2. trail'[k] = <<"proposed", "rejected", "aborted">>
      BY <3>1, <1>2, <2>4, AppendTuples
    <3>. QED BY <3>1, <3>2, <2>4 DEF Paths
  <2>5. CASE trail[k] \in {<<"proposed", "approved", "committed">>,
                           <<"proposed", "approved", "aborted">>,
                           <<"proposed", "rejected", "aborted">>}
    BY <1>1, <2>5 DEF PathOf, Edges
  <2>. QED BY <1>1, <2>1, <2>2, <2>3, <2>4, <2>5 DEF PathOf, Paths
<1>4. TrailIsPath'
  BY <1>2, <1>3 DEF TrailIsPath
<1>5. \A j \in Keys : \A d : WasDecided(j, d) => WasDecided(j, d)'
  BY <1>2, <1>3 DEF WasDecided
<1>. QED BY <1>3, <1>4, <1>5 DEF WasDecided
-----------------------------------------------------------------------------
(* Type correctness.                                                       *)

\* The clauses of TypeOK about processes.
ProcType ==
    /\ proc \in [Procs -> [pc: Steps, key: Keys \union {NoKey},
                           verdict: Decisions \union {"none"},
                           seen: Ledger!Resolutions \union {"none"}, drives: Nat]]
    /\ \A p \in Procs :
         /\ proc[p].pc # "idle" => proc[p].key \in Keys
         /\ proc[p].pc = "cas" => proc[p].verdict # "none"
         /\ proc[p].pc = "close" => proc[p].seen # "none"

\* A process that returns, or takes up a run, is well typed.
LEMMA BecomeType ==
    ASSUME ProcType, NEW p \in Procs,
           \/ Become(p, Idle)
           \/ \E pc \in {"send", "read", "poll"}, k \in Keys : Become(p, Driving(pc, k, "none"))
           \/ \E k \in Keys, d \in Decisions : Become(p, Driving("cas", k, d))
    PROVE  ProcType'
<1>1. CASE Become(p, Idle)
  BY <1>1 DEF Become, Idle, ProcType, Steps
<1>2. ASSUME NEW pc \in {"send", "read", "poll"}, NEW k \in Keys,
             Become(p, Driving(pc, k, "none"))
      PROVE  ProcType'
  BY <1>2 DEF Become, Driving, Idle, ProcType, Steps
<1>3. ASSUME NEW k \in Keys, NEW d \in Decisions, Become(p, Driving("cas", k, d))
      PROVE  ProcType'
  BY <1>3 DEF Become, Driving, Idle, ProcType, Steps, Decisions
<1>. QED BY <1>1, <1>2, <1>3

\* So is one that goes on with the run in hand.
LEMMA GoToType ==
    ASSUME ProcType, NEW p \in Procs, proc[p].pc # "idle",
           NEW pc \in Steps \ {"idle", "cas", "close"}, GoTo(p, pc)
    PROVE  ProcType'
BY DEF GoTo, ProcType

\* The rows stay well typed when one takes an edge.
LEMMA TransitionType ==
    ASSUME TypeOK, NEW k \in Keys, NEW from, NEW to \in Statuses,
           Transition(k, from, to) \/ TransitionLost(k, from, to) \/ TookEdge(k, to)
    PROVE  status' \in [Keys -> Statuses] /\ trail' \in [Keys -> Seq(Statuses)]
<1>1. Append(trail[k], to) \in Seq(Statuses)
  BY DEF TypeOK
<1>2. CASE TransitionLost(k, from, to)
  BY <1>2 DEF TypeOK, TransitionLost
<1>3. CASE TookEdge(k, to)
  BY <1>1, <1>3 DEF TypeOK, TookEdge
<1>. QED BY <1>2, <1>3 DEF Transition, TookEdge

\* A step of Next is one of the actions, each by one process or on one key.
LEMMA NextActions ==
    ASSUME Next
    PROVE  \/ \E p \in Procs, k \in Keys :
                SavePaused(p, k) \/ Deliver(p, k) \/ ResumeBare(p, k)
                \/ SweepTakes(p, k) \/ PollTakes(p, k)
           \/ \E p \in Procs :
                \/ Send(p) \/ SetApprovalId(p) \/ DecisionArrives(p) \/ Pend(p)
                \/ FetchDecision(p) \/ DecisionCas(p)
                \/ ReadOn(p) \/ ReadUnregistered(p) \/ ReadProposed(p) \/ ReadResolved(p)
                \/ DriveRejected(p) \/ EnterLedger(p) \/ LedgerReturns(p) \/ Close(p)
                \/ LedgerRaises(p) \/ Crash(p)
           \/ \E k \in Keys :
                \/ \E d \in Decisions : Decide(k, d)
                \/ EffectLands(k) \/ LedgerResolves(k) \/ LedgerSlips(k) \/ CommitAuto(k)
BY DEF Next, Start, Progress, Fault, Environment

\* Type correctness of the durable pause, for every instance of it.
THEOREM PauseTypeCorrect == Spec => []TypeOK
<1>1. Init => TypeOK
  BY DEF Init, TypeOK, Idle, Statuses, Steps, Ledger!AbsInit
<1>2. TypeOK /\ [Next]_vars => TypeOK'
  <2> SUFFICES ASSUME TypeOK, [Next]_vars PROVE TypeOK'
    OBVIOUS
  <2>0. CASE UNCHANGED vars
    BY <2>0 DEF vars, rowVars, outsideVars, ledgerVars, TypeOK
  <2>t. ProcType /\ \A p \in Procs : proc[p].pc # "idle" => Key(p) \in Keys
    BY DEF TypeOK, ProcType, Key
  <2>m. ASSUME ProcType', UNCHANGED <<rowVars, verdicts, ledgerVars>>,
               asked' \in [Keys -> BOOLEAN], said' \in [Keys -> SUBSET Answers]
        PROVE  TypeOK'
    BY <2>m DEF TypeOK, ProcType, rowVars, ledgerVars
  <2>1. ASSUME NEW p \in Procs, NEW k \in Keys, SavePaused(p, k) PROVE TypeOK'
    <3>1. ProcType'
      BY <2>1, <2>t, BecomeType DEF SavePaused
    <3>2. status' \in [Keys -> Statuses] /\ trail' \in [Keys -> Seq(Statuses)]
      BY <2>1, TransitionType DEF SavePaused, TookEdge, Statuses, TypeOK
    <3>. QED BY <2>1, <3>1, <3>2 DEF SavePaused, TypeOK, ProcType, outsideVars, ledgerVars
  <2>2. ASSUME NEW p \in Procs, NEW k \in Keys,
               Deliver(p, k) \/ ResumeBare(p, k) \/ SweepTakes(p, k) \/ PollTakes(p, k)
        PROVE  TypeOK'
    <3>1. ProcType'
      BY <2>2, <2>t, BecomeType DEF Deliver, ResumeBare, SweepTakes, PollTakes, TypeOK
    <3>. QED BY <2>2, <2>m, <3>1 DEF Deliver, ResumeBare, SweepTakes, PollTakes, TypeOK, outsideVars
  <2>3. ASSUME NEW p \in Procs, Send(p) PROVE TypeOK'
    <3>1. ProcType'
      BY <2>3, <2>t, GoToType DEF Send, Steps
    <3>. QED BY <2>3, <2>m, <3>1 DEF Send, TypeOK
  <2>4. ASSUME NEW p \in Procs, SetApprovalId(p) PROVE TypeOK'
    <3>1. ProcType'
      BY <2>4, <2>t, GoToType DEF SetApprovalId, Steps
    <3>. QED BY <2>4, <3>1 DEF SetApprovalId, TypeOK, ProcType, outsideVars, ledgerVars
  <2>5. ASSUME NEW p \in Procs, DecisionArrives(p) \/ FetchDecision(p) PROVE TypeOK'
    <3>1. ProcType'
      BY <2>5, <2>t, BecomeType DEF DecisionArrives, FetchDecision, TypeOK
    <3>. QED BY <2>5, <2>m, <3>1 DEF DecisionArrives, FetchDecision, TypeOK, outsideVars
  <2>6. ASSUME NEW p \in Procs,
               Pend(p) \/ ReadUnregistered(p) \/ ReadProposed(p) \/ LedgerRaises(p) \/ Crash(p)
        PROVE  TypeOK'
    <3>1. ProcType'
      BY <2>6, <2>t, BecomeType DEF Pend, ReadUnregistered, ReadProposed, LedgerRaises, Crash
    <3>. QED BY <2>6, <2>m, <3>1
         DEF Pend, ReadUnregistered, ReadProposed, LedgerRaises, Crash, TypeOK, outsideVars
  <2>7. ASSUME NEW p \in Procs, DecisionCas(p) PROVE TypeOK'
    <3>1. ProcType'
      BY <2>7, <2>t, GoToType DEF DecisionCas, Steps
    <3>2. proc[p].verdict \in Statuses
      BY <2>7, <2>t DEF DecisionCas, ProcType, Decisions, Statuses
    <3>3. status' \in [Keys -> Statuses] /\ trail' \in [Keys -> Seq(Statuses)]
      BY <2>7, <2>t, <3>2, TransitionType DEF DecisionCas
    <3>. QED BY <2>7, <3>1, <3>3 DEF DecisionCas, TypeOK, ProcType, outsideVars, ledgerVars
  <2>8. ASSUME NEW p \in Procs, ReadOn(p) PROVE TypeOK'
    <3>1. ProcType'
      BY <2>8, <2>t DEF ReadOn, ProcType, Steps
    <3>. QED BY <2>8, <2>m, <3>1 DEF ReadOn, TypeOK, outsideVars
  <2>9. ASSUME NEW p \in Procs, ReadResolved(p) PROVE TypeOK'
    <3>1. ProcType'
      BY <2>9, <2>t, BecomeType DEF ReadResolved
    <3>2. Surface(Key(p)) \in Answers
      BY DEF Surface, Answers
    <3>. QED BY <2>9, <2>t, <2>m, <3>1, <3>2 DEF ReadResolved, TypeOK, outsideVars
  <2>10. ASSUME NEW p \in Procs, DriveRejected(p) PROVE TypeOK'
    <3>1. ProcType'
      BY <2>10, <2>t, GoToType DEF DriveRejected, Steps
    <3>2. status' \in [Keys -> Statuses] /\ trail' \in [Keys -> Seq(Statuses)]
      BY <2>10, <2>t, TransitionType DEF DriveRejected, Statuses
    <3>3. Event("action_event", "aborted") \in Events /\ Key(p) \in Keys
      BY <2>10, <2>t DEF DriveRejected, Event, Events, EventTypes, Ledger!Resolutions
    <3>4. Append(events[Key(p)], Event("action_event", "aborted")) \in Seq(Events)
      BY <3>3 DEF TypeOK
    <3>5. events' \in [Keys -> Seq(Events)]
      BY <2>10, <3>4 DEF DriveRejected, TypeOK
    <3>. QED BY <2>10, <3>1, <3>2, <3>5 DEF DriveRejected, TypeOK, ProcType, outsideVars, ledgerVars
  <2>11. ASSUME NEW p \in Procs, EnterLedger(p) PROVE TypeOK'
    <3>1. ProcType'
      BY <2>11, <2>t, GoToType DEF EnterLedger, Steps
    <3>. QED BY <2>11, <3>1
         DEF EnterLedger, Ledger!Open, TypeOK, ProcType, rowVars, outsideVars, ledgerVars
  <2>12. ASSUME NEW p \in Procs, LedgerReturns(p) PROVE TypeOK'
    <3>1. outcome[Key(p)] \in Ledger!Resolutions /\ Key(p) \in Keys
      BY <2>12, <2>t DEF LedgerReturns, Ledger!Report
    <3>2. ProcType'
      <4> DEFINE r == [proc[p] EXCEPT !.pc = "close", !.seen = outcome[Key(p)]]
      <4>1. proc' = [proc EXCEPT ![p] = r] /\ proc[p].pc = "ledger"
        BY <2>12, <2>t DEF LedgerReturns, ProcType
      <4>2. /\ r \in [pc: Steps, key: Keys \union {NoKey}, verdict: Decisions \union {"none"},
                      seen: Ledger!Resolutions \union {"none"}, drives: Nat]
            /\ r.pc = "close" /\ r.key = Key(p) /\ r.seen \in Ledger!Resolutions
        BY <2>t, <3>1 DEF ProcType, Steps, Key
      <4>3. "none" \notin Ledger!Resolutions
        BY DEF Ledger!Resolutions
      <4> HIDE DEF r
      <4>. QED BY <4>1, <4>2, <4>3, <3>1, <2>t DEF ProcType
    <3>3. told' \in [Keys -> SUBSET Ledger!Resolutions]
      BY <2>12, <3>1 DEF LedgerReturns, Ledger!Report, TypeOK
    <3>. QED BY <2>12, <3>2, <3>3
         DEF LedgerReturns, Ledger!Report, TypeOK, ProcType, rowVars, outsideVars
  <2>13. ASSUME NEW p \in Procs, Close(p) PROVE TypeOK'
    <3>1. ProcType'
      BY <2>13, <2>t, GoToType DEF Close, Steps
    <3>2. status' \in [Keys -> Statuses] /\ trail' \in [Keys -> Seq(Statuses)]
      BY <2>13, <2>t, TransitionType DEF Close, CloseAs, Statuses
    <3>. QED BY <2>13, <3>1, <3>2 DEF Close, TypeOK, ProcType, outsideVars, ledgerVars
  <2>14. ASSUME NEW k \in Keys, NEW d \in Decisions, Decide(k, d) PROVE TypeOK'
    BY <2>14 DEF Decide, TypeOK, rowVars, ledgerVars
  <2>15. ASSUME NEW k \in Keys, EffectLands(k) \/ LedgerSlips(k) \/ CommitAuto(k) PROVE TypeOK'
    <3>1. /\ outcome' \in [Keys -> Ledger!Resolutions \union {"none", "open"}]
          /\ effects' \in [Keys -> Nat] /\ told' = told /\ slipped' \subseteq Keys
      <4>1. CASE Ledger!Land(k)
        BY <4>1 DEF Ledger!Land, TypeOK
      <4>2. CASE Ledger!Open(k)
        BY <4>2 DEF Ledger!Open, TypeOK
      <4>3. CASE Ledger!Slip(k)
        BY <4>3 DEF Ledger!Slip, TypeOK
      <4>4. CASE Ledger!LandAnyway(k)
        BY <4>4 DEF Ledger!LandAnyway, TypeOK
      <4>. QED BY <2>15, <4>1, <4>2, <4>3, <4>4 DEF EffectLands, LedgerSlips, CommitAuto
    <3>. QED BY <2>15, <3>1 DEF EffectLands, LedgerSlips, CommitAuto, TypeOK, rowVars, outsideVars
  <2>16. ASSUME NEW k \in Keys, LedgerResolves(k) PROVE TypeOK'
    <3>1. PICK o \in Ledger!Resolutions, type \in EventTypes :
             Ledger!Resolve(k, o) /\ events' = [events EXCEPT ![k] = Append(@, Event(type, o))]
      BY <2>16 DEF LedgerResolves
    <3>v. Event(type, o) \in Events
      BY DEF Event, Events
    <3>2. Append(events[k], Event(type, o)) \in Seq(Events)
      BY <3>v DEF TypeOK
    <3>u. told[k] \union {o} \in SUBSET Ledger!Resolutions
      BY DEF TypeOK
    <3>t. told' \in [Keys -> SUBSET Ledger!Resolutions]
      BY <3>1, <3>u DEF Ledger!Resolve, TypeOK
    <3>e. events' \in [Keys -> Seq(Events)]
      BY <3>1, <3>2 DEF TypeOK
    <3>3. /\ outcome' \in [Keys -> Ledger!Resolutions \union {"none", "open"}]
          /\ effects' = effects /\ slipped' = slipped
      BY <3>1 DEF Ledger!Resolve, TypeOK
    <3>. QED BY <2>16, <3>t, <3>e, <3>3 DEF LedgerResolves, TypeOK, outsideVars
  <2>. QED BY <2>0, <2>1, <2>2, <2>3, <2>4, <2>5, <2>6, <2>7, <2>8, <2>9, <2>10, <2>11,
              <2>12, <2>13, <2>14, <2>15, <2>16, NextActions
<1>. QED BY <1>1, <1>2, PTL DEF Spec
-----------------------------------------------------------------------------
(* PauseInv is inductive.                                                  *)

\* No process but p moves.
OthersStay(p) == \A q \in Procs \ {p} : proc'[q] = proc[q]

\* A process that returns, or takes up a run afresh, need not know anything.
LEMMA TakesUp ==
    ASSUME TypeOK, NEW p \in Procs,
           \/ Become(p, Idle)
           \/ \E pc \in {"send", "read", "poll", "cas"}, k \in Keys, d \in Decisions \union {"none"} :
                Become(p, Driving(pc, k, d))
    PROVE  OthersStay(p) /\ Knows(p)'
<1>1. CASE Become(p, Idle)
  BY <1>1 DEF Become, TypeOK, Idle, Knows, OthersStay
<1>2. ASSUME NEW pc \in {"send", "read", "poll", "cas"}, NEW k \in Keys,
             NEW d \in Decisions \union {"none"}, Become(p, Driving(pc, k, d))
      PROVE  OthersStay(p) /\ Knows(p)'
  <2>1. proc'[p] = Driving(pc, k, d) /\ \A q \in Procs \ {p} : proc'[q] = proc[q]
    BY <1>2 DEF Become, TypeOK
  <2>2. proc'[p].pc = pc /\ proc'[p].drives = 0
    BY <2>1 DEF Driving, Idle
  <2>. QED BY <2>1, <2>2 DEF Knows, OthersStay
<1>. QED BY <1>1, <1>2

\* A step that moves one process and leaves runs and ledger alone.
LEMMA ProcessMoves ==
    ASSUME TypeOK, PauseInv, NEW p \in Procs, OthersStay(p), Knows(p)',
           UNCHANGED <<status, trail, events, said, outcome, effects, slipped>>
    PROVE  PauseInv'
<1>1. \A k, d : WasDecided(k, d)' <=> WasDecided(k, d)
  BY DEF WasDecided
<1>2. \A q \in Procs : Knows(q)'
  <2>1. ASSUME NEW q \in Procs, q # p PROVE Knows(q)'
    BY <2>1, <1>1 DEF OthersStay, PauseInv, Knows, Key
  <2>. QED BY <2>1
<1>3. LedgerInv' /\ TrailIsPath' /\ OneTerminalEvent'
  BY DEF PauseInv, LedgerInv, TrailIsPath, OneTerminalEvent
<1>4. ApprovalBeforeClaim' /\ RunMatchesLedger'
  BY <1>1 DEF PauseInv, ApprovalBeforeClaim, RunMatchesLedger
<1>5. SaidIsTrue'
  BY <1>1 DEF PauseInv, SaidIsTrue
<1>. QED BY <1>2, <1>3, <1>4, <1>5 DEF PauseInv

\* A step in which a run takes an edge that agrees with the ledger.
LEMMA RunMoves ==
    ASSUME TypeOK, PauseInv, NEW p \in Procs, OthersStay(p),
           NEW k \in Keys, NEW to, <<status[k], to>> \in Edges, TookEdge(k, to),
           (\A j \in Keys : \A d : WasDecided(j, d) => WasDecided(j, d)')
               /\ (to \in Decisions => WasDecided(k, to)') => Knows(p)',
           to = "committed" => outcome[k] = "committed",
           to = "aborted" => \/ WasDecided(k, "rejected")
                             \/ outcome[k] \in Ledger!Resolutions \ {"committed"},
           \A j \in Keys : j # k => events'[j] = events[j],
           k \notin AutoKeys => events'[k] \in ClosingEvents(to, outcome[k]),
           UNCHANGED <<said, outcome, effects, slipped>>
    PROVE  PauseInv'
<1>1. /\ TrailIsPath'
      /\ \A j \in Keys : \A d : WasDecided(j, d) => WasDecided(j, d)'
      /\ to \in Decisions => WasDecided(k, to)'
  BY PathGrows DEF PauseInv
<1>2. /\ status'[k] = to
      /\ \A j \in Keys : j # k => status'[j] = status[j]
      /\ status[k] \notin Resolved
  BY DEF TookEdge, TypeOK, Edges, Resolved
<1>3. \A q \in Procs : Knows(q)'
  <2>1. ASSUME NEW q \in Procs, q # p PROVE Knows(q)'
    <3>1. proc'[q] = proc[q] /\ Knows(q)
      BY <2>1 DEF OthersStay, PauseInv
    <3>2. proc[q].pc # "idle" => Key(q) \in Keys
      BY DEF TypeOK, Key
    <3>. QED BY <3>1, <3>2, <1>1, <1>2 DEF Knows, Key
  <2>. QED BY <2>1, <1>1
<1>4. LedgerInv'
  BY DEF PauseInv, LedgerInv
<1>5. OneTerminalEvent'
  BY <1>2 DEF PauseInv, OneTerminalEvent
<1>6. ApprovalBeforeClaim' /\ SaidIsTrue'
  BY <1>1 DEF PauseInv, ApprovalBeforeClaim, SaidIsTrue
<1>7. RunMatchesLedger'
  BY <1>1, <1>2 DEF PauseInv, RunMatchesLedger
<1>. QED BY <1>1, <1>3, <1>4, <1>5, <1>6, <1>7 DEF PauseInv

\* A step of the ledger in which no process and no run moves.
LEMMA LedgerMoves ==
    ASSUME TypeOK, PauseInv, NEW k \in Keys, UNCHANGED <<status, trail, proc, said>>,
           CommitAuto(k) \/ EffectLands(k) \/ LedgerResolves(k) \/ LedgerSlips(k)
    PROVE  PauseInv'
<1>1. \A j, d : WasDecided(j, d)' <=> WasDecided(j, d)
  BY DEF WasDecided
<1>2. \A j \in Keys : PathOf(j)
  BY DEF PauseInv, TrailIsPath, PathOf
<1>3. /\ \A j \in Keys : j # k => outcome'[j] = outcome[j] /\ effects'[j] = effects[j]
      /\ slipped \subseteq slipped'
      /\ outcome'[k] # outcome[k] =>
           \/ outcome[k] = "none" /\ outcome'[k] = "open" /\ k \in AutoKeys
           \/ outcome[k] = "open" /\ outcome'[k] \in Ledger!Resolutions
      /\ outcome'[k] = "none" => outcome[k] = "none" /\ effects'[k] = effects[k]
  <2>1. CASE CommitAuto(k)
    BY <2>1 DEF CommitAuto, Ledger!Open, TypeOK
  <2>2. CASE EffectLands(k)
    BY <2>2 DEF EffectLands, Ledger!Land, TypeOK
  <2>3. CASE LedgerResolves(k)
    BY <2>3 DEF LedgerResolves, Ledger!Resolve, TypeOK, Ledger!Resolutions
  <2>4. CASE LedgerSlips(k)
    BY <2>4 DEF LedgerSlips, Ledger!Slip, Ledger!LandAnyway, TypeOK
  <2>. QED BY <2>1, <2>2, <2>3, <2>4
<1>t. effects' \in [Keys -> Nat]
  BY DEF CommitAuto, EffectLands, LedgerResolves, LedgerSlips, Ledger!Open, Ledger!Land,
         Ledger!Resolve, Ledger!Slip, Ledger!LandAnyway, TypeOK
<1>4. LedgerInv'
  <2>1. CASE CommitAuto(k)
    BY <2>1 DEF CommitAuto, Ledger!Open, TypeOK, PauseInv, LedgerInv
  <2>2. CASE EffectLands(k)
    BY <2>2 DEF EffectLands, Ledger!Land, TypeOK, PauseInv, LedgerInv
  <2>3. CASE LedgerResolves(k)
    BY <2>3 DEF LedgerResolves, Ledger!Resolve, Ledger!Truthful, Ledger!Resolutions,
                TypeOK, PauseInv, LedgerInv
  <2>4. CASE Ledger!Slip(k)
    BY <2>4 DEF Ledger!Slip, TypeOK, PauseInv, LedgerInv
  <2>5. CASE Ledger!LandAnyway(k)
    BY <2>5 DEF Ledger!LandAnyway, TypeOK, PauseInv, LedgerInv
  <2>. QED BY <2>1, <2>2, <2>3, <2>4, <2>5 DEF LedgerSlips
<1>5. \A p \in Procs : Knows(p)'
  <2>1. ASSUME NEW p \in Procs PROVE Knows(p)'
    <3>1. Knows(p) /\ (proc[p].pc # "idle" => Key(p) \in Keys)
      BY DEF PauseInv, TypeOK, Key
    <3>2. proc[p].pc = "ledger" => outcome'[Key(p)] # "none"
      BY <3>1, <1>3 DEF Knows
    <3>3. proc[p].pc = "close" => outcome[Key(p)] \in Ledger!Resolutions
      BY <3>1 DEF Knows, TypeOK
    <3>4. proc[p].pc = "close" => outcome'[Key(p)] = outcome[Key(p)]
      BY <3>1, <3>3, <1>3 DEF Ledger!Resolutions
    <3>. QED BY <3>1, <3>2, <3>4, <1>1 DEF Knows, Key
  <2>. QED BY <2>1
<1>6. TrailIsPath'
  BY DEF PauseInv, TrailIsPath
<1>7. ApprovalBeforeClaim'
  BY <1>1, <1>3 DEF PauseInv, ApprovalBeforeClaim
<1>8. RunMatchesLedger'
  BY <1>1, <1>3 DEF PauseInv, RunMatchesLedger, Ledger!Resolutions
<1>9. OneTerminalEvent'
  <2>1. CASE CommitAuto(k) \/ EffectLands(k) \/ LedgerSlips(k)
    <3>1. UNCHANGED <<status, events>> /\ (k \notin AutoKeys => outcome' = outcome)
      BY <2>1 DEF CommitAuto, EffectLands, LedgerSlips, Ledger!Land, Ledger!Slip,
                  Ledger!LandAnyway, rowVars
    <3>. QED BY <3>1, <1>3 DEF PauseInv, OneTerminalEvent
  <2>3. CASE LedgerResolves(k)
    <3>1. PICK o \in Ledger!Resolutions, type \in EventTypes :
             Ledger!Resolve(k, o) /\ events' = [events EXCEPT ![k] = Append(@, Event(type, o))]
      BY <2>3 DEF LedgerResolves
    <3>2. outcome[k] = "open" /\ outcome'[k] = o
      BY <3>1 DEF Ledger!Resolve, TypeOK
    <3>3. k \notin AutoKeys => status[k] \notin Resolved
      BY <3>2, <1>2, DecidedOnce
         DEF PauseInv, RunMatchesLedger, ApprovalBeforeClaim, Resolved, Ledger!Resolutions
    <3>4. k \notin AutoKeys => events[k] = <<>>
      BY <3>2, <3>3 DEF PauseInv, OneTerminalEvent, ClosingEvents, Ledger!Resolutions
    <3>5. k \notin AutoKeys => events'[k] = <<Event(type, o)>>
      BY <3>1, <3>4, AppendTuples DEF TypeOK
    <3>6. k \notin AutoKeys => events'[k] \in ClosingEvents(status[k], o)
      BY <3>5 DEF ClosingEvents
    <3>7. \A j \in Keys : j # k => events'[j] = events[j]
      BY <3>1 DEF TypeOK
    <3>. QED BY <3>2, <3>6, <3>7, <1>3 DEF PauseInv, OneTerminalEvent
  <2>. QED BY <2>1, <2>3
<1>10. SaidIsTrue'
  <2>1. ASSUME NEW j \in Keys \ AutoKeys
        PROVE  /\ "result" \in said[j] =>
                    /\ outcome'[j] = "committed"
                    /\ j \in Vouched => effects'[j] = 1 \/ (effects'[j] > 1 /\ j \in slipped')
               /\ "ApprovalRejected" \in said[j] => effects'[j] = 0
    <3>1. "result" \in said[j] => outcome'[j] = "committed"
      BY <1>3 DEF PauseInv, SaidIsTrue, Ledger!Resolutions
    <3>2. outcome'[j] = "committed" /\ j \in Vouched =>
            effects'[j] = 1 \/ (effects'[j] > 1 /\ j \in slipped')
      <4>1. effects'[j] \in Nat
        BY <1>t
      <4>. QED BY <4>1, <1>4 DEF LedgerInv
    <3>3. "ApprovalRejected" \in said[j] => outcome[j] = "none"
      BY <1>2, DecidedOnce DEF PauseInv, SaidIsTrue, ApprovalBeforeClaim
    <3>4. outcome[j] = "none" => outcome'[j] = "none"
      BY <1>3
    <3>. QED BY <3>1, <3>2, <3>3, <3>4, <1>4 DEF LedgerInv
  <2>. QED BY <2>1, <1>1 DEF PauseInv, SaidIsTrue
<1>. QED BY <1>4, <1>5, <1>6, <1>7, <1>8, <1>9, <1>10 DEF PauseInv
\* Every step preserves PauseInv.
LEMMA PauseStep ==
    ASSUME TypeOK, PauseInv, [Next]_vars PROVE PauseInv'
<1>0. CASE UNCHANGED vars
  <2>1. UNCHANGED <<status, trail, events, proc, said, outcome, effects, slipped>>
    BY <1>0 DEF vars, rowVars, ledgerVars
  <2>. QED BY <2>1 DEF PauseInv, LedgerInv, Knows, Key, WasDecided, TrailIsPath,
                       ApprovalBeforeClaim, RunMatchesLedger, OneTerminalEvent, SaidIsTrue
<1>k. \A p \in Procs : proc[p].pc # "idle" => Key(p) \in Keys
  BY DEF TypeOK, Key
<1>p. \A k \in Keys : PathOf(k)
  BY DEF PauseInv, TrailIsPath, PathOf
<1>1. ASSUME NEW p \in Procs, NEW k \in Keys, SavePaused(p, k) PROVE PauseInv'
  <2>1. OthersStay(p) /\ Knows(p)'
    BY <1>1, TakesUp DEF SavePaused
  <2>2. CASE status[k] # "none"
    BY <1>1, <2>1, <2>2, ProcessMoves DEF SavePaused, ledgerVars
  <2>3. CASE status[k] = "none"
    <3>1. TookEdge(k, "proposed") /\ <<status[k], "proposed">> \in Edges
          /\ UNCHANGED <<events, said, outcome, effects, slipped>>
      BY <1>1, <2>3 DEF SavePaused, TookEdge, Edges, ledgerVars
    <3>2. k \notin AutoKeys => events'[k] \in ClosingEvents("proposed", outcome[k])
      BY <2>3, <3>1 DEF PauseInv, OneTerminalEvent, ClosingEvents, Resolved
    <3>. QED BY <2>1, <3>1, <3>2, RunMoves
  <2>. QED BY <2>2, <2>3
<1>2. ASSUME NEW p \in Procs, NEW k \in Keys,
             Deliver(p, k) \/ ResumeBare(p, k) \/ SweepTakes(p, k) \/ PollTakes(p, k)
      PROVE  PauseInv'
  <2>1. OthersStay(p) /\ Knows(p)'
    BY <1>2, TakesUp DEF Deliver, ResumeBare, SweepTakes, PollTakes, TypeOK
  <2>. QED BY <1>2, <2>1, ProcessMoves
       DEF Deliver, ResumeBare, SweepTakes, PollTakes, rowVars, ledgerVars
<1>3. ASSUME NEW p \in Procs,
             \/ DecisionArrives(p) \/ Pend(p) \/ FetchDecision(p) \/ ReadUnregistered(p)
             \/ ReadProposed(p) \/ LedgerRaises(p) \/ Crash(p)
      PROVE  PauseInv'
  <2>1. OthersStay(p) /\ Knows(p)'
    BY <1>3, <1>k, TakesUp DEF DecisionArrives, Pend, FetchDecision, ReadUnregistered,
                               ReadProposed, LedgerRaises, Crash, TypeOK
  <2>. QED BY <1>3, <2>1, ProcessMoves
       DEF DecisionArrives, Pend, FetchDecision, ReadUnregistered, ReadProposed,
           LedgerRaises, Crash, rowVars, ledgerVars
<1>4. ASSUME NEW p \in Procs, Send(p) \/ SetApprovalId(p) PROVE PauseInv'
  <2>1. OthersStay(p) /\ proc'[p].pc \in {"record", "wait"} /\ proc'[p].drives = proc[p].drives
    BY <1>4 DEF Send, SetApprovalId, GoTo, OthersStay, TypeOK
  <2>2. proc[p].drives = 0
    BY <1>4 DEF Send, SetApprovalId, PauseInv, Knows
  <2>3. Knows(p)'
    BY <2>1, <2>2 DEF Knows
  <2>. QED BY <1>4, <2>1, <2>3, ProcessMoves DEF Send, SetApprovalId, rowVars, ledgerVars
<1>5. ASSUME NEW p \in Procs, ReadOn(p) PROVE PauseInv'
  <2>1. /\ OthersStay(p) /\ Key(p)' = Key(p) /\ Key(p) \in Keys
        /\ \/ status[Key(p)] = "rejected" /\ proc'[p].pc = "reject"
           \/ status[Key(p)] = "approved" /\ proc'[p].pc = "commit"
        /\ proc'[p].drives = proc[p].drives + 1
    BY <1>5, <1>k DEF ReadOn, OthersStay, TypeOK, Key
  <2>2. proc[p].drives = 0
    BY <1>5 DEF ReadOn, PauseInv, Knows, Resolved
  <2>3. WasDecided(Key(p), status[Key(p)])
    BY <1>p, <2>1, DecidedOnce DEF Decisions
  <2>4. \A d : WasDecided(Key(p), d)' <=> WasDecided(Key(p), d)
    BY <1>5, <2>1 DEF ReadOn, rowVars, WasDecided
  <2>5. Knows(p)'
    BY <2>1, <2>2, <2>3, <2>4 DEF Knows
  <2>. QED BY <1>5, <2>1, <2>5, ProcessMoves DEF ReadOn, rowVars, ledgerVars
<1>6. ASSUME NEW p \in Procs, DecisionCas(p) PROVE PauseInv'
  <2> DEFINE k == Key(p)
             d == proc[p].verdict
  <2>1. k \in Keys /\ d \in Decisions /\ proc[p].drives = 0
    BY <1>6, <1>k DEF DecisionCas, TypeOK, PauseInv, Knows
  <2>2. OthersStay(p) /\ Knows(p)'
    <3>1. OthersStay(p) /\ proc'[p].pc = "read" /\ proc'[p].drives = 0
      BY <1>6, <2>1 DEF DecisionCas, GoTo, OthersStay, TypeOK
    <3>. QED BY <3>1 DEF Knows
  <2>3. CASE TransitionLost(k, "proposed", d)
    BY <1>6, <2>2, <2>3, ProcessMoves DEF DecisionCas, TransitionLost, ledgerVars
  <2>4. CASE Transition(k, "proposed", d)
    <3>1. TookEdge(k, d) /\ <<status[k], d>> \in Edges /\ status[k] \notin Resolved
          /\ d \notin Resolved /\ UNCHANGED <<events, said, outcome, effects, slipped>>
      BY <1>6, <2>1, <2>4
         DEF DecisionCas, Transition, TransitionMatches, TookEdge, Edges, Decisions, Resolved, ledgerVars
    <3>2. k \notin AutoKeys => events'[k] \in ClosingEvents(d, outcome[k])
      BY <2>1, <3>1 DEF PauseInv, OneTerminalEvent, ClosingEvents
    <3>3. d \notin {"committed", "aborted"}
      BY <3>1 DEF Resolved
    <3> HIDE DEF k, d
    <3>. QED BY <2>1, <2>2, <3>1, <3>2, <3>3, RunMoves
  <2>. QED BY <1>6, <2>3, <2>4 DEF DecisionCas
<1>7. ASSUME NEW p \in Procs, DriveRejected(p) PROVE PauseInv'
  <2> DEFINE k == Key(p)
  <2>1. k \in Keys /\ WasDecided(k, "rejected")
    BY <1>7, <1>k DEF DriveRejected, PauseInv, Knows
  <2>2. /\ OthersStay(p) /\ proc'[p].pc = "read"
        /\ proc'[p].drives = proc[p].drives /\ proc[p].drives \in {0, 1}
        /\ proc'[p].key = proc[p].key
    BY <1>7 DEF DriveRejected, GoTo, OthersStay, TypeOK, PauseInv, Knows
  <2>3. status'[k] = "aborted"
    BY <1>7, <1>p, <2>1, DecidedOnce
       DEF DriveRejected, Transition, TransitionLost, TransitionMatches, TypeOK
  <2>4. Knows(p)'
    BY <2>2, <2>3 DEF Knows, Key, Resolved
  <2>5. CASE TransitionLost(k, "rejected", "aborted")
    <3>1. UNCHANGED <<status, trail, events, said, outcome, effects, slipped>>
      BY <1>7, <2>5 DEF DriveRejected, Transition, TransitionLost, ledgerVars
    <3>. QED BY <2>2, <2>4, <3>1, ProcessMoves
  <2>6. CASE Transition(k, "rejected", "aborted")
    <3>1. /\ TookEdge(k, "aborted") /\ <<status[k], "aborted">> \in Edges
          /\ status[k] = "rejected"
          /\ events' = [events EXCEPT ![k] = Append(@, Event("action_event", "aborted"))]
          /\ UNCHANGED <<said, outcome, effects, slipped>>
      BY <1>7, <2>6
         DEF DriveRejected, Transition, TransitionLost, TransitionMatches, TookEdge, Edges, ledgerVars
    <3>2. k \notin AutoKeys => outcome[k] = "none"
      BY <1>p, <2>1, DecidedOnce DEF PauseInv, ApprovalBeforeClaim
    <3>3. k \notin AutoKeys => events[k] = <<>>
      BY <2>1, <3>1, <3>2 DEF PauseInv, OneTerminalEvent, ClosingEvents, Resolved, Ledger!Resolutions
    <3>a. k \notin AutoKeys => events'[k] = <<Event("action_event", "aborted")>>
      BY <2>1, <3>1, <3>3, AppendTuples DEF TypeOK
    <3>4. k \notin AutoKeys => events'[k] \in ClosingEvents("aborted", outcome[k])
      BY <3>a, <3>2 DEF ClosingEvents, Resolved, Ledger!Resolutions
    <3>5. \A j \in Keys : j # k => events'[j] = events[j]
      BY <3>1 DEF TypeOK
    <3> HIDE DEF k
    <3>. QED BY <2>1, <2>2, <2>4, <3>1, <3>4, <3>5, RunMoves
  <2>. QED BY <1>7, <2>5, <2>6 DEF DriveRejected
<1>8. ASSUME NEW p \in Procs, EnterLedger(p) PROVE PauseInv'
  <2> DEFINE k == Key(p)
  <2>1. /\ k \in Keys /\ WasDecided(k, "approved")
        /\ OthersStay(p) /\ proc'[p].pc = "ledger"
        /\ proc'[p].drives = proc[p].drives /\ proc'[p].key = proc[p].key
    BY <1>8, <1>k DEF EnterLedger, GoTo, OthersStay, TypeOK, PauseInv, Knows
  <2>2. UNCHANGED <<status, trail, events, said, effects, slipped>>
    BY <1>8 DEF EnterLedger, Ledger!Open, rowVars, ledgerVars
  <2>3. \A j, d : WasDecided(j, d)' <=> WasDecided(j, d)
    BY <2>2 DEF WasDecided
  <2>4. /\ outcome'[k] # "none"
        /\ \A j \in Keys : outcome'[j] # outcome[j] =>
             j = k /\ outcome[j] = "none" /\ outcome'[j] = "open"
    BY <1>8, <2>1 DEF EnterLedger, Ledger!Open, ledgerVars, TypeOK
  <2>5. Knows(p)'
    BY <1>8, <2>1, <2>3, <2>4 DEF EnterLedger, Knows, Key, PauseInv
  <2>6. ASSUME NEW q \in Procs, q # p PROVE Knows(q)'
    <3>1. Knows(q) /\ proc'[q] = proc[q] /\ (proc[q].pc # "idle" => Key(q) \in Keys)
      BY <2>6, <2>1, <1>k DEF PauseInv, OthersStay
    <3>2. proc[q].pc = "ledger" => outcome'[Key(q)] # "none"
      BY <3>1, <2>4 DEF Knows
    <3>3. proc[q].pc = "close" => outcome[Key(q)] # "none"
      BY <3>1 DEF Knows, TypeOK
    <3>4. proc[q].pc = "close" => outcome'[Key(q)] = outcome[Key(q)]
      BY <3>1, <3>3, <2>4
    <3>. QED BY <3>1, <3>2, <3>4, <2>2, <2>3 DEF Knows, Key
  <2>7. LedgerInv'
    BY <2>2, <2>4 DEF PauseInv, LedgerInv
  <2>8. TrailIsPath' /\ ApprovalBeforeClaim'
    BY <2>1, <2>2, <2>3, <2>4 DEF PauseInv, TrailIsPath, ApprovalBeforeClaim
  <2>9. RunMatchesLedger'
    BY <2>2, <2>3, <2>4 DEF PauseInv, RunMatchesLedger, Ledger!Resolutions
  <2>10. OneTerminalEvent'
    <3>1. \A x : ClosingEvents(x, "none") = ClosingEvents(x, "open")
      BY DEF ClosingEvents, Ledger!Resolutions
    <3>2. \A j \in Keys :
            ClosingEvents(status[j], outcome'[j]) = ClosingEvents(status[j], outcome[j])
      BY <3>1, <2>4
    <3>. QED BY <2>2, <3>2 DEF PauseInv, OneTerminalEvent
  <2>11. SaidIsTrue'
    BY <2>2, <2>3, <2>4 DEF PauseInv, SaidIsTrue
  <2>. QED BY <2>5, <2>6, <2>7, <2>8, <2>9, <2>10, <2>11 DEF PauseInv
<1>9. ASSUME NEW p \in Procs, LedgerReturns(p) PROVE PauseInv'
  <2>1. /\ OthersStay(p) /\ proc'[p].pc = "close" /\ proc'[p].seen = outcome[Key(p)]
        /\ proc'[p].drives = proc[p].drives /\ proc'[p].key = proc[p].key
    BY <1>9 DEF LedgerReturns, OthersStay, TypeOK
  <2>2. UNCHANGED <<status, trail, events, said, outcome, effects, slipped>>
    BY <1>9 DEF LedgerReturns, Ledger!Report, rowVars
  <2>3. \A j, d : WasDecided(j, d)' <=> WasDecided(j, d)
    BY <2>2 DEF WasDecided
  <2>4. WasDecided(Key(p), "approved") /\ proc[p].drives \in {0, 1}
    BY <1>9 DEF LedgerReturns, PauseInv, Knows
  <2>5. Knows(p)'
    BY <2>1, <2>2, <2>3, <2>4 DEF Knows, Key
  <2>. QED BY <2>1, <2>2, <2>5, ProcessMoves
<1>10. ASSUME NEW p \in Procs, Close(p) PROVE PauseInv'
  <2> DEFINE k == Key(p)
             to == CloseAs(proc[p].seen)
  <2>1. /\ k \in Keys /\ WasDecided(k, "approved")
        /\ outcome[k] = proc[p].seen /\ outcome[k] \in Ledger!Resolutions
    BY <1>10, <1>k DEF Close, PauseInv, Knows, TypeOK
  <2>2. /\ OthersStay(p) /\ proc'[p].pc = "read"
        /\ proc'[p].drives = proc[p].drives /\ proc[p].drives \in {0, 1}
        /\ proc'[p].key = proc[p].key
    BY <1>10 DEF Close, GoTo, OthersStay, TypeOK, PauseInv, Knows
  <2>3. to \in Resolved
    BY DEF CloseAs, Resolved
  <2>4. status'[k] \in Resolved
    BY <1>10, <1>p, <2>1, <2>3, DecidedOnce
       DEF Close, Transition, TransitionLost, TransitionMatches, TypeOK, Resolved
  <2>5. Knows(p)'
    BY <2>2, <2>4 DEF Knows, Key
  <2>6. CASE TransitionLost(k, "approved", to)
    BY <1>10, <2>2, <2>5, <2>6, ProcessMoves DEF Close, TransitionLost, ledgerVars
  <2>7. CASE Transition(k, "approved", to)
    <3>1. /\ TookEdge(k, to) /\ <<status[k], to>> \in Edges
          /\ UNCHANGED <<events, said, outcome, effects, slipped>>
      BY <1>10, <2>3, <2>7
         DEF Close, Transition, TransitionMatches, TookEdge, Edges, Resolved, ledgerVars
    <3>2. k \notin AutoKeys => events'[k] \in ClosingEvents(to, outcome[k])
      BY <2>1, <3>1 DEF PauseInv, OneTerminalEvent, ClosingEvents
    <3>3. /\ to = "committed" => outcome[k] = "committed"
          /\ to = "aborted" => outcome[k] \in Ledger!Resolutions \ {"committed"}
      BY <2>1 DEF CloseAs
    <3> HIDE DEF k, to
    <3>. QED BY <2>1, <2>2, <2>5, <3>1, <3>2, <3>3, RunMoves
  <2>. QED BY <1>10, <2>6, <2>7 DEF Close
<1>11. ASSUME NEW p \in Procs, ReadResolved(p) PROVE PauseInv'
  <2> DEFINE k == Key(p)
  <2>1. k \in Keys /\ status[k] \in Resolved
    BY <1>11, <1>k DEF ReadResolved
  <2>2. /\ UNCHANGED <<status, trail, events, outcome, effects, slipped>>
        /\ \A j \in Keys : j # k => said'[j] = said[j]
        /\ said'[k] = said[k] \union {Surface(k)}
    BY <1>11, <2>1 DEF ReadResolved, rowVars, ledgerVars, TypeOK
  <2>3. \A j, d : WasDecided(j, d)' <=> WasDecided(j, d)
    BY <2>2 DEF WasDecided
  <2>4. OthersStay(p) /\ Knows(p)'
    BY <1>11, TakesUp DEF ReadResolved
  <2>5. \A q \in Procs : Knows(q)'
    <3>1. ASSUME NEW q \in Procs, q # p PROVE Knows(q)'
      BY <3>1, <2>2, <2>3, <2>4 DEF OthersStay, PauseInv, Knows, Key
    <3>. QED BY <3>1, <2>4
  <2>6. LedgerInv' /\ TrailIsPath' /\ OneTerminalEvent'
    BY <2>2 DEF PauseInv, LedgerInv, TrailIsPath, OneTerminalEvent
  <2>7. ApprovalBeforeClaim' /\ RunMatchesLedger'
    BY <2>2, <2>3 DEF PauseInv, ApprovalBeforeClaim, RunMatchesLedger
  <2>8. k \notin AutoKeys =>
          /\ Surface(k) = "result" =>
               /\ outcome[k] = "committed"
               /\ k \in Vouched => effects[k] = 1 \/ (effects[k] > 1 /\ k \in slipped)
          /\ Surface(k) = "ApprovalRejected" => WasDecided(k, "rejected") /\ effects[k] = 0
          /\ Surface(k) = "PreconditionFailed" => WasDecided(k, "approved")
    <3>1. CASE status[k] = "committed"
      BY <2>1, <3>1 DEF Surface, PauseInv, RunMatchesLedger, LedgerInv, TypeOK
    <3>2. CASE status[k] = "aborted" /\ outcome[k] = "none"
      <4>1. WasDecided(k, "rejected") /\ effects[k] = 0
        BY <2>1, <3>2 DEF PauseInv, RunMatchesLedger, LedgerInv, Ledger!Resolutions
      <4>. QED BY <3>2, <4>1 DEF Surface, RecordedDecision
    <3>3. CASE status[k] = "aborted" /\ outcome[k] # "none"
      <4>1. k \notin AutoKeys => WasDecided(k, "approved")
        BY <2>1, <3>3 DEF PauseInv, ApprovalBeforeClaim
      <4>. QED BY <3>3, <4>1 DEF Surface, RecordedDecision
    <3>. QED BY <2>1, <3>1, <3>2, <3>3 DEF Resolved
  <2>9. SaidIsTrue'
    <3> HIDE DEF k
    <3>. QED BY <2>1, <2>2, <2>3, <2>8 DEF PauseInv, SaidIsTrue
  <2>. QED BY <2>5, <2>6, <2>7, <2>9 DEF PauseInv
<1>12. ASSUME NEW k \in Keys, NEW d \in Decisions, Decide(k, d) PROVE PauseInv'
  <2>1. UNCHANGED <<status, trail, events, proc, said, outcome, effects, slipped>>
    BY <1>12 DEF Decide, rowVars, ledgerVars
  <2>. QED BY <2>1 DEF PauseInv, LedgerInv, Knows, Key, WasDecided, TrailIsPath,
                       ApprovalBeforeClaim, RunMatchesLedger, OneTerminalEvent, SaidIsTrue
<1>13. ASSUME NEW k \in Keys,
              EffectLands(k) \/ LedgerResolves(k) \/ LedgerSlips(k) \/ CommitAuto(k)
       PROVE  PauseInv'
  BY <1>13, LedgerMoves DEF EffectLands, LedgerResolves, LedgerSlips, CommitAuto, rowVars
<1>. QED BY <1>0, <1>1, <1>2, <1>3, <1>4, <1>5, <1>6, <1>7, <1>8, <1>9, <1>10, <1>11,
            <1>12, <1>13, NextActions

\* PauseInv holds throughout, for every instance of the durable pause.
THEOREM PauseInvariant == Spec => []PauseInv
<1>1. Init => PauseInv
  BY DEF Init, PauseInv, LedgerInv, Knows, Idle, WasDecided, TrailIsPath, Paths,
         ApprovalBeforeClaim, RunMatchesLedger, OneTerminalEvent, ClosingEvents, SaidIsTrue, Resolved,
         Ledger!Resolutions, Ledger!AbsInit
<1>2. TypeOK /\ PauseInv /\ [Next]_vars => PauseInv'
  BY PauseStep
<1>. QED BY <1>1, <1>2, PauseTypeCorrect, PTL DEF Spec

\* The ledger is only claimed for a run whose approval is durable.
THEOREM ApprovedFirst == Spec => []ApprovalBeforeClaim
<1>1. PauseInv => ApprovalBeforeClaim
  BY DEF PauseInv
<1>. QED BY <1>1, PauseInvariant, PTL

\* A resolved run says what the ledger says.
THEOREM RunAgrees == Spec => []RunMatchesLedger
<1>1. PauseInv => RunMatchesLedger
  BY DEF PauseInv
<1>. QED BY <1>1, PauseInvariant, PTL

\* Exactly one event closes a gated action, naming how the ledger has it: its
\* action_event, or a takeover's reconcile event in its place.
THEOREM OneEvent == Spec => []OneTerminalEvent
<1>1. PauseInv => OneTerminalEvent
  BY DEF PauseInv
<1>. QED BY <1>1, PauseInvariant, PTL

\* The transition events are the path the run took; its decision is final.
THEOREM DecisionIsFinal == Spec => []TrailIsPath
<1>1. PauseInv => TrailIsPath
  BY DEF PauseInv
<1>. QED BY <1>1, PauseInvariant, PTL

\* apply_decision drives a run once, so its bounded loop never gives up.
THEOREM NoSecondDrive == Spec => []SettlesAtOnce
<1>1. PauseInv => SettlesAtOnce
  BY DEF PauseInv, Knows, SettlesAtOnce
<1>. QED BY <1>1, PauseInvariant, PTL

\* Callers of gated actions are told what was decided and done.
THEOREM AnswersAreTrue == Spec => []SaidIsTrue
<1>1. PauseInv => SaidIsTrue
  BY DEF PauseInv
<1>. QED BY <1>1, PauseInvariant, PTL
=============================================================================

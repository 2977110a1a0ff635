--------------------------- MODULE RuntimeProofs ----------------------------
(***************************************************************************)
(* Guarded async calls over the gate of the SQLite store, for any number of *)
(* threads, calls, workers and pool sizes: the gate keeps its promise, by  *)
(* itself and under the pool, which touches it through its actions only;   *)
(* every effect is on the ledger, and no call waits behind a full pool     *)
(* unannounced.                                                            *)
(***************************************************************************)
EXTENDS AsyncPool, FiniteSetTheorems, SequenceTheorems, TLAPS

\* The threads _active_ops counts.
Inside == {t \in Threads : op[t] # "idle"}

\* GateHolds is not inductive: it needs to know what _active_ops counts, that
\* a close() under way has turned _closing on, and who can have been cut.
GateInv ==
    /\ GateTypeOK
    /\ active = Cardinality(Inside)
    /\ \A c \in Closers : closer[c] # "idle" => closing
    /\ (\E t \in Threads : op[t] = "cut") => missed
    /\ GateHolds

-----------------------------------------------------------------------------
(* Counting.                                                               *)

\* A thread that is inside is counted.
LEMMA Counted ==
    ASSUME GateInv
    PROVE  /\ IsFiniteSet(Inside)
           /\ active = 0 => Inside = {}
<1>1. IsFiniteSet(Inside)
  BY GateAssumption, FS_Subset DEF Inside
<1>. QED BY <1>1, FS_EmptySet DEF GateInv

LEMMA OneMore ==
    ASSUME GateInv, NEW t \in Threads, op[t] = "idle", op' = [op EXCEPT ![t] = "registered"]
    PROVE  Cardinality(Inside') = active + 1
<1>1. Inside' = Inside \union {t} /\ t \notin Inside
  BY DEF GateInv, GateTypeOK, Inside
<1>. QED BY <1>1, Counted, FS_AddElement DEF GateInv

LEMMA OneLess ==
    ASSUME GateInv, NEW t \in Threads, op[t] # "idle", op' = [op EXCEPT ![t] = "idle"]
    PROVE  /\ active - 1 \in Nat
           /\ Cardinality(Inside') = active - 1
<1>1. Inside' = Inside \ {t} /\ t \in Inside
  BY DEF GateInv, GateTypeOK, Inside
<1>2. IsFiniteSet(Inside')
  BY <1>1, Counted, FS_RemoveElement
<1>. QED BY <1>1, <1>2, Counted, FS_RemoveElement, FS_CardinalityType DEF GateInv

-----------------------------------------------------------------------------
(* The gate.                                                               *)

LEMMA GateInvInit == GateInit => GateInv
<1>. SUFFICES ASSUME GateInit PROVE GateInv
  OBVIOUS
<1>1. Inside = {}
  BY DEF GateInit, Inside
<1>. QED BY <1>1, FS_EmptySet DEF GateInit, GateInv, GateTypeOK, GateHolds, Connections

\* While some thread is inside, no close() is through unless one gave up.
LEMMA NotYetClosed ==
    ASSUME GateInv, NEW t \in Threads, op[t] # "idle"
    PROVE  missed \/ \A c \in Closers : closer[c] # "done"
BY DEF GateInv, GateHolds, Connections

LEMMA RegisterKeeps ==
    ASSUME GateInv, NEW t \in Threads, Register(t)
    PROVE  GateInv'
<1>1. Cardinality(Inside') = active + 1
  BY OneMore DEF Register
<1>2. GateTypeOK'
  BY DEF Register, GateInv, GateTypeOK
<1>3. (\E u \in Threads : op[u] = "cut")' => missed'
  BY DEF Register, GateInv, GateTypeOK
<1>4. \A c \in Closers : closer[c] = "idle"
  BY DEF Register, GateInv
<1>5. GateHolds'
  BY <1>4 DEF Register, GateInv, GateHolds, Connections
<1>. QED BY <1>1, <1>2, <1>3, <1>5 DEF Register, GateInv

LEMMA ConnectKeeps ==
    ASSUME GateInv, NEW t \in Threads, Connect(t)
    PROVE  GateInv'
<1>1. Inside' = Inside
  BY DEF Connect, GateInv, GateTypeOK, Inside
<1>2. GateTypeOK'
  BY DEF Connect, GateInv, GateTypeOK
<1>3. (\E u \in Threads : op[u] = "cut")' => missed'
  BY DEF Connect, GateInv, GateTypeOK
<1>4. missed \/ \A c \in Closers : closer[c] # "done"
  BY NotYetClosed DEF Connect
<1>5. GateHolds'
  BY <1>4 DEF Connect, GateInv, GateHolds, Connections
<1>. QED BY <1>1, <1>2, <1>3, <1>5 DEF Connect, GateInv

LEMMA FinishKeeps ==
    ASSUME GateInv, NEW t \in Threads, Finish(t)
    PROVE  GateInv'
<1>1. active - 1 \in Nat /\ Cardinality(Inside') = active - 1
  BY OneLess DEF Finish
<1>2. GateTypeOK'
  BY <1>1 DEF Finish, GateInv, GateTypeOK
<1>3. (\E u \in Threads : op[u] = "cut")' => missed'
  BY DEF Finish, GateInv, GateTypeOK
<1>4. missed \/ \A c \in Closers : closer[c] # "done"
  BY NotYetClosed DEF Finish
<1>5. GateHolds'
  BY <1>4 DEF Finish, GateInv, GateHolds, Connections
<1>. QED BY <1>1, <1>2, <1>3, <1>5 DEF Finish, GateInv

LEMMA FailKeeps ==
    ASSUME GateInv, NEW t \in Threads, Fail(t)
    PROVE  GateInv'
<1>0. op[t] # "idle"
  BY DEF Fail
<1>1. active - 1 \in Nat /\ Cardinality(Inside') = active - 1
  BY <1>0, OneLess DEF Fail
<1>2. GateTypeOK'
  BY <1>1 DEF Fail, GateInv, GateTypeOK
<1>3. (\E u \in Threads : op[u] = "cut")' => missed'
  BY DEF Fail, GateInv, GateTypeOK
<1>4. missed \/ \A c \in Closers : closer[c] # "done"
  BY <1>0, NotYetClosed
<1>5. GateHolds'
  BY <1>4 DEF Fail, GateInv, GateHolds, Connections
<1>. QED BY <1>1, <1>2, <1>3, <1>5 DEF Fail, GateInv

\* An audit reader comes and goes, whatever has become of the store.
LEMMA StreamKeeps ==
    ASSUME GateInv, NEW a \in Auditors, OpenStream(a) \/ CloseStream(a)
    PROVE  GateInv'
<1>1. UNCHANGED <<closing, active, conns, op, closer, missed, torn>> /\ streams' \subseteq Auditors
  BY DEF OpenStream, CloseStream, GateInv, GateTypeOK
<1>2. conns \intersect streams = {}
  BY GateAssumption DEF GateInv, GateTypeOK
<1>3. GateHolds'
  BY <1>1, <1>2 DEF GateInv, GateHolds, Connections
<1>. QED BY <1>1, <1>3 DEF GateInv, GateTypeOK, Inside

LEMMA FinishTornKeeps ==
    ASSUME GateInv, NEW t \in Threads, FinishTorn(t)
    PROVE  GateInv'
<1>1. active - 1 \in Nat /\ Cardinality(Inside') = active - 1
  BY OneLess DEF FinishTorn
<1>2. GateTypeOK'
  BY <1>1 DEF FinishTorn, GateInv, GateTypeOK
<1>3. missed /\ missed'
  BY DEF FinishTorn, GateInv
<1>4. GateHolds'
  BY <1>3 DEF GateHolds
<1>. QED BY <1>1, <1>2, <1>3, <1>4 DEF FinishTorn, GateInv

\* A teardown moves threads from using to cut and nobody in or out.
LEMMA TeardownKeepsInside ==
    ASSUME GateInv, NEW c \in Closers, Teardown(c)
    PROVE  Inside' = Inside
BY DEF Teardown, GateInv, GateTypeOK, Inside

LEMMA CloseKeeps ==
    ASSUME GateInv, NEW c \in Closers, Close(c)
    PROVE  GateInv'
<1>1. CASE CloseBegin(c)
  <2>1. Inside' = Inside
    BY <1>1 DEF CloseBegin, Inside
  <2>2. GateTypeOK'
    BY <1>1 DEF CloseBegin, GateInv, GateTypeOK
  <2>3. \A d \in Closers : closer'[d] = "done" => closer[d] = "done"
    BY <1>1 DEF CloseBegin, GateInv, GateTypeOK
  <2>4. GateHolds'
    BY <1>1, <2>3 DEF CloseBegin, GateInv, GateHolds, Connections
  <2>. QED BY <1>1, <2>1, <2>2, <2>4 DEF CloseBegin, GateInv
<1>2. CASE CloseDrained(c)
  <2>1. \A t \in Threads : op[t] = "idle"
    BY <1>2, Counted DEF CloseDrained, Inside
  <2>2. Inside' = Inside
    BY <1>2, TeardownKeepsInside DEF CloseDrained
  <2>3. \A t \in Threads : op'[t] = "idle"
    BY <1>2, <2>1 DEF CloseDrained, Teardown
  <2>4. GateTypeOK'
    BY <1>2 DEF CloseDrained, Teardown, GateInv, GateTypeOK
  <2>5. \A d \in Closers : closer'[d] # "idle" => closing'
    BY <1>2 DEF CloseDrained, Teardown, GateInv, GateTypeOK
  <2>6. GateHolds'
    BY <1>2, <2>3 DEF CloseDrained, Teardown, GateInv, GateHolds, Connections
  <2>. QED BY <1>2, <2>2, <2>3, <2>4, <2>5, <2>6 DEF CloseDrained, Teardown, GateInv
<1>3. CASE CloseAnyway(c)
  <2>1. Inside' = Inside
    BY <1>3, TeardownKeepsInside DEF CloseAnyway
  <2>2. GateTypeOK'
    BY <1>3 DEF CloseAnyway, Teardown, GateInv, GateTypeOK
  <2>3. \A d \in Closers : closer'[d] # "idle" => closing'
    BY <1>3 DEF CloseAnyway, Teardown, GateInv, GateTypeOK
  <2>4. missed'
    BY <1>3 DEF CloseAnyway
  <2>5. GateHolds'
    BY <2>4 DEF GateHolds
  <2>. QED BY <1>3, <2>1, <2>2, <2>3, <2>4, <2>5 DEF CloseAnyway, Teardown, GateInv
<1>. QED BY <1>1, <1>2, <1>3 DEF Close

LEMMA GateInvStep == GateInv /\ [GateNext]_gateVars => GateInv'
<1>. SUFFICES ASSUME GateInv, [GateNext]_gateVars PROVE GateInv'
  OBVIOUS
<1>1. CASE UNCHANGED gateVars
  BY <1>1 DEF gateVars, GateInv, GateTypeOK, GateHolds, Connections, Inside
<1>2. ASSUME NEW t \in Threads, Register(t) \/ Connect(t) \/ Finish(t) \/ Fail(t) \/ FinishTorn(t)
      PROVE GateInv'
  BY <1>2, RegisterKeeps, ConnectKeeps, FinishKeeps, FailKeeps, FinishTornKeeps
<1>3. ASSUME NEW c \in Closers, Close(c)
      PROVE GateInv'
  BY <1>3, CloseKeeps
<1>4. ASSUME NEW a \in Auditors, OpenStream(a) \/ CloseStream(a)
      PROVE GateInv'
  BY <1>4, StreamKeeps
<1>. QED BY <1>1, <1>2, <1>3, <1>4 DEF GateNext

\* SqliteStore by itself: whatever threads do with it and however often it is
\* closed, a close() that did not give up leaves nobody inside and no
\* connection open but the audit readers' own, and only one that did give up
\* can cut an operation.
THEOREM GateKeepsItsPromise == GateSpec => []GateHolds
<1>1. GateInv => GateHolds
  BY DEF GateInv
<1>. QED BY <1>1, GateInvInit, GateInvStep, PTL DEF GateSpec

-----------------------------------------------------------------------------
(* The gate under the pool.                                                *)

\* A core's ledger writes are operations of the gate, and nothing else is.
LEMMA PoolUsesTheGate == [Next]_vars => [GateNext]_gateVars
<1>. SUFFICES ASSUME [Next]_vars PROVE [GateNext]_gateVars
  OBVIOUS
<1>1. CASE UNCHANGED vars
  BY <1>1 DEF vars
<1>2. CASE \E n \in Sizes : Configure(n)
  BY <1>2 DEF Configure
<1>3. ASSUME NEW c \in Calls, CallTool(c) \/ Cancel(c) \/ LoopStep(c)
      PROVE UNCHANGED gateVars
  BY <1>3 DEF CallTool, Submit, Cancel, LoopStep, Resume, AwaitInner, CoroEnds
<1>4. ASSUME NEW w \in Workers, TakeUp(w)
      PROVE UNCHANGED gateVars
  BY <1>4 DEF TakeUp
<1>5. ASSUME NEW t \in {LoopThread, CronThread}, NEW c \in Decided, Drive(t, c)
      PROVE UNCHANGED gateVars
  BY <1>5 DEF Drive
<1>6. ASSUME NEW t \in Threads, CoreStep(t) \/ Abandon(t)
      PROVE [GateNext]_gateVars
  <2>1. CASE Refused(t) \/ RunEffect(t) \/ EffectOver(t) \/ Abandon(t)
    BY <2>1 DEF Refused, RunEffect, EffectOver, Abandon
  <2>2. CASE BeginWrite(t)
    BY <2>2 DEF BeginWrite, GateNext
  <2>3. CASE WriteDone(t)
    BY <2>3 DEF WriteDone, GateNext
  <2>4. CASE WriteTorn(t) \/ WriteFails(t)
    BY <2>4 DEF WriteTorn, WriteFails, GateNext
  <2>. QED BY <1>6, <2>1, <2>2, <2>3, <2>4 DEF CoreStep
<1>7. CASE LoopEnds \/ LoopCloses
  BY <1>7 DEF LoopEnds, LoopCloses
<1>8. ASSUME NEW c \in Closers, CloseStore(c)
      PROVE GateNext
  BY <1>8 DEF CloseStore, GateNext
<1>9. ASSUME NEW a \in Auditors, ReadAudit(a)
      PROVE GateNext
  BY <1>9 DEF ReadAudit, GateNext
<1>. QED BY <1>1, <1>2, <1>3, <1>4, <1>5, <1>6, <1>7, <1>8, <1>9 DEF Next

\* Cancelled, abandoned and refused calls included: the pool's programs keep
\* to the gate, so its promise holds for them.
THEOREM PoolKeepsTheGate == Spec => []GateHolds
<1>1. Init => GateInit
  BY DEF Init
<1>2. Spec => GateSpec
  BY <1>1, PoolUsesTheGate, PTL DEF Spec, GateSpec
<1>. QED BY <1>2, GateKeepsItsPromise

-----------------------------------------------------------------------------
(* The pool.                                                               *)

CallStates == {"new", "never made", "waiting", "returning", "raising",
               "returned", "raised", "cancelled"}

PoolTypeOK ==
    /\ configured \in Sizes /\ pool \in Nat /\ started \subseteq Workers
    /\ queue \in Seq(Calls)
    /\ warned \in BOOLEAN
    /\ at \in [Threads -> Calls \union {NoCall}]
    /\ step \in [Threads -> {"idle", "claim", "mark", "effect", "redo", "finalize"}]
    /\ call \in [Calls -> CallStates]
    /\ coro \in [Calls -> {"none", "running", "done", "raised", "dropped"}]
    /\ row \in [Calls -> {"none", "pending", "executing", "committed"}]
    /\ landed \in [Calls -> BOOLEAN]

\* What holds of a thread t that is running the core of a call.
Driving(t) ==
    LET c == at[t]
    IN /\ c = NoCall <=> step[t] = "idle"
       /\ c # NoCall =>
            /\ call[c] \in {"waiting", "cancelled"}
            /\ c \notin Queued
            /\ c \in Decided <=> t \notin Workers
            /\ \A s \in Threads : at[s] = c => s = t
       /\ step[t] = "claim" => row[c] = "none"
       /\ step[t] = "mark" => row[c] = "pending"
       /\ Executing(t) => row[c] = "executing"
       /\ step[t] = "finalize" => row[c] = "executing" /\ landed[c]

\* A core that waits for a worker has not begun, and waits once.
QueueInv ==
    /\ \A i \in DOMAIN queue :
          /\ queue[i] \notin Decided
          /\ call[queue[i]] = "waiting"
          /\ row[queue[i]] = "none"
    /\ \A i, j \in DOMAIN queue : queue[i] = queue[j] => i = j

\* What holds of a call, whoever is at work on it.
Accounted(c) ==
    /\ call[c] \in {"new", "never made"} => row[c] = "none"
    /\ coro[c] # "none" \/ landed[c] => row[c] \in {"executing", "committed"}
    /\ coro[c] = "done" \/ row[c] = "committed" => landed[c]
    /\ call[c] \in {"returning", "returned"} => row[c] = "committed"
    /\ call[c] \in {"returning", "raising"} => c \notin Decided

Waiting == {c \in Calls : Awaited(c)}

\* _INFLIGHT counts the tasks suspended in the wrapper, and the warning comes
\* with the first one too many.
CountInv ==
    /\ inflight = Cardinality(Waiting)
    /\ ~warned => inflight <= configured
    /\ IF pool = 0 THEN Waiting = {} ELSE pool = configured

PoolInv ==
    /\ PoolTypeOK
    /\ \A t \in Threads : Driving(t)
    /\ QueueInv
    /\ \A c \in Calls : Accounted(c)
    /\ CountInv

-----------------------------------------------------------------------------
(* Counting.                                                               *)

LEMMA Types == PoolInv => PoolTypeOK
BY DEF PoolInv

\* No task enters or leaves the wrapper.
LEMMA CountStands ==
    ASSUME CountInv, Waiting' = Waiting, UNCHANGED <<inflight, warned, configured, pool>>
    PROVE  CountInv'
BY DEF CountInv

LEMMA FiniteWaiting == IsFiniteSet(Waiting) /\ Cardinality(Waiting) \in Nat
<1>1. Waiting \subseteq Calls
  BY DEF Waiting
<1>. QED BY <1>1, PoolAssumption, FS_Subset, FS_CardinalityType

\* A task leaves the wrapper.
LEMMA OneLeaves ==
    ASSUME CountInv, NEW c \in Calls, Awaited(c), Waiting' = Waiting \ {c},
           configured \in Nat, inflight' = inflight - 1, UNCHANGED <<warned, configured, pool>>
    PROVE  CountInv'
<1>1. c \in Waiting
  BY DEF Waiting
<1>2. Cardinality(Waiting') = Cardinality(Waiting) - 1
  BY <1>1, FiniteWaiting, FS_RemoveElement
<1>. QED BY <1>1, <1>2, FiniteWaiting DEF CountInv

-----------------------------------------------------------------------------
(* What a step leaves alone.                                               *)

\* A thread whose core does not move.
LEMMA ThreadStays ==
    ASSUME NEW s \in Threads, Driving(s), at'[s] = at[s], step'[s] = step[s],
           at[s] # NoCall =>
               /\ row'[at[s]] = row[at[s]]
               /\ landed[at[s]] => landed'[at[s]]
               /\ call'[at[s]] \in {"waiting", "cancelled"}
               /\ at[s] \notin Queued'
               /\ \A u \in Threads : at'[u] = at[s] => at[u] = at[s]
    PROVE  Driving(s)'
BY DEF Driving, Executing

LEMMA QueueStays ==
    ASSUME QueueInv, queue' = queue,
           \A i \in DOMAIN queue : call'[queue[i]] = "waiting" /\ row'[queue[i]] = "none"
    PROVE  QueueInv'
BY DEF QueueInv

\* Nobody waits for a worker whom a thread is driving.
LEMMA Apart ==
    ASSUME PoolInv, NEW t \in Threads, at[t] # NoCall
    PROVE  /\ at[t] \in Calls
           /\ \A i \in DOMAIN queue : queue[i] # at[t]
           /\ \A s \in Threads : s # t => at[s] # at[t]
           /\ call[at[t]] \in {"waiting", "cancelled"}
BY DEF PoolInv, PoolTypeOK, Driving, Queued

-----------------------------------------------------------------------------
(* The core of a call.                                                     *)

\* The core on thread t ends, its last write included.
LEMMA CoreOver ==
    ASSUME PoolInv, NEW t \in Threads, at[t] # NoCall,
           NEW how \in {"returning", "raising"}, EndCore(t, how),
           UNCHANGED <<poolVars, coro, landed>>,
           \/ row' = row
           \/ step[t] = "finalize" /\ row' = [row EXCEPT ![at[t]] = "committed"],
           how = "returning" => row'[at[t]] = "committed"
    PROVE  PoolInv'
<1>. DEFINE c == at[t]
<1>1. c \in Calls /\ PoolTypeOK
  BY Apart, Types
<1>2. PoolTypeOK'
  BY <1>1 DEF PoolTypeOK, EndCore, CallStates, poolVars
<1>3. /\ \A d \in Calls \ {c} : call'[d] = call[d] /\ row'[d] = row[d]
      /\ Queued' = Queued
  BY <1>1 DEF PoolTypeOK, EndCore, poolVars, Queued
<1>4. ASSUME NEW s \in Threads PROVE Driving(s)'
  <2>1. CASE s = t
    BY <2>1, <1>1 DEF Driving, Executing, EndCore, PoolTypeOK
  <2>2. CASE s # t
    <3>1. at'[s] = at[s] /\ step'[s] = step[s]
      BY <2>2, <1>1 DEF EndCore, PoolTypeOK
    <3>2. Driving(s)
      BY DEF PoolInv
    <3>3. at[s] # NoCall => at[s] \in Calls \ {c}
      BY <2>2, Apart DEF PoolInv, PoolTypeOK
    <3>4. \A u \in Threads : at'[u] = at[s] /\ at[s] # NoCall => at[u] = at[s]
      BY <1>1 DEF EndCore, PoolTypeOK
    <3>5. at[s] # NoCall => call[at[s]] \in {"waiting", "cancelled"} /\ at[s] \notin Queued
      BY <3>2 DEF Driving
    <3>. QED BY <3>1, <3>2, <3>3, <3>4, <3>5, <1>3, ThreadStays
  <2>. QED BY <2>1, <2>2
<1>5. QueueInv'
  <2>1. QueueInv /\ queue' = queue
    BY DEF PoolInv, poolVars
  <2>2. \A i \in DOMAIN queue : queue[i] \in Calls \ {c}
    BY <1>1, Apart DEF PoolTypeOK
  <2>. QED BY <2>1, <2>2, <1>3, QueueStays DEF QueueInv
<1>6. ASSUME NEW d \in Calls PROVE Accounted(d)'
  <2>0. Accounted(d)
    BY DEF PoolInv
  <2>1. CASE d # c
    BY <2>0, <2>1, <1>3 DEF Accounted
  <2>2. CASE d = c
    <3>1. call'[c] \in {"waiting", "cancelled"} \/ call'[c] \in {how, "returned", "raised"}
      BY <1>1, Apart DEF EndCore, PoolTypeOK
    <3>2. call'[c] \in {"returning", "returned"} => how = "returning"
      BY <1>1, Apart DEF EndCore, PoolTypeOK
    <3>3. /\ step[t] = "finalize" => row[c] = "executing" /\ landed[c]
          /\ c \in Decided <=> t \notin Workers
      BY DEF PoolInv, Driving
    <3>4. call'[c] \in {"returning", "raising"} => c \notin Decided
      BY <1>1, <3>3, Apart DEF EndCore, PoolTypeOK
    <3>. QED BY <2>0, <2>2, <3>1, <3>2, <3>3, <3>4, <1>1 DEF Accounted, PoolTypeOK
  <2>. QED BY <2>1, <2>2
<1>7. CountInv'
  <2>1. CountInv /\ UNCHANGED <<inflight, warned, configured, pool>>
    BY DEF PoolInv, poolVars
  <2>2. t \in Workers => c \notin Decided
    BY DEF PoolInv, Driving
  <2>3. t \notin Workers => c \in Decided
    BY DEF PoolInv, Driving
  <2>4. c \notin Decided =>
            (call'[c] \in {"waiting", "returning", "raising"} <=>
             call[c] \in {"waiting", "returning", "raising"})
    BY <1>1, <2>2, <2>3, Apart DEF EndCore, PoolTypeOK
  <2>5. \A d \in Calls : d \notin Decided =>
            (call'[d] \in {"waiting", "returning", "raising"} <=>
             call[d] \in {"waiting", "returning", "raising"})
    BY <1>3, <2>4
  <2>6. Waiting' = Waiting
    BY <2>5 DEF Waiting, Awaited
  <2>. QED BY <2>1, <2>6, CountStands
<1>. QED BY <1>2, <1>4, <1>5, <1>6, <1>7 DEF PoolInv

\* The core on thread t goes on to its next step.
LEMMA CoreGoesOn ==
    ASSUME PoolInv, NEW t \in Threads, at[t] # NoCall,
           UNCHANGED <<poolVars, at, call, landed>>,
           NEW st \in {"mark", "effect", "redo", "finalize"}, step' = [step EXCEPT ![t] = st],
           NEW r \in {"none", "pending", "executing"}, row' = [row EXCEPT ![at[t]] = r],
           NEW co \in {"none", "running", "raised", "done", "dropped"},
           coro' = [coro EXCEPT ![at[t]] = co],
           r = row[at[t]] \/ row[at[t]] \in {"none", "pending"},
           st = "mark" => r = "pending",
           st \in {"effect", "redo"} => r = "executing",
           st = "finalize" => r = "executing" /\ landed[at[t]],
           co # "none" => r = "executing",
           co = "done" => landed[at[t]]
    PROVE  PoolInv'
<1>. DEFINE c == at[t]
<1>1. c \in Calls /\ PoolTypeOK
  BY Apart, Types
<1>2. PoolTypeOK'
  BY <1>1 DEF PoolTypeOK, poolVars
<1>3. /\ \A d \in Calls \ {c} : row'[d] = row[d] /\ coro'[d] = coro[d]
      /\ row'[c] = r /\ coro'[c] = co
      /\ Queued' = Queued
  BY <1>1 DEF PoolTypeOK, poolVars, Queued
<1>4. ASSUME NEW s \in Threads PROVE Driving(s)'
  <2>0. Driving(s)
    BY DEF PoolInv
  <2>1. CASE s = t
    BY <2>0, <2>1, <1>1, <1>3 DEF Driving, Executing, PoolTypeOK
  <2>2. CASE s # t
    <3>1. at'[s] = at[s] /\ step'[s] = step[s]
      BY <2>2, <1>1 DEF PoolTypeOK
    <3>2. at[s] # NoCall => at[s] \in Calls \ {c}
      BY <2>2, Apart DEF PoolInv, PoolTypeOK
    <3>3. at[s] # NoCall => call[at[s]] \in {"waiting", "cancelled"} /\ at[s] \notin Queued
      BY <2>0 DEF Driving
    <3>. QED BY <3>1, <2>0, <3>2, <3>3, <1>3, ThreadStays
  <2>. QED BY <2>1, <2>2
<1>5. QueueInv'
  <2>1. QueueInv /\ queue' = queue
    BY DEF PoolInv, poolVars
  <2>2. \A i \in DOMAIN queue : queue[i] \in Calls \ {c}
    BY <1>1, Apart DEF PoolTypeOK
  <2>. QED BY <2>1, <2>2, <1>3, QueueStays DEF QueueInv
<1>6. ASSUME NEW d \in Calls PROVE Accounted(d)'
  <2>0. Accounted(d)
    BY DEF PoolInv
  <2>1. CASE d # c
    BY <2>0, <2>1, <1>3 DEF Accounted
  <2>2. CASE d = c
    BY <2>0, <2>2, <1>3, Apart DEF Accounted
  <2>. QED BY <2>1, <2>2
<1>7. CountInv'
  <2>1. CountInv /\ UNCHANGED <<inflight, warned, configured, pool>>
    BY DEF PoolInv, poolVars
  <2>2. Waiting' = Waiting
    BY DEF Waiting, Awaited
  <2>. QED BY <2>1, <2>2, CountStands
<1>. QED BY <1>2, <1>4, <1>5, <1>6, <1>7 DEF PoolInv

\* A step of the gate, or of the store's teardown, and no more.
LEMMA GateOnly ==
    ASSUME PoolInv, UNCHANGED <<poolVars, coreVars, call, coro, landed>> PROVE PoolInv'
<1>1. /\ PoolTypeOK' /\ QueueInv' /\ CountInv'
  BY DEF PoolInv, PoolTypeOK, QueueInv, CountInv, Waiting, Awaited, poolVars, coreVars
<1>2. \A t \in Threads : Driving(t)'
  BY DEF PoolInv, Driving, Executing, Queued, poolVars, coreVars
<1>3. \A c \in Calls : Accounted(c)'
  BY DEF PoolInv, Accounted, poolVars, coreVars
<1>. QED BY <1>1, <1>2, <1>3 DEF PoolInv

\* Every step of a core, the end of its wait for the effect included.
LEMMA CoreStepKeeps ==
    ASSUME PoolInv, NEW t \in Threads, CoreStep(t) \/ Abandon(t) PROVE PoolInv'
<1>1. step[t] # "idle"
  BY DEF CoreStep, Abandon, Refused, BeginWrite, WriteDone, WriteFails, WriteTorn, RunEffect,
         EffectOver, Writing, Executing
<1>2. at[t] # NoCall /\ at[t] \in Calls /\ PoolTypeOK /\ Driving(t) /\ Accounted(at[t])
  BY <1>1, Apart DEF PoolInv, Driving
<1>3. CASE Refused(t) \/ WriteFails(t) \/ WriteTorn(t) \/ Abandon(t)
  BY <1>2, <1>3, CoreOver DEF Refused, WriteFails, WriteTorn, Abandon
<1>4. CASE BeginWrite(t)
  BY <1>4, GateOnly DEF BeginWrite
<1>5. CASE WriteDone(t)
  <2>1. CASE step[t] = "finalize"
    <3>1. row' = [row EXCEPT ![at[t]] = "committed"] /\ row'[at[t]] = "committed"
      BY <1>2, <1>5, <2>1 DEF WriteDone, PoolTypeOK
    <3>. QED BY <1>2, <1>5, <2>1, <3>1, CoreOver DEF WriteDone
  <2>2. CASE step[t] \in {"claim", "mark"}
    <3>. DEFINE st == IF step[t] = "claim" THEN "mark" ELSE "effect"
                r == IF step[t] = "claim" THEN "pending" ELSE "executing"
    <3>1. row' = [row EXCEPT ![at[t]] = r]
      BY <1>5, <2>2 DEF WriteDone
    <3>2. step' = [step EXCEPT ![t] = st] /\ UNCHANGED <<poolVars, at, call, coro, landed>>
      BY <1>2, <1>5, <2>2 DEF WriteDone, PoolTypeOK
    <3>3. row[at[t]] \in {"none", "pending"} /\ coro[at[t]] = "none"
      BY <1>2, <2>2 DEF Driving, Accounted, PoolTypeOK
    <3>4. coro' = [coro EXCEPT ![at[t]] = "none"]
      BY <1>2, <3>2, <3>3 DEF PoolTypeOK
    <3>5. CASE step[t] = "claim"
      BY <1>2, <3>1, <3>2, <3>3, <3>4, <3>5, CoreGoesOn
    <3>6. CASE step[t] = "mark"
      BY <1>2, <3>1, <3>2, <3>3, <3>4, <3>6, CoreGoesOn
    <3>. QED BY <2>2, <3>5, <3>6
  <2>. QED BY <1>5, <2>1, <2>2 DEF WriteDone, Writing
<1>6. CASE RunEffect(t)
  <2>1. row[at[t]] = "executing" /\ row' = [row EXCEPT ![at[t]] = "executing"]
    BY <1>2, <1>6 DEF RunEffect, Driving, Executing, PoolTypeOK
  <2>2. CASE Place(t) = "refused"
    BY <1>2, <1>6, <2>2, CoreOver DEF RunEffect
  <2>3. CASE Place(t) # "refused"
    <3>1. PICK co \in {"dropped", "running"} : coro' = [coro EXCEPT ![at[t]] = co]
      BY <1>6, <2>3 DEF RunEffect
    <3>2. step' = [step EXCEPT ![t] = step[t]] /\ UNCHANGED <<poolVars, at, call, landed>>
      BY <1>2, <1>6, <2>3 DEF RunEffect, PoolTypeOK
    <3>3. step[t] \in {"effect", "redo"}
      BY <1>6 DEF RunEffect, Executing
    <3>. QED BY <1>2, <2>1, <3>1, <3>2, <3>3, CoreGoesOn
  <2>. QED BY <2>2, <2>3
<1>7. CASE EffectOver(t)
  <2>1. row[at[t]] = "executing" /\ row' = [row EXCEPT ![at[t]] = "executing"]
    BY <1>2, <1>7 DEF EffectOver, Driving, Executing, PoolTypeOK
  <2>2. CASE coro[at[t]] = "done"
    <3>1. step' = [step EXCEPT ![t] = "finalize"] /\ coro' = [coro EXCEPT ![at[t]] = "done"]
      BY <1>2, <1>7, <2>2 DEF EffectOver, PoolTypeOK
    <3>2. landed[at[t]] /\ UNCHANGED <<poolVars, at, call, landed>>
      BY <1>2, <1>7, <2>2 DEF EffectOver, Accounted
    <3>. QED BY <1>2, <2>1, <3>1, <3>2, CoreGoesOn
  <2>3. CASE coro[at[t]] # "done"
    BY <1>2, <1>7, <2>3, CoreOver DEF EffectOver
  <2>. QED BY <2>2, <2>3
<1>. QED BY <1>3, <1>4, <1>5, <1>6, <1>7 DEF CoreStep

-----------------------------------------------------------------------------
(* The wrapper, the coroutine and the loop.                                *)

\* A task returns to its caller: the outcome is the ledger's.
LEMMA ResumeKeeps ==
    ASSUME PoolInv, NEW c \in Calls, Resume(c) PROVE PoolInv'
<1>1. PoolTypeOK'
  BY DEF Resume, PoolInv, PoolTypeOK, CallStates, coreVars
<1>2. /\ \A d \in Calls \ {c} : call'[d] = call[d]
      /\ call[c] \in {"returning", "raising"}
      /\ call'[c] = IF call[c] = "returning" THEN "returned" ELSE "raised"
      /\ UNCHANGED <<at, step, row, coro, landed, queue, configured, warned, pool>>
      /\ Queued' = Queued
  BY DEF Resume, PoolInv, PoolTypeOK, coreVars, Queued
<1>3. ASSUME NEW s \in Threads PROVE Driving(s)'
  BY <1>2, ThreadStays DEF PoolInv, Driving, Executing, PoolTypeOK
<1>4. QueueInv'
  BY <1>2, QueueStays DEF PoolInv, QueueInv, PoolTypeOK
<1>5. \A d \in Calls : Accounted(d)'
  BY <1>2 DEF PoolInv, Accounted
<1>6. CountInv'
  <2>1. Awaited(c) /\ inflight' = inflight - 1
    BY <1>2 DEF Awaited, Resume, PoolInv, Accounted
  <2>2. Waiting' = Waiting \ {c}
    BY <1>2 DEF Waiting, Awaited
  <2>3. configured \in Nat /\ CountInv
    BY PoolAssumption DEF PoolInv, PoolTypeOK
  <2>. QED BY <1>2, <2>1, <2>2, <2>3, OneLeaves
<1>. QED BY <1>1, <1>3, <1>4, <1>5, <1>6 DEF PoolInv

\* A task enters the wrapper, and the warning with it.
LEMMA SubmitKeeps ==
    ASSUME PoolInv, NEW c \in Calls \ Decided, Submit(c) PROVE PoolInv'
<1>1. PoolTypeOK /\ Accounted(c) /\ configured \in Nat
  BY PoolAssumption DEF PoolInv, PoolTypeOK
<1>2. /\ call[c] = "new" /\ row[c] = "none"
      /\ call' = [call EXCEPT ![c] = "waiting"]
      /\ queue' = Append(queue, c)
      /\ inflight' = inflight + 1
      /\ warned' = (warned \/ configured < inflight + 1)
      /\ pool' = IF pool = 0 THEN configured ELSE pool
      /\ UNCHANGED <<at, step, row, coro, landed, configured, started>>
  BY <1>1 DEF Submit, Accounted, Saturates, coreVars
<1>3. PoolTypeOK'
  <2>1. queue' \in Seq(Calls)
    BY <1>1, <1>2, AppendProperties DEF PoolTypeOK
  <2>. QED BY <1>1, <1>2, <2>1 DEF PoolTypeOK, CallStates
<1>4. /\ \A d \in Calls \ {c} : call'[d] = call[d]
      /\ \A i \in DOMAIN queue : queue'[i] = queue[i]
      /\ queue'[Len(queue) + 1] = c
      /\ DOMAIN queue' = DOMAIN queue \union {Len(queue) + 1}
      /\ Queued' = Queued \union {c}
  <2>1. queue \in Seq(Calls) /\ Len(queue) \in Nat /\ DOMAIN queue = 1..Len(queue)
    BY <1>1, LenProperties DEF PoolTypeOK
  <2>2. /\ Len(queue') = Len(queue) + 1 /\ DOMAIN queue' = 1..Len(queue')
        /\ \A i \in 1..Len(queue) : queue'[i] = queue[i]
        /\ queue'[Len(queue) + 1] = c
    BY <1>2, <2>1, AppendProperties, LenProperties
  <2>3. DOMAIN queue' = DOMAIN queue \union {Len(queue) + 1}
    BY <2>1, <2>2
  <2>4. \A d \in Calls \ {c} : call'[d] = call[d]
    BY <1>1, <1>2 DEF PoolTypeOK
  <2>. QED BY <2>1, <2>2, <2>3, <2>4 DEF Queued
<1>5. \A s \in Threads : at[s] # c
  BY <1>2, Apart, PoolAssumption
<1>6. ASSUME NEW s \in Threads PROVE Driving(s)'
  BY <1>2, <1>4, <1>5, ThreadStays DEF PoolInv, Driving, Executing, PoolTypeOK
<1>7. QueueInv'
  <2>1. \A i \in DOMAIN queue : queue[i] \in Calls \ {c}
    BY <1>1, <1>2 DEF PoolInv, QueueInv, PoolTypeOK
  <2>2. ASSUME NEW i \in DOMAIN queue'
        PROVE queue'[i] \notin Decided /\ call'[queue'[i]] = "waiting" /\ row'[queue'[i]] = "none"
    BY <1>1, <1>2, <1>4, <2>1 DEF PoolInv, QueueInv, PoolTypeOK
  <2>3. ASSUME NEW i \in DOMAIN queue', NEW j \in DOMAIN queue', queue'[i] = queue'[j]
        PROVE i = j
    BY <1>4, <2>1, <2>3 DEF PoolInv, QueueInv
  <2>. QED BY <2>2, <2>3 DEF QueueInv
<1>8. \A d \in Calls : Accounted(d)'
  BY <1>1, <1>2, <1>4 DEF PoolInv, Accounted, PoolTypeOK
<1>9. CountInv'
  <2>1. Waiting' = Waiting \union {c} /\ c \notin Waiting
    BY <1>1, <1>2, <1>4 DEF Waiting, Awaited, PoolTypeOK
  <2>2. Cardinality(Waiting') = Cardinality(Waiting) + 1
    BY <2>1, FiniteWaiting, FS_AddElement
  <2>3. pool' # 0 /\ pool' = configured
    BY <1>1, <1>2, PoolAssumption DEF PoolInv, CountInv, PoolTypeOK
  <2>4. inflight' = Cardinality(Waiting')
    BY <1>2, <2>2 DEF PoolInv, CountInv
  <2>5. ~warned' => inflight' <= configured'
    <3>1. ~warned' => ~(configured < inflight + 1)
      BY <1>2
    <3>2. inflight \in Nat
      BY FiniteWaiting DEF PoolInv, CountInv
    <3>. QED BY <1>1, <1>2, <3>1, <3>2
  <2>. QED BY <1>2, <2>3, <2>4, <2>5 DEF CountInv
<1>. QED BY <1>3, <1>6, <1>7, <1>8, <1>9 DEF PoolInv

\* A task is cancelled: a core that waits is dropped, one that runs goes on.
LEMMA CancelKeeps ==
    ASSUME PoolInv, NEW c \in Calls, Cancel(c) PROVE PoolInv'
<1>1. PoolTypeOK /\ CountInv /\ configured \in Nat
  BY PoolAssumption DEF PoolInv, PoolTypeOK
<1>2. /\ Awaited(c) /\ call[c] = "waiting" /\ c \notin Decided
      /\ call' = [call EXCEPT ![c] = "cancelled"]
      /\ inflight' = inflight - 1
      /\ UNCHANGED <<at, step, row, coro, landed, configured, started, warned, pool>>
  BY DEF Cancel, coreVars, Awaited
<1>3. \A d \in Calls \ {c} : call'[d] = call[d]
  BY <1>1, <1>2 DEF PoolTypeOK
<1>4. /\ queue' \in Seq(Calls)
      /\ \A i \in DOMAIN queue' : queue'[i] # c /\ \E j \in DOMAIN queue : queue'[i] = queue[j]
      /\ \A i, j \in DOMAIN queue' : queue'[i] = queue'[j] => i = j
  <2>1. queue \in Seq(Calls) /\ QueueInv
    BY <1>1 DEF PoolInv, PoolTypeOK
  <2>2. CASE c \notin Queued
    BY <2>1, <2>2 DEF Cancel, Queued, QueueInv
  <2>3. CASE c \in Queued
    <3>1. PICK n \in DOMAIN queue : queue[n] = c /\ queue' = LeftWithout(n)
      BY <2>3 DEF Cancel
    <3>2. n \in 1..Len(queue) /\ Len(queue) \in Nat
      BY <2>1
    <3>3. PICK l : l = SubSeq(queue, 1, n - 1)
      OBVIOUS
    <3>4. PICK r : r = SubSeq(queue, n + 1, Len(queue))
      OBVIOUS
    <3>5. /\ l \in Seq(Calls) /\ Len(l) = n - 1
          /\ \A i \in 1..n - 1 : l[i] = queue[i]
      BY <2>1, <3>2, <3>3
    <3>6. /\ r \in Seq(Calls) /\ Len(r) = Len(queue) - n
          /\ \A i \in 1..Len(queue) - n : r[i] = queue[i + n]
      BY <2>1, <3>2, <3>4
    <3>7. queue' = l \o r
      BY <3>1, <3>3, <3>4 DEF LeftWithout
    <3>8. /\ queue' \in Seq(Calls) /\ Len(queue') = Len(queue) - 1
          /\ \A i \in 1..Len(queue) - 1 : queue'[i] = IF i < n THEN queue[i] ELSE queue[i + 1]
      BY <3>2, <3>5, <3>6, <3>7, ConcatProperties
    <3>9. \A i, j \in 1..Len(queue) : queue[i] = queue[j] => i = j
      BY <2>1 DEF QueueInv
    <3>10. DOMAIN queue' = 1..Len(queue) - 1 /\ DOMAIN queue = 1..Len(queue)
      BY <2>1, <3>8
    <3>11. \A i \in 1..Len(queue) - 1 : queue'[i] # c
      BY <3>1, <3>2, <3>8, <3>9
    <3>12. \A i \in 1..Len(queue) - 1 : \E j \in 1..Len(queue) : queue'[i] = queue[j]
      BY <3>2, <3>8
    <3>13. \A i, j \in 1..Len(queue) - 1 : queue'[i] = queue'[j] => i = j
      BY <3>2, <3>8, <3>9
    <3>. QED BY <3>8, <3>10, <3>11, <3>12, <3>13
  <2>. QED BY <2>2, <2>3
<1>5. PoolTypeOK'
  BY <1>1, <1>2, <1>4 DEF PoolTypeOK, CallStates
<1>6. ASSUME NEW s \in Threads PROVE Driving(s)'
  <2>1. Driving(s) /\ Queued' \subseteq Queued
    BY <1>4 DEF PoolInv, Queued
  <2>. QED BY <1>1, <1>2, <1>3, <2>1, ThreadStays DEF Driving, Executing, PoolTypeOK
<1>7. QueueInv'
  BY <1>1, <1>2, <1>3, <1>4 DEF PoolInv, QueueInv, PoolTypeOK
<1>8. \A d \in Calls : Accounted(d)'
  BY <1>1, <1>2, <1>3 DEF PoolInv, Accounted, PoolTypeOK
<1>9. CountInv'
  <2>1. Waiting' = Waiting \ {c}
    BY <1>1, <1>2, <1>3 DEF Waiting, Awaited, PoolTypeOK
  <2>. QED BY <1>1, <1>2, <2>1, OneLeaves
<1>. QED BY <1>5, <1>6, <1>7, <1>8, <1>9 DEF PoolInv

\* A worker takes the next core.
LEMMA TakeUpKeeps ==
    ASSUME PoolInv, NEW w \in Workers, TakeUp(w) PROVE PoolInv'
<1>1. PoolTypeOK /\ QueueInv /\ w \in Threads
  BY PoolAssumption DEF PoolInv
<1>2. PICK c : c = Head(queue)
  OBVIOUS
<1>3. /\ c \in Calls /\ c # NoCall /\ queue # <<>> /\ c = queue[1]
      /\ call[c] = "waiting" /\ row[c] = "none" /\ c \notin Decided
      /\ queue' = Tail(queue)
      /\ at' = [at EXCEPT ![w] = c] /\ step' = [step EXCEPT ![w] = "claim"]
      /\ UNCHANGED <<row, coro, landed, call, configured, warned, pool, inflight>>
  BY <1>1, <1>2, PoolAssumption DEF TakeUp, QueueInv, PoolTypeOK
<1>4. /\ queue' \in Seq(Calls)
      /\ \A i \in DOMAIN queue' : i + 1 \in DOMAIN queue /\ queue'[i] = queue[i + 1]
  BY <1>1, <1>3 DEF PoolTypeOK
<1>5. c \notin Queued' /\ Queued' \subseteq Queued
  BY <1>1, <1>3, <1>4 DEF Queued, QueueInv, PoolTypeOK
<1>6. PoolTypeOK'
  BY <1>1, <1>3, <1>4 DEF PoolTypeOK, TakeUp
<1>7. \A s \in Threads : at[s] # c
  BY <1>1, <1>3, Apart DEF PoolTypeOK
<1>8. ASSUME NEW s \in Threads PROVE Driving(s)'
  <2>1. CASE s = w
    BY <1>1, <1>3, <1>5, <1>7, <2>1 DEF Driving, Executing, PoolTypeOK
  <2>2. CASE s # w
    BY <1>1, <1>3, <1>5, <1>7, <2>2, ThreadStays DEF PoolInv, Driving, Executing, PoolTypeOK
  <2>. QED BY <2>1, <2>2
<1>9. QueueInv'
  BY <1>1, <1>3, <1>4 DEF QueueInv, PoolTypeOK
<1>10. \A d \in Calls : Accounted(d)'
  BY <1>3 DEF PoolInv, Accounted
<1>11. CountInv'
  <2>1. Waiting' = Waiting
    BY <1>3 DEF Waiting, Awaited
  <2>. QED BY <1>3, <2>1, CountStands DEF PoolInv
<1>. QED BY <1>6, <1>8, <1>9, <1>10, <1>11 DEF PoolInv

\* A sync entry point drives an approved call from where it stands.
LEMMA DriveKeeps ==
    ASSUME PoolInv, NEW t \in {LoopThread, CronThread}, NEW c \in Decided, Drive(t, c)
    PROVE  PoolInv'
<1>1. PoolTypeOK /\ t \in Threads /\ t \notin Workers /\ c \in Calls /\ c # NoCall
  BY PoolAssumption DEF PoolInv
<1>2. PICK st : st = IF row[c] = "none" THEN "claim"
                     ELSE IF landed[c] THEN "finalize" ELSE "redo"
  OBVIOUS
<1>3. /\ at[t] = NoCall /\ call[c] \in {"new", "raised"} /\ row[c] \in {"none", "executing"}
      /\ call' = [call EXCEPT ![c] = "waiting"] /\ at' = [at EXCEPT ![t] = c]
      /\ step' = [step EXCEPT ![t] = st] /\ coro' = [coro EXCEPT ![c] = "none"]
      /\ UNCHANGED <<row, landed, queue, configured, warned, pool, inflight, started>>
      /\ Queued' = Queued
  BY <1>2 DEF Drive, poolVars, Queued
<1>4. /\ st \in {"claim", "redo", "finalize"}
      /\ st = "claim" => row[c] = "none"
      /\ st = "redo" => row[c] = "executing"
      /\ st = "finalize" => row[c] = "executing" /\ landed[c]
  BY <1>1, <1>2, <1>3 DEF PoolTypeOK
<1>5. PoolTypeOK'
  BY <1>1, <1>3, <1>4 DEF PoolTypeOK, CallStates
<1>6. c \notin Queued /\ \A s \in Threads : at[s] # c
  BY <1>1, <1>3, Apart DEF PoolInv, QueueInv, Queued
<1>7. \A d \in Calls \ {c} : call'[d] = call[d] /\ coro'[d] = coro[d]
  BY <1>1, <1>3 DEF PoolTypeOK
<1>8. ASSUME NEW s \in Threads PROVE Driving(s)'
  <2>1. CASE s = t
    BY <1>1, <1>3, <1>4, <1>6, <2>1 DEF Driving, Executing, PoolTypeOK
  <2>2. CASE s # t
    BY <1>1, <1>3, <1>6, <1>7, <2>2, ThreadStays DEF PoolInv, Driving, Executing, PoolTypeOK
  <2>. QED BY <2>1, <2>2
<1>9. QueueInv'
  BY <1>1, <1>3, <1>6, <1>7, QueueStays DEF PoolInv, QueueInv, PoolTypeOK, Queued
<1>10. ASSUME NEW d \in Calls PROVE Accounted(d)'
  BY <1>1, <1>3, <1>7 DEF PoolInv, Accounted, PoolTypeOK
<1>11. CountInv'
  <2>1. Waiting' = Waiting
    BY <1>7 DEF Waiting, Awaited
  <2>. QED BY <1>3, <2>1, CountStands DEF PoolInv
<1>. QED BY <1>5, <1>8, <1>9, <1>10, <1>11 DEF PoolInv

\* The tool awaits another guarded call, or its coroutine ends.
LEMMA CoroEndsKeeps ==
    ASSUME PoolInv, NEW c \in Calls, CoroEnds(c) PROVE PoolInv'
<1>1. PICK how \in {"done", "raised"}, sent \in BOOLEAN :
          /\ how = "done" => sent
          /\ coro' = [coro EXCEPT ![c] = how]
          /\ landed' = [landed EXCEPT ![c] = @ \/ sent]
  BY DEF CoroEnds, Outcome
<1>2. /\ PoolTypeOK /\ Accounted(c) /\ coro[c] = "running"
      /\ UNCHANGED <<poolVars, coreVars, call>>
  BY DEF PoolInv, CoroEnds
<1>3. /\ coro'[c] = how /\ (landed[c] => landed'[c]) /\ (how = "done" => landed'[c])
      /\ \A d \in Calls \ {c} : coro'[d] = coro[d] /\ landed'[d] = landed[d]
  BY <1>1, <1>2 DEF PoolTypeOK
<1>4. PoolTypeOK'
  BY <1>1, <1>2 DEF PoolTypeOK, poolVars, coreVars
<1>5. ASSUME NEW s \in Threads PROVE Driving(s)'
  <2>1. at[s] # NoCall => at[s] \in Calls
    BY <1>2 DEF PoolTypeOK
  <2>2. at[s] # NoCall => (landed[at[s]] => landed'[at[s]])
    BY <1>3, <2>1
  <2>. QED BY <1>2, <2>2, ThreadStays DEF PoolInv, Driving, Executing, Queued, poolVars, coreVars
<1>6. QueueInv'
  BY <1>2 DEF PoolInv, QueueInv, poolVars, coreVars
<1>7. \A d \in Calls : Accounted(d)'
  BY <1>2, <1>3 DEF PoolInv, Accounted, coreVars
<1>8. CountInv'
  BY <1>2 DEF PoolInv, CountInv, Waiting, Awaited, poolVars
<1>. QED BY <1>4, <1>5, <1>6, <1>7, <1>8 DEF PoolInv

\* The loop ends: its tasks and the coroutines bridged to it are cancelled.
LEMMA LoopEndsKeeps ==
    ASSUME PoolInv, LoopEnds PROVE PoolInv'
<1>1. PICK left : left = Waiting
  OBVIOUS
<1>2. PICK cut : cut = {c \in Calls : OnLoop(c) /\ coro[c] = "running"}
  OBVIOUS
<1>3. PICK sent \in SUBSET cut : landed' = [c \in Calls |-> landed[c] \/ c \in sent]
  BY <1>2 DEF LoopEnds
<1>4. /\ call' = [c \in Calls |-> IF c \in left THEN "cancelled" ELSE call[c]]
      /\ inflight' = inflight - Cardinality(left)
      /\ queue' = <<>>
      /\ coro' = [c \in Calls |-> IF c \in cut THEN "raised" ELSE coro[c]]
      /\ UNCHANGED <<at, step, row, configured, pool, started, warned>>
  BY <1>1, <1>2 DEF LoopEnds, Waiting, coreVars
<1>5. PoolTypeOK /\ CountInv
  BY DEF PoolInv
<1>6. PoolTypeOK'
  BY <1>3, <1>4, <1>5, EmptySeq DEF PoolTypeOK, CallStates
<1>7. ASSUME NEW s \in Threads PROVE Driving(s)'
  <2>1. at[s] # NoCall => at[s] \in Calls /\ call[at[s]] \in {"waiting", "cancelled"}
    BY <1>5 DEF PoolInv, PoolTypeOK, Driving
  <2>2. at[s] # NoCall => /\ call'[at[s]] \in {"waiting", "cancelled"}
                          /\ landed[at[s]] => landed'[at[s]]
    BY <1>3, <1>4, <2>1
  <2>. QED BY <1>4, <2>2, ThreadStays DEF PoolInv, Queued
<1>8. QueueInv'
  BY <1>4 DEF QueueInv
<1>9. ASSUME NEW d \in Calls PROVE Accounted(d)'
  <2>1. Accounted(d)
    BY DEF PoolInv
  <2>2. /\ call'[d] = call[d] \/ call'[d] = "cancelled"
        /\ (landed[d] => landed'[d]) /\ (landed'[d] => landed[d] \/ coro[d] = "running")
        /\ coro'[d] = coro[d] \/ (coro[d] = "running" /\ coro'[d] = "raised")
    BY <1>2, <1>3, <1>4
  <2>. QED BY <1>4, <2>1, <2>2 DEF Accounted
<1>10. CountInv'
  <2>1. Waiting' = {}
    BY <1>1, <1>4 DEF Waiting, Awaited
  <2>2. inflight' = 0 /\ Cardinality(Waiting') = 0
    BY <1>1, <1>4, <1>5, <2>1, FiniteWaiting, FS_EmptySet DEF CountInv
  <2>3. configured' \in Nat
    BY <1>6, PoolAssumption DEF PoolTypeOK
  <2>. QED BY <1>4, <1>5, <2>1, <2>2, <2>3 DEF CountInv
<1>. QED BY <1>6, <1>7, <1>8, <1>9, <1>10 DEF PoolInv

\* init asks for another pool size: only before there is a pool.
LEMMA ConfigureKeeps ==
    ASSUME PoolInv, NEW n \in Sizes, Configure(n) PROVE PoolInv'
<1>1. /\ pool = 0 /\ configured' = n
      /\ UNCHANGED <<at, step, row, call, coro, landed, pool, started, queue, inflight, warned>>
  BY DEF Configure, coreVars
<1>2. Waiting = {} /\ Waiting' = {} /\ inflight = 0
  BY <1>1, FS_EmptySet DEF PoolInv, CountInv, Waiting, Awaited
<1>3. CountInv'
  BY <1>1, <1>2, FS_EmptySet, PoolAssumption DEF CountInv
<1>4. PoolTypeOK' /\ QueueInv'
  BY <1>1 DEF PoolInv, PoolTypeOK, QueueInv
<1>5. \A t \in Threads : Driving(t)'
  BY <1>1 DEF PoolInv, Driving, Executing, Queued
<1>6. \A c \in Calls : Accounted(c)'
  BY <1>1 DEF PoolInv, Accounted
<1>. QED BY <1>3, <1>4, <1>5, <1>6 DEF PoolInv

-----------------------------------------------------------------------------
(* The properties.                                                         *)

LEMMA PoolInvInit == Init => PoolInv
<1>. SUFFICES ASSUME Init PROVE PoolInv
  OBVIOUS
<1>1. PICK mix \in Mixes :
          call = [c \in Calls |-> IF c \in mix THEN "new" ELSE "never made"]
  BY DEF Init
<1>2. PoolTypeOK
  BY <1>1, EmptySeq DEF Init, PoolTypeOK, CallStates
<1>3. Waiting = {}
  BY <1>1 DEF Waiting, Awaited
<1>4. CountInv
  <2>1. pool = 0 /\ inflight = 0
    BY DEF Init
  <2>2. configured \in Nat
    BY <1>2, PoolAssumption DEF PoolTypeOK
  <2>. QED BY <1>3, <2>1, <2>2, FS_EmptySet DEF CountInv
<1>5. \A t \in Threads : Driving(t)
  BY DEF Init, Driving, Executing
<1>6. \A c \in Calls : Accounted(c)
  BY <1>1 DEF Init, Accounted
<1>7. QueueInv
  <2>1. queue = <<>>
    BY DEF Init
  <2>. QED BY <2>1 DEF QueueInv
<1>. QED BY <1>2, <1>4, <1>5, <1>6, <1>7 DEF PoolInv

LEMMA PoolInvStep == PoolInv /\ [Next]_vars => PoolInv'
<1>. SUFFICES ASSUME PoolInv, [Next]_vars PROVE PoolInv'
  OBVIOUS
<1>1. CASE UNCHANGED vars
  BY <1>1, GateOnly DEF vars
<1>2. CASE \E n \in Sizes : Configure(n)
  BY <1>2, ConfigureKeeps
<1>3. ASSUME NEW c \in Calls, CallTool(c) \/ Cancel(c) \/ LoopStep(c)
      PROVE PoolInv'
  <2>1. CASE CallTool(c)
    BY <2>1, SubmitKeeps DEF CallTool
  <2>2. CASE Cancel(c)
    BY <2>2, CancelKeeps
  <2>3. CASE AwaitInner(c)
    <3>1. Inner[c] \in Calls \ Decided /\ Submit(Inner[c])
      BY <2>3, PoolAssumption DEF AwaitInner
    <3>. QED BY <3>1, SubmitKeeps
  <2>. QED BY <1>3, <2>1, <2>2, <2>3, ResumeKeeps, CoroEndsKeeps DEF LoopStep
<1>4. ASSUME NEW w \in Workers, TakeUp(w)
      PROVE PoolInv'
  BY <1>4, TakeUpKeeps
<1>5. ASSUME NEW t \in {LoopThread, CronThread}, NEW c \in Decided, Drive(t, c)
      PROVE PoolInv'
  BY <1>5, DriveKeeps
<1>6. ASSUME NEW t \in Threads, CoreStep(t) \/ Abandon(t)
      PROVE PoolInv'
  BY <1>6, CoreStepKeeps
<1>7. CASE LoopEnds
  BY <1>7, LoopEndsKeeps
<1>8. CASE LoopCloses
  BY <1>8, GateOnly DEF LoopCloses
<1>9. ASSUME NEW c \in Closers, CloseStore(c)
      PROVE PoolInv'
  BY <1>9, GateOnly DEF CloseStore, coreVars
<1>10. ASSUME NEW a \in Auditors, ReadAudit(a)
       PROVE PoolInv'
  BY <1>10, GateOnly DEF ReadAudit, coreVars
<1>. QED BY <1>1, <1>2, <1>3, <1>4, <1>5, <1>6, <1>7, <1>8, <1>9, <1>10 DEF Next

\* The inductive invariant of the pool: what a thread, the queue, a call and
\* the in-flight count have to do with one another.
THEOREM PoolInvariant == Spec => []PoolInv
BY PoolInvInit, PoolInvStep, PTL DEF Spec

\* Cancelled, abandoned, refused and dropped calls included: an effect that
\* took place is on the ledger, and nobody hears of a commit that was none.
THEOREM EffectsStayOnLedger == Spec => []EffectsAreOnLedger
<1>1. PoolInv => EffectsAreOnLedger
  BY DEF PoolInv, Accounted, EffectsAreOnLedger
<1>. QED BY <1>1, PoolInvariant, PTL

\* With any number of workers and calls: a full pool with a queue behind it is
\* one call more than it has workers, and the count has seen every one.
THEOREM FullPoolIsAnnounced == Spec => []SaturationIsAnnounced
<1>1. ASSUME PoolInv, queue # <<>>, Cardinality(Busy) = pool, ~warned,
             \A w \in Busy : call[at[w]] # "cancelled"
      PROVE  FALSE
  <2>1. PoolTypeOK /\ CountInv /\ QueueInv /\ Workers \subseteq Threads
    BY <1>1, PoolAssumption DEF PoolInv
  <2>2. PICK c : c = queue[1]
    OBVIOUS
  <2>3. 1 \in DOMAIN queue /\ c \in Calls
    BY <1>1, <2>1, <2>2 DEF PoolTypeOK
  <2>4. c \in Waiting
    BY <2>1, <2>2, <2>3 DEF QueueInv, Waiting, Awaited
  <2>5. ASSUME NEW w \in Busy
        PROVE at[w] \in Waiting \ {c} /\ \A v \in Busy : at[v] = at[w] => v = w
    <3>1. w \in Workers /\ w \in Threads /\ at[w] # NoCall /\ Driving(w)
      BY <1>1, <2>1, <2>5 DEF PoolInv, Busy
    <3>2. at[w] \in Calls /\ at[w] # c /\ call[at[w]] = "waiting"
      BY <1>1, <2>2, <2>3, <3>1, Apart
    <3>3. at[w] \notin Decided
      BY <3>1 DEF Driving
    <3>4. \A v \in Busy : at[v] = at[w] => v = w
      BY <2>1, <3>1 DEF Driving, Busy
    <3>. QED BY <3>2, <3>3, <3>4 DEF Waiting, Awaited
  <2>6. IsFiniteSet(Waiting \ {c}) /\ Cardinality(Waiting \ {c}) = inflight - 1
    BY <2>1, <2>4, FiniteWaiting, FS_RemoveElement DEF CountInv
  <2>7. PICK f : f = [w \in Busy |-> at[w]]
    OBVIOUS
  <2>8. f \in Injection(Busy, Waiting \ {c})
    BY <2>5, <2>7 DEF Injection, IsInjective
  <2>9. Cardinality(Busy) <= inflight - 1
    BY <2>6, <2>8, FS_Injection
  <2>10. pool = configured /\ inflight <= configured
    BY <1>1, <2>1, <2>4 DEF CountInv
  <2>11. inflight \in Nat /\ configured \in Nat
    BY <2>1, FiniteWaiting, PoolAssumption DEF CountInv, PoolTypeOK
  <2>. QED BY <1>1, <2>9, <2>10, <2>11
<1>2. PoolInv => SaturationIsAnnounced
  BY <1>1 DEF SaturationIsAnnounced
<1>. QED BY <1>2, PoolInvariant, PTL
=============================================================================

----------------------------- MODULE AsyncPool -----------------------------
(***************************************************************************)
(* Guarded async calls (airlock/_guard.py, airlock/_async.py) over a       *)
(* SqliteStore: the wrapper counts the call and queues the synchronous     *)
(* core on the library's own pool, the core writes the ledger from its     *)
(* worker and sends the tool's coroutine back to the caller's loop.  Also  *)
(* the two other places run_coro_blocking runs a coroutine: a thread with  *)
(* no loop, and a thread whose loop is running (the ASGI receiver's).      *)
(*                                                                         *)
(* The core is commit_once as far as this module needs it: claim, mark,    *)
(* effect, finalize, each ledger write an operation of ConnectionGate.     *)
(* record_error writes a column nothing reads and is left out.             *)
(***************************************************************************)
EXTENDS ConnectionGate, Sequences

CONSTANTS
    Workers,           \* threads the pool may start
    LoopThread,        \* the thread running the event loop
    CronThread,        \* a thread with no loop: reconcile, backstop poll
    NoCall,            \* what an idle thread runs
    Calls,             \* calls of async tools
    Inner,             \* Inner[c]: the guarded call c's coroutine awaits
    Timed,             \* calls made with an execute_timeout
    Decided,           \* calls a human approved: driven by a sync entry point
    Audited,           \* bound: calls whose programs read the audit as well
    Mixes,             \* which of the calls a program makes
    Sizes              \* worker counts init may ask for; the default is one

VARIABLES
    configured,        \* _EXECUTOR_WORKERS, or the default
    pool,              \* workers of _EXECUTOR, 0 before the first async call
    started,           \* worker threads the pool has started
    queue,             \* cores waiting for a worker
    at,                \* at[t]: the call thread t is driving
    step,              \* step[t]: how far its core is
    call,              \* call[c]: as its caller sees it
    inflight,          \* _INFLIGHT
    warned,            \* _SATURATION_WARNED
    coro,              \* coro[c]: the tool's coroutine
    loop,              \* the callers' event loop
    row,               \* row[c]: the ledger row of the call
    landed             \* landed[c]: the effect took place

poolVars == <<configured, pool, started, queue, inflight, warned>>
coreVars == <<at, step, row>>
vars == <<gateVars, poolVars, coreVars, call, coro, loop, landed>>

ASSUME PoolAssumption ==
    /\ Threads = Workers \union {LoopThread, CronThread}
    /\ LoopThread \notin Workers /\ CronThread \notin Workers /\ LoopThread # CronThread
    /\ NoCall \notin Calls /\ IsFiniteSet(Calls)
    /\ Timed \subseteq Calls /\ Decided \subseteq Calls /\ Audited \subseteq Calls
    /\ DOMAIN Inner \subseteq Calls \ (Timed \union Decided)
    /\ \A c \in DOMAIN Inner : Inner[c] \in Calls \ (Decided \union DOMAIN Inner)
    /\ Sizes \subseteq 1..Cardinality(Workers)

Inners == {Inner[c] : c \in DOMAIN Inner}
Queued == {queue[i] : i \in DOMAIN queue}
\* The caller's task is suspended in the wrapper.
Awaited(c) == c \notin Decided /\ call[c] \in {"waiting", "returning", "raising"}
Busy == {w \in Workers : at[w] # NoCall}

\* Code on the event loop runs only while no sync entry point blocks it.
LoopFree == loop = "running" /\ at[LoopThread] = NoCall

Init ==
    /\ GateInit
    /\ configured \in Sizes /\ pool = 0 /\ started = {} /\ queue = <<>>
    /\ at = [t \in Threads |-> NoCall] /\ step = [t \in Threads |-> "idle"]
    /\ \E mix \in Mixes : call = [c \in Calls |-> IF c \in mix THEN "new" ELSE "never made"]
    /\ inflight = 0 /\ warned = FALSE
    /\ coro = [c \in Calls |-> "none"]
    /\ loop = "running"
    /\ row = [c \in Calls |-> "none"] /\ landed = [c \in Calls |-> FALSE]

-----------------------------------------------------------------------------
(* The wrapper, on the loop.                                               *)

\* init(async_workers=n); with a pool of another size running it raises.
Configure(n) ==
    /\ pool = 0
    /\ configured' = n
    /\ UNCHANGED <<gateVars, coreVars, call, coro, loop, landed>>
    /\ UNCHANGED <<pool, started, queue, inflight, warned>>

\* A faulty variant: the limit is compared before this call is counted.
SaturatesLate == configured < inflight

\* _enter_async_slot: this call included, more calls than workers.
Saturates == configured < inflight + 1

\* _enter_async_slot, then run_in_executor on a pool made on first use.
Submit(c) ==
    /\ LoopFree
    /\ call[c] = "new"
    /\ call' = [call EXCEPT ![c] = "waiting"]
    /\ inflight' = inflight + 1
    /\ warned' = (warned \/ Saturates)
    /\ pool' = IF pool = 0 THEN configured ELSE pool
    /\ queue' = Append(queue, c)
    /\ UNCHANGED <<gateVars, coreVars, configured, started, coro, loop, landed>>

CallTool(c) == c \notin Inners \union Decided /\ Submit(c)

\* The core is over and the caller's task resumes: _leave_async_slot.
Resume(c) ==
    /\ LoopFree
    /\ call[c] \in {"returning", "raising"}
    /\ call' = [call EXCEPT ![c] = IF @ = "returning" THEN "returned" ELSE "raised"]
    /\ inflight' = inflight - 1
    /\ UNCHANGED <<gateVars, coreVars, configured, pool, started, queue, warned>>
    /\ UNCHANGED <<coro, loop, landed>>

LeftWithout(i) == SubSeq(queue, 1, i - 1) \o SubSeq(queue, i + 1, Len(queue))

\* The caller's task is cancelled (a timeout around it, say).  A core still
\* queued is dropped; one that runs goes on, and so does its coroutine.
Cancel(c) ==
    /\ LoopFree
    /\ Awaited(c) /\ call[c] = "waiting"
    /\ call' = [call EXCEPT ![c] = "cancelled"]
    /\ inflight' = inflight - 1
    /\ IF c \in Queued
       THEN \E i \in DOMAIN queue : queue[i] = c /\ queue' = LeftWithout(i)
       ELSE UNCHANGED queue
    /\ UNCHANGED <<gateVars, coreVars, configured, pool, started, warned>>
    /\ UNCHANGED <<coro, loop, landed>>

\* The coroutine runs on the callers' loop, not on one of its own.
OnLoop(c) == c \notin Timed /\ at[CronThread] # c

\* asyncio.run is over: it cancels every task left, the coroutines bridged
\* here among them (the effect of one may have been sent), then it closes.
LoopEnds ==
    LET left == {c \in Calls : Awaited(c)}
        cut == {c \in Calls : OnLoop(c) /\ coro[c] = "running"}
    IN /\ LoopFree
       /\ loop' = "ending"
       /\ call' = [c \in Calls |-> IF c \in left THEN "cancelled" ELSE call[c]]
       /\ inflight' = inflight - Cardinality(left)
       /\ queue' = <<>>
       /\ coro' = [c \in Calls |-> IF c \in cut THEN "raised" ELSE coro[c]]
       /\ \E sent \in SUBSET cut : landed' = [c \in Calls |-> landed[c] \/ c \in sent]
       /\ UNCHANGED <<gateVars, coreVars, configured, pool, started, warned>>

LoopCloses ==
    /\ loop = "ending"
    /\ loop' = "closed"
    /\ UNCHANGED <<gateVars, poolVars, coreVars, call, coro, landed>>

-----------------------------------------------------------------------------
(* The synchronous core, on a worker or in a sync entry point.             *)

\* ThreadPoolExecutor: an idle worker, or a new one up to the limit.
TakeUp(w) ==
    /\ queue # <<>>
    /\ at[w] = NoCall
    /\ w \in started \/ (started \subseteq Busy /\ Cardinality(started) < pool)
    /\ started' = started \union {w}
    /\ at' = [at EXCEPT ![w] = Head(queue)]
    /\ step' = [step EXCEPT ![w] = "claim"]
    /\ queue' = Tail(queue)
    /\ UNCHANGED <<gateVars, configured, pool, inflight, warned>>
    /\ UNCHANGED <<row, call, coro, loop, landed>>

\* apply_decision drives an approved call: from the ASGI receiver, on the
\* loop's own thread, or from a thread without a loop.  A row an earlier
\* drive left executing is run again by recovery, off the loop; one left
\* pending is not started any more.
Drive(t, c) ==
    /\ at[t] = NoCall
    /\ t = LoopThread => loop = "running" /\ call[c] = "new"
    /\ call[c] \in {"new", "raised"} /\ row[c] \in {"none", "executing"} /\ coro[c] # "running"
    /\ call' = [call EXCEPT ![c] = "waiting"]
    /\ at' = [at EXCEPT ![t] = c]
    /\ step' = [step EXCEPT ![t] =
                   IF row[c] = "none" THEN "claim"
                   ELSE IF landed[c] THEN "finalize" ELSE "redo"]
    /\ coro' = [coro EXCEPT ![c] = "none"]
    /\ UNCHANGED <<gateVars, poolVars, row, loop, landed>>

\* The core ends and its thread is free; a worker's caller hears of it later.
EndCore(t, how) ==
    LET c == at[t]
        told == IF t \in Workers THEN how
                ELSE IF how = "returning" THEN "returned" ELSE "raised"
    IN /\ at' = [at EXCEPT ![t] = NoCall]
       /\ step' = [step EXCEPT ![t] = "idle"]
       /\ call' = [call EXCEPT ![c] = IF @ = "waiting" THEN told ELSE @]

Writing(t) == step[t] \in {"claim", "mark", "finalize"}

\* The store is closed: the core raises and the row stays as it is.
Refused(t) ==
    /\ Writing(t)
    /\ TurnedAway(t)
    /\ EndCore(t, "raising")
    /\ UNCHANGED <<gateVars, poolVars, row, coro, loop, landed>>

BeginWrite(t) ==
    /\ Writing(t)
    /\ Register(t) \/ Connect(t)
    /\ UNCHANGED <<poolVars, coreVars, call, coro, loop, landed>>

WriteDone(t) ==
    /\ Writing(t)
    /\ Finish(t)
    /\ row' = [row EXCEPT ![at[t]] = CASE step[t] = "claim" -> "pending"
                                       [] step[t] = "mark" -> "executing"
                                       [] step[t] = "finalize" -> "committed"]
    /\ IF step[t] = "finalize"
       THEN EndCore(t, "returning")
       ELSE /\ step' = [step EXCEPT ![t] = IF @ = "claim" THEN "mark" ELSE "effect"]
            /\ UNCHANGED <<at, call>>
    /\ UNCHANGED <<poolVars, coro, loop, landed>>

\* No connection to be had, or a statement raised: nothing was written.
WriteFails(t) ==
    /\ Writing(t)
    /\ Fail(t)
    /\ EndCore(t, "raising")
    /\ UNCHANGED <<poolVars, row, coro, loop, landed>>

\* A faulty variant: an error on the closed connection is suppressed.
WriteTornSwallowed(t) ==
    /\ Writing(t)
    /\ FinishTorn(t)
    /\ IF step[t] = "finalize"
       THEN EndCore(t, "returning")
       ELSE /\ step' = [step EXCEPT ![t] = IF @ = "claim" THEN "mark" ELSE "effect"]
            /\ UNCHANGED <<at, call>>
    /\ UNCHANGED <<poolVars, row, coro, loop, landed>>

WriteTorn(t) ==
    /\ Writing(t)
    /\ FinishTorn(t)
    /\ EndCore(t, "raising")
    /\ UNCHANGED <<poolVars, row, coro, loop, landed>>

-----------------------------------------------------------------------------
(* The effect: run_coro_blocking.                                          *)

\* A faulty variant: a running loop is sent the coroutine and waited for.
PlaceOnRunningLoop(t) ==
    IF t = CronThread \/ at[t] \in Timed THEN "own"
    ELSE IF loop = "running" THEN "bridged"
    ELSE IF loop = "ending" THEN "dropped" ELSE "refused"

\* Where the coroutine of a core on thread t would run: the bridged loop, a
\* loop of its own (no loop here, or the fresh thread of execute_timeout, for
\* which this one waits), or nowhere, because this thread's loop is running
\* and would be blocked.
Place(t) ==
    IF t = CronThread \/ at[t] \in Timed THEN "own"
    ELSE IF t = LoopThread \/ loop = "closed" THEN "refused"
    ELSE IF loop = "running" THEN "bridged" ELSE "dropped"

Executing(t) == step[t] \in {"effect", "redo"}

RunEffect(t) ==
    LET c == at[t]
    IN /\ Executing(t) /\ coro[c] = "none"
       /\ IF Place(t) = "refused"
          THEN EndCore(t, "raising") /\ UNCHANGED coro
          ELSE /\ coro' = [coro EXCEPT ![c] = IF Place(t) = "dropped" THEN "dropped" ELSE "running"]
               /\ UNCHANGED <<at, step, call>>
       /\ UNCHANGED <<gateVars, poolVars, row, loop, landed>>

\* The tool awaits another guarded tool.
AwaitInner(c) ==
    /\ coro[c] = "running" /\ c \in DOMAIN Inner
    /\ Submit(Inner[c])

\* The coroutine comes to its end; one that raises may have sent its request.
Outcome(c) ==
    IF c \in DOMAIN Inner
    THEN CASE call[Inner[c]] = "returned" -> {"done", "raised"}
           [] call[Inner[c]] \in {"raised", "cancelled"} -> {"raised"}
           [] OTHER -> {}
    ELSE {"done", "raised"}

CoroEnds(c) ==
    /\ coro[c] = "running"
    /\ OnLoop(c) => LoopFree
    /\ \E how \in Outcome(c), sent \in BOOLEAN :
         /\ how = "done" => sent
         /\ coro' = [coro EXCEPT ![c] = how]
         /\ landed' = [landed EXCEPT ![c] = @ \/ sent]
    /\ UNCHANGED <<gateVars, poolVars, coreVars, call, loop>>

EffectOver(t) ==
    /\ Executing(t) /\ coro[at[t]] \in {"done", "raised"}
    /\ IF coro[at[t]] = "done"
       THEN step' = [step EXCEPT ![t] = "finalize"] /\ UNCHANGED <<at, call>>
       ELSE EndCore(t, "raising")
    /\ UNCHANGED <<gateVars, poolVars, row, coro, loop, landed>>

\* ExecuteTimeout: the owner stops waiting, the coroutine runs on.  Recovery
\* has no timeout.
Abandon(t) ==
    /\ step[t] = "effect" /\ at[t] \in Timed /\ coro[at[t]] = "running"
    /\ EndCore(t, "raising")
    /\ UNCHANGED <<gateVars, poolVars, row, coro, loop, landed>>

CoreStep(t) ==
    \/ Refused(t) \/ BeginWrite(t) \/ WriteDone(t) \/ WriteFails(t) \/ WriteTorn(t)
    \/ RunEffect(t) \/ EffectOver(t)

\* What a call's task and coroutine do on the loop, once they can.
LoopStep(c) == Resume(c) \/ AwaitInner(c) \/ CoroEnds(c)

CloseStore(c) == Close(c) /\ UNCHANGED <<poolVars, coreVars, call, coro, loop, landed>>

\* verify_chain, somewhere in the program.
ReadAudit(a) ==
    /\ \E c \in Audited : call[c] # "never made"
    /\ OpenStream(a) \/ CloseStream(a)
    /\ UNCHANGED <<poolVars, coreVars, call, coro, loop, landed>>

Next ==
    \/ \E n \in Sizes : Configure(n)
    \/ \E c \in Calls : CallTool(c) \/ Cancel(c) \/ LoopStep(c)
    \/ \E w \in Workers : TakeUp(w)
    \/ \E t \in {LoopThread, CronThread}, c \in Decided : Drive(t, c)
    \/ \E t \in Threads : CoreStep(t) \/ Abandon(t)
    \/ LoopEnds \/ LoopCloses
    \/ \E c \in Closers : CloseStore(c)
    \/ \E a \in Auditors : ReadAudit(a)

\* Threads run, and user coroutines come to an end once what they await has.
\* Nobody has to cancel, abandon, close, end the loop or drive a decision.
Fairness ==
    /\ \A t \in Threads : WF_vars(CoreStep(t))
    /\ \A c \in Calls : WF_vars(LoopStep(c))
    /\ WF_vars(\E w \in Workers : TakeUp(w))

Spec == Init /\ [][Next]_vars /\ Fairness

-----------------------------------------------------------------------------
(* What callers rely on.                                                   *)

\* Whatever is cancelled, closed, torn or timed out: an effect that took
\* place is on the ledger, marked before it began, where recovery finds it;
\* a row says committed, and a caller hears so, only of an effect that did.
EffectsAreOnLedger ==
    \A c \in Calls :
        /\ coro[c] # "none" \/ landed[c] => row[c] \in {"executing", "committed"}
        /\ row[c] = "committed" => landed[c]
        /\ call[c] = "returned" => row[c] = "committed"

\* The stall is never silent: calls queue behind a full pool only after the
\* warning, unless a worker is still busy with a call that was cancelled.
SaturationIsAnnounced ==
    queue # <<>> /\ Cardinality(Busy) = pool =>
        warned \/ \E w \in Busy : call[at[w]] = "cancelled"

\* A worker blocked for good: its coroutine was never started by a loop that
\* was ending, or awaits a call that waits for a worker in a full pool.
Blocked(w) ==
    /\ Executing(w)
    /\ \/ coro[at[w]] = "dropped"
       \/ coro[at[w]] = "running" /\ at[w] \in DOMAIN Inner /\ Inner[at[w]] \in Queued

\* The pool is wedged when that is true of all its workers.
Wedged == pool > 0 /\ Cardinality({w \in Workers : Blocked(w)}) = pool

InTheWorks(c) == c \in Queued \/ \E t \in Threads : at[t] = c
Hangs(c) == (c \in Queued /\ Wedged) \/ \E t \in Threads : at[t] = c /\ Blocked(t)

\* Queueing is latency only, and no thread is held for good: a queued call
\* gets its worker, a cancelled call's worker sees its ledger writes through,
\* a closed store turns the core away, and an event loop that drives a
\* decision itself is refused the coroutine, not stopped, or is stopped by a
\* timed one until it has run or is abandoned.  The exceptions are a pool
\* wedged by calls awaiting calls, and a loop that ends underneath.
NothingHangs ==
    \A c \in Calls : InTheWorks(c) ~> (~InTheWorks(c) \/ Hangs(c))
=============================================================================

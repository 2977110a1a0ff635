--------------------------- MODULE ConnectionGate ---------------------------
(***************************************************************************)
(* The gate of SqliteStore (airlock/store/sqlite.py): one connection per   *)
(* thread, every operation counted while it uses one, and close() that     *)
(* turns new operations away, waits for the counted ones a bounded time,   *)
(* and closes every connection while it holds the gate.  iter_audit is the *)
(* one reader that gets round it, on a connection of its own.              *)
(***************************************************************************)
EXTENDS Naturals, FiniteSets

CONSTANTS
    Threads,           \* threads that use the store
    Closers,           \* calls of close()
    Auditors           \* readers of iter_audit

VARIABLES
    closing,           \* _closing
    active,            \* _active_ops
    conns,             \* _local and _all_conns: threads with a connection
    streams,           \* readers of iter_audit with their connection open
    op,                \* op[t]: where t's current operation is
    closer,            \* closer[c]: where that call of close() is
    missed,            \* history: a close() gave up waiting
    torn               \* history: a statement ran on a closed connection

gateVars == <<closing, active, conns, streams, op, closer, missed, torn>>

ASSUME GateAssumption == IsFiniteSet(Threads) /\ Threads \intersect Auditors = {}

GateTypeOK ==
    /\ closing \in BOOLEAN /\ missed \in BOOLEAN /\ torn \in BOOLEAN
    /\ active \in Nat
    /\ conns \subseteq Threads /\ streams \subseteq Auditors
    /\ op \in [Threads -> {"idle", "registered", "using", "cut"}]
    /\ closer \in [Closers -> {"idle", "waiting", "done"}]

GateInit ==
    /\ closing = FALSE /\ missed = FALSE /\ torn = FALSE
    /\ active = 0
    /\ conns = {} /\ streams = {}
    /\ op = [t \in Threads |-> "idle"]
    /\ closer = [c \in Closers |-> "idle"]

-----------------------------------------------------------------------------
(* _use, around every operation.                                           *)

\* A faulty variant: the count is taken without looking at _closing.
RegisterUnasked(t) ==
    /\ op[t] = "idle"
    /\ active' = active + 1
    /\ op' = [op EXCEPT ![t] = "registered"]
    /\ UNCHANGED <<closing, conns, streams, closer, missed, torn>>

Register(t) ==
    /\ op[t] = "idle"
    /\ ~closing
    /\ active' = active + 1
    /\ op' = [op EXCEPT ![t] = "registered"]
    /\ UNCHANGED <<closing, conns, streams, closer, missed, torn>>

\* AirlockError: a ledger operation was attempted after close().
TurnedAway(t) == op[t] = "idle" /\ closing

\* _conn: this thread's connection, opened on first use.
Connect(t) ==
    /\ op[t] = "registered"
    /\ conns' = conns \union {t}
    /\ op' = [op EXCEPT ![t] = "using"]
    /\ UNCHANGED <<closing, active, streams, closer, missed, torn>>

\* The statements ran and the count is given back.
Finish(t) ==
    /\ op[t] = "using"
    /\ active' = active - 1
    /\ op' = [op EXCEPT ![t] = "idle"]
    /\ UNCHANGED <<closing, conns, streams, closer, missed, torn>>

\* An exception on the way: no connection to be had, or a statement that
\* raised and was rolled back.  The count is given back all the same.
Fail(t) ==
    /\ op[t] \in {"registered", "using"}
    /\ op[t] = "registered" => t \notin conns
    /\ active' = active - 1
    /\ op' = [op EXCEPT ![t] = "idle"]
    /\ UNCHANGED <<closing, conns, streams, closer, missed, torn>>

\* The connection was closed under the operation.
FinishTorn(t) ==
    /\ op[t] = "cut"
    /\ active' = active - 1
    /\ op' = [op EXCEPT ![t] = "idle"]
    /\ torn' = TRUE
    /\ UNCHANGED <<closing, conns, streams, closer, missed>>

-----------------------------------------------------------------------------
(* iter_audit: before, during and after close(), which does not know of it. *)

OpenStream(a) ==
    /\ streams' = streams \union {a}
    /\ UNCHANGED <<closing, active, conns, op, closer, missed, torn>>

CloseStream(a) ==
    /\ streams' = streams \ {a}
    /\ UNCHANGED <<closing, active, conns, op, closer, missed, torn>>

-----------------------------------------------------------------------------
(* close().                                                                *)

CloseBegin(c) ==
    /\ closer[c] = "idle"
    /\ closing' = TRUE
    /\ closer' = [closer EXCEPT ![c] = "waiting"]
    /\ UNCHANGED <<active, conns, streams, op, missed, torn>>

Teardown(c) ==
    /\ conns' = {}
    /\ op' = [t \in Threads |-> IF op[t] = "using" THEN "cut" ELSE op[t]]
    /\ closer' = [closer EXCEPT ![c] = "done"]
    /\ UNCHANGED <<closing, active, streams, torn>>

\* Nothing in flight any more (or from the start).
CloseDrained(c) ==
    /\ closer[c] = "waiting"
    /\ active = 0
    /\ Teardown(c)
    /\ UNCHANGED missed

\* _CLOSE_DRAIN_SECONDS are over: closed anyway, with a warning.
CloseAnyway(c) ==
    /\ closer[c] = "waiting"
    /\ active > 0
    /\ Teardown(c)
    /\ missed' = TRUE

Close(c) == CloseBegin(c) \/ CloseDrained(c) \/ CloseAnyway(c)

GateNext ==
    \/ \E t \in Threads : Register(t) \/ Connect(t) \/ Finish(t) \/ Fail(t) \/ FinishTorn(t)
    \/ \E a \in Auditors : OpenStream(a) \/ CloseStream(a)
    \/ \E c \in Closers : Close(c)

GateSpec == GateInit /\ [][GateNext]_gateVars

-----------------------------------------------------------------------------

Connections == conns \union streams

\* After a close() that did not give up, no thread is inside the store, and
\* the only connections left open are those audit readers opened for
\* themselves; a connection is closed under an operation only by a close()
\* that did give up, and warned.
GateHolds ==
    /\ (\E c \in Closers : closer[c] = "done") /\ ~missed =>
           (\A t \in Threads : op[t] = "idle") /\ active = 0 /\ Connections \subseteq streams
    /\ torn => missed
=============================================================================

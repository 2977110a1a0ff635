---------------------------- MODULE GuardedCall ----------------------------
(***************************************************************************)
(* What @guard does with a call (airlock/_guard.py): decide by policy,     *)
(* then deny and record it, pause it for a human, or commit it under the   *)
(* key of its arguments.  The effect runs with the caller's own arguments  *)
(* on the live path and with the persisted map on every other: recovery    *)
(* after a crash, and an approved gate.                                    *)
(*                                                                         *)
(* How callers, sweeps and deliveries race for a row is the subject of     *)
(* CommitProtocol and DurablePause; here a row is driven by one process at *)
(* a time, and what matters is which call it is driven for, and with what. *)
(***************************************************************************)
EXTENDS ArgumentMap, PolicyRules

CONSTANTS
    Programs,          \* [tool, ways, contexts, routes]: a guarded function,
                       \* the ways it is called, what the policy sees of the
                       \* calls, and the transports configured
    ThePolicy          \* the policy in force

ASSUME ProgramAssumption ==
    \A program \in Programs :
        /\ WellFormed(program.tool.sig)
        /\ \A way \in program.ways : way.args \in Seq(ToSet(way.args))

ASSUME PolicyAssumption ==
    ThePolicy.rules \in Seq(ToSet(ThePolicy.rules))

VARIABLES
    tool,              \* the tool this program calls, twice
    call,              \* call[i]: its arguments and its policy context
    phase,             \* phase[i]: what has become of the call
    ledger,            \* the calls that claimed a row, each with its state
    run,               \* run[i]: the status of its paused run
    approved,          \* history: the runs whose approval was recorded
    ran,               \* history: the invocations of the tool
    denials            \* denied calls whose audit row was written

guardVars == <<tool, call, phase, ledger, run, approved, ran, denials>>

Ids == {1, 2}

Bound(i) == Bind(tool.sig, call[i].args, call[i].kwargs)
Unbindable(i) == TypeError(tool.sig, call[i].args, call[i].kwargs) \/ ValueError(tool, Bound(i))
ArgMap(i) == BuildArgMap(tool, Bound(i))

\* _ledger_key, without an override: SHA-256 over the map, free of collisions.
Key(i) == ArgMap(i)
Rows(i) == {j \in DOMAIN ledger : Key(j) = Key(i)}

GuardInit(program) ==
    /\ tool = program.tool
    /\ call \in [Ids -> {[args |-> a.args, kwargs |-> a.kwargs, ctx |-> x] :
                            a \in program.ways, x \in program.contexts}]
    /\ phase = [i \in Ids |-> "new"]
    /\ ledger = <<>>
    /\ run = [i \in Ids |-> "none"]
    /\ approved = {}
    /\ ran = <<>>
    /\ denials = {}

Verdict(i) == Evaluate(ThePolicy, call[i].ctx)
Become(i, p) == phase' = [phase EXCEPT ![i] = p]

\* A row from its claim, executing, to how it ends: aborted before anything ran
\* or on the finding that nothing did, committed, failed where the effect is
\* not found after it ran, unknown where nobody can tell.
NotCommitted == {"aborted", "failed", "unknown"}
Claim(i, state) == ledger' = [j \in DOMAIN ledger \union {i} |->
                                 IF j = i THEN state ELSE ledger[j]]
Settle(j, state) == ledger' = [ledger EXCEPT ![j] = state]
Invoked(j, bound, by) == ran' = Append(ran, [row |-> j, bound |-> bound, by |-> by])
RanIn(i) == \E n \in DOMAIN ran : ran[n].row = i

-----------------------------------------------------------------------------
(* The call.                                                               *)

\* A call the signature or the map cannot hold raises, whatever was decided.
Raise(i) ==
    /\ phase[i] = "new" /\ Unbindable(i)
    /\ Become(i, "raised")
    /\ UNCHANGED <<tool, call, ledger, run, approved, ran, denials>>

\* _handle_deny: the audit row may fail to be written; the deny stands.
Deny(i) ==
    /\ phase[i] = "new" /\ ~Unbindable(i) /\ Verdict(i) = "deny"
    /\ Become(i, "denied")
    /\ denials' \in {denials, denials \union {i}}
    /\ UNCHANGED <<tool, call, ledger, run, approved, ran>>

\* _handle_gate: the paused run is durable before anything is sent.
Gate(i) ==
    /\ phase[i] = "new" /\ ~Unbindable(i) /\ Verdict(i) = "gate"
    /\ Become(i, "paused")
    /\ run' = [run EXCEPT ![i] = "proposed"]
    /\ UNCHANGED <<tool, call, ledger, approved, ran, denials>>

\* _commit_auto: claimed, or joined to the call that holds the key.
CommitAuto(i) ==
    /\ phase[i] = "new" /\ ~Unbindable(i) /\ Verdict(i) = "auto"
    /\ IF Rows(i) = {}
       THEN Become(i, "driving") /\ Claim(i, "executing")
       ELSE Become(i, "joined") /\ UNCHANGED ledger
    /\ UNCHANGED <<tool, call, run, approved, ran, denials>>

\* The preconditions no longer hold: PreconditionFailed, nothing ran.
AbortLive(i) ==
    /\ phase[i] = "driving"
    /\ Settle(i, "aborted") /\ Become(i, "refused")
    /\ UNCHANGED <<tool, call, run, approved, ran, denials>>

\* _call_tool_live, and the commit, a failed verification, or a crash first.
RunLive(i) ==
    /\ phase[i] = "driving"
    /\ ~TypeError(tool.sig, call[i].args, WithKey(tool, call[i].kwargs, "key"))
    /\ Invoked(i, Bind(tool.sig, call[i].args, WithKey(tool, call[i].kwargs, "key")), "live")
    /\ \/ Settle(i, "committed") /\ Become(i, "returned")
       \/ Settle(i, "failed") /\ Become(i, "refused")
       \/ UNCHANGED ledger /\ Become(i, "crashed")
    /\ UNCHANGED <<tool, call, run, approved, denials>>

\* The tool refuses the key beside its arguments: the row stays executing.
RunLiveRaises(i) ==
    /\ phase[i] = "driving"
    /\ TypeError(tool.sig, call[i].args, WithKey(tool, call[i].kwargs, "key"))
    /\ Become(i, "crashed")
    /\ UNCHANGED <<tool, call, ledger, run, approved, ran, denials>>

Crash(i) ==
    /\ phase[i] = "driving"
    /\ Become(i, "crashed")
    /\ UNCHANGED <<tool, call, ledger, run, approved, ran, denials>>

\* The tool, called with what the row or the paused run holds of the call.
RunFromMap(j) ==
    /\ ~ReboundFails(tool, ArgMap(j), "key")
    /\ Invoked(j, Rebound(tool, ArgMap(j), "key"), "map")

\* The loser's inline recovery or the sweep ends a stranded row: re-issued from
\* its map where the downstream knows the key or a probe has found nothing,
\* else committed as the probe finds it, aborted, or given up as unknown.
Recover(j) ==
    /\ j \in DOMAIN ledger /\ ledger[j] = "executing" /\ phase[j] # "driving"
    /\ \/ RunFromMap(j) /\ \E state \in {"committed", "failed"} : Settle(j, state)
       \/ RanIn(j) /\ Settle(j, "committed") /\ UNCHANGED ran
       \/ (\E state \in {"aborted", "unknown"} : Settle(j, state)) /\ UNCHANGED ran
    /\ UNCHANGED <<tool, call, phase, run, approved, denials>>

\* The loser of the claim returns the row's outcome, or raises what it says.
Join(i) ==
    /\ phase[i] = "joined"
    /\ \E j \in Rows(i) :
          \/ ledger[j] = "committed" /\ Become(i, "returned")
          \/ ledger[j] \in NotCommitted /\ Become(i, "refused")
    /\ UNCHANGED <<tool, call, ledger, run, approved, ran, denials>>

-----------------------------------------------------------------------------
(* The decision, and what apply_decision does with it.                     *)

\* An approved run is closed as its key's row ends: a row there is already, or
\* one claimed for it, aborted on its preconditions or run from the map.
DriveApproved(i) ==
    \E state \in {"committed"} \union NotCommitted :
        /\ run' = [run EXCEPT ![i] = IF state = "committed" THEN "committed" ELSE "aborted"]
        /\ \/ Rows(i) = {} /\ state = "aborted" /\ Claim(i, state) /\ UNCHANGED ran
           \/ Rows(i) = {} /\ state \in {"committed", "failed"} /\ Claim(i, state) /\ RunFromMap(i)
           \/ /\ Rows(i) # {} /\ \A j \in Rows(i) : ledger[j] = state
              /\ UNCHANGED <<ledger, ran>>

\* It raises before the claim, after it, or after the effect; a row that stays
\* executing makes it raise until somebody ends the row.
DriveRaises(i) ==
    \/ UNCHANGED <<ledger, ran>>
    \/ Rows(i) = {} /\ Claim(i, "executing") /\ (UNCHANGED ran \/ RunFromMap(i))

\* The first verdict is durable.  Redelivery finds it so.
Now(i, verdict) == IF run[i] = "proposed" THEN verdict ELSE run[i]
Decide(i, verdict) ==
    approved' = IF Now(i, verdict) = "approved" THEN approved \union {i} ELSE approved

\* An approved run is driven, a rejected one closed.
Apply(i, verdict) ==
    /\ Decide(i, verdict)
    /\ CASE Now(i, verdict) = "approved" -> DriveApproved(i)
         [] Now(i, verdict) = "rejected" ->
                run' = [run EXCEPT ![i] = "aborted"] /\ UNCHANGED <<ledger, ran>>
         [] OTHER -> UNCHANGED <<run, ledger, ran>>

\* It raises, or its process dies, before the decision is recorded or later.
ApplyRaises(i, verdict) ==
    \/ UNCHANGED <<run, approved, ledger, ran>>
    \/ /\ Decide(i, verdict)
       /\ run' = [run EXCEPT ![i] = Now(i, verdict)]
       /\ IF Now(i, verdict) = "approved" THEN DriveRaises(i) ELSE UNCHANGED <<ledger, ran>>

GuardStep(i) ==
    \/ Raise(i) \/ Deny(i) \/ Gate(i) \/ CommitAuto(i) \/ AbortLive(i)
    \/ RunLive(i) \/ RunLiveRaises(i) \/ Crash(i) \/ Recover(i) \/ Join(i)

-----------------------------------------------------------------------------

\* Two calls share a ledger row, and one effect, exactly when they are the
\* same call: the same arguments however they were passed, the ignored ones
\* aside.  A call that cannot be told from another one is refused.
Meant(i) ==
    LET b == Bound(i)
    IN [n \in DOMAIN b \ Excluded(tool) |->
           IF n \in Kind(tool.sig, "extras") THEN Without(b[n], Excluded(tool)) ELSE b[n]]

KeyIsTheCall ==
    ~Unbindable(1) /\ ~Unbindable(2) => (Key(1) = Key(2) <=> Meant(1) = Meant(2))

\* Whoever runs the effect, and from whatever it was persisted as, the tool
\* receives the arguments of the call the row was claimed for, except those
\* the key ignores, and the key where it asked for it.
RecoveredCallIsFaithful ==
    \A n \in DOMAIN ran :
        LET r == ran[n]
        IN /\ \A x \in DOMAIN Meant(r.row) :
                 IF x \in Kind(tool.sig, "extras")
                 THEN Without(r.bound[x], Excluded(tool)) = Meant(r.row)[x]
                 ELSE r.bound[x] = Meant(r.row)[x]
           /\ \A k \in tool.keyParam \intersect DOMAIN r.bound : r.bound[k] = "key"

\* Some rule lets the call through without holding a ceiling against a cost
\* or a blast radius that is unknown.
LetThrough(ctx) ==
    \/ ThePolicy.default = "auto"
    \/ \E i \in DOMAIN ThePolicy.rules :
          LET r == ThePolicy.rules[i]
          IN /\ r.decision = "auto"
             /\ r.maxCost # {} => ctx.cost # {}
             /\ r.maxBlast # {} => ctx.blast # {}

\* An effect is run by policy, on known risk, or by a human, never otherwise:
\* of a call that was denied, recorded or not, that is still paused, or that
\* was rejected, nothing has run under its own row; what was returned or
\* reported committed has run.
BlockedStaysBlocked ==
    \A i \in Ids :
        /\ RanIn(i) =>
              \/ phase[i] \in {"driving", "returned", "refused", "crashed"} /\ LetThrough(call[i].ctx)
              \/ i \in approved
        /\ phase[i] = "returned" \/ run[i] = "committed" => \E j \in Rows(i) : RanIn(j)
=============================================================================

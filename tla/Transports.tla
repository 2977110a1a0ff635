----------------------------- MODULE Transports -----------------------------
(***************************************************************************)
(* How the decision on a gated call travels: HttpApprovalTransport and the *)
(* WebhookReceiver (airlock/transport/http.py, airlock/_signing.py) on one *)
(* side, the approvals file of ConsoleApprovalTransport (console.py) on    *)
(* the other.  The control plane is external: it keeps one record per      *)
(* approval_ref, and pushes a decision, freshly signed, until a push of it *)
(* is acknowledged.                                                        *)
(***************************************************************************)
EXTENDS GuardedCall, FiniteSets

CONSTANTS
    Window,            \* REPLAY_WINDOW_SECONDS, in steps of the clock
    MaxClock,          \* bound: the clock
    MaxInFlight,       \* bound: pushes under way
    MaxLines           \* bound: lines of the approvals file

VARIABLES
    route,             \* the transport in use: "http", "console"
    cloud,             \* cloud[i]: the control plane's record of approval i
    ids,               \* approvals whose approval_id the sender learnt
    pushes,            \* webhook requests under way, each with its timestamp
    acked,             \* decisions the control plane saw acknowledged
    clock,             \* the receiver's clock
    lines,             \* the approvals file
    torn               \* its last line has no newline

wireVars == <<cloud, ids, pushes, acked, clock>>
fileVars == <<lines, torn>>
vars == <<guardVars, route, wireVars, fileVars>>

Verdicts == {"approved", "rejected"}

Init ==
    /\ \E program \in Programs : GuardInit(program) /\ route \in program.routes
    /\ cloud = [i \in Ids |-> "none"]
    /\ ids = {} /\ pushes = {} /\ acked = {} /\ clock = 0
    /\ lines = <<>> /\ torn = FALSE

Quiet == UNCHANGED <<tool, call, phase, denials>>

-----------------------------------------------------------------------------
(* HTTP: the customer's calls.                                             *)

\* send: 200 and 201 are both success, and their body names the approval_id.
\* A lost answer raises, the approval may have been created all the same.
Send(i) ==
    /\ route = "http" /\ phase[i] = "paused" /\ cloud[i] = "none"
    /\ \/ cloud' = [cloud EXCEPT ![i] = "requested"] /\ ids' = ids \union {i}
       \/ cloud' = [cloud EXCEPT ![i] = "requested"] /\ UNCHANGED ids
    /\ Become(i, "sent")
    /\ UNCHANGED <<tool, call, ledger, run, approved, ran, denials>>
    /\ UNCHANGED <<route, pushes, acked, clock, fileVars>>

\* fetch_decision by wait or the backstop poll, then apply_decision.
Poll(i) ==
    /\ i \in ids /\ cloud[i] \in Verdicts
    /\ Apply(i, cloud[i]) \/ ApplyRaises(i, cloud[i])
    /\ Quiet /\ UNCHANGED <<route, wireVars, fileVars>>

(* The control plane.                                                      *)

Human(i) ==
    /\ cloud[i] = "requested"
    /\ \E v \in Verdicts : cloud' = [cloud EXCEPT ![i] = v]
    /\ UNCHANGED <<guardVars, route, ids, pushes, acked, clock, fileVars>>

Push(i) ==
    /\ cloud[i] \in Verdicts /\ i \notin acked /\ Cardinality(pushes) < MaxInFlight
    /\ pushes' = pushes \union {[call |-> i, stamp |-> clock]}
    /\ UNCHANGED <<guardVars, route, cloud, ids, acked, clock, fileVars>>

Tick ==
    /\ route = "http" /\ clock < MaxClock
    /\ clock' = clock + 1
    /\ UNCHANGED <<guardVars, route, cloud, ids, pushes, acked, fileVars>>

-----------------------------------------------------------------------------
(* HTTP: the receiver.                                                     *)

\* verify: an intact signature over a timestamp inside the window.
Verified(p, intact) == intact /\ clock - p.stamp <= Window

\* A faulty variant: what the drive raises is answered like a success.
StatusSwallowing(verified, raised) == IF verified THEN 200 ELSE 401

\* _handle: 401 before anything is parsed, 500 for what apply_decision raises.
Status(verified, raised) ==
    IF ~verified THEN 401 ELSE IF raised THEN 500 ELSE 200

\* A request may be damaged on its way, arrive again, or lose its answer.
Receive(p) ==
    \E intact, again, heard, raised \in BOOLEAN :
        LET status == Status(Verified(p, intact), raised)
        IN /\ IF ~Verified(p, intact) THEN UNCHANGED <<run, approved, ledger, ran>>
              ELSE IF raised THEN ApplyRaises(p.call, cloud[p.call])
              ELSE Apply(p.call, cloud[p.call])
           /\ pushes' = IF again THEN pushes ELSE pushes \ {p}
           /\ acked' = IF heard /\ status = 200 THEN acked \union {p.call} ELSE acked
           /\ Quiet /\ UNCHANGED <<route, cloud, ids, clock, fileVars>>

-----------------------------------------------------------------------------
(* Console.                                                                *)

\* record_decision appends one line; after one without its newline it lands on
\* the same line, and neither can be read any more.
Unreadable == [call |-> 0, verdict |-> "none"]
Written(line) ==
    IF torn THEN [lines EXCEPT ![Len(lines)] = Unreadable] ELSE Append(lines, line)

Record(i, v) ==
    /\ route = "console" /\ phase[i] = "paused" /\ Len(lines) < MaxLines
    /\ lines' = Written([call |-> i, verdict |-> v])
    /\ torn' = FALSE
    /\ UNCHANGED <<guardVars, route, wireVars>>

\* The writer dies in its line: in the middle, or before the newline alone, and
\* then the line can be read until something is written behind it.
RecordTorn(i, v) ==
    /\ route = "console" /\ phase[i] = "paused" /\ Len(lines) < MaxLines
    /\ \E line \in {[call |-> i, verdict |-> v], Unreadable} : lines' = Written(line)
    /\ torn' = TRUE
    /\ UNCHANGED <<guardVars, route, wireVars>>

Matching(i) == {n \in DOMAIN lines : lines[n].call = i}

\* A faulty variant: the last line about the call is the one that counts.
ScanLast(i) ==
    IF Matching(i) = {} THEN "none"
    ELSE lines[CHOOSE n \in Matching(i) : \A m \in Matching(i) : m <= n].verdict

\* _scan: the first line about the call; unreadable ones are passed over.
Scan(i) ==
    IF Matching(i) = {} THEN "none"
    ELSE lines[CHOOSE n \in Matching(i) : \A m \in Matching(i) : n <= m].verdict

\* wait, then apply_decision.
Answer(i) ==
    /\ route = "console" /\ phase[i] = "paused" /\ Scan(i) # "none"
    /\ Apply(i, Scan(i)) \/ ApplyRaises(i, Scan(i))
    /\ Quiet /\ UNCHANGED <<route, wireVars, fileVars>>

-----------------------------------------------------------------------------

Next ==
    \/ \E i \in Ids : GuardStep(i) /\ UNCHANGED <<route, wireVars, fileVars>>
    \/ \E i \in Ids : Send(i) \/ Poll(i) \/ Human(i) \/ Push(i) \/ Answer(i)
    \/ \E p \in pushes : Receive(p)
    \/ Tick
    \/ \E i \in Ids, v \in Verdicts : Record(i, v) \/ RecordTorn(i, v)

Spec == Init /\ [][Next]_vars

-----------------------------------------------------------------------------

\* The control plane stops pushing only what has arrived for good, whatever was
\* damaged, late, repeated or raised on the way: of an acknowledged rejection
\* the run is closed and nothing was approved, of an acknowledged approval it is
\* closed as the key's ledger row ended, committed with the effect run, or
\* aborted because the row was aborted, failed or is unknown.
AckedIsApplied ==
    \A i \in acked :
        IF cloud[i] = "rejected" THEN run[i] = "aborted" /\ i \notin approved
        ELSE /\ i \in approved
             /\ \/ run[i] = "committed" /\ \E j \in Rows(i) : ledger[j] = "committed" /\ RanIn(j)
                \/ run[i] = "aborted" /\ \E j \in Rows(i) : ledger[j] \in NotCommitted

\* The lines about a call that have their newline.
Finished(i) == {n \in Matching(i) : ~torn \/ n # Len(lines)}

\* What a reviewer's file says of a call on a finished line, it goes on saying,
\* and what it says on one without its newline may be lost to the next append
\* but is not turned over by it; nor does any later line reopen or turn over a
\* run that was decided.
VerdictStands ==
    [][\A i \in Ids :
         /\ Finished(i) # {} => Scan(i)' = Scan(i)
         /\ Scan(i) # "none" => Scan(i)' \in {Scan(i), "none"}
         /\ i \in approved => i \in approved' /\ run[i]' \in {"approved", "committed", "aborted"}
         /\ run[i] = "rejected" => run[i]' \in {"rejected", "aborted"} /\ i \notin approved'
         /\ run[i] = "aborted" \/ run[i] = "committed" =>
               run[i]' = run[i] /\ (i \in approved' <=> i \in approved)]_vars
=============================================================================

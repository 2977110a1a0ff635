---------------------------- MODULE VerifyChain ----------------------------
(***************************************************************************)
(* verify_chain (airlock/audit.py) running beside the writers of           *)
(* StoreTransactions: it streams the rows out of one snapshot, reads the   *)
(* head afterwards, and catches up while the head has moved on.  What can  *)
(* happen to the tables behind the stores' back is in Damage: the          *)
(* append-only trigger is the database's, and its owner can disable it.    *)
(***************************************************************************)
EXTENDS StoreTransactions

CONSTANTS
    Damages            \* kinds of damage that may strike, once each run

ASSUME DamageAssumption ==
    Damages \subseteq {"lost", "altered", "replaced", "headless", "rewritten"}

VARIABLES
    ver,               \* the verification pass
    damage             \* what has happened to the audit tables

verVars == <<ver, damage>>
vars == <<storeVars, verVars>>

NotRunning ==
    [step |-> "idle", checkpoint |-> Nothing, last |-> Nothing, before |-> Nothing,
     floor |-> 0, seen |-> <<>>, verdict |-> "none"]

Init == StoreInit /\ ver = NotRunning /\ damage = "none"

-----------------------------------------------------------------------------
(* The pass.                                                               *)

\* The row hash of position n as the writers made it.
Genuine(n) == [seq |-> n, hash |-> [i \in 1..n + 1 |->
    <<i - 1, IF i = 1 THEN GenesisEnv ELSE log[i - 1]>>]]

\* from genesis, or from a pair noted when the row was written.
StartVerify ==
    /\ ver.step = "idle" /\ "verify" \in workload
    /\ \E c \in {Nothing} \union {Genuine(n) : n \in 0..Len(log)} :
         ver' = [NotRunning EXCEPT !.step = "stream", !.checkpoint = c, !.floor = Len(log)]
    /\ UNCHANGED <<storeVars, damage>>

Report(v, verdict) == ver' = [v EXCEPT !.step = "done", !.verdict = verdict]

NextSeq == IF ver.last # Nothing THEN ver.last.seq + 1
           ELSE IF ver.checkpoint = Nothing THEN 0 ELSE ver.checkpoint.seq

\* consume(...): one streamed span; the first one must not be empty.
Stream ==
    LET span == RowsFrom(events, NextSeq)
        onto == [ver EXCEPT !.before = ver.last, !.seen = @ \o [i \in DOMAIN span |-> span[i].env]]
    IN /\ ver.step = "stream"
       /\ IF ~SpanPasses(span, ver.last, ver.checkpoint) THEN Report(ver, "broken")
          ELSE IF span # <<>>
               THEN ver' = [onto EXCEPT !.step = "head", !.last = HeadOf(span[Len(span)])]
          ELSE IF ver.last = Nothing THEN Report(ver, "broken")
          ELSE ver' = [onto EXCEPT !.step = "head"]
       /\ UNCHANGED <<storeVars, damage>>

\* A faulty variant: no catching up, the head must match at once.
ReadHeadOnce ==
    /\ ver.step = "head"
    /\ Report(ver, IF head = ver.last THEN "ok" ELSE "broken")
    /\ UNCHANGED <<storeVars, damage>>

\* A faulty variant: a head that is ahead for good is not held against it.
ReadHeadLenient ==
    /\ ver.step = "head"
    /\ IF head # Nothing /\ head.seq > ver.last.seq /\ ver.last # ver.before
       THEN ver' = [ver EXCEPT !.step = "stream"]
       ELSE Report(ver, IF head # Nothing /\ head.seq >= ver.last.seq THEN "ok" ELSE "broken")
    /\ UNCHANGED <<storeVars, damage>>

\* audit_head, then: stream on if it is ahead and the last span brought
\* something; otherwise it has to be exactly the last row.
ReadHead ==
    /\ ver.step = "head"
    /\ IF head # Nothing /\ head.seq > ver.last.seq /\ ver.last # ver.before
       THEN ver' = [ver EXCEPT !.step = "stream"]
       ELSE Report(ver, IF head = ver.last THEN "ok" ELSE "broken")
    /\ UNCHANGED <<storeVars, damage>>

Verify == StartVerify \/ Stream \/ ReadHead

-----------------------------------------------------------------------------
(* Damage to the stored chain.                                             *)

Altered(r) == [r EXCEPT !.env.what = "altered"]

\* The i-th row altered and every link and hash behind it made to fit.
Reforged(i) ==
    LET envs == [j \in DOMAIN events |->
                    IF j = i THEN Altered(events[j]).env ELSE events[j].env]
    IN [j \in DOMAIN events |->
           Row([n \in 1..j - 1 |-> <<n - 1, envs[n]>>], j - 1, envs[j])]

Without(rows, i) == SubSeq(rows, 1, i - 1) \o SubSeq(rows, i + 1, Len(rows))

Damaged(kind, i) ==
    CASE kind = "lost" -> events' = Without(events, i) /\ UNCHANGED head
      [] kind = "altered" -> events' = [events EXCEPT ![i] = Altered(@)] /\ UNCHANGED head
      [] kind = "replaced" ->
            /\ events' = [events EXCEPT ![i] =
                             Row(@.prev, @.seq, Altered(@).env)]
            /\ UNCHANGED head
      [] kind = "headless" -> head' = Nothing /\ UNCHANGED events
      [] kind = "rewritten" ->
            /\ events' = Reforged(i)
            /\ head' = HeadOf(Reforged(i)[Len(events)])

Damage ==
    /\ damage = "none" /\ "verify" \in workload
    /\ \A w \in Writers : tx[w].new = <<>>
    /\ \E kind \in Damages, i \in DOMAIN events :
         /\ damage' = kind
         /\ Damaged(kind, i)
    /\ UNCHANGED <<deployment, row, run, owner, tx, log, silent, ver>>

Next ==
    \/ StoreNext /\ UNCHANGED verVars
    \/ Verify
    \/ Damage

Spec == Init /\ [][Next]_vars

-----------------------------------------------------------------------------
(* What the audit trail is worth.                                          *)

\* Whoever appends, crashes or rolls back: an undamaged chain is gapless and
\* linked from genesis to the head, and nothing committed is missing from it.
ChainIntact ==
    damage = "none" =>
        /\ Len(events) = Len(log) + 1
        /\ \A i \in DOMAIN events :
              HeadOf(events[i]) = Genuine(i - 1) /\ Recomputes(events[i])
        /\ head = HeadOf(events[Len(events)])

\* No false alarm: however writers interleave with the pass, a chain nobody
\* has damaged is never reported broken.
HealthyIsAccepted == damage = "none" => ver.verdict # "broken"

\* No false comfort: an accepted pass has seen, row for row, what was
\* committed, up to the end of what was there when it began.  Only a rewrite
\* of the rows and the head together passes, and not below a noted row.
AcceptedIsGenuine ==
    ver.verdict = "ok" =>
        LET from == IF ver.checkpoint = Nothing THEN 0 ELSE ver.checkpoint.seq
            whole == <<GenesisEnv>> \o log
        IN /\ ver.last.seq >= ver.floor
           /\ damage # "rewritten" => ver.seen = SubSeq(whole, from + 1, ver.last.seq + 1)
           /\ ver.checkpoint # Nothing => ver.seen[1] = whole[from + 1]
=============================================================================

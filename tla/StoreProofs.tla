---------------------------- MODULE StoreProofs ----------------------------
(***************************************************************************)
(* The stores for any number of threads and keys, with the verification    *)
(* pass and the damage of VerifyChain beside them: waits for row and head  *)
(* locks never form a circle, who loses an insert finds the row, the trail *)
(* says what the tables say, and either store implements the ledger.       *)
(***************************************************************************)
EXTENDS VerifyChain, DataLemmas

Steps == {"idle", "statement", "readback", "audit", "commit", "gone"}
Rows == [state : Ledger!LedgerStates, attempts : Nat, stale : BOOLEAN]
Tables == {"chain", "row", "run", "rejection", "mirror"}
Whats == {"genesis", "none", "proposed", "approved", "rejected", "committed", "aborted"}
            \union Outcomes
Envs == [table : Tables, key : Keys \union {"none"}, what : Whats]
Asked(o) == \E k \in Keys : o \in Operations(k)

\* What has been asked for and what is appended has no type to speak of here.
Shaped(t) ==
    t \in [step : Steps, op : {t.op}, hit : BOOLEAN, put : Rows, new : {t.new}]

Shapes ==
    /\ row \in [Keys -> Rows]
    /\ DOMAIN run = Keys
    /\ owner \in [Locks -> Writers \union {Nobody}]
    /\ tx = [w \in Writers |-> tx[w]]
    /\ \A w \in Writers : Shaped(tx[w])

\* What a transaction is about: a requested operation, or a scan, which has no
\* statement of its own and is on its way to the commit.
About(t) ==
    /\ t.step \in {"statement", "readback"} \/ t.hit => Asked(t.op)
    /\ t.step = "statement" => t.op.name # "append"

\* Nobody keeps a lock into a step in which it may have to wait for a row.
HoldersAreLate ==
    dialect # "sqlite" =>
        \A l \in Locks, w \in Writers : owner[l] = w => tx[w].step \in {"audit", "commit"}

\* The conflicting row of a loser is there, and what a statement has written
\* and not yet committed is a row, never the absence of one.
Opened(o) == IF o.name = "claim" THEN row[o.key].state # "none" ELSE run[o.key] # "none"

LosersRow(t) ==
    /\ t.step # "gone"
    /\ t.step = "readback" => Opened(t.op)
    /\ t.hit => /\ Lock(t.op) = RowLock(t.op.key) => t.put.state # "none"
                /\ Lock(t.op) = RunLock(t.op.key) => t.op.to # "none"

StoreInv ==
    /\ Shapes
    /\ \A w \in Writers : About(tx[w]) /\ LosersRow(tx[w])
    /\ HoldersAreLate

-----------------------------------------------------------------------------
(* Operations.                                                             *)

\* What holds of every operation a caller may ask for.
LEMMA OperationShape ==
    ASSUME NEW o, Asked(o)
    PROVE  /\ o.key \in Keys
           /\ o.name \in {"claim", "save", "bump", "append", "mark", "finalize", "transition"}
           /\ o.name = "finalize" => o.to \in Outcomes
           /\ o.name \in {"mark", "finalize"} => o.epoch \in 1..MaxEpoch
           /\ o.name = "save" => o.to = "proposed"
           /\ o.name = "transition" => <<o.from, o.to>> \in PauseTransitions
           /\ o.name \in {"save", "transition"} =>
                 o.to \in {"proposed", "approved", "rejected", "committed", "aborted"}
           /\ o.audited \in BOOLEAN
           /\ o.name \in {"claim", "bump", "mark", "append"} => o.audited
<1>1. PICK k \in Keys : o \in Operations(k)
  BY DEF Asked
<1>2. CASE \E name \in {"claim", "bump", "append"} : o = Op(name, k, 0, "none", "none", TRUE)
  BY <1>2 DEF Op
<1>3. CASE \E e \in 1..MaxEpoch : o = Op("mark", k, e, "none", "none", TRUE)
  BY <1>3 DEF Op
<1>4. CASE \E e \in 1..MaxEpoch, st \in Outcomes, b \in BOOLEAN :
              o = Op("finalize", k, e, "none", st, b)
  BY <1>4 DEF Op
<1>5. CASE \E b \in BOOLEAN : o = Op("save", k, 0, "none", "proposed", b)
  BY <1>5 DEF Op
<1>6. CASE \E t \in PauseTransitions, b \in BOOLEAN :
              o = Op("transition", k, 0, t[1], t[2], b)
  BY <1>6 DEF Op, PauseTransitions
<1>7. \/ o \in Plain(k) \/ o \in Marks(k) \/ o \in Finalizes(k)
      \/ o \in Saves(k) \/ o \in Transitions(k)
  BY <1>1 DEF Operations
<1>8. CASE o \in Plain(k)
  BY <1>2, <1>8 DEF Plain
<1>9. CASE o \in Marks(k)
  BY <1>3, <1>9 DEF Marks
<1>10. CASE o \in Finalizes(k)
  BY <1>4, <1>10 DEF Finalizes
<1>11. CASE o \in Saves(k)
  BY <1>5, <1>11 DEF Saves
<1>12. CASE o \in Transitions(k)
  BY <1>6, <1>12 DEF Transitions
<1>. QED BY <1>7, <1>8, <1>9, <1>10, <1>11, <1>12

\* What the audit events of an operation look like, passed or not.
LEMMA EventsShape ==
    ASSUME NEW o, Asked(o)
    PROVE  /\ EventsOf(o) \in Seq(Envs)
           /\ o.name = "append" => EventsOf(o) # <<>>
<1>1. /\ o.key \in Keys
      /\ o.name \in {"claim", "save", "bump", "append", "mark", "finalize", "transition"}
      /\ o.name = "finalize" => o.to \in Outcomes
      /\ o.name \in {"save", "transition"} =>
            o.to \in {"proposed", "approved", "rejected", "committed", "aborted"}
  BY OperationShape
<1>2. \A t \in Tables : \A v \in Whats : Env(t, o.key, v) \in Envs
  BY <1>1 DEF Env, Envs
<1>3. o.name \in {"finalize", "save", "transition"} => o.to \in Whats
  BY <1>1 DEF Whats
<1>4. /\ {"row", "run", "rejection", "mirror"} \subseteq Tables
      /\ "none" \in Whats
  BY DEF Tables, Whats
<1>5. CASE o.name \in {"claim", "bump", "mark"}
  BY <1>1, <1>5, EmptySeq DEF EventsOf
<1>6. CASE o.name \in {"finalize", "save", "append"}
  <2>1. PICK e \in Envs : EventsOf(o) = <<e>>
    BY <1>2, <1>3, <1>4, <1>6 DEF EventsOf
  <2>2. <<e>> # <<>>
    OBVIOUS
  <2>. QED BY <1>1, <2>1, <2>2
<1>7. CASE o.name = "transition" /\ o.from = "rejected"
  <2>1. PICK e \in Envs, f \in Envs : EventsOf(o) = <<e, f>>
    BY <1>2, <1>3, <1>4, <1>7 DEF EventsOf
  <2>. QED BY <1>1, <1>7, <2>1
<1>8. CASE o.name = "transition" /\ o.from # "rejected"
  <2>1. PICK e \in Envs : EventsOf(o) = <<e>>
    BY <1>2, <1>3, <1>4, <1>8 DEF EventsOf
  <2>. QED BY <1>1, <1>8, <2>1
<1>. QED BY <1>1, <1>5, <1>6, <1>7, <1>8

LEMMA AuditShape ==
    ASSUME NEW o, Asked(o)
    PROVE  /\ AuditOf(o) \in Seq(Envs)
           /\ o.name = "append" => AuditOf(o) # <<>>
BY EventsShape, OperationShape, EmptySeq DEF AuditOf

LEMMA LockShape ==
    ASSUME NEW o, Asked(o)
    PROVE  /\ Lock(o) \in Locks
           /\ Lock(o) = RunLock(o.key) <=> o.name \in {"save", "transition"}
           /\ Lock(o) = RowLock(o.key) <=> o.name \notin {"save", "transition"}
BY OperationShape DEF Lock, Locks, RowLock, RunLock

LEMMA InitialInv == Init => StoreInv
<1>. SUFFICES ASSUME Init PROVE StoreInv
  OBVIOUS
<1>1. \A w \in Writers : tx[w] = Idle
  BY DEF Init, StoreInit
<1>2. Ledger!NoRow \in Rows
  BY DEF Rows, Ledger!NoRow, Ledger!LedgerStates
<1>3. Shapes
  BY <1>1, <1>2 DEF Init, StoreInit, Shapes, Shaped, Idle, Steps
<1>4. HoldersAreLate
  BY StoreAssumption DEF Init, StoreInit, HoldersAreLate
<1>. QED BY <1>1, <1>3, <1>4 DEF StoreInv, About, LosersRow, Idle

\* A step that leaves the ledger, the runs, the locks and the transactions
\* alone: the verification pass, damage, genesis.
LEMMA Aside ==
    ASSUME StoreInv, UNCHANGED <<dialect, row, run, owner, tx>>
    PROVE  StoreInv'
BY DEF StoreInv, Shapes, About, LosersRow, Opened, HoldersAreLate, Locks, HeadLock, FileLock

-----------------------------------------------------------------------------
(* One step of one transaction.                                            *)

\* A step that moves one transaction and no data.
LEMMA Moves ==
    ASSUME StoreInv, NEW w \in Writers, NEW t,
           tx' = [tx EXCEPT ![w] = t],
           Shaped(t), About(t), LosersRow(t),
           UNCHANGED <<dialect, row, run>>,
           owner' \in [Locks -> Writers \union {Nobody}],
           dialect # "sqlite" =>
              /\ \A l \in Locks : owner'[l] = w => t.step \in {"audit", "commit"}
              /\ \A l \in Locks : owner'[l] \in {w, Nobody, owner[l]}
    PROVE  StoreInv'
<1>1. tx'[w] = t /\ \A v \in Writers \ {w} : tx'[v] = tx[v]
  BY DEF StoreInv, Shapes
<1>2. Shapes'
  BY <1>1 DEF StoreInv, Shapes, Locks, HeadLock, FileLock
<1>3. \A v \in Writers : About(tx'[v])
  BY <1>1 DEF StoreInv
<1>4. ASSUME NEW v \in Writers PROVE LosersRow(tx[v])'
  <2>1. LosersRow(tx'[v])
    BY <1>1 DEF StoreInv
  <2>. QED BY <2>1 DEF LosersRow, Opened
<1>5. HoldersAreLate'
  BY <1>1, StoreAssumption DEF StoreInv, HoldersAreLate, Locks, HeadLock, FileLock
<1>6. \A v \in Writers : About(tx[v])'
  BY <1>3 DEF About, Asked
<1>. QED BY <1>2, <1>4, <1>5, <1>6 DEF StoreInv

-----------------------------------------------------------------------------
(* The steps of a transaction.                                             *)

\* The lock a step takes is its own, and only on Postgres.
LEMMA Taken ==
    ASSUME StoreInv, NEW w \in Writers, NEW ls, Take(w, ls),
           dialect # "sqlite" => \A l \in ls : l \in Locks => owner[l] \in {w, Nobody}
    PROVE  /\ owner' \in [Locks -> Writers \union {Nobody}]
           /\ dialect # "sqlite" =>
                 \A l \in Locks : owner'[l] \in {w, Nobody, owner[l]}
BY DEF StoreInv, Shapes, Take

LEMMA Released ==
    ASSUME StoreInv, NEW w \in Writers, Release(w)
    PROVE  /\ owner' \in [Locks -> Writers \union {Nobody}]
           /\ \A l \in Locks : owner'[l] # w /\ owner'[l] \in {Nobody, owner[l]}
BY StoreAssumption DEF StoreInv, Shapes, Release

LEMMA BeginKeeps ==
    ASSUME StoreInv, NEW w \in Writers, NEW o, Asked(o), Begin(w, o)
    PROVE  StoreInv'
<1>. DEFINE t == [Idle EXCEPT !.step = FirstStep(o), !.op = o]
<1>0. Ledger!NoRow \in Rows
  BY DEF Rows, Ledger!NoRow, Ledger!LedgerStates
<1>1. /\ Shaped(t)
      /\ t.step = FirstStep(o) /\ t.op = o /\ ~t.hit
  BY <1>0 DEF Idle, Shaped, Steps, FirstStep
<1>2. About(t) /\ LosersRow(t)
  BY <1>1 DEF About, LosersRow, FirstStep
<1>4. \A l \in Locks : dialect # "sqlite" => owner[l] # w
  BY DEF Begin, In, StoreInv, HoldersAreLate
<1>5. /\ owner' \in [Locks -> Writers \union {Nobody}]
      /\ dialect # "sqlite" => \A l \in Locks : owner'[l] # w /\ owner'[l] \in {Nobody, owner[l]}
  BY <1>4 DEF Begin, Take, StoreInv, Shapes
<1>6. tx' = [tx EXCEPT ![w] = t] /\ UNCHANGED <<dialect, row, run>>
  BY DEF Begin, deployment, data
<1>. HIDE DEF t
<1>. QED BY <1>0, <1>1, <1>2, <1>5, <1>6, Moves DEF FirstStep, Steps

\* What a statement is about to write is a row.
LEMMA WrittenIsRow ==
    ASSUME StoreInv, NEW o, Asked(o), o.name # "append", Matches(o)
    PROVE  /\ Written(o, row[o.key]) \in Rows
           /\ Lock(o) = RowLock(o.key) => Written(o, row[o.key]).state # "none"
<1>. DEFINE r == row[o.key]
<1>1. r \in Rows /\ o.key \in Keys
  BY OperationShape DEF StoreInv, Shapes
<1>2. CASE o.name = "claim"
  BY <1>1, <1>2 DEF Written, Rows, Ledger!LedgerStates, Ledger!InFlight
<1>3. CASE o.name = "mark"
  BY <1>1, <1>3 DEF Written, Rows, Ledger!LedgerStates, Ledger!InFlight
<1>4. CASE o.name = "finalize"
  <2>1. o.to \in Ledger!Terminal
    BY <1>4, OperationShape, StoreAssumption
  <2>. QED BY <1>1, <1>4, <2>1 DEF Written, Rows, Ledger!LedgerStates, Ledger!Terminal
<1>5. CASE o.name = "bump"
  <2>1. r.state \in Ledger!InFlight
    BY <1>5 DEF Matches, Ledger!BumpMatches, Ledger!IsInFlight
  <2>2. /\ r = [state |-> r.state, attempts |-> r.attempts, stale |-> r.stale]
        /\ r.attempts + 1 \in Nat
    BY <1>1 DEF Rows
  <2>3. Written(o, r) = [state |-> r.state, attempts |-> r.attempts + 1, stale |-> FALSE]
    BY <1>5, <2>2 DEF Written
  <2>. QED BY <1>1, <2>1, <2>2, <2>3 DEF Rows, Ledger!InFlight
<1>6. CASE o.name \in {"save", "transition"}
  BY <1>1, <1>6, LockShape DEF Written
<1>. QED BY <1>2, <1>3, <1>4, <1>5, <1>6, OperationShape

LEMMA StatementHitsKeeps ==
    ASSUME StoreInv, NEW w \in Writers, StatementHits(w)
    PROVE  StoreInv'
<1>. DEFINE o == tx[w].op
            put == Written(o, row[o.key])
            step == IF AuditOf(o) = <<>> THEN "commit" ELSE "audit"
            t == [tx[w] EXCEPT !.hit = TRUE, !.put = put, !.step = step]
<1>1. Asked(o) /\ o.name # "append" /\ Matches(o)
  BY DEF StatementHits, StoreInv, In, About
<1>2. put \in Rows /\ (Lock(o) = RowLock(o.key) => put.state # "none")
  BY <1>1, WrittenIsRow
<1>3. /\ Shaped(t) /\ t.step \in {"audit", "commit"}
      /\ t.op = o /\ t.put = put
  BY <1>2 DEF StoreInv, Shapes, Shaped, Steps
<1>4. About(t) /\ LosersRow(t)
  BY <1>1, <1>2, <1>3, OperationShape, LockShape DEF About, LosersRow
<1>5. Take(w, Taking(Lock(o)))
  BY DEF StatementHits
<1>6. dialect # "sqlite" => \A l \in Taking(Lock(o)) : owner[l] \in {w, Nobody}
  BY DEF StatementHits, Taking, MayTake
<1>7. tx' = [tx EXCEPT ![w] = t] /\ UNCHANGED <<dialect, row, run>>
  BY DEF StatementHits, deployment, data
<1>. HIDE DEF t
<1>. QED BY <1>3, <1>4, <1>5, <1>6, <1>7, Taken, Moves

\* A transaction that only goes on, with what it has.
LEMMA GoingOn ==
    ASSUME StoreInv, NEW w \in Writers, NEW s \in Steps, GoOn(w, s),
           s \in {"readback", "commit"},
           s = "readback" => tx[w].step = "statement" /\ Opened(tx[w].op),
           UNCHANGED <<dialect, row, run>>,
           \/ owner' = owner
           \/ s = "commit" /\ owner' \in [Locks -> Writers \union {Nobody}]
              /\ \A l \in Locks : owner'[l] \in {w, Nobody, owner[l]}
    PROVE  StoreInv'
<1>. DEFINE t == [tx[w] EXCEPT !.step = s]
<1>1. /\ Shaped(t) /\ t.step = s
      /\ t.op = tx[w].op /\ t.hit = tx[w].hit /\ t.put = tx[w].put
  BY DEF StoreInv, Shapes, Shaped
<1>2. About(t) /\ LosersRow(t)
  BY <1>1 DEF StoreInv, About, LosersRow
<1>3. owner' \in [Locks -> Writers \union {Nobody}]
  BY DEF StoreInv, Shapes
<1>4. dialect # "sqlite" =>
        /\ \A l \in Locks : owner'[l] = w => s \in {"audit", "commit"}
        /\ \A l \in Locks : owner'[l] \in {w, Nobody, owner[l]}
  BY DEF StoreInv, HoldersAreLate
<1>5. tx' = [tx EXCEPT ![w] = t]
  BY DEF GoOn
<1>. HIDE DEF t
<1>. QED BY <1>1, <1>2, <1>3, <1>4, <1>5, Moves

LEMMA StatementMissesKeeps ==
    ASSUME StoreInv, NEW w \in Writers, StatementMisses(w)
    PROVE  StoreInv'
<1>. DEFINE o == tx[w].op
            s == IF o.name \in {"claim", "save"} THEN "readback" ELSE "commit"
<1>1. Asked(o) /\ tx[w].step = "statement"
  BY DEF StatementMisses, In, StoreInv, About
<1>2. o.name = "claim" => row[o.key].state # "none"
  BY DEF StatementMisses, Matches, Ledger!Unclaimed
<1>3. o.name = "save" => run[o.key] # "none"
  BY DEF StatementMisses, Matches
<1>4. s \in Steps /\ s \in {"readback", "commit"}
  BY DEF Steps
<1>5. GoOn(w, s) /\ UNCHANGED <<dialect, row, run, owner>>
  BY DEF StatementMisses, deployment, data
<1>. QED BY <1>1, <1>2, <1>3, <1>4, <1>5, GoingOn DEF Opened

LEMMA ReadBackKeeps ==
    ASSUME StoreInv, NEW w \in Writers, ReadBack(w)
    PROVE  StoreInv'
<1>1. tx[w].step = "readback" /\ Opened(tx[w].op)
  BY DEF ReadBack, In, StoreInv, LosersRow
<1>2. GoOn(w, "commit") /\ UNCHANGED <<dialect, row, run, owner>>
  BY <1>1 DEF ReadBack, Opened, deployment, data
<1>. QED BY <1>1, <1>2, GoingOn DEF Steps

LEMMA AppendAuditKeeps ==
    ASSUME StoreInv, NEW w \in Writers, AppendAudit(w)
    PROVE  StoreInv'
<1>. DEFINE n == Len(tx[w].new)
            todo == AuditOf(tx[w].op)
            t == [tx[w] EXCEPT !.new = Append(tx[w].new, NextRow(HeadSeen(w), todo[n + 1])),
                               !.step = IF n + 1 = Len(todo) THEN "commit" ELSE "audit"]
<1>1. /\ Shaped(t) /\ t.step \in {"audit", "commit"}
      /\ t.op = tx[w].op /\ t.hit = tx[w].hit /\ t.put = tx[w].put
  BY DEF StoreInv, Shapes, Shaped, Steps
<1>2. About(t) /\ LosersRow(t)
  BY <1>1 DEF StoreInv, About, LosersRow
<1>3. tx' = [tx EXCEPT ![w] = t] /\ UNCHANGED <<dialect, row, run>>
  BY DEF AppendAudit, deployment, data
<1>4. Take(w, Taking(HeadLock))
  BY DEF AppendAudit
<1>5. dialect # "sqlite" => \A l \in Taking(HeadLock) : owner[l] \in {w, Nobody}
  BY DEF AppendAudit, Taking, MayTake
<1>. HIDE DEF t
<1>. QED BY <1>1, <1>2, <1>3, <1>4, <1>5, Taken, Moves

LEMMA ScanKeeps ==
    ASSUME StoreInv, NEW w \in Writers, NEW locks, Scan(w, locks)
    PROVE  StoreInv'
<1>1. /\ owner' \in [Locks -> Writers \union {Nobody}]
      /\ \A l \in Locks : owner'[l] \in {w, Nobody, owner[l]}
  BY DEF Scan, Take, StoreInv, Shapes
<1>2. GoOn(w, "commit") /\ UNCHANGED <<dialect, row, run>>
  BY DEF Scan, deployment, data
<1>. QED BY <1>1, <1>2, GoingOn DEF Steps

\* The end of a transaction, once the data are what they are to be.
LEMMA Ending ==
    ASSUME StoreInv, NEW w \in Writers, End(w), UNCHANGED dialect,
           row' \in [Keys -> Rows], DOMAIN run' = Keys,
           \A k \in Keys : row[k].state # "none" => row'[k].state # "none",
           \A k \in Keys : run[k] # "none" => run'[k] # "none"
    PROVE  StoreInv'
<1>1. tx'[w] = Idle /\ \A v \in Writers \ {w} : tx'[v] = tx[v]
  BY DEF End, StoreInv, Shapes
<1>2. /\ owner' \in [Locks -> Writers \union {Nobody}]
      /\ \A l \in Locks : owner'[l] # w /\ owner'[l] \in {Nobody, owner[l]}
  BY Released DEF End
<1>3. Shaped(Idle)
  BY DEF Shaped, Idle, Steps, Rows, Ledger!NoRow, Ledger!LedgerStates
<1>4. tx' = [v \in Writers |-> tx'[v]]
  BY DEF End, StoreInv, Shapes
<1>5. Shapes'
  BY <1>1, <1>2, <1>3, <1>4 DEF StoreInv, Shapes, Locks, HeadLock, FileLock
<1>6. ASSUME NEW v \in Writers PROVE (About(tx[v]) /\ LosersRow(tx[v]))'
  <2>1. CASE v = w
    BY <1>1, <2>1 DEF Idle, About, LosersRow
  <2>2. CASE v # w
    <3>1. About(tx[v]) /\ LosersRow(tx[v]) /\ tx'[v] = tx[v]
      BY <1>1, <2>2 DEF StoreInv
    <3>2. tx[v].step = "readback" => tx[v].op.key \in Keys
      BY <3>1, OperationShape DEF About
    <3>. QED BY <3>1, <3>2 DEF About, LosersRow, Opened, Asked
  <2>. QED BY <2>1, <2>2
<1>7. HoldersAreLate'
  BY <1>1, <1>2, StoreAssumption DEF StoreInv, HoldersAreLate, Locks, HeadLock, FileLock
<1>. QED BY <1>5, <1>6, <1>7 DEF StoreInv

LEMMA CommitKeeps ==
    ASSUME StoreInv, NEW w \in Writers, Commit(w)
    PROVE  StoreInv'
<1>. DEFINE t == tx[w]
            k == t.op.key
<1>1. /\ Shaped(t) /\ row \in [Keys -> Rows] /\ DOMAIN run = Keys
      /\ t.hit => Asked(t.op) /\ k \in Keys
      /\ LosersRow(t)
  BY OperationShape DEF StoreInv, Shapes, About
<1>2. /\ row' \in [Keys -> Rows]
      /\ \A j \in Keys : row[j].state # "none" => row'[j].state # "none"
  <2>1. CASE t.hit /\ Lock(t.op) = RowLock(k)
    <3>1. row' = [row EXCEPT ![k] = t.put]
      BY <2>1 DEF Commit
    <3>2. t.put \in Rows /\ t.put.state # "none"
      BY <1>1, <2>1 DEF Shaped, LosersRow
    <3>. QED BY <1>1, <3>1, <3>2
  <2>2. CASE ~(t.hit /\ Lock(t.op) = RowLock(k))
    <3>1. row' = row
      BY <2>2 DEF Commit
    <3>. QED BY <1>1, <3>1
  <2>. QED BY <2>1, <2>2
<1>3. /\ DOMAIN run' = Keys
      /\ \A j \in Keys : run[j] # "none" => run'[j] # "none"
  <2>1. CASE t.hit /\ Lock(t.op) = RunLock(k)
    <3>1. run' = [run EXCEPT ![k] = t.op.to] /\ t.op.to # "none"
      BY <1>1, <2>1 DEF Commit, LosersRow
    <3>. QED BY <1>1, <3>1
  <2>2. CASE ~(t.hit /\ Lock(t.op) = RunLock(k))
    <3>1. run' = run
      BY <2>2 DEF Commit
    <3>. QED BY <1>1, <3>1
  <2>. QED BY <2>1, <2>2
<1>4. End(w) /\ UNCHANGED dialect
  BY DEF Commit, deployment
<1>. QED BY <1>2, <1>3, <1>4, Ending

LEMMA RollbackKeeps ==
    ASSUME StoreInv, NEW w \in Writers, Rollback(w)
    PROVE  StoreInv'
<1>1. End(w) /\ UNCHANGED <<dialect, row, run>>
  BY DEF Rollback, deployment, data
<1>. QED BY <1>1, Ending DEF StoreInv, Shapes

LEMMA GrowStaleKeeps ==
    ASSUME StoreInv, NEW k \in Keys, GrowStale(k)
    PROVE  StoreInv'
<1>1. /\ row' \in [Keys -> Rows]
      /\ \A j \in Keys : row'[j].state = row[j].state
  BY DEF GrowStale, StoreInv, Shapes, Rows
<1>2. UNCHANGED <<dialect, run, owner, tx>>
  BY DEF GrowStale, deployment
<1>3. Shapes' /\ HoldersAreLate'
  BY <1>1, <1>2 DEF StoreInv, Shapes, HoldersAreLate, Locks, HeadLock, FileLock
<1>4. ASSUME NEW v \in Writers PROVE (About(tx[v]) /\ LosersRow(tx[v]))'
  <2>1. About(tx[v]) /\ LosersRow(tx[v]) /\ tx'[v] = tx[v]
    BY <1>2 DEF StoreInv
  <2>2. tx[v].step = "readback" => tx[v].op.key \in Keys
    BY <2>1, OperationShape DEF About
  <2>. QED BY <1>1, <1>2, <2>1, <2>2 DEF About, LosersRow, Opened, Asked
<1>. QED BY <1>3, <1>4 DEF StoreInv

LEMMA StoreStepKeeps == StoreInv /\ [Next]_vars => StoreInv'
<1>. SUFFICES ASSUME StoreInv, [Next]_vars PROVE StoreInv'
  OBVIOUS
<1>1. ASSUME NEW w \in Writers, NEW k \in Keys, NEW o \in Operations(k), Begin(w, o)
      PROVE  StoreInv'
  BY <1>1, BeginKeeps DEF Asked
<1>2. ASSUME NEW w \in Writers, StoreStep(w) PROVE StoreInv'
  BY <1>2, StatementHitsKeeps, StatementMissesKeeps, ReadBackKeeps, AppendAuditKeeps, CommitKeeps
     DEF StoreStep
<1>3. ASSUME NEW w \in Writers,
             Rollback(w) \/ Scan(w, StaleRows) \/ Scan(w, SweptRuns)
      PROVE  StoreInv'
  BY <1>3, RollbackKeeps, ScanKeeps
<1>4. ASSUME NEW k \in Keys, GrowStale(k) PROVE StoreInv'
  BY <1>4, GrowStaleKeeps
<1>5. CASE SeedGenesis
  BY <1>5, Aside DEF SeedGenesis, deployment
<1>6. CASE Verify
  BY <1>6, Aside DEF Verify, StartVerify, Stream, ReadHead, Report, storeVars, deployment, data
<1>7. CASE Damage
  BY <1>7, Aside DEF Damage, deployment
<1>8. CASE UNCHANGED vars
  BY <1>8, Aside DEF vars, storeVars, deployment, data
<1>. QED BY <1>1, <1>2, <1>3, <1>4, <1>5, <1>6, <1>7, <1>8 DEF Next, StoreNext

-----------------------------------------------------------------------------
(* What follows.                                                           *)

\* The shapes, the late holders and the losers' rows, in every run.
THEOREM StoreInvariant == Spec => []StoreInv
BY InitialInv, StoreStepKeeps, PTL DEF Spec

\* A loser of claim or save_paused finds the row it lost to on its next read,
\* for any number of racing inserts, takeovers and rollbacks: the assertion
\* behind the read-back of either store never fires.
THEOREM LosersFindTheirRow == Spec => []LoserFindsRow
<1>1. StoreInv => LoserFindsRow
  BY DEF StoreInv, LosersRow, LoserFindsRow, In
<1>. QED BY <1>1, StoreInvariant, PTL

\* Who waits for a row lock holds nothing, and who waits for the head waits for
\* nobody who waits: with any number of transactions under way, in either store,
\* one of them can go on without anybody giving up.
THEOREM WaitsAreNeverCircular == Spec => []NoStandoff
<1>1. ASSUME StoreInv, NEW w \in Writers, ~In(w, "idle") PROVE \E v \in Writers : CanStep(v)
  <2>1. CASE dialect = "sqlite"
    BY <1>1, <2>1 DEF CanStep, MayTake
  <2>2. CASE dialect # "sqlite" /\ owner[HeadLock] # Nobody
    <3>1. PICK h \in Writers : owner[HeadLock] = h
      BY <1>1, <2>2 DEF StoreInv, Shapes, Locks
    <3>2. tx[h].step \in {"audit", "commit"}
      BY <1>1, <2>2, <3>1 DEF StoreInv, HoldersAreLate, Locks
    <3>. QED BY <3>1, <3>2 DEF CanStep, MayTake, In
  <2>3. CASE dialect # "sqlite" /\ owner[HeadLock] = Nobody
    <3>1. CASE tx[w].step = "statement" /\ ~MayTake(w, Lock(tx[w].op))
      <4>1. Lock(tx[w].op) \in Locks
        BY <1>1, <3>1, LockShape DEF StoreInv, About
      <4>2. PICK v \in Writers : owner[Lock(tx[w].op)] = v
        BY <1>1, <3>1, <4>1 DEF StoreInv, Shapes, MayTake
      <4>3. tx[v].step \in {"audit", "commit"}
        BY <1>1, <2>3, <4>1, <4>2 DEF StoreInv, HoldersAreLate
      <4>. QED BY <2>3, <4>3 DEF CanStep, MayTake, In
    <3>2. CASE ~(tx[w].step = "statement" /\ ~MayTake(w, Lock(tx[w].op)))
      BY <1>1, <2>3, <3>2 DEF CanStep, MayTake, In
    <3>. QED BY <3>1, <3>2
  <2>. QED BY <2>1, <2>2, <2>3
<1>2. StoreInv => NoStandoff
  BY <1>1 DEF NoStandoff
<1>. QED BY <1>2, StoreInvariant, PTL

-----------------------------------------------------------------------------
(* What the log says of a row: Said, read from the first envelope on.       *)

\* f is the reading of the first n envelopes.
Reading(f, envs, table, k, n) ==
    f = [i \in 0..n |->
            IF i = 0 THEN <<>>
            ELSE IF envs[i].table = table /\ envs[i].key = k
                 THEN Append(f[i - 1], envs[i].what) ELSE f[i - 1]]

LEMMA ReadingExists ==
    ASSUME NEW envs, NEW table, NEW k, NEW n \in Nat
    PROVE  \E f : Reading(f, envs, table, k, n)
<1>. DEFINE W == {m \in Nat : \E f : Reading(f, envs, table, k, m)}
            Of(i) == envs[i].table = table /\ envs[i].key = k
<1>1. 0 \in W
  <2>. DEFINE f == [i \in 0..0 |-> <<>>]
  <2>1. Reading(f, envs, table, k, 0)
    BY DEF Reading
  <2>. QED BY <2>1
<1>2. ASSUME NEW m \in Nat, m \in W PROVE m + 1 \in W
  <2>1. PICK f : Reading(f, envs, table, k, m)
    BY <1>2
  <2>2. PICK g : g = [i \in 0..m + 1 |-> IF i <= m THEN f[i]
               ELSE IF Of(m + 1) THEN Append(f[m], envs[m + 1].what) ELSE f[m]]
    OBVIOUS
  <2>3. ASSUME NEW i \in 0..m + 1
        PROVE g[i] = IF i = 0 THEN <<>>
            ELSE IF Of(i) THEN Append(g[i - 1], envs[i].what) ELSE g[i - 1]
    <3>. HIDE DEF Of
    <3>1. CASE i = m + 1
      <4>1. g[i] = IF Of(i) THEN Append(f[m], envs[i].what) ELSE f[m]
        BY <2>2, <3>1
      <4>2. g[i - 1] = f[m]
        BY <2>2, <3>1
      <4>. QED BY <3>1, <4>1, <4>2
    <3>2. CASE i = 0
      BY <2>1, <2>2, <3>2 DEF Reading
    <3>3. CASE i \in 1..m
      <4>1. g[i] = f[i] /\ g[i - 1] = f[i - 1]
        BY <2>2, <3>3
      <4>2. f[i] = IF Of(i) THEN Append(f[i - 1], envs[i].what) ELSE f[i - 1]
        <5>1. i \in 0..m /\ i # 0
          BY <3>3
        <5>. QED BY <2>1, <5>1, Zenon DEF Reading, Of
      <4>. QED BY <3>3, <4>1, <4>2
    <3>4. i = m + 1 \/ i = 0 \/ i \in 1..m
      OBVIOUS
    <3>. QED BY <3>1, <3>2, <3>3, <3>4
  <2>4. g = [i \in 0..m + 1 |-> g[i]]
    <3>. HIDE DEF Of
    <3>. QED BY <2>2
  <2>5. Reading(g, envs, table, k, m + 1)
    BY <2>3, <2>4 DEF Reading
  <2>. QED BY <2>5
<1>3. Nat \subseteq W
  <2>. HIDE DEF W
  <2>. QED BY <1>1, <1>2, SetInduction
<1>. QED BY <1>3

\* What is said is read off by a function of the positions.
LEMMA SaidIsRead ==
    ASSUME NEW envs, Len(envs) \in Nat, NEW table, NEW k
    PROVE  \E f : Reading(f, envs, table, k, Len(envs)) /\ Said(envs, table, k) = f[Len(envs)]
<1>1. PICK g : Reading(g, envs, table, k, Len(envs))
  BY ReadingExists
<1>2. PICK h : h = CHOOSE f : f = [i \in 0..Len(envs) |->
            IF i = 0 THEN <<>>
            ELSE IF envs[i].table = table /\ envs[i].key = k
                 THEN Append(f[i - 1], envs[i].what) ELSE f[i - 1]]
  OBVIOUS
<1>3. Reading(h, envs, table, k, Len(envs))
  BY <1>1, <1>2, Zenon DEF Reading
<1>4. Said(envs, table, k) = h[Len(envs)]
  BY <1>2 DEF Said
<1>. QED BY <1>3, <1>4

Starts(f) == f[0] = <<>>
GoesOn(f, envs, table, k, i) ==
    f[i] = IF envs[i].table = table /\ envs[i].key = k
           THEN Append(f[i - 1], envs[i].what) ELSE f[i - 1]

LEMMA ReadingStep ==
    ASSUME NEW envs, NEW table, NEW k, NEW n \in Nat, NEW f, Reading(f, envs, table, k, n)
    PROVE  Starts(f) /\ \A i \in 1..n : GoesOn(f, envs, table, k, i)
<1>1. Starts(f)
  BY DEF Reading, Starts
<1>2. ASSUME NEW i \in 1..n
      PROVE  GoesOn(f, envs, table, k, i)
  <2>1. i \in 0..n /\ i # 0
    OBVIOUS
  <2>. QED BY <2>1, Zenon DEF Reading, GoesOn
<1>. QED BY <1>1, <1>2

\* Two readings agree as far as the envelopes do.
LEMMA ReadingsAgree ==
    ASSUME NEW l, NEW e, NEW table, NEW k, NEW m \in Nat, NEW n \in Nat, m <= n,
           \A i \in 1..m : l[i] = e[i],
           NEW f, Reading(f, l, table, k, m), NEW g, Reading(g, e, table, k, n)
    PROVE  f[m] = g[m]
<1>. DEFINE W == {i \in Nat : i <= m => f[i] = g[i]}
<1>0. /\ Starts(f) /\ \A i \in 1..m : GoesOn(f, l, table, k, i)
      /\ Starts(g) /\ \A i \in 1..n : GoesOn(g, e, table, k, i)
  BY ReadingStep
<1>1. 0 \in W
  BY <1>0 DEF Starts
<1>2. ASSUME NEW i \in Nat, i \in W PROVE i + 1 \in W
  <2>1. CASE i + 1 <= m
    <3>1. i + 1 \in 1..m /\ i + 1 \in 1..n /\ i + 1 - 1 = i /\ i <= m
      BY <2>1
    <3>2. l[i + 1] = e[i + 1] /\ f[i] = g[i]
      BY <1>2, <3>1
    <3>3. PICK j : j = i + 1
      OBVIOUS
    <3>4. GoesOn(f, l, table, k, j) /\ GoesOn(g, e, table, k, j) /\ j - 1 = i
      BY <1>0, <3>1, <3>3
    <3>5. f[j] = g[j]
      BY <3>2, <3>3, <3>4, Zenon DEF GoesOn
    <3>. QED BY <3>3, <3>5
  <2>2. CASE ~(i + 1 <= m)
    BY <2>2
  <2>. QED BY <2>1, <2>2
<1>3. Nat \subseteq W
  <2>. HIDE DEF W
  <2>. QED BY <1>1, <1>2, SetInduction
<1>4. m \in W
  BY <1>3
<1>. QED BY <1>4

LEMMA SaidOfNone ==
    ASSUME NEW table, NEW k
    PROVE  Said(<<>>, table, k) = <<>>
<1>1. Len(<<>>) = 0
  OBVIOUS
<1>2. PICK f : Reading(f, <<>>, table, k, 0) /\ Said(<<>>, table, k) = f[0]
  BY <1>1, SaidIsRead
<1>3. Starts(f)
  BY <1>2, ReadingStep
<1>. QED BY <1>2, <1>3 DEF Starts

\* From l to m: one thing more is said of a row, or nothing is.
Told(l, m, table, k, what) == Said(m, table, k) = Append(Said(l, table, k), what)
Quiet(l, m, table, k) == Said(m, table, k) = Said(l, table, k)

\* One more envelope says one thing more of the row it is about.
LEMMA SaidOfOneMore ==
    ASSUME NEW l \in Seq(Envs), NEW e \in Envs, NEW m, m = Append(l, e), NEW table, NEW k
    PROVE  /\ e.table = table /\ e.key = k => Told(l, m, table, k, e.what)
           /\ ~(e.table = table /\ e.key = k) => Quiet(l, m, table, k)
<1>1. PICK n \in Nat : n = Len(l)
  OBVIOUS
<1>2. PICK g : g = m
  OBVIOUS
<1>3. /\ Len(g) = n + 1
      /\ \A i \in 1..n : l[i] = g[i]
      /\ g[n + 1] = e
  BY <1>1, <1>2
<1>4. PICK a : Reading(a, l, table, k, n) /\ Said(l, table, k) = a[n]
  BY <1>1, SaidIsRead
<1>5. PICK b : Reading(b, g, table, k, n + 1) /\ Said(g, table, k) = b[n + 1]
  <2>1. Len(g) \in Nat
    BY <1>3
  <2>2. PICK b : Reading(b, g, table, k, Len(g)) /\ Said(g, table, k) = b[Len(g)]
    BY <2>1, SaidIsRead
  <2>. QED BY <1>3, <2>2
<1>6. a[n] = b[n]
  BY <1>3, <1>4, <1>5, ReadingsAgree
<1>7. PICK j : j = n + 1
  OBVIOUS
<1>8. GoesOn(b, g, table, k, j) /\ j - 1 = n
  <2>1. n + 1 \in Nat /\ n + 1 \in 1..n + 1
    OBVIOUS
  <2>. QED BY <1>5, <1>7, <2>1, ReadingStep
<1>9. b[j] = IF e.table = table /\ e.key = k THEN Append(a[n], e.what) ELSE a[n]
  BY <1>3, <1>6, <1>7, <1>8, Zenon DEF GoesOn
<1>. QED BY <1>2, <1>4, <1>5, <1>7, <1>9, Zenon DEF Told, Quiet

\* It is a sequence of what envelopes say.
LEMMA SaidIsSeq ==
    ASSUME NEW l \in Seq(Envs), NEW table, NEW k
    PROVE  Said(l, table, k) \in Seq(Whats)
<1>1. PICK n \in Nat : n = Len(l)
  OBVIOUS
<1>2. PICK f : Reading(f, l, table, k, n) /\ Said(l, table, k) = f[n]
  BY <1>1, SaidIsRead
<1>3. Starts(f) /\ \A i \in 1..n : GoesOn(f, l, table, k, i)
  BY <1>2, ReadingStep
<1>. DEFINE W == {i \in Nat : i <= n => f[i] \in Seq(Whats)}
<1>4. 0 \in W
  BY <1>3, EmptySeq DEF Starts
<1>5. ASSUME NEW i \in Nat, i \in W PROVE i + 1 \in W
  <2>1. CASE i + 1 <= n
    <3>1. i + 1 \in 1..n /\ i + 1 - 1 = i /\ i <= n
      BY <2>1
    <3>2. f[i] \in Seq(Whats)
      BY <1>5, <3>1
    <3>3. PICK j : j = i + 1
      OBVIOUS
    <3>4. GoesOn(f, l, table, k, j) /\ j - 1 = i
      BY <1>3, <3>1, <3>3
    <3>5. l[j] \in Envs
      BY <1>1, <3>1, <3>3
    <3>6. PICK what : what = l[j].what
      OBVIOUS
    <3>7. what \in Whats
      BY <3>5, <3>6 DEF Envs
    <3>8. Append(f[i], what) \in Seq(Whats)
      BY <3>2, <3>7
    <3>9. f[j] = Append(f[i], what) \/ f[j] = f[i]
      BY <3>4, <3>6, Zenon DEF GoesOn
    <3>10. f[i + 1] \in Seq(Whats)
      BY <3>2, <3>3, <3>8, <3>9, Zenon
    <3>. QED BY <3>10
  <2>2. CASE ~(i + 1 <= n)
    BY <2>2
  <2>. QED BY <2>1, <2>2
<1>6. Nat \subseteq W
  <2>. HIDE DEF W
  <2>. QED BY <1>4, <1>5, SetInduction
<1>. QED BY <1>2, <1>6

-----------------------------------------------------------------------------
(* The trail and the tables.                                               *)

\* What a transaction has appended is the beginning of what its operation
\* appends; it has all of it when it commits, or neither it nor a row.
Writing(t) ==
    /\ t.step \in {"idle", "statement", "readback", "gone"} =>
            t.new = <<>> /\ ~t.hit /\ t.op.name # "append"
    /\ t.step = "audit" => Len(t.new) < Len(AuditOf(t.op))
    /\ \/ t.hit \/ t.op.name = "append"
       \/ t.new = <<>> /\ t.step # "audit"
    /\ t.step = "commit" /\ t.new = <<>> => t.op.name # "append"
    /\ t.step = "commit" /\ (t.hit \/ t.new # <<>>) => Len(t.new) = Len(AuditOf(t.op))
    /\ t.step = "audit" \/ t.new # <<>> => Asked(t.op)
    /\ t.new \in Seq({t.new[i] : i \in DOMAIN t.new})
    /\ \A i \in 1..Len(t.new) : t.new[i].env = AuditOf(t.op)[i]

\* What a statement has found is still so, for its transaction has the lock.
Guarding(w) ==
    LET t == tx[w]
        o == t.op
    IN /\ t.hit =>
            /\ o.name # "append"
            /\ Matches(o)
            /\ Lock(o) = RowLock(o.key) => t.put = Written(o, row[o.key])
            /\ owner[IF dialect = "sqlite" THEN FileLock ELSE Lock(o)] = w
       /\ dialect = "sqlite" /\ t.step # "idle" => owner[FileLock] = w

\* What was left unsaid of a row or run has been done.
Unheard(k) ==
    /\ \A x : Env("row", k, x) \in silent => Ledger!IsTerminal(k)
    /\ \A x : Env("run", k, x) \in silent =>
         /\ run[k] # "none"
         /\ run[k] = "proposed" => x = "proposed"
         /\ run[k] \in {"approved", "rejected"} => x \in {"proposed", run[k]}
    /\ \A x : Env("rejection", k, x) \in silent => run[k] = "aborted"

Stories(k) == RowStory(k) /\ RunStory(k) /\ Unheard(k)

TrailInv ==
    /\ log \in Seq(Envs)
    /\ \A w \in Writers : Writing(tx[w]) /\ Guarding(w)
    /\ \A k \in Keys : Stories(k)

\* Everything an operation does, once it is committed.
Performed(o) ==
    /\ Asked(o) /\ Matches(o)
    /\ row' = IF Lock(o) = RowLock(o.key)
              THEN [row EXCEPT ![o.key] = Written(o, row[o.key])] ELSE row
    /\ run' = IF Lock(o) = RunLock(o.key) THEN [run EXCEPT ![o.key] = o.to] ELSE run
    /\ log' = log \o AuditOf(o)
    /\ silent' = silent \union Unsaid(o)

\* All at once: what was written under the lock is what is written now.
LEMMA CommitIsOneStep ==
    ASSUME StoreInv, TrailInv, NEW w \in Writers, Commit(w)
    PROVE  UNCHANGED <<row, run, log, silent>> \/ \E o : Performed(o)
<1>. DEFINE t == tx[w]
            o == t.op
<1>1. Writing(t) /\ Guarding(w) /\ log \in Seq(Envs) /\ t.step = "commit"
  BY DEF TrailInv, Commit, In
<1>2. PICK new : new = t.new
  OBVIOUS
<1>3. PICK said : said = [i \in DOMAIN new |-> new[i].env]
  OBVIOUS
<1>4. /\ log' = log \o said
      /\ row' = IF t.hit /\ Lock(o) = RowLock(o.key) THEN [row EXCEPT ![o.key] = t.put] ELSE row
      /\ run' = IF t.hit /\ Lock(o) = RunLock(o.key) THEN [run EXCEPT ![o.key] = o.to] ELSE run
      /\ silent' = IF t.hit THEN silent \union Unsaid(o) ELSE silent
  BY <1>2, <1>3 DEF Commit
<1>5. CASE ~t.hit /\ new = <<>>
  <2>1. said = <<>>
    BY <1>3, <1>5
  <2>. QED BY <1>1, <1>4, <1>5, <2>1, ConcatEmptySeq
<1>6. CASE t.hit \/ new # <<>>
  <2>1. /\ Asked(o) /\ Matches(o)
        /\ t.hit \/ o.name = "append"
        /\ o.name = "append" => ~t.hit
        /\ t.hit /\ Lock(o) = RowLock(o.key) => t.put = Written(o, row[o.key])
    BY <1>1, <1>2, <1>6 DEF Writing, Guarding, StoreInv, About, Matches
  <2>2. said = AuditOf(o)
    <3>1. AuditOf(o) \in Seq(Envs)
      BY <2>1, AuditShape
    <3>2. Len(new) = Len(AuditOf(o)) /\ DOMAIN new = 1..Len(new)
      BY <1>1, <1>2, <1>6, LenProperties DEF Writing
    <3>3. \A i \in 1..Len(new) : new[i].env = AuditOf(o)[i]
      BY <1>1, <1>2 DEF Writing
    <3>4. PICK a : a = AuditOf(o)
      OBVIOUS
    <3>5. DOMAIN a = 1..Len(new) /\ a = [i \in DOMAIN a |-> a[i]]
      BY <3>1, <3>2, <3>4, LenProperties
    <3>. QED BY <1>3, <3>2, <3>3, <3>4, <3>5
  <2>3. row' = IF Lock(o) = RowLock(o.key)
               THEN [row EXCEPT ![o.key] = Written(o, row[o.key])] ELSE row
    <3>1. CASE t.hit
      BY <1>4, <2>1, <3>1
    <3>2. CASE ~t.hit
      <4>1. o.name = "append" /\ row' = row
        BY <1>4, <2>1, <3>2
      <4>2. Written(o, row[o.key]) = row[o.key]
        BY <4>1 DEF Written
      <4>. QED BY <4>1, <4>2 DEF StoreInv, Shapes
    <3>. QED BY <3>1, <3>2
  <2>4. run' = IF Lock(o) = RunLock(o.key) THEN [run EXCEPT ![o.key] = o.to] ELSE run
    <3>1. CASE t.hit
      BY <1>4, <3>1
    <3>2. CASE ~t.hit
      <4>1. o.name = "append" /\ run' = run
        BY <1>4, <2>1, <3>2
      <4>. QED BY <2>1, <4>1, LockShape
    <3>. QED BY <3>1, <3>2
  <2>5. silent' = silent \union Unsaid(o)
    <3>1. ~t.hit => Unsaid(o) = {}
      BY <2>1, EventsShape, OperationShape DEF Unsaid
    <3>. QED BY <1>4, <3>1
  <2>. QED BY <1>4, <2>1, <2>2, <2>3, <2>4, <2>5 DEF Performed
<1>. QED BY <1>2, <1>5, <1>6

\* What the log says after an operation, of any row.
LEMMA OneEnvelope ==
    ASSUME NEW l \in Seq(Envs), NEW e \in Envs, NEW m, m = l \o <<e>>
    PROVE  /\ m \in Seq(Envs)
           /\ Told(l, m, e.table, e.key, e.what)
           /\ \A table, k : e.table # table \/ e.key # k => Quiet(l, m, table, k)
<1>1. m = Append(l, e)
  BY AppendIsConcat
<1>2. m \in Seq(Envs)
  BY <1>1, AppendProperties
<1>3. Told(l, m, e.table, e.key, e.what)
  BY <1>1, SaidOfOneMore
<1>4. ASSUME NEW table, NEW k, e.table # table \/ e.key # k PROVE Quiet(l, m, table, k)
  BY <1>1, <1>4, SaidOfOneMore
<1>. QED BY <1>2, <1>3, <1>4

LEMMA TwoEnvelopes ==
    ASSUME NEW l \in Seq(Envs), NEW d \in Envs, NEW e \in Envs, NEW n, n = l \o <<d, e>>,
           d.table # e.table
    PROVE  /\ n \in Seq(Envs)
           /\ Told(l, n, d.table, d.key, d.what)
           /\ Told(l, n, e.table, e.key, e.what)
           /\ \A table, k : (d.table # table \/ d.key # k) /\ (e.table # table \/ e.key # k)
                => Quiet(l, n, table, k)
<1>1. PICK m : m = l \o <<d>>
  OBVIOUS
<1>2. /\ m \in Seq(Envs)
      /\ Told(l, m, d.table, d.key, d.what)
      /\ \A table, k : d.table # table \/ d.key # k => Quiet(l, m, table, k)
  BY <1>1, OneEnvelope
<1>3. n = m \o <<e>>
  <2>1. <<d, e>> = <<d>> \o <<e>> /\ <<d>> \in Seq(Envs) /\ <<e>> \in Seq(Envs)
    BY Two
  <2>3. (l \o <<d>>) \o <<e>> = l \o (<<d>> \o <<e>>)
    BY <2>1, ConcatAssociative
  <2>. QED BY <1>1, <2>1, <2>3
<1>4. /\ n \in Seq(Envs)
      /\ Told(m, n, e.table, e.key, e.what)
      /\ \A table, k : e.table # table \/ e.key # k => Quiet(m, n, table, k)
  BY <1>2, <1>3, OneEnvelope
<1>. QED BY <1>2, <1>4 DEF Told, Quiet

-----------------------------------------------------------------------------
(* What one operation makes of the tables and of the trail.                *)

\* Nothing more was left unsaid of a key.
AsSilent(k) == \A table, x : Env(table, k, x) \in silent' <=> Env(table, k, x) \in silent

\* A row or run an operation is not about.
LEMMA AsBefore ==
    ASSUME NEW k \in Keys, Stories(k),
           row'[k].state = row[k].state, run'[k] = run[k], AsSilent(k),
           \A table \in {"row", "run", "rejection"} : Quiet(log, log', table, k)
    PROVE  Stories(k)'
<1>1. \A table, x : Heard(table, k, x)' = Heard(table, k, x)
  BY DEF AsSilent, Heard
<1>2. RowStory(k)'
  BY <1>1 DEF Quiet, Stories, RowStory, Ledger!IsTerminal
<1>3. RunStory(k)'
  BY <1>1 DEF Quiet, Stories, RunStory, Trail, Rejections
<1>4. Unheard(k)'
  BY DEF AsSilent, Stories, Unheard, Ledger!IsTerminal
<1>. QED BY <1>2, <1>3, <1>4 DEF Stories

LEMMA Changed ==
    ASSUME StoreInv, NEW o, Performed(o)
    PROVE  /\ o.key \in Keys
           /\ \A k \in Keys : k # o.key => row'[k] = row[k] /\ run'[k] = run[k]
           /\ o.name \in {"save", "transition"} => row' = row /\ run'[o.key] = o.to
           /\ o.name \notin {"save", "transition"} =>
                run' = run /\ row'[o.key] = Written(o, row[o.key])
BY OperationShape, LockShape DEF Performed, StoreInv, Shapes

\* What an operation adds to the log, and what it leaves unsaid.
LEMMA Uttered ==
    ASSUME NEW o, Performed(o), log \in Seq(Envs)
    PROVE  /\ o.audited => log' = log \o EventsOf(o) /\ silent' = silent
           /\ ~o.audited => /\ log' = log
                            /\ silent' = silent \union {EventsOf(o)[i] : i \in DOMAIN EventsOf(o)}
           /\ \A k : k # o.key => AsSilent(k)
<1>1. o.audited => log' = log \o EventsOf(o) /\ silent' = silent
  BY DEF Performed, AuditOf, Unsaid
<1>2. ~o.audited => /\ log' = log
                    /\ silent' = silent \union {EventsOf(o)[i] : i \in DOMAIN EventsOf(o)}
  BY ConcatEmptySeq DEF Performed, AuditOf, Unsaid
<1>3. ASSUME NEW i \in DOMAIN EventsOf(o) PROVE EventsOf(o)[i].key = o.key
  BY <1>3 DEF EventsOf, Env
<1>4. ASSUME NEW k, k # o.key PROVE AsSilent(k)
  <2>1. \A table, x : Env(table, k, x).key # o.key
    BY <1>4 DEF Env
  <2>. QED BY <1>1, <1>2, <1>3, <2>1 DEF AsSilent
<1>. QED BY <1>1, <1>2, <1>4

\* claim, mark_executing and bump_epoch append nothing.
LEMMA QuietOperation ==
    ASSUME StoreInv, TrailInv, NEW o, Performed(o), o.name \in {"claim", "mark", "bump"}
    PROVE  log' = log /\ \A k \in Keys : Stories(k)'
<1>1. log' = log /\ silent' = silent
  <2>1. EventsOf(o) = <<>> /\ o.audited /\ log \in Seq(Envs)
    BY EventsShape, OperationShape DEF EventsOf, Performed, TrailInv
  <2>. QED BY <2>1, Uttered, ConcatEmptySeq
<1>2. \A table, k : Quiet(log, log', table, k)
  BY <1>1 DEF Quiet
<1>3. /\ row[o.key].state \in {"none"} \union Ledger!InFlight
      /\ row'[o.key].state \in Ledger!InFlight
  <2>1. row'[o.key] = Written(o, row[o.key]) /\ row[o.key] \in Rows
    BY Changed DEF StoreInv, Shapes
  <2>2. CASE o.name = "claim"
    BY <2>1, <2>2 DEF Performed, Matches, Written, Ledger!Unclaimed, Ledger!InFlight
  <2>3. CASE o.name = "mark"
    BY <2>1, <2>3 DEF Performed, Matches, Written, Ledger!MarkMatches, Ledger!InFlight, Rows
  <2>4. CASE o.name = "bump"
    BY <2>1, <2>4 DEF Performed, Matches, Written, Ledger!BumpMatches, Ledger!IsInFlight, Rows
  <2>. QED BY <2>2, <2>3, <2>4
<1>4. ASSUME NEW k \in Keys PROVE Stories(k)'
  <2>1. Stories(k)
    BY DEF TrailInv
  <2>2. CASE k # o.key
    BY <1>1, <1>2, <2>1, <2>2, Changed, AsBefore DEF AsSilent
  <2>3. CASE k = o.key
    <3>1. ~Ledger!IsTerminal(k) /\ ~Ledger!IsTerminal(k)'
      BY <1>3, <2>3 DEF Ledger!IsTerminal, Ledger!InFlight, Ledger!Terminal
    <3>2. RowStory(k)'
      BY <1>1, <2>1, <3>1 DEF Stories, RowStory
    <3>3. run' = run
      BY Changed
    <3>4. RunStory(k)' /\ Unheard(k)'
      BY <1>1, <2>1, <3>1, <3>3 DEF Stories, RunStory, Unheard, Heard, Trail, Rejections
    <3>. QED BY <3>2, <3>4 DEF Stories
  <2>. QED BY <2>2, <2>3
<1>. QED BY <1>1, <1>4

\* An operation with one event, passed or left out.
LEMMA OneEventTells ==
    ASSUME NEW o, Performed(o), log \in Seq(Envs), o.audited \in BOOLEAN,
           NEW e \in Envs, EventsOf(o) = <<e>>, e.key = o.key, e \notin silent
    PROVE  /\ log' \in Seq(Envs)
           /\ Said(log', e.table, o.key) = Said(log, e.table, o.key) \o Heard(e.table, o.key, e.what)'
           /\ \A table, k : table # e.table \/ k # o.key => Quiet(log, log', table, k)
           /\ silent' \subseteq silent \union {e}
           /\ \A table, k, x : Env(table, k, x) # e => Heard(table, k, x)' = Heard(table, k, x)
<1>1. e = Env(e.table, o.key, e.what)
  BY DEF Envs, Env
<1>2. CASE o.audited
  <2>1. log' = log \o <<e>> /\ silent' = silent
    BY <1>2, Uttered
  <2>2. /\ log' \in Seq(Envs)
        /\ Told(log, log', e.table, o.key, e.what)
        /\ \A table, k : table # e.table \/ k # o.key => Quiet(log, log', table, k)
    BY <2>1, OneEnvelope
  <2>3. Heard(e.table, o.key, e.what)' = <<e.what>>
    BY <1>1, <2>1 DEF Heard
  <2>4. Said(log', e.table, o.key) = Said(log, e.table, o.key) \o <<e.what>>
    <3>1. Said(log, e.table, o.key) \in Seq(Whats) /\ e.what \in Whats
      BY SaidIsSeq DEF Envs
    <3>. QED BY <2>2, <3>1, AppendIsConcat DEF Told
  <2>. QED BY <2>1, <2>2, <2>3, <2>4 DEF Heard
<1>3. CASE ~o.audited
  <2>1. log' = log /\ silent' = silent \union {e}
    <3>1. {<<e>>[i] : i \in DOMAIN <<e>>} = {e}
      OBVIOUS
    <3>. QED BY <1>3, <3>1, Uttered
  <2>2. Heard(e.table, o.key, e.what)' = <<>>
    BY <1>1, <2>1 DEF Heard
  <2>3. Said(log, e.table, o.key) \o <<>> = Said(log, e.table, o.key)
    BY SaidIsSeq, ConcatEmptySeq
  <2>. QED BY <2>1, <2>2, <2>3 DEF Quiet, Heard
<1>. QED BY <1>2, <1>3

\* finalize: the one terminal event of the row, if it is passed, saying what
\* the row says.
LEMMA FinalizeTells ==
    ASSUME StoreInv, TrailInv, NEW o, Performed(o), o.name = "finalize"
    PROVE  /\ log' \in Seq(Envs)
           /\ \A k \in Keys : Stories(k)'
           /\ Said(log, "row", o.key) = <<>>
           /\ Said(log', "row", o.key) = IF o.audited THEN <<o.to>> ELSE <<>>
           /\ \A k \in Keys : k # o.key => Quiet(log, log', "row", k)
<1>1. /\ o.key \in Keys /\ o.to \in Outcomes /\ o.to \in Ledger!Terminal
      /\ o.audited \in BOOLEAN /\ log \in Seq(Envs) /\ Stories(o.key)
  BY OperationShape, EventsShape, StoreAssumption DEF Performed, TrailInv
<1>2. PICK e : e = Env("row", o.key, o.to)
  OBVIOUS
<1>3. e \in Envs /\ e.table = "row" /\ e.key = o.key /\ e.what = o.to
  BY <1>1, <1>2 DEF Env, Envs, Tables, Whats
<1>4. EventsOf(o) = <<e>>
  BY <1>2 DEF EventsOf
<1>5. ~Ledger!IsTerminal(o.key)
  <2>1. row[o.key].state \in Ledger!InFlight
    BY DEF Performed, Matches, Ledger!FinalizeMatches, Ledger!FinalizeFrom, Ledger!InFlight
  <2>. QED BY <2>1 DEF Ledger!InFlight, Ledger!IsTerminal, Ledger!Terminal
<1>6. e \notin silent /\ Said(log, "row", o.key) = <<>>
  BY <1>1, <1>2, <1>5 DEF Stories, Unheard, RowStory
<1>7. /\ log' \in Seq(Envs)
      /\ Said(log', "row", o.key) = Said(log, "row", o.key) \o Heard("row", o.key, o.to)'
      /\ \A table, k : table # "row" \/ k # o.key => Quiet(log, log', table, k)
      /\ silent' \subseteq silent \union {e}
      /\ \A table, k, x : Env(table, k, x) # e => Heard(table, k, x)' = Heard(table, k, x)
  BY <1>1, <1>3, <1>4, <1>6, OneEventTells
<1>8. Said(log', "row", o.key) = Heard("row", o.key, o.to)'
  BY <1>6, <1>7, ConcatEmptySeq DEF Heard
<1>9. Heard("row", o.key, o.to)' = IF o.audited THEN <<o.to>> ELSE <<>>
  <2>1. o.audited => silent' = silent
    BY <1>1, Uttered
  <2>2. ~o.audited => e \in silent'
    <3>1. 1 \in DOMAIN <<e>> /\ <<e>>[1] = e
      OBVIOUS
    <3>. QED BY <1>1, <1>4, <3>1, Uttered
  <2>. QED BY <1>1, <1>2, <1>6, <2>1, <2>2 DEF Heard
<1>10. ASSUME NEW k \in Keys PROVE Stories(k)'
  <2>1. Stories(k)
    BY DEF TrailInv
  <2>2. CASE k # o.key
    BY <1>1, <1>7, <2>1, <2>2, Changed, AsBefore, Uttered
  <2>3. CASE k = o.key
    <3>1. row'[k].state = o.to
      <4>1. row'[k] = Written(o, row[k]) /\ row[k] \in Rows
        BY <2>3, Changed DEF StoreInv, Shapes
      <4>. QED BY <4>1 DEF Written, Rows
    <3>2. Ledger!IsTerminal(k)'
      BY <1>1, <3>1 DEF Ledger!IsTerminal
    <3>3. RowStory(k)'
      BY <1>8, <2>3, <3>1, <3>2 DEF RowStory
    <3>4. run' = run
      BY Changed
    <3>5. \A table, x : table # "row" => Heard(table, k, x)' = Heard(table, k, x)
      BY <1>2, <1>7 DEF Env
    <3>6. RunStory(k)'
      <4>1. Quiet(log, log', "run", k) /\ Quiet(log, log', "rejection", k)
        BY <1>7
      <4>. QED BY <2>1, <3>4, <3>5, <4>1 DEF Stories, RunStory, Trail, Rejections, Quiet
    <3>7. Unheard(k)'
      <4>1. \A table, x : table # "row" /\ Env(table, k, x) \in silent'
                             => Env(table, k, x) \in silent
        BY <1>2, <1>7 DEF Env
      <4>. QED BY <2>1, <3>2, <3>4, <4>1 DEF Stories, Unheard
    <3>. QED BY <3>3, <3>6, <3>7 DEF Stories
  <2>. QED BY <2>2, <2>3
<1>. QED BY <1>6, <1>7, <1>8, <1>9, <1>10

\* A mirrored event is about no row.
LEMMA MirrorTells ==
    ASSUME StoreInv, TrailInv, NEW o, Performed(o), o.name = "append"
    PROVE  /\ log' \in Seq(Envs)
           /\ row' = row
           /\ \A k \in Keys : Stories(k)' /\ Quiet(log, log', "row", k)
<1>1. o.key \in Keys /\ o.audited /\ log \in Seq(Envs)
  BY OperationShape, EventsShape, OperationShape DEF Performed, TrailInv
<1>2. PICK e : e = Env("mirror", o.key, "none")
  OBVIOUS
<1>3. e \in Envs /\ e.table = "mirror"
  BY <1>1, <1>2 DEF Env, Envs, Tables, Whats
<1>4. log' = log \o <<e>> /\ silent' = silent
  <2>1. EventsOf(o) = <<e>>
    BY <1>2 DEF EventsOf
  <2>. QED BY <1>1, <2>1, Uttered
<1>5. /\ log' \in Seq(Envs)
      /\ \A table, k : table # "mirror" => Quiet(log, log', table, k)
  BY <1>1, <1>3, <1>4, OneEnvelope
<1>6. row' = row /\ run' = run
  <2>1. Written(o, row[o.key]) = row[o.key]
    BY DEF Written
  <2>. QED BY <1>1, <2>1, LockShape DEF Performed, StoreInv, Shapes
<1>. QED BY <1>4, <1>5, <1>6, AsBefore DEF TrailInv, AsSilent

\* save_paused, and a transition of a run nobody rejected.
LEMMA RunTells ==
    ASSUME StoreInv, TrailInv, NEW o, Performed(o),
           o.name = "save" \/ (o.name = "transition" /\ o.from # "rejected")
    PROVE  /\ log' \in Seq(Envs)
           /\ \A k \in Keys : Stories(k)' /\ Quiet(log, log', "row", k)
<1>1. /\ o.key \in Keys
      /\ o.name = "save" => o.to = "proposed" /\ run[o.key] = "none"
      /\ o.name # "save" =>
            /\ run[o.key] = o.from
            /\ \/ o.from = "proposed" /\ o.to \in {"approved", "rejected"}
               \/ o.from = "approved" /\ o.to \in {"committed", "aborted"}
  <2>1. Asked(o) /\ Matches(o)
    BY DEF Performed
  <2>2. CASE o.name = "save"
    BY <2>1, <2>2, OperationShape DEF Matches
  <2>3. CASE o.name = "transition" /\ o.from # "rejected"
    <3>1. o.key \in Keys /\ <<o.from, o.to>> \in PauseTransitions
      BY <2>1, <2>3, OperationShape
    <3>2. \/ o.from = "proposed" /\ o.to \in {"approved", "rejected"}
          \/ o.from = "approved" /\ o.to \in {"committed", "aborted"}
      BY <2>3, <3>1 DEF PauseTransitions
    <3>. QED BY <2>1, <2>3, <3>1, <3>2 DEF Matches
  <2>. QED BY <2>2, <2>3
<1>2. PICK e : e = Env("run", o.key, o.to)
  OBVIOUS
<1>3. \/ run[o.key] = "none" /\ o.to = "proposed"
      \/ run[o.key] = "proposed" /\ o.to \in {"approved", "rejected"}
      \/ run[o.key] = "approved" /\ o.to \in {"committed", "aborted"}
  BY <1>1
<1>4. e \in Envs /\ e.table = "run" /\ e.key = o.key /\ e.what = o.to
  <2>1. o.to \in Whats /\ "run" \in Tables
    BY <1>3 DEF Tables, Whats
  <2>. QED BY <1>1, <1>2, <2>1 DEF Env, Envs
<1>5. /\ EventsOf(o) = <<e>> /\ log \in Seq(Envs) /\ o.audited \in BOOLEAN
      /\ Stories(o.key)
  BY <1>1, <1>2, EventsShape, OperationShape DEF Performed, EventsOf, TrailInv
<1>6. e \notin silent
  BY <1>2, <1>3, <1>5 DEF Stories, Unheard
<1>7. /\ log' \in Seq(Envs)
      /\ Said(log', "run", o.key) = Said(log, "run", o.key) \o Heard("run", o.key, o.to)'
      /\ \A table, k : table # "run" \/ k # o.key => Quiet(log, log', table, k)
      /\ silent' \subseteq silent \union {e}
      /\ \A table, k, x : Env(table, k, x) # e => Heard(table, k, x)' = Heard(table, k, x)
  BY <1>4, <1>5, <1>6, OneEventTells
<1>8. row' = row
  BY Changed
<1>9. ASSUME NEW k \in Keys PROVE Stories(k)'
  <2>1. Stories(k)
    BY DEF TrailInv
  <2>2. CASE k # o.key
    BY <1>5, <1>7, <2>1, <2>2, Changed, AsBefore, Uttered
  <2>3. CASE k = o.key
    <3>1. run'[k] = o.to
      BY <2>3, Changed
    <3>2. Rejections(k)' = Rejections(k)
      BY <1>7 DEF Quiet, Rejections
    <3>3. Trail(k)' = Trail(k) \o Heard("run", k, o.to)'
      BY <1>7, <2>3 DEF Trail
    <3>4. /\ \A x : x # o.to => Heard("run", k, x)' = Heard("run", k, x)
          /\ \A table, x : table # "run" => Heard(table, k, x)' = Heard(table, k, x)
          /\ \A table, x : Env(table, k, x) \in silent' /\ ~(table = "run" /\ x = o.to)
                             => Env(table, k, x) \in silent
      BY <1>2, <1>7, <2>3 DEF Env
    <3>5. RunStory(k)'
      <4>1. CASE run[k] = "none" /\ o.to = "proposed"
        <5>1. Trail(k)' = Heard("run", k, "proposed")' /\ Rejections(k) = <<>>
          BY <2>1, <3>3, <4>1, ConcatEmptySeq DEF Stories, RunStory, Heard
        <5>. QED BY <3>1, <3>2, <4>1, <5>1 DEF RunStory
      <4>2. CASE run[k] = "proposed" /\ o.to \in {"approved", "rejected"}
        <5>1. /\ Trail(k)' = Heard("run", k, "proposed")' \o Heard("run", k, o.to)'
              /\ Rejections(k) = <<>>
          BY <2>1, <3>3, <3>4, <4>2 DEF Stories, RunStory
        <5>. QED BY <3>1, <3>2, <4>2, <5>1 DEF RunStory
      <4>3. CASE run[k] = "approved" /\ o.to \in {"committed", "aborted"}
        <5>1. /\ Trail(k)' = (Heard("run", k, "proposed")' \o Heard("run", k, "approved")')
                                \o Heard("run", k, o.to)'
              /\ Rejections(k) = <<>>
          BY <2>1, <3>3, <3>4, <4>3 DEF Stories, RunStory
        <5>. QED BY <3>1, <3>2, <4>3, <5>1 DEF RunStory
      <4>. QED BY <1>3, <2>3, <4>1, <4>2, <4>3
    <3>6. RowStory(k)'
      <4>1. Quiet(log, log', "row", k)
        BY <1>7
      <4>. QED BY <1>8, <2>1, <3>4, <4>1 DEF Stories, RowStory, Quiet, Ledger!IsTerminal
    <3>7. Unheard(k)'
      BY <1>3, <1>8, <2>1, <2>3, <3>1, <3>4 DEF Stories, Unheard, Ledger!IsTerminal
    <3>. QED BY <3>5, <3>6, <3>7 DEF Stories
  <2>. QED BY <2>2, <2>3
<1>. QED BY <1>7, <1>9

\* The closing of a rejected run, with the event of the rejection beside it.
LEMMA RejectionTells ==
    ASSUME StoreInv, TrailInv, NEW o, Performed(o), o.name = "transition", o.from = "rejected"
    PROVE  /\ log' \in Seq(Envs)
           /\ \A k \in Keys : Stories(k)' /\ Quiet(log, log', "row", k)
<1>1. /\ o.key \in Keys /\ o.to = "aborted" /\ run[o.key] = "rejected"
      /\ o.audited \in BOOLEAN /\ log \in Seq(Envs) /\ Stories(o.key)
  BY OperationShape DEF Performed, Matches, PauseTransitions, TrailInv
<1>2. PICK d : d = Env("run", o.key, o.to)
  OBVIOUS
<1>3. PICK e : e = Env("rejection", o.key, o.to)
  OBVIOUS
<1>4. /\ d \in Envs /\ d.table = "run" /\ d.key = o.key /\ d.what = "aborted"
      /\ e \in Envs /\ e.table = "rejection" /\ e.key = o.key /\ e.what = "aborted"
  BY <1>1, <1>2, <1>3 DEF Env, Envs, Tables, Whats
<1>5. EventsOf(o) = <<d, e>>
  BY <1>2, <1>3 DEF EventsOf
<1>6. d \notin silent /\ e \notin silent
  BY <1>1, <1>2, <1>3 DEF Stories, Unheard
<1>7. /\ log' \in Seq(Envs)
      /\ Said(log', "run", o.key) = Said(log, "run", o.key) \o Heard("run", o.key, "aborted")'
      /\ Rejections(o.key) = <<>>
            => Said(log', "rejection", o.key) = Heard("rejection", o.key, "aborted")'
      /\ \A table, k : table \notin {"run", "rejection"} \/ k # o.key => Quiet(log, log', table, k)
      /\ silent' \subseteq silent \union {d, e}
      /\ \A table, k, x : Env(table, k, x) \notin {d, e} => Heard(table, k, x)' = Heard(table, k, x)
  <2>1. CASE o.audited
    <3>1. log' = log \o <<d, e>> /\ silent' = silent
      BY <1>1, <1>5, <2>1, Uttered
    <3>2. /\ log' \in Seq(Envs)
          /\ Told(log, log', "run", o.key, "aborted")
          /\ Told(log, log', "rejection", o.key, "aborted")
          /\ \A table, k : table \notin {"run", "rejection"} \/ k # o.key
                              => Quiet(log, log', table, k)
      BY <1>1, <1>4, <3>1, TwoEnvelopes
    <3>3. /\ Heard("run", o.key, "aborted")' = <<"aborted">>
          /\ Heard("rejection", o.key, "aborted")' = <<"aborted">>
      BY <1>1, <1>2, <1>3, <1>6, <3>1 DEF Heard
    <3>4. Said(log', "run", o.key) = Said(log, "run", o.key) \o <<"aborted">>
      <4>1. Said(log, "run", o.key) \in Seq(Whats) /\ "aborted" \in Whats
        BY <1>1, SaidIsSeq DEF Whats
      <4>. QED BY <3>2, <4>1, AppendIsConcat DEF Told
    <3>5. Rejections(o.key) = <<>> => Said(log', "rejection", o.key) = <<"aborted">>
      BY <3>2, Appends DEF Told, Rejections
    <3>. QED BY <3>1, <3>2, <3>3, <3>4, <3>5 DEF Heard
  <2>2. CASE ~o.audited
    <3>1. log' = log /\ silent' = silent \union {d, e}
      <4>1. {<<d, e>>[i] : i \in DOMAIN <<d, e>>} = {d, e}
        <5>1. DOMAIN <<d, e>> = {1, 2} /\ <<d, e>>[1] = d /\ <<d, e>>[2] = e
          OBVIOUS
        <5>. QED BY <5>1
      <4>. QED BY <1>1, <1>5, <2>2, <4>1, Uttered
    <3>2. /\ Heard("run", o.key, "aborted")' = <<>>
          /\ Heard("rejection", o.key, "aborted")' = <<>>
      BY <1>1, <1>2, <1>3, <3>1 DEF Heard
    <3>3. Said(log, "run", o.key) \o <<>> = Said(log, "run", o.key)
      BY <1>1, SaidIsSeq, ConcatEmptySeq
    <3>. QED BY <1>1, <3>1, <3>2, <3>3 DEF Quiet, Heard, Rejections
  <2>. QED BY <1>1, <2>1, <2>2
<1>8. row' = row
  BY Changed
<1>9. ASSUME NEW k \in Keys PROVE Stories(k)'
  <2>1. Stories(k)
    BY DEF TrailInv
  <2>2. CASE k # o.key
    BY <1>1, <1>7, <2>1, <2>2, Changed, AsBefore, Uttered
  <2>3. CASE k = o.key
    <3>1. run'[k] = "aborted"
      BY <1>1, <2>3, Changed
    <3>2. /\ Trail(k) = Heard("run", k, "proposed") \o Heard("run", k, "rejected")
          /\ Rejections(k) = <<>>
      BY <1>1, <2>1, <2>3 DEF Stories, RunStory
    <3>3. \A table, x : x # "aborted" => Heard(table, k, x)' = Heard(table, k, x)
      BY <1>1, <1>2, <1>3, <1>7, <2>3 DEF Env
    <3>4. /\ Trail(k)' = (Heard("run", k, "proposed")' \o Heard("run", k, "rejected")')
                            \o Heard("run", k, "aborted")'
          /\ Rejections(k)' = Heard("rejection", k, "aborted")'
      BY <1>7, <2>3, <3>2, <3>3 DEF Trail, Rejections
    <3>5. RunStory(k)'
      BY <3>1, <3>4 DEF RunStory
    <3>6. \A x : /\ Heard("row", k, x)' = Heard("row", k, x)
                 /\ Env("row", k, x) \in silent' => Env("row", k, x) \in silent
      BY <1>2, <1>3, <1>7 DEF Env
    <3>7. RowStory(k)'
      <4>1. Quiet(log, log', "row", k)
        BY <1>7
      <4>. QED BY <1>8, <2>1, <3>6, <4>1 DEF Stories, RowStory, Quiet, Ledger!IsTerminal
    <3>8. Unheard(k)'
      BY <1>8, <2>1, <3>1, <3>6 DEF Stories, Unheard, Ledger!IsTerminal
    <3>. QED BY <3>5, <3>7, <3>8 DEF Stories
  <2>. QED BY <2>2, <2>3
<1>. QED BY <1>7, <1>9

-----------------------------------------------------------------------------
(* The invariant.                                                          *)

\* What another transaction has found stays as it is.
LEMMA StillGuarded ==
    ASSUME StoreInv, NEW v \in Writers, Guarding(v), tx'[v] = tx[v], UNCHANGED dialect,
           \A l \in Locks : owner[l] = v => owner'[l] = v,
           tx[v].hit => /\ Lock(tx[v].op) = RowLock(tx[v].op.key) =>
                                row'[tx[v].op.key] = row[tx[v].op.key]
                        /\ Lock(tx[v].op) = RunLock(tx[v].op.key) =>
                                run'[tx[v].op.key] = run[tx[v].op.key]
    PROVE  Guarding(v)'
<1>1. PICK t : t = tx[v]
  OBVIOUS
<1>2. PICK o : o = t.op
  OBVIOUS
<1>3. FileLock \in Locks
  BY DEF Locks
<1>4. dialect' = "sqlite" /\ t.step # "idle" => owner'[FileLock] = v
  BY <1>1, <1>3 DEF Guarding
<1>5. ASSUME t.hit
      PROVE  /\ o.name # "append"
             /\ Matches(o)'
             /\ Lock(o) = RowLock(o.key) => t.put = Written(o, row'[o.key])
             /\ owner'[IF dialect' = "sqlite" THEN FileLock ELSE Lock(o)] = v
  <2>1. /\ o.name # "append" /\ Matches(o)
        /\ Lock(o) = RowLock(o.key) => t.put = Written(o, row[o.key])
        /\ owner[IF dialect = "sqlite" THEN FileLock ELSE Lock(o)] = v
    BY <1>1, <1>2, <1>5 DEF Guarding
  <2>2. Asked(o)
    BY <1>1, <1>2, <1>5 DEF StoreInv, About
  <2>3. /\ Lock(o) \in Locks
        /\ o.name \in {"save", "transition"} => run'[o.key] = run[o.key]
        /\ o.name \notin {"save", "transition"} => row'[o.key] = row[o.key]
        /\ Lock(o) = RowLock(o.key) => row'[o.key] = row[o.key]
    BY <1>1, <1>2, <1>5, <2>2, LockShape
  <2>4. Matches(o)'
    <3>1. CASE o.name \in {"save", "transition"}
      BY <2>1, <2>3, <3>1 DEF Matches
    <3>2. CASE o.name \in {"claim", "mark", "finalize", "bump"}
      BY <2>1, <2>3, <3>2 DEF Matches, Ledger!Unclaimed, Ledger!MarkMatches,
            Ledger!FinalizeMatches, Ledger!BumpMatches, Ledger!IsInFlight
    <3>. QED BY <2>1, <2>2, <3>1, <3>2, OperationShape
  <2>5. owner'[IF dialect' = "sqlite" THEN FileLock ELSE Lock(o)] = v
    BY <1>3, <2>1, <2>3
  <2>. QED BY <2>1, <2>3, <2>4, <2>5
<1>. QED BY <1>1, <1>2, <1>4, <1>5 DEF Guarding, Lock, RowLock, RunLock, Written, FileLock

\* A step that moves one transaction and no data.
LEMMA TrailMoves ==
    ASSUME StoreInv, TrailInv, NEW w \in Writers, NEW t,
           tx' = [tx EXCEPT ![w] = t], Writing(t), Guarding(w)',
           \A v \in Writers \ {w} : \A l \in Locks : owner[l] = v => owner'[l] = v,
           UNCHANGED <<dialect, row, run, log, silent>>
    PROVE  TrailInv'
<1>1. tx'[w] = t /\ \A v \in Writers \ {w} : tx'[v] = tx[v]
  BY DEF StoreInv, Shapes
<1>2. ASSUME NEW v \in Writers PROVE (Writing(tx[v]))'
  <2>1. Writing(tx'[v])
    BY <1>1 DEF TrailInv
  <2>. QED BY <2>1 DEF Writing
<1>3. ASSUME NEW v \in Writers PROVE Guarding(v)'
  BY <1>1, StillGuarded DEF TrailInv
<1>4. ASSUME NEW k \in Keys PROVE Stories(k)'
  BY DEF TrailInv, Stories, RowStory, RunStory, Unheard, Heard, Trail, Rejections, Ledger!IsTerminal
<1>5. (log \in Seq(Envs))'
  BY DEF TrailInv
<1>. QED BY <1>2, <1>3, <1>4, <1>5 DEF TrailInv

\* A transaction that has written and appended nothing.
LEMMA NothingWritten ==
    ASSUME NEW t, t.new = <<>>, ~t.hit,
           t.step = "audit" => Asked(t.op) /\ t.op.name = "append",
           t.step # "audit" => t.op.name # "append"
    PROVE  Writing(t)
<1>1. <<>> \in Seq({t.new[i] : i \in DOMAIN t.new}) /\ Len(<<>>) = 0
  BY EmptySeq
<1>2. t.step = "audit" => 0 < Len(AuditOf(t.op))
  <2>1. SUFFICES ASSUME t.step = "audit" PROVE 0 < Len(AuditOf(t.op))
    OBVIOUS
  <2>2. AuditOf(t.op) \in Seq(Envs) /\ AuditOf(t.op) # <<>>
    BY <2>1, AuditShape
  <2>. QED BY <2>2, EmptySeq
<1>. QED BY <1>1, <1>2 DEF Writing

LEMMA TrailInitial == Init => TrailInv
<1>. SUFFICES ASSUME Init PROVE TrailInv
  OBVIOUS
<1>1. /\ log = <<>> /\ silent = {} /\ row = [k \in Keys |-> Ledger!NoRow] /\ run = [k \in Keys |-> "none"]
      /\ \A w \in Writers : tx[w] = Idle
  BY DEF Init, StoreInit
<1>2. log \in Seq(Envs)
  BY <1>1
<1>3. Writing(Idle)
  <2>1. Idle.step = "idle" /\ Idle.new = <<>> /\ ~Idle.hit /\ Idle.op.name = "none"
    BY DEF Idle, NoOp, Op
  <2>. QED BY <2>1, NothingWritten
<1>4. \A w \in Writers : Guarding(w)
  BY <1>1 DEF Guarding, Idle
<1>5. ASSUME NEW k \in Keys PROVE Stories(k)
  <2>1. \A table : Said(log, table, k) = <<>>
    BY <1>1, SaidOfNone
  <2>. QED BY <1>1, <2>1 DEF Stories, RowStory, RunStory, Unheard, Trail, Rejections, Ledger!IsTerminal,
          Ledger!NoRow, Ledger!Terminal
<1>. QED BY <1>1, <1>2, <1>3, <1>4, <1>5 DEF TrailInv

-----------------------------------------------------------------------------
(* The steps of a transaction.                                             *)

LEMMA BeginTells ==
    ASSUME StoreInv, TrailInv, NEW w \in Writers, NEW o, Asked(o), Begin(w, o)
    PROVE  TrailInv'
<1>. DEFINE t == [Idle EXCEPT !.step = FirstStep(o), !.op = o]
<1>1. /\ t.step = FirstStep(o) /\ t.op = o /\ t.new = <<>> /\ ~t.hit
      /\ tx' = [tx EXCEPT ![w] = t] /\ tx'[w] = t
  BY DEF Idle, Begin, StoreInv, Shapes
<1>. HIDE DEF t
<1>2. Writing(t)
  BY <1>1, NothingWritten DEF FirstStep
<1>3. dialect = "sqlite" => Free(FileLock) /\ owner' = [l \in Locks |-> IF l = FileLock THEN w ELSE owner[l]]
  BY DEF Begin, Take
<1>4. dialect # "sqlite" => \A l \in Locks : owner'[l] = owner[l]
  BY DEF Begin, Take
<1>5. FileLock \in Locks
  BY DEF Locks
<1>6. \A v \in Writers \ {w} : \A l \in Locks : owner[l] = v => owner'[l] = v
  BY <1>3, <1>4, <1>5, StoreAssumption DEF Free
<1>7. UNCHANGED <<dialect, row, run, log, silent>>
  BY DEF Begin, deployment, data
<1>8. Guarding(w)'
  BY <1>1, <1>3, <1>5, <1>7 DEF Guarding, FileLock
<1>. QED BY <1>1, <1>2, <1>6, <1>7, <1>8, TrailMoves

\* Locks taken by w on Postgres, and none in SQLite, are nobody else's.
LEMMA OthersKeep ==
    ASSUME StoreInv, NEW w \in Writers, NEW ls, Take(w, ls),
           \A l \in ls : l \in Locks => owner[l] \in {w, Nobody}
    PROVE  /\ \A v \in Writers \ {w} : \A l \in Locks : owner[l] = v => owner'[l] = v
           /\ \A l \in Locks : owner[l] = w => owner'[l] = w
           /\ \A l \in Locks : l \in ls => owner'[l] = w
BY StoreAssumption DEF Take

LEMMA StatementHitsTells ==
    ASSUME StoreInv, TrailInv, NEW w \in Writers, StatementHits(w)
    PROVE  TrailInv'
<1>1. PICK o : o = tx[w].op
  OBVIOUS
<1>2. PICK put : put = Written(o, row[o.key])
  OBVIOUS
<1>3. PICK s : s = IF AuditOf(o) = <<>> THEN "commit" ELSE "audit"
  OBVIOUS
<1>4. PICK t : t = [tx[w] EXCEPT !.hit = TRUE, !.put = put, !.step = s]
  OBVIOUS
<1>5. /\ tx' = [tx EXCEPT ![w] = t] /\ Take(w, Taking(Lock(o))) /\ Matches(o) /\ MayTake(w, Lock(o))
      /\ UNCHANGED <<dialect, row, run, log, silent>>
  BY <1>1, <1>2, <1>3, <1>4 DEF StatementHits, deployment, data
<1>6. /\ t.hit /\ t.op = o /\ t.put = put /\ t.step = s /\ t.new = tx[w].new
      /\ tx'[w] = t
  BY <1>1, <1>4, <1>5 DEF StoreInv, Shapes, Shaped
<1>7. /\ tx[w].step = "statement" /\ Asked(o) /\ o.name # "append"
      /\ tx[w].new = <<>> /\ Guarding(w)
  BY <1>1 DEF StatementHits, In, StoreInv, About, TrailInv, Writing
<1>8. Writing(t)
  <2>1. <<>> \in Seq({t.new[i] : i \in DOMAIN t.new}) /\ Len(<<>>) = 0
    BY EmptySeq
  <2>2. AuditOf(o) \in Seq(Envs)
    BY <1>7, AuditShape
  <2>3. s = "audit" => 0 < Len(AuditOf(o))
    BY <1>3, <2>2, EmptySeq
  <2>4. s = "commit" => Len(AuditOf(o)) = 0
    BY <1>3, EmptySeq
  <2>5. s \in {"audit", "commit"}
    BY <1>3
  <2>. QED BY <1>6, <1>7, <2>1, <2>3, <2>4, <2>5 DEF Writing
<1>9. \A l \in Taking(Lock(o)) : owner[l] \in {w, Nobody}
  BY <1>5 DEF Taking, MayTake
<1>10. /\ \A v \in Writers \ {w} : \A l \in Locks : owner[l] = v => owner'[l] = v
       /\ \A l \in Locks : owner[l] = w => owner'[l] = w
       /\ \A l \in Locks : l \in Taking(Lock(o)) => owner'[l] = w
  BY <1>5, <1>9, OthersKeep
<1>11. FileLock \in Locks /\ Lock(o) \in Locks
  BY <1>7, LockShape DEF Locks
<1>12. dialect = "sqlite" => owner'[FileLock] = w
  BY <1>7, <1>10, <1>11 DEF Guarding
<1>13. dialect # "sqlite" => owner'[Lock(o)] = w
  BY <1>10, <1>11 DEF Taking
<1>14. Matches(o)'
  BY <1>5 DEF Matches, Ledger!Unclaimed, Ledger!MarkMatches,
            Ledger!FinalizeMatches, Ledger!BumpMatches, Ledger!IsInFlight
<1>15. Guarding(w)'
  BY <1>2, <1>5, <1>6, <1>7, <1>12, <1>13, <1>14 DEF Guarding, FileLock
<1>. QED BY <1>5, <1>8, <1>10, <1>15, TrailMoves

\* A transaction that only goes on, with what it has.
LEMMA GoingOnTells ==
    ASSUME StoreInv, TrailInv, NEW w \in Writers, NEW s, GoOn(w, s),
           s \in {"readback", "commit", "gone"},
           tx[w].new = <<>>, ~tx[w].hit, tx[w].op.name # "append",
           dialect = "sqlite" => tx[w].step # "idle",
           UNCHANGED <<dialect, row, run, log, silent>>,
           \A v \in Writers : \A l \in Locks : owner[l] = v => owner'[l] = v
    PROVE  TrailInv'
<1>1. PICK t : t = [tx[w] EXCEPT !.step = s]
  OBVIOUS
<1>2. /\ t.step = s /\ t.op = tx[w].op /\ t.new = tx[w].new /\ t.hit = tx[w].hit
      /\ tx' = [tx EXCEPT ![w] = t] /\ tx'[w] = t
  BY <1>1 DEF GoOn, StoreInv, Shapes, Shaped
<1>3. Writing(t)
  BY <1>2, NothingWritten
<1>4. FileLock \in Locks
  BY DEF Locks
<1>5. Guarding(w)'
  BY <1>2, <1>4 DEF TrailInv, Guarding, FileLock
<1>. QED BY <1>2, <1>3, <1>5, TrailMoves

LEMMA AppendAuditTells ==
    ASSUME StoreInv, TrailInv, NEW w \in Writers, AppendAudit(w)
    PROVE  TrailInv'
<1>1. PICK o : o = tx[w].op
  OBVIOUS
<1>2. PICK todo : todo = AuditOf(o)
  OBVIOUS
<1>3. PICK new : new = tx[w].new
  OBVIOUS
<1>4. /\ tx[w].step = "audit" /\ Asked(o) /\ Len(new) < Len(todo)
      /\ new \in Seq({new[i] : i \in DOMAIN new})
      /\ \A i \in 1..Len(new) : new[i].env = todo[i]
      /\ tx[w].hit \/ o.name = "append"
      /\ Guarding(w)
  <2>1. Writing(tx[w]) /\ Guarding(w) /\ tx[w].step = "audit"
    BY DEF AppendAudit, In, TrailInv
  <2>. QED BY <1>1, <1>2, <1>3, <2>1 DEF Writing
<1>5. PICK n \in Nat : n = Len(new)
  BY <1>4, LenProperties
<1>6. PICK r : r = NextRow(HeadSeen(w), todo[n + 1])
  OBVIOUS
<1>7. r.env = todo[n + 1]
  BY <1>6 DEF NextRow, Row
<1>8. PICK s : s = IF n + 1 = Len(todo) THEN "commit" ELSE "audit"
  OBVIOUS
<1>9. PICK u : u = Append(new, r)
  OBVIOUS
<1>10. PICK t : t = [tx[w] EXCEPT !.new = u, !.step = s]
  OBVIOUS
<1>11. /\ tx' = [tx EXCEPT ![w] = t] /\ Take(w, Taking(HeadLock)) /\ MayTake(w, HeadLock)
       /\ UNCHANGED <<dialect, row, run, log, silent>>
  BY <1>1, <1>2, <1>3, <1>5, <1>6, <1>8, <1>9, <1>10 DEF AppendAudit, deployment, data
<1>12. /\ t.hit = tx[w].hit /\ t.op = o /\ t.put = tx[w].put /\ t.step = s /\ t.new = u
       /\ tx'[w] = t
  BY <1>1, <1>10, <1>11 DEF StoreInv, Shapes, Shaped
<1>13. /\ Len(u) = n + 1 /\ u \in Seq({u[i] : i \in DOMAIN u})
       /\ \A i \in 1..n : u[i] = new[i]
       /\ u[n + 1] = r
  BY <1>4, <1>5, <1>9, OneMore
<1>14. Len(todo) \in Nat
  BY <1>2, <1>4, AuditShape, LenProperties
<1>15. \A i \in 1..n + 1 : u[i].env = todo[i]
  <2>1. \A i \in 1..n + 1 : i = n + 1 \/ i \in 1..n
    OBVIOUS
  <2>. QED BY <1>4, <1>5, <1>7, <1>13, <2>1
<1>16. s = "audit" => n + 1 < Len(todo)
  BY <1>4, <1>5, <1>8, <1>14
<1>17. s = "commit" => n + 1 = Len(todo)
  BY <1>8
<1>18. u # <<>>
  <2>1. Len(u) # 0
    BY <1>13
  <2>2. Len(<<>>) = 0
    OBVIOUS
  <2>. QED BY <2>1, <2>2
<1>19. Writing(t)
  <2>1. s \in {"audit", "commit"}
    BY <1>8
  <2>. QED BY <1>2, <1>4, <1>12, <1>13, <1>15, <1>16, <1>17, <1>18, <2>1 DEF Writing
<1>20. \A l \in Taking(HeadLock) : owner[l] \in {w, Nobody}
  BY <1>11 DEF Taking, MayTake
<1>21. /\ \A v \in Writers \ {w} : \A l \in Locks : owner[l] = v => owner'[l] = v
       /\ \A l \in Locks : owner[l] = w => owner'[l] = w
  BY <1>11, <1>20, OthersKeep
<1>22. FileLock \in Locks /\ Lock(o) \in Locks
  BY <1>4, LockShape DEF Locks
<1>23. Matches(o) => Matches(o)'
  BY <1>11 DEF Matches, Ledger!Unclaimed, Ledger!MarkMatches,
            Ledger!FinalizeMatches, Ledger!BumpMatches, Ledger!IsInFlight
<1>24. Guarding(w)'
  BY <1>1, <1>4, <1>11, <1>12, <1>21, <1>22, <1>23 DEF Guarding, FileLock
<1>. QED BY <1>11, <1>19, <1>21, <1>24, TrailMoves

\* stale_inflight and the paused scans lock what is free and change nothing.
LEMMA ScanTells ==
    ASSUME StoreInv, TrailInv, NEW w \in Writers, NEW locks, Scan(w, locks)
    PROVE  TrailInv'
<1>1. /\ tx[w].step = "idle" /\ dialect = "postgres" /\ GoOn(w, "commit")
      /\ UNCHANGED <<dialect, row, run, log, silent>>
  BY DEF Scan, In, deployment, data
<1>2. Writing(tx[w])
  BY DEF TrailInv
<1>3. tx[w].new = <<>> /\ ~tx[w].hit /\ tx[w].op.name # "append"
  BY <1>1, <1>2 DEF Writing
<1>4. \A v \in Writers : \A l \in Locks : owner[l] = v => owner'[l] = v
  BY StoreAssumption DEF Scan, Take, Free
<1>. QED BY <1>1, <1>3, <1>4, GoingOnTells

LEMMA OtherStepTells ==
    ASSUME StoreInv, TrailInv, NEW w \in Writers, StatementMisses(w) \/ ReadBack(w)
    PROVE  TrailInv'
<1>1. /\ tx[w].step \in {"statement", "readback"}
      /\ UNCHANGED <<dialect, row, run, log, silent, owner>>
  BY DEF StatementMisses, ReadBack, In, deployment, data
<1>2. PICK s \in {"readback", "commit", "gone"} : GoOn(w, s)
  BY DEF StatementMisses, ReadBack
<1>3. tx[w].new = <<>> /\ ~tx[w].hit /\ tx[w].op.name # "append"
  <2>1. Writing(tx[w])
    BY DEF TrailInv
  <2>. QED BY <1>1, <2>1 DEF Writing
<1>. QED BY <1>1, <1>2, <1>3, GoingOnTells

\* The end of a transaction, once the trail says what the tables say.
LEMMA EndTells ==
    ASSUME StoreInv, TrailInv, NEW w \in Writers, End(w), UNCHANGED dialect,
           log' \in Seq(Envs), \A k \in Keys : Stories(k)',
           \A v \in Writers \ {w} : tx[v].hit =>
                /\ Lock(tx[v].op) = RowLock(tx[v].op.key) =>
                        row'[tx[v].op.key] = row[tx[v].op.key]
                /\ Lock(tx[v].op) = RunLock(tx[v].op.key) =>
                        run'[tx[v].op.key] = run[tx[v].op.key]
    PROVE  TrailInv'
<1>1. tx'[w] = Idle /\ \A v \in Writers \ {w} : tx'[v] = tx[v]
  BY DEF End, StoreInv, Shapes
<1>2. Idle.step = "idle" /\ Idle.new = <<>> /\ ~Idle.hit /\ Idle.op.name = "none"
  BY DEF Idle, NoOp, Op
<1>3. ASSUME NEW v \in Writers PROVE Writing(tx[v])'
  <2>1. Writing(tx'[v])
    <3>1. CASE v = w
      BY <1>1, <1>2, <3>1, NothingWritten
    <3>2. CASE v # w
      BY <1>1, <3>2 DEF TrailInv
    <3>. QED BY <3>1, <3>2
  <2>. QED BY <2>1 DEF Writing
<1>4. \A v \in Writers \ {w} : \A l \in Locks : owner[l] = v => owner'[l] = v
  BY DEF End, Release
<1>5. ASSUME NEW v \in Writers PROVE Guarding(v)'
  <2>1. CASE v = w
    BY <1>1, <1>2, <2>1 DEF Guarding
  <2>2. CASE v # w
    BY <1>1, <1>4, <2>2, StillGuarded DEF TrailInv
  <2>. QED BY <2>1, <2>2
<1>. QED BY <1>3, <1>5 DEF TrailInv

LEMMA RollbackTells ==
    ASSUME StoreInv, TrailInv, NEW w \in Writers, Rollback(w)
    PROVE  TrailInv'
<1>1. End(w) /\ UNCHANGED <<dialect, row, run, log, silent>>
  BY DEF Rollback, deployment, data
<1>2. ASSUME NEW k \in Keys PROVE Stories(k)'
  BY <1>1 DEF TrailInv, Stories, RowStory, RunStory, Unheard, Heard, Trail, Rejections, Ledger!IsTerminal
<1>. QED BY <1>1, <1>2, EndTells DEF TrailInv

\* What a commit changes is what its operation is about.
LEMMA PerformedTells ==
    ASSUME StoreInv, TrailInv, NEW o, Performed(o)
    PROVE  log' \in Seq(Envs) /\ \A k \in Keys : Stories(k)'
<1>1. CASE o.name \in {"claim", "mark", "bump"}
  BY <1>1, QuietOperation DEF TrailInv
<1>2. CASE o.name = "finalize"
  BY <1>2, FinalizeTells
<1>3. CASE o.name = "append"
  BY <1>3, MirrorTells
<1>4. CASE o.name = "save" \/ (o.name = "transition" /\ o.from # "rejected")
  BY <1>4, RunTells
<1>5. CASE o.name = "transition" /\ o.from = "rejected"
  BY <1>5, RejectionTells
<1>6. o.name \in {"claim", "save", "bump", "append", "mark", "finalize", "transition"}
  BY OperationShape DEF Performed
<1>. QED BY <1>1, <1>2, <1>3, <1>4, <1>5, <1>6

\* Two statements that have found their rows have found different ones.
LEMMA DifferentRows ==
    ASSUME StoreInv, TrailInv, NEW v \in Writers, NEW w \in Writers, v # w,
           tx[v].hit, tx[w].hit
    PROVE  Lock(tx[v].op) # Lock(tx[w].op)
<1>1. Guarding(v) /\ Guarding(w)
  BY DEF TrailInv
<1>. QED BY <1>1 DEF Guarding

LEMMA CommitTells ==
    ASSUME StoreInv, TrailInv, NEW w \in Writers, Commit(w)
    PROVE  TrailInv'
<1>1. End(w) /\ UNCHANGED dialect
  BY DEF Commit, deployment
<1>2. log' \in Seq(Envs) /\ \A k \in Keys : Stories(k)'
  <2>1. CASE \E o : Performed(o)
    BY <2>1, PerformedTells
  <2>2. CASE UNCHANGED <<row, run, log, silent>>
    <3>1. ASSUME NEW k \in Keys PROVE Stories(k)'
      BY <2>2 DEF TrailInv, Stories, RowStory, RunStory, Unheard, Heard, Trail, Rejections, Ledger!IsTerminal
    <3>. QED BY <2>2, <3>1 DEF TrailInv
  <2>. QED BY <2>1, <2>2, CommitIsOneStep
<1>3. ASSUME NEW v \in Writers \ {w}, tx[v].hit
      PROVE  /\ Lock(tx[v].op) = RowLock(tx[v].op.key) =>
                    row'[tx[v].op.key] = row[tx[v].op.key]
             /\ Lock(tx[v].op) = RunLock(tx[v].op.key) =>
                    run'[tx[v].op.key] = run[tx[v].op.key]
  <2>1. tx[w].hit => Lock(tx[v].op) # Lock(tx[w].op)
    BY <1>3, DifferentRows
  <2>2. /\ row' = IF tx[w].hit /\ Lock(tx[w].op) = RowLock(tx[w].op.key)
                  THEN [row EXCEPT ![tx[w].op.key] = tx[w].put] ELSE row
        /\ run' = IF tx[w].hit /\ Lock(tx[w].op) = RunLock(tx[w].op.key)
                  THEN [run EXCEPT ![tx[w].op.key] = tx[w].op.to] ELSE run
    BY DEF Commit
  <2>3. tx[v].op.key # tx[w].op.key \/ ~tx[w].hit \/
           /\ Lock(tx[v].op) = RowLock(tx[v].op.key) => Lock(tx[w].op) # RowLock(tx[w].op.key)
           /\ Lock(tx[v].op) = RunLock(tx[v].op.key) => Lock(tx[w].op) # RunLock(tx[w].op.key)
    BY <2>1
  <2>. QED BY <2>2, <2>3 DEF StoreInv, Shapes
<1>. QED BY <1>1, <1>2, <1>3, EndTells

LEMMA GrowStaleTells ==
    ASSUME StoreInv, TrailInv, NEW k \in Keys, GrowStale(k)
    PROVE  TrailInv'
<1>1. /\ UNCHANGED <<dialect, run, log, silent, owner, tx>>
      /\ row' = [row EXCEPT ![k].stale = TRUE]
      /\ \A w \in Writers : ~(tx[w].hit /\ tx[w].op.key = k)
  BY DEF GrowStale, deployment
<1>2. /\ \A j \in Keys : row'[j].state = row[j].state
      /\ \A j \in Keys : j # k => row'[j] = row[j]
  BY <1>1 DEF StoreInv, Shapes, Rows
<1>3. ASSUME NEW j \in Keys PROVE Stories(j)'
  BY <1>1, <1>2, AsBefore DEF TrailInv, Quiet, AsSilent
<1>4. ASSUME NEW v \in Writers PROVE Guarding(v)'
  <2>1. tx[v].hit => tx[v].op.key \in Keys /\ tx[v].op.key # k
    BY <1>1, OperationShape DEF StoreInv, About
  <2>. QED BY <1>1, <1>2, <2>1, StillGuarded DEF TrailInv
<1>5. ASSUME NEW v \in Writers PROVE Writing(tx[v])'
  <2>1. Writing(tx'[v])
    BY <1>1 DEF TrailInv
  <2>. QED BY <2>1 DEF Writing
<1>. QED BY <1>1, <1>3, <1>4, <1>5 DEF TrailInv

\* The verification pass, damage and genesis.
LEMMA AsideTells ==
    ASSUME StoreInv, TrailInv, UNCHANGED <<dialect, row, run, log, silent, owner, tx>>
    PROVE  TrailInv'
<1>1. ASSUME NEW j \in Keys PROVE Stories(j)'
  BY DEF TrailInv, Stories, RowStory, RunStory, Unheard, Heard, Trail, Rejections, Ledger!IsTerminal
<1>2. ASSUME NEW v \in Writers PROVE Guarding(v)'
  BY StillGuarded DEF TrailInv
<1>3. ASSUME NEW v \in Writers PROVE Writing(tx[v])'
  <2>1. Writing(tx'[v])
    BY DEF TrailInv
  <2>. QED BY <2>1 DEF Writing
<1>. QED BY <1>1, <1>2, <1>3 DEF TrailInv

LEMMA TrailStepKeeps == StoreInv /\ TrailInv /\ [Next]_vars => TrailInv'
<1>. SUFFICES ASSUME StoreInv, TrailInv, [Next]_vars PROVE TrailInv'
  OBVIOUS
<1>1. ASSUME NEW w \in Writers, NEW k \in Keys, NEW o \in Operations(k), Begin(w, o)
      PROVE  TrailInv'
  BY <1>1, BeginTells DEF Asked
<1>2. ASSUME NEW w \in Writers, StoreStep(w) PROVE TrailInv'
  BY <1>2, StatementHitsTells, OtherStepTells, AppendAuditTells, CommitTells DEF StoreStep
<1>3. ASSUME NEW w \in Writers,
             Rollback(w) \/ Scan(w, StaleRows) \/ Scan(w, SweptRuns)
      PROVE  TrailInv'
  BY <1>3, RollbackTells, ScanTells
<1>4. ASSUME NEW k \in Keys, GrowStale(k) PROVE TrailInv'
  BY <1>4, GrowStaleTells
<1>5. CASE SeedGenesis \/ Verify \/ Damage \/ UNCHANGED vars
  BY <1>5, AsideTells DEF SeedGenesis, Verify, StartVerify, Stream, ReadHead, Report, Damage,
     vars, storeVars, deployment, data
<1>. QED BY <1>1, <1>2, <1>3, <1>4, <1>5 DEF Next, StoreNext

-----------------------------------------------------------------------------
(* The stores implement the ledger.                                        *)

\* The event a finalize passes, if it does.
Passed(o) ==
    IF o.audited THEN <<[type |-> "action_event", outcome |-> o.to]>> ELSE <<>>

\* An operation of the ledger is one of its steps.
LEMMA ServiceSteps ==
    ASSUME StoreInv, NEW o, Performed(o), o.name \in {"claim", "mark", "bump", "finalize"},
           o.name # "finalize" => UNCHANGED TerminalEvents,
           o.name = "finalize" =>
                TerminalEvents' = [TerminalEvents EXCEPT ![o.key] = @ \o Passed(o)]
    PROVE  Service!LedgerStep
<1>1. /\ o.key \in Keys /\ Matches(o)
      /\ row' = [row EXCEPT ![o.key] = Written(o, row[o.key])]
      /\ row \in [Keys -> Rows]
  BY OperationShape, LockShape DEF Performed, StoreInv, Shapes
<1>2. PICK k \in Keys : k = o.key
  BY <1>1
<1>3. PICK r \in Rows : r = row[k]
  BY <1>1, <1>2
<1>4. r = [state |-> r.state, attempts |-> r.attempts, stale |-> r.stale] /\ r.attempts \in Nat
  BY DEF Rows
<1>5. CASE o.name = "claim"
  <2>1. Service!InsertClaim(k)
    BY <1>1, <1>2, <1>5 DEF Matches, Written, Ledger!Unclaimed, Service!InsertClaim, Service!Unclaimed
  <2>. QED BY <2>1 DEF Service!LedgerStep
<1>6. CASE o.name = "mark"
  <2>1. o.epoch \in 1..MaxEpoch
    BY <1>6, OperationShape DEF Performed
  <2>2. row[k].state = "pending" /\ row[k].attempts = o.epoch
    BY <1>1, <1>2, <1>6 DEF Matches, Ledger!MarkMatches
  <2>3. o.epoch \in 1..row[k].attempts
    BY <2>1, <2>2, StoreAssumption
  <2>4. row' = [row EXCEPT ![k].state = "executing", ![k].stale = FALSE]
    BY <1>1, <1>2, <1>6 DEF Written
  <2>5. Service!MarkExecuting(k, o.epoch)
    BY <1>6, <2>2, <2>4 DEF Service!MarkExecuting, Service!MarkMatches
  <2>. QED BY <2>3, <2>5 DEF Service!LedgerStep
<1>7. CASE o.name = "bump"
  <2>1. row' = [row EXCEPT ![k].attempts = @ + 1, ![k].stale = FALSE]
    BY <1>1, <1>2, <1>7 DEF Written
  <2>2. Service!BumpEpoch(k)
    BY <1>1, <1>2, <1>7, <2>1 DEF Matches, Ledger!BumpMatches, Ledger!IsInFlight, Ledger!InFlight,
       Service!BumpEpoch, Service!BumpMatches, Service!IsInFlight, Service!InFlight
  <2>. QED BY <2>2 DEF Service!LedgerStep
<1>8. CASE o.name = "finalize"
  <2>1. o.epoch \in 1..MaxEpoch /\ o.to \in Outcomes
    BY <1>8, OperationShape DEF Performed
  <2>2. o.to \in Service!Terminal
    BY <2>1, StoreAssumption DEF Ledger!Terminal, Service!Terminal
  <2>3. row[k].attempts = o.epoch /\ Service!FinalizeMatches(k, o.epoch, o.to)
    BY <1>1, <1>2, <1>8 DEF Matches, Ledger!FinalizeMatches, Ledger!FinalizeFrom, Ledger!InFlight,
       Service!FinalizeMatches, Service!FinalizeFrom, Service!InFlight
  <2>4. o.epoch \in 1..row[k].attempts
    BY <2>1, <2>3, StoreAssumption
  <2>5. row' = [row EXCEPT ![k].state = o.to]
    BY <1>1, <1>2, <1>8 DEF Written
  <2>6. Service!Finalize(k, o.epoch, o.to, Passed(o))
    BY <1>2, <1>8, <2>3, <2>5 DEF Service!Finalize
  <2>7. \/ Passed(o) = <<>>
        \/ "action_event" \in Service!EventTypes
           /\ Passed(o) = <<Service!Event("action_event", o.to)>>
    BY DEF Passed, Service!Event, Service!EventTypes
  <2>. QED BY <2>2, <2>4, <2>6, <2>7 DEF Service!LedgerStep
<1>. QED BY <1>5, <1>6, <1>7, <1>8

LEMMA PerformedIsService ==
    ASSUME StoreInv, TrailInv, NEW o, Performed(o)
    PROVE  [Service!LedgerStep]_<<row, TerminalEvents>>
<1>1. CASE o.name \in {"claim", "mark", "bump"}
  <2>1. UNCHANGED TerminalEvents
    BY <1>1, QuietOperation DEF TerminalEvents
  <2>. QED BY <1>1, <2>1, ServiceSteps
<1>2. CASE o.name = "finalize"
  <2>1. /\ \A k \in Keys : k # o.key => Quiet(log, log', "row", k)
        /\ Said(log, "row", o.key) = <<>>
        /\ Said(log', "row", o.key) = IF o.audited THEN <<o.to>> ELSE <<>>
    BY <1>2, FinalizeTells
  <2>3. o.key \in Keys
    BY OperationShape DEF Performed
  <2>4. TerminalEvents[o.key] = <<>>
    BY <2>1, <2>3 DEF TerminalEvents
  <2>5. TerminalEvents'[o.key] = Passed(o)
    <3>1. CASE o.audited
      <4>1. PICK said : said = Said(log', "row", o.key)
        OBVIOUS
      <4>2. said = <<o.to>>
        BY <2>1, <3>1, <4>1
      <4>3. [i \in DOMAIN said |-> [type |-> "action_event", outcome |-> said[i]]] = Passed(o)
        BY <3>1, <4>2 DEF Passed
      <4>. QED BY <2>3, <4>1, <4>3 DEF TerminalEvents
    <3>2. CASE ~o.audited
      BY <2>1, <2>3, <3>2 DEF TerminalEvents, Passed
    <3>. QED BY <3>1, <3>2
  <2>6. \A k \in Keys : k # o.key => TerminalEvents'[k] = TerminalEvents[k]
    BY <2>1 DEF Quiet, TerminalEvents
  <2>7. Passed(o) = <<>> \o Passed(o)
    BY ConcatEmptySeq DEF Passed
  <2>2. TerminalEvents' = [TerminalEvents EXCEPT ![o.key] = @ \o Passed(o)]
    BY <2>3, <2>4, <2>5, <2>6, <2>7 DEF TerminalEvents
  <2>. QED BY <1>2, <2>2, ServiceSteps
<1>3. CASE o.name \in {"append", "save", "transition"}
  <2>1. \A k \in Keys : Quiet(log, log', "row", k)
    BY <1>3, MirrorTells, RunTells, RejectionTells
  <2>2. UNCHANGED TerminalEvents
    BY <2>1 DEF Quiet, TerminalEvents
  <2>3. row' = row
    BY <1>3, MirrorTells, Changed
  <2>. QED BY <2>2, <2>3
<1>4. o.name \in {"claim", "save", "bump", "append", "mark", "finalize", "transition"}
  BY OperationShape DEF Performed
<1>. QED BY <1>1, <1>2, <1>3, <1>4

LEMMA StepIsService ==
    StoreInv /\ TrailInv /\ [Next]_vars => [Service!LedgerStep]_<<row, TerminalEvents>>
<1>. SUFFICES ASSUME StoreInv, TrailInv, [Next]_vars
              PROVE  [Service!LedgerStep]_<<row, TerminalEvents>>
  OBVIOUS
<1>1. CASE UNCHANGED <<row, log>>
  BY <1>1 DEF TerminalEvents
<1>2. ASSUME NEW w \in Writers, Commit(w)
      PROVE  [Service!LedgerStep]_<<row, TerminalEvents>>
  BY <1>1, <1>2, CommitIsOneStep, PerformedIsService
<1>3. ASSUME NEW k \in Keys, GrowStale(k)
      PROVE  [Service!LedgerStep]_<<row, TerminalEvents>>
  <2>1. UNCHANGED TerminalEvents
    BY <1>3 DEF GrowStale, TerminalEvents
  <2>2. Service!GrowStale(k)
    BY <1>3, <2>1 DEF GrowStale, Ledger!IsInFlight, Ledger!InFlight,
       Service!GrowStale, Service!IsInFlight, Service!InFlight
  <2>. QED BY <2>2 DEF Service!LedgerStep
<1>4. CASE ~(UNCHANGED <<row, log>>)
  BY <1>2, <1>3, <1>4 DEF Next, StoreNext, StoreStep, Begin, StatementHits, StatementMisses, ReadBack,
     AppendAudit, Rollback, Scan, SeedGenesis, Verify, StartVerify, Stream, ReadHead, Report, Damage,
     vars, storeVars, data
<1>. QED BY <1>1, <1>4

-----------------------------------------------------------------------------
(* What follows, of the trail.                                             *)

\* What is written, appended and told, in every run.
THEOREM TrailInvariant == Spec => []TrailInv
BY TrailInitial, TrailStepKeeps, StoreInvariant, PTL DEF Spec

\* For any number of keys and threads, on either store, whatever rolled back or
\* was lost, and whichever operations were called without an audit event: the
\* events of a row or run are those passed for the changes it went through,
\* and a rejection's own event comes with the closing of the run.
THEOREM TrailsAgree == Spec => []TrailMatchesTables
<1>1. TrailInv => TrailMatchesTables
  BY DEF TrailInv, Stories, TrailMatchesTables
<1>. QED BY <1>1, TrailInvariant, PTL

\* The transactions of either store, statement by statement, implement the
\* ledger whose operations are single steps, which the commit path builds on.
THEOREM StoresImplementLedger == Spec => ImplementsLedgerService
<1>1. Init => Service!LedgerInit
  <2>. SUFFICES ASSUME Init PROVE Service!LedgerInit
    OBVIOUS
  <2>2. log = <<>> /\ row = [k \in Keys |-> Ledger!NoRow]
    BY DEF Init, StoreInit
  <2>3. TerminalEvents = [k \in Keys |-> <<>>]
    BY <2>2, SaidOfNone DEF TerminalEvents
  <2>. QED BY <2>2, <2>3 DEF Service!LedgerInit, Service!NoRow, Ledger!NoRow
<1>. QED BY <1>1, StepIsService, StoreInvariant, TrailInvariant, PTL
     DEF Spec, ImplementsLedgerService, Service!Spec
=============================================================================

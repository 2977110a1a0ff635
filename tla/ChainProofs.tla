---------------------------- MODULE ChainProofs ----------------------------
(***************************************************************************)
(* The audit chain for any number of threads, keys and appends: rows that  *)
(* different transactions append never fork or skip, on either store.      *)
(***************************************************************************)
EXTENDS StoreProofs

Hashes == Seq(Nat \X Envs)
AuditRows == [seq : Nat, env : Envs, prev : Hashes, hash : Hashes]

\* Genuine, over any sequence of envelopes and not only over log.
GenuineIn(envs, n) ==
    [seq |-> n, hash |-> [i \in 1..n + 1 |->
        <<i - 1, IF i = 1 THEN GenesisEnv ELSE envs[i - 1]>>]]

Linked(envs, r, n) == r \in AuditRows /\ HeadOf(r) = GenuineIn(envs, n) /\ Recomputes(r)

\* What the log will be once w has committed.
LogWith(t) == log \o [i \in DOMAIN t.new |-> t.new[i].env]

\* The one lock under which the chain grows, and who must hold it.
ChainLock == IF dialect = "sqlite" THEN FileLock ELSE HeadLock
Appending(t) == IF dialect = "sqlite" THEN t.step # "idle" ELSE t.new # <<>>

\* What a transaction has appended and not committed continues the chain.
Adding(t) ==
    /\ t.new \in Seq(AuditRows)
    /\ t.step \in {"idle", "statement", "readback"} => t.new = <<>>
    /\ t.step = "audit" => Asked(t.op) /\ Len(t.new) < Len(AuditOf(t.op))
    /\ \A i \in 1..Len(t.new) : Linked(LogWith(t), t.new[i], Len(log) + i)

Committed ==
    /\ log \in Seq(Envs)
    /\ events \in Seq(AuditRows)
    /\ Len(events) = Len(log) + 1
    /\ \A i \in 1..Len(events) : Linked(log, events[i], i - 1)
    /\ head = HeadOf(events[Len(events)])

LinkInv ==
    /\ Committed
    /\ \A w \in Writers : Adding(tx[w])
    /\ \A w \in Writers : Appending(tx[w]) => owner[ChainLock] = w

ChainInv == damage = "none" => LinkInv

-----------------------------------------------------------------------------
(* Hashes and links.                                                       *)

LEMMA GenesisShape == GenesisEnv \in Envs
BY DEF GenesisEnv, Envs, Tables, Whats

\* The hash of position n depends on the envelopes up to n.
LEMMA SamePrefix ==
    ASSUME NEW l, NEW m, NEW n \in Nat, \A i \in 1..n : m[i] = l[i]
    PROVE  GenuineIn(m, n) = GenuineIn(l, n)
<1>1. ASSUME NEW i \in 1..n + 1
      PROVE  (IF i = 1 THEN GenesisEnv ELSE m[i - 1]) = (IF i = 1 THEN GenesisEnv ELSE l[i - 1])
  <2>1. i # 1 => i - 1 \in 1..n
    OBVIOUS
  <2>. QED BY <2>1
<1>. QED BY <1>1 DEF GenuineIn

LEMMA SameHash ==
    ASSUME NEW a \in Hashes, NEW b \in Hashes, NEW n \in Nat,
           Len(a) = n, Len(b) = n, \A i \in 1..n : a[i] = b[i]
    PROVE  a = b
<1>1. a \in Seq(Nat \X Envs) /\ b \in Seq(Nat \X Envs)
  BY DEF Hashes
<1>2. Len(a) = Len(b) /\ \A i \in 1..Len(a) : a[i] = b[i]
  OBVIOUS
<1>. QED BY <1>1, <1>2, SeqEqual

LEMMA GenuineShape ==
    ASSUME NEW l \in Seq(Envs), NEW n \in 0..Len(l)
    PROVE  GenuineIn(l, n) \in [seq : Nat, hash : Hashes] /\ Len(GenuineIn(l, n).hash) = n + 1
<1>. DEFINE h == [i \in 1..n + 1 |-> <<i - 1, IF i = 1 THEN GenesisEnv ELSE l[i - 1]>>]
<1>1. ASSUME NEW i \in 1..n + 1 PROVE h[i] \in Nat \X Envs
  <2>1. i # 1 => l[i - 1] \in Envs
    BY ElementOfSeq
  <2>. QED BY <2>1, GenesisShape
<1>2. h \in [1..n + 1 -> Nat \X Envs]
  BY <1>1
<1>3. h \in Hashes /\ Len(h) = n + 1
  BY <1>2, IsASeq DEF Hashes
<1>. QED BY <1>3 DEF GenuineIn

\* _append_audit_on: the row made of the right head is the right row.
LEMMA NextIsLinked ==
    ASSUME NEW l \in Seq(Envs), NEW e \in Envs
    PROVE  Linked(Append(l, e), NextRow(GenuineIn(l, Len(l)), e), Len(l) + 1)
<1>1. PICK n \in Nat : n = Len(l)
  BY LenProperties
<1>2. PICK h : h = GenuineIn(l, n).hash
  OBVIOUS
<1>3. PICK m : m = Append(l, e)
  OBVIOUS
<1>4. PICK r : r = NextRow(GenuineIn(l, n), e)
  OBVIOUS
<1>5. /\ h \in Hashes /\ Len(h) = n + 1
      /\ \A i \in 1..n + 1 : h[i] = <<i - 1, IF i = 1 THEN GenesisEnv ELSE l[i - 1]>>
  BY <1>1, <1>2, GenuineShape DEF GenuineIn
<1>6. /\ m \in Seq(Envs) /\ Len(m) = n + 1 /\ m[n + 1] = e
      /\ \A i \in 1..n : m[i] = l[i]
  BY <1>1, <1>3, AppendProperties
<1>7. r = [seq |-> n + 1, env |-> e, prev |-> h, hash |-> Append(h, <<n + 1, e>>)]
  BY <1>2, <1>4 DEF NextRow, Row, RowHash, GenuineIn
<1>8. PICK g : g = GenuineIn(m, n + 1).hash
  OBVIOUS
<1>9. /\ g \in Hashes /\ Len(g) = n + 2
      /\ \A i \in 1..n + 2 : g[i] = <<i - 1, IF i = 1 THEN GenesisEnv ELSE m[i - 1]>>
  BY <1>1, <1>6, <1>8, GenuineShape DEF GenuineIn
<1>10. PICK a : a = Append(h, <<n + 1, e>>)
  OBVIOUS
<1>11. /\ a \in Hashes /\ Len(a) = n + 2 /\ a[n + 2] = <<n + 1, e>>
       /\ \A i \in 1..n + 1 : a[i] = h[i]
  <2>1. <<n + 1, e>> \in Nat \X Envs
    OBVIOUS
  <2>. QED BY <1>5, <1>10, <2>1, AppendProperties DEF Hashes
<1>12. ASSUME NEW i \in 1..n + 2 PROVE a[i] = g[i]
  <2>1. CASE i = n + 2
    <3>1. n + 2 # 1 /\ n + 2 - 1 = n + 1 /\ n + 2 \in 1..n + 2
      OBVIOUS
    <3>2. g[n + 2] = <<n + 1, m[n + 1]>>
      BY <1>9, <3>1
    <3>. QED BY <1>6, <1>11, <2>1, <3>2
  <2>2. CASE i \in 1..n + 1
    <3>1. i # 1 => i - 1 \in 1..n
      BY <2>2
    <3>2. (IF i = 1 THEN GenesisEnv ELSE m[i - 1]) = (IF i = 1 THEN GenesisEnv ELSE l[i - 1])
      BY <1>6, <3>1
    <3>3. g[i] = <<i - 1, IF i = 1 THEN GenesisEnv ELSE m[i - 1]>>
      BY <1>9
    <3>4. a[i] = <<i - 1, IF i = 1 THEN GenesisEnv ELSE l[i - 1]>>
      BY <1>5, <1>11, <2>2
    <3>. QED BY <3>2, <3>3, <3>4
  <2>. QED BY <2>1, <2>2
<1>13. a = g
  <2>1. PICK k \in Nat : k = n + 2
    OBVIOUS
  <2>2. Len(a) = k /\ Len(g) = k /\ \A i \in 1..k : a[i] = g[i]
    BY <1>9, <1>11, <1>12, <2>1
  <2>. QED BY <1>9, <1>11, <2>2, SameHash
<1>14. r \in AuditRows
  BY <1>5, <1>7, <1>10, <1>11 DEF AuditRows
<1>15. HeadOf(r) = GenuineIn(m, n + 1)
  BY <1>7, <1>8, <1>10, <1>13 DEF HeadOf, GenuineIn
<1>16. Recomputes(r)
  BY <1>7 DEF Recomputes, RowHash
<1>. QED BY <1>1, <1>3, <1>4, <1>14, <1>15, <1>16 DEF Linked

\* A row stays linked as envelopes are added behind it.
LEMMA StaysLinked ==
    ASSUME NEW l, NEW m, NEW r, NEW n \in Nat, Linked(l, r, n), \A i \in 1..n : m[i] = l[i]
    PROVE  Linked(m, r, n)
BY SamePrefix DEF Linked

-----------------------------------------------------------------------------
(* What one transaction has appended.                                      *)

LEMMA LogWithShape ==
    ASSUME NEW t, log \in Seq(Envs), t.new \in Seq(AuditRows)
    PROVE  /\ LogWith(t) \in Seq(Envs)
           /\ Len(LogWith(t)) = Len(log) + Len(t.new)
           /\ \A i \in 1..Len(log) : LogWith(t)[i] = log[i]
           /\ \A i \in 1..Len(t.new) : LogWith(t)[Len(log) + i] = t.new[i].env
           /\ t.new = <<>> => LogWith(t) = log
<1>1. PICK n \in Nat : n = Len(t.new) /\ DOMAIN t.new = 1..n
  BY LenProperties
<1>2. ASSUME NEW i \in 1..n PROVE t.new[i].env \in Envs
  <2>1. t.new[i] \in AuditRows
    BY <1>1, ElementOfSeq
  <2>. QED BY <2>1 DEF AuditRows
<1>3. PICK e : e = [i \in DOMAIN t.new |-> t.new[i].env]
  OBVIOUS
<1>4. e \in Seq(Envs) /\ Len(e) = n /\ \A i \in 1..n : e[i] = t.new[i].env
  <2>1. e \in [1..n -> Envs]
    BY <1>1, <1>2, <1>3
  <2>. QED BY <1>1, <1>3, <2>1, IsASeq
<1>5. LogWith(t) = log \o e
  BY <1>3 DEF LogWith
<1>6. n = 0 => e = <<>>
  BY <1>4, EmptySeq
<1>7. PICK c \in Nat : c = Len(log)
  BY LenProperties
<1>8. PICK m : m = log \o e
  OBVIOUS
<1>9. /\ m \in Seq(Envs) /\ Len(m) = c + n
      /\ \A i \in 1..c + n : m[i] = IF i <= c THEN log[i] ELSE e[i - c]
  BY <1>4, <1>7, <1>8, ConcatProperties
<1>10. \A i \in 1..c : m[i] = log[i]
  BY <1>9
<1>11. ASSUME NEW i \in 1..n PROVE m[c + i] = t.new[i].env
  <2>1. c + i \in 1..c + n /\ ~(c + i <= c) /\ c + i - c = i
    OBVIOUS
  <2>. QED BY <1>4, <1>9, <2>1
<1>12. t.new = <<>> => m = log
  BY <1>1, <1>6, <1>8, ConcatEmptySeq
<1>. QED BY <1>1, <1>5, <1>7, <1>8, <1>9, <1>10, <1>11, <1>12

\* Before the next append the chain ends, for w, in the right head.
LEMMA HeadIsGenuine ==
    ASSUME LinkInv, NEW w \in Writers
    PROVE  HeadSeen(w) = GenuineIn(LogWith(tx[w]), Len(LogWith(tx[w])))
<1>. DEFINE t == tx[w]
<1>1. Committed /\ Adding(t)
  BY DEF LinkInv
<1>2. PICK n \in Nat : n = Len(t.new)
  BY <1>1, LenProperties DEF Adding
<1>3. Len(log) \in Nat /\ Len(events) = Len(log) + 1
  BY <1>1, LenProperties DEF Committed
<1>4. CASE t.new = <<>>
  <2>1. LogWith(t) = log
    BY <1>1, <1>4, LogWithShape DEF Committed, Adding
  <2>2. Linked(log, events[Len(events)], Len(events) - 1)
    BY <1>1, <1>3 DEF Committed
  <2>3. head = GenuineIn(log, Len(log))
    BY <1>1, <1>3, <2>2 DEF Committed, Linked
  <2>. QED BY <1>4, <2>1, <2>3 DEF HeadSeen
<1>5. CASE t.new # <<>>
  <2>1. n \in 1..n
    BY <1>1, <1>2, <1>5, EmptySeq DEF Adding
  <2>2. Linked(LogWith(t), t.new[n], Len(log) + n)
    BY <1>1, <1>2, <2>1 DEF Adding
  <2>3. Len(LogWith(t)) = Len(log) + n
    BY <1>1, <1>2, LogWithShape DEF Committed, Adding
  <2>. QED BY <1>2, <1>5, <2>2, <2>3 DEF HeadSeen, Linked
<1>. QED BY <1>4, <1>5

\* _append_audit_on, for a transaction that has more to append.
LEMMA AddingOne ==
    ASSUME LinkInv, NEW w \in Writers, NEW t, NEW e \in Envs,
           t.new = Append(tx[w].new, NextRow(HeadSeen(w), e))
    PROVE  /\ t.new \in Seq(AuditRows)
           /\ Len(t.new) = Len(tx[w].new) + 1
           /\ \A i \in 1..Len(t.new) : Linked(LogWith(t), t.new[i], Len(log) + i)
<1>1. PICK l : l = LogWith(tx[w])
  OBVIOUS
<1>2. PICK r : r = NextRow(HeadSeen(w), e)
  OBVIOUS
<1>3. PICK n \in Nat, c \in Nat : n = Len(tx[w].new) /\ c = Len(log)
  BY LenProperties DEF LinkInv, Committed, Adding
<1>4. /\ log \in Seq(Envs) /\ tx[w].new \in Seq(AuditRows)
      /\ \A i \in 1..n : Linked(l, tx[w].new[i], c + i)
  BY <1>1, <1>3 DEF LinkInv, Committed, Adding
<1>5. /\ l \in Seq(Envs) /\ Len(l) = c + n
      /\ \A i \in 1..c : l[i] = log[i]
      /\ \A i \in 1..n : l[c + i] = tx[w].new[i].env
  BY <1>1, <1>3, <1>4, LogWithShape
<1>6. Linked(Append(l, e), r, c + n + 1)
  BY <1>1, <1>2, <1>5, HeadIsGenuine, NextIsLinked
<1>7. r \in AuditRows /\ r.env = e
  BY <1>2, <1>6 DEF Linked, NextRow, Row
<1>8. /\ t.new \in Seq(AuditRows) /\ Len(t.new) = n + 1 /\ t.new[n + 1] = r
      /\ \A i \in 1..n : t.new[i] = tx[w].new[i]
  BY <1>2, <1>3, <1>4, <1>7, AppendProperties
<1>9. PICK m : m = LogWith(t)
  OBVIOUS
<1>10. /\ m \in Seq(Envs) /\ Len(m) = c + n + 1
       /\ \A i \in 1..c : m[i] = log[i]
       /\ \A i \in 1..n + 1 : m[c + i] = t.new[i].env
  <2>1. c + (n + 1) = c + n + 1
    OBVIOUS
  <2>2. /\ m \in Seq(Envs) /\ Len(m) = c + (n + 1)
        /\ \A i \in 1..c : m[i] = log[i]
        /\ \A i \in 1..n + 1 : m[c + i] = t.new[i].env
    BY <1>3, <1>4, <1>8, <1>9, LogWithShape
  <2>. QED BY <2>1, <2>2
<1>11. ASSUME NEW i \in 1..c + n PROVE m[i] = l[i]
  <2>1. CASE i \in 1..c
    BY <1>5, <1>10, <2>1
  <2>2. CASE i \notin 1..c
    <3>1. PICK j \in 1..n : i = c + j
      <4>1. i - c \in 1..n /\ i = c + (i - c)
        BY <2>2
      <4>. QED BY <4>1
    <3>2. j \in 1..n + 1
      OBVIOUS
    <3>. QED BY <1>5, <1>8, <1>10, <3>1, <3>2
  <2>. QED BY <2>1, <2>2
<1>12. m[c + n + 1] = e
  <2>1. n + 1 \in 1..n + 1 /\ c + (n + 1) = c + n + 1
    OBVIOUS
  <2>. QED BY <1>7, <1>8, <1>10, <2>1
<1>13. PICK a : a = Append(l, e)
  OBVIOUS
<1>14. /\ a \in Seq(Envs) /\ Len(a) = c + n + 1 /\ a[c + n + 1] = e
       /\ \A i \in 1..c + n : a[i] = l[i]
  BY <1>5, <1>13, AppendProperties
<1>15. \A i \in 1..c + n + 1 : m[i] = a[i]
  <2>1. \A i \in 1..c + n + 1 : i = c + n + 1 \/ i \in 1..c + n
    OBVIOUS
  <2>. QED BY <1>11, <1>12, <1>14, <2>1
<1>16. m = a
  BY <1>10, <1>14, <1>15, SeqEqual
<1>17. ASSUME NEW i \in 1..n + 1 PROVE Linked(m, t.new[i], c + i)
  <2>1. CASE i = n + 1
    <3>1. c + i = c + n + 1
      BY <2>1
    <3>. QED BY <1>6, <1>8, <1>13, <1>16, <2>1, <3>1
  <2>2. CASE i \in 1..n
    <3>1. c + i \in Nat /\ \A j \in 1..c + i : j \in 1..c + n
      BY <2>2
    <3>2. Linked(l, tx[w].new[i], c + i)
      BY <1>4, <2>2
    <3>. QED BY <1>8, <1>11, <2>2, <3>1, <3>2, StaysLinked
  <2>3. i = n + 1 \/ i \in 1..n
    OBVIOUS
  <2>. QED BY <2>1, <2>2, <2>3
<1>. QED BY <1>3, <1>8, <1>9, <1>17

-----------------------------------------------------------------------------
(* The steps of a transaction.                                             *)

LEMMA ChainLockShape == ChainLock \in Locks /\ HeadLock # FileLock
BY DEF ChainLock, Locks, HeadLock, FileLock

LEMMA NothingAdded ==
    ASSUME NEW t, t.new = <<>>,
           t.step = "audit" => Asked(t.op) /\ AuditOf(t.op) # <<>>
    PROVE  Adding(t)
<1>1. <<>> \in Seq(AuditRows) /\ Len(<<>>) = 0
  BY EmptySeq
<1>2. t.step = "audit" => 0 < Len(AuditOf(t.op))
  <2>1. SUFFICES ASSUME t.step = "audit" PROVE 0 < Len(AuditOf(t.op))
    OBVIOUS
  <2>2. AuditOf(t.op) \in Seq(Envs) /\ AuditOf(t.op) # <<>>
    BY <2>1, AuditShape
  <2>. QED BY <2>2, EmptySeq, LenProperties
<1>. QED BY <1>1, <1>2 DEF Adding

\* A step that moves one transaction and leaves the chain and the others' locks.
LEMMA ChainMoves ==
    ASSUME StoreInv, LinkInv, NEW w \in Writers, NEW t,
           tx' = [tx EXCEPT ![w] = t],
           Adding(t),
           Appending(t) => owner'[ChainLock] = w,
           \A v \in Writers \ {w} : owner[ChainLock] = v => owner'[ChainLock] = v,
           UNCHANGED <<dialect, events, head, log>>
    PROVE  LinkInv'
<1>1. tx'[w] = t /\ \A v \in Writers \ {w} : tx'[v] = tx[v]
  BY DEF StoreInv, Shapes
<1>2. ChainLock' = ChainLock
  BY DEF ChainLock, FileLock, HeadLock
<1>3. Committed'
  BY DEF LinkInv, Committed, Linked, GenuineIn
<1>4. ASSUME NEW v \in Writers PROVE Adding(tx[v])'
  <2>1. Adding(tx'[v])
    BY <1>1 DEF LinkInv
  <2>. QED BY <2>1 DEF Adding, LogWith
<1>5. ASSUME NEW v \in Writers PROVE (Appending(tx[v]) => owner[ChainLock] = v)'
  <2>1. Appending(tx'[v]) => owner'[ChainLock] = v
    BY <1>1 DEF LinkInv
  <2>. QED BY <1>2, <2>1 DEF Appending
<1>. QED BY <1>3, <1>4, <1>5 DEF LinkInv

LEMMA BeginLinks ==
    ASSUME StoreInv, LinkInv, NEW w \in Writers, NEW o, Asked(o), Begin(w, o)
    PROVE  LinkInv'
<1>. DEFINE t == [Idle EXCEPT !.step = FirstStep(o), !.op = o]
<1>1. t.step = FirstStep(o) /\ t.op = o /\ t.new = <<>>
  BY DEF Idle
<1>2. t.step = "audit" => AuditOf(o) # <<>>
  <2>1. SUFFICES ASSUME o.name = "append" PROVE AuditOf(o) # <<>>
    BY <1>1 DEF FirstStep
  <2>. QED BY <2>1, AuditShape
<1>3. Adding(t)
  BY <1>1, <1>2, NothingAdded
<1>4. tx' = [tx EXCEPT ![w] = t] /\ UNCHANGED <<dialect, events, head, log>>
  BY DEF Begin, deployment, data
<1>5. CASE dialect = "sqlite"
  <2>1. owner[ChainLock] = Nobody /\ owner'[ChainLock] = w
    BY <1>5, ChainLockShape DEF Begin, Take, Free, ChainLock
  <2>. QED BY <1>3, <1>4, <2>1, StoreAssumption, ChainMoves
<1>6. CASE dialect # "sqlite"
  <2>1. owner'[ChainLock] = owner[ChainLock]
    BY <1>6, ChainLockShape DEF Begin, Take
  <2>2. ~Appending(t)
    BY <1>1, <1>6 DEF Appending
  <2>. QED BY <1>3, <1>4, <2>1, <2>2, ChainMoves
<1>. QED BY <1>5, <1>6

\* A step under the locks a transaction has, or with the lock of its row.
LEMMA OwnRowOnly ==
    ASSUME StoreInv, LinkInv, NEW w \in Writers, NEW t, NEW ls,
           tx' = [tx EXCEPT ![w] = t],
           Adding(t), t.new = tx[w].new,
           dialect = "sqlite" => tx[w].step # "idle",
           HeadLock \notin ls, dialect = "sqlite" => ls = {},
           owner' = owner \/ Take(w, ls),
           UNCHANGED <<dialect, events, head, log>>
    PROVE  LinkInv'
<1>1. owner'[ChainLock] = owner[ChainLock]
  BY ChainLockShape DEF Take, ChainLock
<1>2. Appending(t) => owner[ChainLock] = w
  BY DEF Appending, LinkInv
<1>. QED BY <1>1, <1>2, ChainMoves

LEMMA StatementHitsLinks ==
    ASSUME StoreInv, LinkInv, NEW w \in Writers, StatementHits(w)
    PROVE  LinkInv'
<1>. DEFINE o == tx[w].op
            t == [tx[w] EXCEPT !.hit = TRUE, !.put = Written(o, row[o.key]),
                               !.step = IF AuditOf(o) = <<>> THEN "commit" ELSE "audit"]
<1>1. tx[w].step = "statement" /\ Asked(o)
  BY DEF StatementHits, In, StoreInv, About
<1>2. tx[w].new = <<>>
  BY <1>1 DEF LinkInv, Adding
<1>3. /\ t.step = IF AuditOf(o) = <<>> THEN "commit" ELSE "audit"
      /\ t.op = o /\ t.new = tx[w].new
  BY DEF StoreInv, Shapes, Shaped
<1>4. Adding(t)
  <2>1. PICK u : u = t
    OBVIOUS
  <2>2. u.step = "audit" => AuditOf(u.op) # <<>> /\ Asked(u.op)
    BY <1>1, <1>3, <2>1
  <2>3. u.new = <<>>
    BY <1>2, <1>3, <2>1
  <2>. QED BY <2>1, <2>2, <2>3, NothingAdded
<1>5. HeadLock \notin Taking(Lock(o)) /\ (dialect = "sqlite" => Taking(Lock(o)) = {})
  BY DEF Taking, Lock, RowLock, RunLock, HeadLock
<1>6. /\ tx' = [tx EXCEPT ![w] = t] /\ Take(w, Taking(Lock(o)))
      /\ UNCHANGED <<dialect, events, head, log>>
  BY DEF StatementHits, deployment, data
<1>. HIDE DEF t
<1>. QED BY <1>1, <1>3, <1>4, <1>5, <1>6, OwnRowOnly

\* A transaction that only goes on, with what it has appended.
LEMMA GoingOnLinks ==
    ASSUME StoreInv, LinkInv, NEW w \in Writers, NEW s,
           s \in {"readback", "commit", "gone"},
           s = "readback" => tx[w].step = "statement",
           GoOn(w, s), NEW ls, owner' = owner \/ Take(w, ls), HeadLock \notin ls,
           dialect = "sqlite" => ls = {} /\ tx[w].step # "idle",
           UNCHANGED <<dialect, events, head, log>>
    PROVE  LinkInv'
<1>. DEFINE t == [tx[w] EXCEPT !.step = s]
<1>1. t.step = s /\ t.op = tx[w].op /\ t.new = tx[w].new
  BY DEF StoreInv, Shapes, Shaped
<1>2. Adding(t)
  BY <1>1 DEF LinkInv, Adding, LogWith
<1>3. tx' = [tx EXCEPT ![w] = t]
  BY DEF GoOn
<1>. HIDE DEF t
<1>. QED BY <1>1, <1>2, <1>3, OwnRowOnly

LEMMA AppendAuditLinks ==
    ASSUME StoreInv, LinkInv, NEW w \in Writers, AppendAudit(w)
    PROVE  LinkInv'
<1>. DEFINE todo == AuditOf(tx[w].op)
            n == Len(tx[w].new)
            t == [tx[w] EXCEPT !.new = Append(tx[w].new, NextRow(HeadSeen(w), todo[n + 1])),
                               !.step = IF n + 1 = Len(todo) THEN "commit" ELSE "audit"]
<1>1. tx[w].step = "audit" /\ Asked(tx[w].op) /\ n < Len(todo) /\ n \in Nat
  BY LenProperties DEF AppendAudit, In, LinkInv, Adding
<1>2. todo \in Seq(Envs) /\ Len(todo) \in Nat
  BY <1>1, AuditShape, LenProperties
<1>3. todo[n + 1] \in Envs
  BY <1>1, <1>2, ElementOfSeq
<1>4. /\ t.step = IF n + 1 = Len(todo) THEN "commit" ELSE "audit"
      /\ t.op = tx[w].op
      /\ t.new = Append(tx[w].new, NextRow(HeadSeen(w), todo[n + 1]))
  BY DEF StoreInv, Shapes, Shaped
<1>5. /\ tx' = [tx EXCEPT ![w] = t] /\ Take(w, Taking(HeadLock)) /\ MayTake(w, HeadLock)
      /\ UNCHANGED <<dialect, events, head, log>>
  BY DEF AppendAudit, deployment, data
<1>. HIDE DEF t
<1>6. /\ t.new \in Seq(AuditRows) /\ Len(t.new) = n + 1
      /\ \A i \in 1..Len(t.new) : Linked(LogWith(t), t.new[i], Len(log) + i)
  BY <1>3, <1>4, AddingOne
<1>7. t.step \in {"audit", "commit"} /\ (t.step = "audit" => n + 1 < Len(todo))
  BY <1>1, <1>2, <1>4
<1>8. Adding(t)
  BY <1>1, <1>4, <1>6, <1>7 DEF Adding
<1>9. CASE dialect = "sqlite"
  <2>1. owner[ChainLock] = w
    BY <1>1, <1>9 DEF LinkInv, Appending
  <2>2. owner'[ChainLock] = owner[ChainLock]
    BY <1>5, <1>9, ChainLockShape DEF Take, Taking
  <2>. QED BY <1>5, <1>8, <2>1, <2>2, ChainMoves
<1>10. CASE dialect # "sqlite"
  <2>1. owner'[ChainLock] = w
    BY <1>5, <1>10, ChainLockShape DEF Take, Taking, ChainLock
  <2>2. owner[ChainLock] \in {w, Nobody}
    BY <1>5, <1>10 DEF MayTake, ChainLock
  <2>. QED BY <1>5, <1>8, <2>1, <2>2, StoreAssumption, ChainMoves
<1>. QED BY <1>9, <1>10

-----------------------------------------------------------------------------
(* The end of a transaction, and what is no transaction.                   *)

\* Two transactions never both have something to bring to the chain.
LEMMA OnlyAppender ==
    ASSUME LinkInv, NEW w \in Writers, NEW v \in Writers, v # w, tx[w].new # <<>>
    PROVE  tx[v].new = <<>>
<1>1. Adding(tx[w]) /\ Adding(tx[v])
  BY DEF LinkInv
<1>2. Appending(tx[w])
  BY <1>1 DEF Appending, Adding
<1>3. ~Appending(tx[v])
  BY <1>2 DEF LinkInv
<1>. QED BY <1>1, <1>3 DEF Appending, Adding

LEMMA EndLinks ==
    ASSUME StoreInv, LinkInv, NEW w \in Writers, End(w), UNCHANGED dialect,
           Committed', log' = log \/ tx[w].new # <<>>
    PROVE  LinkInv'
<1>1. tx'[w] = Idle /\ \A v \in Writers \ {w} : tx'[v] = tx[v]
  BY DEF End, StoreInv, Shapes
<1>2. ChainLock' = ChainLock
  BY DEF ChainLock, FileLock, HeadLock
<1>3. Idle.step = "idle" /\ Idle.new = <<>>
  BY DEF Idle
<1>4. ASSUME NEW v \in Writers, v # w PROVE Adding(tx[v])'
  <2>1. Adding(tx'[v]) /\ tx'[v] = tx[v]
    BY <1>1, <1>4 DEF LinkInv
  <2>2. CASE log' = log
    BY <2>1, <2>2 DEF Adding, LogWith
  <2>3. CASE tx[w].new # <<>>
    <3>1. tx'[v].new = <<>>
      BY <1>4, <2>1, <2>3, OnlyAppender
    <3>2. Len(<<>>) = 0 /\ 1..0 = {}
      BY EmptySeq
    <3>. QED BY <2>1, <3>1, <3>2 DEF Adding, Asked
  <2>. QED BY <2>2, <2>3
<1>5. Adding(tx[w])'
  <2>1. tx'[w].new = <<>> /\ tx'[w].step = "idle"
    BY <1>1, <1>3
  <2>2. <<>> \in Seq(AuditRows) /\ Len(<<>>) = 0 /\ 1..0 = {}
    BY EmptySeq
  <2>. QED BY <2>1, <2>2 DEF Adding
<1>6. ASSUME NEW v \in Writers PROVE (Appending(tx[v]) => owner[ChainLock] = v)'
  <2>1. CASE v = w
    BY <1>1, <1>3, <2>1 DEF Appending
  <2>2. CASE v # w
    <3>1. tx'[v] = tx[v] /\ (Appending(tx[v]) => owner[ChainLock] = v)
      BY <1>1, <2>2 DEF LinkInv
    <3>2. owner[ChainLock] = v => owner'[ChainLock] = v
      BY <2>2, ChainLockShape DEF End, Release
    <3>. QED BY <1>2, <3>1, <3>2 DEF Appending
  <2>. QED BY <2>1, <2>2
<1>. QED BY <1>4, <1>5, <1>6 DEF LinkInv

LEMMA RollbackLinks ==
    ASSUME StoreInv, LinkInv, NEW w \in Writers, Rollback(w)
    PROVE  LinkInv'
<1>1. End(w) /\ UNCHANGED <<dialect, events, head, log>>
  BY DEF Rollback, deployment, data
<1>2. Committed'
  BY <1>1 DEF LinkInv, Committed, Linked, GenuineIn
<1>. QED BY <1>1, <1>2, EndLinks

\* The committed chain and what w appended to it are the chain of the new log.
LEMMA CommitLinks ==
    ASSUME StoreInv, LinkInv, NEW w \in Writers, Commit(w)
    PROVE  LinkInv'
<1>1. PICK new : new = tx[w].new
  OBVIOUS
<1>2. PICK l : l = LogWith(tx[w])
  OBVIOUS
<1>3. /\ End(w) /\ UNCHANGED dialect
      /\ events' = events \o new /\ log' = l /\ head' = HeadSeen(w)
  BY <1>1, <1>2 DEF Commit, deployment, LogWith
<1>4. Committed /\ Adding(tx[w])
  BY DEF LinkInv
<1>5. PICK c \in Nat, n \in Nat : c = Len(log) /\ n = Len(new)
  BY <1>1, <1>4, LenProperties DEF Committed, Adding
<1>6. /\ log \in Seq(Envs) /\ events \in Seq(AuditRows) /\ new \in Seq(AuditRows)
      /\ Len(events) = c + 1
      /\ \A i \in 1..c + 1 : Linked(log, events[i], i - 1)
      /\ \A i \in 1..n : Linked(l, new[i], c + i)
  BY <1>1, <1>2, <1>4, <1>5 DEF Committed, Adding
<1>7. /\ l \in Seq(Envs) /\ Len(l) = c + n
      /\ \A i \in 1..c : l[i] = log[i]
      /\ new = <<>> => l = log
  BY <1>1, <1>2, <1>5, <1>6, LogWithShape
<1>8. PICK e : e = events \o new
  OBVIOUS
<1>9. /\ e \in Seq(AuditRows) /\ Len(e) = c + 1 + n
      /\ \A i \in 1..c + 1 + n : e[i] = IF i <= c + 1 THEN events[i] ELSE new[i - (c + 1)]
  <2>1. PICK d \in Nat : d = c + 1
    OBVIOUS
  <2>2. Len(events) = d /\ Len(new) = n
    BY <1>5, <1>6, <2>1
  <2>3. /\ e \in Seq(AuditRows) /\ Len(e) = d + n
        /\ \A i \in 1..d + n : e[i] = IF i <= d THEN events[i] ELSE new[i - d]
    BY <1>6, <1>8, <2>2, ConcatProperties
  <2>. QED BY <2>1, <2>3
<1>10. ASSUME NEW i \in 1..c + 1 + n PROVE Linked(l, e[i], i - 1)
  <2>1. CASE i <= c + 1
    <3>1. i \in 1..c + 1 /\ i - 1 \in Nat /\ \A j \in 1..i - 1 : j \in 1..c
      BY <2>1
    <3>2. e[i] = events[i] /\ Linked(log, events[i], i - 1)
      BY <1>6, <1>9, <2>1, <3>1
    <3>. QED BY <1>7, <3>1, <3>2, StaysLinked
  <2>2. CASE ~(i <= c + 1)
    <3>1. i - (c + 1) \in 1..n /\ c + (i - (c + 1)) = i - 1
      BY <2>2
    <3>2. e[i] = new[i - (c + 1)]
      BY <1>9, <2>2
    <3>3. Linked(l, new[i - (c + 1)], c + (i - (c + 1)))
      BY <1>6, <3>1
    <3>. QED BY <3>1, <3>2, <3>3
  <2>. QED BY <2>1, <2>2
<1>11. HeadSeen(w) = HeadOf(e[Len(e)])
  <2>1. c + 1 + n \in 1..c + 1 + n
    OBVIOUS
  <2>2. CASE new = <<>>
    <3>1. n = 0
      BY <1>5, <2>2, EmptySeq
    <3>2. e[Len(e)] = events[Len(events)]
      BY <1>6, <1>9, <2>1, <3>1
    <3>. QED BY <1>1, <1>4, <2>2, <3>2 DEF HeadSeen, Committed
  <2>3. CASE new # <<>>
    <3>1. n # 0
      BY <1>5, <1>6, <2>3, EmptySeq
    <3>2. ~(c + 1 + n <= c + 1) /\ c + 1 + n - (c + 1) = n
      BY <3>1
    <3>3. e[Len(e)] = new[n]
      BY <1>9, <2>1, <3>2
    <3>. QED BY <1>1, <1>5, <2>3, <3>3 DEF HeadSeen
  <2>. QED BY <2>2, <2>3
<1>12. Committed'
  <2>1. Len(e) = Len(l) + 1
    BY <1>7, <1>9
  <2>2. log' = l /\ events' = e /\ head' = HeadOf(e[Len(e)])
    BY <1>3, <1>8, <1>11
  <2>3. \A i \in 1..Len(e) : Linked(l, e[i], i - 1)
    BY <1>9, <1>10
  <2>. QED BY <1>7, <1>9, <2>1, <2>2, <2>3 DEF Committed, Linked, GenuineIn
<1>13. log' = log \/ tx[w].new # <<>>
  BY <1>1, <1>3, <1>7
<1>. QED BY <1>3, <1>12, <1>13, EndLinks

\* Nothing is missing, so nothing is seeded a second time.
LEMMA NothingToSeed ==
    ASSUME LinkInv
    PROVE  ~SeedGenesis
<1>1. PICK c \in Nat : c = Len(log) /\ Len(events) = c + 1
  BY LenProperties DEF LinkInv, Committed
<1>2. 1 \in 1..c + 1 /\ c + 1 \in 1..c + 1
  OBVIOUS
<1>3. Linked(log, events[1], 1 - 1) /\ Linked(log, events[c + 1], c + 1 - 1)
  BY <1>1, <1>2 DEF LinkInv, Committed
<1>4. events[1].seq = 0 /\ 1 \in DOMAIN events
  BY <1>1, <1>2, <1>3, LenProperties DEF LinkInv, Committed, Linked, HeadOf, GenuineIn
<1>5. head.seq = c
  BY <1>1, <1>3 DEF LinkInv, Committed, Linked, HeadOf, GenuineIn
<1>6. head # Nothing
  BY <1>5 DEF Nothing
<1>. QED BY <1>4, <1>6 DEF SeedGenesis

LEMMA ChainAside ==
    ASSUME LinkInv, UNCHANGED <<dialect, events, head, log, owner, tx>>
    PROVE  LinkInv'
<1>1. Committed'
  BY DEF LinkInv, Committed, Linked, GenuineIn
<1>2. ASSUME NEW v \in Writers PROVE Adding(tx[v])'
  BY DEF LinkInv, Adding, LogWith
<1>3. ASSUME NEW v \in Writers PROVE (Appending(tx[v]) => owner[ChainLock] = v)'
  BY DEF LinkInv, Appending, ChainLock, FileLock, HeadLock
<1>. QED BY <1>1, <1>2, <1>3 DEF LinkInv

-----------------------------------------------------------------------------
(* Every run.                                                              *)

LEMMA ChainInitial == Init => ChainInv
<1>. SUFFICES ASSUME Init PROVE LinkInv
  BY DEF ChainInv
<1>1. log = <<>> /\ events = <<Genesis>> /\ head = HeadOf(Genesis) /\ \A w \in Writers : tx[w] = Idle
  BY DEF Init, StoreInit
<1>2. log \in Seq(Envs) /\ Len(log) = 0
  BY <1>1, EmptySeq
<1>3. PICK h : h = Genesis.hash
  OBVIOUS
<1>4. h = <<<<0, GenesisEnv>>>>
  BY <1>3 DEF Genesis, Row, RowHash, ZeroHash
<1>5. PICK g : g = GenuineIn(log, 0).hash
  OBVIOUS
<1>6. g \in Hashes /\ Len(g) = 1 /\ g[1] = <<0, GenesisEnv>>
  <2>1. 0 \in 0..Len(log) /\ 0 + 1 = 1 /\ 1 \in 1..0 + 1 /\ 1 - 1 = 0
    BY <1>2
  <2>2. g \in Hashes /\ Len(g) = 0 + 1
    BY <1>2, <1>5, <2>1, GenuineShape
  <2>3. g[1] = <<1 - 1, IF 1 = 1 THEN GenesisEnv ELSE log[1 - 1]>>
    BY <1>5, <2>1 DEF GenuineIn
  <2>. QED BY <2>1, <2>2, <2>3
<1>7. h \in Hashes /\ Len(h) = 1 /\ h[1] = <<0, GenesisEnv>>
  BY <1>4, GenesisShape DEF Hashes
<1>8. h = g
  <2>1. \A i \in 1..1 : h[i] = g[i]
    BY <1>6, <1>7
  <2>. QED BY <1>6, <1>7, <2>1, SameHash
<1>9. Linked(log, Genesis, 0)
  <2>1. HeadOf(Genesis) = GenuineIn(log, 0)
    BY <1>3, <1>5, <1>8 DEF HeadOf, GenuineIn, Genesis, Row
  <2>2. Genesis \in AuditRows
    BY <1>3, <1>7, GenesisShape, EmptySeq DEF AuditRows, Genesis, Row, ZeroHash, Hashes
  <2>. QED BY <2>1, <2>2 DEF Linked, Recomputes, Genesis, Row
<1>10. Committed
  <2>1. events \in Seq(AuditRows) /\ Len(events) = 1 /\ events[1] = Genesis
    BY <1>1, <1>9 DEF Linked
  <2>2. \A i \in 1..1 : i = 1 /\ i - 1 = 0
    OBVIOUS
  <2>. QED BY <1>1, <1>2, <1>9, <2>1, <2>2 DEF Committed
<1>11. Idle.step = "idle" /\ Idle.new = <<>>
  BY DEF Idle
<1>12. \A w \in Writers : Adding(tx[w]) /\ ~Appending(tx[w])
  BY <1>1, <1>11, NothingAdded DEF Appending
<1>. QED BY <1>10, <1>12 DEF LinkInv

LEMMA ChainStepKeeps == StoreInv /\ ChainInv /\ [Next]_vars => ChainInv'
<1>. SUFFICES ASSUME StoreInv, ChainInv, [Next]_vars PROVE ChainInv'
  OBVIOUS
<1>1. CASE Damage
  BY <1>1, DamageAssumption DEF Damage, ChainInv
<1>2. CASE ~Damage
  <2>1. damage' = damage
    BY <1>2 DEF Next, Verify, StartVerify, Stream, ReadHead, vars, verVars
  <2>2. SUFFICES ASSUME LinkInv PROVE LinkInv'
    BY <2>1 DEF ChainInv
  <2>3. ASSUME NEW w \in Writers, NEW k \in Keys, NEW o \in Operations(k), Begin(w, o)
        PROVE  LinkInv'
    BY <2>2, <2>3, BeginLinks DEF Asked
  <2>4. ASSUME NEW w \in Writers, StatementMisses(w) \/ ReadBack(w) PROVE LinkInv'
    <3>1. PICK s \in {"readback", "commit", "gone"} :
              GoOn(w, s) /\ (s = "readback" => tx[w].step = "statement")
      BY <2>4 DEF StatementMisses, ReadBack, In
    <3>2. tx[w].step # "idle" /\ UNCHANGED <<dialect, owner, events, head, log>>
      BY <2>4 DEF StatementMisses, ReadBack, In, deployment, data
    <3>. QED BY <2>2, <3>1, <3>2, GoingOnLinks
  <2>5. ASSUME NEW w \in Writers, StoreStep(w) PROVE LinkInv'
    BY <2>2, <2>4, <2>5, StatementHitsLinks, AppendAuditLinks, CommitLinks DEF StoreStep
  <2>6. ASSUME NEW w \in Writers, Rollback(w) PROVE LinkInv'
    BY <2>2, <2>6, RollbackLinks
  <2>7. ASSUME NEW w \in Writers, NEW ls, Scan(w, ls), HeadLock \notin ls PROVE LinkInv'
    <3>1. /\ Take(w, {l \in ls : Free(l)}) /\ HeadLock \notin {l \in ls : Free(l)}
          /\ GoOn(w, "commit") /\ dialect = "postgres"
          /\ UNCHANGED <<dialect, events, head, log>>
      BY <2>7 DEF Scan, deployment, data
    <3>. QED BY <2>2, <3>1, GoingOnLinks
  <2>8. HeadLock \notin StaleRows /\ HeadLock \notin SweptRuns
    BY DEF StaleRows, SweptRuns, HeadLock, RowLock, RunLock
  <2>9. ASSUME NEW k \in Keys, GrowStale(k) PROVE LinkInv'
    BY <2>2, <2>9, ChainAside DEF GrowStale, deployment
  <2>10. CASE Verify \/ UNCHANGED vars
    BY <2>2, <2>10, ChainAside
       DEF Verify, StartVerify, Stream, ReadHead, Report, vars, storeVars, deployment, data
  <2>. QED BY <1>2, <2>2, <2>3, <2>5, <2>6, <2>7, <2>8, <2>9, <2>10, NothingToSeed
       DEF Next, StoreNext
<1>. QED BY <1>1, <1>2

\* Rows, links, head and what is not yet committed, in every run.
THEOREM ChainInvariant == Spec => []ChainInv
BY ChainInitial, ChainStepKeeps, StoreInvariant, PTL DEF Spec

\* For any number of threads and keys, with rollbacks, crashes and the
\* verification pass among them, in either store: an undamaged chain has one row
\* per committed envelope behind genesis, gapless, each hash over all before it,
\* and the head names the last one.
THEOREM ChainIsIntact == Spec => []ChainIntact
<1>1. ASSUME ChainInv PROVE ChainIntact
  <2>1. SUFFICES ASSUME damage = "none", Committed PROVE ChainIntact
    BY <1>1 DEF ChainInv, LinkInv, ChainIntact
  <2>2. \A i \in DOMAIN events : i \in 1..Len(events)
    BY <2>1, LenProperties DEF Committed
  <2>3. \A i \in DOMAIN events : HeadOf(events[i]) = Genuine(i - 1) /\ Recomputes(events[i])
    BY <2>1, <2>2 DEF Committed, Linked, Genuine, GenuineIn
  <2>. QED BY <2>1, <2>3 DEF Committed, ChainIntact
<1>. QED BY <1>1, ChainInvariant, PTL

-----------------------------------------------------------------------------
(* The verification pass over a chain nobody has damaged.                  *)

NoAlarm ==
    /\ ver.verdict # "broken"
    /\ \A h \in {ver.checkpoint, ver.last} : h = Nothing \/ \E n \in 0..Len(log) : h = Genuine(n)
    /\ ver.step = "stream" => ver.last = Nothing \/ ver.last.seq < Len(log)
    /\ ver.step = "head" => ver.last # Nothing /\ ver.last # ver.before

PassShape ==
    ver \in [step : {"idle", "stream", "head", "done"}, checkpoint : {ver.checkpoint},
             last : {ver.last}, before : {ver.before}, floor : {ver.floor}, seen : {ver.seen},
             verdict : {"none", "ok", "broken"}]

HealthyInv == PassShape /\ (damage = "none" => NoAlarm)

\* The log only ever grows, so that what was genuine stays so.
Grew ==
    /\ log \in Seq(Envs) /\ log' \in Seq(Envs) /\ Len(log) <= Len(log')
    /\ \A i \in 1..Len(log) : log'[i] = log[i]

LEMMA LogGrows ==
    ASSUME StoreInv, TrailInv, [Next]_vars
    PROVE  Grew
<1>1. log \in Seq(Envs) /\ log' \in Seq(Envs)
  BY TrailStepKeeps DEF TrailInv
<1>2. CASE log' = log
  BY <1>1, <1>2, LenProperties DEF Grew
<1>3. ASSUME NEW e \in Seq(Envs), log' = log \o e PROVE Grew
  <2>1. PICK m : m = log \o e
    OBVIOUS
  <2>2. PICK c \in Nat, n \in Nat : c = Len(log) /\ n = Len(e)
    BY <1>1, LenProperties
  <2>3. Len(m) = c + n /\ \A i \in 1..c + n : m[i] = IF i <= c THEN log[i] ELSE e[i - c]
    BY <1>1, <2>1, <2>2, ConcatProperties
  <2>4. c <= c + n /\ \A i \in 1..c : i \in 1..c + n /\ i <= c
    OBVIOUS
  <2>5. \A i \in 1..c : m[i] = log[i]
    BY <2>3, <2>4
  <2>. QED BY <1>1, <1>3, <2>1, <2>2, <2>3, <2>4, <2>5 DEF Grew
<1>4. ASSUME NEW w \in Writers, Commit(w) PROVE Grew
  <2>1. CASE \E o : Performed(o)
    <3>1. PICK o : Performed(o)
      BY <2>1
    <3>2. AuditOf(o) \in Seq(Envs) /\ log' = log \o AuditOf(o)
      BY <3>1, AuditShape DEF Performed
    <3>. QED BY <1>3, <3>2
  <2>. QED BY <1>2, <1>4, <2>1, CommitIsOneStep
<1>5. CASE log' # log
  BY <1>4, <1>5 DEF Next, StoreNext, StoreStep, Begin, StatementHits, StatementMisses, ReadBack,
     AppendAudit, Rollback, Scan, SeedGenesis, GrowStale, Verify, StartVerify, Stream, ReadHead,
     Damage, vars, storeVars, data
<1>. QED BY <1>2, <1>5

LEMMA GenuineStays ==
    ASSUME Grew
    PROVE  /\ Len(log) \in Nat /\ Len(log') \in Nat /\ 0..Len(log) \subseteq 0..Len(log')
           /\ \A n \in 0..Len(log) : GenuineIn(log', n) = GenuineIn(log, n)
<1>1. PICK c \in Nat, d \in Nat : c = Len(log) /\ d = Len(log') /\ c <= d
  BY LenProperties DEF Grew
<1>2. ASSUME NEW n \in 0..c PROVE GenuineIn(log', n) = GenuineIn(log, n)
  <2>1. n \in Nat /\ \A i \in 1..n : i \in 1..c
    OBVIOUS
  <2>. QED BY <1>1, <2>1, SamePrefix DEF Grew
<1>. QED BY <1>1, <1>2

LEMMA GenuineHere == \A n : Genuine(n) = GenuineIn(log, n)
BY DEF Genuine, GenuineIn

-----------------------------------------------------------------------------
(* A span of the stored rows.                                              *)

Gapless(e, c) == Len(e) = c + 1 /\ \A i \in 1..c + 1 : e[i].seq = i - 1

\* A span of m rows, those of e behind the first s.
Spanning(span, R, e, s, m) ==
    /\ span \in Seq(R) /\ Len(span) = m
    /\ \A j \in 1..m : span[j] = e[s + j]

\* Of a gapless chain the rows from a seq on are its end.
LEMMA SpanOfGapless ==
    ASSUME NEW R, NEW e \in Seq(R), NEW c \in Nat, Gapless(e, c), NEW s \in Nat
    PROVE  /\ s > c => RowsFrom(e, s) = <<>>
           /\ s <= c => Spanning(RowsFrom(e, s), R, e, s, c + 1 - s)
<1>. DEFINE later == {i \in DOMAIN e : e[i].seq >= s}
<1>1. Len(e) = c + 1 /\ DOMAIN e = 1..c + 1
  BY LenProperties DEF Gapless
<1>2. later = s + 1..c + 1
  BY <1>1 DEF Gapless
<1>3. CASE s > c
  <2>1. later = {}
    BY <1>2, <1>3
  <2>. QED BY <1>3, <2>1 DEF RowsFrom
<1>4. CASE s <= c
  <2>1. later # {} /\ s + 1 \in later /\ \A j \in later : s + 1 <= j
    BY <1>2, <1>4
  <2>2. (CHOOSE i \in later : \A j \in later : i <= j) = s + 1
    <3>1. \A i \in later : (\A j \in later : i <= j) => i = s + 1
      BY <1>2, <2>1
    <3>. HIDE DEF later
    <3>. QED BY <2>1, <3>1
  <2>3. RowsFrom(e, s) = SubSeq(e, s + 1, c + 1)
    BY <1>1, <2>1, <2>2 DEF RowsFrom
  <2>4. PICK a \in Int, b \in Int : a = s + 1 /\ b = c + 1
    OBVIOUS
  <2>5. \A i \in a..b : e[i] \in R
    <3>1. ASSUME NEW i \in a..b PROVE i \in 1..Len(e)
      BY <1>1, <2>4
    <3>. QED BY <3>1, ElementOfSeq
  <2>6. PICK u : u = SubSeq(e, a, b)
    OBVIOUS
  <2>7. /\ u \in Seq(R) /\ Len(u) = (IF a <= b THEN b - a + 1 ELSE 0)
        /\ \A i \in 1..b - a + 1 : u[i] = e[a + i - 1]
    BY <2>5, <2>6, SubSeqProperties
  <2>8. a <= b /\ b - a + 1 = c + 1 - s
    BY <1>4, <2>4
  <2>9. ASSUME NEW i \in 1..c + 1 - s PROVE u[i] = e[s + i]
    <3>1. i \in 1..b - a + 1 /\ a + i - 1 = s + i
      BY <2>4, <2>8
    <3>2. u[i] = e[a + i - 1]
      BY <2>7, <3>1
    <3>. QED BY <3>1, <3>2
  <2>. QED BY <1>4, <2>3, <2>4, <2>6, <2>7, <2>8, <2>9 DEF Spanning
<1>. QED BY <1>3, <1>4

-----------------------------------------------------------------------------
(* No false alarm.                                                         *)

LEMMA GenesisHash == Genesis.hash = <<<<0, GenesisEnv>>>> /\ Len(Genesis.hash) = 1
<1>1. Genesis.hash = Append(<<>>, <<0, GenesisEnv>>)
  BY DEF Genesis, Row, RowHash, ZeroHash
<1>. QED BY <1>1, Appends

LEMMA GenesisIsGenuine ==
    ASSUME NEW l
    PROVE  GenuineIn(l, 0) = HeadOf(Genesis)
<1>1. PICK h : h = [i \in 1..0 + 1 |-> <<i - 1, IF i = 1 THEN GenesisEnv ELSE l[i - 1]>>]
  OBVIOUS
<1>2. 1..0 + 1 = {1}
  OBVIOUS
<1>3. h = [i \in {1} |-> <<0, GenesisEnv>>]
  BY <1>1, <1>2
<1>4. h = <<<<0, GenesisEnv>>>>
  <2>1. PICK g : g = <<<<0, GenesisEnv>>>>
    OBVIOUS
  <2>2. g \in Seq({<<0, GenesisEnv>>}) /\ Len(g) = 1 /\ g[1] = <<0, GenesisEnv>>
    BY <2>1
  <2>3. h \in Seq({<<0, GenesisEnv>>}) /\ Len(h) = 1 /\ h[1] = <<0, GenesisEnv>>
    <3>1. h = [i \in 1..1 |-> <<0, GenesisEnv>>]
      BY <1>3
    <3>. QED BY <3>1
  <2>. QED BY <2>1, <2>2, <2>3, SeqEqual
<1>. QED BY <1>1, <1>4, GenesisHash DEF GenuineIn, HeadOf, Genesis, Row

\* A linked row passes behind the row before it.
LEMMA LinkedFollows ==
    ASSUME NEW n \in Nat, NEW q, NEW r, Linked(log, q, n), Linked(log, r, n + 1),
           log \in Seq(Envs), n + 1 <= Len(log)
    PROVE  Follows(r, HeadOf(q)) /\ HeadOf(q) = GenuineIn(log, n)
<1>1. PICK g, h : g = GenuineIn(log, n).hash /\ h = GenuineIn(log, n + 1).hash
  OBVIOUS
<1>2. /\ r \in AuditRows /\ r.seq = n + 1 /\ r.hash = h /\ r.hash = Append(r.prev, <<r.seq, r.env>>)
      /\ q.seq = n /\ q.hash = g
  BY <1>1 DEF Linked, HeadOf, GenuineIn, Recomputes, RowHash
<1>3. PICK p, x : p = r.prev /\ x = <<r.seq, r.env>>
  OBVIOUS
<1>4. p \in Hashes /\ x \in Nat \X Envs
  BY <1>2, <1>3 DEF AuditRows
<1>5. Len(log) \in Nat /\ n \in 0..Len(log) /\ n + 1 \in 0..Len(log)
  BY LenProperties
<1>6. /\ g \in Hashes /\ Len(g) = n + 1 /\ h \in Hashes /\ Len(h) = n + 2
      /\ \A i \in 1..n + 1 : h[i] = g[i]
  <2>1. /\ g \in Hashes /\ Len(g) = n + 1 /\ h \in Hashes /\ Len(h) = n + 1 + 1
    BY <1>1, <1>5, GenuineShape
  <2>2. ASSUME NEW i \in 1..n + 1 PROVE h[i] = g[i]
    <3>1. i \in 1..n + 1 + 1
      OBVIOUS
    <3>2. g[i] = <<i - 1, IF i = 1 THEN GenesisEnv ELSE log[i - 1]>>
      BY <1>1 DEF GenuineIn
    <3>3. h[i] = <<i - 1, IF i = 1 THEN GenesisEnv ELSE log[i - 1]>>
      BY <1>1, <3>1 DEF GenuineIn
    <3>. QED BY <3>2, <3>3
  <2>3. n + 1 + 1 = n + 2
    OBVIOUS
  <2>. QED BY <2>1, <2>2, <2>3
<1>7. PICK a : a = Append(p, x)
  OBVIOUS
<1>8. Len(p) \in Nat /\ Len(a) = Len(p) + 1 /\ \A i \in 1..Len(p) : a[i] = p[i]
  BY <1>4, <1>7, AppendProperties, LenProperties DEF Hashes
<1>9. a = h
  BY <1>2, <1>3, <1>7
<1>10. Len(p) = n + 1
  BY <1>6, <1>8, <1>9
<1>11. p = g
  <2>1. PICK m \in Nat : m = n + 1
    OBVIOUS
  <2>2. Len(p) = m /\ Len(g) = m /\ \A i \in 1..m : p[i] = g[i]
    BY <1>6, <1>8, <1>9, <1>10, <2>1
  <2>. QED BY <1>4, <1>6, <2>2, SameHash
<1>12. HeadOf(q) = [seq |-> n, hash |-> g]
  BY <1>2 DEF HeadOf
<1>13. Follows(r, HeadOf(q))
  BY <1>2, <1>3, <1>11, <1>12 DEF Follows
<1>. QED BY <1>13 DEF Linked

\* Before the first row of all there is nothing to link to.
LEMMA LinkedStart ==
    ASSUME NEW r, Linked(log, r, 0), log \in Seq(Envs)
    PROVE  Anchored(r, Nothing) /\ r.hash = Genesis.hash
<1>1. GenuineIn(log, 0) = HeadOf(Genesis)
  BY GenesisIsGenuine
<1>2. /\ r \in AuditRows /\ r.seq = 0 /\ r.hash = Genesis.hash
      /\ r.hash = Append(r.prev, <<r.seq, r.env>>)
  BY <1>1 DEF Linked, HeadOf, Genesis, Row, Recomputes, RowHash
<1>3. PICK p, x : p = r.prev /\ x = <<r.seq, r.env>>
  OBVIOUS
<1>4. p \in Hashes /\ x \in Nat \X Envs
  BY <1>2, <1>3 DEF AuditRows
<1>5. r.hash = <<<<0, GenesisEnv>>>> /\ Len(r.hash) = 1
  BY <1>2, GenesisHash
<1>6. Len(p) \in Nat /\ Len(Append(p, x)) = Len(p) + 1
  BY <1>4, AppendProperties, LenProperties DEF Hashes
<1>7. Len(p) = 0
  BY <1>2, <1>3, <1>5, <1>6
<1>8. p = <<>>
  BY <1>4, <1>7, EmptySeq DEF Hashes
<1>. QED BY <1>2, <1>3, <1>8 DEF Anchored, ZeroHash

LEMMA NoRowIsNothing == \A l, n : n \in Nat => GenuineIn(l, n) # Nothing
BY DEF GenuineIn, Nothing

LEMMA ShapeStays == PassShape /\ [Next]_vars => PassShape'
<1>. SUFFICES ASSUME PassShape, [Next]_vars PROVE PassShape'
  OBVIOUS
<1>1. CASE ver' = ver
  BY <1>1 DEF PassShape
<1>2. CASE StartVerify
  <2>1. PICK c : ver' = [NotRunning EXCEPT !.step = "stream", !.checkpoint = c, !.floor = Len(log)]
    BY <1>2 DEF StartVerify
  <2>. QED BY <2>1 DEF PassShape, NotRunning
<1>3. ASSUME NEW v, NEW verdict \in {"ok", "broken"}, Report(v, verdict),
             v \in [step : {"idle", "stream", "head", "done"}, checkpoint : {v.checkpoint},
                    last : {v.last}, before : {v.before}, floor : {v.floor}, seen : {v.seen},
                    verdict : {"none", "ok", "broken"}]
      PROVE  PassShape'
  BY <1>3 DEF Report, PassShape
<1>4. CASE Stream
  <2>1. ASSUME NEW b, NEW sn, NEW l, NEW v, v = [ver EXCEPT !.before = b, !.seen = sn],
               ver' = [v EXCEPT !.step = "head", !.last = l] \/ ver' = [v EXCEPT !.step = "head"]
        PROVE  PassShape'
    BY <2>1 DEF PassShape
  <2>2. \/ Report(ver, "broken")
        \/ \E b, sn, l : LET v == [ver EXCEPT !.before = b, !.seen = sn]
                         IN ver' = [v EXCEPT !.step = "head", !.last = l] \/ ver' = [v EXCEPT !.step = "head"]
    BY <1>4, Zenon DEF Stream
  <2>. QED BY <1>3, <2>1, <2>2 DEF PassShape
<1>5. CASE ReadHead
  <2>1. CASE ver' = [ver EXCEPT !.step = "stream"]
    BY <2>1 DEF PassShape
  <2>. QED BY <1>3, <1>5, <2>1 DEF ReadHead, PassShape
<1>6. CASE ver' # ver
  BY <1>2, <1>4, <1>5, <1>6 DEF Next, Verify, Damage, vars, verVars
<1>. QED BY <1>1, <1>6

\* What a span says to the pass that streams it.
LEMMA HealthySpan ==
    ASSUME Committed, NEW s \in 0..Len(log), NEW span, span = RowsFrom(events, s),
           NEW last, NEW checkpoint,
           \/ last = Nothing /\ checkpoint = Nothing /\ s = 0
           \/ last = Nothing /\ checkpoint = GenuineIn(log, s)
           \/ last # Nothing /\ s # 0 /\ last = GenuineIn(log, s - 1)
    PROVE  /\ SpanPasses(span, last, checkpoint) /\ span # <<>>
           /\ HeadOf(span[Len(span)]) = GenuineIn(log, Len(log))
<1>1. PICK c \in Nat : c = Len(log)
  BY LenProperties DEF Committed
<1>2. /\ log \in Seq(Envs) /\ events \in Seq(AuditRows) /\ Len(events) = c + 1
      /\ \A i \in 1..c + 1 : Linked(log, events[i], i - 1)
  BY <1>1 DEF Committed
<1>3. \A i \in 1..c + 1 : events[i].seq = i - 1
  BY <1>2 DEF Linked, HeadOf, GenuineIn
<1>4. PICK m \in Nat : m = c + 1 - s /\ m # 0
  <2>1. c + 1 - s \in Nat /\ c + 1 - s # 0
    BY <1>1
  <2>. QED BY <2>1
<1>5. /\ span \in Seq(AuditRows) /\ Len(span) = m
      /\ \A j \in 1..m : span[j] = events[s + j]
  <2>1. s <= c /\ s \in Nat
    BY <1>1
  <2>2. Gapless(events, c)
    BY <1>2, <1>3 DEF Gapless
  <2>3. Spanning(RowsFrom(events, s), AuditRows, events, s, m)
    BY <1>2, <1>4, <2>1, <2>2, SpanOfGapless
  <2>. QED BY <2>3 DEF Spanning
<1>6. DOMAIN span = 1..m /\ span # <<>>
  BY <1>4, <1>5, LenProperties, EmptySeq
<1>7. ASSUME NEW j \in 1..m PROVE Linked(log, span[j], s + j - 1)
  <2>1. s + j \in 1..c + 1
    BY <1>1, <1>4
  <2>. QED BY <1>2, <1>5, <2>1
<1>8. Linked(log, span[1], s)
  <2>1. 1 \in 1..m /\ s + 1 - 1 = s
    BY <1>4
  <2>2. Linked(log, span[1], s + 1 - 1)
    BY <1>7, <2>1
  <2>. QED BY <2>1, <2>2
<1>9. IF last = Nothing THEN Anchored(span[1], checkpoint) ELSE Follows(span[1], last)
  <2>1. CASE last = Nothing /\ checkpoint = Nothing /\ s = 0
    BY <1>2, <1>8, <2>1, LinkedStart
  <2>2. CASE last = Nothing /\ checkpoint = GenuineIn(log, s)
    <3>1. checkpoint # Nothing
      BY <2>2, NoRowIsNothing
    <3>2. HeadOf(span[1]) = checkpoint
      BY <1>8, <2>2 DEF Linked
    <3>. QED BY <2>2, <3>1, <3>2 DEF Anchored
  <2>3. CASE last # Nothing /\ s # 0 /\ last = GenuineIn(log, s - 1)
    <3>1. s - 1 \in Nat /\ s - 1 + 1 = s /\ s \in 1..c + 1 /\ s <= Len(log)
      BY <1>1, <2>3
    <3>2. Linked(log, events[s], s - 1)
      BY <1>2, <3>1
    <3>. QED BY <1>2, <1>8, <2>3, <3>1, <3>2, LinkedFollows
  <2>. QED BY <2>1, <2>2, <2>3
<1>10. ASSUME NEW j \in 1..m, j # 1 PROVE Follows(span[j], HeadOf(span[j - 1]))
  <2>1. j - 1 \in 1..m /\ s + (j - 1) - 1 \in Nat /\ s + (j - 1) - 1 + 1 = s + j - 1 /\ s + j - 1 <= Len(log)
    BY <1>1, <1>4, <1>10
  <2>2. Linked(log, span[j - 1], s + (j - 1) - 1) /\ Linked(log, span[j], s + j - 1)
    BY <1>7, <2>1
  <2>. QED BY <1>2, <2>1, <2>2, LinkedFollows
<1>11. SpanPasses(span, last, checkpoint)
  <2>1. \A j \in 1..m : Recomputes(span[j])
    BY <1>7 DEF Linked
  <2>. QED BY <1>6, <1>9, <1>10, <2>1 DEF SpanPasses
<1>12. HeadOf(span[Len(span)]) = GenuineIn(log, Len(log))
  <2>1. m \in 1..m /\ s + m - 1 = c
    BY <1>4
  <2>. QED BY <1>1, <1>5, <1>7, <2>1 DEF Linked
<1>. QED BY <1>6, <1>11, <1>12

\* What was genuine of a pass stays so while others write.
LEMMA AlarmAside ==
    ASSUME NoAlarm, Grew, ver' = ver
    PROVE  NoAlarm'
<1>1. ASSUME NEW h, h = Nothing \/ \E n \in 0..Len(log) : h = Genuine(n)
      PROVE  h = Nothing \/ \E n \in 0..Len(log') : h = GenuineIn(log', n)
  BY <1>1, GenuineStays, GenuineHere
<1>2. \A n : Genuine(n)' = GenuineIn(log', n)
  BY DEF Genuine, GenuineIn
<1>3. ver.last.seq < Len(log) => ver.last.seq < Len(log') \/ ver.last = Nothing
  <2>1. SUFFICES ASSUME ver.last.seq < Len(log), ver.last # Nothing PROVE ver.last.seq < Len(log')
    OBVIOUS
  <2>2. PICK n \in 0..Len(log) : ver.last = Genuine(n)
    BY <2>1 DEF NoAlarm
  <2>3. ver.last.seq = n
    BY <2>2 DEF Genuine
  <2>. QED BY <2>1, <2>3, GenuineStays DEF Grew
<1>. QED BY <1>1, <1>2, <1>3 DEF NoAlarm

LEMMA HealthyStream ==
    ASSUME PassShape, NoAlarm, Committed, Stream
    PROVE  NoAlarm'
<1>1. PICK last, checkpoint : last = ver.last /\ checkpoint = ver.checkpoint
  OBVIOUS
<1>2. PICK s \in 0..Len(log) :
          /\ s = NextSeq
          /\ \/ last = Nothing /\ checkpoint = Nothing /\ s = 0
             \/ last = Nothing /\ checkpoint = GenuineIn(log, s)
             \/ last # Nothing /\ s # 0 /\ last = GenuineIn(log, s - 1)
  <2>1. CASE last = Nothing /\ checkpoint = Nothing
    <3>1. 0 \in 0..Len(log) /\ NextSeq = 0
      BY <1>1, <2>1, LenProperties DEF NextSeq, Committed
    <3>. QED BY <2>1, <3>1
  <2>2. CASE last = Nothing /\ checkpoint # Nothing
    <3>1. PICK n \in 0..Len(log) : checkpoint = GenuineIn(log, n)
      BY <1>1, <2>2, GenuineHere DEF NoAlarm
    <3>2. NextSeq = n
      BY <1>1, <2>2, <3>1 DEF NextSeq, GenuineIn
    <3>. QED BY <2>2, <3>1, <3>2
  <2>3. CASE last # Nothing
    <3>1. PICK n \in 0..Len(log) : last = GenuineIn(log, n)
      BY <1>1, <2>3, GenuineHere DEF NoAlarm
    <3>2. last.seq = n /\ NextSeq = n + 1
      BY <1>1, <2>3, <3>1 DEF NextSeq, GenuineIn
    <3>3. n < Len(log)
      BY <1>1, <2>3, <3>2 DEF NoAlarm, Stream
    <3>4. n + 1 \in 0..Len(log) /\ n + 1 # 0 /\ n + 1 - 1 = n
      BY <3>3, LenProperties DEF Committed
    <3>. QED BY <2>3, <3>1, <3>2, <3>4
  <2>. QED BY <2>1, <2>2, <2>3
<1>3. PICK span : span = RowsFrom(events, s)
  OBVIOUS
<1>4. /\ SpanPasses(span, last, checkpoint) /\ span # <<>>
      /\ HeadOf(span[Len(span)]) = GenuineIn(log, Len(log))
  BY <1>2, <1>3, HealthySpan
<1>5. PICK top : top = HeadOf(span[Len(span)])
  OBVIOUS
<1>6. PICK seen : ver' = [[ver EXCEPT !.before = ver.last, !.seen = seen]
                             EXCEPT !.step = "head", !.last = top]
  BY <1>1, <1>2, <1>3, <1>4, <1>5 DEF Stream
<1>7. /\ ver'.verdict = ver.verdict /\ ver'.checkpoint = checkpoint /\ ver'.step = "head"
      /\ ver'.last = top /\ ver'.before = last
  BY <1>1, <1>6 DEF PassShape
<1>8. PICK c \in Nat : c = Len(log)
  BY LenProperties DEF Committed
<1>9. top = GenuineIn(log, c) /\ top # Nothing /\ c \in 0..c
  BY <1>4, <1>5, <1>8, NoRowIsNothing
<1>10. top # last
  <2>1. top.seq = c
    BY <1>9 DEF GenuineIn
  <2>2. CASE last # Nothing
    <3>1. last.seq = s - 1 /\ s - 1 # c
      BY <1>2, <1>8, <2>2 DEF GenuineIn
    <3>. QED BY <2>1, <3>1
  <2>. QED BY <1>9, <2>2
<1>11. UNCHANGED log /\ ver.verdict # "broken"
  BY DEF Stream, NoAlarm, storeVars, data
<1>12. \A n : GenuineIn(log, n)' = GenuineIn(log, n)
  BY <1>11 DEF GenuineIn
<1>13. \A n : Genuine(n)' = GenuineIn(log, n)
  BY <1>11 DEF GenuineIn, Genuine
<1>14. checkpoint = Nothing \/ \E n \in 0..Len(log) : checkpoint = GenuineIn(log, n)
  BY <1>1, GenuineHere DEF NoAlarm
<1>. QED BY <1>7, <1>8, <1>9, <1>10, <1>11, <1>13, <1>14 DEF NoAlarm

LEMMA HealthyHead ==
    ASSUME PassShape, NoAlarm, Committed, ReadHead
    PROVE  NoAlarm'
<1>1. PICK c \in Nat : c = Len(log)
  BY LenProperties DEF Committed
<1>2. head = GenuineIn(log, c) /\ head.seq = c /\ head # Nothing
  <2>1. Linked(log, events[c + 1], c + 1 - 1) /\ c + 1 - 1 = c
    BY <1>1 DEF Committed
  <2>2. head = GenuineIn(log, c)
    BY <1>1, <2>1 DEF Committed, Linked
  <2>. QED BY <2>2, NoRowIsNothing DEF GenuineIn
<1>3. PICK n \in 0..c : ver.last = GenuineIn(log, n) /\ ver.last.seq = n
  <2>1. PICK n \in 0..Len(log) : ver.last = Genuine(n)
    BY DEF NoAlarm, ReadHead
  <2>2. ver.last.seq = n /\ ver.last = GenuineIn(log, n) /\ n \in 0..c
    BY <1>1, <2>1, GenuineHere DEF Genuine
  <2>. QED BY <2>2
<1>4. UNCHANGED log
  BY DEF ReadHead, storeVars, data
<1>5. \A m : Genuine(m)' = Genuine(m)
  BY <1>4 DEF Genuine
<1>6. CASE c > n
  <2>1. ver' = [ver EXCEPT !.step = "stream"]
    BY <1>2, <1>3, <1>6 DEF ReadHead, NoAlarm
  <2>2. /\ ver'.verdict = ver.verdict /\ ver'.checkpoint = ver.checkpoint
        /\ ver'.last = ver.last /\ ver'.step = "stream"
    BY <2>1 DEF PassShape
  <2>. QED BY <1>1, <1>3, <1>4, <1>5, <1>6, <2>2 DEF NoAlarm
<1>7. CASE ~(c > n)
  <2>1. head = ver.last
    <3>1. n = c
      BY <1>7
    <3>. QED BY <1>2, <1>3, <3>1
  <2>2. ver' = [ver EXCEPT !.step = "done", !.verdict = "ok"]
    BY <1>2, <1>3, <1>7, <2>1 DEF ReadHead, Report
  <2>3. /\ ver'.verdict = "ok" /\ ver'.checkpoint = ver.checkpoint
        /\ ver'.last = ver.last /\ ver'.step = "done"
    BY <2>2 DEF PassShape
  <2>. QED BY <1>4, <1>5, <2>3 DEF NoAlarm
<1>. QED BY <1>6, <1>7

LEMMA HealthyStart ==
    ASSUME StartVerify
    PROVE  NoAlarm'
<1>1. PICK c \in {Nothing} \union {Genuine(n) : n \in 0..Len(log)} :
          ver' = [NotRunning EXCEPT !.step = "stream", !.checkpoint = c, !.floor = Len(log)]
  BY DEF StartVerify
<1>2. /\ ver'.verdict = "none" /\ ver'.checkpoint = c /\ ver'.last = Nothing /\ ver'.step = "stream"
  BY <1>1 DEF NotRunning
<1>3. UNCHANGED log
  BY DEF StartVerify, storeVars, data
<1>4. \A m : Genuine(m)' = Genuine(m)
  BY <1>3 DEF Genuine
<1>. QED BY <1>1, <1>2, <1>3, <1>4 DEF NoAlarm

LEMMA HealthyKeeps ==
    StoreInv /\ TrailInv /\ ChainInv /\ HealthyInv /\ [Next]_vars => HealthyInv'
<1>. SUFFICES ASSUME StoreInv, TrailInv, ChainInv, HealthyInv, [Next]_vars PROVE HealthyInv'
  OBVIOUS
<1>1. PassShape /\ PassShape'
  BY ShapeStays DEF HealthyInv
<1>2. SUFFICES ASSUME damage' = "none" PROVE NoAlarm'
  BY <1>1 DEF HealthyInv
<1>3. ~Damage
  BY <1>2, DamageAssumption DEF Damage
<1>4. damage = "none"
  BY <1>2, <1>3 DEF Next, Verify, StartVerify, Stream, ReadHead, vars, verVars
<1>5. NoAlarm /\ Committed
  BY <1>4 DEF HealthyInv, ChainInv, LinkInv
<1>6. CASE ver' = ver
  BY <1>5, <1>6, LogGrows, AlarmAside
<1>7. CASE ver' # ver
  BY <1>1, <1>3, <1>5, <1>7, HealthyStart, HealthyStream, HealthyHead DEF Next, Verify, vars, verVars
<1>. QED BY <1>6, <1>7

\* No false alarm, for any number of writers, keys, appends, rollbacks and
\* crashes beside the pass, from genesis or from a noted row, on either store:
\* verify_chain never reports a chain broken that nobody has damaged.
THEOREM HealthyChainsPass == Spec => []HealthyIsAccepted
<1>1. Init => HealthyInv
  BY DEF Init, NotRunning, HealthyInv, PassShape, NoAlarm
<1>2. HealthyInv => HealthyIsAccepted
  BY DEF HealthyInv, NoAlarm, HealthyIsAccepted
<1>. QED BY <1>1, <1>2, HealthyKeeps, StoreInvariant, TrailInvariant, ChainInvariant, PTL DEF Spec
-----------------------------------------------------------------------------
(* The verification pass over any chain.                                   *)

StoredEnvs == [table : Tables, key : Keys \union {"none"}, what : Whats \union {"altered"}]
StoredHashes == Seq(Nat \X StoredEnvs)
StoredRows == [seq : Nat, env : StoredEnvs, prev : StoredHashes, hash : StoredHashes]
StoredHeads == {Nothing} \union [seq : Nat, hash : StoredHashes]

\* The i-th row follows from the one before, the first from the head.
Continues(h, new, i) ==
    new[i] = NextRow(IF i = 1 THEN h ELSE HeadOf(new[i - 1]), new[i].env)

\* What a transaction has appended follows from the head, whatever that says.
Continuing(new) ==
    /\ new \in Seq(StoredRows)
    /\ \A i \in 1..Len(new) : Continues(head, new, i)
    /\ new # <<>> => head # Nothing

Holding(w) == tx[w].new # <<>> => owner[ChainLock] = w

Stored ==
    /\ events \in Seq(StoredRows)
    /\ head \in StoredHeads
    /\ \A w \in Writers : Continuing(tx[w].new) /\ Holding(w)

\* What each kind of damage leaves as it was.
Remaining ==
    /\ damage \in {"none", "headless"} => Gapless(events, Len(log))
    /\ damage \notin {"headless", "rewritten"} => head = GenuineIn(log, Len(log))
    /\ damage = "rewritten" => head.seq = Len(log)
    /\ damage = "headless" =>
          /\ head \in {Nothing, GenuineIn(log, 0), GenuineIn(log, Len(log))}
          /\ \A w \in Writers : tx[w].new # <<>> => head = GenuineIn(log, Len(log))

\* Where a pass begins, and the envelope at a position of the chain.
From(v) == IF v.checkpoint = Nothing THEN 0 ELSE v.checkpoint.seq
EnvAt(n) == IF n = 1 THEN GenesisEnv ELSE log[n - 1]

\* The hash of r says, of every row from f on, what is in s.
Covers(f, r, s, n) ==
    /\ r.seq = f + n - 1
    /\ r.hash \in StoredHashes /\ Len(r.hash) = f + n
    /\ \A i \in 1..n : r.hash[f + i] = <<f + i - 1, s[i]>>

Seen(f, last, seen) ==
    /\ seen \in Seq(StoredEnvs) /\ seen # <<>>
    /\ Covers(f, last, seen, Len(seen))
    /\ seen[1] = EnvAt(f + 1)

\* What the rows seen are, if a pass has accepted them.
Accepted(f, last, floor, seen) ==
    /\ last # Nothing /\ last.seq \in floor..Len(log)
    /\ damage # "rewritten" => \A i \in 1..Len(seen) : seen[i] = EnvAt(f + i)

Passing ==
    /\ ver.checkpoint = Nothing \/ \E n \in 0..Len(log) : ver.checkpoint = GenuineIn(log, n)
    /\ ver.floor \in 0..Len(log)
    /\ ver.last = Nothing => ver.seen = <<>>
    /\ ver.last # Nothing => Seen(From(ver), ver.last, ver.seen)
    /\ ver.step = "head" => ver.last # Nothing
    /\ damage \in {"none", "headless"} /\ ver.last # Nothing => ver.last.seq >= ver.floor
    /\ ver.verdict = "ok" =>
          ver.step = "done" /\ Accepted(From(ver), ver.last, ver.floor, ver.seen)

PassInv == PassShape /\ Stored /\ Remaining /\ Passing

-----------------------------------------------------------------------------
(* Who has something to append.                                            *)

\* Only an append adds to what a transaction brings; its end drops it.
LEMMA NewStays ==
    ASSUME StoreInv, TrailInv, [Next]_vars, NEW v \in Writers, ~AppendAudit(v)
    PROVE  tx'[v].new \in {tx[v].new, <<>>}
<1>. DEFINE Kept == tx'[v].new \in {tx[v].new, <<>>}
<1>1. CASE tx' = tx
  BY <1>1
<1>2. ASSUME NEW w \in Writers, NEW t, tx' = [tx EXCEPT ![w] = t],
             w # v \/ t.new \in {tx[w].new, <<>>}
      PROVE  Kept
  BY <1>2 DEF StoreInv, Shapes
<1>3. Idle.new = <<>>
  BY DEF Idle
<1>4. ASSUME NEW w \in Writers, NEW o, Begin(w, o) PROVE Kept
  <2>1. PICK t : t = [Idle EXCEPT !.step = FirstStep(o), !.op = o]
    OBVIOUS
  <2>2. t.new = <<>> /\ tx' = [tx EXCEPT ![w] = t]
    BY <1>4, <2>1 DEF Begin, Idle
  <2>. QED BY <1>2, <2>2
<1>5. ASSUME NEW w \in Writers, NEW s, GoOn(w, s) PROVE Kept
  <2>1. PICK t : t = [tx[w] EXCEPT !.step = s]
    OBVIOUS
  <2>2. t.new = tx[w].new
    BY <2>1 DEF StoreInv, Shapes, Shaped
  <2>. QED BY <1>2, <1>5, <2>1, <2>2 DEF GoOn
<1>6. ASSUME NEW w \in Writers, StatementHits(w) PROVE Kept
  <2>1. PICK put, s : tx' = [tx EXCEPT ![w] = [tx[w] EXCEPT !.hit = TRUE, !.put = put, !.step = s]]
    BY <1>6 DEF StatementHits
  <2>2. PICK t : t = [tx[w] EXCEPT !.hit = TRUE, !.put = put, !.step = s]
    OBVIOUS
  <2>3. t.new = tx[w].new
    BY <2>2 DEF StoreInv, Shapes, Shaped
  <2>. QED BY <1>2, <2>1, <2>2, <2>3
<1>7. ASSUME NEW w \in Writers, AppendAudit(w) PROVE Kept
  BY <1>2, <1>7 DEF AppendAudit
<1>8. ASSUME NEW w \in Writers, End(w) PROVE Kept
  BY <1>2, <1>3, <1>8 DEF End
<1>9. ASSUME NEW w \in Writers, StoreStep(w) \/ Rollback(w) PROVE Kept
  BY <1>5, <1>6, <1>7, <1>8, <1>9 DEF StoreStep, StatementMisses, ReadBack, Commit, Rollback
<1>10. ASSUME NEW w \in Writers, Scan(w, StaleRows) \/ Scan(w, SweptRuns) PROVE Kept
  BY <1>5, <1>10 DEF Scan
<1>11. CASE SeedGenesis \/ (\E k \in Keys : GrowStale(k)) \/ Verify \/ Damage \/ UNCHANGED vars
  <2>1. tx' = tx
    BY <1>11 DEF SeedGenesis, GrowStale, Verify, StartVerify, Stream, ReadHead, Damage, vars, storeVars
  <2>. QED BY <1>1, <2>1
<1>. QED BY <1>4, <1>9, <1>10, <1>11 DEF Next, StoreNext

LEMMA HoldingStays ==
    ASSUME StoreInv, TrailInv, \A w \in Writers : Holding(w), [Next]_vars, NEW v \in Writers
    PROVE  Holding(v)'
<1>1. CASE tx'[v].new = <<>>
  BY <1>1 DEF Holding
<1>2. CASE dialect = "sqlite" /\ tx'[v].new # <<>>
  <2>1. TrailInv'
    BY TrailStepKeeps
  <2>2. dialect' = "sqlite"
    BY <1>2 DEF Next, StoreNext, StoreStep, Begin, StatementHits, StatementMisses, ReadBack,
       AppendAudit, Commit, Rollback, Scan, SeedGenesis, GrowStale, Verify, StartVerify, Stream,
       ReadHead, Damage, vars, storeVars, deployment
  <2>3. tx'[v].step # "idle"
    <3>1. Writing(tx'[v])
      BY <2>1 DEF TrailInv, Writing
    <3>. QED BY <1>2, <3>1 DEF Writing
  <2>4. owner'[FileLock] = v
    BY <2>1, <2>2, <2>3 DEF TrailInv, Guarding, FileLock
  <2>. QED BY <2>2, <2>4 DEF Holding, ChainLock, FileLock
<1>3. CASE dialect # "sqlite" /\ tx'[v].new # <<>>
  <2>1. dialect' = dialect
    BY DEF Next, StoreNext, StoreStep, Begin, StatementHits, StatementMisses, ReadBack,
       AppendAudit, Commit, Rollback, Scan, SeedGenesis, GrowStale, Verify, StartVerify, Stream,
       ReadHead, Damage, vars, storeVars, deployment
  <2>2. SUFFICES owner'[HeadLock] = v
    BY <1>3, <2>1 DEF Holding, ChainLock, HeadLock
  <2>3. HeadLock \in Locks /\ v # Nobody
    BY StoreAssumption DEF Locks
  <2>4. CASE AppendAudit(v)
    BY <1>3, <2>3, <2>4 DEF AppendAudit, Take, Taking
  <2>5. CASE ~AppendAudit(v)
    <3>1. tx[v].new # <<>> /\ owner[HeadLock] = v
      BY <1>3, <2>5, NewStays DEF Holding, ChainLock
    <3>2. ASSUME NEW w \in Writers, NEW ls, Take(w, ls), HeadLock \notin ls PROVE owner'[HeadLock] = v
      BY <2>3, <3>1, <3>2 DEF Take
    <3>3. ASSUME owner' = owner PROVE owner'[HeadLock] = v
      BY <3>1, <3>3
    <3>4. ASSUME NEW w \in Writers, NEW o, Begin(w, o) PROVE owner'[HeadLock] = v
      BY <1>3, <3>2, <3>4 DEF Begin
    <3>5. ASSUME NEW w \in Writers, StatementHits(w) PROVE owner'[HeadLock] = v
      <4>1. HeadLock \notin Taking(Lock(tx[w].op))
        BY DEF Taking, Lock, RowLock, RunLock, HeadLock
      <4>. QED BY <3>2, <3>5, <4>1 DEF StatementHits
    <3>6. ASSUME NEW w \in Writers, AppendAudit(w) PROVE owner'[HeadLock] = v
      BY <1>3, <2>3, <2>5, <3>1, <3>6 DEF AppendAudit, MayTake
    <3>7. ASSUME NEW w \in Writers, End(w) PROVE owner'[HeadLock] = v
      <4>1. w # v
        <5>1. End(v) => tx'[v].new = <<>>
          BY DEF End, Idle, StoreInv, Shapes
        <5>. QED BY <1>3, <3>7, <5>1
      <4>. QED BY <2>3, <3>1, <3>7, <4>1 DEF End, Release
    <3>8. ASSUME NEW w \in Writers, StoreStep(w) \/ Rollback(w) PROVE owner'[HeadLock] = v
      BY <3>3, <3>5, <3>6, <3>7, <3>8 DEF StoreStep, StatementMisses, ReadBack, Commit, Rollback
    <3>9. ASSUME NEW w \in Writers, Scan(w, StaleRows) \/ Scan(w, SweptRuns) PROVE owner'[HeadLock] = v
      <4>1. PICK ls \in {StaleRows, SweptRuns} : Take(w, {l \in ls : Free(l)})
        BY <3>9 DEF Scan
      <4>2. HeadLock \notin ls
        BY DEF StaleRows, SweptRuns, HeadLock, RowLock, RunLock
      <4>. QED BY <3>2, <4>1, <4>2
    <3>10. CASE SeedGenesis \/ (\E k \in Keys : GrowStale(k)) \/ Verify \/ Damage \/ UNCHANGED vars
      BY <3>3, <3>10 DEF SeedGenesis, GrowStale, Verify, StartVerify, Stream, ReadHead, Damage, vars,
         storeVars
    <3>. QED BY <3>4, <3>8, <3>9, <3>10 DEF Next, StoreNext
  <2>. QED BY <2>4, <2>5
<1>. QED BY <1>1, <1>2, <1>3

LEMMA OneHolder ==
    ASSUME \A w \in Writers : Holding(w), NEW v \in Writers, NEW w \in Writers, v # w,
           tx[v].new # <<>>
    PROVE  tx[w].new = <<>>
BY DEF Holding

-----------------------------------------------------------------------------
(* What is stored.                                                         *)

LEMMA StoredShapes ==
    /\ Envs \subseteq StoredEnvs /\ Hashes \subseteq StoredHashes
    /\ Genesis \in StoredRows /\ HeadOf(Genesis) \in StoredHeads
<1>1. Envs \subseteq StoredEnvs
  BY DEF Envs, StoredEnvs
<1>2. ASSUME NEW h \in Hashes PROVE h \in StoredHashes
  BY <1>1, SeqMonotonic DEF Hashes, StoredHashes
<1>3. Genesis.hash \in StoredHashes /\ GenesisEnv \in StoredEnvs
  BY <1>1, GenesisHash, GenesisShape DEF StoredHashes
<1>4. <<>> \in StoredHashes
  BY EmptySeq DEF StoredHashes
<1>5. PICK h : h = Genesis.hash
  OBVIOUS
<1>6. Genesis = [seq |-> 0, env |-> GenesisEnv, prev |-> <<>>, hash |-> h]
  BY <1>5 DEF Genesis, Row, ZeroHash
<1>7. Genesis \in StoredRows
  BY <1>3, <1>4, <1>5, <1>6 DEF StoredRows
<1>8. HeadOf(Genesis) \in StoredHeads
  BY <1>3, <1>5, <1>6 DEF StoredHeads, HeadOf
<1>9. Hashes \subseteq StoredHashes
  BY <1>2
<1>. QED BY <1>1, <1>7, <1>8, <1>9

LEMMA NextIsStored ==
    ASSUME NEW h \in StoredHeads, NEW e \in StoredEnvs
    PROVE  /\ NextRow(h, e) \in StoredRows /\ HeadOf(NextRow(h, e)) \in StoredHeads
           /\ NextRow(h, e).env = e
<1>1. h.seq + 1 \in Nat /\ h.hash \in StoredHashes
  <2>1. CASE h = Nothing
    <3>1. <<>> \in StoredHashes
      BY EmptySeq DEF StoredHashes
    <3>. QED BY <2>1, <3>1 DEF Nothing, ZeroHash
  <2>2. CASE h \in [seq : Nat, hash : StoredHashes]
    BY <2>2
  <2>. QED BY <2>1, <2>2 DEF StoredHeads
<1>2. PICK p, x : p = h.hash /\ x = <<h.seq + 1, e>>
  OBVIOUS
<1>3. x \in Nat \X StoredEnvs
  BY <1>1, <1>2
<1>4. Append(p, x) \in StoredHashes
  BY <1>1, <1>2, <1>3, AppendProperties DEF StoredHashes
<1>. QED BY <1>1, <1>2, <1>4 DEF NextRow, Row, RowHash, StoredRows, StoredHeads, HeadOf

\* Rows that continue a head have the seqs behind it.
Numbered(new, n, q) == \A i \in 1..n : new[i].seq = q + i

LEMMA SeqsGoOn ==
    ASSUME NEW h, h.seq \in Int, NEW n \in Nat, NEW new,
           \A i \in 1..n : Continues(h, new, i)
    PROVE  Numbered(new, n, h.seq)
<1>. DEFINE S == {i \in Nat : i \in 1..n => new[i].seq = h.seq + i}
<1>1. 0 \in S
  OBVIOUS
<1>2. ASSUME NEW i \in Nat, i \in S PROVE i + 1 \in S
  <2>1. SUFFICES ASSUME i + 1 \in 1..n PROVE new[i + 1].seq = h.seq + (i + 1)
    OBVIOUS
  <2>2. Continues(h, new, i + 1) /\ i + 1 - 1 = i
    BY <2>1
  <2>3. CASE i = 0
    <3>1. new[i + 1].seq = h.seq + 1
      BY <2>2, <2>3 DEF Continues, NextRow, Row
    <3>. QED BY <2>3, <3>1
  <2>4. CASE i # 0
    <3>1. new[i].seq = h.seq + i
      BY <1>2, <2>1, <2>4
    <3>2. new[i + 1].seq = new[i].seq + 1
      BY <2>2, <2>4 DEF Continues, NextRow, Row, HeadOf
    <3>. QED BY <3>1, <3>2
  <2>. QED BY <2>3, <2>4
<1>. HIDE DEF S
<1>3. Nat \subseteq S
  BY <1>1, <1>2, SetInduction
<1>. QED BY <1>3 DEF S, Numbered

\* The row made of the right head, at any position of the chain.
LEMMA NextIsGenuine ==
    ASSUME NEW m \in Seq(Envs), NEW n \in Nat, n + 1 <= Len(m)
    PROVE  HeadOf(NextRow(GenuineIn(m, n), m[n + 1])) = GenuineIn(m, n + 1)
<1>1. PICK l : l = SubSeq(m, 1, n)
  OBVIOUS
<1>2. n + 1 \in 1..Len(m) /\ n \in 0..Len(m) /\ \A i \in 1..n : i \in 1..Len(m)
  BY LenProperties
<1>3. PICK e : e = m[n + 1]
  OBVIOUS
<1>4. e \in Envs
  BY <1>2, <1>3, ElementOfSeq
<1>5. l \in Seq(Envs) /\ Len(l) = n /\ \A i \in 1..n : l[i] = m[i]
  <2>1. \A i \in 1..n : m[i] \in Envs
    BY <1>2, ElementOfSeq
  <2>2. PICK a \in Int : a = 1
    OBVIOUS
  <2>3. /\ SubSeq(m, a, n) \in Seq(Envs)
        /\ Len(SubSeq(m, a, n)) = (IF a <= n THEN n - a + 1 ELSE 0)
        /\ \A i \in 1..n - a + 1 : SubSeq(m, a, n)[i] = m[a + i - 1]
    BY <2>1, <2>2, SubSeqProperties
  <2>4. Len(l) = n
    BY <1>1, <2>2, <2>3
  <2>5. ASSUME NEW i \in 1..n PROVE l[i] = m[i]
    <3>1. i \in 1..n - a + 1 /\ a + i - 1 = i
      BY <2>2
    <3>. QED BY <1>1, <2>2, <2>3, <3>1
  <2>. QED BY <1>1, <2>2, <2>3, <2>4, <2>5
<1>6. PICK k : k = Append(l, e)
  OBVIOUS
<1>7. Linked(k, NextRow(GenuineIn(l, n), e), n + 1)
  BY <1>4, <1>5, <1>6, NextIsLinked
<1>8. \A i \in 1..n + 1 : k[i] = m[i]
  <2>1. k[n + 1] = e /\ \A i \in 1..n : k[i] = l[i]
    BY <1>4, <1>5, <1>6, AppendProperties
  <2>2. \A i \in 1..n + 1 : i = n + 1 \/ i \in 1..n
    OBVIOUS
  <2>. QED BY <1>3, <1>5, <2>1, <2>2
<1>9. GenuineIn(k, n + 1) = GenuineIn(m, n + 1)
  <2>1. n + 1 \in Nat
    OBVIOUS
  <2>. QED BY <1>8, <2>1, SamePrefix
<1>10. GenuineIn(l, n) = GenuineIn(m, n)
  BY <1>5, SamePrefix
<1>. QED BY <1>3, <1>7, <1>9, <1>10 DEF Linked

\* Rows that continue the right head are the right ones, each of them.
LEMMA GenuineGoOn ==
    ASSUME NEW m \in Seq(Envs), NEW c \in Nat, NEW n \in Nat, Len(m) = c + n, NEW new,
           \A i \in 1..n : Continues(GenuineIn(m, c), new, i) /\ m[c + i] = new[i].env
    PROVE  \A i \in 1..n : HeadOf(new[i]) = GenuineIn(m, c + i)
<1>. DEFINE S == {i \in Nat : i \in 1..n => HeadOf(new[i]) = GenuineIn(m, c + i)}
<1>1. 0 \in S
  OBVIOUS
<1>2. ASSUME NEW i \in Nat, i \in S PROVE i + 1 \in S
  <2>1. SUFFICES ASSUME i + 1 \in 1..n PROVE HeadOf(new[i + 1]) = GenuineIn(m, c + (i + 1))
    OBVIOUS
  <2>2. Continues(GenuineIn(m, c), new, i + 1) /\ m[c + (i + 1)] = new[i + 1].env /\ i + 1 - 1 = i
    BY <2>1
  <2>3. PICK h : h = GenuineIn(m, c + i)
    OBVIOUS
  <2>4. new[i + 1] = NextRow(h, new[i + 1].env)
    <3>1. CASE i = 0
      BY <2>2, <2>3, <3>1 DEF Continues
    <3>2. CASE i # 0
      <4>1. i \in 1..n
        BY <2>1, <3>2
      <4>. QED BY <1>2, <2>2, <2>3, <3>2, <4>1 DEF Continues
    <3>. QED BY <3>1, <3>2
  <2>5. PICK k \in Nat : k = c + i /\ k + 1 = c + (i + 1) /\ k + 1 <= Len(m)
    <3>1. c + i \in Nat /\ c + i + 1 = c + (i + 1) /\ c + i + 1 <= Len(m)
      BY <2>1
    <3>. QED BY <3>1
  <2>6. HeadOf(NextRow(GenuineIn(m, k), m[k + 1])) = GenuineIn(m, k + 1)
    BY <2>5, NextIsGenuine
  <2>. QED BY <2>2, <2>3, <2>4, <2>5, <2>6
<1>. HIDE DEF S
<1>3. Nat \subseteq S
  BY <1>1, <1>2, SetInduction
<1>. QED BY <1>3 DEF S

LEMMA GenuineIsStored ==
    ASSUME NEW l \in Seq(Envs), NEW n \in 0..Len(l)
    PROVE  /\ GenuineIn(l, n) \in StoredHeads /\ GenuineIn(l, n) # Nothing
           /\ GenuineIn(l, n).seq = n /\ n \in Nat
<1>1. n \in Nat
  BY LenProperties
<1>2. GenuineIn(l, n) \in [seq : Nat, hash : Hashes]
  BY GenuineShape
<1>. QED BY <1>1, <1>2, StoredShapes, NoRowIsNothing DEF StoredHeads, GenuineIn

\* u is the c elements of s with the n elements of t behind them.
Joined(u, s, c, t, n) ==
    /\ Len(u) = c + n
    /\ \A i \in 1..c : u[i] = s[i]
    /\ \A i \in 1..n : u[c + i] = t[i]

LEMMA JoinedShape ==
    ASSUME NEW S, NEW s \in Seq(S), NEW t \in Seq(S), NEW c \in Nat, NEW n \in Nat,
           c = Len(s), n = Len(t), NEW u, u = s \o t
    PROVE  u \in Seq(S) /\ Joined(u, s, c, t, n)
<1>1. /\ u \in Seq(S) /\ Len(u) = c + n
      /\ \A i \in 1..c + n : u[i] = IF i <= c THEN s[i] ELSE t[i - c]
  BY ConcatProperties
<1>2. \A i \in 1..c : u[i] = s[i]
  BY <1>1
<1>3. ASSUME NEW i \in 1..n PROVE u[c + i] = t[i]
  <2>1. c + i \in 1..c + n /\ ~(c + i <= c) /\ c + i - c = i
    OBVIOUS
  <2>. QED BY <1>1, <2>1
<1>. QED BY <1>1, <1>2, <1>3 DEF Joined

\* What a commit makes of n new rows behind c envelopes.
Brought(new, n, c) ==
    /\ new \in Seq(StoredRows) /\ \A i \in 1..n : Continues(head, new, i)
    /\ events' = events \o new
    /\ head' = IF n = 0 THEN head ELSE HeadOf(new[n])
    /\ Len(log') = c + n
    /\ \A i \in 1..n : log'[c + i] = new[i].env
    /\ \A i \in 1..c : log'[i] = log[i]
    /\ n = 0 => log' = log /\ events' = events

LEMMA CommitStores ==
    ASSUME StoreInv, TrailInv, Stored, NEW w \in Writers, Commit(w), log' \in Seq(Envs),
           NEW new, new = tx[w].new, NEW n \in Nat, n = Len(new), NEW c \in Nat, c = Len(log)
    PROVE  Brought(new, n, c)
<1>1. /\ new \in Seq(StoredRows) /\ \A i \in 1..n : Continues(head, new, i)
      /\ log \in Seq(Envs) /\ events \in Seq(StoredRows)
  BY DEF Stored, Continuing, TrailInv
<1>2. n = 0 <=> new = <<>>
  BY <1>1, EmptySeq
<1>3. PICK e : e = [i \in DOMAIN new |-> new[i].env]
  OBVIOUS
<1>4. e \in Seq(StoredEnvs) /\ Len(e) = n /\ \A i \in 1..n : e[i] = new[i].env
  <2>1. DOMAIN new = 1..n
    BY <1>1, LenProperties
  <2>2. ASSUME NEW i \in 1..n PROVE new[i].env \in StoredEnvs
    <3>1. new[i] \in StoredRows
      BY <1>1, ElementOfSeq
    <3>. QED BY <3>1 DEF StoredRows
  <2>3. e \in [1..n -> StoredEnvs]
    BY <1>3, <2>1, <2>2
  <2>. QED BY <1>3, <2>1, <2>3
<1>5. PICK m : m = log \o e
  OBVIOUS
<1>6. log' = m /\ events' = events \o new /\ head' = HeadSeen(w)
  BY <1>3, <1>5 DEF Commit
<1>7. log \in Seq(StoredEnvs)
  BY <1>1, StoredShapes, SeqMonotonic
<1>8. Joined(m, log, c, e, n)
  BY <1>4, <1>5, <1>7, JoinedShape
<1>9. Len(m) = c + n /\ (\A i \in 1..n : m[c + i] = new[i].env) /\ \A i \in 1..c : m[i] = log[i]
  BY <1>4, <1>8 DEF Joined
<1>11. n = 0 => m = log /\ events \o new = events
  <2>1. n = 0 => e = <<>>
    BY <1>4, EmptySeq
  <2>. QED BY <1>1, <1>2, <1>5, <2>1, ConcatEmptySeq
<1>12. head' = IF n = 0 THEN head ELSE HeadOf(new[n])
  BY <1>2, <1>6 DEF HeadSeen
<1>. QED BY <1>1, <1>6, <1>9, <1>11, <1>12 DEF Brought

LEMMA CommitKeepsStored ==
    ASSUME StoreInv, TrailInv, Stored, Remaining, [Next]_vars, NEW w \in Writers, Commit(w),
           damage' = damage
    PROVE  Stored' /\ Remaining'
<1>1. PICK new : new = tx[w].new
  OBVIOUS
<1>2. PICK n \in Nat, c \in Nat : n = Len(new) /\ c = Len(log)
  BY <1>1, LenProperties DEF Stored, Continuing, TrailInv
<1>3. log \in Seq(Envs) /\ log' \in Seq(Envs)
  BY TrailStepKeeps DEF TrailInv
<1>4. /\ new \in Seq(StoredRows) /\ \A i \in 1..n : Continues(head, new, i)
      /\ events' = events \o new
      /\ head' = IF n = 0 THEN head ELSE HeadOf(new[n])
      /\ Len(log') = c + n
      /\ \A i \in 1..n : log'[c + i] = new[i].env
      /\ \A i \in 1..c : log'[i] = log[i]
      /\ n = 0 => log' = log /\ events' = events
  <2>1. Brought(new, n, c)
    BY <1>1, <1>2, <1>3, CommitStores
  <2>. QED BY <2>1 DEF Brought
<1>5. n # 0 => n \in 1..n /\ new[n] \in StoredRows /\ new # <<>>
  <2>1. n # 0 => n \in 1..n
    OBVIOUS
  <2>. QED BY <1>2, <1>4, <2>1, ElementOfSeq, EmptySeq
<1>6. /\ tx'[w].new = <<>>
      /\ \A v \in Writers : tx'[v].new = <<>> \/ (n = 0 /\ tx'[v].new = tx[v].new)
  <2>1. tx'[w].new = <<>> /\ \A v \in Writers : v # w => tx'[v] = tx[v]
    BY DEF Commit, End, Idle, StoreInv, Shapes
  <2>2. n # 0 => \A v \in Writers : v # w => tx[v].new = <<>>
    BY <1>1, <1>5, OneHolder DEF Stored
  <2>. QED BY <2>1, <2>2
<1>7. Stored'
  <2>1. events' \in Seq(StoredRows)
    BY <1>4, ConcatProperties DEF Stored
  <2>2. head' \in StoredHeads
    BY <1>4, <1>5 DEF Stored, StoredHeads, StoredRows, HeadOf
  <2>3. ASSUME NEW v \in Writers PROVE Continuing(tx[v].new)'
    <3>1. CASE tx'[v].new = <<>>
      <4>1. <<>> \in Seq(StoredRows) /\ Len(<<>>) = 0 /\ 1..0 = {}
        BY EmptySeq
      <4>. QED BY <3>1, <4>1 DEF Continuing
    <3>2. CASE n = 0 /\ tx'[v].new = tx[v].new
      <4>1. head' = head
        BY <1>4, <3>2
      <4>2. Continuing(tx[v].new)
        BY DEF Stored
      <4>. QED BY <3>2, <4>1, <4>2 DEF Continuing, Continues
    <3>. QED BY <1>6, <3>1, <3>2
  <2>. QED BY <2>1, <2>2, <2>3, HoldingStays DEF Stored
<1>8. CASE n = 0
  <2>1. UNCHANGED <<log, events, head>>
    BY <1>4, <1>8
  <2>2. \A v \in Writers : tx'[v].new # <<>> => tx[v].new # <<>>
    BY <1>6
  <2>. QED BY <1>7, <2>1, <2>2 DEF Remaining, Gapless, GenuineIn
<1>9. CASE n # 0
  <2>1. \A v \in Writers : tx'[v].new = <<>>
    BY <1>6, <1>9
  <2>2. head # Nothing /\ head.seq \in Nat
    BY <1>1, <1>5, <1>9 DEF Stored, Continuing, StoredHeads
  <2>3. \A i \in 1..n : new[i].seq = head.seq + i
    <3>1. head.seq \in Int
      BY <2>2
    <3>2. Numbered(new, n, head.seq)
      BY <1>4, <3>1, SeqsGoOn
    <3>. QED BY <3>2 DEF Numbered
  <2>4. head'.seq = head.seq + n
    BY <1>4, <1>5, <1>9, <2>3 DEF HeadOf
  <2>5. head = GenuineIn(log, c) => head' = GenuineIn(log', c + n)
    <3>1. SUFFICES ASSUME head = GenuineIn(log, c) PROVE head' = GenuineIn(log', c + n)
      OBVIOUS
    <3>2. head = GenuineIn(log', c)
      BY <1>4, <3>1, SamePrefix
    <3>3. \A i \in 1..n : HeadOf(new[i]) = GenuineIn(log', c + i)
      BY <1>3, <1>4, <3>2, GenuineGoOn
    <3>. QED BY <1>4, <1>5, <1>9, <3>3
  <2>6. damage # "rewritten" => head = GenuineIn(log, c)
    BY <1>1, <1>2, <1>5, <1>9 DEF Remaining
  <2>7. damage \in {"none", "headless"} => Gapless(events', c + n)
    <3>1. SUFFICES ASSUME damage \in {"none", "headless"} PROVE Gapless(events', c + n)
      OBVIOUS
    <3>2. Gapless(events, c) /\ head.seq = c
      BY <1>2, <2>6, <3>1 DEF Remaining, GenuineIn
    <3>3. PICK e : e = events'
      OBVIOUS
    <3>4. PICK d \in Nat : d = c + 1 /\ d = Len(events)
      BY <3>2 DEF Gapless
    <3>5. Len(e) = d + n /\ \A i \in 1..d + n : e[i] = IF i <= d THEN events[i] ELSE new[i - d]
      <4>1. events \in Seq(StoredRows) /\ new \in Seq(StoredRows) /\ e = events \o new
        BY <1>4, <3>3 DEF Stored
      <4>2. Len(events) = d /\ Len(new) = n
        BY <1>2, <3>4
      <4>. QED BY <4>1, <4>2, ConcatProperties
    <3>6. ASSUME NEW i \in 1..d + n PROVE e[i].seq = i - 1
      <4>1. CASE i <= d
        <5>1. i \in 1..c + 1
          BY <3>4, <4>1
        <5>. QED BY <3>2, <3>5, <4>1, <5>1 DEF Gapless
      <4>2. CASE ~(i <= d)
        <5>1. i - d \in 1..n /\ c + (i - d) = i - 1
          BY <3>4, <4>2
        <5>2. e[i] = new[i - d] /\ new[i - d].seq = head.seq + (i - d)
          BY <2>3, <3>5, <4>2, <5>1
        <5>. QED BY <3>2, <5>1, <5>2
      <4>. QED BY <4>1, <4>2
    <3>7. d + n = c + n + 1
      BY <3>4
    <3>. QED BY <3>3, <3>5, <3>6, <3>7 DEF Gapless
  <2>8. damage' = "rewritten" => head'.seq = Len(log')
    BY <1>2, <1>4, <2>4 DEF Remaining
  <2>. QED BY <1>4, <1>7, <2>1, <2>5, <2>6, <2>7, <2>8 DEF Remaining
<1>. QED BY <1>8, <1>9

\* Nothing stored changes, and nothing more is appended.
LEMMA StoredAside ==
    ASSUME Stored, Remaining, UNCHANGED <<events, head, log, damage>>,
           \A v \in Writers : Holding(v)',
           \A v \in Writers : tx'[v].new \in {tx[v].new, <<>>}
    PROVE  Stored' /\ Remaining'
<1>1. ASSUME NEW v \in Writers PROVE Continuing(tx[v].new)'
  <2>1. CASE tx'[v].new = <<>>
    <3>1. <<>> \in Seq(StoredRows) /\ Len(<<>>) = 0 /\ 1..0 = {}
      BY EmptySeq
    <3>. QED BY <2>1, <3>1 DEF Continuing
  <2>2. CASE tx'[v].new = tx[v].new
    <3>1. Continuing(tx[v].new)
      BY DEF Stored
    <3>. QED BY <2>2, <3>1 DEF Continuing, Continues
  <2>. QED BY <2>1, <2>2
<1>2. \A v \in Writers : tx'[v].new # <<>> => tx[v].new # <<>>
  OBVIOUS
<1>. QED BY <1>1, <1>2 DEF Stored, Remaining, Gapless, GenuineIn

LEMMA AppendKeepsStored ==
    ASSUME StoreInv, TrailInv, Stored, Remaining, [Next]_vars, NEW w \in Writers, AppendAudit(w),
           damage' = damage
    PROVE  Stored' /\ Remaining'
<1>1. PICK new : new = tx[w].new
  OBVIOUS
<1>2. PICK n \in Nat : n = Len(new)
  BY <1>1, LenProperties DEF Stored, Continuing
<1>3. PICK e : e = AuditOf(tx[w].op)[n + 1]
  OBVIOUS
<1>4. e \in StoredEnvs
  <2>1. PICK todo : todo = AuditOf(tx[w].op)
    OBVIOUS
  <2>2. Writing(tx[w]) /\ tx[w].step = "audit"
    BY DEF TrailInv, AppendAudit, In
  <2>3. n < Len(todo) /\ todo \in Seq(Envs)
    BY <1>1, <1>2, <2>1, <2>2, AuditShape DEF Writing
  <2>4. n + 1 \in 1..Len(todo)
    BY <2>3, LenProperties
  <2>5. todo[n + 1] \in Envs
    BY <2>3, <2>4, ElementOfSeq
  <2>. QED BY <1>3, <2>1, <2>5, StoredShapes
<1>5. PICK h : h = HeadSeen(w)
  OBVIOUS
<1>6. /\ new \in Seq(StoredRows) /\ \A i \in 1..n : Continues(head, new, i)
      /\ head \in StoredHeads /\ h = IF new = <<>> THEN head ELSE HeadOf(new[n])
      /\ n = 0 <=> new = <<>>
  BY <1>1, <1>2, <1>5, EmptySeq DEF Stored, Continuing, HeadSeen
<1>7. h \in StoredHeads
  <2>1. new # <<>> => new[n] \in StoredRows
    BY <1>2, <1>6, ElementOfSeq
  <2>. QED BY <1>6, <2>1 DEF StoredHeads, StoredRows, HeadOf
<1>8. PICK r : r = NextRow(h, e)
  OBVIOUS
<1>9. r \in StoredRows /\ r.env = e
  BY <1>4, <1>7, <1>8, NextIsStored
<1>10. PICK u : u = Append(new, r)
  OBVIOUS
<1>11. /\ u \in Seq(StoredRows) /\ Len(u) = n + 1 /\ u[n + 1] = r
       /\ \A i \in 1..n : u[i] = new[i]
  BY <1>2, <1>6, <1>9, <1>10, Longer
<1>12. \A i \in 1..n + 1 : Continues(head, u, i)
  <2>1. ASSUME NEW i \in 1..n PROVE Continues(head, u, i)
    <3>1. i # 1 => i - 1 \in 1..n
      OBVIOUS
    <3>2. Continues(head, new, i) /\ u[i] = new[i] /\ (i # 1 => u[i - 1] = new[i - 1])
      BY <1>6, <1>11, <3>1
    <3>. QED BY <3>2 DEF Continues
  <2>2. Continues(head, u, n + 1)
    <3>1. n + 1 - 1 = n /\ (n + 1 = 1 <=> n = 0) /\ (n # 0 => n \in 1..n)
      OBVIOUS
    <3>2. h = IF n + 1 = 1 THEN head ELSE HeadOf(u[n + 1 - 1])
      BY <1>6, <1>11, <3>1
    <3>. QED BY <1>8, <1>9, <1>11, <3>2 DEF Continues
  <2>3. \A i \in 1..n + 1 : i = n + 1 \/ i \in 1..n
    OBVIOUS
  <2>. QED BY <2>1, <2>2, <2>3
<1>13. /\ tx'[w].new = u /\ \A v \in Writers : v # w => tx'[v] = tx[v]
       /\ UNCHANGED <<events, head, log>> /\ head # Nothing
       /\ \A i \in DOMAIN events : events[i].seq # h.seq + 1
  <2>1. PICK s : tx' = [tx EXCEPT ![w] = [tx[w] EXCEPT !.new = u, !.step = s]]
    BY <1>1, <1>2, <1>3, <1>5, <1>8, <1>10 DEF AppendAudit
  <2>2. [tx[w] EXCEPT !.new = u, !.step = s].new = u
    BY DEF StoreInv, Shapes, Shaped
  <2>3. tx'[w].new = u /\ \A v \in Writers : v # w => tx'[v] = tx[v]
    BY <2>1, <2>2 DEF StoreInv, Shapes
  <2>. QED BY <1>5, <2>3 DEF AppendAudit, data
<1>14. ASSUME NEW v \in Writers PROVE Continuing(tx[v].new)'
  <2>1. CASE v = w
    <3>1. Continuing(u)'
      BY <1>11, <1>12, <1>13 DEF Continuing, Continues
    <3>. QED BY <1>13, <2>1, <3>1 DEF Continuing
  <2>2. CASE v # w
    <3>1. Continuing(tx[v].new) /\ tx'[v] = tx[v]
      BY <1>13, <2>2 DEF Stored
    <3>. QED BY <1>13, <3>1 DEF Continuing, Continues
  <2>. QED BY <2>1, <2>2
<1>15. Stored'
  BY <1>13, <1>14, HoldingStays DEF Stored
<1>16. ASSUME damage = "headless" PROVE head = GenuineIn(log, Len(log))
  <2>1. CASE new # <<>>
    BY <1>1, <1>16, <2>1 DEF Remaining
  <2>2. CASE new = <<>> /\ head = GenuineIn(log, 0) /\ Len(log) # 0
    <3>1. PICK c \in Nat : c = Len(log) /\ c # 0
      BY <2>2, LenProperties DEF TrailInv
    <3>2. Gapless(events, c) /\ events \in Seq(StoredRows)
      BY <1>16, <3>1 DEF Remaining, Stored
    <3>3. 2 \in 1..c + 1 /\ 2 \in 1..Len(events)
      BY <3>1, <3>2 DEF Gapless
    <3>4. 2 \in DOMAIN events /\ events[2].seq = 2 - 1
      BY <3>2, <3>3, LenProperties DEF Gapless
    <3>5. h.seq = 0
      BY <1>6, <2>2 DEF GenuineIn
    <3>. QED BY <1>13, <3>4, <3>5
  <2>. QED BY <1>13, <1>16, <2>1, <2>2 DEF Remaining
<1>17. Remaining'
  BY <1>13, <1>16 DEF Remaining, Gapless, GenuineIn
<1>. QED BY <1>15, <1>17

LEMMA SeedKeepsStored ==
    ASSUME StoreInv, TrailInv, Stored, Remaining, [Next]_vars, SeedGenesis, damage' = damage
    PROVE  Stored' /\ Remaining'
<1>1. UNCHANGED <<log, tx>> /\ \A v \in Writers : tx[v].new = <<>>
  BY StoreAssumption DEF SeedGenesis, Stored, Holding, Free, ChainLock
<1>2. PICK c \in Nat : c = Len(log)
  BY LenProperties DEF TrailInv
<1>3. events' \in Seq(StoredRows)
  <2>1. PICK g : g = Genesis
    OBVIOUS
  <2>2. <<g>> \in Seq(StoredRows)
    BY <2>1, StoredShapes
  <2>3. <<g>> \o events \in Seq(StoredRows)
    BY <2>2, ConcatProperties DEF Stored
  <2>. QED BY <2>1, <2>3 DEF SeedGenesis, Stored
<1>4. head' \in StoredHeads
  BY StoredShapes DEF SeedGenesis, Stored
<1>5. \A v \in Writers : Continuing(tx[v].new)'
  <2>1. <<>> \in Seq(StoredRows) /\ Len(<<>>) = 0 /\ 1..0 = {}
    BY EmptySeq
  <2>. QED BY <1>1, <2>1 DEF Continuing
<1>6. Stored'
  BY <1>3, <1>4, <1>5, HoldingStays DEF Stored
<1>7. damage \in {"none", "headless"} => events' = events
  <2>1. SUFFICES ASSUME damage \in {"none", "headless"} PROVE events' = events
    OBVIOUS
  <2>2. Gapless(events, c) /\ events \in Seq(StoredRows)
    BY <1>2, <2>1 DEF Remaining, Stored
  <2>3. 1 \in 1..c + 1 /\ 1 \in DOMAIN events
    BY <2>2, LenProperties DEF Gapless
  <2>4. events[1].seq = 0
    BY <2>2, <2>3 DEF Gapless
  <2>. QED BY <2>3, <2>4 DEF SeedGenesis
<1>8. damage # "headless" => head' = head
  <2>1. GenuineIn(log, c) # Nothing /\ Nothing.seq = -1
    BY <1>2, NoRowIsNothing DEF Nothing
  <2>. QED BY <1>2, <2>1 DEF SeedGenesis, Remaining
<1>9. damage = "headless" => head' \in {Nothing, GenuineIn(log, 0), GenuineIn(log, c)}
  BY <1>2, GenesisIsGenuine DEF SeedGenesis, Remaining
<1>. QED BY <1>1, <1>2, <1>6, <1>7, <1>8, <1>9 DEF Remaining, Gapless, GenuineIn

-----------------------------------------------------------------------------
(* Damage.                                                                 *)

LEMMA RowIsStored ==
    ASSUME NEW p \in StoredHashes, NEW n \in Nat, NEW e \in StoredEnvs
    PROVE  Row(p, n, e) \in StoredRows
<1>1. PICK x : x = <<n, e>>
  OBVIOUS
<1>2. x \in Nat \X StoredEnvs
  BY <1>1
<1>3. Append(p, x) \in StoredHashes
  BY <1>2, AppendProperties DEF StoredHashes
<1>. QED BY <1>1, <1>3 DEF Row, RowHash, StoredRows

LEMMA AlteredIsStored ==
    ASSUME NEW r \in StoredRows
    PROVE  Altered(r) \in StoredRows /\ Altered(r).env \in StoredEnvs
<1>1. PICK e : e = [r.env EXCEPT !.what = "altered"]
  OBVIOUS
<1>2. e \in StoredEnvs
  BY <1>1 DEF StoredRows, StoredEnvs
<1>3. Altered(r) = [r EXCEPT !.env = e]
  BY <1>1 DEF Altered
<1>. QED BY <1>2, <1>3 DEF StoredRows

LEMMA WithoutShape ==
    ASSUME NEW R, NEW s \in Seq(R), NEW i \in DOMAIN s
    PROVE  Without(s, i) \in Seq(R)
<1>1. PICK m \in Nat : m = Len(s) /\ DOMAIN s = 1..m
  BY LenProperties
<1>2. i \in 1..m /\ i - 1 \in Int /\ i + 1 \in Int /\ m \in Int /\ 1 \in Int
  BY <1>1
<1>3. \A j \in 1..i - 1 : s[j] \in R
  <2>1. \A j \in 1..i - 1 : j \in 1..Len(s)
    BY <1>1, <1>2
  <2>. QED BY <2>1, ElementOfSeq
<1>4. \A j \in i + 1..m : s[j] \in R
  <2>1. \A j \in i + 1..m : j \in 1..Len(s)
    BY <1>1, <1>2
  <2>. QED BY <2>1, ElementOfSeq
<1>5. SubSeq(s, 1, i - 1) \in Seq(R)
  BY <1>2, <1>3, SubSeqProperties
<1>6. SubSeq(s, i + 1, m) \in Seq(R)
  BY <1>2, <1>4, SubSeqProperties
<1>. QED BY <1>1, <1>5, <1>6, ConcatProperties DEF Without

LEMMA ReforgedShape ==
    ASSUME events \in Seq(StoredRows), NEW i \in DOMAIN events,
           NEW c \in Nat, Len(events) = c + 1
    PROVE  /\ Reforged(i) \in Seq(StoredRows)
           /\ HeadOf(Reforged(i)[c + 1]) \in StoredHeads
           /\ HeadOf(Reforged(i)[c + 1]).seq = c
<1>1. DOMAIN events = 1..c + 1
  BY LenProperties
<1>2. PICK envs : envs = [j \in DOMAIN events |->
                            IF j = i THEN Altered(events[j]).env ELSE events[j].env]
  OBVIOUS
<1>3. ASSUME NEW j \in 1..c + 1 PROVE envs[j] \in StoredEnvs
  <2>1. events[j] \in StoredRows
    BY ElementOfSeq
  <2>. QED BY <1>1, <1>2, <2>1, AlteredIsStored DEF StoredRows
<1>4. PICK f : f = Reforged(i)
  OBVIOUS
<1>5. f = [j \in 1..c + 1 |-> Row([n \in 1..j - 1 |-> <<n - 1, envs[n]>>], j - 1, envs[j])]
  BY <1>1, <1>2, <1>4 DEF Reforged
<1>6. ASSUME NEW j \in 1..c + 1 PROVE f[j] \in StoredRows /\ f[j].seq = j - 1
  <2>1. PICK p : p = [n \in 1..j - 1 |-> <<n - 1, envs[n]>>]
    OBVIOUS
  <2>2. PICK k \in Nat : k = j - 1
    OBVIOUS
  <2>3. p \in StoredHashes
    <3>1. ASSUME NEW n \in 1..k PROVE <<n - 1, envs[n]>> \in Nat \X StoredEnvs
      <4>1. n \in 1..c + 1 /\ n - 1 \in Nat
        BY <2>2
      <4>. QED BY <1>3, <4>1
    <3>2. p \in [1..k -> Nat \X StoredEnvs]
      BY <2>1, <2>2, <3>1
    <3>. QED BY <3>2 DEF StoredHashes
  <2>4. f[j] = Row(p, k, envs[j])
    BY <1>5, <2>1, <2>2
  <2>5. Row(p, k, envs[j]) \in StoredRows
    BY <1>3, <2>3, RowIsStored
  <2>. QED BY <2>2, <2>4, <2>5 DEF Row
<1>7. f \in Seq(StoredRows)
  <2>1. PICK d \in Nat : d = c + 1
    OBVIOUS
  <2>2. f \in [1..d -> StoredRows]
    BY <1>5, <1>6, <2>1
  <2>. QED BY <2>2
<1>8. c + 1 \in 1..c + 1 /\ c + 1 - 1 = c
  OBVIOUS
<1>9. f[c + 1] \in StoredRows /\ f[c + 1].seq = c
  BY <1>6, <1>8
<1>. QED BY <1>4, <1>7, <1>9 DEF StoredHeads, StoredRows, HeadOf

LEMMA DamageKeepsStored ==
    ASSUME StoreInv, TrailInv, Stored, Remaining, [Next]_vars, Damage
    PROVE  Stored' /\ Remaining'
<1>1. PICK kind \in Damages, i \in DOMAIN events : damage' = kind /\ Damaged(kind, i)
  BY DEF Damage
<1>2. /\ damage = "none" /\ UNCHANGED <<log, tx>>
      /\ \A w \in Writers : tx[w].new = <<>>
  BY DEF Damage
<1>3. PICK c \in Nat : c = Len(log)
  BY LenProperties DEF TrailInv
<1>4. /\ Gapless(events, c) /\ Len(events) = c + 1 /\ head = GenuineIn(log, c)
      /\ events \in Seq(StoredRows)
  BY <1>2, <1>3 DEF Remaining, Gapless, Stored
<1>5. events[i] \in StoredRows /\ i \in 1..Len(events)
  BY <1>4, LenProperties, ElementOfSeq
<1>6. \A v \in Writers : Continuing(tx[v].new)' /\ Holding(v)'
  <2>1. <<>> \in Seq(StoredRows) /\ Len(<<>>) = 0 /\ 1..0 = {}
    BY EmptySeq
  <2>. QED BY <1>2, <2>1 DEF Continuing, Holding
<1>7. kind \in {"lost", "altered", "replaced", "headless", "rewritten"}
  BY DamageAssumption
<1>8. CASE kind = "lost"
  <2>1. events' = Without(events, i) /\ head' = head
    BY <1>1, <1>8 DEF Damaged
  <2>2. events' \in Seq(StoredRows)
    BY <1>4, <2>1, WithoutShape
  <2>. QED BY <1>1, <1>2, <1>3, <1>4, <1>6, <1>8, <2>1, <2>2 DEF Stored, Remaining, GenuineIn
<1>9. CASE kind = "altered"
  <2>1. events' = [events EXCEPT ![i] = Altered(events[i])] /\ head' = head
    BY <1>1, <1>9 DEF Damaged
  <2>2. Altered(events[i]) \in StoredRows
    BY <1>5, AlteredIsStored
  <2>3. events' \in Seq(StoredRows)
    BY <1>4, <1>5, <2>1, <2>2, ExceptSeq
  <2>. QED BY <1>1, <1>2, <1>3, <1>4, <1>6, <1>9, <2>1, <2>3 DEF Stored, Remaining, GenuineIn
<1>10. CASE kind = "replaced"
  <2>1. PICK r : r = Row(events[i].prev, events[i].seq, Altered(events[i]).env)
    OBVIOUS
  <2>2. events' = [events EXCEPT ![i] = r] /\ head' = head
    BY <1>1, <1>10, <2>1 DEF Damaged
  <2>3. r \in StoredRows
    <3>1. events[i].prev \in StoredHashes /\ events[i].seq \in Nat
      BY <1>5 DEF StoredRows
    <3>. QED BY <1>5, <2>1, <3>1, AlteredIsStored, RowIsStored
  <2>4. events' \in Seq(StoredRows)
    BY <1>4, <1>5, <2>2, <2>3, ExceptSeq
  <2>. QED BY <1>1, <1>2, <1>3, <1>4, <1>6, <1>10, <2>2, <2>4 DEF Stored, Remaining, GenuineIn
<1>11. CASE kind = "headless"
  <2>1. head' = Nothing /\ events' = events
    BY <1>1, <1>11 DEF Damaged
  <2>. QED BY <1>1, <1>2, <1>3, <1>4, <1>6, <1>11, <2>1
       DEF Stored, StoredHeads, Remaining, Gapless, GenuineIn
<1>12. CASE kind = "rewritten"
  <2>1. events' = Reforged(i) /\ head' = HeadOf(Reforged(i)[c + 1])
    BY <1>1, <1>4, <1>12 DEF Damaged
  <2>2. events' \in Seq(StoredRows) /\ head' \in StoredHeads /\ head'.seq = c
    BY <1>4, <2>1, ReforgedShape
  <2>. QED BY <1>1, <1>2, <1>3, <1>6, <1>12, <2>2 DEF Stored, Remaining
<1>. QED BY <1>7, <1>8, <1>9, <1>10, <1>11, <1>12

LEMMA StoredStays ==
    ASSUME StoreInv, TrailInv, Stored, Remaining, [Next]_vars
    PROVE  Stored' /\ Remaining'
<1>1. CASE Damage
  BY <1>1, DamageKeepsStored
<1>2. CASE ~Damage
  <2>1. damage' = damage
    BY <1>2 DEF Next, Verify, StartVerify, Stream, ReadHead, vars, verVars
  <2>2. CASE \E w \in Writers : Commit(w)
    BY <2>1, <2>2, CommitKeepsStored
  <2>3. CASE \E w \in Writers : AppendAudit(w)
    BY <2>1, <2>3, AppendKeepsStored
  <2>4. CASE SeedGenesis
    BY <2>1, <2>4, SeedKeepsStored
  <2>5. CASE ~SeedGenesis /\ \A w \in Writers : ~Commit(w) /\ ~AppendAudit(w)
    <3>1. UNCHANGED <<events, head, log>>
      BY <1>2, <2>5 DEF Next, StoreNext, StoreStep, Begin, StatementHits, StatementMisses, ReadBack,
         Rollback, Scan, GrowStale, Verify, StartVerify, Stream, ReadHead, vars, storeVars, data
    <3>2. \A v \in Writers : tx'[v].new \in {tx[v].new, <<>>}
      BY <2>5, NewStays
    <3>3. \A v \in Writers : Holding(v)'
      BY HoldingStays DEF Stored
    <3>. QED BY <2>1, <3>1, <3>2, <3>3, StoredAside
  <2>. QED BY <2>2, <2>3, <2>4, <2>5
<1>. QED BY <1>1, <1>2

-----------------------------------------------------------------------------
(* What a pass has seen.                                                   *)

LEMMA FromShape ==
    ASSUME Passing, log \in Seq(Envs)
    PROVE  /\ From(ver) \in Nat /\ From(ver) \in 0..Len(log)
           /\ \/ ver.checkpoint = Nothing /\ From(ver) = 0
              \/ ver.checkpoint # Nothing /\ ver.checkpoint = GenuineIn(log, From(ver))
<1>1. PICK c \in Nat : c = Len(log)
  BY LenProperties
<1>2. CASE ver.checkpoint = Nothing
  BY <1>1, <1>2 DEF From
<1>3. CASE ver.checkpoint # Nothing
  <2>1. PICK n \in 0..Len(log) : ver.checkpoint = GenuineIn(log, n)
    BY <1>3 DEF Passing
  <2>2. From(ver) = n
    BY <1>3, <2>1 DEF From, GenuineIn
  <2>. QED BY <1>1, <1>3, <2>1, <2>2
<1>. QED BY <1>2, <1>3

LEMMA PassingAside ==
    ASSUME Passing, Grew, ver' = ver, damage' = damage \/ damage = "none"
    PROVE  Passing'
<1>1. PICK c \in Nat, d \in Nat : c = Len(log) /\ d = Len(log') /\ c <= d
  BY GenuineStays DEF Grew
<1>2. \A n \in 1..c + 1 : EnvAt(n)' = EnvAt(n)
  <2>1. \A n \in 1..c + 1 : n # 1 => n - 1 \in 1..c
    OBVIOUS
  <2>. QED BY <1>1, <2>1 DEF EnvAt, Grew
<1>3. PICK f \in Nat : f = From(ver) /\ f \in 0..c
  BY <1>1, FromShape DEF Grew
<1>4. From(ver') = f
  BY <1>3 DEF From
<1>5. ver.checkpoint = Nothing \/ \E n \in 0..d : ver.checkpoint = GenuineIn(log', n)
  <2>1. CASE ver.checkpoint # Nothing
    <3>1. ver.checkpoint = GenuineIn(log, f)
      BY <1>3, <2>1, FromShape DEF Grew
    <3>2. GenuineIn(log', f) = GenuineIn(log, f) /\ f \in 0..d
      BY <1>1, <1>3, GenuineStays
    <3>. QED BY <3>1, <3>2
  <2>. QED BY <2>1
<1>6. Seen(f, ver.last, ver.seen) => Seen(f, ver.last, ver.seen)'
  <2>1. f + 1 \in 1..c + 1
    BY <1>3
  <2>. QED BY <1>2, <2>1 DEF Seen, Covers
<1>7. Accepted(f, ver.last, ver.floor, ver.seen) => Accepted(f, ver.last, ver.floor, ver.seen)'
  <2>1. PICK last, floor, seen : last = ver.last /\ floor = ver.floor /\ seen = ver.seen
    OBVIOUS
  <2>2. SUFFICES ASSUME Accepted(f, last, floor, seen) PROVE Accepted(f, last, floor, seen)'
    BY <2>1
  <2>3. Seen(f, last, seen) /\ last.seq \in floor..c /\ floor \in 0..c
    BY <1>1, <1>3, <2>1, <2>2 DEF Passing, Accepted
  <2>4. PICK n \in Nat : n = Len(seen) /\ last.seq = f + n - 1
    BY <2>3, LenProperties DEF Seen, Covers
  <2>5. \A i \in 1..n : f + i \in 1..c + 1
    BY <1>3, <2>3, <2>4
  <2>6. damage # "rewritten" => \A i \in 1..n : seen[i] = EnvAt(f + i)'
    <3>1. damage # "rewritten" => \A i \in 1..n : seen[i] = EnvAt(f + i)
      BY <2>2, <2>4 DEF Accepted
    <3>. QED BY <1>2, <2>5, <3>1
  <2>7. last.seq \in floor..d
    BY <1>1, <2>3
  <2>. QED BY <1>1, <2>2, <2>4, <2>6, <2>7 DEF Accepted
<1>8. ver.floor \in 0..d
  BY <1>1 DEF Passing
<1>. QED BY <1>1, <1>3, <1>4, <1>5, <1>6, <1>7, <1>8 DEF Passing, From

LEMMA CoversFirst ==
    ASSUME log \in Seq(Envs), NEW r \in StoredRows, Recomputes(r), NEW checkpoint,
           Anchored(r, checkpoint), NEW f \in 0..Len(log),
           \/ checkpoint = Nothing /\ f = 0
           \/ checkpoint # Nothing /\ checkpoint = GenuineIn(log, f),
           NEW s, s[1] = r.env
    PROVE  Covers(f, r, s, 1) /\ r.env = EnvAt(f + 1)
<1>1. PICK p, e, h : p = r.prev /\ e = r.env /\ h = r.hash
  OBVIOUS
<1>2. p \in StoredHashes /\ e \in StoredEnvs /\ h \in StoredHashes /\ f \in Nat
  BY <1>1, LenProperties DEF StoredRows
<1>3. r.seq = f
  BY DEF Anchored, HeadOf, GenuineIn
<1>4. PICK x : x = <<f, e>>
  OBVIOUS
<1>5. h = Append(p, x) /\ x \in Nat \X StoredEnvs
  BY <1>1, <1>2, <1>3, <1>4 DEF Recomputes, RowHash
<1>6. PICK n \in Nat : n = Len(p)
  BY <1>2, LenProperties DEF StoredHashes
<1>7. Len(h) = n + 1 /\ h[n + 1] = x
  BY <1>2, <1>5, <1>6, AppendProperties DEF StoredHashes
<1>8. Len(h) = f + 1 /\ h[f + 1] = <<f, EnvAt(f + 1)>>
  <2>1. CASE checkpoint = Nothing /\ f = 0
    <3>1. h = <<<<0, GenesisEnv>>>>
      BY <1>1, <2>1, GenesisHash DEF Anchored
    <3>2. f + 1 = 1 /\ EnvAt(f + 1) = GenesisEnv
      BY <2>1 DEF EnvAt
    <3>. QED BY <2>1, <3>1, <3>2
  <2>2. CASE checkpoint # Nothing /\ checkpoint = GenuineIn(log, f)
    <3>1. h = GenuineIn(log, f).hash
      BY <1>1, <2>2 DEF Anchored, HeadOf
    <3>2. Len(h) = f + 1
      BY <3>1, GenuineShape
    <3>3. f + 1 \in 1..f + 1 /\ f + 1 - 1 = f
      BY <1>2
    <3>4. h[f + 1] = <<f + 1 - 1, IF f + 1 = 1 THEN GenesisEnv ELSE log[f + 1 - 1]>>
      BY <3>1, <3>3 DEF GenuineIn
    <3>. QED BY <3>2, <3>3, <3>4 DEF EnvAt
  <2>. QED BY <2>1, <2>2
<1>9. n = f
  BY <1>2, <1>7, <1>8
<1>10. e = EnvAt(f + 1)
  BY <1>4, <1>7, <1>8, <1>9
<1>11. Covers(f, r, s, 1)
  <2>1. f + 1 - 1 = f /\ \A i \in 1..1 : i = 1
    BY <1>2
  <2>2. h[f + 1] = <<f, s[1]>>
    BY <1>1, <1>4, <1>7, <1>9
  <2>. QED BY <1>1, <1>2, <1>3, <1>8, <2>1, <2>2 DEF Covers
<1>. QED BY <1>1, <1>10, <1>11

LEMMA CoversOn ==
    ASSUME NEW f \in Nat, NEW n \in Nat, NEW last, NEW s, Covers(f, last, s, n),
           NEW r \in StoredRows, Recomputes(r), Follows(r, last), s[n + 1] = r.env
    PROVE  Covers(f, r, s, n + 1)
<1>1. PICK p, e, h : p = last.hash /\ e = r.env /\ h = r.hash
  OBVIOUS
<1>2. /\ p \in StoredHashes /\ e \in StoredEnvs /\ h \in StoredHashes
      /\ r.prev = p /\ r.seq = f + n
      /\ Len(p) = f + n /\ \A i \in 1..n : p[f + i] = <<f + i - 1, s[i]>>
  <2>1. last.seq = f + n - 1 /\ r.seq = last.seq + 1 /\ r.prev = p
    BY <1>1 DEF Covers, Follows
  <2>2. r.seq = f + n
    BY <2>1
  <2>. QED BY <1>1, <2>1, <2>2 DEF Covers, StoredRows
<1>3. PICK x : x = <<f + n, e>>
  OBVIOUS
<1>4. h = Append(p, x) /\ x \in Nat \X StoredEnvs
  BY <1>1, <1>2, <1>3 DEF Recomputes, RowHash
<1>5. PICK k \in Nat : k = f + n
  OBVIOUS
<1>6. Len(h) = k + 1 /\ h[k + 1] = x /\ \A i \in 1..k : h[i] = p[i]
  BY <1>2, <1>4, <1>5, AppendProperties DEF StoredHashes
<1>7. ASSUME NEW i \in 1..n + 1 PROVE h[f + i] = <<f + i - 1, s[i]>>
  <2>1. CASE i = n + 1
    <3>1. f + i = k + 1 /\ f + i - 1 = f + n
      BY <1>5, <2>1
    <3>. QED BY <1>1, <1>3, <1>6, <2>1, <3>1
  <2>2. CASE i \in 1..n
    <3>1. f + i \in 1..k
      BY <1>5, <2>2
    <3>. QED BY <1>2, <1>6, <2>2, <3>1
  <2>. QED BY <2>1, <2>2
<1>8. f + (n + 1) - 1 = f + n /\ f + (n + 1) = k + 1
  BY <1>5
<1>. QED BY <1>1, <1>2, <1>6, <1>7, <1>8 DEF Covers

\* A span that passes is seen, row for row.
LEMMA CoversSpan ==
    ASSUME log \in Seq(Envs), NEW span \in Seq(StoredRows), span # <<>>,
           NEW last, NEW checkpoint, SpanPasses(span, last, checkpoint),
           NEW f \in 0..Len(log),
           \/ checkpoint = Nothing /\ f = 0
           \/ checkpoint # Nothing /\ checkpoint = GenuineIn(log, f),
           NEW seen \in Seq(StoredEnvs), last = Nothing => seen = <<>>,
           last # Nothing => Seen(f, last, seen),
           NEW on, on = seen \o [i \in DOMAIN span |-> span[i].env]
    PROVE  Seen(f, HeadOf(span[Len(span)]), on)
<1>1. PICK c \in Nat, n \in Nat : c = Len(seen) /\ n = Len(span) /\ DOMAIN span = 1..n /\ n # 0
  BY LenProperties, EmptySeq
<1>2. PICK e : e = [i \in DOMAIN span |-> span[i].env]
  OBVIOUS
<1>3. f \in Nat /\ \A i \in 1..n : span[i] \in StoredRows
  BY <1>1, LenProperties, ElementOfSeq
<1>4. e \in Seq(StoredEnvs) /\ Len(e) = n /\ \A i \in 1..n : e[i] = span[i].env
  <2>1. e \in [1..n -> StoredEnvs]
    BY <1>1, <1>2, <1>3 DEF StoredRows
  <2>. QED BY <1>1, <1>2, <2>1
<1>5. on \in Seq(StoredEnvs) /\ Joined(on, seen, c, e, n)
  BY <1>1, <1>2, <1>4, JoinedShape
<1>6. /\ Len(on) = c + n /\ \A i \in 1..c : on[i] = seen[i]
      /\ \A i \in 1..n : on[c + i] = span[i].env
  BY <1>4, <1>5 DEF Joined
<1>7. \A i \in 1..n : Recomputes(span[i])
  BY <1>1 DEF SpanPasses
<1>8. \A i \in 1..n : i # 1 => Follows(span[i], HeadOf(span[i - 1]))
  BY <1>1 DEF SpanPasses
<1>9. Covers(f, span[1], on, c + 1) /\ on[1] = EnvAt(f + 1)
  <2>1. 1 \in 1..n /\ span[1] \in StoredRows /\ Recomputes(span[1]) /\ on[c + 1] = span[1].env
    BY <1>1, <1>3, <1>6, <1>7
  <2>2. CASE last = Nothing
    <3>1. c = 0 /\ c + 1 = 1
      BY <1>1, <2>2, EmptySeq
    <3>2. Anchored(span[1], checkpoint)
      BY <1>1, <2>1, <2>2 DEF SpanPasses
    <3>3. on[1] = span[1].env
      BY <2>1, <3>1
    <3>4. Covers(f, span[1], on, 1) /\ span[1].env = EnvAt(f + 1)
      BY <2>1, <3>2, <3>3, CoversFirst
    <3>. QED BY <3>1, <3>3, <3>4
  <2>3. CASE last # Nothing
    <3>1. Seen(f, last, seen) /\ Follows(span[1], last)
      BY <1>1, <2>1, <2>3 DEF SpanPasses
    <3>2. Covers(f, last, seen, c) /\ seen[1] = EnvAt(f + 1) /\ c # 0
      BY <1>1, <3>1, EmptySeq DEF Seen
    <3>3. Covers(f, last, on, c)
      BY <1>6, <3>2 DEF Covers
    <3>4. 1 \in 1..c
      BY <3>2
    <3>. QED BY <1>3, <1>6, <2>1, <3>1, <3>2, <3>3, <3>4, CoversOn
  <2>. QED BY <2>2, <2>3
<1>. DEFINE S == {i \in Nat : i \in 1..n => Covers(f, span[i], on, c + i)}
<1>10. 0 \in S
  OBVIOUS
<1>11. ASSUME NEW i \in Nat, i \in S PROVE i + 1 \in S
  <2>1. PICK j \in Nat : j = i + 1 /\ j - 1 = i
    OBVIOUS
  <2>2. SUFFICES ASSUME j \in 1..n PROVE Covers(f, span[j], on, c + j)
    BY <2>1
  <2>3. CASE i = 0
    BY <1>9, <2>1, <2>3
  <2>4. CASE i # 0
    <3>1. i \in 1..n /\ j # 1
      BY <2>1, <2>2, <2>4
    <3>2. PICK k \in Nat : k = c + i /\ k + 1 = c + j
      <4>1. c + i \in Nat /\ c + i + 1 = c + j
        BY <2>1
      <4>. QED BY <4>1
    <3>3. Covers(f, span[i], on, k)
      BY <1>11, <3>1, <3>2
    <3>4. Covers(f, HeadOf(span[i]), on, k)
      BY <3>3 DEF Covers, HeadOf
    <3>5. /\ span[j] \in StoredRows /\ Recomputes(span[j]) /\ Follows(span[j], HeadOf(span[i]))
          /\ on[k + 1] = span[j].env
      BY <1>3, <1>6, <1>7, <1>8, <2>1, <2>2, <3>1, <3>2
    <3>6. Covers(f, span[j], on, k + 1)
      BY <1>3, <3>4, <3>5, CoversOn
    <3>. QED BY <3>2, <3>6
  <2>. QED BY <2>3, <2>4
<1>. HIDE DEF S
<1>12. Nat \subseteq S
  BY <1>10, <1>11, SetInduction
<1>13. n \in 1..n /\ c + n # 0
  BY <1>1
<1>14. Covers(f, span[n], on, c + n)
  BY <1>12, <1>13 DEF S
<1>15. Covers(f, HeadOf(span[n]), on, c + n)
  BY <1>14 DEF Covers, HeadOf
<1>16. on # <<>>
  BY <1>5, <1>6, <1>13, EmptySeq
<1>. QED BY <1>1, <1>5, <1>6, <1>9, <1>15, <1>16 DEF Seen

-----------------------------------------------------------------------------
(* No false comfort.                                                       *)

\* Whatever is stored, what is streamed of it are stored rows.
LEMMA SpanOfAny ==
    ASSUME NEW R, NEW e \in Seq(R), NEW s
    PROVE  RowsFrom(e, s) \in Seq(R)
<1>. DEFINE later == {i \in DOMAIN e : e[i].seq >= s}
            first == CHOOSE i \in later : \A j \in later : i <= j
<1>1. PICK m \in Nat : m = Len(e) /\ DOMAIN e = 1..m
  BY LenProperties
<1>2. CASE later = {}
  BY <1>2, EmptySeq DEF RowsFrom
<1>3. CASE later # {}
  <2>1. later \subseteq 1..m /\ later \in SUBSET Nat
    BY <1>1
  <2>2. first \in later
    <3>1. \E i \in later : \A j \in later : i <= j
      BY <1>3, <2>1, LeastElement
    <3>. HIDE DEF later
    <3>. QED BY <3>1
  <2>3. first \in 1..m
    BY <2>1, <2>2
  <2>. HIDE DEF first
  <2>6. first \in Int /\ m \in Int /\ \A i \in first..m : i \in 1..Len(e)
    BY <1>1, <2>3
  <2>4. \A i \in first..m : e[i] \in R
    BY <2>6, ElementOfSeq
  <2>5. SubSeq(e, first, m) \in Seq(R)
    BY <2>4, <2>6, SubSeqProperties
  <2>. QED BY <1>1, <1>3, <2>5 DEF RowsFrom, first
<1>. QED BY <1>2, <1>3

LEMMA StreamPasses ==
    ASSUME PassShape, TrailInv, Stored, Remaining, Passing, Stream
    PROVE  Passing'
<1>1. PICK c \in Nat : c = Len(log) /\ log \in Seq(Envs)
  BY LenProperties DEF TrailInv
<1>2. PICK f \in Nat : /\ f = From(ver) /\ f \in 0..c
                       /\ \/ ver.checkpoint = Nothing /\ f = 0
                          \/ ver.checkpoint # Nothing /\ ver.checkpoint = GenuineIn(log, f)
  BY <1>1, FromShape
<1>3. PICK s, span : s = NextSeq /\ span = RowsFrom(events, s)
  OBVIOUS
<1>4. PICK on : on = ver.seen \o [i \in DOMAIN span |-> span[i].env]
  OBVIOUS
<1>5. UNCHANGED <<log, damage>>
  BY DEF Stream, storeVars, data
<1>6. span \in Seq(StoredRows)
  BY <1>3, SpanOfAny DEF Stored
<1>7. ver.seen \in Seq(StoredEnvs)
  BY EmptySeq DEF Passing, Seen
<1>8. \A n : EnvAt(n)' = EnvAt(n)
  BY <1>5 DEF EnvAt
<1>9. \A g, h, u : Seen(g, h, u)' = Seen(g, h, u)
  BY <1>5 DEF Seen, EnvAt
<1>10. \A n : GenuineIn(log, n)' = GenuineIn(log, n)
  BY <1>5 DEF GenuineIn
<1>11. ver.verdict # "ok"
  BY DEF Passing, Stream
<1>12. CASE ver' = [ver EXCEPT !.step = "done", !.verdict = "broken"]
  <2>1. /\ ver'.checkpoint = ver.checkpoint /\ ver'.floor = ver.floor /\ ver'.last = ver.last
        /\ ver'.seen = ver.seen /\ ver'.step = "done" /\ ver'.verdict = "broken"
    BY <1>12 DEF PassShape
  <2>2. From(ver') = From(ver)
    BY <2>1 DEF From
  <2>. QED BY <1>5, <1>9, <1>10, <2>1, <2>2 DEF Passing
<1>13. CASE /\ SpanPasses(span, ver.last, ver.checkpoint) /\ span # <<>>
            /\ ver' = [[ver EXCEPT !.before = ver.last, !.seen = on]
                          EXCEPT !.step = "head", !.last = HeadOf(span[Len(span)])]
  <2>1. PICK top : top = HeadOf(span[Len(span)])
    OBVIOUS
  <2>2. /\ ver'.checkpoint = ver.checkpoint /\ ver'.floor = ver.floor /\ ver'.last = top
        /\ ver'.seen = on /\ ver'.step = "head" /\ ver'.verdict = ver.verdict
    BY <1>13, <2>1 DEF PassShape
  <2>3. From(ver') = f
    BY <1>2, <2>2 DEF From
  <2>4. Seen(f, top, on)
    <3>1. ver.last = Nothing => ver.seen = <<>>
      BY DEF Passing
    <3>2. ver.last # Nothing => Seen(f, ver.last, ver.seen)
      BY <1>2 DEF Passing
    <3>. QED BY <1>1, <1>2, <1>4, <1>6, <1>7, <1>13, <2>1, <3>1, <3>2, CoversSpan
  <2>5. top # Nothing
    <3>1. Len(on) \in Nat \ {0} /\ top.seq = f + Len(on) - 1
      BY <2>4, EmptySeq DEF Seen, Covers
    <3>2. top.seq # -1
      BY <3>1
    <3>. QED BY <3>2 DEF Nothing
  <2>6. damage \in {"none", "headless"} => top.seq >= ver.floor
    <3>1. SUFFICES ASSUME damage \in {"none", "headless"} PROVE top.seq = c
      BY <1>1 DEF Passing
    <3>2. Gapless(events, c) /\ events \in Seq(StoredRows)
      BY <1>1, <3>1 DEF Remaining, Stored
    <3>3. s \in Nat
      <4>1. ver.last # Nothing => ver.last.seq + 1 \in Nat
        <5>1. SUFFICES ASSUME ver.last # Nothing PROVE ver.last.seq + 1 \in Nat
          OBVIOUS
        <5>2. Seen(f, ver.last, ver.seen)
          BY <1>2, <5>1 DEF Passing
        <5>3. Len(ver.seen) \in Nat /\ ver.last.seq = f + Len(ver.seen) - 1
          BY <5>2, LenProperties DEF Seen, Covers
        <5>. QED BY <5>3
      <4>2. (IF ver.checkpoint = Nothing THEN 0 ELSE ver.checkpoint.seq) \in Nat
        BY <1>2 DEF From
      <4>. QED BY <1>3, <4>1, <4>2 DEF NextSeq
    <3>4. s <= c
      BY <1>1, <1>3, <1>13, <3>2, <3>3, SpanOfGapless
    <3>5. Spanning(span, StoredRows, events, s, c + 1 - s)
      BY <1>1, <1>3, <3>2, <3>3, <3>4, SpanOfGapless
    <3>6. c + 1 - s \in 1..c + 1 - s /\ s + (c + 1 - s) = c + 1 /\ c + 1 \in 1..c + 1
      BY <3>3, <3>4
    <3>7. span[Len(span)] = events[c + 1] /\ events[c + 1].seq = c
      <4>1. span[c + 1 - s] = events[s + (c + 1 - s)] /\ Len(span) = c + 1 - s
        BY <3>5, <3>6 DEF Spanning
      <4>2. events[c + 1].seq = c + 1 - 1
        BY <3>2, <3>6 DEF Gapless
      <4>. QED BY <3>6, <4>1, <4>2
    <3>. QED BY <2>1, <3>7 DEF HeadOf
  <2>. QED BY <1>1, <1>5, <1>9, <1>10, <1>11, <2>2, <2>3, <2>4, <2>5, <2>6 DEF Passing
<1>14. CASE /\ span = <<>> /\ ver.last # Nothing
            /\ ver' = [[ver EXCEPT !.before = ver.last, !.seen = on] EXCEPT !.step = "head"]
  <2>1. on = ver.seen
    <3>1. [i \in DOMAIN span |-> span[i].env] = <<>>
      BY <1>14
    <3>. QED BY <1>4, <1>7, <3>1, ConcatEmptySeq
  <2>2. /\ ver'.checkpoint = ver.checkpoint /\ ver'.floor = ver.floor /\ ver'.last = ver.last
        /\ ver'.seen = ver.seen /\ ver'.step = "head" /\ ver'.verdict = ver.verdict
    BY <1>14, <2>1 DEF PassShape
  <2>3. From(ver') = From(ver)
    BY <2>2 DEF From
  <2>. QED BY <1>5, <1>9, <1>10, <1>11, <1>14, <2>2, <2>3 DEF Passing
<1>. QED BY <1>3, <1>4, <1>12, <1>13, <1>14 DEF Stream, Report

LEMMA HeadPasses ==
    ASSUME PassShape, TrailInv, Stored, Remaining, Passing, ReadHead
    PROVE  Passing'
<1>1. PICK c \in Nat : c = Len(log) /\ log \in Seq(Envs)
  BY LenProperties DEF TrailInv
<1>2. PICK f \in Nat : f = From(ver) /\ f \in 0..c
  BY <1>1, FromShape
<1>3. UNCHANGED <<log, damage>>
  BY DEF ReadHead, storeVars, data
<1>4. \A n : EnvAt(n)' = EnvAt(n)
  BY <1>3 DEF EnvAt
<1>5. \A g, h, u : Seen(g, h, u)' = Seen(g, h, u)
  BY <1>3 DEF Seen, EnvAt
<1>6. \A n : GenuineIn(log, n)' = GenuineIn(log, n)
  BY <1>3 DEF GenuineIn
<1>7. ver.verdict # "ok" /\ ver.last # Nothing
  BY DEF Passing, ReadHead
<1>8. PICK step, verdict : /\ ver' = [ver EXCEPT !.step = step, !.verdict = verdict]
                           /\ step # "head"
                           /\ verdict = "ok" => step = "done" /\ head = ver.last
  <2>1. CASE ver' = [ver EXCEPT !.step = "stream"]
    <3>1. ver' = [ver EXCEPT !.step = "stream", !.verdict = ver.verdict]
      BY <2>1 DEF PassShape
    <3>2. "stream" # "head" /\ (ver.verdict = "ok" => "stream" = "done" /\ head = ver.last)
      BY <1>7
    <3>. WITNESS "stream", ver.verdict
    <3>. QED BY <3>1, <3>2
  <2>2. CASE ver' = [ver EXCEPT !.step = "done", !.verdict = IF head = ver.last THEN "ok" ELSE "broken"]
    <3>1. PICK said : said = IF head = ver.last THEN "ok" ELSE "broken"
      OBVIOUS
    <3>2. "done" # "head" /\ (said = "ok" => "done" = "done" /\ head = ver.last)
      BY <3>1
    <3>3. ver' = [ver EXCEPT !.step = "done", !.verdict = said]
      BY <2>2, <3>1
    <3>. WITNESS "done", said
    <3>. QED BY <3>2, <3>3
  <2>. QED BY <2>1, <2>2 DEF ReadHead, Report
<1>9. /\ ver'.checkpoint = ver.checkpoint /\ ver'.floor = ver.floor /\ ver'.last = ver.last
      /\ ver'.seen = ver.seen /\ ver'.step = step /\ ver'.verdict = verdict
  BY <1>8 DEF PassShape
<1>10. From(ver') = f
  BY <1>2, <1>9 DEF From
<1>11. verdict = "ok" => step = "done" /\ Accepted(f, ver.last, ver.floor, ver.seen)
  <2>1. SUFFICES ASSUME verdict = "ok"
                 PROVE  step = "done" /\ Accepted(f, ver.last, ver.floor, ver.seen)
    OBVIOUS
  <2>2. head = ver.last /\ step = "done"
    BY <1>8, <2>1
  <2>3. /\ Seen(f, ver.last, ver.seen) /\ ver.floor \in 0..c
        /\ damage \in {"none", "headless"} => ver.last.seq >= ver.floor
    BY <1>1, <1>2, <1>7 DEF Passing
  <2>4. PICK n \in Nat : n = Len(ver.seen) /\ n # 0
    BY <2>3, EmptySeq, LenProperties DEF Seen
  <2>5. /\ ver.last.seq = f + n - 1
        /\ \A i \in 1..n : ver.last.hash[f + i] = <<f + i - 1, ver.seen[i]>>
    BY <2>3, <2>4 DEF Seen, Covers
  <2>6. damage = "rewritten" => ver.last.seq = c
    BY <1>1, <2>2 DEF Remaining
  <2>7. damage # "rewritten" => \E k \in 0..c : ver.last = GenuineIn(log, k)
                                              /\ (damage # "headless" => k = c)
    BY <1>1, <1>7, <2>2 DEF Remaining
  <2>8. ASSUME NEW k \in 0..c, ver.last = GenuineIn(log, k)
        PROVE  ver.last.seq = k /\ \A i \in 1..n : ver.seen[i] = EnvAt(f + i)
    <3>1. ver.last.seq = k /\ k = f + n - 1
      BY <2>5, <2>8 DEF GenuineIn
    <3>2. ASSUME NEW i \in 1..n PROVE ver.seen[i] = EnvAt(f + i)
      <4>1. f + i \in 1..k + 1
        BY <3>1
      <4>2. ver.last.hash[f + i] = <<f + i - 1, EnvAt(f + i)>>
        BY <2>8, <4>1 DEF GenuineIn, EnvAt
      <4>. QED BY <2>5, <4>2
    <3>. QED BY <3>1, <3>2
  <2>9. ver.last.seq \in ver.floor..c
    <3>1. CASE damage = "rewritten"
      BY <2>3, <2>6, <3>1
    <3>2. CASE damage # "rewritten"
      <4>1. PICK k \in 0..c : ver.last = GenuineIn(log, k) /\ (damage # "headless" => k = c)
        BY <2>7, <3>2
      <4>2. ver.last.seq = k
        BY <2>8, <4>1
      <4>. QED BY <2>3, <4>1, <4>2
    <3>. QED BY <3>1, <3>2
  <2>10. damage # "rewritten" => \A i \in 1..n : ver.seen[i] = EnvAt(f + i)
    BY <2>7, <2>8
  <2>. QED BY <1>1, <1>7, <2>2, <2>4, <2>9, <2>10 DEF Accepted
<1>12. \A g, h, fl, u : Accepted(g, h, fl, u)' = Accepted(g, h, fl, u)
  BY <1>3 DEF Accepted, EnvAt
<1>. QED BY <1>2, <1>3, <1>5, <1>6, <1>7, <1>8, <1>9, <1>10, <1>11, <1>12 DEF Passing

\* A pass that begins has seen nothing yet.
LEMMA StartPasses ==
    ASSUME TrailInv, StartVerify
    PROVE  Passing'
<1>1. PICK n \in Nat : n = Len(log)
  BY LenProperties DEF TrailInv
<1>2. PICK c \in {Nothing} \union {Genuine(m) : m \in 0..Len(log)} :
          ver' = [NotRunning EXCEPT !.step = "stream", !.checkpoint = c, !.floor = Len(log)]
  BY DEF StartVerify
<1>3. /\ ver'.verdict = "none" /\ ver'.checkpoint = c /\ ver'.last = Nothing
      /\ ver'.step = "stream" /\ ver'.seen = <<>> /\ ver'.floor = n
  BY <1>1, <1>2 DEF NotRunning
<1>4. UNCHANGED <<log, damage>>
  BY DEF StartVerify, storeVars, data
<1>5. c = Nothing \/ \E m \in 0..Len(log) : c = GenuineIn(log, m)
  BY GenuineHere
<1>6. \A m : GenuineIn(log, m)' = GenuineIn(log, m)
  BY <1>4 DEF GenuineIn
<1>. QED BY <1>1, <1>3, <1>4, <1>5, <1>6 DEF Passing

LEMMA PassKeeps ==
    StoreInv /\ TrailInv /\ PassInv /\ [Next]_vars => PassInv'
<1>. SUFFICES ASSUME StoreInv, TrailInv, PassInv, [Next]_vars PROVE PassInv'
  OBVIOUS
<1>1. PassShape /\ Stored /\ Remaining /\ Passing
  BY DEF PassInv
<1>2. PassShape' /\ Stored' /\ Remaining'
  BY <1>1, ShapeStays, StoredStays
<1>3. CASE Damage
  <2>1. ver' = ver /\ damage = "none"
    BY <1>3 DEF Damage
  <2>. QED BY <1>1, <1>2, <2>1, LogGrows, PassingAside DEF PassInv
<1>4. CASE StartVerify \/ Stream \/ ReadHead
  BY <1>1, <1>2, <1>4, StartPasses, StreamPasses, HeadPasses DEF PassInv
<1>5. CASE ~Damage /\ ~(StartVerify \/ Stream \/ ReadHead)
  <2>1. ver' = ver /\ damage' = damage
    BY <1>5 DEF Next, Verify, vars, verVars
  <2>. QED BY <1>1, <1>2, <2>1, LogGrows, PassingAside DEF PassInv
<1>. QED BY <1>3, <1>4, <1>5

LEMMA PassInitial == Init => PassInv
<1>. SUFFICES ASSUME Init PROVE PassInv
  OBVIOUS
<1>1. /\ log = <<>> /\ events = <<Genesis>> /\ head = HeadOf(Genesis)
      /\ \A w \in Writers : tx[w] = Idle
      /\ ver = NotRunning /\ damage = "none"
  BY DEF Init, StoreInit
<1>2. Len(log) = 0 /\ Idle.new = <<>>
  BY <1>1, EmptySeq DEF Idle
<1>3. PassShape
  BY <1>1 DEF PassShape, NotRunning
<1>4. Stored
  <2>1. events \in Seq(StoredRows) /\ head \in StoredHeads
    BY <1>1, StoredShapes
  <2>2. Continuing(<<>>)
    BY EmptySeq DEF Continuing
  <2>. QED BY <1>1, <1>2, <2>1, <2>2 DEF Stored, Holding
<1>5. Remaining
  <2>1. head = GenuineIn(log, 0)
    BY <1>1, GenesisIsGenuine
  <2>2. Len(events) = 1 /\ events[1] = Genesis
    BY <1>1
  <2>3. Genesis.seq = 0
    BY DEF Genesis, Row
  <2>4. \A i \in 1..0 + 1 : i = 1 /\ i - 1 = 0
    OBVIOUS
  <2>5. Gapless(events, 0)
    BY <2>2, <2>3, <2>4 DEF Gapless
  <2>. QED BY <1>1, <1>2, <2>1, <2>5 DEF Remaining
<1>6. Passing
  BY <1>1, <1>2 DEF Passing, NotRunning
<1>. QED BY <1>3, <1>4, <1>5, <1>6 DEF PassInv

\* What a pass may and may not hold of the stored rows, in every run.
THEOREM PassInvariant == Spec => []PassInv
BY PassInitial, PassKeeps, StoreInvariant, TrailInvariant, PTL DEF Spec

\* The committed chain, genesis before the log, position by position.
LEMMA WholeShape ==
    ASSUME NEW c \in Nat, c = Len(log), log \in Seq(Envs), NEW whole, whole = <<GenesisEnv>> \o log
    PROVE  /\ whole \in Seq(StoredEnvs) /\ Len(whole) = c + 1
           /\ \A n \in 1..c + 1 : whole[n] = EnvAt(n)
<1>1. PICK g : g = <<GenesisEnv>>
  OBVIOUS
<1>2. g \in Seq(StoredEnvs) /\ Len(g) = 1 /\ g[1] = GenesisEnv
  BY <1>1, GenesisShape, StoredShapes
<1>3. log \in Seq(StoredEnvs)
  BY StoredShapes, SeqMonotonic
<1>4. whole \in Seq(StoredEnvs) /\ Joined(whole, g, 1, log, c)
  BY <1>1, <1>2, <1>3, JoinedShape
<1>5. ASSUME NEW n \in 1..c + 1 PROVE whole[n] = EnvAt(n)
  <2>1. CASE n = 1
    BY <1>2, <1>4, <2>1 DEF Joined, EnvAt
  <2>2. CASE n # 1
    <3>1. PICK i \in 1..c : n = 1 + i /\ i = n - 1
      BY <2>2
    <3>. QED BY <1>4, <2>2, <3>1 DEF Joined, EnvAt
  <2>. QED BY <2>1, <2>2
<1>6. 1 + c = c + 1
  OBVIOUS
<1>. QED BY <1>4, <1>5, <1>6 DEF Joined

\* No false comfort, for any number of writers, keys and events and whichever
\* of the kinds of damage strikes at any moment of it: a chain verify_chain has
\* accepted reaches at least to what was there when the pass began, and the rows
\* it streamed are, row for row, what was committed; where rows and head were
\* rewritten together, it still begins at the row that was noted.
THEOREM AcceptedAreGenuine == Spec => []AcceptedIsGenuine
<1>1. ASSUME TrailInv, PassInv PROVE AcceptedIsGenuine
  <2>1. SUFFICES ASSUME ver.verdict = "ok" PROVE AcceptedIsGenuine
    BY DEF AcceptedIsGenuine
  <2>2. PICK c \in Nat : c = Len(log) /\ log \in Seq(Envs)
    BY <1>1, LenProperties DEF TrailInv
  <2>3. PICK whole : whole = <<GenesisEnv>> \o log
    OBVIOUS
  <2>4. /\ whole \in Seq(StoredEnvs) /\ Len(whole) = c + 1
        /\ \A n \in 1..c + 1 : whole[n] = EnvAt(n)
    BY <2>2, <2>3, WholeShape
  <2>5. PICK f \in Nat : f = From(ver) /\ f \in 0..c
    BY <1>1, <2>2, FromShape DEF PassInv
  <2>6. /\ ver.last # Nothing /\ Seen(f, ver.last, ver.seen)
        /\ Accepted(f, ver.last, ver.floor, ver.seen) /\ ver.floor \in 0..c
    BY <1>1, <2>1, <2>2, <2>5 DEF PassInv, Passing, Accepted
  <2>7. PICK n \in Nat : n = Len(ver.seen) /\ ver.seen \in Seq(StoredEnvs) /\ n # 0
    BY <2>6, EmptySeq, LenProperties DEF Seen
  <2>8. /\ ver.last.seq = f + n - 1 /\ ver.last.seq >= ver.floor /\ ver.last.seq <= c
        /\ ver.seen[1] = EnvAt(f + 1)
        /\ damage # "rewritten" => \A i \in 1..n : ver.seen[i] = EnvAt(f + i)
    BY <2>2, <2>6, <2>7 DEF Seen, Covers, Accepted
  <2>9. ver.seen[1] = whole[f + 1]
    BY <2>4, <2>5, <2>8
  <2>10. ASSUME damage # "rewritten" PROVE ver.seen = SubSeq(whole, f + 1, ver.last.seq + 1)
    <3>1. PICK part : part = SubSeq(whole, f + 1, f + n)
      OBVIOUS
    <3>2. f + n <= c + 1 /\ f + n - (f + 1) + 1 = n /\ f + 1 <= f + n /\ ver.last.seq + 1 = f + n
      <4>1. f + n - 1 <= c
        BY <2>8
      <4>2. ver.last.seq + 1 = f + n - 1 + 1
        BY <2>8
      <4>. QED BY <2>7, <4>1, <4>2
    <3>3. \A i \in f + 1..f + n : i \in 1..c + 1
      BY <3>2
    <3>4. \A i \in f + 1..f + n : whole[i] \in StoredEnvs
      BY <2>4, <3>3, ElementOfSeq
    <3>5. part \in Seq(StoredEnvs) /\ Len(part) = n
      BY <3>1, <3>2, <3>4, SubSeqProperties
    <3>6. ASSUME NEW i \in 1..n PROVE part[i] = ver.seen[i]
      <4>1. part[i] = whole[f + 1 + i - 1] /\ f + 1 + i - 1 = f + i /\ f + i \in 1..c + 1
        BY <3>1, <3>2, <3>4, SubSeqProperties
      <4>. QED BY <2>4, <2>8, <2>10, <4>1
    <3>7. part = ver.seen
      BY <2>7, <3>5, <3>6, SeqEqual
    <3>. QED BY <3>1, <3>2, <3>7
  <2>. QED BY <2>3, <2>5, <2>8, <2>9, <2>10 DEF AcceptedIsGenuine, From
<1>. QED BY <1>1, TrailInvariant, PassInvariant, PTL
=============================================================================

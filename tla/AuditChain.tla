----------------------------- MODULE AuditChain -----------------------------
(***************************************************************************)
(* The hash chain over audit_events (airlock/audit.py): how a row is       *)
(* hashed and linked, what an append makes of the chain head, and what     *)
(* verify_chain demands of a span of rows.                                 *)
(*                                                                         *)
(* SHA-256 is taken to be free of collisions: a row_hash is the sequence   *)
(* of everything it covers, the previous hash first.  The envelope is      *)
(* the chained columns of a row; which of them an alteration touches makes *)
(* no difference to the check, so it is one value here.                    *)
(***************************************************************************)
EXTENDS Integers, Sequences

ZeroHash == <<>>

\* compute_row_hash: prev_hash and the envelope, the row's seq included.
RowHash(prev, seq, env) == Append(prev, <<seq, env>>)

Row(prev, seq, env) ==
    [seq |-> seq, env |-> env, prev |-> prev, hash |-> RowHash(prev, seq, env)]

\* seed_genesis: row 0, a constant of the format, and the head on it.
GenesisEnv == [table |-> "chain", key |-> "none", what |-> "genesis"]
Genesis == Row(ZeroHash, 0, GenesisEnv)

HeadOf(r) == [seq |-> r.seq, hash |-> r.hash]

\* No head at all; also: no row verified yet, no checkpoint noted.
Nothing == [seq |-> -1, hash |-> ZeroHash]

\* The row an append makes of the head it read under the lock.
NextRow(h, env) == Row(h.hash, h.seq + 1, env)

-----------------------------------------------------------------------------
(* verify_chain.                                                           *)

\* _verify_anchor: the first row is the genesis constant, or the noted row.
Anchored(r, checkpoint) ==
    IF checkpoint = Nothing
    THEN r.seq = 0 /\ r.prev = ZeroHash /\ r.hash = Genesis.hash
    ELSE HeadOf(r) = checkpoint

\* A row follows the one before: no gap in seq, and the link holds.
Follows(r, last) == r.seq = last.seq + 1 /\ r.prev = last.hash

\* The stored hash is the hash of what is stored.
Recomputes(r) == r.hash = RowHash(r.prev, r.seq, r.env)

\* consume: every row of the streamed span passes.
SpanPasses(rows, last, checkpoint) ==
    \A i \in DOMAIN rows :
        /\ Recomputes(rows[i])
        /\ IF i = 1
           THEN IF last = Nothing THEN Anchored(rows[i], checkpoint)
                                     ELSE Follows(rows[i], last)
           ELSE Follows(rows[i], HeadOf(rows[i - 1]))

\* iter_audit: rows from a seq on, in seq order, out of one snapshot.
RowsFrom(events, seq) ==
    LET later == {i \in DOMAIN events : events[i].seq >= seq}
    IN IF later = {} THEN <<>>
       ELSE SubSeq(events, CHOOSE i \in later : \A j \in later : i <= j, Len(events))
=============================================================================

--------------------------- MODULE LedgerService ---------------------------
(***************************************************************************)
(* What the Store protocol promises the commit path: each ledger operation *)
(* is one indivisible step.  CommitProtocol is built on these steps; the   *)
(* transactions of StoreTransactions implement them.                       *)
(***************************************************************************)
EXTENDS CommitLedger

LedgerStep ==
    \E k \in Keys :
        \/ InsertClaim(k)
        \/ \E e \in 1..row[k].attempts : MarkExecuting(k, e)
        \/ \E e \in 1..row[k].attempts, st \in Terminal :
              \/ Finalize(k, e, st, <<>>)
              \/ \E type \in EventTypes : Finalize(k, e, st, <<Event(type, st)>>)
        \/ BumpEpoch(k)
        \/ GrowStale(k)

Spec == LedgerInit /\ [][LedgerStep]_<<row, audit>>
=============================================================================

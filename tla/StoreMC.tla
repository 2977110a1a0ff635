------------------------------ MODULE StoreMC ------------------------------
(***************************************************************************)
(* Instances of VerifyChain for TLC.                                       *)
(***************************************************************************)
EXTENDS VerifyChain, TLC

CONSTANTS w1, w2, w3, k1

\* Three deployments: the commit path, the durable pause, the audit pass.
ThreeWorkloads ==
    {{"claim", "mark", "finalize", "bump", "scan"},
     {"save", "transition", "append", "scan"},
     {"append", "verify"}}

WriterSymmetry == Permutations(Writers)

\* View: a transaction whose statement missed has nothing left to do but end,
\* whatever it was about.
NothingLeft(w) == tx[w].step = "commit" /\ ~tx[w].hit /\ tx[w].new = <<>>
WhatIsLeft ==
    <<deployment, data, owner, verVars,
      [w \in Writers |-> IF NothingLeft(w) THEN [Idle EXCEPT !.step = "commit"] ELSE tx[w]]>>
=============================================================================

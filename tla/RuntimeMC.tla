----------------------------- MODULE RuntimeMC -----------------------------
(***************************************************************************)
(* An instance of AsyncPool for TLC.                                       *)
(***************************************************************************)
EXTENDS AsyncPool

CONSTANTS w1, w2, outer, inner, plain, timed, approved, bounded, close1, audit1

Nesting == [c \in {outer} |-> inner]

FourPrograms == {{outer, inner}, {plain, timed}, {approved}, {bounded}}
=============================================================================

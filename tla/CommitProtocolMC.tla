-------------------------- MODULE CommitProtocolMC --------------------------
(***************************************************************************)
(* Instances of CommitProtocol for TLC.                                    *)
(***************************************************************************)
EXTENDS CommitInvariants, TLC

CONSTANTS c1, c2, s1, s2, kNone, kVerify, kParam

\* The bare primitive: c1 calls commit_once for kNone with no event_context.
BareNone == {<<c1, kNone>>}

\* slips is a history that no guard reads: states that differ in it only are
\* one state to the properties that do not look at it.
WithoutSlips == <<row, audit, proc, todo, effects, abandoned, told>>

ProcessSymmetry == Permutations(Callers) \union Permutations(Sweepers)
=============================================================================

----------------------------- MODULE ExactlyOnce -----------------------------
(***************************************************************************)
(* What the commit ledger promises, with no ledger protocol in it: per     *)
(* key one action that is opened once, may take effect once, is resolved   *)
(* once, truthfully, and is reported the way it was resolved.  A key whose *)
(* timing slipped is released from part of it: its effect may land again,  *)
(* and a refusal may be wrong.  It is still resolved once and reported as  *)
(* resolved, and a vouched-for commit still took effect.                   *)
(***************************************************************************)
EXTENDS Naturals

CONSTANTS
    Keys,
    Vouched            \* keys whose "committed" vouches for the effect

VARIABLES
    outcome,           \* "none", "open", or how the action was resolved
    effects,           \* how often the side effect took place
    told,              \* the outcomes callers were given
    slipped            \* keys released from the promise of one effect

absVars == <<outcome, effects, told, slipped>>

Resolutions == {"committed", "aborted", "failed", "unknown"}

AbsInit ==
    /\ outcome = [k \in Keys |-> "none"]
    /\ effects = [k \in Keys |-> 0]
    /\ told = [k \in Keys |-> {}]
    /\ slipped = {}

Open(k) ==
    /\ outcome[k] = "none"
    /\ outcome' = [outcome EXCEPT ![k] = "open"]
    /\ UNCHANGED <<effects, told, slipped>>

\* The effect lands once, while the action is open, or while its outcome
\* admits that nobody knows.
Land(k) ==
    /\ outcome[k] \in {"open", "unknown"}
    /\ effects[k] = 0
    /\ effects' = [effects EXCEPT ![k] = 1]
    /\ UNCHANGED <<outcome, told, slipped>>

Truthful(k, o) ==
    /\ o = "committed" /\ k \in Vouched => effects[k] > 0
    /\ o \in {"aborted", "failed"} => effects[k] = 0 \/ k \in slipped

\* Resolved once and truthfully, possibly reporting to the caller at once.
Resolve(k, o) ==
    /\ outcome[k] = "open"
    /\ Truthful(k, o)
    /\ outcome' = [outcome EXCEPT ![k] = o]
    /\ \/ UNCHANGED told
       \/ told' = [told EXCEPT ![k] = @ \union {o}]
    /\ UNCHANGED <<effects, slipped>>

Report(k) ==
    /\ outcome[k] \in Resolutions
    /\ told' = [told EXCEPT ![k] = @ \union {outcome[k]}]
    /\ UNCHANGED <<outcome, effects, slipped>>

\* The timing of an open action slips.
Slip(k) ==
    /\ outcome[k] = "open"
    /\ slipped' = slipped \union {k}
    /\ UNCHANGED <<outcome, effects, told>>

\* The effect lands though it should not have: never on an unopened action.
LandAnyway(k) ==
    /\ outcome[k] # "none"
    /\ effects' = [effects EXCEPT ![k] = @ + 1]
    /\ slipped' = slipped \union {k}
    /\ UNCHANGED <<outcome, told>>

AbsNext ==
    \E k \in Keys :
        \/ Open(k) \/ Land(k) \/ Report(k)
        \/ Slip(k) \/ LandAnyway(k)
        \/ \E o \in Resolutions : Resolve(k, o)

AbsSpec == AbsInit /\ [][AbsNext]_absVars
=============================================================================

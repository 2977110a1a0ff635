---------------------------- MODULE PolicyRules ----------------------------
(***************************************************************************)
(* The policy engine (airlock/policy.py).  A condition a rule does not set *)
(* is the empty set, one it sets the set of its value; an unknown cost or  *)
(* blast radius of an action is the empty set as well.  A glob is the set  *)
(* of action types it matches.                                             *)
(***************************************************************************)
EXTENDS Naturals, Sequences

\* A faulty variant: a ceiling is not held against what is unknown.
WithinLenient(ceiling, amount) ==
    \A m \in ceiling : \A a \in amount : a.currency = m.currency => a.value <= m.value

\* _cost_ok: known, in the ceiling's currency, and not above it.
Within(ceiling, amount) ==
    \A m \in ceiling : \E a \in amount : a.currency = m.currency /\ a.value <= m.value

\* _blast_radius_ok: known, and not above the ceiling.
NoWider(ceiling, blast) == \A m \in ceiling : \E b \in blast : b <= m

RuleMatches(rule, ctx) ==
    /\ ctx.actionType \in rule.match
    /\ Within(rule.maxCost, ctx.cost)
    /\ \A s \in rule.reversibilityIn : ctx.reversibility \in s
    /\ NoWider(rule.maxBlast, ctx.blast)

\* Policy.evaluate: the first rule that matches, else the default.
Evaluate(policy, ctx) ==
    LET hits == {i \in DOMAIN policy.rules : RuleMatches(policy.rules[i], ctx)}
    IN IF hits = {} THEN policy.default
       ELSE policy.rules[CHOOSE i \in hits : \A j \in hits : i <= j].decision
=============================================================================

------------------------------- MODULE EdgeMC -------------------------------
(***************************************************************************)
(* Instances of Transports for TLC.                                        *)
(***************************************************************************)
EXTENDS Transports

P(name, kind, default) == [name |-> name, kind |-> kind, default |-> default]
T(sig, ignored, keyParam) == [sig |-> sig, ignored |-> ignored, keyParam |-> keyParam]

\* def refund(order, amount="d", *, trace="d", idem=...), trace ignored
Plain == T(<<P("order", "either", Required), P("amount", "either", "d"),
             P("trace", "keyword", "d"), P("idem", "keyword", "d")>>, {"trace"}, {"idem"})

\* def notify(order, *rest, amount="d"), keyed by a probe only
Variadic == T(<<P("order", "either", Required), P("rest", "star", "d"),
                P("amount", "keyword", "d")>>, {}, {})

\* def tag(order, /, **opts): opts may repeat the name order
Options == T(<<P("order", "positional", Required), P("opts", "extras", "d")>>, {}, {"idem"})

\* def note(order, /, **opts), whatever opts holds ignored
Unkeyed == T(<<P("order", "positional", Required), P("opts", "extras", "d")>>, {"opts"}, {})

WellOrdered == {Plain, Variadic, Options, Unkeyed}

ASSUME WellOrderedAssumption == \A t \in WellOrdered : Rebuildable(t)

\* def pay(order, trace="d", amount="d", idem=...), trace ignored
IgnoredFirst == T(<<P("order", "either", Required), P("trace", "either", "d"),
                    P("amount", "either", "d"), P("idem", "keyword", "d")>>, {"trace"}, {"idem"})

ASSUME IgnoredFirstAssumption == ~Rebuildable(IgnoredFirst)

KW(names, v) == [n \in names |-> v]
Ways ==
    {[args |-> <<"b">>, kwargs |-> KW({}, "x")],
     [args |-> <<"a">>, kwargs |-> KW({}, "x")],
     [args |-> <<"a", "d">>, kwargs |-> KW({}, "x")],
     [args |-> <<"a">>, kwargs |-> KW({"amount"}, "b")],
     [args |-> <<"a">>, kwargs |-> KW({"trace"}, "b")],
     [args |-> <<"a">>, kwargs |-> KW({"order"}, "b")],
     [args |-> <<>>, kwargs |-> KW({"order"}, "a")]}

Usd(v) == [currency |-> "USD", value |-> v]
Eur(v) == [currency |-> "EUR", value |-> v]
Ctx(actionType, cost, blast) ==
    [actionType |-> actionType, reversibility |-> "reversible", cost |-> cost, blast |-> blast]

Small == Ctx("refund", {Usd(1)}, {1})
Foreign == Ctx("refund", {Eur(1)}, {1})
FourContexts == {Small, Foreign, Ctx("refund", {}, {1}), Ctx("purge", {Usd(1)}, {1})}

Program(theTool, ways, contexts, routes) ==
    [tool |-> theTool, ways |-> ways, contexts |-> contexts, routes |-> routes]

\* Every way to call every tool; every risk; every tool gated; and the same
\* call gated and not, its decision travelling by webhook.
OneWay == {[args |-> <<"a">>, kwargs |-> KW({}, "x")]}
FourTools ==
    {Program(t, Ways, {Small}, {"console"}) : t \in WellOrdered}
    \union {Program(t, OneWay, {Foreign}, {"console"}) : t \in WellOrdered}
    \union {Program(Plain, OneWay, FourContexts, {"console"}),
            Program(Plain, OneWay, {Small, Foreign}, {"http"})}

IgnoringPrograms == {Program(IgnoredFirst, Ways, {Small}, {"console"})}

Rule(match, decision, maxCost, reversibilityIn, maxBlast) ==
    [match |-> match, decision |-> decision, maxCost |-> maxCost,
     reversibilityIn |-> reversibilityIn, maxBlast |-> maxBlast]

SmallRefunds ==
    [rules |-> <<Rule({"purge"}, "deny", {}, {}, {}),
                 Rule({"refund"}, "auto", {Usd(2)}, {{"reversible"}}, {1})>>,
     default |-> "gate"]
=============================================================================

---------------------------- MODULE ArgumentMap ----------------------------
(***************************************************************************)
(* The arguments of a guarded call (airlock/idempotency.py and the call    *)
(* funnels of airlock/_guard.py): Python's binding of a call to a          *)
(* signature, the flat map that is keyed and persisted, and the call that  *)
(* recovery and an approved gate rebuild from it.                          *)
(*                                                                         *)
(* A tool is [sig, ignored, keyParam]: sig a sequence of parameters        *)
(* [name, kind, default] in declaration order, keyParam at most one name,  *)
(* kinds "positional", "either", "star", "keyword", "extras" for            *)
(* POSITIONAL_ONLY, POSITIONAL_OR_KEYWORD, *args, KEYWORD_ONLY, **kwargs.   *)
(***************************************************************************)
EXTENDS Naturals, Sequences, SequencesExt

Required == "required"

\* What Python accepts as a parameter list: no name twice, the kinds in order,
\* one *args and one **kwargs at most.
Kinds == {"positional", "either", "star", "keyword", "extras"}

Rank(kind) == CHOOSE n \in 1..5 :
    <<"positional", "either", "star", "keyword", "extras">>[n] = kind

WellFormed(sig) ==
    /\ sig \in Seq(ToSet(sig))
    /\ \A i \in DOMAIN sig : sig[i].kind \in Kinds
    /\ \A j \in DOMAIN sig : \A i \in 1..j - 1 :
          /\ sig[i].name # sig[j].name /\ Rank(sig[i].kind) <= Rank(sig[j].kind)
          /\ sig[i].kind \in {"star", "extras"} => sig[i].kind # sig[j].kind

Kind(sig, kind) == {sig[i].name : i \in {j \in DOMAIN sig : sig[j].kind = kind}}

\* How many parameters an argument can be passed to by position: they come first.
Slots(sig) == CHOOSE n \in 0..Len(sig) :
    \A i \in DOMAIN sig : i <= n <=> sig[i].kind \in {"positional", "either"}

Without(f, names) == [x \in DOMAIN f \ names |-> f[x]]

-----------------------------------------------------------------------------
(* Signature.bind and apply_defaults.                                      *)

ByName(sig) == Kind(sig, "either") \union Kind(sig, "keyword")

TypeError(sig, args, kwargs) ==
    \/ Len(args) > Slots(sig) /\ Kind(sig, "star") = {}
    \/ DOMAIN kwargs \ ByName(sig) # {} /\ Kind(sig, "extras") = {}
    \/ \E i \in DOMAIN sig :
          i <= Len(args) /\ sig[i].kind = "either" /\ sig[i].name \in DOMAIN kwargs
    \/ \E i \in DOMAIN sig :
          /\ sig[i].kind \in {"positional", "either", "keyword"} /\ sig[i].default = Required
          /\ sig[i].kind = "keyword" \/ i > Len(args)
          /\ sig[i].kind = "positional" \/ sig[i].name \notin DOMAIN kwargs

\* The value a parameter receives.
Received(sig, args, kwargs, i) ==
    LET p == sig[i]
    IN CASE p.kind = "star" -> SubSeq(args, Slots(sig) + 1, Len(args))
         [] p.kind = "extras" -> Without(kwargs, ByName(sig))
         [] p.kind \in {"positional", "either"} /\ i <= Len(args) -> args[i]
         [] p.kind \in {"either", "keyword"} /\ p.name \in DOMAIN kwargs -> kwargs[p.name]
         [] OTHER -> p.default

Bind(sig, args, kwargs) ==
    [n \in {sig[i].name : i \in DOMAIN sig} |->
        Received(sig, args, kwargs, CHOOSE i \in DOMAIN sig : sig[i].name = n)]

-----------------------------------------------------------------------------
(* build_arg_map.                                                          *)

Excluded(tool) == tool.ignored \union tool.keyParam

\* The **kwargs entries of a bound call that go into the map: none where the
\* name of the **kwargs parameter itself is excluded.
Extras(tool, bound) ==
    IF Kind(tool.sig, "extras") \subseteq Excluded(tool) THEN <<>>
    ELSE Without(bound[CHOOSE n \in Kind(tool.sig, "extras") : TRUE], Excluded(tool))

Named(tool, bound) == Without(bound, Excluded(tool) \union Kind(tool.sig, "extras"))

\* A faulty variant: a **kwargs entry overwrites the parameter of its name.
ValueErrorLoose(tool, bound) ==
    Kind(tool.sig, "extras") = {} /\ ~(Excluded(tool) \subseteq DOMAIN bound)

\* An excluded name the tool cannot accept, or a **kwargs entry under the
\* name of a parameter that is in the map already.
ValueError(tool, bound) ==
    \/ Kind(tool.sig, "extras") = {} /\ ~(Excluded(tool) \subseteq DOMAIN bound)
    \/ DOMAIN Extras(tool, bound) \intersect DOMAIN Named(tool, bound) # {}

BuildArgMap(tool, bound) ==
    LET extras == Extras(tool, bound)
        named == Named(tool, bound)
    IN [n \in DOMAIN extras \union DOMAIN named |->
           IF n \in DOMAIN extras THEN extras[n] ELSE named[n]]

-----------------------------------------------------------------------------
(* _call_tool_live and _call_tool_from_map.                                *)

WithKey(tool, kwargs, key) ==
    [n \in DOMAIN kwargs \union tool.keyParam |->
        IF n \in tool.keyParam THEN key ELSE kwargs[n]]

\* A faulty variant: a *args list is handed on as one argument.
PositionalUnspread(tool, map) ==
    LET here(p) == IF p.name \notin DOMAIN map \/ p.kind \notin {"star", "positional", "either"}
                   THEN <<>> ELSE <<map[p.name]>>
    IN FlattenSeq([i \in DOMAIN tool.sig |-> here(tool.sig[i])])

\* _bind_from_map: what goes in by position, in declaration order; a
\* parameter the map lacks is skipped.
Positional(tool, map) ==
    LET here(p) == IF p.name \notin DOMAIN map THEN <<>>
                   ELSE CASE p.kind = "star" -> map[p.name]
                          [] p.kind \in {"positional", "either"} -> <<map[p.name]>>
                          [] OTHER -> <<>>
    IN FlattenSeq([i \in DOMAIN tool.sig |-> here(tool.sig[i])])

ByPosition(tool) ==
    Kind(tool.sig, "star") \union Kind(tool.sig, "positional") \union Kind(tool.sig, "either")

Keyword(tool, map) == Without(map, ByPosition(tool))

\* The call rebuilt from the map, and whether Python refuses it.
Rebound(tool, map, key) ==
    LET m == WithKey(tool, map, key)
    IN Bind(tool.sig, Positional(tool, m), Keyword(tool, m))

ReboundFails(tool, map, key) ==
    LET m == WithKey(tool, map, key)
    IN TypeError(tool.sig, Positional(tool, m), Keyword(tool, m))

\* The tools whose calls can be rebuilt: no parameter passed by position stands
\* behind one that the map lacks, and the key is passed by name.
Rebuildable(tool) ==
    LET gone == tool.ignored \ tool.keyParam
        names == {tool.sig[i].name : i \in DOMAIN tool.sig}
    IN /\ \A j \in DOMAIN tool.sig : \A i \in 1..j - 1 :
             tool.sig[i].name \in gone /\ tool.sig[j].name \in ByPosition(tool)
                => tool.sig[j].name \in gone
       /\ tool.keyParam \intersect names \subseteq ByName(tool.sig)
=============================================================================

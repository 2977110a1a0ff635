----------------------------- MODULE EdgeProofs -----------------------------
(***************************************************************************)
(* The guarded call and its transports, for any tools, policy, calls,      *)
(* clock and file: which calls share a key, what may run, what a verdict   *)
(* is worth once it is written down or acknowledged, and what the tool is  *)
(* called with when the call is made again from its map.                   *)
(***************************************************************************)
EXTENDS Transports, DataLemmas

-----------------------------------------------------------------------------
(* The key of a call.                                                      *)

MeantBy(t, b) ==
    [n \in DOMAIN b \ Excluded(t) |->
        IF n \in Kind(t.sig, "extras") THEN Without(b[n], Excluded(t)) ELSE b[n]]

LEMMA SignatureShape ==
    ASSUME NEW sig, WellFormed(sig)
    PROVE  /\ sig \in Seq(ToSet(sig)) /\ Len(sig) \in Nat /\ DOMAIN sig = 1..Len(sig)
           /\ \A i, j \in DOMAIN sig : sig[i].name = sig[j].name => i = j
           /\ \A i, j \in DOMAIN sig :
                 sig[i].kind = sig[j].kind /\ sig[i].kind \in {"star", "extras"} => i = j
<1>1. sig \in Seq(ToSet(sig))
  BY DEF WellFormed
<1>2. PICK n \in Nat : n = Len(sig) /\ DOMAIN sig = 1..n
  BY <1>1, LenProperties
<1>3. ASSUME NEW i \in 1..n, NEW j \in 1..n, i # j,
             sig[i].name = sig[j].name
               \/ (sig[i].kind = sig[j].kind /\ sig[i].kind \in {"star", "extras"})
      PROVE  FALSE
  <2>1. CASE i < j
    <3>1. i \in 1..j - 1
      BY <2>1
    <3>. QED BY <1>2, <1>3, <3>1 DEF WellFormed
  <2>2. CASE j < i
    <3>1. j \in 1..i - 1
      BY <2>2
    <3>. QED BY <1>2, <1>3, <3>1 DEF WellFormed
  <2>. QED BY <1>3, <2>1, <2>2
<1>. QED BY <1>1, <1>2, <1>3

LEMMA OneExtras ==
    ASSUME NEW sig, WellFormed(sig), NEW m \in Kind(sig, "extras"), NEW n \in Kind(sig, "extras")
    PROVE  m = n
BY SignatureShape DEF Kind

\* Two maps out of extras x and y and the parameters p of b and c: equal when
\* and only when both parts are.
LEMMA PartsOfMaps ==
    ASSUME NEW p, NEW b, NEW c, NEW x, NEW y,
           x = [n \in DOMAIN x |-> x[n]], y = [n \in DOMAIN y |-> y[n]],
           DOMAIN x \intersect p = {}, DOMAIN y \intersect p = {},
           [n \in DOMAIN x \union p |-> IF n \in DOMAIN x THEN x[n] ELSE b[n]] =
           [n \in DOMAIN y \union p |-> IF n \in DOMAIN y THEN y[n] ELSE c[n]]
    PROVE  x = y /\ \A n \in p : b[n] = c[n]
<1>1. PICK f : f = [n \in DOMAIN x \union p |-> IF n \in DOMAIN x THEN x[n] ELSE b[n]]
  OBVIOUS
<1>2. PICK g : g = [n \in DOMAIN y \union p |-> IF n \in DOMAIN y THEN y[n] ELSE c[n]]
  OBVIOUS
<1>3. f = g /\ DOMAIN f = DOMAIN x \union p /\ DOMAIN g = DOMAIN y \union p
  BY <1>1, <1>2
<1>4. DOMAIN x = DOMAIN y
  BY <1>3
<1>5. \A n \in DOMAIN x : x[n] = y[n]
  <2>1. \A n \in DOMAIN x : f[n] = x[n]
    BY <1>1
  <2>2. \A n \in DOMAIN y : g[n] = y[n]
    BY <1>2
  <2>. QED BY <1>3, <1>4, <2>1, <2>2
<1>6. \A n \in p : b[n] = c[n]
  <2>1. \A n \in p : f[n] = b[n]
    BY <1>1
  <2>2. \A n \in p : g[n] = c[n]
    BY <1>2
  <2>. QED BY <1>3, <2>1, <2>2
<1>. QED BY <1>4, <1>5, <1>6

\* A map, and what was meant, out of the extras x and the parameters p of d.
Parts(t, d, e, p, x) ==
    /\ BuildArgMap(t, d) = [n \in DOMAIN x \union p |-> IF n \in DOMAIN x THEN x[n] ELSE d[n]]
    /\ MeantBy(t, d) = [n \in p \union {e} |-> IF n = e THEN x ELSE d[n]]
    /\ DOMAIN x \intersect p = {} /\ x = [n \in DOMAIN x |-> x[n]]

\* The map says what was meant, and nothing else.
LEMMA MapSaysWhatIsMeant ==
    ASSUME NEW t, WellFormed(t.sig), NEW b, NEW c, DOMAIN b = DOMAIN c,
           Kind(t.sig, "extras") \subseteq DOMAIN b, ~ValueError(t, b), ~ValueError(t, c)
    PROVE  BuildArgMap(t, b) = BuildArgMap(t, c) <=> MeantBy(t, b) = MeantBy(t, c)
<1>1. PICK X, E : X = Excluded(t) /\ E = Kind(t.sig, "extras")
  OBVIOUS
<1>2. CASE E \subseteq X
  <2>1. DOMAIN <<>> = {}
    OBVIOUS
  <2>2. ASSUME NEW d, DOMAIN d = DOMAIN b PROVE BuildArgMap(t, d) = MeantBy(t, d)
    <3>1. Extras(t, d) = <<>>
      BY <1>1, <1>2 DEF Extras
    <3>2. Named(t, d) = [n \in DOMAIN d \ X |-> d[n]]
      BY <1>1, <1>2 DEF Named, Without
    <3>3. BuildArgMap(t, d) = [n \in DOMAIN d \ X |-> d[n]]
      BY <2>1, <3>1, <3>2 DEF BuildArgMap
    <3>4. MeantBy(t, d) = [n \in DOMAIN d \ X |-> d[n]]
      BY <1>1, <1>2 DEF MeantBy
    <3>. QED BY <3>3, <3>4
  <2>. QED BY <2>2
<1>3. CASE ~(E \subseteq X)
  <2>1. PICK e : E = {e} /\ e \notin X /\ e \in DOMAIN b
    BY <1>1, <1>3, OneExtras
  <2>2. PICK p : p = DOMAIN b \ (X \union {e})
    OBVIOUS
  <2>3. ASSUME NEW d, DOMAIN d = DOMAIN b, ~ValueError(t, d),
               NEW x, x = Without(d[e], X)
        PROVE  Parts(t, d, e, p, x)
    <3>1. Extras(t, d) = x
      <4>1. (CHOOSE n \in E : TRUE) = e
        BY <2>1
      <4>. QED BY <1>1, <1>3, <2>3, <4>1 DEF Extras
    <3>2. Named(t, d) = [n \in p |-> d[n]]
      BY <1>1, <2>1, <2>2, <2>3 DEF Named, Without
    <3>3. DOMAIN x \intersect p = {}
      BY <2>3, <3>1, <3>2 DEF ValueError
    <3>4. BuildArgMap(t, d) = [n \in DOMAIN x \union p |-> IF n \in DOMAIN x THEN x[n] ELSE d[n]]
      BY <3>1, <3>2 DEF BuildArgMap
    <3>5. DOMAIN d \ X = p \union {e}
      BY <2>1, <2>2, <2>3
    <3>6. MeantBy(t, d) = [n \in p \union {e} |-> IF n = e THEN x ELSE d[n]]
      BY <1>1, <2>1, <2>3, <3>5 DEF MeantBy
    <3>7. x = [n \in DOMAIN x |-> x[n]]
      BY <2>3 DEF Without
    <3>. QED BY <3>3, <3>4, <3>6, <3>7 DEF Parts
  <2>4. PICK x, y : x = Without(b[e], X) /\ y = Without(c[e], X)
    OBVIOUS
  <2>5. Parts(t, b, e, p, x) /\ Parts(t, c, e, p, y)
    BY <2>3, <2>4
  <2>6. e \notin p
    BY <2>2
  <2>7. ASSUME BuildArgMap(t, b) = BuildArgMap(t, c) PROVE x = y /\ \A n \in p : b[n] = c[n]
    <3>1. /\ [n \in DOMAIN x \union p |-> IF n \in DOMAIN x THEN x[n] ELSE b[n]] =
             [n \in DOMAIN y \union p |-> IF n \in DOMAIN y THEN y[n] ELSE c[n]]
          /\ x = [n \in DOMAIN x |-> x[n]] /\ y = [n \in DOMAIN y |-> y[n]]
          /\ DOMAIN x \intersect p = {} /\ DOMAIN y \intersect p = {}
      BY <2>5, <2>7 DEF Parts
    <3>. QED BY <3>1, PartsOfMaps
  <2>8. ASSUME MeantBy(t, b) = MeantBy(t, c) PROVE x = y /\ \A n \in p : b[n] = c[n]
    <3>1. PICK f, g : f = MeantBy(t, b) /\ g = MeantBy(t, c)
      OBVIOUS
    <3>2. f[e] = x /\ \A n \in p : f[n] = b[n]
      BY <2>6, <2>5, <3>1 DEF Parts
    <3>3. g[e] = y /\ \A n \in p : g[n] = c[n]
      BY <2>6, <2>5, <3>1 DEF Parts
    <3>. QED BY <2>8, <3>1, <3>2, <3>3
  <2>9. ASSUME x = y, \A n \in p : b[n] = c[n]
        PROVE  BuildArgMap(t, b) = BuildArgMap(t, c) /\ MeantBy(t, b) = MeantBy(t, c)
    <3>1. \A n \in DOMAIN x \union p :
             (IF n \in DOMAIN x THEN x[n] ELSE b[n]) = (IF n \in DOMAIN y THEN y[n] ELSE c[n])
      BY <2>9
    <3>2. \A n \in p \union {e} : (IF n = e THEN x ELSE b[n]) = (IF n = e THEN y ELSE c[n])
      BY <2>9
    <3>3. DOMAIN x \union p = DOMAIN y \union p
      BY <2>9
    <3>4. BuildArgMap(t, b) = BuildArgMap(t, c)
      BY <2>5, <3>1, <3>3 DEF Parts
    <3>5. MeantBy(t, b) = MeantBy(t, c)
      BY <2>5, <3>2 DEF Parts
    <3>. QED BY <3>4, <3>5
  <2>. QED BY <2>7, <2>8, <2>9
<1>. QED BY <1>2, <1>3

\* Nobody redefines a tool under way.
ToolInv == WellFormed(tool.sig)

LEMMA ToolInvariant == Spec => []ToolInv
<1>1. Init => ToolInv
  BY ProgramAssumption DEF Init, GuardInit, ToolInv
<1>2. ToolInv /\ [Next]_vars => ToolInv'
  <2>1. ASSUME [Next]_vars PROVE UNCHANGED tool
    BY <2>1 DEF Next, vars, guardVars, GuardStep, Raise, Deny, Gate, CommitAuto, AbortLive, RunLive,
                RunLiveRaises, Crash, Recover, Join, Send, Poll, Human, Push, Answer, Receive, Tick, Record,
                RecordTorn, Quiet
  <2>. QED BY <2>1 DEF ToolInv
<1>. QED BY <1>1, <1>2, PTL DEF Spec

\* For every tool Python accepts, with any parameters and any ignored names, and
\* whatever is passed to it by whichever way: two calls that build_arg_map does
\* not refuse have one idempotency key exactly if they pass the same values for
\* everything the key does not ignore.
THEOREM KeysTellCallsApart == Spec => []KeyIsTheCall
<1>1. ASSUME ToolInv PROVE KeyIsTheCall
  <2>1. SUFFICES ASSUME ~Unbindable(1), ~Unbindable(2)
                 PROVE  Key(1) = Key(2) <=> Meant(1) = Meant(2)
    BY DEF KeyIsTheCall
  <2>2. PICK b, c : b = Bound(1) /\ c = Bound(2)
    OBVIOUS
  <2>3. /\ DOMAIN b = {tool.sig[i].name : i \in DOMAIN tool.sig}
        /\ DOMAIN c = {tool.sig[i].name : i \in DOMAIN tool.sig}
    BY <2>2 DEF Bound, Bind
  <2>4. Kind(tool.sig, "extras") \subseteq DOMAIN b
    BY <2>3 DEF Kind
  <2>5. ~ValueError(tool, b) /\ ~ValueError(tool, c)
    BY <2>1, <2>2 DEF Unbindable
  <2>6. BuildArgMap(tool, b) = BuildArgMap(tool, c) <=> MeantBy(tool, b) = MeantBy(tool, c)
    BY <1>1, <2>3, <2>4, <2>5, MapSaysWhatIsMeant DEF ToolInv
  <2>. QED BY <2>2, <2>6 DEF Key, ArgMap, Meant, MeantBy
<1>. QED BY <1>1, ToolInvariant, PTL

-----------------------------------------------------------------------------
(* What may run.                                                           *)

Phases == {"new", "raised", "denied", "paused", "sent", "driving", "joined", "returned", "refused", "crashed"}
Statuses == {"none", "proposed", "approved", "rejected", "committed", "aborted"}
RowStates == {"executing", "committed"} \union NotCommitted

\* An effect is traced in a row, and a committed row has its effect.
LedgerInv ==
    /\ DOMAIN ledger \subseteq Ids /\ ledger \in [DOMAIN ledger -> RowStates]
    /\ ran \in Seq({ran[n] : n \in DOMAIN ran})
    /\ \A i \in Ids : RanIn(i) => i \in DOMAIN ledger
    /\ \A j \in DOMAIN ledger : ledger[j] = "committed" => RanIn(j)

\* The row of the call's key has ended in one of these states.
Ended(i, states) == \E j \in Rows(i) : ledger[j] \in states

\* A call in phase p whose run has status r.
CallIs(i, p, r) ==
    /\ p \in Phases /\ r \in Statuses
    /\ p \in {"paused", "sent"} <=> r # "none"
    /\ i \in DOMAIN ledger => p \in {"driving", "returned", "refused", "crashed"} \/ i \in approved
    /\ p \in {"driving", "joined", "returned", "refused", "crashed"} => LetThrough(call[i].ctx)
    /\ p = "driving" => i \in DOMAIN ledger /\ ledger[i] = "executing"
    /\ r \in {"approved", "committed"} => i \in approved
    /\ r \in {"none", "proposed", "rejected"} => i \notin approved
    /\ p = "returned" \/ r = "committed" => Ended(i, {"committed"})
    /\ r = "aborted" /\ i \in approved => Ended(i, NotCommitted)

CallInv ==
    /\ phase \in [Ids -> Phases] /\ run \in [Ids -> Statuses]
    /\ \A i \in Ids : CallIs(i, phase[i], run[i])

\* Rows stay, and stay as they ended; those of the other calls stay as they are.
Kept(i) ==
    /\ UNCHANGED <<tool, call>>
    /\ DOMAIN ledger \subseteq DOMAIN ledger' /\ DOMAIN ledger' \subseteq DOMAIN ledger \union {i}
    /\ \A j \in DOMAIN ledger : j # i \/ ledger[j] # "executing" => ledger'[j] = ledger[j]

LEMMA StaysEnded ==
    ASSUME NEW k, Kept(k), NEW i, NEW CONSTANT states, "executing" \notin states, Ended(i, states)
    PROVE  Ended(i, states)'
<1>1. \A j : Key(j)' = Key(j)
  BY DEF Kept, Key, ArgMap, Bound
<1>2. PICK j \in DOMAIN ledger : Key(j) = Key(i) /\ ledger[j] \in states
  BY DEF Ended, Rows
<1>3. j \in DOMAIN ledger' /\ ledger'[j] \in states
  BY <1>2 DEF Kept
<1>. QED BY <1>1, <1>2, <1>3 DEF Ended, Rows

LEMMA BothStay ==
    ASSUME NEW k, Kept(k), NEW i
    PROVE  /\ Ended(i, {"committed"}) => Ended(i, {"committed"})'
           /\ Ended(i, NotCommitted) => Ended(i, NotCommitted)'
BY StaysEnded DEF NotCommitted

\* Where one call moves on, the other one stays what it is.
LEMMA OneCall ==
    ASSUME CallInv, NEW i \in Ids, Kept(i), NEW p, NEW r, CallIs(i, p, r)',
           phase' = [phase EXCEPT ![i] = p], run' = [run EXCEPT ![i] = r],
           \A k : k # i => (k \in approved' <=> k \in approved)
    PROVE  CallInv'
<1>1. p \in Phases /\ r \in Statuses
  BY DEF CallIs
<1>2. phase' \in [Ids -> Phases] /\ run' \in [Ids -> Statuses]
  BY <1>1 DEF CallInv
<1>3. phase'[i] = p /\ run'[i] = r
  BY DEF CallInv
<1>4. ASSUME NEW k \in Ids, k # i PROVE CallIs(k, phase[k], run[k])'
  <2>1. phase'[k] = phase[k] /\ run'[k] = run[k] /\ CallIs(k, phase[k], run[k])
    BY <1>4 DEF CallInv
  <2>2. /\ k \in DOMAIN ledger' <=> k \in DOMAIN ledger
        /\ k \in DOMAIN ledger => ledger'[k] = ledger[k]
        /\ k \in approved' <=> k \in approved
    BY <1>4 DEF Kept
  <2>3. LetThrough(call[k].ctx)' <=> LetThrough(call[k].ctx)
    BY DEF Kept, LetThrough
  <2>4. /\ Ended(k, {"committed"}) => Ended(k, {"committed"})'
        /\ Ended(k, NotCommitted) => Ended(k, NotCommitted)'
    BY BothStay
  <2>. QED BY <2>1, <2>2, <2>3, <2>4 DEF CallIs
<1>5. ASSUME NEW k \in Ids PROVE CallIs(k, phase[k], run[k])'
  BY <1>3, <1>4, <1>5
<1>. QED BY <1>2, <1>5 DEF CallInv

\* What is invoked is traced, and nothing else is.
LEMMA InvokedIsTraced ==
    ASSUME LedgerInv, NEW j \in Ids, NEW b, NEW by, Invoked(j, b, by)
    PROVE  /\ ran' \in Seq({ran'[n] : n \in DOMAIN ran'})
           /\ \A i : RanIn(i)' <=> RanIn(i) \/ i = j
<1>1. PICK x : x = [row |-> j, bound |-> b, by |-> by]
  OBVIOUS
<1>2. PICK n \in Nat : n = Len(ran) /\ DOMAIN ran = 1..n
  BY LenProperties DEF LedgerInv
<1>3. /\ Len(ran') = n + 1 /\ ran' \in Seq({ran'[m] : m \in DOMAIN ran'})
      /\ \A m \in 1..n : ran'[m] = ran[m]
      /\ ran'[n + 1] = x
  BY <1>1, <1>2, OneMore DEF LedgerInv, Invoked
<1>4. DOMAIN ran' = 1..n + 1
  BY <1>3, LenProperties
<1>5. \A m : m \in 1..n + 1 <=> m \in 1..n \/ m = n + 1
  BY <1>2
<1>6. \A i : RanIn(i)' <=> RanIn(i) \/ i = j
  BY <1>1, <1>2, <1>3, <1>4, <1>5 DEF RanIn
<1>. QED BY <1>3, <1>6

LEMMA LedgerGoesOn ==
    ASSUME LedgerInv, NEW j \in Ids, NEW b, NEW by, Invoked(j, b, by),
           DOMAIN ledger' = DOMAIN ledger \union {j},
           ledger' \in [DOMAIN ledger' -> RowStates],
           \A k \in DOMAIN ledger : k # j => ledger'[k] = ledger[k]
    PROVE  LedgerInv'
BY InvokedIsTraced DEF LedgerInv

LEMMA LedgerAside ==
    ASSUME LedgerInv, UNCHANGED <<ledger, ran>>
    PROVE  LedgerInv'
BY DEF LedgerInv, RanIn

\* A row that ends without its effect being run by this step.
LEMMA LedgerSettles ==
    ASSUME LedgerInv, NEW j \in Ids, UNCHANGED ran,
           DOMAIN ledger' = DOMAIN ledger \union {j},
           ledger' \in [DOMAIN ledger' -> RowStates],
           \A k \in DOMAIN ledger : k # j => ledger'[k] = ledger[k],
           ledger'[j] = "committed" => RanIn(j)
    PROVE  LedgerInv'
BY DEF LedgerInv, RanIn

\* A row settled, and a row claimed.
LEMMA Settled ==
    ASSUME LedgerInv, NEW j \in DOMAIN ledger, NEW state \in RowStates, Settle(j, state)
    PROVE  /\ j \in Ids /\ DOMAIN ledger' = DOMAIN ledger \union {j}
           /\ ledger' \in [DOMAIN ledger' -> RowStates]
           /\ \A k \in DOMAIN ledger : k # j => ledger'[k] = ledger[k]
           /\ ledger'[j] = state
BY DEF LedgerInv, Settle

LEMMA Claimed ==
    ASSUME LedgerInv, NEW i \in Ids, NEW state \in RowStates, Rows(i) = {}, Claim(i, state)
    PROVE  /\ i \notin DOMAIN ledger /\ DOMAIN ledger' = DOMAIN ledger \union {i}
           /\ ledger' \in [DOMAIN ledger' -> RowStates]
           /\ \A k \in DOMAIN ledger : ledger'[k] = ledger[k]
           /\ ledger'[i] = state
<1>1. i \notin DOMAIN ledger
  BY DEF Rows
<1>. QED BY <1>1 DEF LedgerInv, Claim

-----------------------------------------------------------------------------
(* The steps of a call.                                                    *)

\* A call the policy lets through, a rule or the default lets through.
LEMMA AutoIsLetThrough ==
    ASSUME NEW ctx, Evaluate(ThePolicy, ctx) = "auto"
    PROVE  LetThrough(ctx)
<1>1. PICK hits : hits = {i \in DOMAIN ThePolicy.rules : RuleMatches(ThePolicy.rules[i], ctx)}
  OBVIOUS
<1>2. CASE hits = {}
  BY <1>1, <1>2 DEF Evaluate, LetThrough
<1>3. CASE hits # {}
  <2>1. hits \in SUBSET Nat
    BY <1>1, LenProperties, PolicyAssumption
  <2>2. PICK i : i = CHOOSE n \in hits : \A m \in hits : n <= m
    OBVIOUS
  <2>3. i \in hits
    BY <1>3, <2>1, <2>2, LeastElement
  <2>4. ThePolicy.rules[i].decision = "auto"
    BY <1>1, <1>3, <2>2 DEF Evaluate
  <2>5. RuleMatches(ThePolicy.rules[i], ctx) /\ i \in DOMAIN ThePolicy.rules
    BY <1>1, <2>3
  <2>. QED BY <2>4, <2>5 DEF LetThrough, RuleMatches, Within, NoWider
<1>. QED BY <1>2, <1>3

\* A call that leaves ledger, runs and effects alone.
LEMMA PhaseMoves ==
    ASSUME CallInv, LedgerInv, NEW i \in Ids, NEW p, CallIs(i, p, run[i]),
           Become(i, p), UNCHANGED <<tool, call, ledger, run, approved, ran>>
    PROVE  CallInv' /\ LedgerInv'
<1>1. Kept(i) /\ run' = [run EXCEPT ![i] = run[i]]
  BY DEF Kept, CallInv
<1>2. PICK r : r = run[i]
  OBVIOUS
<1>3. CallIs(i, p, r)'
  <2>1. /\ Ended(i, {"committed"}) => Ended(i, {"committed"})'
        /\ Ended(i, NotCommitted) => Ended(i, NotCommitted)'
    BY <1>1, BothStay
  <2>2. LetThrough(call[i].ctx)' <=> LetThrough(call[i].ctx)
    BY DEF LetThrough
  <2>. QED BY <1>2, <2>1, <2>2 DEF CallIs
<1>4. CallInv'
  BY <1>1, <1>2, <1>3, OneCall DEF Become
<1>. QED BY <1>4, LedgerAside

\* What leaves the calls alone.
LEMMA GuardAside ==
    ASSUME CallInv, LedgerInv, UNCHANGED guardVars
    PROVE  CallInv' /\ LedgerInv'
<1>1. UNCHANGED <<tool, call, phase, ledger, run, approved, ran>> /\ 1 \in Ids
  BY DEF guardVars, Ids
<1>2. PICK p : p = phase[1]
  OBVIOUS
<1>3. CallIs(1, p, run[1]) /\ Become(1, p)
  BY <1>1, <1>2 DEF CallInv, Become
<1>. QED BY <1>1, <1>3, PhaseMoves

\* A live call whose row ends, or does not, as the call goes on to phase p.
LEMMA LiveMoves ==
    ASSUME CallInv, LedgerInv, NEW i \in Ids, phase[i] = "driving", NEW p, Become(i, p),
           UNCHANGED <<tool, call, run, approved>>, LedgerInv',
           NEW state \in RowStates, Settle(i, state),
           <<p, state>> \in {<<"returned", "committed">>, <<"refused", "failed">>,
                             <<"refused", "aborted">>, <<"crashed", "executing">>}
    PROVE  CallInv'
<1>1. CallIs(i, phase[i], run[i])
  BY DEF CallInv
<1>2. /\ i \in DOMAIN ledger /\ ledger[i] = "executing" /\ LetThrough(call[i].ctx)
      /\ run[i] = "none" /\ i \notin approved
  BY <1>1 DEF CallIs
<1>3. /\ DOMAIN ledger' = DOMAIN ledger /\ ledger'[i] = state
      /\ \A k \in DOMAIN ledger : k # i => ledger'[k] = ledger[k]
  BY <1>2 DEF Settle, LedgerInv
<1>4. Kept(i)
  BY <1>2, <1>3 DEF Kept
<1>5. CallIs(i, p, "none")'
  <2>1. LetThrough(call[i].ctx)'
    BY <1>2 DEF LetThrough
  <2>2. p = "returned" => Ended(i, {"committed"})'
    <3>1. p = "returned" => i \in Rows(i)' /\ ledger'[i] = "committed"
      BY <1>2, <1>3 DEF Rows
    <3>. QED BY <3>1 DEF Ended
  <2>3. p \in {"returned", "refused", "crashed"}
    OBVIOUS
  <2>. QED BY <1>2, <2>1, <2>2, <2>3 DEF CallIs, Phases, Statuses
<1>6. phase' = [phase EXCEPT ![i] = p] /\ run' = [run EXCEPT ![i] = "none"]
  BY <1>2 DEF Become, CallInv
<1>. QED BY <1>4, <1>5, <1>6, OneCall

LEMMA GuardKeeps ==
    ASSUME CallInv, LedgerInv, NEW i \in Ids, GuardStep(i)
    PROVE  CallInv' /\ LedgerInv'
<1>1. CallIs(i, phase[i], run[i])
  BY DEF CallInv
<1>2. Verdict(i) = "auto" => LetThrough(call[i].ctx)
  BY AutoIsLetThrough DEF Verdict
<1>3. CASE Raise(i)
  <2>1. CallIs(i, "raised", run[i])
    BY <1>1, <1>3 DEF CallIs, Raise, Phases
  <2>. QED BY <1>3, <2>1, PhaseMoves DEF Raise
<1>4. CASE Deny(i)
  <2>1. CallIs(i, "denied", run[i])
    BY <1>1, <1>4 DEF CallIs, Deny, Phases
  <2>. QED BY <1>4, <2>1, PhaseMoves DEF Deny
<1>5. CASE Gate(i)
  <2>1. Kept(i)
    BY <1>5 DEF Gate, Kept
  <2>2. CallIs(i, "paused", "proposed")'
    BY <1>1, <1>5 DEF CallIs, Gate, Phases, Statuses
  <2>. QED BY <1>5, <2>1, <2>2, OneCall, LedgerAside DEF Gate, Become
<1>6. CASE CommitAuto(i) /\ Rows(i) # {}
  <2>1. CallIs(i, "joined", run[i])
    BY <1>1, <1>2, <1>6 DEF CallIs, CommitAuto, Phases
  <2>. QED BY <1>6, <2>1, PhaseMoves DEF CommitAuto
<1>7. CASE CommitAuto(i) /\ Rows(i) = {}
  <2>1. /\ i \notin DOMAIN ledger
        /\ DOMAIN ledger' = DOMAIN ledger \union {i} /\ ledger' \in [DOMAIN ledger' -> RowStates]
        /\ \A j \in DOMAIN ledger : ledger'[j] = ledger[j]
        /\ ledger'[i] = "executing"
    BY <1>7, Claimed DEF CommitAuto, RowStates
  <2>2. Kept(i) /\ UNCHANGED <<run, approved, ran>>
    BY <1>7, <2>1 DEF CommitAuto, Kept
  <2>3. LedgerInv'
    BY <2>1, <2>2, LedgerSettles
  <2>4. PICK r : r = run[i]
    OBVIOUS
  <2>5. CallIs(i, "driving", r)'
    <3>1. LetThrough(call[i].ctx)'
      BY <1>2, <1>7 DEF CommitAuto, LetThrough
    <3>2. r = "none" /\ i \notin approved
      BY <1>1, <1>7, <2>4 DEF CallIs, CommitAuto
    <3>. QED BY <2>1, <2>2, <3>1, <3>2 DEF CallIs, Phases, Statuses
  <2>6. phase' = [phase EXCEPT ![i] = "driving"] /\ run' = [run EXCEPT ![i] = r]
    BY <1>7, <2>2, <2>4 DEF CommitAuto, Become, CallInv
  <2>. QED BY <2>2, <2>3, <2>5, <2>6, OneCall
<1>8. CASE RunLive(i) \/ AbortLive(i)
  <2>1. phase[i] = "driving" /\ UNCHANGED <<tool, call, run, approved>>
    BY <1>8 DEF RunLive, AbortLive
  <2>2. i \in DOMAIN ledger /\ ledger[i] = "executing"
    BY <1>1, <2>1 DEF CallIs
  <2>3. PICK p, state : /\ Become(i, p) /\ Settle(i, state)
                        /\ <<p, state>> \in {<<"returned", "committed">>, <<"refused", "failed">>,
                                             <<"refused", "aborted">>, <<"crashed", "executing">>}
                        /\ AbortLive(i) => state = "aborted"
    <3>1. UNCHANGED ledger => Settle(i, "executing")
      BY <2>2 DEF Settle, LedgerInv
    <3>2. CASE AbortLive(i)
      BY <3>2 DEF AbortLive
    <3>3. CASE ~AbortLive(i)
      <4>1. RunLive(i)
        BY <1>8, <3>3
      <4>2. \/ Settle(i, "committed") /\ Become(i, "returned")
            \/ Settle(i, "failed") /\ Become(i, "refused")
            \/ Settle(i, "executing") /\ Become(i, "crashed")
        BY <3>1, <4>1 DEF RunLive
      <4>. QED BY <3>3, <4>2
    <3>. QED BY <3>2, <3>3
  <2>4. state \in RowStates
    BY <2>3 DEF RowStates, NotCommitted
  <2>5. /\ DOMAIN ledger' = DOMAIN ledger \union {i} /\ ledger' \in [DOMAIN ledger' -> RowStates]
        /\ \A k \in DOMAIN ledger : k # i => ledger'[k] = ledger[k]
        /\ ledger'[i] = state
    BY <2>2, <2>3, <2>4, Settled
  <2>6. LedgerInv'
    <3>1. CASE RunLive(i)
      <4>1. PICK b : Invoked(i, b, "live")
        BY <3>1 DEF RunLive
      <4>. QED BY <2>5, <4>1, LedgerGoesOn
    <3>2. CASE AbortLive(i)
      <4>1. UNCHANGED ran /\ state = "aborted"
        BY <2>3, <3>2 DEF AbortLive
      <4>. QED BY <2>5, <4>1, LedgerSettles
    <3>. QED BY <1>8, <3>1, <3>2
  <2>. QED BY <2>1, <2>3, <2>4, <2>6, LiveMoves
<1>9. CASE RunLiveRaises(i) \/ Crash(i)
  <2>1. CallIs(i, "crashed", run[i])
    BY <1>1, <1>9 DEF CallIs, RunLiveRaises, Crash, Phases
  <2>. QED BY <1>9, <2>1, PhaseMoves DEF RunLiveRaises, Crash
<1>10. CASE Recover(i)
  <2>1. /\ i \in DOMAIN ledger /\ ledger[i] = "executing" /\ phase[i] # "driving"
        /\ UNCHANGED <<tool, call, phase, run, approved>>
    BY <1>10 DEF Recover
  <2>2. PICK state \in RowStates :
            /\ Settle(i, state)
            /\ RunFromMap(i) \/ (UNCHANGED ran /\ (state = "committed" => RanIn(i)))
    BY <1>10 DEF Recover, RowStates, NotCommitted
  <2>3. /\ DOMAIN ledger' = DOMAIN ledger \union {i} /\ ledger' \in [DOMAIN ledger' -> RowStates]
        /\ \A k \in DOMAIN ledger : k # i => ledger'[k] = ledger[k]
        /\ ledger'[i] = state
    BY <2>1, <2>2, Settled
  <2>4. LedgerInv'
    <3>1. CASE RunFromMap(i)
      <4>1. PICK b : Invoked(i, b, "map")
        BY <3>1 DEF RunFromMap
      <4>. QED BY <2>3, <4>1, LedgerGoesOn
    <3>2. CASE UNCHANGED ran /\ (state = "committed" => RanIn(i))
      BY <2>3, <3>2, LedgerSettles
    <3>. QED BY <2>2, <3>1, <3>2
  <2>5. Kept(i)
    BY <2>1, <2>3 DEF Kept
  <2>6. PICK p, r : p = phase[i] /\ r = run[i]
    OBVIOUS
  <2>7. CallIs(i, p, r)'
    <3>1. /\ Ended(i, {"committed"}) => Ended(i, {"committed"})'
          /\ Ended(i, NotCommitted) => Ended(i, NotCommitted)'
      BY <2>5, BothStay
    <3>2. LetThrough(call[i].ctx)' <=> LetThrough(call[i].ctx)
      BY <2>1 DEF LetThrough
    <3>. QED BY <1>1, <2>1, <2>6, <3>1, <3>2 DEF CallIs
  <2>8. phase' = [phase EXCEPT ![i] = p] /\ run' = [run EXCEPT ![i] = r]
    BY <2>1, <2>6 DEF CallInv
  <2>. QED BY <2>1, <2>4, <2>5, <2>7, <2>8, OneCall
<1>11. CASE Join(i)
  <2>1. PICK p \in {"returned", "refused"} :
            Become(i, p) /\ (p = "returned" => Ended(i, {"committed"}))
    BY <1>11 DEF Join, Ended
  <2>2. CallIs(i, p, run[i])
    BY <1>1, <1>11, <2>1 DEF CallIs, Join, Phases
  <2>. QED BY <1>11, <2>1, <2>2, PhaseMoves DEF Join
<1>. QED BY <1>3, <1>4, <1>5, <1>6, <1>7, <1>8, <1>9, <1>10, <1>11 DEF GuardStep

-----------------------------------------------------------------------------
(* The verdict.                                                            *)

\* Where verdict v takes a run.
Moves(i, v, r) ==
    /\ run' = [run EXCEPT ![i] = r]
    /\ \/ r = run[i] /\ approved' = approved
       \/ /\ Now(i, v) = "approved" /\ r \in {"approved", "committed", "aborted"}
          /\ approved' = approved \union {i}
       \/ Now(i, v) = "rejected" /\ r \in {"rejected", "aborted"} /\ approved' = approved

\* A run that has gone where it may, on a ledger that has kept what it held.
LEMMA RunMoves ==
    ASSUME CallInv, NEW i \in Ids, NEW v \in {"approved", "rejected"}, NEW r \in Statuses,
           Moves(i, v, r), Kept(i), UNCHANGED phase, run[i] # "none",
           i \in DOMAIN ledger' => i \in DOMAIN ledger \/ i \in approved',
           r = "committed" => run[i] = "committed" \/ Ended(i, {"committed"})',
           r = "aborted" /\ i \in approved' =>
               (run[i] = "aborted" /\ i \in approved) \/ Ended(i, NotCommitted)'
    PROVE  CallInv'
<1>1. CallIs(i, phase[i], run[i]) /\ run \in [Ids -> Statuses] /\ phase \in [Ids -> Phases]
  BY DEF CallInv
<1>2. PICK p : p = phase[i] /\ phase' = [phase EXCEPT ![i] = p]
  BY <1>1
<1>3. p \in {"paused", "sent"}
  BY <1>1, <1>2 DEF CallIs
<1>4. /\ Ended(i, {"committed"}) => Ended(i, {"committed"})'
      /\ Ended(i, NotCommitted) => Ended(i, NotCommitted)'
  BY BothStay
<1>5. r # "none"
  BY DEF Moves
<1>6. /\ r \in {"approved", "committed"} => i \in approved'
      /\ r \in {"none", "proposed", "rejected"} => i \notin approved'
  <2>1. run[i] = "rejected" => i \notin approved
    BY <1>1 DEF CallIs
  <2>2. Now(i, v) = "rejected" => i \notin approved
    BY <1>1 DEF Now, CallIs
  <2>. QED BY <1>1, <2>1, <2>2 DEF Moves, CallIs
<1>7. i \in DOMAIN ledger' => i \in approved'
  <2>1. i \in DOMAIN ledger => i \in approved
    BY <1>1, <1>2, <1>3 DEF CallIs
  <2>2. i \in approved => i \in approved'
    BY DEF Moves
  <2>. QED BY <2>1, <2>2
<1>8. CallIs(i, p, r)'
  BY <1>1, <1>3, <1>4, <1>5, <1>6, <1>7 DEF CallIs, Phases
<1>9. \A k : k # i => (k \in approved' <=> k \in approved)
  BY DEF Moves
<1>10. run' = [run EXCEPT ![i] = r]
  BY DEF Moves
<1>. QED BY <1>2, <1>8, <1>9, <1>10, OneCall

\* What the drive does to the ledger.
LEMMA DriveClaims ==
    ASSUME CallInv, LedgerInv, NEW i \in Ids, Rows(i) = {}, NEW state \in RowStates, Claim(i, state),
           RunFromMap(i) \/ (UNCHANGED ran /\ state # "committed"), UNCHANGED <<tool, call>>
    PROVE  LedgerInv' /\ Kept(i) /\ i \in Rows(i)' /\ ledger'[i] = state
<1>1. /\ i \notin DOMAIN ledger
      /\ DOMAIN ledger' = DOMAIN ledger \union {i} /\ ledger' \in [DOMAIN ledger' -> RowStates]
      /\ \A k \in DOMAIN ledger : ledger'[k] = ledger[k]
      /\ ledger'[i] = state
  BY Claimed
<1>2. LedgerInv'
  <2>1. CASE RunFromMap(i)
    <3>1. PICK b : Invoked(i, b, "map")
      BY <2>1 DEF RunFromMap
    <3>. QED BY <1>1, <3>1, LedgerGoesOn
  <2>2. CASE UNCHANGED ran /\ state # "committed"
    BY <1>1, <2>2, LedgerSettles
  <2>. QED BY <2>1, <2>2
<1>. QED BY <1>1, <1>2 DEF Kept, Rows

\* Delivered, applied or raised on the way: the run goes where it may go.
LEMMA VerdictMoves ==
    ASSUME CallInv, LedgerInv, NEW i \in Ids, NEW v \in {"approved", "rejected"},
           Apply(i, v) \/ ApplyRaises(i, v), UNCHANGED <<tool, call, phase>>
    PROVE  /\ CallInv' /\ LedgerInv'
           /\ \E r \in Statuses : Moves(i, v, r)
           /\ Apply(i, v) /\ run[i] # "none" => run'[i] \in {"committed", "aborted"}
<1>1. CallIs(i, phase[i], run[i]) /\ run \in [Ids -> Statuses] /\ run[i] \in Statuses
  BY DEF CallInv
<1>2. PICK now : now = Now(i, v) /\ now = IF run[i] = "proposed" THEN v ELSE run[i]
  BY DEF Now
<1>3. CASE now = "approved"
  <2>1. run[i] \in {"proposed", "approved"} /\ run[i] # "none"
    BY <1>2, <1>3
  <2>2. CASE Apply(i, v)
    <3>1. DriveApproved(i) /\ approved' = approved \union {i}
      BY <1>2, <1>3, <2>2 DEF Apply, Decide
    <3>2. PICK state \in {"committed"} \union NotCommitted :
              /\ run' = [run EXCEPT ![i] = IF state = "committed" THEN "committed" ELSE "aborted"]
              /\ \/ Rows(i) = {} /\ Claim(i, state) /\ RunFromMap(i)
                 \/ Rows(i) = {} /\ Claim(i, state) /\ UNCHANGED ran /\ state # "committed"
                 \/ Rows(i) # {} /\ (\A j \in Rows(i) : ledger[j] = state) /\ UNCHANGED <<ledger, ran>>
      BY <3>1 DEF DriveApproved
    <3>3. state \in RowStates /\ (state # "committed" => state \in NotCommitted)
      BY <3>2 DEF RowStates
    <3>4. /\ LedgerInv' /\ Kept(i) /\ (i \in DOMAIN ledger' => i \in DOMAIN ledger \/ i \in approved')
          /\ Ended(i, {state})'
      <4>1. CASE Rows(i) = {}
        <5>1. LedgerInv' /\ Kept(i) /\ i \in Rows(i)' /\ ledger'[i] = state
          BY <3>2, <3>3, <4>1, DriveClaims
        <5>. QED BY <3>1, <5>1 DEF Ended
      <4>2. CASE Rows(i) # {}
        <5>1. UNCHANGED <<ledger, ran>> /\ Ended(i, {state})
          BY <3>2, <4>2 DEF Ended
        <5>2. Kept(i)
          BY <5>1 DEF Kept
        <5>3. "executing" \notin {state}
          BY <3>2 DEF NotCommitted
        <5>4. Ended(i, {state})'
          BY <5>1, <5>2, <5>3, StaysEnded
        <5>. QED BY <5>1, <5>2, <5>4, LedgerAside
      <4>. QED BY <4>1, <4>2
    <3>5. PICK r : r = IF state = "committed" THEN "committed" ELSE "aborted"
      OBVIOUS
    <3>6. r \in Statuses /\ Moves(i, v, r)
      BY <1>2, <1>3, <3>1, <3>2, <3>5 DEF Moves, Statuses
    <3>7. /\ r = "committed" => Ended(i, {"committed"})'
          /\ r = "aborted" => Ended(i, NotCommitted)'
      BY <3>3, <3>4, <3>5 DEF Ended
    <3>8. CallInv'
      BY <2>1, <3>4, <3>6, <3>7, RunMoves
    <3>9. run'[i] = r
      BY <1>1, <3>2, <3>5
    <3>. QED BY <3>4, <3>5, <3>6, <3>8, <3>9
  <2>3. CASE ApplyRaises(i, v) /\ ~Apply(i, v)
    <3>1. CASE UNCHANGED <<run, approved, ledger, ran>>
      <4>1. Kept(i)
        BY <3>1 DEF Kept
      <4>2. Moves(i, v, run[i])
        BY <1>1, <3>1 DEF Moves
      <4>3. PICK r : r = run[i]
        OBVIOUS
      <4>4. r \in {"proposed", "approved"} /\ Moves(i, v, r) /\ r \in Statuses
        BY <2>1, <4>2, <4>3 DEF Statuses
      <4>5. CallInv'
        BY <2>1, <3>1, <4>1, <4>4, RunMoves
      <4>. QED BY <2>3, <3>1, <4>4, <4>5, LedgerAside
    <3>2. CASE ~UNCHANGED <<run, approved, ledger, ran>>
      <4>1. /\ run' = [run EXCEPT ![i] = "approved"] /\ approved' = approved \union {i}
            /\ DriveRaises(i)
        BY <1>2, <1>3, <2>3, <3>2 DEF ApplyRaises, Decide
      <4>2. Moves(i, v, "approved")
        BY <1>2, <1>3, <4>1 DEF Moves
      <4>3. LedgerInv' /\ Kept(i)
        <5>1. CASE UNCHANGED <<ledger, ran>>
          BY <5>1, LedgerAside DEF Kept
        <5>2. CASE Rows(i) = {} /\ Claim(i, "executing") /\ (UNCHANGED ran \/ RunFromMap(i))
          <6>1. "executing" \in RowStates /\ "executing" # "committed"
            BY DEF RowStates
          <6>. QED BY <5>2, <6>1, DriveClaims
        <5>. QED BY <4>1, <5>1, <5>2 DEF DriveRaises
      <4>4. CallInv'
        BY <2>1, <4>1, <4>2, <4>3, RunMoves DEF Statuses
      <4>. QED BY <2>3, <4>2, <4>3, <4>4 DEF Statuses
    <3>. QED BY <3>1, <3>2
  <2>. QED BY <2>2, <2>3
<1>4. CASE now # "approved"
  <2>1. PICK r \in Statuses : /\ Moves(i, v, r) /\ UNCHANGED <<approved, ledger, ran>>
                              /\ r = run[i] \/ r = "rejected" \/ (r = "aborted" /\ now = "rejected")
                              /\ Apply(i, v) => r = IF now = "rejected" THEN "aborted" ELSE run[i]
    <3>1. UNCHANGED <<approved, ledger, ran>>
      BY <1>2, <1>4 DEF Apply, ApplyRaises, Decide
    <3>2. CASE Apply(i, v)
      <4>1. CASE now = "rejected"
        BY <1>2, <3>1, <3>2, <4>1 DEF Apply, Moves, Statuses
      <4>2. CASE now # "rejected"
        <5>1. UNCHANGED run
          BY <1>2, <1>4, <3>2, <4>2 DEF Apply
        <5>. QED BY <1>1, <3>1, <4>2, <5>1 DEF Moves
      <4>. QED BY <4>1, <4>2
    <3>3. CASE ~Apply(i, v)
      <4>1. run' = run \/ run' = [run EXCEPT ![i] = now]
        BY <1>2, <3>3 DEF ApplyRaises
      <4>2. CASE run' = run
        BY <1>1, <3>1, <3>3, <4>2 DEF Moves
      <4>3. CASE run' = [run EXCEPT ![i] = now] /\ now = run[i]
        BY <1>1, <3>1, <3>3, <4>3 DEF Moves
      <4>4. CASE run' = [run EXCEPT ![i] = now] /\ now # run[i]
        <5>1. now = "rejected"
          BY <1>2, <1>4, <4>4
        <5>. QED BY <1>2, <3>1, <3>3, <4>4, <5>1 DEF Moves, Statuses
      <4>. QED BY <4>1, <4>2, <4>3, <4>4
    <3>. QED BY <3>2, <3>3
  <2>2. Kept(i) /\ LedgerInv'
    BY <2>1, LedgerAside DEF Kept
  <2>3. now = "rejected" => i \notin approved /\ run[i] # "none"
    BY <1>1, <1>2 DEF CallIs
  <2>4. CallInv'
    <3>1. CASE run[i] # "none"
      <4>1. r = "committed" => run[i] = "committed"
        BY <2>1
      <4>2. r = "aborted" /\ i \in approved' => run[i] = "aborted" /\ i \in approved
        BY <2>1, <2>3
      <4>. QED BY <2>1, <2>2, <3>1, <4>1, <4>2, RunMoves
    <3>2. CASE run[i] = "none"
      <4>1. now = "none" /\ run' = run
        BY <1>1, <1>2, <2>1, <3>2 DEF Apply, ApplyRaises
      <4>2. PICK p : p = phase[i]
        OBVIOUS
      <4>3. CallIs(i, p, run[i]) /\ Become(i, p)
        BY <1>1, <4>2 DEF Become, CallInv
      <4>. QED BY <2>1, <4>1, <4>3, PhaseMoves
    <3>. QED BY <3>1, <3>2
  <2>5. Apply(i, v) /\ run[i] # "none" => run'[i] \in {"committed", "aborted"}
    <3>1. run'[i] = r
      BY <1>1, <2>1 DEF Moves
    <3>2. now # "rejected" /\ run[i] # "none" => run[i] \in {"committed", "aborted"}
      BY <1>1, <1>2, <1>4 DEF Statuses
    <3>. QED BY <2>1, <3>1, <3>2
  <2>. QED BY <2>1, <2>2, <2>4, <2>5
<1>. QED BY <1>3, <1>4

-----------------------------------------------------------------------------
(* The approvals file.                                                     *)

Lines == [call : Nat, verdict : Verdicts \union {"none"}]
About(l, i) == {n \in DOMAIN l : l[n].call = i}
FirstAbout(l, i) == l[CHOOSE k \in About(l, i) : \A m \in About(l, i) : k <= m]

\* The first line about a call is what a scan returns.
LEMMA FirstLine ==
    ASSUME NEW l, NEW i, NEW n \in About(l, i), \A m \in About(l, i) : n <= m,
           About(l, i) \subseteq Nat
    PROVE  (CHOOSE k \in About(l, i) : \A m \in About(l, i) : k <= m) = n
<1>1. PICK k : k = CHOOSE j \in About(l, i) : \A m \in About(l, i) : j <= m
  OBVIOUS
<1>2. k \in About(l, i) /\ \A m \in About(l, i) : k <= m
  BY <1>1
<1>3. k \in Nat /\ n \in Nat /\ k <= n /\ n <= k
  BY <1>2
<1>. QED BY <1>1, <1>3

\* A file that only grew still says what it said of a call.
LEMMA FirstLineStays ==
    ASSUME NEW l \in Seq(Lines), NEW x \in Lines, NEW g, g = l \/ g = Append(l, x),
           NEW i, About(l, i) # {}
    PROVE  About(g, i) # {} /\ FirstAbout(l, i) = FirstAbout(g, i)
<1>1. CASE g = l
  BY <1>1
<1>2. CASE g = Append(l, x)
  <2>1. PICK c \in Nat : c = Len(l) /\ DOMAIN l = 1..c
    BY LenProperties
  <2>2. Len(g) = c + 1 /\ g \in Seq(Lines) /\ \A n \in 1..c : g[n] = l[n]
    BY <1>2, <2>1, Longer
  <2>3. DOMAIN g = 1..c + 1
    BY <2>2, LenProperties
  <2>4. About(l, i) \in SUBSET Nat /\ About(l, i) \subseteq 1..c
    BY <2>1 DEF About
  <2>5. PICK n \in About(l, i) : \A m \in About(l, i) : n <= m
    BY <2>4, LeastElement
  <2>6. n \in 1..c /\ n \in About(g, i)
    BY <2>1, <2>2, <2>3, <2>4, <2>5 DEF About
  <2>7. ASSUME NEW m \in About(g, i) PROVE m \in Nat /\ n <= m
    <3>1. m \in 1..c + 1
      BY <2>3 DEF About
    <3>2. CASE m = c + 1
      BY <2>6, <3>2
    <3>3. CASE m # c + 1
      <4>1. m \in 1..c
        BY <3>1, <3>3
      <4>2. m \in About(l, i)
        BY <2>1, <2>2, <4>1 DEF About
      <4>. QED BY <2>5, <4>1, <4>2
    <3>. QED BY <3>2, <3>3
  <2>8. (CHOOSE k \in About(l, i) : \A m \in About(l, i) : k <= m) = n
    BY <2>4, <2>5, FirstLine
  <2>9. (CHOOSE k \in About(g, i) : \A m \in About(g, i) : k <= m) = n
    BY <2>6, <2>7, FirstLine
  <2>. QED BY <2>2, <2>6, <2>8, <2>9 DEF FirstAbout
<1>. QED BY <1>1, <1>2

\* A verdict that has been read off is one somebody recorded.
LEMMA ScanShape ==
    ASSUME lines \in Seq(Lines), NEW i, Scan(i) # "none"
    PROVE  Scan(i) \in Verdicts /\ About(lines, i) # {}
<1>1. About(lines, i) # {} /\ Matching(i) = About(lines, i)
  BY DEF Scan, Matching, About
<1>2. PICK c \in Nat : c = Len(lines) /\ DOMAIN lines = 1..c
  BY LenProperties
<1>3. About(lines, i) \in SUBSET Nat
  BY <1>2 DEF About
<1>4. PICK n \in About(lines, i) : \A m \in About(lines, i) : n <= m
  BY <1>1, <1>3, LeastElement
<1>5. (CHOOSE k \in About(lines, i) : \A m \in About(lines, i) : k <= m) = n
  BY <1>3, <1>4, FirstLine
<1>6. Scan(i) = lines[n].verdict
  BY <1>1, <1>5 DEF Scan
<1>7. lines[n] \in Lines
  BY <1>2, ElementOfSeq DEF About
<1>. QED BY <1>1, <1>6, <1>7 DEF Lines

\* A line written behind an unfinished one takes that one with it, no other.
LEMMA FileStands ==
    ASSUME lines \in Seq(Lines), torn => lines # <<>>, NEW x \in Lines,
           lines' = lines \/ lines' = Written(x), NEW i \in Ids
    PROVE  /\ lines' \in Seq(Lines) /\ (lines' = Written(x) => lines' # <<>>)
           /\ Finished(i) # {} => Scan(i)' = Scan(i)
           /\ Scan(i) # "none" => Scan(i)' \in {Scan(i), "none"}
<1>1. PICK l, g : l = lines /\ g = lines'
  OBVIOUS
<1>2. PICK c \in Nat : c = Len(l) /\ DOMAIN l = 1..c
  BY <1>1, LenProperties
<1>3. Matching(i) = About(l, i) /\ Matching(i)' = About(g, i) /\ About(l, i) \in SUBSET Nat
  BY <1>1, <1>2 DEF Matching, About
<1>4. /\ Scan(i) = IF About(l, i) = {} THEN "none" ELSE FirstAbout(l, i).verdict
      /\ Scan(i)' = IF About(g, i) = {} THEN "none" ELSE FirstAbout(g, i).verdict
  BY <1>1, <1>3 DEF Scan, FirstAbout
<1>5. Written(x) # <<>>
  <2>1. CASE torn
    <3>1. Written(x) = [l EXCEPT ![c] = Unreadable] /\ c # 0
      BY <1>1, <1>2, <2>1, EmptySeq DEF Written
    <3>2. DOMAIN Written(x) = 1..c /\ 1 \in 1..c
      BY <1>2, <3>1
    <3>3. DOMAIN <<>> = {}
      OBVIOUS
    <3>. QED BY <3>2, <3>3
  <2>2. CASE ~torn
    BY <2>2, AppendProperties DEF Written
  <2>. QED BY <2>1, <2>2
<1>6. CASE g = l \/ g = Append(l, x)
  <2>1. g \in Seq(Lines)
    BY <1>1, <1>6, AppendProperties
  <2>2. About(l, i) # {} => About(g, i) # {} /\ FirstAbout(l, i) = FirstAbout(g, i)
    BY <1>1, <1>6, FirstLineStays
  <2>3. Scan(i) # "none" => About(l, i) # {}
    BY <1>4
  <2>4. Finished(i) # {} => About(l, i) # {}
    BY <1>3 DEF Finished
  <2>. QED BY <1>1, <1>4, <1>5, <2>1, <2>2, <2>3, <2>4
<1>7. CASE torn /\ g = [l EXCEPT ![c] = Unreadable]
  <2>1. Unreadable \in Lines /\ Unreadable.call = 0 /\ i # 0
    BY DEF Unreadable, Lines, Ids
  <2>2. c \in 1..c
    <3>1. c # 0
      BY <1>1, <1>2, <1>7, EmptySeq
    <3>. QED BY <3>1
  <2>3. g \in Seq(Lines) /\ DOMAIN g = 1..c /\ g # <<>>
    <3>1. g \in Seq(Lines) /\ Len(g) = Len(l)
      BY <1>1, <1>2, <1>7, <2>1, <2>2, ExceptSeq
    <3>. QED BY <1>2, <2>2, <3>1, LenProperties, EmptySeq
  <2>4. /\ \A n \in 1..c : n # c => g[n] = l[n]
        /\ g[c] = Unreadable
    BY <1>2, <1>7, <2>2
  <2>5. About(g, i) = About(l, i) \ {c}
    BY <1>2, <2>1, <2>2, <2>3, <2>4 DEF About
  <2>6. Finished(i) = About(l, i) \ {c}
    BY <1>1, <1>2, <1>3, <1>7 DEF Finished
  <2>7. CASE Finished(i) = {}
    BY <1>1, <1>4, <2>3, <2>5, <2>6, <2>7
  <2>8. CASE Finished(i) # {}
    <3>1. PICK m \in About(l, i) : m # c /\ m \in 1..c
      BY <1>2, <2>6, <2>8 DEF About
    <3>2. PICK n \in About(l, i) : \A k \in About(l, i) : n <= k
      BY <1>3, <3>1, LeastElement
    <3>3. n \in 1..c /\ n <= m
      BY <1>2, <3>1, <3>2 DEF About
    <3>4. n # c
      BY <3>1, <3>3
    <3>5. n \in About(g, i) /\ (\A k \in About(g, i) : n <= k) /\ About(g, i) \subseteq Nat
      BY <1>3, <2>5, <3>2, <3>4
    <3>6. /\ (CHOOSE k \in About(l, i) : \A o \in About(l, i) : k <= o) = n
          /\ (CHOOSE k \in About(g, i) : \A o \in About(g, i) : k <= o) = n
      BY <1>3, <3>2, <3>5, FirstLine
    <3>7. FirstAbout(l, i) = l[n] /\ FirstAbout(g, i) = g[n] /\ g[n] = l[n]
      BY <2>4, <3>3, <3>4, <3>6 DEF FirstAbout
    <3>. QED BY <1>1, <1>4, <2>3, <3>1, <3>5, <3>7
  <2>. QED BY <2>7, <2>8
<1>. QED BY <1>1, <1>2, <1>6, <1>7 DEF Written

-----------------------------------------------------------------------------
(* The decision on its way.                                                *)

\* Over HTTP a run follows the control plane's record of it, which is made
\* once the request is sent; what is pushed and acknowledged is decided.
WireInv ==
    /\ cloud \in [Ids -> {"none", "requested"} \union Verdicts]
    /\ lines \in Seq(Lines) /\ (torn => lines # <<>>)
    /\ \A i \in Ids : cloud[i] # "none" => route = "http" /\ phase[i] = "sent"
    /\ route = "http" => \A i \in Ids :
          /\ i \in approved => cloud[i] = "approved"
          /\ run[i] \in {"rejected", "aborted"} /\ i \notin approved => cloud[i] = "rejected"
    /\ \A p \in pushes : p.call \in Ids /\ cloud[p.call] \in Verdicts
    /\ acked \subseteq Ids
    /\ \A i \in acked : cloud[i] \in Verdicts /\ run[i] \in {"committed", "aborted"}

EdgeInv == CallInv /\ LedgerInv /\ WireInv

\* A run that was decided stays decided, one that was closed stays closed.
RunStands(k) ==
    /\ k \in approved => k \in approved' /\ run'[k] \in {"approved", "committed", "aborted"}
    /\ run[k] = "rejected" => run'[k] \in {"rejected", "aborted"} /\ k \notin approved'
    /\ run[k] = "aborted" \/ run[k] = "committed" =>
          run'[k] = run[k] /\ (k \in approved' <=> k \in approved)

FileSays(k) ==
    /\ Finished(k) # {} => Scan(k)' = Scan(k)
    /\ Scan(k) # "none" => Scan(k)' \in {Scan(k), "none"}

LEMMA RunsStand ==
    ASSUME CallInv, NEW i \in Ids, NEW v, NEW r \in Statuses, Moves(i, v, r), NEW k \in Ids
    PROVE  RunStands(k)
<1>1. CallIs(k, phase[k], run[k]) /\ run \in [Ids -> Statuses]
  BY DEF CallInv
<1>2. /\ k \in approved => run[k] \in {"approved", "committed", "aborted"}
      /\ run[k] = "rejected" => k \notin approved
  BY <1>1 DEF CallIs, Statuses
<1>3. CASE k # i
  <2>1. run'[k] = run[k] /\ (k \in approved' <=> k \in approved)
    BY <1>1, <1>3 DEF Moves
  <2>. QED BY <1>2, <2>1 DEF RunStands
<1>4. CASE k = i
  <2>1. run'[i] = r
    BY <1>1, <1>4 DEF Moves
  <2>2. \/ r = run[i] /\ approved' = approved
        \/ /\ run[i] \in {"proposed", "approved"} /\ r \in {"approved", "committed", "aborted"}
           /\ i \in approved'
        \/ run[i] \in {"proposed", "rejected"} /\ r \in {"rejected", "aborted"} /\ approved' = approved
    BY DEF Moves, Now
  <2>. QED BY <1>2, <1>4, <2>1, <2>2 DEF RunStands
<1>. QED BY <1>3, <1>4

\* A verdict reaches a run by whichever way.
LEMMA WireFollows ==
    ASSUME CallInv, LedgerInv, WireInv, NEW i \in Ids, NEW v \in Verdicts,
           Apply(i, v) \/ ApplyRaises(i, v), UNCHANGED <<tool, call, phase, route, cloud, lines, torn>>,
           route = "http" => v = cloud[i],
           \A p \in pushes' : p \in pushes,
           acked' = acked \/ (acked' = acked \union {i} /\ Apply(i, v) /\ cloud[i] \in Verdicts)
    PROVE  /\ CallInv' /\ LedgerInv' /\ WireInv'
           /\ \A k \in Ids : RunStands(k)
<1>1. /\ CallInv' /\ LedgerInv'
      /\ \E r \in Statuses : Moves(i, v, r)
      /\ Apply(i, v) /\ run[i] # "none" => run'[i] \in {"committed", "aborted"}
  BY VerdictMoves DEF Verdicts
<1>2. PICK r \in Statuses : Moves(i, v, r)
  BY <1>1
<1>3. run \in [Ids -> Statuses] /\ CallIs(i, phase[i], run[i])
  BY DEF CallInv
<1>4. /\ run'[i] = r /\ \A k \in Ids : k # i => run'[k] = run[k] /\ (k \in approved' <=> k \in approved)
  BY <1>2, <1>3 DEF Moves
<1>5. \A k \in Ids : RunStands(k)
  BY <1>2, RunsStand
<1>6. ASSUME route = "http", NEW k \in Ids
      PROVE  /\ k \in approved' => cloud[k] = "approved"
             /\ run'[k] \in {"rejected", "aborted"} /\ k \notin approved' => cloud[k] = "rejected"
  <2>1. CASE k = i
    <3>1. \/ r = run[i] /\ approved' = approved
          \/ /\ (run[i] = "proposed" /\ v = "approved") \/ run[i] = "approved"
             /\ i \in approved'
          \/ /\ (run[i] = "proposed" /\ v = "rejected") \/ run[i] = "rejected"
             /\ r \in {"rejected", "aborted"} /\ approved' = approved
      BY <1>2 DEF Moves, Now
    <3>2. /\ run[i] = "approved" => i \in approved
          /\ run[i] \in {"proposed", "rejected"} => i \notin approved
      BY <1>3 DEF CallIs
    <3>. QED BY <1>4, <1>6, <2>1, <3>1, <3>2 DEF WireInv
  <2>2. CASE k # i
    BY <1>4, <1>6, <2>2 DEF WireInv
  <2>. QED BY <2>1, <2>2
<1>7. ASSUME NEW k \in acked' PROVE k \in Ids /\ cloud[k] \in Verdicts /\ run'[k] \in {"committed", "aborted"}
  <2>1. CASE k \in acked
    <3>1. k \in Ids /\ cloud[k] \in Verdicts /\ run[k] \in {"committed", "aborted"}
      BY <2>1 DEF WireInv
    <3>. QED BY <1>5, <3>1 DEF RunStands
  <2>2. CASE k \notin acked
    <3>1. k = i /\ Apply(i, v) /\ cloud[i] \in Verdicts
      BY <1>7, <2>2
    <3>2. phase[i] = "sent"
      BY <3>1 DEF WireInv, Verdicts
    <3>3. run[i] # "none"
      BY <1>3, <3>2 DEF CallIs
    <3>. QED BY <1>1, <3>1, <3>3
  <2>. QED BY <2>1, <2>2
<1>8. WireInv'
  BY <1>6, <1>7 DEF WireInv
<1>. QED BY <1>1, <1>5, <1>8

\* One step: what EdgeInv says goes on, and file and runs stand.
LEMMA EdgeStep ==
    ASSUME EdgeInv, Next
    PROVE  EdgeInv' /\ \A i \in Ids : FileSays(i) /\ RunStands(i)
<1>1. CallInv /\ LedgerInv /\ WireInv /\ phase \in [Ids -> Phases] /\ run \in [Ids -> Statuses]
  BY DEF EdgeInv, CallInv
<1>2. ASSUME NEW i \in Ids PROVE CallIs(i, phase[i], run[i])
  BY <1>1 DEF CallInv
<1>3. ASSUME lines' = lines PROVE \A i : FileSays(i)
  BY <1>3 DEF FileSays, Scan, Matching
<1>4. ASSUME \A k \in Ids : /\ k \in approved' <=> k \in approved
                            /\ run'[k] = run[k] \/ (run[k] = "none" /\ run'[k] = "proposed")
      PROVE  \A k \in Ids : RunStands(k)
  <2>1. \A k \in Ids : /\ k \in approved => run[k] \in {"approved", "committed", "aborted"}
                       /\ run[k] = "rejected" => k \notin approved
    BY <1>2 DEF CallIs, Statuses
  <2>. QED BY <1>4, <2>1 DEF RunStands
<1>5. CASE \E i \in Ids : GuardStep(i) /\ UNCHANGED <<route, wireVars, fileVars>>
  <2>1. PICK i \in Ids : GuardStep(i) /\ UNCHANGED <<route, wireVars, fileVars>>
    BY <1>5
  <2>2. CallInv' /\ LedgerInv'
    BY <1>1, <2>1, GuardKeeps
  <2>3. /\ \A k \in Ids : run'[k] = run[k] \/ (run[k] = "none" /\ run'[k] = "proposed")
        /\ \A k \in Ids : phase[k] = "sent" => phase'[k] = "sent"
        /\ approved' = approved
    <3>1. phase[i] = "new" => run[i] = "none"
      BY <1>2 DEF CallIs
    <3>. QED BY <1>1, <2>1, <3>1 DEF GuardStep, Raise, Deny, Gate, CommitAuto, AbortLive, RunLive,
                RunLiveRaises, Crash, Recover, Join, Become
  <2>4. WireInv'
    <3>1. UNCHANGED <<route, cloud, pushes, acked, lines, torn>>
      BY <2>1 DEF wireVars, fileVars
    <3>2. \A k \in Ids : run'[k] = run[k] \/ (run'[k] = "proposed" /\ run[k] = "none")
      BY <2>3
    <3>3. \A k \in acked : k \in Ids /\ run[k] \in {"committed", "aborted"}
      BY <1>1 DEF WireInv
    <3>4. \A k \in acked : run'[k] \in {"committed", "aborted"}
      BY <3>2, <3>3
    <3>. QED BY <1>1, <2>3, <3>1, <3>2, <3>4 DEF WireInv
  <2>. QED BY <1>3, <1>4, <2>1, <2>2, <2>3, <2>4 DEF EdgeInv, fileVars
<1>6. ASSUME NEW i \in Ids, NEW v \in Verdicts, Apply(i, v) \/ ApplyRaises(i, v), Quiet,
             UNCHANGED <<route, cloud, lines, torn>>, route = "http" => v = cloud[i],
             \A p \in pushes' : p \in pushes,
             acked' = acked \/ (acked' = acked \union {i} /\ Apply(i, v) /\ cloud[i] \in Verdicts)
      PROVE  EdgeInv' /\ \A k \in Ids : FileSays(k) /\ RunStands(k)
  BY <1>1, <1>3, <1>6, WireFollows DEF Quiet, EdgeInv
<1>7. ASSUME EdgeInv', UNCHANGED <<run, approved>>, \A k \in Ids : FileSays(k)
      PROVE  EdgeInv' /\ \A k \in Ids : FileSays(k) /\ RunStands(k)
  BY <1>4, <1>7
<1>8. ASSUME NEW i \in Ids, Send(i)
      PROVE  EdgeInv' /\ UNCHANGED <<lines, run, approved>>
  <2>1. CallIs(i, "sent", run[i])
    BY <1>2, <1>8 DEF CallIs, Send, Phases
  <2>2. CallInv' /\ LedgerInv'
    BY <1>1, <1>8, <2>1, PhaseMoves DEF Send
  <2>3. /\ cloud' = [cloud EXCEPT ![i] = "requested"] /\ phase' = [phase EXCEPT ![i] = "sent"]
        /\ UNCHANGED <<route, run, approved, pushes, acked, lines, torn>>
        /\ route = "http" /\ cloud[i] = "none"
    BY <1>8 DEF Send, Become, fileVars
  <2>4. WireInv'
    BY <1>1, <2>3 DEF WireInv, Verdicts
  <2>. QED BY <2>2, <2>3, <2>4 DEF EdgeInv
<1>9. ASSUME NEW i \in Ids, Human(i)
      PROVE  EdgeInv' /\ UNCHANGED <<lines, run, approved>>
  <2>1. PICK v \in Verdicts : cloud' = [cloud EXCEPT ![i] = v]
    BY <1>9 DEF Human
  <2>2. cloud[i] = "requested" /\ UNCHANGED <<guardVars, route, pushes, acked, lines, torn>>
    BY <1>9 DEF Human, fileVars
  <2>3. CallInv' /\ LedgerInv'
    BY <1>1, <2>2, GuardAside
  <2>4. WireInv'
    BY <1>1, <2>1, <2>2 DEF WireInv, Verdicts, guardVars
  <2>. QED BY <2>2, <2>3, <2>4 DEF EdgeInv, guardVars
<1>10. ASSUME UNCHANGED <<guardVars, route, cloud, acked>>,
              \A p \in pushes' : p \in pushes \/ (p.call \in Ids /\ cloud[p.call] \in Verdicts),
              lines' \in Seq(Lines), torn' => lines' # <<>>
       PROVE  EdgeInv' /\ UNCHANGED <<run, approved>>
  <2>1. CallInv' /\ LedgerInv'
    BY <1>1, <1>10, GuardAside
  <2>2. WireInv'
    BY <1>1, <1>10 DEF WireInv, guardVars
  <2>. QED BY <1>10, <2>1, <2>2 DEF EdgeInv, guardVars
<1>11. ASSUME NEW i \in Ids, Push(i) PROVE EdgeInv' /\ UNCHANGED <<lines, run, approved>>
  <2>1. /\ lines' \in Seq(Lines) /\ (torn' => lines' # <<>>)
        /\ UNCHANGED <<guardVars, route, cloud, acked, lines>>
    BY <1>1, <1>11 DEF Push, fileVars, WireInv
  <2>2. \A p \in pushes' : p \in pushes \/ (p.call \in Ids /\ cloud[p.call] \in Verdicts)
    BY <1>11 DEF Push
  <2>. QED BY <1>10, <2>1, <2>2
<1>12. CASE Tick
  <2>1. /\ lines' \in Seq(Lines) /\ (torn' => lines' # <<>>)
        /\ UNCHANGED <<guardVars, route, cloud, acked, pushes, lines>>
    BY <1>1, <1>12 DEF Tick, fileVars, WireInv
  <2>2. EdgeInv' /\ UNCHANGED <<run, approved>>
    BY <1>10, <2>1
  <2>. QED BY <1>3, <1>7, <2>1, <2>2
<1>13. ASSUME NEW x \in Lines, lines' = Written(x), UNCHANGED <<guardVars, route, wireVars>>
       PROVE  EdgeInv' /\ \A k \in Ids : FileSays(k) /\ RunStands(k)
  <2>1. lines \in Seq(Lines) /\ (torn => lines # <<>>) /\ 1 \in Ids
    BY <1>1 DEF WireInv, Ids
  <2>2. /\ lines' \in Seq(Lines) /\ lines' # <<>>
        /\ \A k \in Ids : FileSays(k)
    BY <1>13, <2>1, FileStands DEF FileSays
  <2>3. EdgeInv' /\ UNCHANGED <<run, approved>>
    BY <1>10, <1>13, <2>2 DEF wireVars
  <2>. QED BY <1>7, <2>2, <2>3
<1>14. ASSUME NEW i \in Ids, NEW v \in Verdicts, Record(i, v) \/ RecordTorn(i, v)
       PROVE  EdgeInv' /\ \A k \in Ids : FileSays(k) /\ RunStands(k)
  <2>1. [call |-> i, verdict |-> v] \in Lines /\ Unreadable \in Lines
    BY DEF Lines, Ids, Unreadable
  <2>2. UNCHANGED <<guardVars, route, wireVars>> /\ \E x \in Lines : lines' = Written(x)
    BY <1>14, <2>1 DEF Record, RecordTorn
  <2>. QED BY <1>13, <2>2
<1>15. ASSUME NEW i \in Ids, Poll(i)
       PROVE  EdgeInv' /\ \A k \in Ids : FileSays(k) /\ RunStands(k)
  <2>1. PICK v : v = cloud[i]
    OBVIOUS
  <2>2. /\ v \in Verdicts
        /\ Apply(i, v) \/ ApplyRaises(i, v)
        /\ Quiet /\ UNCHANGED <<route, cloud, pushes, acked, lines, torn>>
    BY <1>15, <2>1 DEF Poll, wireVars, fileVars
  <2>. QED BY <1>6, <2>1, <2>2
<1>16. ASSUME NEW i \in Ids, Answer(i)
       PROVE  EdgeInv' /\ \A k \in Ids : FileSays(k) /\ RunStands(k)
  <2>1. PICK v : v = Scan(i)
    OBVIOUS
  <2>2. /\ v # "none"
        /\ Apply(i, v) \/ ApplyRaises(i, v)
        /\ Quiet /\ UNCHANGED <<route, cloud, pushes, acked, lines, torn>> /\ route # "http"
    BY <1>16, <2>1 DEF Answer, wireVars, fileVars
  <2>3. v \in Verdicts
    BY <1>1, <1>16, <2>1, ScanShape DEF Answer, WireInv
  <2>. QED BY <1>6, <2>2, <2>3
<1>17. ASSUME NEW p \in pushes, Receive(p)
       PROVE  EdgeInv' /\ \A k \in Ids : FileSays(k) /\ RunStands(k)
  <2>1. PICK i \in Ids, v \in Verdicts : i = p.call /\ v = cloud[p.call]
    BY <1>1 DEF WireInv
  <2>2. PICK intact, again, heard, raised \in BOOLEAN :
            /\ IF ~Verified(p, intact) THEN UNCHANGED <<run, approved, ledger, ran>>
               ELSE IF raised THEN ApplyRaises(i, v)
               ELSE Apply(i, v)
            /\ pushes' = IF again THEN pushes ELSE pushes \ {p}
            /\ acked' = IF heard /\ Status(Verified(p, intact), raised) = 200
                        THEN acked \union {i} ELSE acked
            /\ Quiet /\ UNCHANGED <<route, cloud, ids, clock, fileVars>>
    BY <1>17, <2>1 DEF Receive
  <2>3. /\ Quiet /\ UNCHANGED <<route, cloud, lines, torn>> /\ \A q \in pushes' : q \in pushes
    BY <2>2 DEF fileVars
  <2>4. CASE ~Verified(p, intact)
    <3>1. UNCHANGED <<run, approved, ledger, ran, acked>>
      BY <2>2, <2>4 DEF Status
    <3>2. ApplyRaises(i, v)
      BY <3>1 DEF ApplyRaises
    <3>. QED BY <1>6, <2>1, <2>3, <3>1, <3>2
  <2>5. CASE Verified(p, intact) /\ raised
    <3>1. ApplyRaises(i, v) /\ acked' = acked
      BY <2>2, <2>5 DEF Status
    <3>. QED BY <1>6, <2>1, <2>3, <3>1
  <2>6. CASE Verified(p, intact) /\ ~raised
    <3>1. Apply(i, v) /\ (acked' = acked \/ acked' = acked \union {i})
      BY <2>2, <2>6
    <3>. QED BY <1>6, <2>1, <2>3, <3>1
  <2>. QED BY <2>2, <2>4, <2>5, <2>6
<1>18. ASSUME EdgeInv', UNCHANGED <<lines, run, approved>>
       PROVE  EdgeInv' /\ \A k \in Ids : FileSays(k) /\ RunStands(k)
  BY <1>3, <1>7, <1>18
<1>. QED BY <1>5, <1>8, <1>9, <1>11, <1>12, <1>14, <1>15, <1>16, <1>17, <1>18 DEF Next

LEMMA EdgeInitial == Init => EdgeInv
<1>. SUFFICES ASSUME Init PROVE EdgeInv
  OBVIOUS
<1>1. /\ phase = [i \in Ids |-> "new"] /\ run = [i \in Ids |-> "none"] /\ ledger = <<>> /\ ran = <<>>
      /\ approved = {} /\ torn = FALSE
      /\ cloud = [i \in Ids |-> "none"] /\ pushes = {} /\ acked = {} /\ lines = <<>>
  BY DEF Init, GuardInit
<1>2. DOMAIN <<>> = {} /\ <<>> \in Seq({})
  OBVIOUS
<1>3. CallInv
  BY <1>1, <1>2 DEF CallInv, CallIs, Phases, Statuses
<1>4. LedgerInv
  <2>1. ran \in Seq({ran[n] : n \in DOMAIN ran})
    BY <1>1, EmptySeq
  <2>2. ledger \in [DOMAIN ledger -> RowStates]
    BY <1>1, <1>2
  <2>. QED BY <1>1, <1>2, <2>1, <2>2 DEF LedgerInv, RanIn
<1>5. WireInv
  BY <1>1, EmptySeq DEF WireInv
<1>. QED BY <1>3, <1>4, <1>5 DEF EdgeInv

\* Which calls, rows, runs, records and file lines there can be, in every run.
THEOREM EdgeInvariant == Spec => []EdgeInv
<1>1. EdgeInv /\ UNCHANGED vars => EdgeInv'
  BY GuardAside DEF EdgeInv, WireInv, vars, guardVars, wireVars, fileVars
<1>. QED BY <1>1, EdgeInitial, EdgeStep, PTL DEF Spec

\* For any tools and policy: an effect only ever runs for a call the policy let
\* through, known risk against every ceiling it set, or for one a human approved;
\* what is returned or reported committed has run.
THEOREM BlockedCallsStayBlocked == Spec => []BlockedStaysBlocked
<1>1. ASSUME EdgeInv PROVE BlockedStaysBlocked
  <2>1. ASSUME NEW i \in Ids
        PROVE  /\ CallIs(i, phase[i], run[i]) /\ (RanIn(i) => i \in DOMAIN ledger)
               /\ \A j \in DOMAIN ledger : ledger[j] = "committed" => RanIn(j)
    BY <1>1 DEF EdgeInv, CallInv, LedgerInv
  <2>2. \A i : \A j \in Rows(i) : j \in DOMAIN ledger
    BY DEF Rows
  <2>. QED BY <2>1, <2>2 DEF BlockedStaysBlocked, CallIs, Ended
<1>. QED BY <1>1, EdgeInvariant, PTL

\* Whatever is damaged, late, repeated or raised between the two sides, and
\* however often: the run of a decision the control plane saw acknowledged is
\* closed as decided, an approved one as the ledger row of its key has ended.
THEOREM AcknowledgedIsApplied == Spec => []AckedIsApplied
<1>1. ASSUME EdgeInv PROVE AckedIsApplied
  <2>1. SUFFICES ASSUME NEW i \in acked
                 PROVE  IF cloud[i] = "rejected" THEN run[i] = "aborted" /\ i \notin approved
                        ELSE /\ i \in approved
                             /\ \/ /\ run[i] = "committed"
                                   /\ \E j \in Rows(i) : ledger[j] = "committed" /\ RanIn(j)
                                \/ run[i] = "aborted" /\ \E j \in Rows(i) : ledger[j] \in NotCommitted
    BY DEF AckedIsApplied
  <2>2. /\ i \in Ids /\ cloud[i] \in {"approved", "rejected"} /\ run[i] \in {"committed", "aborted"}
        /\ route = "http"
    BY <1>1 DEF EdgeInv, WireInv, Verdicts
  <2>3. /\ i \in approved => cloud[i] = "approved"
        /\ run[i] = "aborted" /\ i \notin approved => cloud[i] = "rejected"
    BY <1>1, <2>2 DEF EdgeInv, WireInv
  <2>4. /\ run[i] = "committed" => i \in approved /\ Ended(i, {"committed"})
        /\ run[i] = "aborted" /\ i \in approved => Ended(i, NotCommitted)
    BY <1>1, <2>2 DEF EdgeInv, CallInv, CallIs
  <2>5. Ended(i, {"committed"}) => \E j \in Rows(i) : ledger[j] = "committed" /\ RanIn(j)
    BY <1>1 DEF EdgeInv, LedgerInv, Ended, Rows
  <2>. QED BY <2>2, <2>3, <2>4, <2>5 DEF Ended
<1>. QED BY <1>1, EdgeInvariant, PTL

\* For any file, however many lines are written after it and however many of
\* them are torn: the verdict a scan has read off a finished line is the one
\* every later scan reads, one on an unfinished line is at worst lost, and a run
\* that was decided or closed is never reopened or turned over.
THEOREM VerdictsStand == Spec => VerdictStands
<1>1. ASSUME EdgeInv, [Next]_vars
      PROVE  [\A i \in Ids :
                 /\ Finished(i) # {} => Scan(i)' = Scan(i)
                 /\ Scan(i) # "none" => Scan(i)' \in {Scan(i), "none"}
                 /\ i \in approved => i \in approved' /\ run[i]' \in {"approved", "committed", "aborted"}
                 /\ run[i] = "rejected" => run[i]' \in {"rejected", "aborted"} /\ i \notin approved'
                 /\ run[i] = "aborted" \/ run[i] = "committed" =>
                       run[i]' = run[i] /\ (i \in approved' <=> i \in approved)]_vars
  BY <1>1, EdgeStep DEF FileSays, RunStands
<1>. QED BY <1>1, EdgeInvariant, PTL DEF Spec, VerdictStands
-----------------------------------------------------------------------------
(* What the tool is called with, live and from the map.                   *)

\* A set of positions that has with each one all before it is a prefix.
LEMMA PrefixOfPositions ==
    ASSUME NEW n \in Nat, NEW S \in SUBSET (1..n), \A i \in S : \A j \in 1..i : j \in S
    PROVE  \E k \in 0..n : \A i \in 1..n : i <= k <=> i \in S
<1>1. PICK U : U = {m \in 0..n : \A i \in S : i <= m}
  OBVIOUS
<1>2. n \in U /\ U \in SUBSET Nat
  BY <1>1
<1>3. PICK k \in U : \A m \in U : k <= m
  BY <1>2, LeastElement
<1>4. k \in 0..n /\ \A i \in S : i <= k
  BY <1>1, <1>3
<1>5. ASSUME NEW i \in 1..n, i <= k, i \notin S PROVE FALSE
  <2>1. \A j \in S : j <= i - 1
    <3>1. SUFFICES ASSUME NEW j \in S, ~(j <= i - 1) PROVE FALSE
      OBVIOUS
    <3>2. j \in 1..n /\ i \in 1..j
      BY <3>1, <1>5
    <3>. QED BY <1>5, <3>2
  <2>2. i - 1 \in U
    BY <1>1, <1>5, <2>1
  <2>. QED BY <1>3, <1>4, <1>5, <2>2
<1>. QED BY <1>4, <1>5

LEMMA Ranks ==
    /\ Rank("positional") = 1 /\ Rank("either") = 2 /\ Rank("star") = 3
    /\ Rank("keyword") = 4 /\ Rank("extras") = 5
<1>1. PICK r : r = <<"positional", "either", "star", "keyword", "extras">>
  OBVIOUS
<1>2. r[1] = "positional" /\ r[2] = "either" /\ r[3] = "star" /\ r[4] = "keyword" /\ r[5] = "extras"
  BY <1>1
<1>3. \A n \in 1..5 : n = 1 \/ n = 2 \/ n = 3 \/ n = 4 \/ n = 5
  OBVIOUS
<1>4. ASSUME NEW k \in 1..5 PROVE (CHOOSE n \in 1..5 : r[n] = r[k]) = k
  <2>1. \A n \in 1..5 : r[n] = r[k] => n = k
    BY <1>2, <1>3
  <2>. QED BY <2>1
<1>5. 1 \in 1..5 /\ 2 \in 1..5 /\ 3 \in 1..5 /\ 4 \in 1..5 /\ 5 \in 1..5
  OBVIOUS
<1>6. \A kind : Rank(kind) = CHOOSE n \in 1..5 : r[n] = kind
  BY <1>1 DEF Rank
<1>. QED BY <1>2, <1>4, <1>5, <1>6

\* By position go the first parameters and then *args.
LEMMA SlotsLead ==
    ASSUME NEW sig, WellFormed(sig)
    PROVE  /\ Slots(sig) \in 0..Len(sig)
           /\ \A i \in DOMAIN sig : i <= Slots(sig) <=> sig[i].kind \in {"positional", "either"}
           /\ \A i \in DOMAIN sig : sig[i].kind = "star" => i = Slots(sig) + 1
<1>1. PICK n \in Nat : n = Len(sig) /\ DOMAIN sig = 1..n
  BY SignatureShape
<1>2. \A i \in 1..n : sig[i].kind \in Kinds
  BY <1>1 DEF WellFormed
<1>3. \A j \in 1..n : \A i \in 1..j : Rank(sig[i].kind) <= Rank(sig[j].kind)
  <2>1. SUFFICES ASSUME NEW j \in 1..n, NEW i \in 1..j
                 PROVE  Rank(sig[i].kind) <= Rank(sig[j].kind)
    OBVIOUS
  <2>2. CASE i = j
    BY <1>2, <2>2, Ranks DEF Kinds
  <2>3. CASE i # j
    <3>1. i \in 1..j - 1
      BY <2>3
    <3>. QED BY <1>1, <3>1 DEF WellFormed
  <2>. QED BY <2>2, <2>3
<1>4. PICK S : S = {i \in 1..n : sig[i].kind \in {"positional", "either"}}
  OBVIOUS
<1>5. ASSUME NEW i \in S, NEW j \in 1..i PROVE j \in S
  <2>1. i \in 1..n /\ j \in 1..n /\ Rank(sig[i].kind) <= 2 /\ Rank(sig[j].kind) <= Rank(sig[i].kind)
    BY <1>3, <1>4, <1>5, Ranks
  <2>2. sig[j].kind \in Kinds
    BY <1>2, <2>1
  <2>. QED BY <1>4, <2>1, <2>2, Ranks DEF Kinds
<1>6. PICK m \in 0..n : \A i \in 1..n : i <= m <=> i \in S
  <2>1. S \in SUBSET (1..n)
    BY <1>4
  <2>. QED BY <1>5, <2>1, PrefixOfPositions
<1>7. /\ Slots(sig) \in 0..n
      /\ \A i \in 1..n : i <= Slots(sig) <=> sig[i].kind \in {"positional", "either"}
  <2>1. \A i \in 1..n : i <= m <=> sig[i].kind \in {"positional", "either"}
    BY <1>4, <1>6
  <2>2. Slots(sig) = CHOOSE l \in 0..n : \A i \in 1..n : i <= l <=> sig[i].kind \in {"positional", "either"}
    BY <1>1 DEF Slots
  <2>. QED BY <2>1, <2>2
<1>8. ASSUME NEW i \in 1..n, sig[i].kind = "star" PROVE i = Slots(sig) + 1
  <2>1. i > Slots(sig)
    BY <1>7, <1>8
  <2>2. PICK j : j = Slots(sig) + 1
    OBVIOUS
  <2>3. j \in 1..i /\ j \in 1..n /\ ~(j <= Slots(sig))
    BY <1>7, <2>1, <2>2
  <2>4. sig[j].kind \notin {"positional", "either"} /\ sig[j].kind \in Kinds
    BY <1>2, <1>7, <2>3
  <2>5. Rank(sig[j].kind) <= 3
    BY <1>3, <1>8, <2>3, Ranks
  <2>6. sig[j].kind = "star"
    BY <2>4, <2>5, Ranks DEF Kinds
  <2>7. j = i
    BY <1>1, <1>8, <2>3, <2>6, SignatureShape
  <2>. QED BY <2>2, <2>7
<1>. QED BY <1>1, <1>7, <1>8

-----------------------------------------------------------------------------
(* What FlattenSeq makes of single values followed by one list.             *)

\* f flattens the first n of seqs.
Flattens(f, seqs, n) ==
    f = [i \in 1..n |-> IF i = 1 THEN seqs[i] ELSE f[i - 1] \o seqs[i]]

LEMMA FlatteningExists ==
    ASSUME NEW seqs, NEW n \in Nat
    PROVE  \E f : Flattens(f, seqs, n)
<1>. DEFINE W == {m \in Nat : \E f : Flattens(f, seqs, m)}
<1>1. 0 \in W
  <2>. DEFINE f == [i \in 1..0 |-> <<>>]
  <2>1. Flattens(f, seqs, 0)
    BY DEF Flattens
  <2>. QED BY <2>1
<1>2. ASSUME NEW m \in Nat, m \in W PROVE m + 1 \in W
  <2>1. PICK f : Flattens(f, seqs, m)
    BY <1>2
  <2>2. PICK g : g = [i \in 1..m + 1 |->
            IF i <= m THEN f[i] ELSE IF i = 1 THEN seqs[i] ELSE f[m] \o seqs[i]]
    OBVIOUS
  <2>3. ASSUME NEW i \in 1..m + 1
        PROVE  g[i] = IF i = 1 THEN seqs[i] ELSE g[i - 1] \o seqs[i]
    <3>1. CASE i = m + 1
      <4>1. g[i] = IF i = 1 THEN seqs[i] ELSE f[m] \o seqs[i]
        BY <2>2, <3>1
      <4>2. i # 1 => g[i - 1] = f[m]
        BY <2>2, <3>1
      <4>. QED BY <4>1, <4>2
    <3>2. CASE i # m + 1
      <4>1. i \in 1..m /\ (i # 1 => i - 1 \in 1..m)
        BY <3>2
      <4>2. g[i] = f[i] /\ (i # 1 => g[i - 1] = f[i - 1])
        BY <2>2, <4>1
      <4>3. f[i] = IF i = 1 THEN seqs[i] ELSE f[i - 1] \o seqs[i]
        BY <2>1, <4>1, Zenon DEF Flattens
      <4>. QED BY <4>2, <4>3
    <3>. QED BY <3>1, <3>2
  <2>4. g = [i \in 1..m + 1 |-> g[i]]
    BY <2>2
  <2>5. Flattens(g, seqs, m + 1)
    BY <2>3, <2>4 DEF Flattens
  <2>. QED BY <2>5
<1>3. Nat \subseteq W
  <2>. HIDE DEF W
  <2>. QED BY <1>1, <1>2, SetInduction
<1>. QED BY <1>3

LEMMA FlattenIsFlattening ==
    ASSUME NEW seqs, Len(seqs) \in Nat, Len(seqs) # 0
    PROVE  \E f : Flattens(f, seqs, Len(seqs)) /\ FlattenSeq(seqs) = f[Len(seqs)]
<1>1. PICK g : Flattens(g, seqs, Len(seqs))
  BY FlatteningExists
<1>2. PICK h : h = CHOOSE f : f = [i \in 1..Len(seqs) |->
                                      IF i = 1 THEN seqs[i] ELSE f[i - 1] \o seqs[i]]
  OBVIOUS
<1>3. Flattens(h, seqs, Len(seqs))
  BY <1>1, <1>2, Zenon DEF Flattens
<1>4. FlattenSeq(seqs) = h[Len(seqs)]
  BY <1>2 DEF FlattenSeq
<1>. QED BY <1>3, <1>4

\* The flattening of i of them: of single values the first k, of rest at s, of
\* nothing else.
SoFar(lead, rest, k, s, i) ==
    IF i <= k THEN SubSeq(lead, 1, i) ELSE IF i < s THEN lead ELSE lead \o rest

Spread(seqs, n, lead, k, rest, s) ==
    /\ Len(seqs) = n /\ (n = 0 => seqs = <<>>) /\ (s = n + 1 => rest = <<>>)
    /\ \A i \in 1..k : seqs[i] = <<lead[i]>>
    /\ \A i \in k + 1..n : seqs[i] = IF i = s THEN rest ELSE <<>>

LEMMA FlattenLead ==
    ASSUME NEW T, NEW lead \in Seq(T), NEW rest \in Seq(T), NEW n \in Nat,
           NEW k \in 0..n, k = Len(lead), NEW s \in k + 1..n + 1,
           NEW seqs, Spread(seqs, n, lead, k, rest, s)
    PROVE  FlattenSeq(seqs) = lead \o rest
<1>1. /\ Len(seqs) = n /\ (n = 0 => seqs = <<>>) /\ (s = n + 1 => rest = <<>>)
      /\ \A i \in 1..k : seqs[i] = <<lead[i]>>
      /\ \A i \in k + 1..n : seqs[i] = IF i = s THEN rest ELSE <<>>
  BY DEF Spread
<1>2. lead \o <<>> = lead /\ SubSeq(lead, 1, k) = lead /\ SubSeq(lead, 1, 0) = <<>>
  <2>1. SubSeq(lead, 1, k) = lead
    <3>1. \A i \in 1..k : lead[i] \in T
      BY <1>1, ElementOfSeq
    <3>2. PICK t : t = SubSeq(lead, 1, k)
      OBVIOUS
    <3>3. t \in Seq(T) /\ Len(t) = k /\ \A i \in 1..k : t[i] = lead[i]
      BY <3>1, <3>2, SubSeqProperties
    <3>. QED BY <1>1, <3>2, <3>3, SeqEqual
  <2>. QED BY <2>1, ConcatEmptySeq, SubSeqEmpty
<1>3. CASE n = 0
  <2>1. FlattenSeq(seqs) = <<>>
    BY <1>1, <1>3 DEF FlattenSeq
  <2>2. lead = <<>> /\ rest = <<>>
    BY <1>1, <1>3, EmptySeq
  <2>. QED BY <2>1, <2>2, <1>2
<1>4. CASE n # 0
  <2>1. PICK f : Flattens(f, seqs, n) /\ FlattenSeq(seqs) = f[n]
    BY <1>1, <1>4, FlattenIsFlattening
  <2>. DEFINE G(i) == SoFar(lead, rest, k, s, i)
  <2>2. ASSUME NEW i \in 1..n PROVE G(i) = G(i - 1) \o seqs[i]
    <3>1. CASE i <= k
      <4>1. i \in 1..Len(lead) /\ 1 \in 1..Len(lead) /\ i \in 1..Len(lead)
        BY <1>1, <3>1
      <4>2. SubSeq(lead, 1, i) = SubSeq(lead, 1, i - 1) \o <<lead[i]>>
        BY <4>1, SubSeqRecursiveSecond
      <4>3. G(i) = SubSeq(lead, 1, i) /\ G(i - 1) = SubSeq(lead, 1, i - 1)
        BY <1>1, <3>1 DEF SoFar
      <4>4. seqs[i] = <<lead[i]>>
        BY <1>1, <3>1
      <4>. QED BY <4>2, <4>3, <4>4, Zenon
    <3>2. CASE i > k /\ i < s
      <4>1. seqs[i] = <<>>
        BY <1>1, <3>2
      <4>2. G(i - 1) = lead /\ G(i) = lead
        BY <1>2, <3>2 DEF SoFar
      <4>. QED BY <1>2, <4>1, <4>2, Zenon
    <3>3. CASE i = s
      <4>1. seqs[i] = rest /\ i > k
        BY <1>1, <3>3
      <4>2. G(i - 1) = lead /\ G(i) = lead \o rest
        BY <1>2, <3>3, <4>1 DEF SoFar
      <4>. QED BY <4>1, <4>2, Zenon
    <3>4. CASE i > s
      <4>1. seqs[i] = <<>> /\ i > k /\ i - 1 > k - 1 /\ s > k
        BY <1>1, <3>4
      <4>2. G(i - 1) = lead \o rest /\ G(i) = lead \o rest
        BY <1>1, <3>4, <4>1 DEF SoFar
      <4>3. lead \o rest \in Seq(T)
        BY ConcatProperties
      <4>. QED BY <4>1, <4>2, <4>3, ConcatEmptySeq
    <3>. QED BY <1>1, <3>1, <3>2, <3>3, <3>4
  <2>3. G(0) = <<>>
    BY <1>1, <1>2 DEF SoFar
  <2>4. \A i \in 1..n : f[i] = IF i = 1 THEN seqs[i] ELSE f[i - 1] \o seqs[i]
    BY <2>1, Zenon DEF Flattens
  <2>5. seqs[1] = <<>> \o seqs[1]
    <3>1. seqs[1] \in Seq(T)
      <4>1. CASE 1 <= k
        <5>1. lead[1] \in T /\ seqs[1] = <<lead[1]>>
          BY <1>1, <4>1, ElementOfSeq
        <5>. QED BY <5>1
      <4>2. CASE ~(1 <= k)
        <5>1. seqs[1] = rest \/ seqs[1] = <<>>
          BY <1>1, <1>4, <4>2
        <5>. QED BY <5>1, EmptySeq
      <4>. QED BY <4>1, <4>2
    <3>. QED BY <3>1, ConcatEmptySeq
  <2>6. f[1] = G(1)
    <3>1. f[1] = seqs[1]
      BY <1>4, <2>4
    <3>2. G(1) = G(0) \o seqs[1]
      <4>1. 1 \in 1..n /\ 1 - 1 = 0
        BY <1>4
      <4>2. G(1) = G(1 - 1) \o seqs[1]
        BY <2>2, <4>1
      <4>. QED BY <4>1, <4>2
    <3>. QED BY <2>3, <2>5, <3>1, <3>2
  <2>. DEFINE W == {i \in Nat : i + 1 <= n => f[i + 1] = G(i + 1)}
  <2>. HIDE DEF G
  <2>7. 0 \in W
    BY <2>6
  <2>8. ASSUME NEW i \in Nat, i \in W PROVE i + 1 \in W
    <3>1. SUFFICES ASSUME i + 2 <= n PROVE f[i + 2] = G(i + 2)
      OBVIOUS
    <3>2. PICK j \in 1..n : j = i + 2
      BY <3>1
    <3>3. j # 1 /\ j - 1 = i + 1 /\ f[j - 1] = G(j - 1)
      BY <2>8, <3>2
    <3>4. f[j] = f[j - 1] \o seqs[j]
      BY <2>4, <3>3
    <3>5. G(j) = G(j - 1) \o seqs[j]
      BY <2>2
    <3>. QED BY <3>2, <3>3, <3>4, <3>5
  <2>9. Nat \subseteq W
    <3>. HIDE DEF W
    <3>. QED BY <2>7, <2>8, SetInduction
  <2>10. f[n] = G(n)
    <3>1. PICK i \in Nat : i + 1 = n
      <4>1. n - 1 \in Nat /\ n - 1 + 1 = n
        BY <1>4
      <4>. QED BY <4>1
    <3>2. i \in W
      BY <2>9
    <3>3. f[i + 1] = G(i + 1)
      BY <3>1, <3>2
    <3>. QED BY <3>1, <3>3, Zenon
  <2>11. G(n) = lead \o rest
    <3>1. CASE s = n + 1
      <4>1. G(n) = lead /\ rest = <<>>
        BY <1>1, <1>2, <3>1 DEF G, SoFar
      <4>. QED BY <1>2, <4>1
    <3>2. CASE s # n + 1
      BY <1>1, <3>2 DEF G, SoFar
    <3>. QED BY <3>1, <3>2
  <2>. QED BY <2>1, <2>10, <2>11
<1>. QED BY <1>3, <1>4

-----------------------------------------------------------------------------
(* What _bind_from_map passes by position.                                  *)

Gone(t) == t.ignored \ t.keyParam

Here(m, p) ==
    IF p.name \notin DOMAIN m THEN <<>>
    ELSE CASE p.kind = "star" -> m[p.name]
           [] p.kind \in {"positional", "either"} -> <<m[p.name]>>
           [] OTHER -> <<>>

\* m has every parameter but the ones gone, a list where *args is.
HasParameters(t, m) ==
    \A i \in DOMAIN t.sig :
        t.sig[i].kind # "extras" =>
            /\ t.sig[i].name \in DOMAIN m <=> t.sig[i].name \notin Gone(t)
            /\ t.sig[i].kind = "star" /\ t.sig[i].name \in DOMAIN m =>
                  \E R : m[t.sig[i].name] \in Seq(R)

\* The first k slots in place, and what *args holds behind all of them.
InPlace(t, m, args, k) ==
    \E T : \E lead \in Seq(T), rest \in Seq(T) :
        /\ args = lead \o rest /\ Len(lead) = k
        /\ \A i \in 1..k : lead[i] = m[t.sig[i].name]
        /\ \A i \in DOMAIN t.sig :
              t.sig[i].kind = "star" /\ t.sig[i].name \notin Gone(t) =>
                 k = Slots(t.sig) /\ rest = m[t.sig[i].name]

LEMMA PassedByPosition ==
    ASSUME NEW t, WellFormed(t.sig), Rebuildable(t), NEW m, HasParameters(t, m)
    PROVE  \E k \in 0..Slots(t.sig) :
              /\ \A i \in 1..Slots(t.sig) : i <= k <=> t.sig[i].name \notin Gone(t)
              /\ InPlace(t, m, Positional(t, m), k)
<1>1. PICK n \in Nat : n = Len(t.sig) /\ DOMAIN t.sig = 1..n
  BY SignatureShape
<1>2. PICK sig : sig = t.sig /\ n = Len(sig) /\ DOMAIN sig = 1..n
  BY <1>1
<1>3. PICK N \in 0..n : N = Slots(sig)
  BY <1>2, SlotsLead
<1>4. /\ \A i \in 1..n : i <= N <=> sig[i].kind \in {"positional", "either"}
      /\ \A i \in 1..n : sig[i].kind = "star" => i = N + 1
      /\ \A i \in 1..n : sig[i].kind \in Kinds
  BY <1>2, <1>3, SlotsLead DEF WellFormed
<1>5. \A i \in 1..N : i \in 1..n
  OBVIOUS
<1>6. ASSUME NEW j \in 1..n, NEW i \in 1..j - 1, sig[i].name \in Gone(t),
             sig[j].kind \in {"positional", "either", "star"}
      PROVE  sig[j].name \in Gone(t)
  <2>1. sig[j].name \in ByPosition(t)
    BY <1>2, <1>6 DEF ByPosition, Kind
  <2>. QED BY <1>2, <1>6, <2>1 DEF Rebuildable, Gone
<1>7. PICK k \in 0..N : \A i \in 1..N : i <= k <=> sig[i].name \notin Gone(t)
  <2>1. PICK S : S = {i \in 1..N : sig[i].name \notin Gone(t)}
    OBVIOUS
  <2>2. ASSUME NEW i \in S, NEW j \in 1..i PROVE j \in S
    <3>1. SUFFICES ASSUME sig[j].name \in Gone(t) PROVE FALSE
      BY <2>1
    <3>2. i \in 1..n /\ j \in 1..i - 1 /\ sig[i].kind \in {"positional", "either"}
      BY <1>4, <2>1, <3>1
    <3>. QED BY <1>6, <2>1, <3>1, <3>2
  <2>3. S \in SUBSET (1..N) /\ N \in Nat
    BY <2>1
  <2>4. PICK k \in 0..N : \A i \in 1..N : i <= k <=> i \in S
    BY <2>2, <2>3, PrefixOfPositions
  <2>. QED BY <2>1, <2>4
<1>8. ASSUME NEW i \in 1..n, sig[i].kind = "star", sig[i].name \notin Gone(t)
      PROVE  k = N /\ i = N + 1
  <2>1. i = N + 1
    BY <1>4, <1>8
  <2>2. CASE k < N
    <3>1. N \in 1..N /\ N \in 1..i - 1
      BY <2>1, <2>2
    <3>2. sig[N].name \in Gone(t)
      BY <1>7, <2>2, <3>1
    <3>. QED BY <1>6, <1>8, <3>1, <3>2
  <2>. QED BY <2>1, <2>2
<1>9. PICK lead : lead = [i \in 1..k |-> m[sig[i].name]]
  OBVIOUS
<1>10. PICK s \in k + 1..n + 1 : \E rest :
          /\ \/ s = n + 1 /\ rest = <<>> /\ \A i \in 1..n : sig[i].kind = "star" => sig[i].name \in Gone(t)
             \/ s <= n /\ sig[s].kind = "star" /\ sig[s].name \notin Gone(t) /\ rest = m[sig[s].name]
  <2>1. CASE \E i \in 1..n : sig[i].kind = "star" /\ sig[i].name \notin Gone(t)
    <3>1. PICK i \in 1..n : sig[i].kind = "star" /\ sig[i].name \notin Gone(t)
      BY <2>1
    <3>2. i \in k + 1..n + 1 /\ i <= n
      BY <1>8, <3>1
    <3>. QED BY <3>1, <3>2
  <2>2. CASE \A i \in 1..n : sig[i].kind = "star" => sig[i].name \in Gone(t)
    BY <2>2
  <2>. QED BY <2>1, <2>2
<1>11. PICK rest :
          /\ \/ s = n + 1 /\ rest = <<>> /\ \A i \in 1..n : sig[i].kind = "star" => sig[i].name \in Gone(t)
             \/ s <= n /\ sig[s].kind = "star" /\ sig[s].name \notin Gone(t) /\ rest = m[sig[s].name]
  BY <1>10
<1>12. /\ \A i \in 1..n : sig[i].kind # "extras" => (sig[i].name \in DOMAIN m <=> sig[i].name \notin Gone(t))
       /\ s <= n => \E R : rest \in Seq(R)
  BY <1>2, <1>11 DEF HasParameters
<1>13. PICK R : rest \in Seq(R)
  BY <1>11, <1>12, EmptySeq
<1>14. PICK T : T = R \union {m[x] : x \in DOMAIN m}
  OBVIOUS
<1>15. rest \in Seq(T)
  BY <1>13, <1>14, SeqMonotonic
<1>16. lead \in Seq(T) /\ Len(lead) = k
  <2>1. ASSUME NEW i \in 1..k PROVE m[sig[i].name] \in T
    <3>1. i \in 1..N /\ i \in 1..n
      BY <2>1
    <3>2. sig[i].name \in DOMAIN m
      BY <1>4, <1>7, <1>12, <3>1
    <3>. QED BY <1>14, <3>2
  <2>2. lead \in [1..k -> T] /\ k \in Nat
    BY <1>9, <2>1
  <2>. QED BY <2>2
<1>17. PICK seqs : seqs = [i \in 1..n |-> Here(m, sig[i])]
  OBVIOUS
<1>18. Positional(t, m) = FlattenSeq(seqs)
  BY <1>2, <1>17 DEF Positional, Here
<1>19. Len(seqs) = n
  BY <1>17
<1>20. n = 0 => seqs = <<>>
  BY <1>17
<1>21. ASSUME NEW i \in 1..k PROVE seqs[i] = <<lead[i]>>
  <2>1. i \in 1..N /\ i \in 1..n /\ sig[i].kind \in {"positional", "either"}
    BY <1>4, <1>21
  <2>2. sig[i].name \in DOMAIN m
    BY <1>7, <1>12, <2>1
  <2>. QED BY <1>9, <1>17, <2>1, <2>2 DEF Here
<1>22. ASSUME NEW i \in k + 1..n PROVE seqs[i] = IF i = s THEN rest ELSE <<>>
  <2>1. i \in 1..n
    OBVIOUS
  <2>2. seqs[i] = Here(m, sig[i])
    BY <1>17, <2>1
  <2>3. CASE i = s
    <3>1. s <= n /\ sig[s].kind = "star" /\ sig[s].name \notin Gone(t) /\ rest = m[sig[s].name]
      BY <1>11, <2>1, <2>3
    <3>2. sig[s].name \in DOMAIN m
      BY <1>12, <2>1, <2>3, <3>1
    <3>. QED BY <2>2, <2>3, <3>1, <3>2 DEF Here
  <2>4. CASE i # s
    <3>1. CASE i <= N
      <4>1. i \in 1..N /\ sig[i].kind \in {"positional", "either"}
        BY <1>4, <2>1, <3>1
      <4>2. sig[i].name \notin DOMAIN m
        BY <1>7, <1>12, <1>22, <2>1, <4>1
      <4>. QED BY <2>2, <2>4, <4>2 DEF Here
    <3>2. CASE i > N /\ sig[i].kind = "star"
      <4>1. sig[i].name \in Gone(t)
        <5>1. SUFFICES ASSUME sig[i].name \notin Gone(t) PROVE FALSE
          OBVIOUS
        <5>2. s <= n /\ sig[s].kind = "star"
          BY <1>11, <2>1, <3>2, <5>1
        <5>3. s = N + 1 /\ i = N + 1
          BY <1>4, <2>1, <3>2, <5>2
        <5>. QED BY <2>4, <5>3
      <4>2. sig[i].name \notin DOMAIN m
        BY <1>12, <2>1, <3>2, <4>1
      <4>. QED BY <2>2, <2>4, <4>2 DEF Here
    <3>3. CASE i > N /\ sig[i].kind # "star"
      <4>1. sig[i].kind \notin {"positional", "either"}
        BY <1>4, <2>1, <3>3
      <4>. QED BY <2>2, <2>4, <3>3, <4>1 DEF Here
    <3>. QED BY <2>1, <3>1, <3>2, <3>3
  <2>. QED BY <2>3, <2>4
<1>23. Positional(t, m) = lead \o rest
  <2>1. (s = n + 1 => rest = <<>>) /\ s \in k + 1..n + 1
    BY <1>11
  <2>2. Spread(seqs, n, lead, k, rest, s)
    BY <1>19, <1>20, <1>21, <1>22, <2>1 DEF Spread
  <2>3. FlattenSeq(seqs) = lead \o rest
    BY <1>15, <1>16, <2>1, <2>2, FlattenLead
  <2>. QED BY <1>18, <2>3
<1>24. \A i \in 1..n : sig[i].kind = "star" /\ sig[i].name \notin Gone(t) =>
                          k = N /\ rest = m[sig[i].name]
  <2>1. SUFFICES ASSUME NEW i \in 1..n, sig[i].kind = "star", sig[i].name \notin Gone(t)
                 PROVE  k = N /\ rest = m[sig[i].name]
    OBVIOUS
  <2>2. s <= n /\ sig[s].kind = "star" /\ rest = m[sig[s].name]
    BY <1>11, <2>1
  <2>3. s = i
    BY <1>4, <2>1, <2>2
  <2>. QED BY <1>8, <2>1, <2>2, <2>3
<1>25. InPlace(t, m, Positional(t, m), k)
  <2>1. \A i \in 1..k : lead[i] = m[sig[i].name]
    BY <1>9
  <2>2. PICK args : args = Positional(t, m)
    OBVIOUS
  <2>3. \A i \in DOMAIN t.sig :
            t.sig[i].kind = "star" /\ t.sig[i].name \notin Gone(t) =>
               k = Slots(t.sig) /\ rest = m[t.sig[i].name]
    BY <1>2, <1>3, <1>24
  <2>4. args = lead \o rest /\ \A i \in 1..k : lead[i] = m[t.sig[i].name]
    BY <1>2, <1>23, <2>1, <2>2
  <2>5. InPlace(t, m, args, k)
    BY <1>15, <1>16, <2>3, <2>4, Zenon DEF InPlace
  <2>. QED BY <2>2, <2>5
<1>. QED BY <1>2, <1>3, <1>7, <1>25

-----------------------------------------------------------------------------
(* What the map says of a bound call b.                                     *)

Names(sig) == {sig[i].name : i \in DOMAIN sig}
Fixed(sig) == {sig[i].name : i \in {j \in DOMAIN sig : sig[j].kind # "extras"}}

HoldsParameter(t, b, m, x) ==
    /\ x \in DOMAIN m <=> x \notin Gone(t)
    /\ x \notin Excluded(t) => m[x] = b[x]

HoldsExtra(b, m, e, y) ==
    y \in DOMAIN b[e] => y \in DOMAIN m /\ m[y] = b[e][y]

LEMMA MapHolds ==
    ASSUME NEW t, WellFormed(t.sig), NEW b, DOMAIN b = Names(t.sig), ~ValueError(t, b),
           NEW key, NEW m, m = WithKey(t, BuildArgMap(t, b), key)
    PROVE  /\ \A x \in Fixed(t.sig) : HoldsParameter(t, b, m, x)
           /\ \A x \in t.keyParam : x \in DOMAIN m /\ m[x] = key
           /\ \A e \in Kind(t.sig, "extras") \ Excluded(t) :
                 /\ \A y : y \notin Excluded(t) => HoldsExtra(b, m, e, y)
                 /\ DOMAIN m \subseteq Fixed(t.sig) \union Excluded(t) \union DOMAIN b[e]
                 /\ \A y \in DOMAIN b[e] \ Excluded(t) : y \notin Fixed(t.sig)
<1>1. PICK X, E, F, A : /\ X = Excluded(t) /\ E = Kind(t.sig, "extras") /\ F = Fixed(t.sig)
                        /\ A = BuildArgMap(t, b)
  OBVIOUS
<1>2. PICK x, p : x = Extras(t, b) /\ p = Named(t, b)
  OBVIOUS
<1>3. DOMAIN b = F \union E /\ F \intersect E = {}
  <2>1. F \intersect E = {}
    BY <1>1, SignatureShape DEF Fixed, Kind
  <2>2. Names(t.sig) = F \union E
    BY <1>1 DEF Names, Fixed, Kind
  <2>. QED BY <2>1, <2>2
<1>4. DOMAIN p = F \ X /\ \A n \in F \ X : p[n] = b[n]
  BY <1>1, <1>2, <1>3 DEF Named, Without
<1>5. DOMAIN x \intersect X = {}
  <2>1. DOMAIN <<>> = {}
    OBVIOUS
  <2>. QED BY <1>1, <1>2, <2>1 DEF Extras, Without
<1>6. DOMAIN x \intersect DOMAIN p = {}
  BY <1>2 DEF ValueError
<1>7. /\ DOMAIN A = DOMAIN x \union DOMAIN p
      /\ \A n \in DOMAIN x : A[n] = x[n]
      /\ \A n \in DOMAIN p : A[n] = p[n]
  <2>1. A = [n \in DOMAIN x \union DOMAIN p |-> IF n \in DOMAIN x THEN x[n] ELSE p[n]]
    BY <1>1, <1>2 DEF BuildArgMap
  <2>. QED BY <1>6, <2>1
<1>8. /\ DOMAIN m = DOMAIN A \union t.keyParam
      /\ \A n \in t.keyParam : m[n] = key
      /\ \A n \in DOMAIN A \ t.keyParam : m[n] = A[n]
  BY <1>1 DEF WithKey
<1>9. X = t.ignored \union t.keyParam
  BY <1>1 DEF Excluded
<1>10. ASSUME NEW n \in F PROVE HoldsParameter(t, b, m, n)
  <2>1. n \in DOMAIN A <=> n \notin X
    BY <1>4, <1>5, <1>6, <1>7
  <2>2. n \in DOMAIN m <=> n \notin Gone(t)
    BY <1>8, <1>9, <2>1 DEF Gone
  <2>3. n \notin X => m[n] = b[n]
    BY <1>4, <1>7, <1>8, <1>9
  <2>. QED BY <1>1, <2>2, <2>3 DEF HoldsParameter
<1>11. ASSUME NEW e \in E \ X
       PROVE  /\ \A y : y \notin X => HoldsExtra(b, m, e, y)
              /\ DOMAIN m \subseteq F \union X \union DOMAIN b[e]
              /\ \A y \in DOMAIN b[e] \ X : y \notin F
  <2>1. E = {e}
    BY <1>1, OneExtras
  <2>2. (CHOOSE n \in E : TRUE) = e
    BY <2>1
  <2>3. x = [y \in DOMAIN b[e] \ X |-> b[e][y]]
    BY <1>1, <1>2, <1>11, <2>1, <2>2 DEF Extras, Without
  <2>4. DOMAIN x = DOMAIN b[e] \ X /\ \A y \in DOMAIN b[e] \ X : x[y] = b[e][y]
    BY <2>3
  <2>5. ASSUME NEW y, y \notin X PROVE HoldsExtra(b, m, e, y)
    <3>1. y \in DOMAIN b[e] => y \in DOMAIN A /\ A[y] = b[e][y]
      BY <1>7, <2>4, <2>5
    <3>. QED BY <1>8, <1>9, <2>5, <3>1 DEF HoldsExtra
  <2>6. DOMAIN m \subseteq F \union X \union DOMAIN b[e]
    BY <1>4, <1>7, <1>8, <1>9, <2>4
  <2>7. \A y \in DOMAIN b[e] \ X : y \notin F
    BY <1>4, <1>6, <2>4
  <2>. QED BY <2>5, <2>6, <2>7
<1>. QED BY <1>1, <1>8, <1>10, <1>11

\* got is what was meant by b: the same values for everything the key does not
\* ignore, and the key where the tool asks for it.
Delivers(t, b, got, key) ==
    /\ \A x \in DOMAIN MeantBy(t, b) :
          IF x \in Kind(t.sig, "extras")
          THEN Without(got[x], Excluded(t)) = MeantBy(t, b)[x]
          ELSE got[x] = MeantBy(t, b)[x]
    /\ \A x \in t.keyParam \intersect DOMAIN got : got[x] = key

\* Parameter by parameter.
LEMMA DeliversEach ==
    ASSUME NEW t, WellFormed(t.sig), NEW b, NEW got, NEW key,
           DOMAIN b = Names(t.sig), DOMAIN got = Names(t.sig),
           \A i \in DOMAIN t.sig : t.sig[i].name \notin Excluded(t) =>
              IF t.sig[i].kind = "extras"
              THEN Without(got[t.sig[i].name], Excluded(t)) = Without(b[t.sig[i].name], Excluded(t))
              ELSE got[t.sig[i].name] = b[t.sig[i].name],
           \A i \in DOMAIN t.sig : t.sig[i].name \in t.keyParam => got[t.sig[i].name] = key
    PROVE  Delivers(t, b, got, key)
<1>1. \A i \in DOMAIN t.sig : t.sig[i].kind = "extras" <=> t.sig[i].name \in Kind(t.sig, "extras")
  BY SignatureShape DEF Kind
<1>2. ASSUME NEW x \in DOMAIN MeantBy(t, b)
      PROVE  IF x \in Kind(t.sig, "extras")
             THEN Without(got[x], Excluded(t)) = MeantBy(t, b)[x]
             ELSE got[x] = MeantBy(t, b)[x]
  <2>1. x \in DOMAIN b \ Excluded(t)
    BY DEF MeantBy
  <2>2. PICK i \in DOMAIN t.sig : t.sig[i].name = x
    BY <2>1 DEF Names
  <2>3. MeantBy(t, b)[x] = IF x \in Kind(t.sig, "extras") THEN Without(b[x], Excluded(t)) ELSE b[x]
    BY <2>1 DEF MeantBy
  <2>. QED BY <1>1, <2>1, <2>2, <2>3
<1>3. ASSUME NEW x \in t.keyParam \intersect DOMAIN got PROVE got[x] = key
  BY <1>3 DEF Names
<1>. QED BY <1>2, <1>3 DEF Delivers

LEMMA BindShape ==
    ASSUME NEW sig, WellFormed(sig), NEW args, NEW kwargs
    PROVE  /\ DOMAIN Bind(sig, args, kwargs) = Names(sig)
           /\ \A i \in DOMAIN sig : Bind(sig, args, kwargs)[sig[i].name] = Received(sig, args, kwargs, i)
<1>1. DOMAIN Bind(sig, args, kwargs) = Names(sig)
  BY DEF Bind, Names
<1>2. ASSUME NEW i \in DOMAIN sig
      PROVE  Bind(sig, args, kwargs)[sig[i].name] = Received(sig, args, kwargs, i)
  <2>1. (CHOOSE j \in DOMAIN sig : sig[j].name = sig[i].name) = i
    BY SignatureShape
  <2>2. sig[i].name \in {sig[j].name : j \in DOMAIN sig}
    OBVIOUS
  <2>. QED BY <2>1, <2>2 DEF Bind
<1>. QED BY <1>1, <1>2

\* What a parameter receives, kind by kind, in a call Python does not refuse.
LEMMA ReceivedByKind ==
    ASSUME NEW sig, WellFormed(sig), NEW args, Len(args) \in Nat, NEW kwargs,
           NEW i \in DOMAIN sig, NEW p, p = sig[i],
           ~(i <= Len(args) /\ p.kind = "either" /\ p.name \in DOMAIN kwargs)
    PROVE  /\ p.kind = "star" => Received(sig, args, kwargs, i) = SubSeq(args, Slots(sig) + 1, Len(args))
           /\ p.kind = "extras" => Received(sig, args, kwargs, i) = Without(kwargs, ByName(sig))
           /\ p.kind \in {"positional", "either"} /\ i <= Len(args) =>
                 Received(sig, args, kwargs, i) = args[i]
           /\ p.kind \in {"either", "keyword"} /\ p.name \in DOMAIN kwargs =>
                 Received(sig, args, kwargs, i) = kwargs[p.name]
           /\ ~(p.kind \in {"positional", "either"} /\ i <= Len(args))
              /\ ~(p.kind \in {"either", "keyword"} /\ p.name \in DOMAIN kwargs)
              /\ p.kind \notin {"star", "extras"} =>
                 Received(sig, args, kwargs, i) = p.default
BY DEF Received

LEMMA NamedParameters ==
    ASSUME NEW sig, WellFormed(sig), NEW i \in DOMAIN sig
    PROVE  /\ sig[i].name \in ByName(sig) <=> sig[i].kind \in {"either", "keyword"}
           /\ sig[i].name \in Fixed(sig) <=> sig[i].kind # "extras"
           /\ sig[i].kind \in Kinds
BY SignatureShape DEF ByName, Kind, Fixed, WellFormed

\* The live path: the caller's own arguments, and the key by name.
LEMMA LiveDelivers ==
    ASSUME NEW t, WellFormed(t.sig), Rebuildable(t), NEW args, Len(args) \in Nat,
           NEW kwargs, NEW key, NEW kw, kw = WithKey(t, kwargs, key),
           ~TypeError(t.sig, args, kwargs), ~TypeError(t.sig, args, kw)
    PROVE  Delivers(t, Bind(t.sig, args, kwargs), Bind(t.sig, args, kw), key)
<1>1. PICK sig, X : sig = t.sig /\ X = Excluded(t) /\ t.keyParam \subseteq X
  BY DEF Excluded
<1>2. PICK b, got : b = Bind(sig, args, kwargs) /\ got = Bind(sig, args, kw)
  OBVIOUS
<1>3. /\ DOMAIN b = Names(sig) /\ DOMAIN got = Names(sig)
      /\ \A i \in DOMAIN sig : /\ b[sig[i].name] = Received(sig, args, kwargs, i)
                               /\ got[sig[i].name] = Received(sig, args, kw, i)
  BY <1>1, <1>2, BindShape
<1>4. /\ DOMAIN kw = DOMAIN kwargs \union t.keyParam
      /\ \A x \in t.keyParam : kw[x] = key
      /\ \A x \in DOMAIN kwargs \ t.keyParam : kw[x] = kwargs[x]
  BY DEF WithKey
<1>5. ASSUME NEW i \in DOMAIN sig
      PROVE  /\ ~(i <= Len(args) /\ sig[i].kind = "either" /\ sig[i].name \in DOMAIN kwargs)
             /\ ~(i <= Len(args) /\ sig[i].kind = "either" /\ sig[i].name \in DOMAIN kw)
  BY <1>1 DEF TypeError
<1>6. ASSUME NEW i \in DOMAIN sig, sig[i].name \notin X
      PROVE  IF sig[i].kind = "extras"
             THEN Without(got[sig[i].name], X) = Without(b[sig[i].name], X)
             ELSE got[sig[i].name] = b[sig[i].name]
  <2>1. PICK p : p = sig[i]
    OBVIOUS
  <2>2. /\ p.name \in DOMAIN kw <=> p.name \in DOMAIN kwargs
        /\ p.name \in DOMAIN kw => kw[p.name] = kwargs[p.name]
    BY <1>1, <1>4, <1>6, <2>1
  <2>3. CASE p.kind = "extras"
    <3>1. got[p.name] = Without(kw, ByName(sig)) /\ b[p.name] = Without(kwargs, ByName(sig))
      BY <1>1, <1>3, <1>5, <2>1, <2>3, ReceivedByKind
    <3>2. PICK B : B = ByName(sig)
      OBVIOUS
    <3>3. (DOMAIN kw \ B) \ X = (DOMAIN kwargs \ B) \ X
      BY <1>1, <1>4
    <3>4. \A y \in (DOMAIN kwargs \ B) \ X : kw[y] = kwargs[y]
      BY <1>1, <1>4
    <3>5. Without(Without(kw, B), X) = [y \in (DOMAIN kw \ B) \ X |-> kw[y]]
      BY DEF Without
    <3>6. Without(Without(kwargs, B), X) = [y \in (DOMAIN kwargs \ B) \ X |-> kwargs[y]]
      BY DEF Without
    <3>7. Without(Without(kw, B), X) = Without(Without(kwargs, B), X)
      BY <3>3, <3>4, <3>5, <3>6
    <3>. QED BY <2>1, <2>3, <3>1, <3>2, <3>7
  <2>4. CASE p.kind # "extras"
    <3>1. Received(sig, args, kw, i) = Received(sig, args, kwargs, i)
      <4>1. CASE p.kind = "star"
        <5>1. Received(sig, args, kw, i) = SubSeq(args, Slots(sig) + 1, Len(args))
          BY <1>1, <1>5, <2>1, <4>1, ReceivedByKind
        <5>2. Received(sig, args, kwargs, i) = SubSeq(args, Slots(sig) + 1, Len(args))
          BY <1>1, <1>5, <2>1, <4>1, ReceivedByKind
        <5>. QED BY <5>1, <5>2
      <4>2. CASE p.kind \in {"positional", "either"} /\ i <= Len(args)
        BY <1>1, <1>5, <2>1, <4>2, ReceivedByKind
      <4>3. CASE p.kind \in {"either", "keyword"} /\ p.name \in DOMAIN kwargs
        BY <1>1, <1>5, <2>1, <2>2, <4>3, ReceivedByKind
      <4>4. CASE /\ ~(p.kind \in {"positional", "either"} /\ i <= Len(args))
                 /\ ~(p.kind \in {"either", "keyword"} /\ p.name \in DOMAIN kwargs)
                 /\ p.kind # "star"
        BY <1>1, <1>5, <2>1, <2>2, <2>4, <4>4, ReceivedByKind
      <4>. QED BY <4>1, <4>2, <4>3, <4>4
    <3>. QED BY <1>3, <2>1, <2>4, <3>1
  <2>. QED BY <2>1, <2>3, <2>4
<1>7. ASSUME NEW i \in DOMAIN sig, sig[i].name \in t.keyParam
      PROVE  got[sig[i].name] = key
  <2>1. PICK p : p = sig[i]
    OBVIOUS
  <2>2. p.kind \in {"either", "keyword"}
    <3>1. p.name \in ByName(sig)
      BY <1>1, <1>7, <2>1 DEF Rebuildable
    <3>. QED BY <1>1, <2>1, <3>1, NamedParameters
  <2>3. p.name \in DOMAIN kw /\ kw[p.name] = key
    BY <1>4, <1>7, <2>1
  <2>4. Received(sig, args, kw, i) = kw[p.name]
    BY <1>1, <1>5, <2>1, <2>2, <2>3, ReceivedByKind
  <2>. QED BY <1>3, <2>1, <2>3, <2>4
<1>. QED BY <1>1, <1>2, <1>3, <1>6, <1>7, DeliversEach

\* The rebuilt call: what _bind_from_map makes of the map build_arg_map made.
LEMMA MapDelivers ==
    ASSUME NEW t, WellFormed(t.sig), Rebuildable(t), NEW args, args \in Seq(ToSet(args)),
           NEW kwargs, NEW b, b = Bind(t.sig, args, kwargs), ~TypeError(t.sig, args, kwargs),
           ~ValueError(t, b), NEW key
    PROVE  Delivers(t, b, Rebound(t, BuildArgMap(t, b), key), key)
<1>1. PICK sig, X : /\ sig = t.sig /\ X = Excluded(t) /\ t.keyParam \subseteq X
                    /\ \A x : x \in Gone(t) <=> x \in X /\ x \notin t.keyParam
  <2>1. PICK X : X = Excluded(t)
    OBVIOUS
  <2>2. t.keyParam \subseteq X /\ \A x : x \in Gone(t) <=> x \in X /\ x \notin t.keyParam
    BY <2>1 DEF Excluded, Gone
  <2>. QED BY <2>1, <2>2
<1>2. PICK m : m = WithKey(t, BuildArgMap(t, b), key)
  OBVIOUS
<1>3. PICK now, kw : now = Positional(t, m) /\ kw = Keyword(t, m)
  OBVIOUS
<1>4. PICK got : got = Bind(sig, now, kw)
  OBVIOUS
<1>5. Rebound(t, BuildArgMap(t, b), key) = got
  BY <1>1, <1>2, <1>3, <1>4 DEF Rebound
<1>6. /\ DOMAIN b = Names(sig) /\ DOMAIN got = Names(sig)
      /\ \A i \in DOMAIN sig : /\ b[sig[i].name] = Received(sig, args, kwargs, i)
                               /\ got[sig[i].name] = Received(sig, now, kw, i)
  BY <1>1, <1>4, BindShape
<1>7. /\ \A x \in Fixed(sig) : HoldsParameter(t, b, m, x)
      /\ \A x \in t.keyParam : x \in DOMAIN m /\ m[x] = key
      /\ \A e \in Kind(sig, "extras") \ X :
            /\ \A y : y \notin X => HoldsExtra(b, m, e, y)
            /\ DOMAIN m \subseteq Fixed(sig) \union X \union DOMAIN b[e]
            /\ \A y \in DOMAIN b[e] \ X : y \notin Fixed(sig)
  BY <1>1, <1>2, <1>6, MapHolds
<1>8. PICK c \in Nat : c = Len(args) /\ DOMAIN args = 1..c
  BY LenProperties
<1>9. PICK N \in Nat : /\ N = Slots(sig)
                       /\ \A i \in DOMAIN sig : i \in Nat /\ i >= 1
                       /\ \A i \in DOMAIN sig : i <= N <=> sig[i].kind \in {"positional", "either"}
  BY <1>1, SlotsLead, SignatureShape
<1>10. ASSUME NEW i \in DOMAIN sig, sig[i].kind = "star"
       PROVE  b[sig[i].name] = SubSeq(args, N + 1, c) /\ b[sig[i].name] \in Seq(ToSet(args))
  <2>1. b[sig[i].name] = SubSeq(args, N + 1, c)
    <3>1. ~(i <= Len(args) /\ sig[i].kind = "either" /\ sig[i].name \in DOMAIN kwargs)
      BY <1>10
    <3>2. Len(args) \in Nat
      BY <1>8
    <3>3. Received(sig, args, kwargs, i) = SubSeq(args, Slots(sig) + 1, Len(args))
      BY <1>1, <1>10, <3>1, <3>2, ReceivedByKind
    <3>. QED BY <1>6, <1>8, <1>9, <3>3
  <2>2. \A j \in N + 1..c : args[j] \in ToSet(args)
    BY <1>8, ElementOfSeq
  <2>3. SubSeq(args, N + 1, c) \in Seq(ToSet(args))
    BY <2>2, SubSeqProperties
  <2>. QED BY <2>1, <2>3
<1>11. ASSUME NEW i \in DOMAIN sig, sig[i].name \in t.keyParam
       PROVE  sig[i].kind \in {"either", "keyword"}
  <2>1. sig[i].name \in ByName(sig)
    BY <1>1, <1>11 DEF Rebuildable
  <2>. QED BY <1>1, <2>1, NamedParameters
<1>12. HasParameters(t, m)
  <2>1. ASSUME NEW i \in DOMAIN sig, sig[i].kind # "extras"
        PROVE  sig[i].name \in DOMAIN m <=> sig[i].name \notin Gone(t)
    <3>1. sig[i].name \in Fixed(sig)
      BY <1>1, <2>1, NamedParameters
    <3>. QED BY <1>7, <3>1 DEF HoldsParameter
  <2>2. ASSUME NEW i \in DOMAIN sig, sig[i].kind = "star", sig[i].name \in DOMAIN m
        PROVE  \E R : m[sig[i].name] \in Seq(R)
    <3>1. sig[i].name \notin X
      BY <1>1, <1>11, <2>1, <2>2
    <3>2. sig[i].name \in Fixed(sig)
      BY <1>1, <2>2, NamedParameters
    <3>3. m[sig[i].name] = b[sig[i].name]
      BY <1>1, <1>7, <3>1, <3>2 DEF HoldsParameter
    <3>. QED BY <1>10, <2>2, <3>3
  <2>. QED BY <1>1, <2>1, <2>2 DEF HasParameters
<1>13. PICK k \in 0..N : /\ \A i \in 1..N : i <= k <=> sig[i].name \notin Gone(t)
                         /\ InPlace(t, m, now, k)
  BY <1>1, <1>3, <1>9, <1>12, PassedByPosition
<1>14. PICK T : \E lead \in Seq(T), rest \in Seq(T) :
           /\ now = lead \o rest /\ Len(lead) = k
           /\ \A i \in 1..k : lead[i] = m[t.sig[i].name]
           /\ \A i \in DOMAIN t.sig :
                 t.sig[i].kind = "star" /\ t.sig[i].name \notin Gone(t) =>
                    k = Slots(t.sig) /\ rest = m[t.sig[i].name]
  BY <1>13, Zenon DEF InPlace
<1>15. PICK lead \in Seq(T), rest \in Seq(T) :
           /\ now = lead \o rest /\ Len(lead) = k
           /\ \A i \in 1..k : lead[i] = m[t.sig[i].name]
           /\ \A i \in DOMAIN t.sig :
                 t.sig[i].kind = "star" /\ t.sig[i].name \notin Gone(t) =>
                    k = Slots(t.sig) /\ rest = m[t.sig[i].name]
  BY <1>14
<1>16. /\ now = lead \o rest /\ Len(lead) = k
       /\ \A i \in 1..k : lead[i] = m[sig[i].name]
       /\ \A i \in DOMAIN sig :
             sig[i].kind = "star" /\ sig[i].name \notin Gone(t) => k = N /\ rest = m[sig[i].name]
  BY <1>1, <1>9, <1>15
<1>17. PICK r \in Nat : /\ r = Len(rest) /\ Len(now) = k + r
                        /\ \A i \in 1..k : now[i] = lead[i]
                        /\ SubSeq(now, k + 1, k + r) = rest
  <2>1. PICK r \in Nat : r = Len(rest)
    BY <1>16, LenProperties
  <2>2. /\ now \in Seq(T) /\ Len(now) = k + r
        /\ \A i \in 1..k + r : now[i] = IF i <= k THEN lead[i] ELSE rest[i - k]
    <3>1. /\ lead \o rest \in Seq(T) /\ Len(lead \o rest) = Len(lead) + Len(rest)
          /\ \A i \in 1..Len(lead) + Len(rest) :
                (lead \o rest)[i] = IF i <= Len(lead) THEN lead[i] ELSE rest[i - Len(lead)]
      BY <1>16, ConcatProperties
    <3>. QED BY <1>16, <2>1, <3>1
  <2>3. PICK u : u = SubSeq(now, k + 1, k + r)
    OBVIOUS
  <2>4. u = rest
    <3>1. \A i \in k + 1..k + r : now[i] \in T
      BY <2>2, ElementOfSeq
    <3>2. u \in Seq(T) /\ Len(u) = r /\ \A i \in 1..r : u[i] = now[k + 1 + i - 1]
      BY <2>3, <3>1, SubSeqProperties
    <3>3. \A i \in 1..r : u[i] = rest[i]
      <4>1. SUFFICES ASSUME NEW i \in 1..r PROVE u[i] = rest[i]
        OBVIOUS
      <4>2. u[i] = now[k + i] /\ k + i \in 1..k + r /\ ~(k + i <= k) /\ k + i - k = i
        BY <3>2
      <4>. QED BY <2>2, <4>2
    <3>. QED BY <1>16, <2>1, <3>2, <3>3, SeqEqual
  <2>5. \A i \in 1..k : now[i] = lead[i]
    BY <2>2
  <2>. QED BY <2>1, <2>2, <2>3, <2>4, <2>5
<1>18. /\ DOMAIN kw = DOMAIN m \ ByPosition(t)
       /\ \A y \in DOMAIN kw : kw[y] = m[y]
  BY <1>3 DEF Keyword, Without
<1>19. ASSUME NEW i \in DOMAIN sig
       PROVE  sig[i].name \in ByPosition(t) <=> sig[i].kind \in {"positional", "either", "star"}
  BY <1>1, SignatureShape DEF ByPosition, Kind
<1>20. ASSUME NEW i \in DOMAIN sig
       PROVE  ~(i <= Len(now) /\ sig[i].kind = "either" /\ sig[i].name \in DOMAIN kw)
  BY <1>18, <1>19
<1>21. Len(now) \in Nat
  BY <1>17
<1>22. ASSUME NEW i \in DOMAIN sig, sig[i].kind \in {"positional", "either", "keyword"},
              sig[i].name \notin Gone(t)
       PROVE  got[sig[i].name] = m[sig[i].name]
  <2>1. PICK p : p = sig[i]
    OBVIOUS
  <2>2. CASE p.kind = "keyword"
    <3>1. p.name \in DOMAIN m
      BY <1>1, <1>12, <1>22, <2>1, <2>2 DEF HasParameters
    <3>2. p.name \in DOMAIN kw
      BY <1>18, <1>19, <2>1, <2>2, <3>1
    <3>3. Received(sig, now, kw, i) = kw[p.name]
      BY <1>1, <1>20, <1>21, <2>1, <2>2, <3>2, ReceivedByKind
    <3>. QED BY <1>6, <1>18, <2>1, <3>2, <3>3
  <2>3. CASE p.kind \in {"positional", "either"}
    <3>1. i \in 1..N
      BY <1>9, <2>1, <2>3
    <3>2. i \in 1..k /\ i <= Len(now)
      BY <1>13, <1>17, <1>22, <3>1
    <3>3. Received(sig, now, kw, i) = now[i]
      BY <1>1, <1>20, <1>21, <2>1, <2>3, <3>2, ReceivedByKind
    <3>. QED BY <1>6, <1>16, <1>17, <2>1, <3>2, <3>3
  <2>. QED BY <1>22, <2>1, <2>2, <2>3
<1>23. ASSUME NEW i \in DOMAIN sig, sig[i].name \notin X
       PROVE  IF sig[i].kind = "extras"
              THEN Without(got[sig[i].name], X) = Without(b[sig[i].name], X)
              ELSE got[sig[i].name] = b[sig[i].name]
  <2>1. PICK p : p = sig[i] /\ p.name \notin Gone(t)
    BY <1>1, <1>23
  <2>2. CASE p.kind \in {"positional", "either", "keyword"}
    <3>1. got[p.name] = m[p.name]
      BY <1>22, <2>1, <2>2
    <3>2. p.name \in Fixed(sig)
      BY <1>1, <2>1, <2>2, NamedParameters
    <3>3. m[p.name] = b[p.name]
      BY <1>1, <1>7, <1>23, <2>1, <3>2 DEF HoldsParameter
    <3>. QED BY <2>1, <2>2, <3>1, <3>3
  <2>3. CASE p.kind = "star"
    <3>1. k = N /\ rest = m[p.name]
      BY <1>16, <2>1, <2>3
    <3>2. Received(sig, now, kw, i) = SubSeq(now, N + 1, k + r)
      <4>1. Received(sig, now, kw, i) = SubSeq(now, Slots(sig) + 1, Len(now))
        BY <1>1, <1>20, <1>21, <2>1, <2>3, ReceivedByKind
      <4>. QED BY <1>9, <1>17, <4>1
    <3>3. got[p.name] = rest
      BY <1>6, <1>17, <2>1, <3>1, <3>2
    <3>4. p.name \in Fixed(sig)
      BY <1>1, <2>1, <2>3, NamedParameters
    <3>5. m[p.name] = b[p.name]
      BY <1>1, <1>7, <1>23, <2>1, <3>4 DEF HoldsParameter
    <3>. QED BY <2>1, <2>3, <3>1, <3>3, <3>5
  <2>4. CASE p.kind = "extras"
    <3>1. PICK e : e = p.name /\ e \in Kind(sig, "extras") \ X
      BY <1>23, <2>1, <2>4 DEF Kind
    <3>2. PICK B : B = ByName(sig)
      OBVIOUS
    <3>3. got[e] = Without(kw, B)
      BY <1>1, <1>6, <1>20, <1>21, <2>1, <2>4, <3>1, <3>2, ReceivedByKind
    <3>4. Without(got[e], X) = [y \in (DOMAIN kw \ B) \ X |-> kw[y]]
      BY <3>3 DEF Without
    <3>5. Without(b[e], X) = [y \in DOMAIN b[e] \ X |-> b[e][y]]
      BY DEF Without
    <3>6. Fixed(sig) \subseteq ByPosition(t) \union B
      <4>1. SUFFICES ASSUME NEW j \in DOMAIN sig, sig[j].kind # "extras"
                     PROVE  sig[j].name \in ByPosition(t) \union B
        BY DEF Fixed
      <4>2. sig[j].kind \in Kinds /\ (sig[j].name \in B <=> sig[j].kind \in {"either", "keyword"})
        BY <1>1, <3>2, NamedParameters
      <4>. QED BY <1>19, <4>1, <4>2 DEF Kinds
    <3>7. ByPosition(t) \union B \subseteq Fixed(sig)
      BY <1>1, <3>2 DEF ByPosition, ByName, Kind, Fixed
    <3>8. (DOMAIN kw \ B) \ X = DOMAIN b[e] \ X
      <4>1. DOMAIN b[e] \ X \subseteq DOMAIN m \ Fixed(sig)
        BY <1>7, <3>1 DEF HoldsExtra
      <4>2. DOMAIN m \ (Fixed(sig) \union X) \subseteq DOMAIN b[e]
        BY <1>7, <3>1
      <4>. QED BY <1>18, <3>6, <3>7, <4>1, <4>2
    <3>9. \A y \in DOMAIN b[e] \ X : kw[y] = b[e][y]
      BY <1>7, <1>18, <3>1, <3>8 DEF HoldsExtra
    <3>10. Without(got[e], X) = Without(b[e], X)
      BY <3>4, <3>5, <3>8, <3>9
    <3>. QED BY <2>1, <2>4, <3>1, <3>10
  <2>5. p.kind \in Kinds
    BY <1>1, <2>1, NamedParameters
  <2>. QED BY <2>2, <2>3, <2>4, <2>5 DEF Kinds
<1>24. ASSUME NEW i \in DOMAIN sig, sig[i].name \in t.keyParam
       PROVE  got[sig[i].name] = key
  <2>1. sig[i].kind \in {"positional", "either", "keyword"} /\ sig[i].name \notin Gone(t)
    BY <1>1, <1>11, <1>24
  <2>. QED BY <1>7, <1>22, <1>24, <2>1
<1>. QED BY <1>1, <1>5, <1>6, <1>23, <1>24, DeliversEach

-----------------------------------------------------------------------------
(* What has been invoked.                                                  *)

Delivered(j, bound) == Delivers(tool, Bound(j), bound, "key")

\* Accepted: not refused by the signature or the map.
Accepted(i) == phase[i] \notin {"new", "raised", "denied"} => ~Unbindable(i)

RecoveryInv ==
    /\ WellFormed(tool.sig) /\ Rebuildable(tool)
    /\ \A i \in Ids : call[i].args \in Seq(ToSet(call[i].args)) /\ Accepted(i)
    /\ \A n \in DOMAIN ran : ran[n].row \in Ids /\ Delivered(ran[n].row, ran[n].bound)

\* What a step invokes it delivers, and what it accepts can be bound.
Honest ==
    /\ UNCHANGED <<tool, call>>
    /\ \A i \in Ids : phase'[i] = phase[i] \/ phase'[i] \in {"raised", "denied"}
                         \/ phase[i] \notin {"new", "raised", "denied"} \/ ~Unbindable(i)
    /\ \/ ran' = ran
       \/ \E j \in Ids : \E bound : \E by : Invoked(j, bound, by) /\ Delivered(j, bound)

LEMMA HonestKeeps ==
    ASSUME LedgerInv, RecoveryInv, Honest
    PROVE  RecoveryInv'
<1>1. \A i : \A bound : /\ Unbindable(i)' <=> Unbindable(i)
                        /\ Delivered(i, bound)' <=> Delivered(i, bound)
  BY DEF Honest, Unbindable, Delivered, Bound
<1>2. ASSUME NEW i \in Ids PROVE Accepted(i)'
  BY <1>1 DEF Honest, RecoveryInv, Accepted
<1>3. \A n \in DOMAIN ran' : ran'[n].row \in Ids /\ Delivered(ran'[n].row, ran'[n].bound)
  <2>1. CASE ran' = ran
    BY <2>1 DEF RecoveryInv
  <2>2. ASSUME NEW j \in Ids, NEW bound, NEW by, Invoked(j, bound, by), Delivered(j, bound)
        PROVE  \A n \in DOMAIN ran' : ran'[n].row \in Ids /\ Delivered(ran'[n].row, ran'[n].bound)
    <3>1. PICK x : x = [row |-> j, bound |-> bound, by |-> by]
      OBVIOUS
    <3>2. PICK c \in Nat : c = Len(ran) /\ DOMAIN ran = 1..c
      BY LenProperties DEF LedgerInv
    <3>3. /\ Len(ran') = c + 1 /\ ran' \in Seq({ran'[n] : n \in DOMAIN ran'})
          /\ \A n \in 1..c : ran'[n] = ran[n]
          /\ ran'[c + 1] = x
      BY <2>2, <3>1, <3>2, OneMore DEF LedgerInv, Invoked
    <3>4. DOMAIN ran' = 1..c + 1
      BY <3>3, LenProperties
    <3>5. \A n \in 1..c + 1 : n \in 1..c \/ n = c + 1
      BY <3>2
    <3>. QED BY <2>2, <3>1, <3>2, <3>3, <3>4, <3>5 DEF RecoveryInv
  <2>. QED BY <2>1, <2>2 DEF Honest
<1>. QED BY <1>1, <1>2, <1>3 DEF Honest, RecoveryInv

LEMMA LiveIsDelivered ==
    ASSUME RecoveryInv, NEW i \in Ids, RunLive(i)
    PROVE  \E bound : \E by : Invoked(i, bound, by) /\ Delivered(i, bound)
<1>1. PICK args, kwargs, kw : /\ args = call[i].args /\ kwargs = call[i].kwargs
                              /\ kw = WithKey(tool, kwargs, "key")
  OBVIOUS
<1>2. ~TypeError(tool.sig, args, kwargs)
  BY <1>1 DEF RecoveryInv, Accepted, RunLive, Unbindable
<1>3. ~TypeError(tool.sig, args, kw) /\ Invoked(i, Bind(tool.sig, args, kw), "live")
  BY <1>1 DEF RunLive
<1>4. Len(args) \in Nat
  BY <1>1, LenProperties DEF RecoveryInv
<1>5. Delivers(tool, Bind(tool.sig, args, kwargs), Bind(tool.sig, args, kw), "key")
  BY <1>1, <1>2, <1>3, <1>4, LiveDelivers DEF RecoveryInv
<1>. QED BY <1>1, <1>3, <1>5 DEF Delivered, Bound

LEMMA MapIsDelivered ==
    ASSUME RecoveryInv, NEW i \in Ids, phase[i] \notin {"new", "raised", "denied"}, RunFromMap(i)
    PROVE  \E bound : \E by : Invoked(i, bound, by) /\ Delivered(i, bound)
<1>1. PICK args, kwargs, b : /\ args = call[i].args /\ kwargs = call[i].kwargs
                             /\ b = Bind(tool.sig, args, kwargs) /\ b = Bound(i)
  BY DEF Bound
<1>2. ~TypeError(tool.sig, args, kwargs) /\ ~ValueError(tool, b)
  BY <1>1 DEF RecoveryInv, Accepted, Unbindable
<1>3. Delivers(tool, b, Rebound(tool, BuildArgMap(tool, b), "key"), "key")
  BY <1>1, <1>2, MapDelivers DEF RecoveryInv
<1>4. Invoked(i, Rebound(tool, BuildArgMap(tool, b), "key"), "map")
  BY <1>1 DEF RunFromMap, ArgMap
<1>. QED BY <1>1, <1>3, <1>4 DEF Delivered

LEMMA GuardIsHonest ==
    ASSUME RecoveryInv, CallInv, NEW i \in Ids, GuardStep(i)
    PROVE  Honest
<1>1. phase \in [Ids -> Phases]
  BY DEF CallInv
<1>2. CASE \/ Raise(i) \/ Deny(i) \/ Gate(i) \/ CommitAuto(i) \/ AbortLive(i)
          \/ RunLiveRaises(i) \/ Crash(i) \/ Join(i)
  BY <1>1, <1>2 DEF Raise, Deny, Gate, CommitAuto, AbortLive, RunLiveRaises, Crash, Join, Become, Honest
<1>3. CASE RunLive(i)
  <2>1. \E bound : \E by : Invoked(i, bound, by) /\ Delivered(i, bound)
    BY <1>3, LiveIsDelivered
  <2>2. UNCHANGED <<tool, call>> /\ phase[i] = "driving" /\ \E p : Become(i, p)
    BY <1>3 DEF RunLive
  <2>. QED BY <1>1, <2>1, <2>2 DEF Honest, Become
<1>4. CASE Recover(i)
  <2>1. i \in DOMAIN ledger /\ UNCHANGED <<tool, call, phase>> /\ (RunFromMap(i) \/ ran' = ran)
    BY <1>4 DEF Recover
  <2>2. phase[i] \notin {"new", "raised", "denied"}
    BY <2>1 DEF CallInv, CallIs
  <2>3. RunFromMap(i) => \E bound : \E by : Invoked(i, bound, by) /\ Delivered(i, bound)
    BY <2>2, MapIsDelivered
  <2>. QED BY <2>1, <2>3 DEF Honest
<1>. QED BY <1>2, <1>3, <1>4 DEF GuardStep

\* A drive applies a decision to a run that a gated call has persisted.
LEMMA DecisionIsHonest ==
    ASSUME RecoveryInv, CallInv, NEW i \in Ids, NEW v, Apply(i, v) \/ ApplyRaises(i, v), Quiet
    PROVE  Honest
<1>1. UNCHANGED <<tool, call, phase>>
  BY DEF Quiet
<1>2. CASE ran' = ran
  BY <1>1, <1>2 DEF Honest
<1>3. CASE ran' # ran
  <2>1. run[i] \in {"proposed", "approved"} /\ (DriveApproved(i) \/ DriveRaises(i))
    BY <1>3 DEF Apply, ApplyRaises, Now
  <2>2. RunFromMap(i)
    BY <1>3, <2>1 DEF DriveApproved, DriveRaises
  <2>3. phase[i] \in {"paused", "sent"}
    BY <2>1 DEF CallInv, CallIs
  <2>4. \E bound : \E by : Invoked(i, bound, by) /\ Delivered(i, bound)
    BY <2>2, <2>3, MapIsDelivered
  <2>. QED BY <1>1, <2>4 DEF Honest
<1>. QED BY <1>2, <1>3

LEMMA StepIsHonest ==
    ASSUME RecoveryInv, EdgeInv, [Next]_vars
    PROVE  Honest
<1>1. CallInv /\ phase \in [Ids -> Phases]
  BY DEF EdgeInv, CallInv
<1>2. ASSUME UNCHANGED <<tool, call, phase, ran>> PROVE Honest
  BY <1>2 DEF Honest
<1>3. ASSUME NEW i \in Ids, Send(i) PROVE Honest
  BY <1>1, <1>3 DEF Send, Become, Honest
<1>4. ASSUME NEW i \in Ids, Human(i) \/ Push(i) PROVE Honest
  BY <1>2, <1>4 DEF Human, Push, guardVars
<1>5. ASSUME NEW i \in Ids, Poll(i) \/ Answer(i) PROVE Honest
  BY <1>1, <1>5, DecisionIsHonest DEF Poll, Answer
<1>6. ASSUME NEW p \in pushes, Receive(p) PROVE Honest
  <2>1. p.call \in Ids
    BY DEF EdgeInv, WireInv
  <2>2. Quiet /\ (UNCHANGED <<run, approved, ledger, ran>> \/ Apply(p.call, cloud[p.call])
                     \/ ApplyRaises(p.call, cloud[p.call]))
    BY <1>6 DEF Receive
  <2>. QED BY <1>1, <1>2, <2>1, <2>2, DecisionIsHonest DEF Quiet
<1>7. ASSUME Tick \/ (\E i \in Ids, v \in Verdicts : Record(i, v) \/ RecordTorn(i, v)) \/ UNCHANGED vars
      PROVE  Honest
  BY <1>2, <1>7 DEF Tick, RecordTorn, Record, vars, guardVars
<1>8. ASSUME NEW i \in Ids, GuardStep(i) PROVE Honest
  BY <1>1, <1>8, GuardIsHonest
<1>. QED BY <1>3, <1>4, <1>5, <1>6, <1>7, <1>8 DEF Next

\* For every tool whose signature the map can be read back into, every way of
\* calling it, every crash and every delivery: the live path, recovery and an
\* approved gate hand the tool the arguments of the call its row was claimed for,
\* the ignored ones aside, and the key where it asks for one.
THEOREM RecoveryIsFaithful ==
    ASSUME \A program \in Programs : Rebuildable(program.tool)
    PROVE  Spec => []RecoveredCallIsFaithful
<1>1. Init => RecoveryInv
  <2>1. SUFFICES ASSUME Init PROVE RecoveryInv
    OBVIOUS
  <2>2. PICK program \in Programs : GuardInit(program)
    BY <2>1 DEF Init
  <2>3. WellFormed(tool.sig) /\ Rebuildable(tool)
    BY <2>2, ProgramAssumption DEF GuardInit
  <2>4. \A i \in Ids : call[i].args \in Seq(ToSet(call[i].args))
    BY <2>2, ProgramAssumption DEF GuardInit
  <2>5. phase = [i \in Ids |-> "new"] /\ ran = <<>>
    BY <2>2 DEF GuardInit
  <2>. QED BY <2>3, <2>4, <2>5 DEF RecoveryInv, Accepted
<1>2. RecoveryInv /\ EdgeInv /\ [Next]_vars => RecoveryInv'
  BY StepIsHonest, HonestKeeps DEF EdgeInv
<1>3. RecoveryInv => RecoveredCallIsFaithful
  BY DEF RecoveryInv, Delivered, Delivers, RecoveredCallIsFaithful, Meant, MeantBy
<1>. QED BY <1>1, <1>2, <1>3, EdgeInvariant, PTL DEF Spec
=============================================================================

-------------------------- MODULE RuleEngineProofs --------------------------
(***************************************************************************)
(* What the rule engine and its counters guarantee for any rule files,      *)
(* clients, number of concurrent evaluations and length of time.            *)
(***************************************************************************)
EXTENDS RuleEngine, Functions, FiniteSetTheorems, TLAPS

-----------------------------------------------------------------------------
(* Sums over finite sets, for what the counters and the scores add up to.    *)
(* SumFunctionOnSet takes the elements in an order of its own; these lemmas  *)
(* say that the order does not matter.  Induction is by the least            *)
(* counterexample.                                                           *)

\* A set of naturals that is not empty has a least element.
LEMMA LeastNat ==
    ASSUME NEW T \in SUBSET Nat, T # {}
    PROVE  \E m \in T : \A n \in T : m <= n
<1> DEFINE Less == {ss \in Nat \X Nat : ss[1] < ss[2]}
<1>1. IsWellFoundedOn(Less, Nat)
    BY NatLessThanWellFounded, Zenon DEF OpToRel
<1> HIDE DEF Less
<1>2. PICK m \in T : \A n \in T : <<n, m>> \notin Less
    BY <1>1, WFMin
<1>3. \A n \in T : ~(n < m)
    BY <1>2 DEF Less
<1> QED BY <1>3

\* Values that can be added up.
Summable(f, S) == IsFiniteSet(S) /\ \A x \in S : f[x] \in Nat

\* The element a fold takes first.
First(s) == CHOOSE x \in s : TRUE

\* g sums f over the subsets of S of at most n elements, whichever element comes
\* last.
Additive(g, f, S, n) ==
    /\ g \in [SUBSET S -> Nat] /\ g[{}] = 0
    /\ \A s \in SUBSET S : Cardinality(s) <= n => \A x \in s : g[s] = f[x] + g[s \ {x}]

\* Taking an element away leaves one less.
LEMMA OneLess ==
    ASSUME NEW S, IsFiniteSet(S), NEW s \in SUBSET S, NEW x \in s
    PROVE  /\ s \ {x} \in SUBSET S /\ Cardinality(s) \in Nat
           /\ Cardinality(s \ {x}) \in Nat /\ Cardinality(s \ {x}) = Cardinality(s) - 1
<1>1. IsFiniteSet(s)
    BY FS_Subset
<1>2. IsFiniteSet(s \ {x}) /\ Cardinality(s \ {x}) = Cardinality(s) - 1
    BY <1>1, FS_RemoveElement
<1> QED BY <1>1, <1>2, FS_CardinalityType

\* A sum over sets of up to n elements extends to sets of one more.
LEMMA AdditiveExtends ==
    ASSUME NEW f, NEW S, Summable(f, S), NEW n \in Nat, NEW g, Additive(g, f, S, n)
    PROVE  \E h : Additive(h, f, S, n + 1)
<1> DEFINE h == [s \in SUBSET S |-> IF Cardinality(s) <= n THEN g[s]
                                    ELSE f[First(s)] + g[s \ {First(s)}]]
<1>1. ASSUME NEW s \in SUBSET S
      PROVE  Cardinality(s) \in Nat /\ (s # {} => First(s) \in s) /\ (s = {} => Cardinality(s) = 0)
    BY FS_Subset, FS_CardinalityType, FS_EmptySet DEF Summable, First
<1>2. h \in [SUBSET S -> Nat]
  <2> SUFFICES ASSUME NEW s \in SUBSET S, ~(Cardinality(s) <= n)
               PROVE  f[First(s)] + g[s \ {First(s)}] \in Nat
      BY DEF Additive
  <2>1. First(s) \in S
      BY <1>1
  <2>2. s \ {First(s)} \in SUBSET S
      OBVIOUS
  <2> QED BY <2>1, <2>2 DEF Additive, Summable
<1>3. h[{}] = 0
    BY <1>1 DEF Additive
<1>4. ASSUME NEW s \in SUBSET S, Cardinality(s) <= n + 1, NEW x \in s
      PROVE  h[s] = f[x] + h[s \ {x}]
  <2> DEFINE c == First(s)
  <2>1. /\ s \ {x} \in SUBSET S /\ Cardinality(s) \in Nat
        /\ Cardinality(s \ {x}) = Cardinality(s) - 1
      BY OneLess DEF Summable
  <2>2. h[s \ {x}] = g[s \ {x}]
      BY <1>4, <2>1
  <2>3. CASE Cardinality(s) <= n
      BY <2>1, <2>2, <2>3 DEF Additive
  <2>4. CASE ~(Cardinality(s) <= n)
    <3>1. c \in s /\ h[s] = f[c] + g[s \ {c}]
        BY <1>1, <2>4
    <3>2. CASE x = c
        BY <2>2, <3>1, <3>2
    <3>3. CASE x # c
      <4>1. s \ {c} \in SUBSET S /\ Cardinality(s \ {c}) <= n /\ x \in s \ {c}
          BY <1>4, <3>1, <3>3, OneLess DEF Summable
      <4>2. g[s \ {c}] = f[x] + g[(s \ {c}) \ {x}]
          BY <4>1 DEF Additive
      <4>3. Cardinality(s \ {x}) <= n /\ c \in s \ {x}
          BY <1>4, <2>1, <3>1, <3>3
      <4>4. g[s \ {x}] = f[c] + g[(s \ {x}) \ {c}]
          BY <2>1, <4>3 DEF Additive
      <4>5. (s \ {c}) \ {x} = (s \ {x}) \ {c} /\ (s \ {x}) \ {c} \in SUBSET S
          OBVIOUS
      <4>6. f[x] \in Nat /\ f[c] \in Nat /\ g[(s \ {x}) \ {c}] \in Nat
          BY <3>1, <4>5 DEF Summable, Additive
      <4>7. g[(s \ {c}) \ {x}] = g[(s \ {x}) \ {c}]
          BY <4>5
      <4>8. h[s] = f[c] + (f[x] + g[(s \ {x}) \ {c}])
          BY <3>1, <4>2, <4>7
      <4>9. h[s \ {x}] = f[c] + g[(s \ {x}) \ {c}]
          BY <2>2, <4>4
      <4> HIDE DEF c, h
      <4> QED BY <4>6, <4>8, <4>9
    <3> QED BY <3>2, <3>3
  <2> QED BY <2>3, <2>4
<1> HIDE DEF h
<1> QED BY <1>2, <1>3, <1>4, ZenonT(40) DEF Additive

\* There is a sum over all subsets of a finite set.
LEMMA AdditiveExists ==
    ASSUME NEW f, NEW S, Summable(f, S), NEW n \in Nat
    PROVE  \E g : Additive(g, f, S, n)
<1> DEFINE T == {k \in Nat : ~ \E g : Additive(g, f, S, k)}
<1> SUFFICES ASSUME T # {} PROVE FALSE
    OBVIOUS
<1>1. PICK m \in T : \A k \in T : m <= k
    BY LeastNat
<1>2. m # 0
  <2>1. Additive([s \in SUBSET S |-> 0], f, S, 0)
    <3>1. \A s \in SUBSET S : Cardinality(s) <= 0 => s = {}
        BY FS_Subset, FS_CardinalityType, FS_EmptySet DEF Summable
    <3> QED BY <3>1 DEF Additive
  <2> QED BY <2>1, <1>1
<1>3. PICK g : Additive(g, f, S, m - 1)
    BY <1>1, <1>2
<1>4. \E h : Additive(h, f, S, (m - 1) + 1)
    BY <1>2, <1>3, AdditiveExtends
<1> QED BY <1>1, <1>4

\* The recursion that SumFunctionOnSet unfolds to.
Iterates(iter, f, S) ==
    iter = [s \in SUBSET S |-> IF s = {} THEN 0 ELSE f[First(s)] + iter[s \ {First(s)}]]

\* SumFunctionOnSet is such a recursion as soon as there is one.
LEMMA SumIterates ==
    ASSUME NEW f, NEW S, \E iter : Iterates(iter, f, S)
    PROVE  \E iter : Iterates(iter, f, S) /\ SumFunctionOnSet(f, S) = iter[S]
<1> DEFINE it == CHOOSE iter : iter = [s \in SUBSET S |->
                    IF s = {} THEN 0
                    ELSE f[CHOOSE x \in s : TRUE] + iter[s \ {CHOOSE x \in s : TRUE}]]
<1>1. SumFunctionOnSet(f, S) = it[S]
    BY DEF SumFunctionOnSet, FoldFunctionOnSet, MapThenFoldSet
<1>2. Iterates(it, f, S)
    BY DEF Iterates, First
<1> QED BY <1>1, <1>2

\* SumFunctionOnSet agrees with every additive sum.
LEMMA SumIsAdditive ==
    ASSUME NEW f, NEW S, Summable(f, S), NEW g, Additive(g, f, S, Cardinality(S)),
           NEW s \in SUBSET S
    PROVE  SumFunctionOnSet(f, s) = g[s]
<1>1. \A u \in SUBSET S : u # {} => /\ First(u) \in u
                                   /\ g[u] = f[First(u)] + g[u \ {First(u)}]
  <2>1. \A u \in SUBSET S : Cardinality(u) <= Cardinality(S)
      BY FS_Subset DEF Summable
  <2> QED BY <2>1 DEF Additive, First
<1>2. Iterates([u \in SUBSET s |-> g[u]], f, s)
    BY <1>1 DEF Iterates, Additive
<1>3. PICK iter : Iterates(iter, f, s) /\ SumFunctionOnSet(f, s) = iter[s]
    BY <1>2, SumIterates
<1> DEFINE T == {k \in Nat : \E u \in SUBSET s : Cardinality(u) = k /\ iter[u] # g[u]}
<1>4. ASSUME T # {} PROVE FALSE
  <2>1. PICK m \in T : \A k \in T : m <= k
      BY <1>4, LeastNat
  <2>2. PICK u \in SUBSET s : Cardinality(u) = m /\ iter[u] # g[u]
      BY <2>1
  <2>3. u # {}
      BY <1>3, <2>2 DEF Iterates, Additive
  <2>4. First(u) \in u /\ u \ {First(u)} \in SUBSET s
      BY <1>1, <2>3
  <2>5. Cardinality(u \ {First(u)}) = m - 1 /\ m - 1 \in Nat
    <3>1. u \in SUBSET S
        OBVIOUS
    <3> QED BY <2>2, <2>4, <3>1, OneLess DEF Summable
  <2>6. iter[u \ {First(u)}] = g[u \ {First(u)}]
      BY <2>1, <2>4, <2>5
  <2>7. iter[u] = f[First(u)] + iter[u \ {First(u)}]
      BY <1>3, <2>3 DEF Iterates
  <2> QED BY <1>1, <2>2, <2>3, <2>6, <2>7
<1>5. Cardinality(s) \in Nat
    BY FS_Subset, FS_CardinalityType DEF Summable
<1> QED BY <1>3, <1>4, <1>5

\* A sum of naturals is one, nothing sums to nothing, and any element may be
\* taken out of a sum.
LEMMA SumRemove ==
    ASSUME NEW f, NEW S, Summable(f, S)
    PROVE  /\ SumFunctionOnSet(f, S) \in Nat
           /\ SumFunctionOnSet(f, {}) = 0
           /\ \A x \in S : SumFunctionOnSet(f, S) = f[x] + SumFunctionOnSet(f, S \ {x})
<1>1. Cardinality(S) \in Nat
    BY FS_CardinalityType DEF Summable
<1>2. PICK g : Additive(g, f, S, Cardinality(S))
    BY <1>1, AdditiveExists
<1>3. \A s \in SUBSET S : SumFunctionOnSet(f, s) = g[s]
    BY <1>2, SumIsAdditive
<1>4. \A x \in S : g[S] = f[x] + g[S \ {x}]
    BY <1>1, <1>2 DEF Additive
<1>5. {} \in SUBSET S /\ S \in SUBSET S /\ \A x : S \ {x} \in SUBSET S
    OBVIOUS
<1> QED BY <1>2, <1>3, <1>4, <1>5 DEF Additive

\* A part of what can be added up can be.
LEMMA SummablePart ==
    ASSUME NEW f, NEW S, Summable(f, S), NEW s \in SUBSET S
    PROVE  Summable(f, s)
BY FS_Subset DEF Summable

\* Sums of smaller values are smaller.
LEMMA SumMonotone ==
    ASSUME NEW f, NEW h, NEW S, Summable(f, S), Summable(h, S), \A x \in S : f[x] <= h[x]
    PROVE  SumFunctionOnSet(f, S) <= SumFunctionOnSet(h, S)
<1> DEFINE Low(s) == SumFunctionOnSet(f, s)
           High(s) == SumFunctionOnSet(h, s)
           T == {k \in Nat : \E s \in SUBSET S : Cardinality(s) = k /\ ~(Low(s) <= High(s))}
<1>1. ASSUME T # {} PROVE FALSE
  <2>1. PICK m \in T : \A k \in T : m <= k
      BY <1>1, LeastNat
  <2>2. PICK s \in SUBSET S : Cardinality(s) = m /\ ~(Low(s) <= High(s))
      BY <2>1
  <2>3. Summable(f, s) /\ Summable(h, s)
      BY SummablePart
  <2>4. s # {}
    <3>1. Low({}) = 0 /\ High({}) = 0
        BY SumRemove
    <3> QED BY <2>2, <3>1
  <2>5. PICK x \in s : TRUE
      BY <2>4
  <2>6. s \ {x} \in SUBSET S /\ Cardinality(s \ {x}) = m - 1 /\ m - 1 \in Nat
      BY <2>2, OneLess DEF Summable
  <2>7. Low(s \ {x}) <= High(s \ {x})
      BY <2>1, <2>6
  <2>8. /\ Low(s) = f[x] + Low(s \ {x}) /\ High(s) = h[x] + High(s \ {x})
        /\ f[x] \in Nat /\ h[x] \in Nat /\ f[x] <= h[x]
      BY <2>3, SumRemove DEF Summable
  <2>9. Low(s \ {x}) \in Nat /\ High(s \ {x}) \in Nat
      BY <2>6, SummablePart, SumRemove
  <2> HIDE DEF Low, High
  <2> QED BY <2>2, <2>7, <2>8, <2>9
<1>2. Cardinality(S) \in Nat
    BY FS_CardinalityType DEF Summable
<1> QED BY <1>1, <1>2

\* Sums of equal values are equal.
LEMMA SumSame ==
    ASSUME NEW f, NEW h, NEW S, Summable(f, S), \A x \in S : f[x] = h[x]
    PROVE  SumFunctionOnSet(f, S) = SumFunctionOnSet(h, S)
<1>1. Summable(h, S)
    BY DEF Summable
<1>2. \A x \in S : f[x] <= h[x] /\ h[x] <= f[x]
    BY DEF Summable
<1>3. SumFunctionOnSet(f, S) <= SumFunctionOnSet(h, S)
    BY <1>1, <1>2, SumMonotone
<1>4. SumFunctionOnSet(h, S) <= SumFunctionOnSet(f, S)
    BY <1>1, <1>2, SumMonotone
<1> QED BY <1>1, <1>3, <1>4, SumRemove

\* Raising one value raises the sum by as much.
LEMMA SumRaise ==
    ASSUME NEW f, NEW h, NEW S, Summable(f, S), NEW x \in S, NEW n \in Nat,
           h[x] = f[x] + n, \A y \in S \ {x} : h[y] = f[y]
    PROVE  SumFunctionOnSet(h, S) = SumFunctionOnSet(f, S) + n
<1>1. Summable(h, S)
    BY DEF Summable
<1>2. Summable(f, S \ {x})
    BY SummablePart
<1>3. SumFunctionOnSet(f, S \ {x}) = SumFunctionOnSet(h, S \ {x})
    BY <1>2, SumSame
<1>4. SumFunctionOnSet(f, S \ {x}) \in Nat /\ f[x] \in Nat
    BY <1>2, SumRemove DEF Summable
<1>5. SumFunctionOnSet(f, S) = f[x] + SumFunctionOnSet(f, S \ {x})
    BY SumRemove
<1>6. SumFunctionOnSet(h, S) = h[x] + SumFunctionOnSet(h, S \ {x})
    BY <1>1, SumRemove
<1> QED BY <1>3, <1>4, <1>5, <1>6

-----------------------------------------------------------------------------
(* Rules. *)

\* The rules an evaluation of a phase can come to: those of files that compile.
Compiled(p) == {def \in UNION {Range(f) : f \in {g \in Files : CompilesFile(g)}} : def.phase = p}

\* An evaluation holds compiled rules of its phase, and one that is about to bump
\* a counter stands at an incr rule.
HeldInv ==
    /\ CompilesFile(rules)
    /\ hits \in [Task -> SUBSET Nat] /\ over \in [Task -> SUBSET Nat]
    /\ DOMAIN held = Task
    /\ \A t \in Task : held[t] \in Seq(Compiled(phase[t]))
    /\ \A t \in Task : pc[t] \in {"get", "insert"} =>
        pos[t] <= Len(held[t]) /\ Rule(t).action = "incr"

\* What compile_with_tz has checked.
LEMMA CompiledRule ==
    ASSUME NEW p \in Phase, NEW def \in Compiled(p)
    PROVE  /\ def.points \in Nat /\ def.ttl \in Nat /\ def.counter \subseteq Counter
           /\ def.action = "incr" => def.counter # {}
           /\ p = "response" => def.action \in {"block", "log", "incr"}
<1>1. PICK f \in Files : CompilesFile(f) /\ def \in Range(f)
    BY DEF Compiled
<1>2. PICK i \in DOMAIN f : def = f[i]
    BY <1>1 DEF Range
<1>3. CompilesRule(def) /\ def.phase = p
    BY <1>1, <1>2 DEF CompilesFile, Compiled
<1>4. def.points \in Nat /\ def.ttl \in Nat /\ def.counter \subseteq Counter
    BY <1>2, RulesAssumption
<1> QED BY <1>3, <1>4 DEF CompilesRule

\* The rule an evaluation looks at.
LEMMA RuleCompiled ==
    ASSUME TypeOK, HeldInv, NEW t \in Task, pos[t] <= Len(held[t])
    PROVE  pos[t] \in DOMAIN held[t] /\ Rule(t) \in Compiled(phase[t])
BY DEF TypeOK, HeldInv, Rule

\* The key it bumps.
LEMMA BumpedKey ==
    ASSUME TypeOK, HeldInv, NEW t \in Task, pc[t] \in {"get", "insert"}
    PROVE  /\ Bumped(t) \in Key /\ Bumped(t) \in Rule(t).counter \X {ip[t]}
           /\ Rule(t).points \in Nat /\ Rule(t).ttl \in Nat
<1>1. Rule(t) \in Compiled(phase[t]) /\ Rule(t).action = "incr" /\ phase[t] \in Phase
    BY RuleCompiled DEF HeldInv, TypeOK
<1>2. /\ Rule(t).points \in Nat /\ Rule(t).ttl \in Nat
      /\ Rule(t).counter \subseteq Counter /\ Rule(t).counter # {}
    BY <1>1, CompiledRule
<1>3. (CHOOSE n \in Rule(t).counter : TRUE) \in Rule(t).counter
    BY <1>2
<1>4. ip[t] \in IP
    BY DEF TypeOK
<1> QED BY <1>2, <1>3, <1>4 DEF Bumped, Key

-----------------------------------------------------------------------------
(* Counters. *)

\* CounterStore::get shows a count.
LEMMA GetType ==
    ASSUME TypeOK, NEW k \in Key
    PROVE  /\ Get(store, k) \in 0..CountMax /\ Get(ideal, k) \in 0..CountMax
BY RulesAssumption DEF TypeOK, EntryType, Get

\* A saturated sum stays within its width.
LEMMA SaturatingAddType ==
    ASSUME NEW max \in Nat, NEW a \in Nat, NEW b \in Nat
    PROVE  SaturatingAdd(a, b, max) \in 0..max
BY DEF SaturatingAdd

\* A larger count stays larger when the same amount is added to it.
LEMMA SaturatingAddMonotone ==
    ASSUME NEW max \in Nat, NEW a \in 0..max, NEW c \in 0..max, a <= c, NEW b \in Nat
    PROVE  /\ SaturatingAdd(a, b, max) <= SaturatingAdd(c, b, max)
           /\ a <= SaturatingAdd(c, b, max)
BY DEF SaturatingAdd

\* A written entry is one.
LEMMA WrittenType ==
    ASSUME TypeOK, NEW a \in 0..CountMax, NEW b \in Nat, NEW ttl \in Nat
    PROVE  Entry(SaturatingAdd(a, b, CountMax), ttl) \in EntryType
<1>1. SaturatingAdd(a, b, CountMax) \in 0..CountMax
    BY SaturatingAddType, RulesAssumption
<1> QED BY <1>1, RulesAssumption DEF Entry, EntryType, TypeOK

-----------------------------------------------------------------------------
(* Types. *)

\* The initial state is typed.
LEMMA TypeInit == Init => TypeOK /\ HeldInv
<1> SUFFICES ASSUME Init PROVE TypeOK /\ HeldInv
    OBVIOUS
<1>1. 0 \in 0..CountMax /\ 0 \in 0..ScoreMax /\ 0 \in 0..MaxTime
    BY RulesAssumption
<1>2. store \in [Key -> EntryType]
    BY <1>1 DEF Init, EntryType
<1>3. \A p : <<>> \in Seq(Compiled(p))
    OBVIOUS
<1>4. TypeOK
    BY <1>1, <1>2 DEF Init, TypeOK, Phase
<1>5. HeldInv
    BY <1>3 DEF Init, HeldInv
<1> QED BY <1>4, <1>5

\* An evaluation loads compiled rules of its phase.
LEMMA OfPhaseCompiled ==
    ASSUME NEW f \in Files, CompilesFile(f), NEW p \in Phase
    PROVE  OfPhase(f, p) \in Seq(Compiled(p))
<1>1. {def \in Range(f) : def.phase = p} \subseteq Compiled(p)
    BY DEF Compiled
<1>2. OfPhase(f, p) \in Seq({def \in Range(f) : def.phase = p})
    BY SelectionAssumption
<1> HIDE DEF OfPhase
<1> QED BY <1>1, <1>2

\* The match on rule.action, without the arms that no compiled rule reaches.
LEMMA ApplyRuleCases ==
    ASSUME TypeOK, HeldInv, NEW t \in Task, ApplyRule(t)
    PROVE  \/ Rule(t).action = "block" /\ Return(t, "block")
           \/ Rule(t).action = "allow" /\ Return(t, "allow")
           \/ /\ Rule(t).action = "rate_limit" /\ phase[t] = "request"
              /\ over' = [over EXCEPT ![t] = @ \cup {pos[t]}]
              /\ out' = [out EXCEPT ![t] = "limit"]
              /\ pc' = [pc EXCEPT ![t] = "done"]
              /\ UNCHANGED <<pos, score>>
           \/ /\ Rule(t).action \in {"log", "rate_limit"}
              /\ Proceed(t) /\ UNCHANGED <<score, over>>
           \/ /\ Rule(t).action = "score" /\ phase[t] = "request"
              /\ score' = [score EXCEPT ![t] = SaturatingAdd(@, Rule(t).points, ScoreMax)]
              /\ Proceed(t) /\ UNCHANGED over
           \/ /\ Rule(t).action = "incr"
              /\ pc' = [pc EXCEPT ![t] = "get"]
              /\ UNCHANGED <<pos, score, over, out>>
<1>1. phase[t] \in Phase /\ Rule(t) \in Compiled(phase[t])
    BY RuleCompiled DEF ApplyRule, TypeOK
<1>2. phase[t] # "request" => Rule(t).action \in {"block", "log", "incr"}
    BY <1>1, CompiledRule DEF Phase
<1> QED BY <1>2, Zenon DEF ApplyRule

\* Every operation keeps the types.
LEMMA TypeStep ==
    ASSUME TypeOK, HeldInv, [Next]_vars
    PROVE  TypeOK' /\ HeldInv'
<1> USE DEF evals
<1>1. CASE Reload
  <2>1. rules' \in Files /\ CompilesFile(rules')
      BY <1>1 DEF Reload, TypeOK, HeldInv
  <2> QED BY <1>1, <2>1 DEF Reload, TypeOK, HeldInv, Rule
<1>2. CASE Tick
  <2>1. now' \in 0..MaxTime /\ straddled' \subseteq Key
      BY <1>2, RulesAssumption DEF Tick, TypeOK
  <2> QED BY <1>2, <2>1 DEF Tick, TypeOK, HeldInv, Rule
<1>3. ASSUME NEW t \in Task, Load(t)
      PROVE  TypeOK' /\ HeldInv'
  <2>1. PICK p \in Phase : /\ phase' = [phase EXCEPT ![t] = p]
                           /\ held' = [held EXCEPT ![t] = OfPhase(rules, p)]
      BY <1>3 DEF Load
  <2>2. OfPhase(rules, p) \in Seq(Compiled(p))
      BY OfPhaseCompiled DEF TypeOK, HeldInv
  <2>3. TypeOK'
      BY <1>3, <2>1 DEF Load, TypeOK
  <2>4. HeldInv'
      BY <1>3, <2>1, <2>2 DEF Load, TypeOK, HeldInv, Rule
  <2> QED BY <2>3, <2>4
<1>4. ASSUME NEW t \in Task, SkipRule(t)
      PROVE  TypeOK' /\ HeldInv'
  <2>1. TypeOK'
      BY <1>4 DEF SkipRule, TypeOK
  <2>2. HeldInv'
      BY <1>4 DEF SkipRule, TypeOK, HeldInv, Rule
  <2> QED BY <2>1, <2>2
<1>5. ASSUME NEW t \in Task, ApplyRule(t)
      PROVE  TypeOK' /\ HeldInv'
  <2>1. /\ pos[t] <= Len(held[t]) /\ hits' = [hits EXCEPT ![t] = @ \cup {pos[t]}]
        /\ log_hits' \in Nat
        /\ UNCHANGED <<now, rules, store, phase, ip, facts, held, read, ideal, raced, straddled>>
      BY <1>5 DEF ApplyRule, TypeOK
  <2>2. pos[t] \in Nat \ {0}
      BY DEF TypeOK
  <2>3. hits' \in [Task -> SUBSET Nat]
      BY <2>1, <2>2 DEF HeldInv
  <2>4. CASE Rule(t).action = "block" /\ Return(t, "block")
      BY <2>1, <2>3, <2>4 DEF Return, TypeOK, HeldInv, Rule
  <2>5. CASE Rule(t).action = "allow" /\ Return(t, "allow")
      BY <2>1, <2>3, <2>5 DEF Return, TypeOK, HeldInv, Rule
  <2>6. CASE /\ over' = [over EXCEPT ![t] = @ \cup {pos[t]}]
             /\ out' = [out EXCEPT ![t] = "limit"]
             /\ pc' = [pc EXCEPT ![t] = "done"]
             /\ UNCHANGED <<pos, score>>
      BY <2>1, <2>2, <2>3, <2>6 DEF TypeOK, HeldInv, Rule
  <2>7. CASE Proceed(t) /\ UNCHANGED <<score, over>> /\ pc[t] = "scan"
      BY <2>1, <2>2, <2>3, <2>7 DEF Proceed, TypeOK, HeldInv, Rule
  <2>8. CASE /\ score' = [score EXCEPT ![t] = SaturatingAdd(@, Rule(t).points, ScoreMax)]
             /\ Proceed(t) /\ UNCHANGED over /\ pc[t] = "scan"
    <3>1. Rule(t).points \in Nat
        BY <2>1, RuleCompiled, CompiledRule DEF TypeOK
    <3>2. SaturatingAdd(score[t], Rule(t).points, ScoreMax) \in 0..ScoreMax
      <4>1. score[t] \in Nat /\ ScoreMax \in Nat
          BY RulesAssumption DEF TypeOK
      <4> QED BY <3>1, <4>1, SaturatingAddType
    <3>3. score' \in [Task -> 0..ScoreMax]
        BY <2>8, <3>2 DEF TypeOK
    <3> QED BY <2>1, <2>2, <2>3, <2>8, <3>3, SMTT(40) DEF Proceed, TypeOK, HeldInv, Rule
  <2>9. CASE /\ Rule(t).action = "incr"
             /\ pc' = [pc EXCEPT ![t] = "get"]
             /\ UNCHANGED <<pos, score, over, out>>
      BY <2>1, <2>3, <2>9 DEF TypeOK, HeldInv, Rule
  <2>10. pc[t] = "scan"
      BY <1>5 DEF ApplyRule
  <2> QED BY <1>5, <2>4, <2>5, <2>6, <2>7, <2>8, <2>9, <2>10, ApplyRuleCases, Zenon
<1>6. ASSUME NEW t \in Task, ReadCounter(t)
      PROVE  TypeOK' /\ HeldInv'
  <2>1. Bumped(t) \in Key /\ Get(store, Bumped(t)) \in 0..CountMax
      BY <1>6, BumpedKey, GetType DEF ReadCounter
  <2>2. TypeOK'
      BY <1>6, <2>1 DEF ReadCounter, TypeOK
  <2>3. HeldInv'
      BY <1>6 DEF ReadCounter, TypeOK, HeldInv, Rule
  <2> QED BY <2>2, <2>3
<1>7. ASSUME NEW t \in Task, InsertCounter(t)
      PROVE  TypeOK' /\ HeldInv'
  <2> DEFINE k == Bumped(t)
             a == Entry(SaturatingAdd(read[t], Rule(t).points, CountMax), Rule(t).ttl)
             b == Entry(SaturatingAdd(Get(ideal, k), Rule(t).points, CountMax), Rule(t).ttl)
  <2>1. k \in Key /\ Rule(t).points \in Nat /\ Rule(t).ttl \in Nat
      BY <1>7, BumpedKey DEF InsertCounter
  <2>2. a \in EntryType /\ b \in EntryType
      BY <2>1, WrittenType, GetType DEF TypeOK
  <2>3. store' = [store EXCEPT ![k] = a] /\ ideal' = [ideal EXCEPT ![k] = b]
      BY <1>7 DEF InsertCounter
  <2> HIDE DEF a, b, k
  <2>4. store' \in [Key -> EntryType] /\ ideal' \in [Key -> EntryType]
      BY <2>2, <2>3 DEF TypeOK
  <2>5. TypeOK'
      BY <1>7, <2>4 DEF InsertCounter, TypeOK
  <2>6. HeldInv'
      BY <1>7 DEF InsertCounter, TypeOK, HeldInv, Rule
  <2> QED BY <2>5, <2>6
<1>8. ASSUME NEW t \in Task, Conclude(t)
      PROVE  TypeOK' /\ HeldInv'
  <2>1. TypeOK'
      BY <1>8 DEF Conclude, TypeOK
  <2>2. HeldInv'
      BY <1>8 DEF Conclude, TypeOK, HeldInv, Rule
  <2> QED BY <2>1, <2>2
<1>9. CASE UNCHANGED vars
    BY <1>9 DEF vars, TypeOK, HeldInv, Rule
<1> QED
    BY <1>1, <1>2, <1>3, <1>4, <1>5, <1>6, <1>7, <1>8, <1>9 DEF Next

\* The engine's state stays within its types, the counters within their width.
THEOREM TypeCorrect == Spec => []TypeOK
<1> QED BY TypeInit, TypeStep, PTL DEF Spec

-----------------------------------------------------------------------------
(* Exact counters and races. *)

\* As long as no window of the key ended inside a bump, the counter and its ideal
\* expire together and the evaluations between read and insert have read no more than
\* the ideal holds.
LoseInv(k) ==
    /\ store[k].dies = ideal[k].dies /\ store[k].count <= ideal[k].count
    /\ \A t \in Bumping(k) : read[t] <= Get(ideal, k)

\* As long as, besides, no two bumps of the key overlapped, there is at most one
\* such evaluation, and it has read what the ideal holds.
ExactInv(k) ==
    /\ store[k] = ideal[k]
    /\ \A t \in Bumping(k) : read[t] = Get(ideal, k)
    /\ \A t, u \in Bumping(k) : t = u

CountInv ==
    /\ \A k \in Key \ straddled : LoseInv(k)
    /\ \A k \in Key \ (raced \cup straddled) : ExactInv(k)

\* A step that neither starts nor ends a bump leaves the bumps as they are.
LEMMA BumpsKept ==
    ASSUME NEW k,
           \A u \in Task : pc'[u] = "insert" <=> pc[u] = "insert",
           \A u \in Task : pc[u] = "insert" => held'[u] = held[u] /\ pos'[u] = pos[u],
           ip' = ip
    PROVE  Bumping(k)' = Bumping(k)
BY DEF Bumping, Bumped, Rule

\* Then nothing about the counters changes.
LEMMA CountsKept ==
    ASSUME CountInv,
           \A u \in Task : pc'[u] = "insert" <=> pc[u] = "insert",
           \A u \in Task : pc[u] = "insert" => held'[u] = held[u] /\ pos'[u] = pos[u],
           UNCHANGED <<now, ip, store, ideal, read, raced, straddled>>
    PROVE  CountInv'
<1>1. \A k : Bumping(k)' = Bumping(k) /\ Get(ideal, k)' = Get(ideal, k)
    BY BumpsKept DEF Get
<1>2. \A k : (LoseInv(k)' <=> LoseInv(k)) /\ (ExactInv(k)' <=> ExactInv(k))
    BY <1>1 DEF LoseInv, ExactInv
<1> QED BY <1>2 DEF CountInv

\* cache.get: the evaluation joins those that bump the key.
LEMMA ReadCounterCounts ==
    ASSUME TypeOK, HeldInv, CountInv, NEW t \in Task, ReadCounter(t)
    PROVE  CountInv'
<1> DEFINE key == Bumped(t)
<1>1. key \in Key
    BY BumpedKey DEF ReadCounter
<1>2. /\ UNCHANGED <<now, ip, held, pos, store, ideal, straddled>>
      /\ read' = [read EXCEPT ![t] = Get(store, key)]
      /\ pc' = [pc EXCEPT ![t] = "insert"] /\ pc[t] = "get"
      /\ raced' = IF Bumping(key) = {} THEN raced ELSE raced \cup {key}
    BY DEF ReadCounter
<1>3. \A k : Bumping(k)' = IF k = key THEN Bumping(k) \cup {t} ELSE Bumping(k)
    BY <1>2 DEF Bumping, Bumped, Rule, TypeOK
<1>4. \A k : /\ t \notin Bumping(k) /\ Get(ideal, k)' = Get(ideal, k)
             /\ \A u \in Bumping(k) : u \in Task /\ read'[u] = read[u]
    BY <1>2 DEF Bumping, Get, TypeOK
<1>5. read'[t] = Get(store, key)
    BY <1>2 DEF TypeOK
<1>6. ASSUME NEW k \in Key \ straddled'
      PROVE  LoseInv(k)'
  <2>1. LoseInv(k)
      BY <1>2 DEF CountInv
  <2>2. Get(store, k) <= Get(ideal, k)
      BY <2>1, GetType DEF LoseInv, Get, TypeOK, EntryType
  <2> QED BY <1>2, <1>3, <1>4, <1>5, <2>1, <2>2 DEF LoseInv
<1>7. ASSUME NEW k \in Key \ (raced' \cup straddled')
      PROVE  ExactInv(k)'
  <2>1. ExactInv(k) /\ (k = key => Bumping(k) = {})
      BY <1>2 DEF CountInv
  <2>2. Get(store, k) = Get(ideal, k)
      BY <2>1 DEF ExactInv, Get
  <2> QED BY <1>2, <1>3, <1>4, <1>5, <2>1, <2>2 DEF ExactInv
<1> QED BY <1>6, <1>7 DEF CountInv

\* cache.insert: the evaluation leaves them; what it writes is what it read and
\* the amount.
LEMMA InsertCounterCounts ==
    ASSUME TypeOK, HeldInv, CountInv, NEW t \in Task, InsertCounter(t)
    PROVE  CountInv'
<1>0. PICK key : key = Bumped(t)
    OBVIOUS
<1> DEFINE n == Rule(t).points
           mine == SaturatingAdd(read[t], n, CountMax)
           meant == SaturatingAdd(Get(ideal, key), n, CountMax)
<1>1. key \in Key /\ n \in Nat /\ Rule(t).ttl \in Nat
    BY <1>0, BumpedKey DEF InsertCounter
<1>2. /\ UNCHANGED <<now, ip, held, read, raced, straddled>>
      /\ store' = [store EXCEPT ![key] = Entry(mine, Rule(t).ttl)]
      /\ ideal' = [ideal EXCEPT ![key] = Entry(meant, Rule(t).ttl)]
      /\ pc' = [pc EXCEPT ![t] = "scan"] /\ pc[t] = "insert"
      /\ pos' = [pos EXCEPT ![t] = @ + 1]
    BY <1>0 DEF InsertCounter
<1>3. t \in Bumping(key)
    BY <1>0, <1>2 DEF Bumping
<1>4. \A k : Bumping(k)' = Bumping(k) \ {t}
    BY <1>2 DEF Bumping, Bumped, Rule, TypeOK
<1>5. read[t] \in 0..CountMax /\ Get(ideal, key) \in 0..CountMax
    BY <1>1, GetType DEF TypeOK
<1>6. Entry(meant, Rule(t).ttl).dies > now /\ now \in Nat
    BY <1>1, RulesAssumption DEF Entry, TypeOK
<1>7. Get(ideal, key)' = meant
  <2>1. ideal'[key] = Entry(meant, Rule(t).ttl) /\ now' = now
      BY <1>1, <1>2 DEF TypeOK
  <2>2. Entry(meant, Rule(t).ttl).count = meant
      BY DEF Entry
  <2>3. Get(ideal, key)' = IF now' < ideal'[key].dies THEN ideal'[key].count ELSE 0
      BY DEF Get
  <2> HIDE DEF meant
  <2> QED BY <1>6, <2>1, <2>2, <2>3
<1>8. \A k \in Key \ {key} : store'[k] = store[k] /\ ideal'[k] = ideal[k] /\ Get(ideal, k)' = Get(ideal, k)
    BY <1>2 DEF Get, TypeOK
<1>9. \A k \in Key \ {key} : t \notin Bumping(k)
    BY <1>0 DEF Bumping
<1>10. ASSUME NEW k \in Key \ straddled'
       PROVE  LoseInv(k)'
  <2>1. LoseInv(k)
      BY <1>2 DEF CountInv
  <2>2. CASE k # key
      BY <1>2, <1>4, <1>8, <1>9, <2>1, <2>2 DEF LoseInv
  <2>3. CASE k = key
    <3>1. read[t] <= Get(ideal, key)
        BY <1>3, <2>1, <2>3 DEF LoseInv
    <3>2. mine <= meant /\ \A u \in Bumping(key) : read[u] <= meant
      <4>1. \A u \in Bumping(key) : read[u] \in 0..CountMax /\ read[u] <= Get(ideal, key)
          BY <2>1, <2>3 DEF LoseInv, Bumping, TypeOK
      <4> QED BY <1>1, <1>5, <3>1, <4>1, SaturatingAddMonotone, RulesAssumption
    <3>3. store'[key] = Entry(mine, Rule(t).ttl) /\ ideal'[key] = Entry(meant, Rule(t).ttl)
        BY <1>1, <1>2 DEF TypeOK
    <3>4. /\ Entry(mine, Rule(t).ttl).dies = Entry(meant, Rule(t).ttl).dies
          /\ Entry(mine, Rule(t).ttl).count = mine /\ Entry(meant, Rule(t).ttl).count = meant
        BY DEF Entry
    <3>5. store'[key].dies = ideal'[key].dies /\ store'[key].count <= ideal'[key].count
      <4> HIDE DEF mine, meant
      <4> QED BY <3>2, <3>3, <3>4
    <3>6. \A u \in Bumping(key)' : read'[u] <= Get(ideal, key)'
        BY <1>2, <1>4, <1>7, <3>2
    <3> HIDE DEF mine, meant
    <3> QED BY <2>3, <3>5, <3>6 DEF LoseInv
  <2> QED BY <2>2, <2>3
<1>11. ASSUME NEW k \in Key \ (raced' \cup straddled')
       PROVE  ExactInv(k)'
  <2>1. ExactInv(k)
      BY <1>2 DEF CountInv
  <2>2. CASE k # key
      BY <1>2, <1>4, <1>8, <1>9, <2>1, <2>2 DEF ExactInv
  <2>3. CASE k = key
    <3>1. read[t] = Get(ideal, key)
        BY <1>3, <2>1, <2>3 DEF ExactInv
    <3>2. Bumping(k)' = {}
        BY <1>3, <1>4, <2>1, <2>3 DEF ExactInv
    <3>3. store'[key] = ideal'[key]
        BY <1>1, <1>2, <3>1 DEF TypeOK
    <3> QED BY <2>3, <3>2, <3>3 DEF ExactInv
  <2> QED BY <2>2, <2>3
<1> QED BY <1>10, <1>11 DEF CountInv

\* The clock marks the keys whose window ends while they are being bumped; of the
\* others, what a bump has read still counts.
LEMMA TickCounts ==
    ASSUME TypeOK, CountInv, Tick
    PROVE  CountInv'
<1>1. /\ UNCHANGED <<ip, pc, held, pos, store, ideal, read, raced>>
      /\ straddled' = straddled \cup {k \in Key : Bumping(k) # {} /\ WindowEnds(k)}
      /\ now' = now + 1
    BY DEF Tick, evals
<1>2. \A k : Bumping(k)' = Bumping(k)
    BY <1>1, BumpsKept
<1>3. ASSUME NEW k \in Key \ straddled', NEW t \in Bumping(k)
      PROVE  Get(ideal, k)' = Get(ideal, k)
  <2>1. store[k].dies # now + 1 /\ store[k].dies = ideal[k].dies
      BY <1>1, <1>3 DEF WindowEnds, CountInv, LoseInv
  <2>2. now \in Nat /\ ideal[k].dies \in Nat
      BY RulesAssumption DEF TypeOK, EntryType
  <2>3. now' < ideal[k].dies <=> now < ideal[k].dies
      BY <1>1, <2>1, <2>2
  <2> QED BY <1>1, <2>3 DEF Get
<1>4. ASSUME NEW k \in Key \ straddled'
      PROVE  LoseInv(k)'
  <2>1. LoseInv(k)
      BY <1>1 DEF CountInv
  <2> QED BY <1>1, <1>2, <1>3, <2>1 DEF LoseInv
<1>5. ASSUME NEW k \in Key \ (raced' \cup straddled')
      PROVE  ExactInv(k)'
  <2>1. ExactInv(k)
      BY <1>1 DEF CountInv
  <2> QED BY <1>1, <1>2, <1>3, <2>1 DEF ExactInv
<1> QED BY <1>4, <1>5 DEF CountInv

\* Every operation keeps the counters' relation to their ideal.
LEMMA CountStep ==
    ASSUME TypeOK, HeldInv, CountInv, [Next]_vars
    PROVE  CountInv'
<1>1. CASE Reload
    BY <1>1, CountsKept DEF Reload, evals
<1>2. CASE Tick
    BY <1>2, TickCounts
<1>3. ASSUME NEW t \in Task, Load(t)
      PROVE  CountInv'
    BY <1>3, CountsKept DEF Load, TypeOK, HeldInv
<1>4. ASSUME NEW t \in Task, SkipRule(t)
      PROVE  CountInv'
    BY <1>4, CountsKept DEF SkipRule, TypeOK
<1>5. ASSUME NEW t \in Task, ApplyRule(t)
      PROVE  CountInv'
  <2>1. /\ pc[t] = "scan"
        /\ UNCHANGED <<now, ip, held, store, ideal, read, raced, straddled>>
      BY <1>5 DEF ApplyRule
  <2>2. /\ \A u \in Task \ {t} : pc'[u] = pc[u] /\ pos'[u] = pos[u]
        /\ pc'[t] # "insert"
      BY <1>5, <2>1, ApplyRuleCases DEF Return, Proceed, TypeOK
  <2> QED BY <2>1, <2>2, CountsKept
<1>6. ASSUME NEW t \in Task, ReadCounter(t)
      PROVE  CountInv'
    BY <1>6, ReadCounterCounts
<1>7. ASSUME NEW t \in Task, InsertCounter(t)
      PROVE  CountInv'
    BY <1>7, InsertCounterCounts
<1>8. ASSUME NEW t \in Task, Conclude(t)
      PROVE  CountInv'
    BY <1>8, CountsKept DEF Conclude, TypeOK
<1>9. CASE UNCHANGED vars
    BY <1>9, CountsKept DEF vars, evals
<1> QED
    BY <1>1, <1>2, <1>3, <1>4, <1>5, <1>6, <1>7, <1>8, <1>9 DEF Next

\* Both counter properties follow.
LEMMA CountMeans ==
    ASSUME TypeOK, CountInv
    PROVE  CountsExact /\ RacesOnlyLose
<1>1. ASSUME NEW k \in Key \ (raced \cup straddled)
      PROVE  Get(store, k) = Get(ideal, k)
    BY DEF CountInv, ExactInv, Get
<1>2. ASSUME NEW k \in Key \ straddled
      PROVE  Get(store, k) <= Get(ideal, k)
  <2>1. LoseInv(k)
      BY DEF CountInv
  <2> QED BY <2>1, GetType DEF LoseInv, Get, TypeOK, EntryType
<1> QED BY <1>1, <1>2 DEF CountsExact, RacesOnlyLose

\* At the start nothing is counted.
LEMMA CountInit == Init => CountInv
BY DEF Init, CountInv, LoseInv, ExactInv, Bumping

\* A counter is exact unless two of its own bumps overlap or its window ends between
\* the read and the insert of one; nothing else disturbs it.
THEOREM CountersExact == Spec => []CountsExact
<1> QED BY TypeInit, TypeStep, CountInit, CountStep, CountMeans, PTL DEF Spec

\* Bumps that overlap lose increments and never invent any, unless the window ends
\* inside one.
THEOREM CountersOnlyLose == Spec => []RacesOnlyLose
<1> QED BY TypeInit, TypeStep, CountInit, CountStep, CountMeans, PTL DEF Spec

-----------------------------------------------------------------------------
(* Verdicts. *)

\* The rules of an evaluation can be summed over.
LEMMA RulesSummable ==
    ASSUME NEW p \in Phase, NEW rs \in Seq(Compiled(p))
    PROVE  /\ Summable(Scores(rs), DOMAIN rs) /\ Summable(Amounts(rs), DOMAIN rs)
           /\ DOMAIN rs = 1..Len(rs)
<1>1. DOMAIN rs = 1..Len(rs) /\ Len(rs) \in Nat
    OBVIOUS
<1>2. IsFiniteSet(1..Len(rs))
    BY <1>1, FS_Interval
<1>3. \A i \in DOMAIN rs : rs[i].points \in Nat
    BY CompiledRule
<1>4. \A i \in DOMAIN rs : Scores(rs)[i] \in Nat /\ Amounts(rs)[i] \in Nat
    BY <1>3 DEF Scores, Amounts
<1> QED BY <1>1, <1>2, <1>4 DEF Summable

\* One more match adds what its rule scores.
LEMMA PointsGrow ==
    ASSUME NEW f, NEW D, Summable(f, D), NEW H \in SUBSET D, NEW i \in D \ H
    PROVE  /\ SumFunctionOnSet(f, H) \in Nat /\ f[i] \in Nat
           /\ SumFunctionOnSet(f, H \cup {i}) = SumFunctionOnSet(f, H) + f[i]
<1>1. Summable(f, H) /\ Summable(f, H \cup {i})
    BY SummablePart
<1>2. SumFunctionOnSet(f, H) \in Nat
    BY <1>1, SumRemove
<1>3. f[i] \in Nat
    BY DEF Summable
<1>4. SumFunctionOnSet(f, H \cup {i}) = f[i] + SumFunctionOnSet(f, (H \cup {i}) \ {i})
    BY <1>1, SumRemove
<1>5. (H \cup {i}) \ {i} = H
    OBVIOUS
<1>6. SumFunctionOnSet(f, H \cup {i}) = f[i] + SumFunctionOnSet(f, H)
    BY <1>4, <1>5
<1> QED BY <1>2, <1>3, <1>6

\* The score saturates at the width of score_total.
Capped(n) == IF n > ScoreMax THEN ScoreMax ELSE n

\* Saturating at each step saturates the sum.
LEMMA CappedAdd ==
    ASSUME NEW a \in Nat, NEW b \in Nat
    PROVE  SaturatingAdd(Capped(a), b, ScoreMax) = Capped(a + b)
BY RulesAssumption DEF SaturatingAdd, Capped

\* Until an evaluation ends no rule has decided, and the score is that of the
\* matches so far; when it ends, the outcome is the reference verdict.
ScanInv(t) ==
    /\ hits[t] \subseteq DOMAIN held[t] /\ over[t] \subseteq hits[t]
    /\ pc[t] = "idle" => pos[t] = 1 /\ hits[t] = {} /\ score[t] = 0
    /\ pc[t] = "scan" => \A i \in hits[t] : i < pos[t]
    /\ pc[t] \in {"get", "insert"} => pos[t] \in hits[t] /\ \A i \in hits[t] : i <= pos[t]
    /\ pc[t] # "done" =>
        Decisive(t) = {} /\ (phase[t] = "request" => score[t] = Capped(Points(t)))
    /\ pc[t] = "done" => out[t] = Reference(t)

\* An evaluation the step is not about.
Same(u) ==
    /\ pc'[u] = pc[u] /\ phase'[u] = phase[u] /\ held'[u] = held[u] /\ pos'[u] = pos[u]
    /\ score'[u] = score[u] /\ out'[u] = out[u] /\ hits'[u] = hits[u] /\ over'[u] = over[u]

\* The others are such.
LEMMA OthersSame ==
    ASSUME TypeOK, HeldInv, NEW t \in Task, NEW u \in Task \ {t},
           \/ Load(t) \/ SkipRule(t) \/ ApplyRule(t)
           \/ ReadCounter(t) \/ InsertCounter(t) \/ Conclude(t)
    PROVE  Same(u)
<1>1. CASE ApplyRule(t)
    BY <1>1, ApplyRuleCases DEF ApplyRule, Return, Proceed, Same, TypeOK, HeldInv
<1>2. CASE Load(t)
    BY <1>2 DEF Load, Same, TypeOK, HeldInv
<1>3. CASE SkipRule(t) \/ ReadCounter(t) \/ InsertCounter(t) \/ Conclude(t)
    BY <1>3 DEF SkipRule, ReadCounter, InsertCounter, Conclude, Same, TypeOK
<1> QED BY <1>1, <1>2, <1>3

\* It stays as it was.
LEMMA SameScan ==
    ASSUME NEW u \in Task, ScanInv(u), Same(u)
    PROVE  ScanInv(u)'
<1>1. Decisive(u)' = Decisive(u)
    BY DEF Same, Decisive
<1>2. Points(u)' = Points(u)
    BY DEF Same, Points
<1>3. Reference(u)' = Reference(u)
    BY <1>1, <1>2 DEF Same, Reference
<1> QED BY <1>1, <1>2, <1>3 DEF ScanInv, Same

\* Loading the rules starts with no match.
LEMMA LoadScan ==
    ASSUME TypeOK, HeldInv, NEW t \in Task, ScanInv(t), Load(t)
    PROVE  ScanInv(t)'
<1>1. /\ hits'[t] = {} /\ over'[t] = {} /\ score'[t] = 0 /\ pc'[t] = "scan"
      /\ phase'[t] \in Phase /\ held'[t] \in Seq(Compiled(phase'[t]))
  <2>1. HeldInv' /\ TypeOK'
      BY TypeStep DEF Next
  <2> QED BY <2>1 DEF ScanInv, Load, TypeOK, HeldInv
<1>2. Points(t)' = 0
  <2>1. Points(t)' = SumFunctionOnSet(Scores(held'[t]), {})
      BY <1>1 DEF Points
  <2> QED BY <1>1, <2>1, RulesSummable, SumRemove
<1>3. Capped(0) = 0
    BY RulesAssumption DEF Capped
<1>4. Decisive(t)' = {}
    BY <1>1 DEF Decisive
<1> QED BY <1>1, <1>2, <1>3, <1>4 DEF ScanInv

\* A match either decides, or scores, or does neither.
LEMMA ApplyRuleScan ==
    ASSUME TypeOK, HeldInv, NEW t \in Task, ScanInv(t), ApplyRule(t)
    PROVE  ScanInv(t)'
<1>1. /\ pc[t] = "scan" /\ pos[t] \in DOMAIN held[t] /\ pos[t] \in Nat \ {0}
      /\ phase'[t] = phase[t] /\ held' = held /\ hits'[t] = hits[t] \cup {pos[t]}
      /\ hits[t] \subseteq DOMAIN held[t]
    BY RuleCompiled DEF ApplyRule, TypeOK, HeldInv, ScanInv
<1>2. /\ pos[t] \notin hits[t] /\ Decisive(t) = {} /\ over[t] = {}
      /\ hits[t] \in SUBSET Nat /\ \A i \in hits[t] : i < pos[t]
    BY <1>1 DEF ScanInv, Decisive, HeldInv
<1>3. phase[t] = "request" =>
        /\ score[t] = Capped(Points(t)) /\ Points(t) \in Nat /\ Scores(held[t])[pos[t]] \in Nat
        /\ Points(t)' = Points(t) + Scores(held[t])[pos[t]]
  <2>1. Summable(Scores(held[t]), DOMAIN held[t])
      BY RulesSummable DEF TypeOK, HeldInv
  <2>2. hits[t] \in SUBSET DOMAIN held[t] /\ pos[t] \in DOMAIN held[t] \ hits[t]
      BY <1>1, <1>2 DEF ScanInv
  <2>3. Points(t)' = SumFunctionOnSet(Scores(held[t]), hits[t] \cup {pos[t]})
      BY <1>1 DEF Points
  <2>4. /\ Points(t) \in Nat /\ Scores(held[t])[pos[t]] \in Nat
        /\ Points(t)' = Points(t) + Scores(held[t])[pos[t]]
      BY <2>1, <2>2, <2>3, PointsGrow, ZenonT(40) DEF Points
  <2> QED BY <1>1, <2>4 DEF ScanInv
<1>4. Scores(held[t])[pos[t]] = IF Rule(t).action = "score" THEN Rule(t).points ELSE 0
    BY <1>1 DEF Scores, Rule
<1>5. Min({pos[t]}) = pos[t]
    BY <1>1 DEF Min
<1>6. ASSUME Rule(t).action \in {"block", "allow"}, Return(t, Rule(t).action)
      PROVE  ScanInv(t)'
  <2>1. over'[t] = {} /\ pc'[t] = "done" /\ out'[t] = Rule(t).action
      BY <1>2, <1>6 DEF Return, TypeOK
  <2>2. Decisive(t)' = {pos[t]}
      BY <1>1, <1>2, <1>6, <2>1 DEF Decisive, Rule
  <2>3. Reference(t)' = Rule(t).action
      BY <1>1, <1>5, <1>6, <2>2 DEF Reference, Rule
  <2> QED BY <1>1, <2>1, <2>3 DEF ScanInv
<1>7. ASSUME Rule(t).action = "rate_limit", over' = [over EXCEPT ![t] = @ \cup {pos[t]}],
             out' = [out EXCEPT ![t] = "limit"], pc' = [pc EXCEPT ![t] = "done"]
      PROVE  ScanInv(t)'
  <2>1. over'[t] = {pos[t]} /\ pc'[t] = "done" /\ out'[t] = "limit"
      BY <1>2, <1>7 DEF TypeOK, HeldInv
  <2>2. Decisive(t)' = {pos[t]}
      BY <1>1, <1>2, <1>7, <2>1 DEF Decisive, Rule
  <2>3. Reference(t)' = "limit"
      BY <1>1, <1>5, <1>7, <2>2 DEF Reference, Rule
  <2> QED BY <1>1, <2>1, <2>3 DEF ScanInv
<1>8. ASSUME Rule(t).action \in {"log", "rate_limit", "score", "incr"}, over' = over
      PROVE  Decisive(t)' = {}
    BY <1>1, <1>2, <1>8 DEF Decisive, Rule
<1>9. CASE Rule(t).action \in {"log", "rate_limit"} /\ Proceed(t) /\ UNCHANGED <<score, over>>
  <2>1. pos'[t] = pos[t] + 1 /\ pc'[t] = "scan" /\ over'[t] = {}
      BY <1>1, <1>2, <1>9 DEF Proceed, TypeOK
  <2>2. phase'[t] = "request" => score'[t] = Capped(Points(t)')
      BY <1>1, <1>3, <1>4, <1>9
  <2>3. \A i \in hits'[t] : i < pos'[t]
      BY <1>1, <1>2, <2>1
  <2> QED BY <1>1, <1>8, <1>9, <2>1, <2>2, <2>3 DEF ScanInv
<1>10. CASE /\ Rule(t).action = "score" /\ phase[t] = "request"
            /\ score' = [score EXCEPT ![t] = SaturatingAdd(@, Rule(t).points, ScoreMax)]
            /\ Proceed(t) /\ UNCHANGED over
  <2>1. pos'[t] = pos[t] + 1 /\ pc'[t] = "scan" /\ over'[t] = {}
      BY <1>1, <1>2, <1>10 DEF Proceed, TypeOK
  <2>2. score'[t] = SaturatingAdd(Capped(Points(t)), Rule(t).points, ScoreMax)
      BY <1>3, <1>10 DEF TypeOK
  <2>3. score'[t] = Capped(Points(t)')
      BY <1>3, <1>4, <1>10, <2>2, CappedAdd
  <2>4. \A i \in hits'[t] : i < pos'[t]
      BY <1>1, <1>2, <2>1
  <2> QED BY <1>1, <1>8, <1>10, <2>1, <2>3, <2>4 DEF ScanInv
<1>11. CASE /\ Rule(t).action = "incr" /\ pc' = [pc EXCEPT ![t] = "get"]
            /\ UNCHANGED <<pos, score, over, out>>
  <2>1. pc'[t] = "get" /\ over'[t] = {}
      BY <1>2, <1>11 DEF TypeOK
  <2>2. phase'[t] = "request" => score'[t] = Capped(Points(t)')
      BY <1>1, <1>3, <1>4, <1>11
  <2>3. pos'[t] \in hits'[t] /\ \A i \in hits'[t] : i <= pos'[t]
      BY <1>1, <1>2, <1>11
  <2> QED BY <1>1, <1>8, <1>11, <2>1, <2>2, <2>3 DEF ScanInv
<1> QED BY <1>6, <1>7, <1>9, <1>10, <1>11, ApplyRuleCases

\* The threshold decides as the sum of the points does.
LEMMA ConcludeScan ==
    ASSUME TypeOK, HeldInv, NEW t \in Task, ScanInv(t), Conclude(t)
    PROVE  ScanInv(t)'
<1>1. /\ pc[t] = "scan" /\ pc'[t] = "done" /\ UNCHANGED <<phase, held, hits, over>>
      /\ out'[t] = IF phase[t] = "request" /\ threshold > 0 /\ score[t] >= threshold
                   THEN "block" ELSE "none"
    BY DEF Conclude, TypeOK
<1>2. Decisive(t)' = {} /\ Points(t)' = Points(t)
    BY <1>1 DEF ScanInv, Decisive, Points
<1>3. phase[t] = "request" => score[t] = Capped(Points(t)) /\ Points(t) \in Nat
  <2>1. Summable(Scores(held[t]), DOMAIN held[t])
      BY RulesSummable DEF TypeOK, HeldInv
  <2>2. Summable(Scores(held[t]), hits[t])
      BY <2>1, SummablePart DEF ScanInv
  <2> QED BY <1>1, <2>2, SumRemove DEF ScanInv, Points
<1>4. phase[t] = "request" => (score[t] >= threshold <=> Points(t) >= threshold)
    BY <1>3, RulesAssumption DEF Capped
<1> QED BY <1>1, <1>2, <1>4 DEF ScanInv, Reference

\* Every operation keeps every evaluation on the way to its reference verdict.
LEMMA ScanStep ==
    ASSUME TypeOK, HeldInv, \A t \in Task : ScanInv(t), [Next]_vars
    PROVE  (\A t \in Task : ScanInv(t))'
<1>1. CASE Reload \/ Tick \/ UNCHANGED vars
  <2>1. \A u \in Task : Same(u)
      BY <1>1 DEF Reload, Tick, vars, evals, Same
  <2> QED BY <2>1, SameScan
<1>2. ASSUME NEW t \in Task,
             \/ Load(t) \/ SkipRule(t) \/ ApplyRule(t)
             \/ ReadCounter(t) \/ InsertCounter(t) \/ Conclude(t)
      PROVE  (\A u \in Task : ScanInv(u))'
  <2>1. \A u \in Task \ {t} : Same(u)
      BY <1>2, OthersSame
  <2>2. ScanInv(t)'
    <3>1. CASE SkipRule(t) \/ InsertCounter(t)
      <4>1. /\ UNCHANGED <<phase, held, score, out, hits, over>> /\ pos'[t] = pos[t] + 1
            /\ pc[t] \in {"scan", "insert"} /\ pc'[t] = "scan" /\ pos[t] \in Nat
            /\ hits[t] \in SUBSET Nat
          BY <3>1 DEF SkipRule, InsertCounter, TypeOK, HeldInv
      <4>2. Decisive(t)' = Decisive(t) /\ Points(t)' = Points(t)
          BY <4>1 DEF Decisive, Points
      <4> QED BY <4>1, <4>2 DEF ScanInv
    <3>2. CASE ReadCounter(t)
      <4>1. /\ UNCHANGED <<phase, held, pos, score, out, hits, over>>
            /\ pc[t] = "get" /\ pc'[t] = "insert"
          BY <3>2 DEF ReadCounter, TypeOK
      <4>2. Decisive(t)' = Decisive(t) /\ Points(t)' = Points(t)
          BY <4>1 DEF Decisive, Points
      <4> QED BY <4>1, <4>2 DEF ScanInv
    <3> QED BY <1>2, <3>1, <3>2, LoadScan, ApplyRuleScan, ConcludeScan
  <2> QED BY <2>1, <2>2, SameScan
<1> QED BY <1>1, <1>2 DEF Next

\* At the start nothing has matched.
LEMMA ScanInit == Init => \A t \in Task : ScanInv(t)
<1> SUFFICES ASSUME Init, NEW t \in Task PROVE ScanInv(t)
    OBVIOUS
<1>1. /\ hits[t] = {} /\ over[t] = {} /\ score[t] = 0 /\ pc[t] = "idle" /\ pos[t] = 1
      /\ held[t] \in Seq(Compiled(phase[t])) /\ phase[t] \in Phase
    BY DEF Init, Phase
<1>2. Points(t) = 0
    BY <1>1, RulesSummable, SumRemove DEF Points
<1>3. Capped(0) = 0
    BY RulesAssumption DEF Capped
<1> QED BY <1>1, <1>2, <1>3 DEF ScanInv, Decisive

\* All evaluations are on the way to their reference verdict.
VerdictInv == \A t \in Task : ScanInv(t)

\* The loop, its early returns, its saturating score and its threshold compute the
\* reference verdict, for any rules and any interleaving with reloads and bumps.
THEOREM VerdictCorrect == Spec => []VerdictIsReference
<1>1. Init => VerdictInv
    BY ScanInit DEF VerdictInv
<1>2. TypeOK /\ HeldInv /\ VerdictInv /\ [Next]_vars => VerdictInv'
    BY ScanStep DEF VerdictInv
<1>3. VerdictInv => VerdictIsReference
    BY DEF VerdictInv, ScanInv, VerdictIsReference
<1> QED BY <1>1, <1>2, <1>3, TypeInit, TypeStep, PTL DEF Spec

-----------------------------------------------------------------------------
(* Counters and what was added to them. *)

\* What an evaluation has added to a counter: its matched bumps but the one in hand.
Pending(t) == IF pc[t] \in {"get", "insert"} THEN {pos[t]} ELSE {}
Landed(t, k) == SumFunctionOnSet(Amounts(held[t]), Bumps(t, k) \ Pending(t))
AllLanded(k) == SumFunctionOnSet([t \in Task |-> Landed(t, k)], Task)

\* No counter, and no count read for a bump, exceeds what was added, expired or not.
StoreInv ==
    \A k \in Key :
        /\ store[k].count <= AllLanded(k)
        /\ \A t \in Bumping(k) : read[t] <= AllLanded(k)

\* The bumps of an evaluation can be summed over.
LEMMA BumpsSummable ==
    ASSUME TypeOK, HeldInv, VerdictInv, NEW t \in Task, NEW k
    PROVE  /\ Summable(Amounts(held[t]), Bumps(t, k))
           /\ Summable(Amounts(held[t]), Bumps(t, k) \ Pending(t))
           /\ Landed(t, k) \in Nat /\ Added(t, k) \in Nat
<1>1. Summable(Amounts(held[t]), DOMAIN held[t])
    BY RulesSummable DEF TypeOK, HeldInv
<1>2. Bumps(t, k) \in SUBSET DOMAIN held[t]
    BY DEF VerdictInv, ScanInv, Bumps
<1>3. Bumps(t, k) \ Pending(t) \in SUBSET DOMAIN held[t]
    BY <1>2
<1>4. /\ Summable(Amounts(held[t]), Bumps(t, k))
      /\ Summable(Amounts(held[t]), Bumps(t, k) \ Pending(t))
    BY <1>1, <1>2, <1>3, SummablePart
<1> QED BY <1>4, SumRemove DEF Landed, Added

\* So can the evaluations.
LEMMA LandedSummable ==
    ASSUME TypeOK, HeldInv, VerdictInv, NEW k
    PROVE  /\ Summable([t \in Task |-> Landed(t, k)], Task)
           /\ Summable([t \in Task |-> Added(t, k)], Task)
           /\ AllLanded(k) \in Nat
<1>1. \A t \in Task : Landed(t, k) \in Nat /\ Added(t, k) \in Nat
    BY BumpsSummable
<1>2. /\ Summable([t \in Task |-> Landed(t, k)], Task)
      /\ Summable([t \in Task |-> Added(t, k)], Task)
    BY <1>1, RulesAssumption DEF Summable
<1> QED BY <1>2, SumRemove DEF AllLanded

\* What has been added is part of what matched.
LEMMA LandedAtMostAdded ==
    ASSUME TypeOK, HeldInv, VerdictInv, NEW t \in Task, NEW k
    PROVE  Landed(t, k) <= Added(t, k)
<1> DEFINE f == Amounts(held[t])
           B == Bumps(t, k)
<1>1. Summable(f, B) /\ Landed(t, k) \in Nat /\ Added(t, k) \in Nat
    BY BumpsSummable
<1>2. CASE pos[t] \in B
  <2>1. SumFunctionOnSet(f, B) = f[pos[t]] + SumFunctionOnSet(f, B \ {pos[t]}) /\ f[pos[t]] \in Nat
      BY <1>1, <1>2, SumRemove DEF Summable
  <2>2. SumFunctionOnSet(f, B \ {pos[t]}) \in Nat
      BY <1>1, SummablePart, SumRemove
  <2>3. B \ Pending(t) = B \/ B \ Pending(t) = B \ {pos[t]}
      BY DEF Pending
  <2> HIDE DEF f, B
  <2>4. Landed(t, k) = SumFunctionOnSet(f, B) \/ Landed(t, k) = SumFunctionOnSet(f, B \ {pos[t]})
      BY <2>3 DEF Landed, f, B
  <2>5. Added(t, k) = SumFunctionOnSet(f, B)
      BY DEF Added, f, B
  <2> QED BY <1>1, <2>1, <2>2, <2>4, <2>5
<1>3. CASE pos[t] \notin B
  <2>1. B \ Pending(t) = B
      BY <1>3 DEF Pending
  <2>2. Landed(t, k) = Added(t, k)
      BY <2>1 DEF Landed, Added
  <2> QED BY <1>1, <2>2
<1> QED BY <1>2, <1>3

\* An evaluation the step is not about has added what it had.
LEMMA SameLanded ==
    ASSUME NEW u \in Task, NEW k, Same(u), ip' = ip
    PROVE  Landed(u, k)' = Landed(u, k)
<1>1. Bumps(u, k)' = Bumps(u, k) /\ Pending(u)' = Pending(u)
    BY DEF Same, Bumps, Pending
<1>2. held'[u] = held[u]
    BY DEF Same
<1> QED BY <1>1, <1>2 DEF Landed

\* Nor has one that starts, passes a rule or matches it added anything.
LEMMA ScanLanded ==
    ASSUME TypeOK, HeldInv, VerdictInv, NEW t \in Task, NEW k,
           \/ Load(t) \/ SkipRule(t) \/ ApplyRule(t) \/ ReadCounter(t) \/ Conclude(t)
    PROVE  Landed(t, k)' = Landed(t, k)
<1>1. CASE Load(t)
  <2>1. hits[t] = {} /\ hits'[t] = {} /\ phase[t] \in Phase /\ held[t] \in Seq(Compiled(phase[t]))
      BY <1>1 DEF Load, VerdictInv, ScanInv, TypeOK, HeldInv
  <2>2. phase'[t] \in Phase /\ held'[t] \in Seq(Compiled(phase'[t]))
    <3>1. TypeOK' /\ HeldInv'
        BY <1>1, TypeStep DEF Next
    <3> QED BY <3>1 DEF TypeOK, HeldInv
  <2>3. Bumps(t, k) \ Pending(t) = {} /\ (Bumps(t, k) \ Pending(t))' = {}
      BY <2>1 DEF Bumps
  <2>4. SumFunctionOnSet(Amounts(held[t]), {}) = 0 /\ SumFunctionOnSet(Amounts(held'[t]), {}) = 0
      BY <2>1, <2>2, RulesSummable, SumRemove
  <2> QED BY <2>3, <2>4 DEF Landed
<1>2. CASE SkipRule(t) \/ ReadCounter(t) \/ Conclude(t)
  <2>1. /\ UNCHANGED <<held, hits, ip>> /\ Pending(t)' = Pending(t)
      BY <1>2 DEF SkipRule, ReadCounter, Conclude, Pending, TypeOK
  <2>2. Bumps(t, k)' = Bumps(t, k)
      BY <2>1 DEF Bumps
  <2> QED BY <2>1, <2>2 DEF Landed
<1>3. CASE ApplyRule(t)
  <2>1. /\ pc[t] = "scan" /\ UNCHANGED <<held, ip>> /\ hits'[t] = hits[t] \cup {pos[t]}
        /\ pos[t] \in Nat
      BY <1>3 DEF ApplyRule, HeldInv, TypeOK
  <2>2. pos[t] \notin hits[t]
      BY <2>1 DEF VerdictInv, ScanInv
  <2>3. Pending(t) = {} /\ Pending(t)' = IF Rule(t).action = "incr" THEN {pos[t]} ELSE {}
      BY <1>3, <2>1, ApplyRuleCases DEF Return, Proceed, Pending, TypeOK
  <2>4. (Bumps(t, k) \ Pending(t))' = Bumps(t, k) \ Pending(t)
      BY <2>1, <2>2, <2>3 DEF Bumps, Rule
  <2> QED BY <2>1, <2>4 DEF Landed
<1> QED BY <1>1, <1>2, <1>3

\* Inserting adds the amount to the key that is bumped, and takes nothing away.
LEMMA InsertLanded ==
    ASSUME TypeOK, HeldInv, VerdictInv, NEW t \in Task, InsertCounter(t), NEW k
    PROVE  /\ Landed(t, k)' \in Nat /\ Landed(t, k)' >= Landed(t, k)
           /\ k = Bumped(t) => Landed(t, k)' = Landed(t, k) + Rule(t).points
<1> DEFINE f == Amounts(held[t])
           B == Bumps(t, k)
<1>1. /\ pc[t] = "insert" /\ pc'[t] = "scan" /\ UNCHANGED <<held, hits, ip>>
      /\ pos[t] \in hits[t] /\ pos[t] \in DOMAIN held[t] /\ Rule(t).action = "incr"
    BY DEF InsertCounter, VerdictInv, ScanInv, TypeOK, HeldInv
<1>2. Pending(t) = {pos[t]} /\ Pending(t)' = {} /\ Bumps(t, k)' = B
    BY <1>1 DEF Pending, Bumps
<1>3. Landed(t, k) = SumFunctionOnSet(f, B \ {pos[t]}) /\ Landed(t, k) \in Nat
    BY <1>2, BumpsSummable DEF Landed
<1>4. Landed(t, k)' = SumFunctionOnSet(f, B)
  <2>1. (Bumps(t, k) \ Pending(t))' = B
      BY <1>2
  <2> QED BY <1>1, <2>1 DEF Landed
<1>5. Summable(f, B)
    BY BumpsSummable
<1>6. CASE pos[t] \in B
  <2>1. f[pos[t]] \in Nat /\ SumFunctionOnSet(f, B) = f[pos[t]] + SumFunctionOnSet(f, B \ {pos[t]})
      BY <1>5, <1>6, SumRemove DEF Summable
  <2>2. f[pos[t]] = Rule(t).points
      BY <1>1 DEF Amounts, Rule
  <2> HIDE DEF f, B
  <2> QED BY <1>3, <1>4, <2>1, <2>2
<1>7. CASE pos[t] \notin B
  <2>1. k # Bumped(t)
      BY <1>1, <1>7, BumpedKey DEF Bumps, Rule
  <2>2. B \ {pos[t]} = B
      BY <1>7
  <2>3. Landed(t, k)' = Landed(t, k)
      BY <1>3, <1>4, <2>2
  <2> QED BY <1>3, <2>1, <2>3
<1> QED BY <1>6, <1>7

\* A step in which no evaluation adds anything, starts a bump or ends one.
LEMMA StoreKept ==
    ASSUME StoreInv, \A u \in Task, k \in Key : Landed(u, k)' = Landed(u, k),
           \A k \in Key : Bumping(k)' = Bumping(k), UNCHANGED <<store, read>>
    PROVE  StoreInv'
<1>1. \A k \in Key : AllLanded(k)' = AllLanded(k)
    BY DEF AllLanded
<1> QED BY <1>1 DEF StoreInv

\* Only an insert changes a counter, and it writes no more than was added.
LEMMA InsertStore ==
    ASSUME TypeOK, HeldInv, VerdictInv, StoreInv, NEW t \in Task, InsertCounter(t)
    PROVE  StoreInv'
<1>0. PICK key : key = Bumped(t)
    OBVIOUS
<1> DEFINE n == Rule(t).points
           mine == SaturatingAdd(read[t], n, CountMax)
<1>1. key \in Key /\ n \in Nat /\ read[t] \in 0..CountMax
    BY <1>0, BumpedKey DEF InsertCounter, TypeOK
<1>2. /\ UNCHANGED <<now, ip, held, read>>
      /\ store' = [store EXCEPT ![key] = Entry(mine, Rule(t).ttl)]
      /\ pc' = [pc EXCEPT ![t] = "scan"] /\ pc[t] = "insert"
      /\ pos' = [pos EXCEPT ![t] = @ + 1]
    BY <1>0 DEF InsertCounter
<1>3. \A k : Bumping(k)' \subseteq Bumping(k)
    BY <1>2 DEF Bumping, Bumped, Rule, TypeOK
<1>4. \A u \in Task \ {t} : \A k : Landed(u, k)' = Landed(u, k)
    BY <1>2, OthersSame, SameLanded
<1>5. \A k : AllLanded(k) \in Nat /\ Summable([u \in Task |-> Landed(u, k)], Task)
    BY LandedSummable
<1>6. \A u \in Task : \A k : Landed(u, k) \in Nat
    BY BumpsSummable
<1>7. ASSUME NEW k \in Key
      PROVE  AllLanded(k)' \in Nat /\ AllLanded(k) <= AllLanded(k)'
  <2>1. \A u \in Task : Landed(u, k) <= Landed(u, k)' /\ Landed(u, k)' \in Nat
    <3>1. Landed(t, k)' \in Nat /\ Landed(t, k)' >= Landed(t, k)
        BY InsertLanded
    <3> QED BY <1>4, <1>6, <3>1
  <2> DEFINE f == [u \in Task |-> Landed(u, k)]
             h == [u \in Task |-> Landed(u, k)']
  <2>2. Summable(f, Task) /\ Summable(h, Task) /\ \A u \in Task : f[u] <= h[u]
      BY <1>5, <2>1 DEF Summable
  <2>3. AllLanded(k) = SumFunctionOnSet(f, Task) /\ AllLanded(k)' = SumFunctionOnSet(h, Task)
      BY DEF AllLanded
  <2> HIDE DEF f, h
  <2> QED BY <2>2, <2>3, SumMonotone, SumRemove
<1>8. AllLanded(key)' = AllLanded(key) + n
  <2>1. Landed(t, key)' = Landed(t, key) + n
      BY <1>0, InsertLanded
  <2> DEFINE f == [u \in Task |-> Landed(u, key)]
             h == [u \in Task |-> Landed(u, key)']
  <2>2. Summable(f, Task) /\ h[t] = f[t] + n /\ \A u \in Task \ {t} : h[u] = f[u]
      BY <1>4, <1>5, <2>1
  <2>3. AllLanded(key) = SumFunctionOnSet(f, Task) /\ AllLanded(key)' = SumFunctionOnSet(h, Task)
      BY DEF AllLanded
  <2> HIDE DEF f, h, n
  <2> QED BY <1>1, <2>2, <2>3, SumRaise
<1>9. \A k \in Key : \A u \in Bumping(k)' : read'[u] <= AllLanded(k)'
  <2>1. \A k \in Key : \A u \in Bumping(k) : read[u] \in Nat /\ read[u] <= AllLanded(k)
      BY RulesAssumption DEF StoreInv, Bumping, TypeOK
  <2>2. \A k \in Key : AllLanded(k)' \in Nat /\ AllLanded(k) <= AllLanded(k)' /\ AllLanded(k) \in Nat
      BY <1>5, <1>7
  <2> QED BY <1>2, <1>3, <2>1, <2>2
<1>10. ASSUME NEW k \in Key
       PROVE  store'[k].count <= AllLanded(k)'
  <2>1. CASE k = key
    <3>1. read[t] <= AllLanded(key)
        BY <1>0, <1>1, <1>2 DEF StoreInv, Bumping
    <3>2. mine <= read[t] + n
        BY <1>1, RulesAssumption DEF SaturatingAdd
    <3>3. store'[key].count = mine
        BY <1>1, <1>2 DEF TypeOK, Entry
    <3>4. mine \in Nat
        BY <1>1, RulesAssumption DEF SaturatingAdd
    <3>5. AllLanded(key) \in Nat
        BY <1>5
    <3> HIDE DEF mine, n
    <3> QED BY <1>1, <1>8, <2>1, <3>1, <3>2, <3>3, <3>4, <3>5, RulesAssumption
  <2>2. CASE k # key
    <3>1. store'[k] = store[k] /\ store[k].count \in Nat /\ store[k].count <= AllLanded(k)
        BY <1>2, <2>2, RulesAssumption DEF StoreInv, TypeOK, EntryType
    <3>2. AllLanded(k) \in Nat /\ AllLanded(k)' \in Nat /\ AllLanded(k) <= AllLanded(k)'
        BY <1>5, <1>7
    <3> QED BY <3>1, <3>2
  <2> QED BY <2>1, <2>2
<1> QED BY <1>9, <1>10 DEF StoreInv

\* Every operation keeps the counters below what was added.
LEMMA StoreStep ==
    ASSUME TypeOK, HeldInv, VerdictInv, StoreInv, [Next]_vars
    PROVE  StoreInv'
<1>1. CASE Reload \/ Tick \/ UNCHANGED vars
  <2>1. /\ \A u \in Task : Same(u)
        /\ UNCHANGED <<pc, held, pos, ip, store, read>>
      BY <1>1 DEF Reload, Tick, vars, evals, Same
  <2>2. \A k : Bumping(k)' = Bumping(k)
      BY <2>1, BumpsKept
  <2>3. \A u \in Task, k \in Key : Landed(u, k)' = Landed(u, k)
      BY <2>1, SameLanded
  <2> QED BY <2>1, <2>2, <2>3, StoreKept
<1>2. ASSUME NEW t \in Task,
             Load(t) \/ SkipRule(t) \/ ApplyRule(t) \/ ReadCounter(t) \/ Conclude(t)
      PROVE  StoreInv'
  <2>1. ip' = ip /\ store' = store
      BY <1>2 DEF Load, SkipRule, ApplyRule, ReadCounter, Conclude
  <2>2. \A u \in Task, k \in Key : Landed(u, k)' = Landed(u, k)
      BY <1>2, <2>1, OthersSame, SameLanded, ScanLanded
  <2>3. CASE ~ReadCounter(t)
    <3>1. /\ pc[t] # "insert" /\ pc'[t] # "insert" /\ read' = read
      <4>1. CASE ApplyRule(t)
          BY <4>1, ApplyRuleCases DEF ApplyRule, Return, Proceed, TypeOK
      <4> QED BY <1>2, <2>3, <4>1 DEF Load, SkipRule, Conclude, TypeOK
    <3>2. \A u \in Task \ {t} : pc'[u] = pc[u] /\ held'[u] = held[u] /\ pos'[u] = pos[u]
        BY <1>2, OthersSame DEF Same
    <3>3. \A k : Bumping(k)' = Bumping(k)
        BY <2>1, <3>1, <3>2, BumpsKept
    <3> QED BY <2>1, <2>2, <3>1, <3>3, StoreKept
  <2>4. CASE ReadCounter(t)
    <3>0. PICK key : key = Bumped(t)
        OBVIOUS
    <3>1. /\ UNCHANGED <<held, pos, ip>> /\ pc' = [pc EXCEPT ![t] = "insert"] /\ pc[t] = "get"
          /\ read'[t] = Get(store, key) /\ key \in Key
          /\ \A u \in Task \ {t} : read'[u] = read[u]
        BY <2>4, <3>0, BumpedKey DEF ReadCounter, TypeOK
    <3>2. \A k : \A u \in Bumping(k)' : u # t => u \in Bumping(k) /\ u \in Task
        BY <3>1 DEF Bumping, Bumped, Rule, TypeOK
    <3>3. \A k : t \in Bumping(k)' => k = key
        BY <3>0, <3>1 DEF Bumping, Bumped, Rule
    <3>4. \A k \in Key : AllLanded(k)' = AllLanded(k) /\ AllLanded(k) \in Nat
        BY <2>2, LandedSummable DEF AllLanded
    <3>5. Get(store, key) <= AllLanded(key)
        BY <3>1, <3>4 DEF Get, StoreInv
    <3> QED BY <2>1, <3>1, <3>2, <3>3, <3>4, <3>5 DEF StoreInv
  <2> QED BY <2>3, <2>4
<1>3. ASSUME NEW t \in Task, InsertCounter(t)
      PROVE  StoreInv'
    BY <1>3, InsertStore
<1> QED BY <1>1, <1>2, <1>3 DEF Next

\* At the start nothing is counted.
LEMMA StoreInit == Init => StoreInv
<1> SUFFICES ASSUME Init PROVE StoreInv
    OBVIOUS
<1>1. TypeOK /\ HeldInv /\ VerdictInv
    BY TypeInit, ScanInit DEF VerdictInv
<1>2. \A k : AllLanded(k) \in Nat /\ Bumping(k) = {}
    BY <1>1, LandedSummable DEF Init, Bumping
<1>3. \A k \in Key : store[k].count = 0
    BY DEF Init
<1> QED BY <1>2, <1>3 DEF StoreInv

\* What was added bounds what is shown.
LEMMA StoreMeans ==
    ASSUME TypeOK, HeldInv, VerdictInv, StoreInv
    PROVE  NeverInvented
<1> SUFFICES ASSUME NEW k \in Key
             PROVE  Get(store, k) <= SumFunction([t \in Task |-> Added(t, k)])
    BY DEF NeverInvented
<1> DEFINE f == [t \in Task |-> Landed(t, k)]
           h == [t \in Task |-> Added(t, k)]
<1>1. Summable(f, Task) /\ Summable(h, Task) /\ AllLanded(k) \in Nat
    BY LandedSummable
<1>2. \A t \in Task : f[t] <= h[t]
    BY LandedAtMostAdded
<1>3. AllLanded(k) = SumFunctionOnSet(f, Task) /\ SumFunction(h) = SumFunctionOnSet(h, Task)
    BY DEF AllLanded, SumFunction
<1>4. Get(store, k) \in Nat /\ Get(store, k) <= AllLanded(k)
    BY <1>1, RulesAssumption DEF StoreInv, Get, TypeOK, EntryType
<1> HIDE DEF f, h
<1>5. SumFunctionOnSet(f, Task) <= SumFunctionOnSet(h, Task) /\ SumFunctionOnSet(h, Task) \in Nat
    BY <1>1, <1>2, SumMonotone, SumRemove
<1>6. Get(store, k) <= SumFunction(h)
    BY <1>1, <1>3, <1>4, <1>5
<1> QED BY <1>6 DEF h

\* No counter ever shows more than its client's evaluations added, not even one
\* that a late insert brings back after it expired.
THEOREM CountersNeverInvent == Spec => []NeverInvented
<1>1. Init => VerdictInv
    BY ScanInit DEF VerdictInv
<1>2. TypeOK /\ HeldInv /\ VerdictInv /\ [Next]_vars => VerdictInv'
    BY ScanStep DEF VerdictInv
<1> QED BY <1>1, <1>2, TypeInit, TypeStep, StoreInit, StoreStep, StoreMeans, PTL DEF Spec
=============================================================================

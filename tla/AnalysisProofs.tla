--------------------------- MODULE AnalysisProofs ---------------------------
(***************************************************************************)
(* What holds of the reorgs that NewReorg makes, for every block tree.     *)
(*                                                                         *)
(* Induction over data is done by a least counterexample (LeastElement): a *)
(* recursive function has a value because the loop it stands for has one   *)
(* (IterationExists), and then is what its equation says.                  *)
(***************************************************************************)
EXTENDS Analysis, FiniteSetTheorems, SequenceTheorems, WellFoundedInduction, TLAPS

\* A finite set of numbers that is not empty has a greatest element, which
\* is its Max: the set of the elements above it is the smallest such set.
LEMMA MaxOfFinite ==
  ASSUME NEW S \in SUBSET Nat, S # {}, IsFiniteSet(S)
  PROVE  Max(S) \in S /\ \A x \in S : x <= Max(S)
<1> DEFINE Above(a) == {b \in S : b > a}
           F == {Above(a) : a \in S}
<1>1. F \subseteq FiniteSubsetsOf(S) /\ F # {}
  <2>1. \A t \in S : Above(t) \subseteq S /\ IsFiniteSet(Above(t))
    BY FS_Subset
  <2> QED BY <2>1 DEF FiniteSubsetsOf
<1>2. \E X \in F : \A Y \in F : ~ (<<Y, X>> \in StrictSubsetOrdering(S))
  <2> HIDE DEF F
  <2> QED BY <1>1, FS_StrictSubsetOrderingWellFounded, WFMin
<1>3. PICK t \in S : \A u \in S : <<Above(u), Above(t)>> \notin StrictSubsetOrdering(S)
  BY <1>2
<1>4. \A x \in S : x <= t
  <2> SUFFICES ASSUME NEW x \in S, x > t PROVE FALSE
    OBVIOUS
  <2>1. Above(x) \subseteq Above(t) /\ Above(x) # Above(t)
    <3>1. x \in Nat /\ t \in Nat /\ S \subseteq Nat
      OBVIOUS
    <3>2. x \in Above(t)
      OBVIOUS
    <3>3. x \notin Above(x)
      BY <3>1
    <3>4. ASSUME NEW y \in Above(x) PROVE y \in Above(t)
      <4>1. y \in S /\ y \in Nat /\ y > x
        BY <3>1
      <4>2. y > t
        BY <3>1, <4>1
      <4> QED BY <4>1, <4>2
    <3> QED BY <3>2, <3>3, <3>4
  <2>2. <<Above(x), Above(t)>> \in StrictSubsetOrdering(S)
    BY <2>1 DEF StrictSubsetOrdering
  <2> QED BY <1>3, <2>2
<1> QED BY <1>3, <1>4 DEF Max

\* A set of numbers that is not empty has a least element.
LEMMA LeastElement ==
  ASSUME NEW S \in SUBSET Nat, S # {}
  PROVE  \E x \in S : \A y \in S : x <= y
<1>1. IsWellFoundedOn(OpToRel(<, Nat), Nat)
  BY NatLessThanWellFounded
<1>2. PICK x \in S : \A y \in S : ~ (<<y, x>> \in OpToRel(<, Nat))
  BY <1>1, WFMin
<1>3. \A y \in S : ~ (y < x)
  BY <1>2 DEF OpToRel
<1> QED BY <1>3

\* Of a finite set it is its Min.
LEMMA MinOfFinite ==
  ASSUME NEW S \in SUBSET Nat, S # {}, IsFiniteSet(S)
  PROVE  Min(S) \in S /\ \A x \in S : Min(S) <= x
BY LeastElement DEF Min

\* f lists the values of a loop over a..b, from s0 on.
Iterates(f, S, s0, a, b, next) ==
  /\ f \in [a..b -> S] /\ f[a] = s0
  /\ \A n \in (a + 1)..b : f[n] = next[n][f[n - 1]]

\* Every loop has such a list: the definition of a recursive function by CHOOSE
\* has a choice.
LEMMA IterationExists ==
  ASSUME NEW S, NEW s0 \in S, NEW a \in Nat, NEW b \in Nat, a <= b,
         NEW next \in [Nat -> [S -> S]]
  PROVE  \E f : Iterates(f, S, s0, a, b, next)
<1> DEFINE stuck == {k \in a..b : ~ \E f : Iterates(f, S, s0, a, k, next)}
<1> SUFFICES ASSUME stuck # {} PROVE FALSE
  <2>1. b \in a..b
    OBVIOUS
  <2>2. b \notin stuck
    <3> HIDE DEF stuck
    <3> QED OBVIOUS
  <2> QED BY <2>1, <2>2
<1>1. PICK k \in stuck : \A j \in stuck : k <= j
  <2>1. stuck \in SUBSET Nat
    OBVIOUS
  <2> HIDE DEF stuck
  <2> QED BY <2>1, LeastElement
<1>2. k \in a..b /\ k \in Nat /\ ~ \E f : Iterates(f, S, s0, a, k, next)
  OBVIOUS
<1>3. CASE k = a
  <2> DEFINE f == [n \in a..k |-> s0]
  <2>1. Iterates(f, S, s0, a, k, next)
    BY <1>3 DEF Iterates
  <2> QED BY <1>2, <2>1
<1>4. CASE k # a
  <2>1. k - 1 \in a..b /\ k - 1 \notin stuck
    <3> HIDE DEF stuck
    <3> QED BY <1>1, <1>2, <1>4
  <2>2. PICK g : Iterates(g, S, s0, a, k - 1, next)
    BY <2>1
  <2>3. /\ g \in [a..(k - 1) -> S] /\ g[a] = s0
        /\ \A n \in (a + 1)..(k - 1) : g[n] = next[n][g[n - 1]]
    BY <2>2 DEF Iterates
  <2> DEFINE f == [n \in a..k |-> IF n = k THEN next[k][g[k - 1]] ELSE g[n]]
  <2>4. f \in [a..k -> S] /\ f[a] = s0
    BY <1>2, <1>4, <2>1, <2>3
  <2>5. ASSUME NEW n \in (a + 1)..k PROVE f[n] = next[n][f[n - 1]]
    <3>1. f[n - 1] = g[n - 1]
      BY <1>2
    <3>2. CASE n = k
      <4>1. f[k] = next[k][g[k - 1]]
        BY <1>2
      <4> HIDE DEF f
      <4> QED BY <3>1, <3>2, <4>1
    <3>3. CASE n # k
      <4>1. f[n] = g[n] /\ n \in (a + 1)..(k - 1)
        BY <1>2, <3>3
      <4>2. g[n] = next[n][g[n - 1]]
        BY <2>3, <4>1
      <4> HIDE DEF f
      <4> QED BY <3>1, <4>1, <4>2
    <3> QED BY <3>2, <3>3
  <2> HIDE DEF f
  <2>6. Iterates(f, S, s0, a, k, next)
    BY <2>4, <2>5 DEF Iterates
  <2> QED BY <1>2, <2>6
<1> QED BY <1>3, <1>4

-----------------------------------------------------------------------------
(* Ancestors. *)

\* The recursive definition of Ancestors has a solution, the least sets closed
\* under parents; so it holds as an equation.
LEMMA AncestorsOf ==
  \A h \in Hash : Ancestors[h] =
    {h} \cup IF ParentHash[h] \in Hash THEN Ancestors[ParentHash[h]] ELSE {}
<1> DEFINE Body(u) == [h \in Hash |->
              {h} \cup IF ParentHash[h] \in Hash THEN u[ParentHash[h]] ELSE {}]
           above == CHOOSE u : u = Body(u)
           Closed(S) == \A g \in S : ParentHash[g] \in Hash => ParentHash[g] \in S
           least(h) == {a \in Hash : \A S \in SUBSET Hash : h \in S /\ Closed(S) => a \in S}
           f == [h \in Hash |-> least(h)]
<1>1. ASSUME NEW h \in Hash
      PROVE  least(h) = {h} \cup IF ParentHash[h] \in Hash THEN least(ParentHash[h]) ELSE {}
  <2> DEFINE more == IF ParentHash[h] \in Hash THEN least(ParentHash[h]) ELSE {}
  <2>1. {h} \cup more \subseteq least(h)
    OBVIOUS
  <2>2. Closed({h} \cup more)
    <3>1. ParentHash[h] \in Hash => ParentHash[h] \in least(ParentHash[h])
      OBVIOUS
    <3>2. ASSUME NEW g \in more, ParentHash[g] \in Hash PROVE ParentHash[g] \in more
      BY <3>2
    <3> QED BY <3>1, <3>2
  <2>3. least(h) \subseteq {h} \cup more
    <3>1. {h} \cup more \in SUBSET Hash
      OBVIOUS
    <3> HIDE DEF more, Closed
    <3> QED BY <2>2, <3>1
  <2> QED BY <2>1, <2>3
<1>2. f = Body(f)
  <2>1. ASSUME NEW h \in Hash PROVE f[h] = Body(f)[h]
    <3> HIDE DEF least
    <3> QED BY <1>1
  <2> HIDE DEF least
  <2> QED BY <2>1
<1>3. above = Body(above)
  <2> HIDE DEF Body, f
  <2> QED BY <1>2
<1>4. Ancestors = above
  BY DEF Ancestors
<1>5. ASSUME NEW u, NEW h \in Hash
      PROVE  Body(u)[h] = {h} \cup IF ParentHash[h] \in Hash THEN u[ParentHash[h]] ELSE {}
  OBVIOUS
<1> HIDE DEF Body, above
<1> QED BY <1>3, <1>4, <1>5

\* A block descends from itself and from what its parent descends from.
LEMMA DescendsStep ==
  ASSUME NEW h \in Hash, NEW a
  PROVE  Descends(a, h) <=> a = h \/ (ParentHash[h] \in Hash /\ Descends(a, ParentHash[h]))
BY AncestorsOf DEF Descends

\* A block is one above its parent.
LEMMA NumberType ==
  \A h \in Hash : /\ Number[h] \in Nat /\ Number[h] >= 1
                  /\ ParentHash[h] \in Hash => Number[h] = Number[ParentHash[h]] + 1
BY ChainAssumption

\* An ancestor is lower.
LEMMA DescendsUp ==
  ASSUME NEW h \in Hash, NEW a, Descends(a, h)
  PROVE  a \in Hash /\ Number[a] <= Number[h] /\ (Number[a] = Number[h] => a = h)
<1> DEFINE wrong == {Number[g] : g \in {g \in Hash : Descends(a, g) /\
               ~ (a \in Hash /\ Number[a] <= Number[g] /\ (Number[a] = Number[g] => a = g))}}
<1> SUFFICES ASSUME wrong # {} PROVE FALSE
  OBVIOUS
<1>1. PICK n \in wrong : \A m \in wrong : n <= m
  <2>1. wrong \in SUBSET Nat
    BY NumberType
  <2> HIDE DEF wrong
  <2> QED BY <2>1, LeastElement
<1>2. PICK g \in Hash : /\ n = Number[g] /\ Descends(a, g)
                        /\ ~ (a \in Hash /\ Number[a] <= Number[g] /\ (Number[a] = Number[g] => a = g))
  OBVIOUS
<1>3. g # a
  BY <1>2, NumberType
<1>4. /\ ParentHash[g] \in Hash /\ Descends(a, ParentHash[g])
      /\ Number[g] = Number[ParentHash[g]] + 1 /\ Number[ParentHash[g]] \in Nat
  BY <1>2, <1>3, DescendsStep, NumberType
<1>5. Number[ParentHash[g]] \notin wrong
  <2> HIDE DEF wrong
  <2> QED BY <1>1, <1>2, <1>4, NumberType
<1>6. a \in Hash /\ Number[a] <= Number[ParentHash[g]]
  BY <1>4, <1>5
<1> QED BY <1>2, <1>4, <1>6, NumberType

\* What descends from a block descends from the ancestors of the block.
LEMMA DescendsTransitive ==
  ASSUME NEW h \in Hash, NEW b, NEW a, Descends(b, h), Descends(a, b)
  PROVE  Descends(a, h)
<1> DEFINE wrong == {Number[g] : g \in {g \in Hash : Descends(b, g) /\ ~ Descends(a, g)}}
<1> SUFFICES ASSUME wrong # {} PROVE FALSE
  OBVIOUS
<1>1. PICK n \in wrong : \A m \in wrong : n <= m
  <2>1. wrong \in SUBSET Nat
    BY NumberType
  <2> HIDE DEF wrong
  <2> QED BY <2>1, LeastElement
<1>2. PICK g \in Hash : n = Number[g] /\ Descends(b, g) /\ ~ Descends(a, g)
  OBVIOUS
<1>3. g # b
  BY <1>2
<1>4. /\ ParentHash[g] \in Hash /\ Descends(b, ParentHash[g]) /\ ~ Descends(a, ParentHash[g])
      /\ Number[ParentHash[g]] < Number[g]
  BY <1>2, <1>3, DescendsStep, NumberType
<1>5. Number[ParentHash[g]] \in wrong
  BY <1>4
<1> HIDE DEF wrong
<1> QED BY <1>1, <1>2, <1>4, <1>5, NumberType

\* The ancestors of a block lie on one line.
LEMMA DescendsLinear ==
  ASSUME NEW h \in Hash, NEW a, NEW b, Descends(a, h), Descends(b, h), Number[a] <= Number[b]
  PROVE  Descends(a, b)
<1> DEFINE wrong == {Number[g] : g \in {g \in Hash :
                       Descends(a, g) /\ Descends(b, g) /\ ~ Descends(a, b)}}
<1> SUFFICES ASSUME wrong # {} PROVE FALSE
  OBVIOUS
<1>1. PICK n \in wrong : \A m \in wrong : n <= m
  <2>1. wrong \in SUBSET Nat
    BY NumberType
  <2> HIDE DEF wrong
  <2> QED BY <2>1, LeastElement
<1>2. PICK g \in Hash : n = Number[g] /\ Descends(a, g) /\ Descends(b, g) /\ ~ Descends(a, b)
  OBVIOUS
<1>3. g # b
  BY <1>2
<1>4. g # a
  BY <1>2, <1>3, DescendsUp, NumberType
<1>5. /\ ParentHash[g] \in Hash /\ Descends(b, ParentHash[g]) /\ Descends(a, ParentHash[g])
      /\ Number[ParentHash[g]] < Number[g]
  BY <1>2, <1>3, <1>4, DescendsStep, NumberType
<1>6. Number[ParentHash[g]] \in wrong
  BY <1>2, <1>5
<1> HIDE DEF wrong
<1> QED BY <1>1, <1>2, <1>5, <1>6, NumberType

\* A branch that grows out of a block has a child of it.
LEMMA ChildTowards ==
  ASSUME NEW h \in Hash, NEW a, Descends(a, h), a # h
  PROVE  \E c \in Hash : ParentHash[c] = a /\ Descends(c, h)
<1> DEFINE Towards(g) == \E c \in Hash : ParentHash[c] = a /\ Descends(c, g)
           wrong == {Number[g] : g \in {g \in Hash : Descends(a, g) /\ a # g /\ ~ Towards(g)}}
<1> SUFFICES ASSUME wrong # {} PROVE FALSE
  OBVIOUS
<1>1. PICK n \in wrong : \A m \in wrong : n <= m
  <2>1. wrong \in SUBSET Nat
    BY NumberType
  <2> HIDE DEF wrong
  <2> QED BY <2>1, LeastElement
<1>2. PICK g \in Hash : n = Number[g] /\ Descends(a, g) /\ a # g /\ ~ Towards(g)
  OBVIOUS
<1>3. /\ ParentHash[g] \in Hash /\ Descends(a, ParentHash[g])
      /\ Number[ParentHash[g]] < Number[g] /\ Descends(g, g)
  BY <1>2, DescendsStep, NumberType
<1>4. ParentHash[g] # a
  BY <1>2, <1>3
<1>5. Number[ParentHash[g]] \notin wrong
  <2> HIDE DEF wrong
  <2> QED BY <1>1, <1>2, <1>3, NumberType
<1>6. PICK c \in Hash : ParentHash[c] = a /\ Descends(c, ParentHash[g])
  BY <1>3, <1>4, <1>5
<1>7. Descends(c, g)
  BY <1>3, <1>6, DescendsStep
<1> QED BY <1>2, <1>6, <1>7

-----------------------------------------------------------------------------
(* Depth-first listings of a tree. *)

\* A tree has a lowest block.
LEMMA RootIsLowest ==
  ASSUME NEW nodes \in SUBSET Hash, nodes # {}
  PROVE  Root(nodes) \in nodes /\ \A g \in nodes : Number[Root(nodes)] <= Number[g]
<1> DEFINE numbers == {Number[h] : h \in nodes}
<1>1. PICK n \in numbers : \A m \in numbers : n <= m
  <2>1. numbers \in SUBSET Nat /\ numbers # {}
    BY NumberType
  <2> HIDE DEF numbers
  <2> QED BY <2>1, LeastElement
<1>2. PICK h \in nodes : n = Number[h]
  OBVIOUS
<1>3. \A g \in nodes : Number[h] <= Number[g]
  BY <1>1, <1>2
<1> QED BY <1>3 DEF Root

\* A depth-first listing of a tree, each block once.
IsListing(w, nodes) ==
  /\ w \in Seq(nodes) /\ Len(w) >= 1 /\ w[1] = Root(nodes)
  /\ nodes = {w[i] : i \in DOMAIN w}
  /\ \A i, j \in DOMAIN w : w[i] = w[j] => i = j
  /\ DepthFirst(w)

\* In it the blocks below a block follow it in one piece: a later block that
\* is not below it grows out of one of its ancestors.
LEMMA BelowInOnePiece ==
  ASSUME NEW nodes \in SUBSET Hash, NEW w, IsListing(w, nodes),
         NEW s \in DOMAIN w, NEW k \in DOMAIN w, Descends(w[s], w[k])
  PROVE  s <= k /\ \A j \in s..k : Descends(w[s], w[j])
<1> DEFINE c == w[s]
<1>1. /\ Len(w) \in Nat /\ DOMAIN w = 1..Len(w)
      /\ \A i \in 1..Len(w) : w[i] \in nodes /\ w[i] \in Hash
      /\ \A i \in 2..Len(w) : Descends(ParentHash[w[i]], w[i - 1])
      /\ c \in Hash
  BY DEF IsListing, DepthFirst
<1>2. \A i, j \in 1..Len(w) : w[i] = w[j] => i = j
  BY <1>1 DEF IsListing
<1>3. Descends(c, c)
  BY <1>1, DescendsStep
\* A block below c that is not c follows a block below c.
<1>4. ASSUME NEW i \in 2..Len(w), Descends(c, w[i]), i # s
      PROVE  Descends(c, w[i - 1])
  <2>1. i \in 1..Len(w) /\ i - 1 \in 1..Len(w)
    BY <1>1
  <2>2. w[i] # c
    BY <1>1, <1>2, <1>4, <2>1
  <2>3. ParentHash[w[i]] \in Hash /\ Descends(c, ParentHash[w[i]])
    BY <1>1, <1>4, <2>1, <2>2, DescendsStep
  <2> QED BY <1>1, <2>1, <2>3, DescendsTransitive
<1>5. s <= k
  <2> DEFINE early == {i \in 1..Len(w) : i < s /\ Descends(c, w[i])}
  <2> SUFFICES ASSUME k < s PROVE FALSE
    BY <1>1
  <2>1. early # {} /\ early \in SUBSET Nat
    BY <1>1
  <2>2. PICK i \in early : \A j \in early : i <= j
    <3> HIDE DEF early
    <3> QED BY <2>1, LeastElement
  <2>3. i \in 1..Len(w) /\ i < s /\ Descends(c, w[i])
    OBVIOUS
  <2>4. i # 1
    <3> SUFFICES ASSUME i = 1 PROVE FALSE
      OBVIOUS
    <3>1. w[i] = Root(nodes) /\ nodes # {} /\ c \in nodes
      BY <1>1 DEF IsListing
    <3>2. Number[w[i]] <= Number[c]
      BY <3>1, RootIsLowest
    <3>3. w[i] = c
      BY <1>1, <2>3, <3>2, DescendsUp, NumberType
    <3> QED BY <1>1, <1>2, <2>3, <3>3
  <2>5. i - 1 \in 1..Len(w) /\ i - 1 < s /\ Descends(c, w[i - 1])
    BY <1>1, <1>4, <2>3, <2>4
  <2>6. i - 1 \in early
    BY <2>5
  <2> HIDE DEF early
  <2> QED BY <1>1, <2>2, <2>3, <2>6
<1>6. ASSUME NEW j \in s..k, ~ Descends(c, w[j]) PROVE FALSE
  <2> DEFINE late == {i \in 1..Len(w) : j < i /\ Descends(c, w[i])}
  <2>1. k # j /\ late # {} /\ late \in SUBSET Nat
    <3>1. k # j /\ j < k /\ k \in 1..Len(w) /\ Descends(c, w[k])
      BY <1>1, <1>6
    <3>2. k \in late
      BY <3>1
    <3> QED BY <1>1, <3>1, <3>2
  <2>2. PICK i \in late : \A l \in late : i <= l
    <3> HIDE DEF late
    <3> QED BY <2>1, LeastElement
  <2>3. i \in 1..Len(w) /\ j < i /\ Descends(c, w[i]) /\ s < i
    BY <1>1, <1>5
  <2>4. i - 1 \in 1..Len(w) /\ Descends(c, w[i - 1])
    BY <1>1, <1>4, <2>3
  <2>5. i - 1 # j
    BY <1>6, <2>4
  <2>6. i - 1 \in late
    BY <1>1, <2>3, <2>4, <2>5
  <2> HIDE DEF late
  <2> QED BY <1>1, <2>2, <2>3, <2>6
<1> QED BY <1>5, <1>6

\* The chain of a block (reorg.go:51-64) lists the blocks below it, each once,
\* depth first from itself on.
LEMMA ChainOfListing ==
  ASSUME NEW nodes \in SUBSET Hash, NEW w, IsListing(w, nodes), NEW c \in nodes
  PROVE  LET chain == ChainOf(w, c)
         IN /\ chain \in Seq(nodes) /\ Len(chain) \in Nat /\ Len(chain) >= 1 /\ chain[1] = c
            /\ {chain[i] : i \in 1..Len(chain)} = {h \in nodes : Descends(c, h)}
            /\ \A i, j \in 1..Len(chain) : chain[i] = chain[j] => i = j
            /\ \A i \in 2..Len(chain) : Descends(ParentHash[chain[i]], chain[i - 1])
<1> DEFINE below == {i \in DOMAIN w : w[i] = c \/ Descends(c, w[i])}
           a == Min(below)
           b == Max(below)
           chain == ChainOf(w, c)
<1>1. /\ Len(w) \in Nat /\ DOMAIN w = 1..Len(w)
      /\ \A i \in 1..Len(w) : w[i] \in nodes /\ w[i] \in Hash
      /\ \A i, j \in 1..Len(w) : w[i] = w[j] => i = j
      /\ \A i \in 2..Len(w) : Descends(ParentHash[w[i]], w[i - 1])
      /\ w \in Seq(nodes) /\ c \in Hash
  BY DEF IsListing, DepthFirst
<1>2. PICK s \in 1..Len(w) : w[s] = c
  BY <1>1 DEF IsListing
<1>3. Descends(c, c)
  BY <1>1, DescendsStep
<1>4. below = {i \in 1..Len(w) : Descends(c, w[i])}
  BY <1>1, <1>3
<1>5. s \in below /\ \A i \in below : s <= i
  BY <1>1, <1>2, <1>3, <1>4, BelowInOnePiece
<1>6. a = s /\ b \in below /\ \A i \in below : i <= b
  <2>1. below \in SUBSET Nat /\ below # {} /\ IsFiniteSet(below)
    <3>1. IsFiniteSet(1..Len(w)) /\ below \subseteq 1..Len(w) /\ 1..Len(w) \subseteq Nat
      <4>1. below \subseteq 1..Len(w) /\ 1..Len(w) \subseteq Nat
        BY <1>1
      <4>2. IsFiniteSet(1..Len(w))
        BY <1>1, FS_Interval
      <4> QED BY <4>1, <4>2
    <3>2. IsFiniteSet(below)
      <4> HIDE DEF below
      <4> QED BY <3>1, FS_Subset
    <3> HIDE DEF below
    <3> QED BY <1>5, <3>1, <3>2
  <2> HIDE DEF below
  <2>2. a \in below /\ \A i \in below : a <= i
    BY <2>1, MinOfFinite
  <2>3. b \in below /\ \A i \in below : i <= b
    BY <2>1, MaxOfFinite
  <2>4. a <= s /\ s <= a /\ a \in Nat /\ s \in Nat
    BY <1>5, <2>1, <2>2
  <2> HIDE DEF a, b
  <2> QED BY <2>3, <2>4
<1>7. s..b = below
  <2>1. ASSUME NEW i \in s..b PROVE i \in below
    <3>1. i \in 1..Len(w) /\ b \in 1..Len(w) /\ Descends(c, w[b])
      BY <1>1, <1>4, <1>6
    <3> QED BY <1>1, <1>2, <1>4, <3>1, BelowInOnePiece
  <2>2. ASSUME NEW i \in below PROVE i \in s..b
    <3>1. i \in 1..Len(w) /\ b \in 1..Len(w)
      BY <1>4, <1>6
    <3> HIDE DEF below, b
    <3> QED BY <1>5, <1>6, <3>1
  <2> QED BY <2>1, <2>2
<1>8. b \in 1..Len(w) /\ s <= b
  BY <1>4, <1>5, <1>6
<1>9. chain = SubSeq(w, s, b)
  BY <1>6 DEF ChainOf
<1> HIDE DEF below, a, b, chain
<1>10. /\ chain \in Seq(nodes) /\ Len(chain) = b - s + 1
       /\ \A i \in 1..Len(chain) : chain[i] = w[s + i - 1]
  BY <1>1, <1>8, <1>9
<1>11. {chain[i] : i \in 1..Len(chain)} = {h \in nodes : Descends(c, h)}
  <2>1. ASSUME NEW i \in 1..Len(chain) PROVE chain[i] \in nodes /\ Descends(c, chain[i])
    <3>1. s + i - 1 \in s..b
      BY <1>8, <1>10
    <3> QED BY <1>4, <1>7, <1>10, <3>1, <1>1
  <2>2. ASSUME NEW h \in nodes, Descends(c, h) PROVE \E i \in 1..Len(chain) : chain[i] = h
    <3>1. PICK i \in 1..Len(w) : w[i] = h
      BY <1>1 DEF IsListing
    <3>2. i \in s..b
      BY <1>4, <1>7, <2>2, <3>1
    <3>3. i - s + 1 \in 1..Len(chain) /\ s + (i - s + 1) - 1 = i
      BY <1>8, <1>10, <3>2
    <3>4. chain[i - s + 1] = w[i]
      BY <1>10, <3>3
    <3> QED BY <3>1, <3>3, <3>4
  <2> QED BY <2>1, <2>2
<1>12. ASSUME NEW i \in 1..Len(chain), NEW j \in 1..Len(chain), chain[i] = chain[j] PROVE i = j
  <2>1. s + i - 1 \in 1..Len(w) /\ s + j - 1 \in 1..Len(w)
    BY <1>1, <1>8, <1>10
  <2>2. s + i - 1 = s + j - 1
    BY <1>1, <1>10, <1>12, <2>1
  <2> QED BY <2>2
<1>13. ASSUME NEW i \in 2..Len(chain) PROVE Descends(ParentHash[chain[i]], chain[i - 1])
  <2>1. /\ i \in 1..Len(chain) /\ i - 1 \in 1..Len(chain)
        /\ s + i - 1 \in 2..Len(w) /\ s + (i - 1) - 1 = (s + i - 1) - 1
    BY <1>1, <1>8, <1>10
  <2>2. chain[i] = w[s + i - 1] /\ chain[i - 1] = w[(s + i - 1) - 1]
    BY <1>10, <2>1
  <2> QED BY <1>1, <2>1, <2>2
<1>14. Len(chain) \in Nat /\ Len(chain) >= 1 /\ chain[1] = c
  <2>1. 1 \in 1..Len(chain) /\ s + 1 - 1 = s /\ Len(chain) \in Nat
    BY <1>8, <1>10
  <2> QED BY <1>2, <1>10, <2>1
<1> QED BY <1>10, <1>11, <1>12, <1>13, <1>14 DEF chain

\* The recursive definition of Listings has a solution.
LEMMA ListingsOf ==
  ASSUME NEW nodes \in SUBSET Hash, nodes # {}
  PROVE  LET n == Cardinality(nodes)
         IN /\ n \in Nat /\ n >= 1
            /\ Listings(nodes)[1] = {<<Root(nodes)>>}
            /\ \A k \in 2..n : Listings(nodes)[k] =
                 {w \in {Append(v, h) : v \in Listings(nodes)[k - 1], h \in nodes \ {Root(nodes)}} :
                    /\ Descends(ParentHash[w[k]], w[k - 1])
                    /\ \A i \in 1..(k - 1) : w[i] # w[k]}
<1> DEFINE n == Cardinality(nodes)
           Longer(V, k) ==
             {w \in {Append(v, h) : v \in V, h \in nodes \ {Root(nodes)}} :
                /\ Descends(ParentHash[w[k]], w[k - 1])
                /\ \A i \in 1..(k - 1) : w[i] # w[k]}
           next == [k \in Nat |-> [V \in SUBSET Seq(nodes) |-> Longer(V, k)]]
           Body(u) == [k \in 1..n |->
             IF k = 1 THEN {<<Root(nodes)>>}
             ELSE Longer(u[k - 1], k)]
           list == CHOOSE u : u = Body(u)
<1>1. n \in Nat /\ n >= 1
  <2>1. IsFiniteSet(nodes)
    BY ChainAssumption, FS_Subset
  <2> QED BY <2>1, FS_CardinalityType, FS_EmptySet
<1>2. next \in [Nat -> [SUBSET Seq(nodes) -> SUBSET Seq(nodes)]]
  <2>1. ASSUME NEW k \in Nat, NEW V \in SUBSET Seq(nodes) PROVE Longer(V, k) \in SUBSET Seq(nodes)
    OBVIOUS
  <2> HIDE DEF Longer
  <2> QED BY <2>1
<1>3. {<<Root(nodes)>>} \in SUBSET Seq(nodes)
  BY RootIsLowest
<1>4. PICK f : Iterates(f, SUBSET Seq(nodes), {<<Root(nodes)>>}, 1, n, next)
  <2> HIDE DEF next, n
  <2> QED BY <1>1, <1>2, <1>3, IterationExists
<1>5. ASSUME NEW u, NEW k \in 1..n
      PROVE  Body(u)[k] = IF k = 1 THEN {<<Root(nodes)>>} ELSE Longer(u[k - 1], k)
  <2> HIDE DEF Longer
  <2> QED OBVIOUS
<1>6. list = Body(list)
  <2>1. ASSUME NEW k \in 1..n PROVE f[k] = Body(f)[k]
    <3>1. CASE k = 1
      <4>1. f[1] = {<<Root(nodes)>>}
        BY <1>4 DEF Iterates
      <4> HIDE DEF Body, Longer
      <4> QED BY <1>5, <3>1, <4>1
    <3>2. CASE k # 1
      <4>1. k \in (1 + 1)..n /\ k \in Nat /\ k - 1 \in 1..n
        BY <1>1, <3>2
      <4>2. f[k - 1] \in SUBSET Seq(nodes) /\ f[k] = next[k][f[k - 1]]
        <5> HIDE DEF next, n
        <5> QED BY <1>4, <4>1 DEF Iterates
      <4> HIDE DEF Body, Longer
      <4>3. f[k] = Longer(f[k - 1], k)
        BY <4>1, <4>2
      <4> QED BY <1>5, <3>2, <4>3
    <3> QED BY <3>1, <3>2
  <2>2. Body(f) = [k \in 1..n |-> Body(f)[k]] /\ f = [k \in 1..n |-> f[k]]
    BY <1>4 DEF Iterates
  <2> HIDE DEF Body
  <2>3. f = Body(f)
    BY <2>1, <2>2
  <2> QED BY <2>3
<1>7. Listings(nodes) = list
  BY DEF Listings
<1> HIDE DEF Body, list
<1>8. Listings(nodes)[1] = {<<Root(nodes)>>}
  <2>1. 1 \in 1..n
    BY <1>1
  <2> HIDE DEF Longer, n
  <2> QED BY <1>5, <1>6, <1>7, <2>1
<1>9. \A k \in 2..n : Listings(nodes)[k] = Longer(Listings(nodes)[k - 1], k)
  <2>1. ASSUME NEW k \in 2..n PROVE Listings(nodes)[k] = Longer(Listings(nodes)[k - 1], k)
    <3>1. k \in 1..n /\ k # 1
      BY <1>1
    <3> HIDE DEF Longer
    <3> QED BY <1>5, <1>6, <1>7, <3>1
  <2> QED BY <2>1
<1> QED BY <1>1, <1>8, <1>9

\* A depth-first listing of the tree, each block once, is one of its walks.
LEMMA ListingIsWalk ==
  ASSUME NEW nodes \in SUBSET Hash, NEW w, IsListing(w, nodes)
  PROVE  w \in Walks(nodes)
<1> DEFINE n == Cardinality(nodes)
           prefix == [k \in 1..Len(w) |-> SubSeq(w, 1, k)]
<1>1. /\ w \in Seq(nodes) /\ Len(w) \in Nat /\ Len(w) >= 1 /\ DOMAIN w = 1..Len(w)
      /\ w[1] = Root(nodes) /\ DepthFirst(w) /\ nodes = {w[i] : i \in 1..Len(w)}
      /\ \A i, j \in 1..Len(w) : w[i] = w[j] => i = j
  BY DEF IsListing
<1>2. Len(w) = n /\ nodes # {}
  <2>1. w \in Bijection(1..Len(w), nodes)
    BY <1>1 DEF Bijection, Injection, Surjection, IsInjective
  <2>2. IsFiniteSet(1..Len(w)) /\ Cardinality(1..Len(w)) = Len(w)
    BY <1>1, FS_Interval
  <2>3. w[1] \in nodes
    BY <1>1
  <2>4. ExistsBijection(1..Len(w), nodes)
    BY <2>1 DEF ExistsBijection
  <2>5. Cardinality(nodes) = Cardinality(1..Len(w))
    BY <2>2, <2>4, FS_Bijection
  <2> QED BY <2>2, <2>3, <2>5
<1>3. \A k \in 1..n : /\ prefix[k] \in Seq(nodes) /\ Len(prefix[k]) = k
                      /\ \A i \in 1..k : prefix[k][i] = w[i]
  BY <1>1, <1>2
<1>4. prefix[n] = w
  BY <1>1, <1>2
<1>5. \A k \in 2..n : prefix[k] = Append(prefix[k - 1], w[k])
  BY <1>1, <1>2
<1> HIDE DEF prefix
<1>6. prefix[n] \in Listings(nodes)[n]
  <2> DEFINE wrong == {k \in 1..n : prefix[k] \notin Listings(nodes)[k]}
  <2> SUFFICES ASSUME wrong # {} PROVE FALSE
    BY <1>1, <1>2
  <2>1. PICK k \in wrong : \A j \in wrong : k <= j
    <3>1. wrong \in SUBSET Nat
      BY <1>1, <1>2
    <3> HIDE DEF wrong
    <3> QED BY <3>1, LeastElement
  <2>2. k \in 1..n /\ prefix[k] \notin Listings(nodes)[k]
    OBVIOUS
  <2>3. CASE k = 1
    <3>1. prefix[1] = <<Root(nodes)>>
      BY <1>1, <1>3, <2>2, <2>3
    <3> QED BY <1>2, <2>2, <2>3, <3>1, ListingsOf
  <2>4. CASE k # 1
    <3>1. /\ k \in 2..n /\ k - 1 \in 1..n /\ k - 1 \notin wrong
          /\ k \in 1..k /\ k - 1 \in 1..k /\ k \in 1..Len(w)
      <4> HIDE DEF wrong
      <4> QED BY <1>1, <1>2, <2>1, <2>2, <2>4
    <3>2. prefix[k - 1] \in Listings(nodes)[k - 1]
      BY <3>1
    <3>3. w[k] \in nodes \ {Root(nodes)}
      BY <1>1, <1>2, <2>4, <3>1
    <3> DEFINE v == prefix[k]
    <3>4. v \in {Append(u, h) : u \in Listings(nodes)[k - 1], h \in nodes \ {Root(nodes)}}
      <4>1. v = Append(prefix[k - 1], w[k])
        BY <1>5, <3>1
      <4> HIDE DEF v
      <4> QED BY <3>2, <3>3, <4>1
    <3>5. v[k] = w[k] /\ v[k - 1] = w[k - 1] /\ \A i \in 1..(k - 1) : v[i] = w[i] /\ w[i] # w[k]
      <4>1. ASSUME NEW i \in 1..(k - 1) PROVE i \in 1..k /\ i \in 1..Len(w) /\ i # k
        BY <1>1, <3>1
      <4> QED BY <1>1, <1>3, <3>1, <4>1
    <3>6. Descends(ParentHash[w[k]], w[k - 1])
      BY <1>1, <1>2, <3>1 DEF DepthFirst
    <3>7. v \in Listings(nodes)[k]
      <4> HIDE DEF v
      <4>1. Descends(ParentHash[v[k]], v[k - 1]) /\ \A i \in 1..(k - 1) : v[i] # v[k]
        BY <3>5, <3>6
      <4> QED BY <1>2, <3>1, <3>4, <4>1, ListingsOf
    <3> QED BY <2>2, <3>7
  <2> QED BY <2>3, <2>4
<1> QED BY <1>1, <1>2, <1>4, <1>6 DEF Walks

-----------------------------------------------------------------------------
(* The chains of a reorg. *)

\* The listing of the blocks below c is a non-empty part of the whole listing.
LEMMA ChainOfType ==
  ASSUME NEW nodes \in SUBSET Hash, NEW w \in Seq(nodes), NEW j \in DOMAIN w
  PROVE  ChainOf(w, w[j]) \in Seq(nodes) /\ Len(ChainOf(w, w[j])) >= 1
<1> DEFINE below == {i \in DOMAIN w : w[i] = w[j] \/ Descends(w[j], w[i])}
<1>1. below \subseteq 1..Len(w) /\ below # {} /\ Len(w) \in Nat
  OBVIOUS
<1>2. IsFiniteSet(below) /\ below \subseteq Nat
  <2>1. IsFiniteSet(1..Len(w)) /\ 1..Len(w) \subseteq Nat
    BY <1>1, FS_Interval
  <2> HIDE DEF below
  <2> QED BY <1>1, <2>1, FS_Subset
<1> HIDE DEF below
<1>3. /\ Min(below) \in 1..Len(w) /\ Max(below) \in 1..Len(w)
      /\ Min(below) <= Max(below)
  BY <1>1, <1>2, MinOfFinite, MaxOfFinite
<1>4. ASSUME NEW a \in 1..Len(w), NEW b \in 1..Len(w), a <= b
      PROVE  SubSeq(w, a, b) \in Seq(nodes) /\ Len(SubSeq(w, a, b)) >= 1
  BY <1>4
<1>5. SubSeq(w, Min(below), Max(below)) \in Seq(nodes)
      /\ Len(SubSeq(w, Min(below), Max(below))) >= 1
  BY <1>3, <1>4
<1> QED BY <1>5 DEF ChainOf, below

\* The depth of a fork is the length of its second longest chain: one chain has
\* that length, another one is as long, and of any two one is not longer.
LEMMA DepthIsSecondLongest ==
  ASSUME NEW nodes \in SUBSET Hash, NEW roots \in SUBSET nodes,
         Cardinality(roots) > 1,
         NEW chains \in [roots -> Seq(nodes)], \A c \in roots : Len(chains[c]) >= 1
  PROVE  /\ Depth(chains) \in Nat /\ Depth(chains) >= 1
         /\ \E c, d \in roots : /\ c # d /\ Len(chains[c]) = Depth(chains)
                                /\ Len(chains[d]) >= Depth(chains)
         /\ \A c, d \in roots : c # d => \/ Len(chains[c]) <= Depth(chains)
                                         \/ Len(chains[d]) <= Depth(chains)
<1> DEFINE pairs == {e \in roots \X roots : e[1] # e[2]}
           shorter(e) == Min({Len(chains[e[1]]), Len(chains[e[2]])})
           S == {shorter(e) : e \in pairs}
<1>1. IsFiniteSet(roots)
  BY FS_Subset, ChainAssumption
<1>2. pairs # {}
  <2> SUFFICES ASSUME \A c, d \in roots : c = d PROVE FALSE
    <3>1. \A c, d \in roots : c # d => <<c, d>> \in pairs
      OBVIOUS
    <3> QED BY <3>1
  <2>1. roots # {}
    BY FS_EmptySet
  <2>2. PICK c \in roots : roots = {c}
    BY <2>1
  <2>3. Cardinality({c}) = 1
    BY FS_Singleton
  <2> QED BY <2>2, <2>3
<1>3. IsFiniteSet(S)
  <2>1. IsFiniteSet(roots \X roots)
    BY <1>1, FS_Product
  <2>2. IsFiniteSet(pairs)
    BY <2>1, FS_Subset
  <2>3. [e \in pairs |-> shorter(e)] \in Surjection(pairs, S)
    BY DEF Surjection
  <2> HIDE DEF pairs, shorter, S
  <2> QED BY <2>2, <2>3, FS_Surjection
<1>4. \A c \in roots : Len(chains[c]) \in Nat /\ Len(chains[c]) >= 1
  OBVIOUS
<1>5. \A e \in pairs :
        /\ shorter(e) \in {Len(chains[e[1]]), Len(chains[e[2]])}
        /\ shorter(e) <= Len(chains[e[1]]) /\ shorter(e) <= Len(chains[e[2]])
  <2> SUFFICES ASSUME NEW e \in pairs
               PROVE  /\ shorter(e) \in {Len(chains[e[1]]), Len(chains[e[2]])}
                      /\ shorter(e) <= Len(chains[e[1]]) /\ shorter(e) <= Len(chains[e[2]])
    OBVIOUS
  <2> DEFINE k == Len(chains[e[1]])
             l == Len(chains[e[2]])
             lengths == {k, l}
  <2>1. k \in Nat /\ l \in Nat
    BY <1>4
  <2> HIDE DEF k, l
  <2>2. PICK x \in lengths : \A y \in lengths : x <= y
    <3>1. lengths \in SUBSET Nat /\ lengths # {}
      BY <2>1
    <3> HIDE DEF lengths
    <3> QED BY <3>1, LeastElement
  <2>3. Min(lengths) \in lengths /\ \A y \in lengths : Min(lengths) <= y
    BY <2>2 DEF Min
  <2>4. shorter(e) = Min(lengths)
    BY DEF k, l
  <2> HIDE DEF shorter
  <2> QED BY <2>3, <2>4 DEF k, l
<1>6. \A e \in pairs : shorter(e) \in Nat /\ shorter(e) >= 1
  <2> HIDE DEF shorter
  <2> QED BY <1>4, <1>5
<1> HIDE DEF shorter
<1>7. S \subseteq Nat /\ S # {} /\ \A x \in S : x >= 1
  BY <1>2, <1>6
<1>8. Max(S) \in S /\ \A x \in S : x <= Max(S)
  <2> HIDE DEF S
  <2> QED BY <1>3, <1>7, MaxOfFinite
<1>9. Depth(chains) = Max(S)
  BY DEF Depth, shorter
<1> DEFINE depth == Depth(chains)
<1>10. depth \in Nat /\ depth >= 1
  BY <1>7, <1>8, <1>9
<1>11. PICK e \in pairs : shorter(e) = depth
  BY <1>8, <1>9
<1>12. \A g \in pairs : shorter(g) <= depth
  BY <1>8, <1>9
<1> HIDE DEF S, depth
<1>13. \E c, d \in roots : c # d /\ Len(chains[c]) = depth /\ Len(chains[d]) >= depth
  <2>1. /\ e[1] \in roots /\ e[2] \in roots /\ e[1] # e[2]
        /\ depth <= Len(chains[e[1]]) /\ depth <= Len(chains[e[2]])
        /\ depth = Len(chains[e[1]]) \/ depth = Len(chains[e[2]])
    BY <1>5, <1>11
  <2> QED BY <1>10, <2>1
<1>14. ASSUME NEW c \in roots, NEW d \in roots, c # d
       PROVE  Len(chains[c]) <= depth \/ Len(chains[d]) <= depth
  <2> DEFINE g == <<c, d>>
  <2>1. g \in pairs /\ g[1] = c /\ g[2] = d
    BY <1>14
  <2> HIDE DEF g, pairs
  <2>2. shorter(g) \in {Len(chains[c]), Len(chains[d])} /\ shorter(g) <= depth
    BY <1>5, <1>12, <2>1
  <2> QED BY <2>2
<1> QED BY <1>10, <1>13, <1>14 DEF depth

\* The chains NewReorg collects below a node (reorg.go:51-64): for each child
\* a non-empty list of blocks of the tree.
LEMMA ChainsBelowType ==
  ASSUME NEW nodes \in SUBSET Hash, NEW w \in Walks(nodes), NEW p
  PROVE  /\ ChainsBelow(w, p) \in [Children(nodes, p) -> Seq(nodes)]
         /\ \A c \in Children(nodes, p) : Len(ChainsBelow(w, p)[c]) >= 1
<1>1. w \in Seq(nodes) /\ nodes = {w[i] : i \in DOMAIN w}
  BY DEF Walks
<1>2. ChainsBelow(w, p) = [c \in Children(nodes, p) |-> ChainOf(w, c)]
  BY <1>1 DEF ChainsBelow
<1>3. ASSUME NEW c \in Children(nodes, p)
      PROVE  ChainOf(w, c) \in Seq(nodes) /\ Len(ChainOf(w, c)) >= 1
  <2>1. PICK j \in DOMAIN w : c = w[j]
    BY <1>1 DEF Children
  <2> QED BY <1>1, <2>1, ChainOfType
<1> QED BY <1>2, <1>3

\* A reorg speaks of blocks of the tree only; a finished one ends at the
\* height of one of them, and another one comes after it.
THEOREM ReorgsAreOfTheTree ==
  ASSUME NEW nodes \in SUBSET Hash, NEW w \in Walks(nodes), NEW B,
         NEW r \in FoundReorgs(B, w)
  PROVE  /\ Id(r) \in IdType
         /\ Id(r)[2] = r.EndBlockHeight
         /\ r.BlocksInvolved \subseteq nodes
         /\ r.IsFinished => /\ r.EndBlockHeight \in {Number[h] : h \in nodes}
                            /\ r.FirstBlockAfterReorg \in nodes
<1>1. nodes = {w[i] : i \in DOMAIN w}
  BY DEF Walks
<1>2. PICK p \in Forks(nodes) : r = NewReorg(B, p, ChainsBelow(w, p))
  BY <1>1 DEF FoundReorgs
<1> DEFINE roots    == Children(nodes, p)
           chains   == ChainsBelow(w, p)
           depth    == Depth(chains)
           finished == Longest(chains) # {}
           main     == CHOOSE c \in DOMAIN chains : c \in Longest(chains)
           cut      == [c \in DOMAIN chains |->
                          SubSeq(chains[c], 1, Min({depth, Len(chains[c])}))]
           involved == UNION {{cut[c][i] : i \in DOMAIN cut[c]} : c \in DOMAIN chains}
<1>3. /\ chains \in [roots -> Seq(nodes)] /\ \A c \in roots : Len(chains[c]) >= 1
      /\ DOMAIN chains = roots
  BY ChainsBelowType
<1>4. p \in nodes /\ roots \subseteq nodes /\ Cardinality(roots) > 1
  BY DEF Forks, Children
<1>5. depth \in Nat /\ depth >= 1
  BY <1>3, <1>4, DepthIsSecondLongest
<1>6. involved \subseteq nodes
  <2>1. ASSUME NEW s \in Seq(nodes), NEW m \in 0..Len(s)
        PROVE  SubSeq(s, 1, m) \in Seq(nodes)
    OBVIOUS
  <2>2. ASSUME NEW c \in roots PROVE cut[c] \in Seq(nodes)
    <3>1. chains[c] \in Seq(nodes)
      BY <1>3
    <3>2. Min({depth, Len(chains[c])}) \in 0..Len(chains[c])
      BY <3>1, <1>5 DEF Min
    <3>3. cut[c] = SubSeq(chains[c], 1, Min({depth, Len(chains[c])}))
      BY <1>3
    <3> HIDE DEF cut, chains, depth
    <3> QED BY <2>1, <3>1, <3>2, <3>3
  <2>3. DOMAIN chains = roots
    BY <1>3
  <2> HIDE DEF cut, chains, roots
  <2> QED BY <2>2, <2>3
<1>7. Cardinality(involved) \in Nat
  <2>1. IsFiniteSet(Hash)
    BY ChainAssumption
  <2>2. IsFiniteSet(involved)
    <3> HIDE DEF involved
    <3> QED BY <1>6, <2>1, FS_Subset
  <2> HIDE DEF involved
  <2> QED BY <2>2, FS_CardinalityType
<1>8. ASSUME finished
      PROVE  /\ Number[chains[main][depth]] \in {Number[h] : h \in nodes}
             /\ chains[main][depth + 1] \in nodes
  <2>1. main \in roots /\ Len(chains[main]) > depth
    BY <1>3, <1>8 DEF Longest
  <2>2. chains[main] \in Seq(nodes)
    BY <1>3, <2>1
  <2>3. chains[main][depth] \in nodes /\ chains[main][depth + 1] \in nodes
    BY <1>5, <2>1, <2>2
  <2> QED BY <2>3
<1>9. /\ r.StartBlockHeight = Number[p] + 1
      /\ r.EndBlockHeight = IF finished THEN Number[chains[main][depth]] ELSE 0
      /\ r.Depth = depth /\ r.BlocksInvolved = involved
      /\ r.IsFinished = finished /\ r.SeenLive \in BOOLEAN
      /\ r.FirstBlockAfterReorg = IF finished THEN chains[main][depth + 1] ELSE Nil
  BY <1>2 DEF NewReorg
<1>10. r.StartBlockHeight \in Nat /\ r.EndBlockHeight \in Nat
  <2>1. \A h \in nodes : Number[h] \in Nat
    BY ChainAssumption
  <2> HIDE DEF involved, main, finished, depth, chains, roots
  <2> QED BY <1>4, <1>8, <1>9, <2>1
<1>11. r.IsFinished => /\ r.EndBlockHeight \in {Number[h] : h \in nodes}
                       /\ r.FirstBlockAfterReorg \in nodes
  BY <1>8, <1>9
<1>12. Id(r) = <<r.StartBlockHeight, r.EndBlockHeight, r.Depth,
                 Cardinality(r.BlocksInvolved), r.SeenLive>>
  BY DEF Id
<1> HIDE DEF involved, cut, main, finished, depth, chains, roots
<1> QED BY <1>5, <1>6, <1>7, <1>9, <1>10, <1>11, <1>12 DEF IdType

\* The chain of a child: what is below it, each block once, depth first.
IsChain(chain, c, nodes) ==
  /\ chain \in Seq(nodes) /\ Len(chain) \in Nat /\ Len(chain) >= 1 /\ chain[1] = c
  /\ \A h : (h \in nodes /\ Descends(c, h)) <=> \E i \in 1..Len(chain) : chain[i] = h
  /\ \A i, j \in 1..Len(chain) : chain[i] = chain[j] => i = j
  /\ \A i \in 2..Len(chain) : Descends(ParentHash[chain[i]], chain[i - 1])

\* The chains of a fork share no block.
LEMMA ChainsOfFork ==
  ASSUME NEW nodes \in SUBSET Hash, NEW w, IsListing(w, nodes), NEW p \in Forks(nodes)
  PROVE  LET roots == Children(nodes, p)  chains == ChainsBelow(w, p)
         IN /\ roots \subseteq nodes /\ Cardinality(roots) > 1 /\ DOMAIN chains = roots
            /\ chains \in [roots -> Seq(nodes)]
            /\ \A c \in roots : IsChain(chains[c], c, nodes) /\ Number[c] = Number[p] + 1
            /\ \A c, d \in roots : \A h \in Hash : Descends(c, h) /\ Descends(d, h) => c = d
<1> DEFINE roots  == Children(nodes, p)
           chains == ChainsBelow(w, p)
<1>1. roots \subseteq nodes /\ Cardinality(roots) > 1 /\ p \in Hash
  BY DEF Forks, Children
<1>2. chains = [c \in roots |-> ChainOf(w, c)]
  BY DEF IsListing, ChainsBelow
<1>3. ASSUME NEW c \in roots PROVE IsChain(chains[c], c, nodes) /\ chains[c] \in Seq(nodes)
  <2> DEFINE chain == ChainOf(w, c)
  <2>1. /\ chain \in Seq(nodes) /\ Len(chain) \in Nat /\ Len(chain) >= 1 /\ chain[1] = c
        /\ {chain[i] : i \in 1..Len(chain)} = {h \in nodes : Descends(c, h)}
        /\ \A i, j \in 1..Len(chain) : chain[i] = chain[j] => i = j
        /\ \A i \in 2..Len(chain) : Descends(ParentHash[chain[i]], chain[i - 1])
    BY <1>1, ChainOfListing
  <2>2. chains[c] = chain
    BY <1>2
  <2> HIDE DEF chain
  <2> QED BY <2>1, <2>2 DEF IsChain
<1>4. \A c \in roots : c \in Hash /\ Number[c] = Number[p] + 1
  BY <1>1, NumberType DEF Children
<1>5. ASSUME NEW c \in roots, NEW d \in roots, NEW h \in Hash, Descends(c, h), Descends(d, h)
      PROVE  c = d
  <2>1. c \in Hash /\ d \in Hash /\ Number[c] = Number[d] /\ Number[c] \in Nat
    BY <1>4, NumberType
  <2>2. Descends(c, d)
    BY <1>5, <2>1, DescendsLinear
  <2> QED BY <2>1, <2>2, DescendsUp
<1>6. chains \in [roots -> Seq(nodes)] /\ DOMAIN chains = roots
  BY <1>2, <1>3
<1> QED BY <1>1, <1>3, <1>4, <1>5, <1>6

\* What NewReorg (reorg.go:33) says of a fork.
LEMMA WhatIsReported ==
  ASSUME NEW nodes \in SUBSET Hash, NEW w, IsListing(w, nodes), NEW p \in Forks(nodes), NEW B
  PROVE  LET roots  == Children(nodes, p)
             chains == ChainsBelow(w, p)
             depth  == Depth(chains)
             r      == NewReorg(B, p, chains)
         IN /\ r.CommonParent = p /\ r.StartBlockHeight = Number[p] + 1 /\ r.Depth = depth
            /\ r.NumReplacedBlocks = Cardinality(r.BlocksInvolved) - depth
            /\ depth \in Nat /\ depth >= 1
            /\ \A h : h \in r.BlocksInvolved <=>
                 \E c \in roots : \E i \in 1..Len(chains[c]) : i <= depth /\ h = chains[c][i]
            /\ r.IsFinished <=> \E c \in roots : Len(chains[c]) > depth
            /\ r.IsFinished =>
                 /\ r.MainChainHash \in roots /\ Len(chains[r.MainChainHash]) > depth
                 /\ r.EndBlockHeight = Number[chains[r.MainChainHash][depth]]
                 /\ r.FirstBlockAfterReorg = chains[r.MainChainHash][depth + 1]
<1> DEFINE roots    == Children(nodes, p)
           chains   == ChainsBelow(w, p)
           depth    == Depth(chains)
           finished == Longest(chains) # {}
           main     == CHOOSE c \in DOMAIN chains : c \in Longest(chains)
           cut      == [c \in DOMAIN chains |->
                          SubSeq(chains[c], 1, Min({depth, Len(chains[c])}))]
           involved == UNION {{cut[c][i] : i \in DOMAIN cut[c]} : c \in DOMAIN chains}
           r        == NewReorg(B, p, chains)
<1>1. /\ chains \in [roots -> Seq(nodes)] /\ DOMAIN chains = roots
      /\ \A c \in roots : Len(chains[c]) \in Nat /\ Len(chains[c]) >= 1
      /\ roots \subseteq nodes /\ Cardinality(roots) > 1
  BY ChainsOfFork DEF IsChain
<1>2. depth \in Nat /\ depth >= 1
  <2> HIDE DEF chains, roots
  <2> QED BY <1>1, DepthIsSecondLongest
<1>3. /\ r.CommonParent = p /\ r.StartBlockHeight = Number[p] + 1
      /\ r.EndBlockHeight = IF finished THEN Number[chains[main][depth]] ELSE 0
      /\ r.Depth = depth /\ r.BlocksInvolved = involved
      /\ r.NumReplacedBlocks = Cardinality(involved) - depth
      /\ r.IsFinished = finished
      /\ r.MainChainHash = IF finished THEN main ELSE Nil
      /\ r.FirstBlockAfterReorg = IF finished THEN chains[main][depth + 1] ELSE Nil
  BY DEF NewReorg
<1>4. \A h : h \in involved <=>
        \E c \in roots : \E i \in 1..Len(chains[c]) : i <= depth /\ h = chains[c][i]
  <2>1. ASSUME NEW c \in roots, NEW h
        PROVE  (\E i \in DOMAIN cut[c] : h = cut[c][i]) <=>
                 \E i \in 1..Len(chains[c]) : i <= depth /\ h = chains[c][i]
    <3> DEFINE s == chains[c]
               m == Min({depth, Len(s)})
    <3>1. s \in Seq(nodes) /\ Len(s) \in Nat
      BY <1>1
    <3> HIDE DEF s, depth
    <3>2. m \in 0..Len(s) /\ \A i \in 1..Len(s) : i <= depth <=> i <= m
      BY <1>2, <3>1 DEF Min
    <3> HIDE DEF m
    <3>3. SubSeq(s, 1, m) \in Seq(nodes) /\ Len(SubSeq(s, 1, m)) = m
          /\ \A i \in 1..m : SubSeq(s, 1, m)[i] = s[i]
      BY <3>1, <3>2
    <3>4. cut[c] = SubSeq(s, 1, m)
      <4> HIDE DEF chains, roots
      <4> QED BY <1>1 DEF s, m, depth
    <3> DEFINE t == cut[c]
    <3> HIDE DEF t
    <3>5. DOMAIN t = 1..m /\ \A i \in 1..m : t[i] = s[i]
      <4>1. \A u \in Seq(nodes) : DOMAIN u = 1..Len(u)
        OBVIOUS
      <4>2. t = SubSeq(s, 1, m)
        BY <3>4 DEF t
      <4> QED BY <3>3, <4>1, <4>2
    <3>6. \A i : i \in 1..m <=> i \in 1..Len(s) /\ i <= depth
      BY <3>1, <3>2
    <3> QED BY <3>5, <3>6 DEF t, s
  <2> HIDE DEF cut, chains, roots, depth
  <2>2. \A h : h \in involved <=> \E c \in roots : \E i \in DOMAIN cut[c] : h = cut[c][i]
    BY <1>1
  <2> HIDE DEF involved
  <2> DEFINE Kept(c, h) == \E i \in DOMAIN cut[c] : h = cut[c][i]
             Short(c, h) == \E i \in 1..Len(chains[c]) : i <= depth /\ h = chains[c][i]
  <2>3. \A c \in roots : \A h : Kept(c, h) <=> Short(c, h)
    BY <2>1
  <2>4. \A h : h \in involved <=> \E c \in roots : Kept(c, h)
    BY <2>2
  <2> HIDE DEF Kept, Short
  <2>5. \A h : h \in involved <=> \E c \in roots : Short(c, h)
    BY <2>3, <2>4
  <2> QED BY <2>5 DEF Short
<1>5. finished <=> \E c \in roots : Len(chains[c]) > depth
  <2> HIDE DEF chains, roots
  <2> QED BY <1>1 DEF Longest
<1>6. finished => main \in roots /\ Len(chains[main]) > depth
  <2> HIDE DEF chains, roots
  <2> QED BY <1>1 DEF Longest
<1> HIDE DEF involved, cut, main, finished, depth, chains, roots, r
<1>7. r.IsFinished =>
        /\ r.MainChainHash \in roots /\ Len(chains[r.MainChainHash]) > depth
        /\ r.EndBlockHeight = Number[chains[r.MainChainHash][depth]]
        /\ r.FirstBlockAfterReorg = chains[r.MainChainHash][depth + 1]
  BY <1>3, <1>6
<1>8. r.IsFinished <=> \E c \in roots : Len(chains[c]) > depth
  BY <1>3, <1>5
<1>9. \A h : h \in r.BlocksInvolved <=>
        \E c \in roots : \E i \in 1..Len(chains[c]) : i <= depth /\ h = chains[c][i]
  BY <1>3, <1>4
<1> QED BY <1>2, <1>3, <1>7, <1>8, <1>9 DEF depth, chains, roots, r

\* A chain without a fork is a path: each block is the parent of the next.
IsPath(s, c) ==
  \A i \in 1..Len(s) : /\ Number[s[i]] = Number[c] + i - 1
                       /\ \A j \in 1..i : Descends(s[j], s[i])
                       /\ i # 1 => ParentHash[s[i]] = s[i - 1]

\* Where no node below c has two children, the listing has nowhere to go but to
\* the next block up.
LEMMA UnforkedChainIsPath ==
  ASSUME NEW nodes \in SUBSET Hash, NEW c \in nodes, NEW s, IsChain(s, c, nodes),
         \A h \in nodes : Descends(c, h) => \A x, y \in Children(nodes, h) : x = y,
         \A x \in Hash, y \in nodes : Descends(c, x) /\ Descends(x, y) => x \in nodes
  PROVE  IsPath(s, c)
<1> DEFINE P(i) == /\ Number[s[i]] = Number[c] + i - 1
                   /\ \A j \in 1..i : Descends(s[j], s[i])
                   /\ i # 1 => ParentHash[s[i]] = s[i - 1]
           wrong == {i \in 1..Len(s) : ~ P(i)}
<1>1. /\ Len(s) \in Nat /\ Len(s) >= 1 /\ s[1] = c
      /\ \A i \in 1..Len(s) : s[i] \in nodes /\ s[i] \in Hash /\ Descends(c, s[i])
      /\ \A i, j \in 1..Len(s) : s[i] = s[j] => i = j
      /\ \A i \in 2..Len(s) : Descends(ParentHash[s[i]], s[i - 1])
      /\ c \in Hash /\ Number[c] \in Nat
  BY NumberType DEF IsChain
<1> SUFFICES ASSUME wrong # {} PROVE FALSE
  BY DEF IsPath
<1>2. PICK k \in wrong : \A j \in wrong : k <= j
  <2>1. wrong \in SUBSET Nat
    BY <1>1
  <2> HIDE DEF wrong
  <2> QED BY <2>1, LeastElement
<1>3. k \in 1..Len(s) /\ ~ P(k)
  OBVIOUS
<1>4. CASE k = 1
  <2>1. \A j \in 1..k : s[j] = c
    BY <1>1, <1>4
  <2>2. Descends(c, c)
    BY <1>1, DescendsStep
  <2> QED BY <1>1, <1>3, <1>4, <2>1, <2>2
<1>5. CASE k # 1
  <2>1. k - 1 \in 1..Len(s) /\ k \in 2..Len(s) /\ k \in Nat
    BY <1>1, <1>3, <1>5
  <2>2. \A i \in 1..k - 1 : P(i)
    <3> SUFFICES ASSUME NEW i \in 1..k - 1 PROVE P(i)
      OBVIOUS
    <3>1. i \in 1..Len(s) /\ i \notin wrong
      <4> HIDE DEF wrong
      <4> QED BY <1>1, <1>2, <2>1
    <3> QED BY <3>1
  <2> DEFINE b == s[k]
             a == s[k - 1]
             q == ParentHash[b]
  <2>3. /\ b \in Hash /\ a \in Hash /\ b \in nodes /\ a \in nodes
        /\ Descends(c, b) /\ Descends(c, a) /\ Descends(q, a) /\ b # c
    <3>1. b # c
      BY <1>1, <1>3, <1>5
    <3> QED BY <1>1, <1>3, <2>1, <3>1
  <2>4. q \in Hash /\ Descends(c, q) /\ Number[b] = Number[q] + 1 /\ Number[q] \in Nat
    BY <2>3, DescendsStep, NumberType
  <2>5. q \in nodes
    BY <2>3, <2>4
  <2>6. q = a
    <3> SUFFICES ASSUME q # a PROVE FALSE
      OBVIOUS
    <3>1. PICK d \in Hash : ParentHash[d] = q /\ Descends(d, a)
      <4> HIDE DEF a, q
      <4> QED BY <2>3, ChildTowards
    <3>2. Descends(c, d)
      <4> HIDE DEF q
      <4> QED BY <2>4, <3>1, DescendsStep
    <3>3. d \in nodes
      BY <2>3, <3>1, <3>2
    <3>4. d = b
      BY <2>3, <2>4, <2>5, <3>1, <3>3 DEF Children
    <3>5. Number[c] <= Number[b] /\ Number[b] <= Number[a] /\ Number[b] \in Nat
      BY <2>3, <3>1, <3>4, DescendsUp, NumberType
    <3> DEFINE j == Number[b] - Number[c] + 1
    <3>6. Number[a] = Number[c] + (k - 1) - 1
      BY <2>1, <2>2
    <3>7. j \in 1..k - 1 /\ Number[c] + j - 1 = Number[b]
      <4> DEFINE x == Number[b]
                 y == Number[a]
                 z == Number[c]
      <4>1. x \in Nat /\ z \in Nat /\ z <= x /\ x <= y /\ y = z + (k - 1) - 1 /\ k \in Nat
        BY <1>1, <2>1, <3>5, <3>6
      <4>2. y \in Nat
        BY <4>1
      <4>3. ASSUME NEW e \in Nat, NEW f \in Nat, NEW g \in Nat, NEW l \in Nat,
                   g <= e, e <= f, f = g + (l - 1) - 1
            PROVE  e - g + 1 \in 1..l - 1 /\ g + (e - g + 1) - 1 = e
        BY <4>3
      <4> HIDE DEF x, y, z
      <4>4. x - z + 1 \in 1..k - 1 /\ z + (x - z + 1) - 1 = x
        BY <4>1, <4>2, <4>3
      <4> QED BY <4>4 DEF x, z
    <3>8. Number[s[j]] = Number[c] + j - 1 /\ Descends(s[j], a) /\ j \in 1..Len(s)
      <4>1. k - 1 \in 1..k - 1 /\ j \in 1..Len(s)
        BY <1>1, <2>1, <3>7
      <4> HIDE DEF j
      <4> QED BY <2>2, <3>7, <4>1
    <3>9. Number[s[j]] = Number[b] /\ s[j] \in Hash
      <4> HIDE DEF j, b
      <4> QED BY <1>1, <3>7, <3>8
    <3> DEFINE g == s[j]
    <3> HIDE DEF g, a, b
    <3>10. g \in Hash /\ Number[g] = Number[b] /\ Descends(g, a) /\ Descends(b, a)
      BY <3>1, <3>4, <3>8, <3>9 DEF g
    <3>11. Descends(g, b)
      BY <2>3, <3>5, <3>10, DescendsLinear
    <3>12. g = b
      BY <2>3, <3>10, <3>11, DescendsUp
    <3>13. j = k
      BY <1>1, <1>3, <3>8, <3>12 DEF g, b
    <3> QED BY <2>1, <3>7, <3>13
  <2>7. Number[s[k]] = Number[c] + k - 1
    <3>1. Number[a] = Number[c] + (k - 1) - 1
      BY <2>1, <2>2
    <3>2. Number[b] = Number[a] + 1
      BY <2>4, <2>6
    <3> DEFINE x == Number[b]
               y == Number[a]
               z == Number[c]
    <3>3. x = y + 1 /\ y = z + (k - 1) - 1 /\ k \in Nat /\ z \in Nat
      BY <1>1, <2>1, <3>1, <3>2
    <3> HIDE DEF x, y, z
    <3>4. x = z + k - 1
      BY <3>3
    <3> QED BY <3>4 DEF x, z
  <2>8. \A j \in 1..k : Descends(s[j], s[k])
    <3> SUFFICES ASSUME NEW j \in 1..k PROVE Descends(s[j], s[k])
      OBVIOUS
    <3>1. CASE j = k
      BY <2>3, <3>1, DescendsStep
    <3>2. CASE j # k
      <4>1. j \in 1..k - 1 /\ k - 1 \in 1..k - 1
        BY <2>1, <3>2
      <4>2. Descends(s[j], a)
        BY <2>2, <4>1
      <4> HIDE DEF a
      <4> QED BY <2>3, <2>4, <2>6, <4>2, DescendsStep
    <3> QED BY <3>1, <3>2
  <2> QED BY <1>3, <2>6, <2>7, <2>8
<1> QED BY <1>4, <1>5
=============================================================================

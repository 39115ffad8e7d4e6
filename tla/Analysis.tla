------------------------------ MODULE Analysis ------------------------------
(***************************************************************************)
(* The analysis package: which blocks of the cache make up the block tree, *)
(* and what NewReorg says of a node with more than one child.  These are   *)
(* functions of the cached blocks and of one choice, the order in which Go *)
(* iterates over the blocks of a height, which fixes the order of the      *)
(* children of every node and with it the depth-first order of the tree.   *)
(* BlockTree.tla has the loop that builds the tree, block by block.        *)
(***************************************************************************)
EXTENDS Chain

At(cached, height) == {h \in cached : Number[h] = height}

Children(nodes, p) == {c \in nodes : ParentHash[c] = p}

-----------------------------------------------------------------------------
(* AnalyzeTree: the blocks of the heights start..end, from the first height *)
(* with a single block on.                                                  *)

\* The height at which the tree starts; only if some height has one block.
Singles(cached, start, end) ==
  {n \in start..end : Cardinality(At(cached, n)) = 1}

TreeNodes(cached, start, end) ==
  LET singles == Singles(cached, start, end)
  IN IF singles = {} THEN {}
     ELSE UNION {At(cached, n) : n \in Min(singles)..end}

\* Blocks of the tree, the lowest aside, whose parent is not in it.
Orphans(nodes) ==
  {h \in nodes : /\ ParentHash[h] \notin nodes
                 /\ \E g \in nodes : g # h /\ Number[g] <= Number[h]}

\* AnalyzeTree returns an error and no tree: a height without blocks, or a
\* block that does not grow out of the first node.
AnalysisFails(cached, start, end) ==
  \/ \E n \in start..end : At(cached, n) = {}
  \/ Orphans(TreeNodes(cached, start, end)) # {}

-----------------------------------------------------------------------------
(* The depth-first listings of a tree.  A block follows its parent, or the  *)
(* last block below an elder sibling: its parent is the block listed before *)
(* it or an ancestor of that block.                                         *)

Root(nodes) == CHOOSE h \in nodes : \A g \in nodes : Number[h] <= Number[g]

DepthFirst(w) == \A i \in 2..Len(w) : Descends(ParentHash[w[i]], w[i - 1])

\* Depth-first listings of the first k blocks, some of which lead nowhere.
Listings(nodes) ==
  LET f[k \in 1..Cardinality(nodes)] ==
        IF k = 1 THEN {<<Root(nodes)>>}
        ELSE {w \in {Append(v, h) : v \in f[k - 1],
                                    h \in nodes \ {Root(nodes)}} :
                /\ Descends(ParentHash[w[k]], w[k - 1])
                /\ \A i \in 1..(k - 1) : w[i] # w[k]}
  IN f

Walks(nodes) ==
  {w \in Listings(nodes)[Cardinality(nodes)] :
     w \in Seq(nodes) /\ DepthFirst(w) /\ nodes = {w[i] : i \in DOMAIN w}}

-----------------------------------------------------------------------------
(* NewReorg(node).  A "chain" of the reorg is the depth-first listing of    *)
(* everything below a child of the node: a path if it has no fork of its    *)
(* own, as far as the code's names go.                                      *)

\* Fault: the chain of a child is not started afresh.
ChainSoFar(w, c) == SubSeq(w, 2, Max({i \in DOMAIN w : w[i] = c \/ Descends(c, w[i])}))

ChainOf(w, c) ==
  LET below == {i \in DOMAIN w : w[i] = c \/ Descends(c, w[i])}
  IN SubSeq(w, Min(below), Max(below))

ChainsBelow(w, p) ==
  [c \in Children({w[i] : i \in DOMAIN w}, p) |-> ChainOf(w, c)]

\* Fault: the length of the longest chain.
LongestLength(chains) == Max({Len(chains[c]) : c \in DOMAIN chains})

\* The length of the second longest of the chains.
Depth(chains) ==
  Max({Min({Len(chains[e[1]]), Len(chains[e[2]])}) :
         e \in {e \in (DOMAIN chains) \X (DOMAIN chains) : e[1] # e[2]}})

\* The chains longer than the second longest: one, or none on a tie.
Longest(chains) == {c \in DOMAIN chains : Len(chains[c]) > Depth(chains)}

NewReorg(BlockByHash, p, chains) ==
  LET depth    == Depth(chains)
      finished == Longest(chains) # {}
      main     == CHOOSE c \in DOMAIN chains : c \in Longest(chains)
      cut      == [c \in DOMAIN chains |->
                     SubSeq(chains[c], 1, Min({depth, Len(chains[c])}))]
      involved == UNION {{cut[c][i] : i \in DOMAIN cut[c]} : c \in DOMAIN chains}
  IN [CommonParent         |-> p,
      StartBlockHeight     |-> Number[p] + 1,
      EndBlockHeight       |-> IF finished THEN Number[chains[main][depth]] ELSE 0,
      Chains               |-> cut,
      Depth                |-> depth,
      BlocksInvolved       |-> involved,
      NumReplacedBlocks    |-> Cardinality(involved) - depth,
      EthNodesInvolved     |-> {BlockByHash[h].node : h \in involved},
      IsFinished           |-> finished,
      SeenLive             |-> \A h \in involved : BlockByHash[h].origin # "Uncle",
      MainChainHash        |-> IF finished THEN main ELSE Nil,
      FirstBlockAfterReorg |-> IF finished THEN chains[main][depth + 1] ELSE Nil]

\* The string the code formats these five numbers into is one to one.
Id(r) == <<r.StartBlockHeight, r.EndBlockHeight, r.Depth,
           Cardinality(r.BlocksInvolved), r.SeenLive>>

IdType == Nat \X Nat \X Nat \X Nat \X BOOLEAN

ASSUME IdAssumption == Nil \notin IdType

\* NewTreeAnalysis: every node with more than one child starts a reorg.
Forks(nodes) == {p \in nodes : Cardinality(Children(nodes, p)) > 1}

FoundReorgs(BlockByHash, w) ==
  {NewReorg(BlockByHash, f[1], f[2]) :
     f \in {<<p, ChainsBelow(w, p)>> : p \in Forks({w[i] : i \in DOMAIN w})}}

\* Fault: a fork that is not over takes no place in the map.
MapOfFinished(found) == {{r \in found : r.IsFinished}}

\* The Reorgs map is keyed by Id: of the reorgs with the same Id one is kept.
ReorgMaps(found) ==
  {S \in SUBSET found : /\ {Id(r) : r \in S} = {Id(r) : r \in found}
                        /\ \A r, s \in S : Id(r) = Id(s) => r = s}
=============================================================================

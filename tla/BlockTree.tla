----------------------------- MODULE BlockTree -----------------------------
(***************************************************************************)
(* ReorgMonitor.AnalyzeTree and analysis.BlockTree, step by step: one call *)
(* over an arbitrary cache, with the two arguments of its callers.         *)
(*                                                                         *)
(* A node of the tree is named by the hash of its block.  The heights are  *)
(* unsigned: the subtractions that choose the window wrap around.          *)
(***************************************************************************)
EXTENDS Analysis, SequencesExt

CONSTANTS Caches,     \* the contents of BlockByHash to analyse
          Arguments,  \* pairs <<maxBlocks, distanceToLastBlockHeight>>
          Uint        \* the unsigned heights are 0 .. Uint - 1

ASSUME BlockTreeAssumption ==
  /\ Caches \subseteq [Hash -> Block \cup {Nil}]
  /\ \A c \in Caches : c # [h \in Hash |-> Nil]
  /\ Uint \in Nat \ {0} /\ \A h \in Hash : Number[h] < Uint - 1
  /\ Arguments \subseteq (0..Uint - 1) \X (0..Uint - 1)

VARIABLES
  BlockByHash,           \* the cache; it does not change during the call
  EarliestBlockNumber, LatestBlockNumber,
  arguments,             \* <<maxBlocks, distanceToLastBlockHeight>>
  pc,                    \* "window", "height", "blocks" or "done"
  height, endBlockNumber,
  todo,                  \* blocks of this height not yet added
  FirstNode, LatestNodes, NodeByHash, children, MainChainNodeByHash,
  err, Reorgs            \* the result

call   == <<BlockByHash, EarliestBlockNumber, LatestBlockNumber, arguments>>
tree   == <<FirstNode, LatestNodes, NodeByHash, children, MainChainNodeByHash>>
vars   == <<call, pc, height, endBlockNumber, todo, tree, err, Reorgs>>

Cached == {h \in Hash : BlockByHash[h] # Nil}

\* The highest block is always cached; the earliest height of the window may
\* have been emptied (TrimCache).
Init ==
  /\ BlockByHash \in Caches
  /\ LatestBlockNumber = Max({Number[h] : h \in Cached})
  /\ EarliestBlockNumber \in {Min({Number[h] : h \in Cached}), Min(Height)}
  /\ arguments \in Arguments
  /\ pc = "window" /\ height = 0 /\ endBlockNumber = 0 /\ todo = {}
  /\ FirstNode = Nil /\ LatestNodes = <<>> /\ NodeByHash = {}
  /\ children = [h \in Hash |-> <<>>] /\ MainChainNodeByHash = {}
  /\ err = "none" /\ Reorgs = {}

-----------------------------------------------------------------------------
\* Fault: signed heights.
Signed(n) == n

Wrap(n) == n % Uint

StartBlockNumber(end, maxBlocks) ==
  IF maxBlocks > 0 /\ Wrap(end - maxBlocks) > EarliestBlockNumber
  THEN Wrap(end - maxBlocks)
  ELSE EarliestBlockNumber

\* The first and the last height of the search.
Window ==
  /\ pc = "window" /\ pc' = "height"
  /\ endBlockNumber' = Wrap(LatestBlockNumber - arguments[2])
  /\ height' = StartBlockNumber(endBlockNumber', arguments[1])
  /\ UNCHANGED <<call, todo, tree, err, Reorgs>>

\* Fault: the last height is left out.
BeforeEnd == pc = "height" /\ height < endBlockNumber

InWindow == pc = "height" /\ height <= endBlockNumber

\* Fault: a height without blocks is passed over.
PassOver ==
  /\ InWindow /\ At(Cached, height) = {}
  /\ height' = Wrap(height + 1)
  /\ UNCHANGED <<call, pc, endBlockNumber, todo, tree, err, Reorgs>>

NoBlocks ==
  /\ InWindow /\ At(Cached, height) = {}
  /\ err' = "no blocks at height" /\ pc' = "done"
  /\ UNCHANGED <<call, height, endBlockNumber, todo, tree, Reorgs>>

\* The tree starts only where there is one block.
SkipHeight ==
  /\ InWindow /\ FirstNode = Nil /\ Cardinality(At(Cached, height)) > 1
  /\ height' = Wrap(height + 1)
  /\ UNCHANGED <<call, pc, endBlockNumber, todo, tree, err, Reorgs>>

EnterHeight ==
  /\ InWindow /\ At(Cached, height) # {}
  /\ FirstNode # Nil \/ Cardinality(At(Cached, height)) = 1
  /\ todo' = At(Cached, height) /\ pc' = "blocks"
  /\ UNCHANGED <<call, height, endBlockNumber, tree, err, Reorgs>>

\* BlockTree.AddBlock.  Go visits the blocks of a height in any order.
AddFirst(block) ==
  /\ pc = "blocks" /\ block \in todo /\ FirstNode = Nil
  /\ FirstNode' = block /\ LatestNodes' = <<block>> /\ NodeByHash' = {block}
  /\ todo' = todo \ {block}
  /\ UNCHANGED <<call, pc, height, endBlockNumber, children,
                 MainChainNodeByHash, err, Reorgs>>

\* Fault: the nodes of the heights below are not dropped.
AlsoLatest(block) == Append(LatestNodes, block)

WithLatest(block) ==
  CASE Number[block] = Number[LatestNodes[1]] -> Append(LatestNodes, block)
    [] Number[block] > Number[LatestNodes[1]] -> <<block>>
    [] OTHER -> LatestNodes

\* The ancestors of a node, itself included: the walk along Parent.
Lineage(nodes, node) == {h \in nodes : Descends(h, node)}

AddChild(block) ==
  /\ pc = "blocks" /\ block \in todo /\ FirstNode # Nil
  /\ ParentHash[block] \in NodeByHash
  /\ NodeByHash' = NodeByHash \cup {block}
  /\ children' = [children EXCEPT ![ParentHash[block]] = Append(@, block)]
  /\ LatestNodes' = WithLatest(block)
  /\ MainChainNodeByHash' = IF Len(LatestNodes') = 1
                            THEN Lineage(NodeByHash', LatestNodes'[1])
                            ELSE {}
  /\ todo' = todo \ {block}
  /\ UNCHANGED <<call, pc, height, endBlockNumber, FirstNode, err, Reorgs>>

ParentNotFound(block) ==
  /\ pc = "blocks" /\ block \in todo /\ FirstNode # Nil
  /\ ParentHash[block] \notin NodeByHash
  /\ err' = "parent not found" /\ pc' = "done"
  /\ UNCHANGED <<call, height, endBlockNumber, todo, tree, Reorgs>>

NextHeight ==
  /\ pc = "blocks" /\ todo = {}
  /\ height' = Wrap(height + 1) /\ pc' = "height"
  /\ UNCHANGED <<call, endBlockNumber, todo, tree, err, Reorgs>>

\* addChildToChainRecursive: the node, then what is below each child in turn.
DepthFirstOf ==
  LET walk[h \in Hash] ==
        <<h>> \o FlattenSeq([i \in DOMAIN children[h] |-> walk[children[h][i]]])
  IN walk

\* NewTreeAnalysis.
Analyse ==
  /\ pc = "height" /\ ~ InWindow /\ pc' = "done"
  /\ \/ FirstNode = Nil /\ Reorgs' = {}
     \/ /\ FirstNode # Nil
        /\ \E w \in {DepthFirstOf[FirstNode]} :
           \E found \in {FoundReorgs(BlockByHash, w)} : Reorgs' \in ReorgMaps(found)
  /\ UNCHANGED <<call, height, endBlockNumber, todo, tree, err>>

\* The loop over the heights of the window.
Search ==
  \/ Window \/ NoBlocks \/ SkipHeight \/ EnterHeight \/ NextHeight
  \/ \E block \in Hash : AddFirst(block) \/ AddChild(block) \/ ParentNotFound(block)

Next == Search \/ Analyse

Spec == Init /\ [][Next]_vars /\ WF_vars(Search)

-----------------------------------------------------------------------------
(* Properties. *)

\* Every variable holds a value of the type its Go field has.
TypeOK ==
  /\ BlockByHash \in [Hash -> Block \cup {Nil}]
  /\ {EarliestBlockNumber, LatestBlockNumber, height, endBlockNumber} \subseteq 0..Uint - 1
  /\ pc \in {"window", "height", "blocks", "done"}
  /\ todo \subseteq Cached /\ NodeByHash \subseteq Cached
  /\ FirstNode \in NodeByHash \cup {Nil}
  /\ LatestNodes \in Seq(NodeByHash)
  /\ children \in [Hash -> Seq(NodeByHash)]
  /\ MainChainNodeByHash \subseteq NodeByHash
  /\ err \in {"none", "no blocks at height", "parent not found"}
  /\ \A r \in Reorgs : r.CommonParent \in NodeByHash

\* What AnalyzeTree (monitor.go:242) gives its callers: an error exactly when
\* a height of the window is empty or a block of the tree has no parent in it;
\* otherwise the tree of all blocks from the lowest unforked height on.  It is
\* the one-step AnalyzeTree of the other modules.
ResultIsTheTree ==
  LET start == StartBlockNumber(endBlockNumber, arguments[1])
  IN pc = "done" =>
       /\ err # "none" <=> AnalysisFails(Cached, start, endBlockNumber)
       /\ err = "none" =>
            /\ NodeByHash = TreeNodes(Cached, start, endBlockNumber)
            /\ NodeByHash # {} => DepthFirstOf[FirstNode] \in Walks(NodeByHash)

\* BlockTree.AddBlock (tree.go:47): between two insertions LatestNodes are the
\* highest nodes, each once, and the main chain is a path from the first node
\* to the highest one, known only when a single node is highest.
MainChainLeadsToTheHighest ==
  LET highest == {h \in NodeByHash : \A g \in NodeByHash : Number[g] <= Number[h]}
      main    == MainChainNodeByHash
  IN /\ ToSet(LatestNodes) = highest /\ Len(LatestNodes) = Cardinality(highest)
     /\ IF Cardinality(highest) = 1 /\ NodeByHash # {FirstNode}
        THEN /\ {FirstNode, LatestNodes[1]} \subseteq main
             /\ \A h \in main : h # FirstNode => ParentHash[h] \in main
             /\ \A g, h \in main : Number[g] = Number[h] => g = h
        ELSE main = {}

\* The branches of the tree below a child of a fork have no fork of their own.
Simple(r) ==
  \A h \in NodeByHash : /\ Descends(r.CommonParent, h) /\ h # r.CommonParent
                        => Len(children[h]) < 2

HeightOf(c) == Max({Number[h] : h \in {h \in NodeByHash : Descends(c, h)}})

\* NewReorg (reorg.go:33) on a fork whose branches do not fork again: the
\* reorg is finished when one branch is strictly the highest; it is then as
\* deep as the runner-up is long, ends where the runner-up ends, and is
\* followed by the next block of the highest branch.
SimpleReorgIsExact ==
  \A r \in Reorgs : Simple(r) =>
    LET roots     == Children(NodeByHash, r.CommonParent)
        higher(c) == {d \in roots : d # c /\ HeightOf(d) >= HeightOf(c)}
        first     == {c \in roots : higher(c) = {}}
        runnerUp  == Max({HeightOf(c) : c \in roots \ first})
    IN /\ r.IsFinished <=> first # {}
       /\ r.Depth = runnerUp + 1 - r.StartBlockHeight
       /\ r.BlocksInvolved = {h \in NodeByHash :
            /\ \E c \in roots : Descends(c, h)
            /\ Number[h] \in r.StartBlockHeight..runnerUp}
       /\ r.IsFinished =>
            /\ r.MainChainHash \in first /\ r.EndBlockHeight = runnerUp
            /\ ParentHash[r.FirstBlockAfterReorg] \in r.BlocksInvolved
            /\ Number[r.FirstBlockAfterReorg] = runnerUp + 1
            /\ Descends(r.MainChainHash, r.FirstBlockAfterReorg)

\* NewReorg on any fork, forks below it or not: a finished reorg ends within
\* its blocks, replaces as many blocks as lie outside the chain that goes on,
\* and the block after it lies above the fork and is not counted in (Print
\* and MermaidSyntax, reorg.go:135, use that block unchecked).
FinishedReorgGoesOn ==
  \A r \in Reorgs : r.IsFinished =>
    /\ r.FirstBlockAfterReorg \in NodeByHash \ r.BlocksInvolved
    /\ Descends(r.MainChainHash, r.FirstBlockAfterReorg)
    /\ \E h \in r.BlocksInvolved : /\ Number[h] = r.EndBlockHeight
                                   /\ Descends(r.MainChainHash, h)
    /\ r.NumReplacedBlocks =
         Cardinality({h \in r.BlocksInvolved : ~ Descends(r.MainChainHash, h)})

\* NewTreeAnalysis (treeanalysis.go:42-50): forks that overwrite each other in
\* the Reorgs map are forks at one height.  At every height with forks one is
\* reported; a fork alone at its height always is, whether it is over or not.
LoneForksAreReported ==
  pc = "done" /\ err = "none" =>
    \A p \in Forks(NodeByHash) :
      \E r \in Reorgs : /\ r.CommonParent \in Forks(NodeByHash)
                        /\ Number[r.CommonParent] = Number[p]

\* The search of every call ends (monitor.go:254): the window may wrap around,
\* but then a height without blocks comes before its end, which the heights
\* would never get past.
SearchEnds == <>(pc = "done" \/ (pc = "height" /\ ~ InWindow))

-----------------------------------------------------------------------------
(* What a comment says of the program, and the code does not do. *)

\* reorg.go:85: "If two chains with same height, then the reorg isn't yet
\* finalized".  The code compares numbers of blocks, which are not heights
\* when a branch forks again.
SameHeightIsNotFinished ==
  \A r \in Reorgs : r.IsFinished =>
    \A c \in DOMAIN r.Chains \ {r.MainChainHash} :
      HeightOf(c) # HeightOf(r.MainChainHash)
=============================================================================

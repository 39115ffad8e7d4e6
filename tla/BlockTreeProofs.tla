-------------------------- MODULE BlockTreeProofs --------------------------
(***************************************************************************)
(* Proofs about BlockTree: at every step of AnalyzeTree the tree holds the *)
(* blocks of the heights searched so far, each below its parent, and so    *)
(* the result is what the one-step AnalyzeTree of the other modules says.  *)
(*                                                                         *)
(* IInv is inductive.  Its parts: the types (TreeType), the tree as        *)
(* AddBlock keeps it (Shape), how far the search has come (Progress), and  *)
(* where the reorgs come from (Result).  The depth-first listing that      *)
(* NewReorg works on is then shown to be one of the tree, each node once.  *)
(***************************************************************************)
EXTENDS BlockTree, AnalysisProofs

USE BlockTreeAssumption

\* The height the search starts at.
StartHeight == StartBlockNumber(endBlockNumber, arguments[1])

\* A list without repetitions.
Single(s) == \A i, j \in DOMAIN s : s[i] = s[j] => i = j

\* The highest nodes.
Highest == {h \in NodeByHash : \A g \in NodeByHash : Number[g] <= Number[h]}

\* The tree as AddBlock keeps it: all nodes but the first lie above the first
\* and below their parent; children and LatestNodes list what they should, once.
Shape ==
  /\ FirstNode = Nil =>
       /\ NodeByHash = {} /\ LatestNodes = <<>> /\ MainChainNodeByHash = {}
       /\ children = [h \in Hash |-> <<>>]
  /\ FirstNode # Nil =>
       /\ FirstNode \in NodeByHash
       /\ \A h \in NodeByHash \ {FirstNode} :
            Number[FirstNode] < Number[h] /\ ParentHash[h] \in NodeByHash
       /\ \A p \in Hash :
            /\ ToSet(children[p]) = Children(NodeByHash \ {FirstNode}, p)
            /\ Single(children[p])
       /\ ToSet(LatestNodes) = Highest /\ Single(LatestNodes)
       /\ MainChainNodeByHash =
            IF Len(LatestNodes) = 1 /\ NodeByHash # {FirstNode}
            THEN Lineage(NodeByHash, LatestNodes[1]) ELSE {}

\* How far the search has come: the heights below this one have blocks, all of
\* them in the tree from the height of the first node on, the lowest with one
\* block; of this height those are in the tree that are no longer to do.
Progress ==
  /\ pc = "window" => FirstNode = Nil /\ err = "none"
  /\ pc \in {"height", "blocks"} \/ (pc = "done" /\ err = "none") =>
       /\ StartHeight <= height
       /\ height <= endBlockNumber + 1 \/ height = StartHeight
       /\ \A n \in StartHeight..height - 1 : At(Cached, n) # {}
       /\ FirstNode = Nil => \A n \in StartHeight..height - 1 : Cardinality(At(Cached, n)) # 1
       /\ FirstNode # Nil =>
            /\ Number[FirstNode] \in StartHeight..height
            /\ Number[FirstNode] = height => pc = "blocks"
            /\ At(Cached, Number[FirstNode]) = {FirstNode}
            /\ \A n \in StartHeight..Number[FirstNode] - 1 : Cardinality(At(Cached, n)) # 1
            /\ \A h \in Cached : h \in NodeByHash <=>
                 \/ Number[h] \in Number[FirstNode]..height - 1
                 \/ pc = "blocks" /\ Number[h] = height /\ h \notin todo
  /\ pc = "blocks" =>
       /\ height <= endBlockNumber /\ At(Cached, height) # {}
       /\ todo \subseteq At(Cached, height)
       /\ FirstNode = Nil => todo = At(Cached, height) /\ Cardinality(todo) = 1
  /\ pc # "done" => err = "none"
  /\ pc = "done" => IF err = "none" THEN endBlockNumber < height
                    ELSE AnalysisFails(Cached, StartHeight, endBlockNumber)

\* Reorgs are those of the tree, and there are none before the end.
Result ==
  IF pc = "done" /\ err = "none" /\ FirstNode # Nil
  THEN Reorgs \in ReorgMaps(FoundReorgs(BlockByHash, DepthFirstOf[FirstNode]))
  ELSE Reorgs = {}

\* The variables, Reorgs aside.
TreeType ==
  /\ BlockByHash \in [Hash -> Block \cup {Nil}]
  /\ arguments \in (0..Uint - 1) \X (0..Uint - 1)
  /\ {EarliestBlockNumber, LatestBlockNumber, height, endBlockNumber} \subseteq 0..Uint - 1
  /\ pc \in {"window", "height", "blocks", "done"}
  /\ todo \subseteq Cached /\ NodeByHash \subseteq Cached
  /\ FirstNode \in NodeByHash \cup {Nil}
  /\ LatestNodes \in Seq(NodeByHash)
  /\ children \in [Hash -> Seq(NodeByHash)]
  /\ MainChainNodeByHash \subseteq NodeByHash
  /\ err \in {"none", "no blocks at height", "parent not found"}

\* The inductive invariant.
IInv == TreeType /\ Shape /\ Progress /\ Result


\* Blocks are finitely many, and so are their heights.
LEMMA FiniteNumbers ==
  ASSUME NEW S \in SUBSET Hash
  PROVE  IsFiniteSet(S) /\ IsFiniteSet({Number[h] : h \in S}) /\ {Number[h] : h \in S} \subseteq Nat
<1>1. IsFiniteSet(S)
  BY ChainAssumption, FS_Subset
<1> DEFINE T == {Number[h] : h \in S}
<1>2. [h \in S |-> Number[h]] \in Surjection(S, T)
  BY DEF Surjection
<1>3. T \subseteq Nat
  BY NumberType
<1> HIDE DEF T
<1>4. IsFiniteSet(T)
  BY <1>1, <1>2, FS_Surjection
<1> QED BY <1>1, <1>3, <1>4 DEF T

-----------------------------------------------------------------------------
(* IInv is an invariant. *)

\* Nothing is searched yet.
LEMMA InitInv == Init => IInv
<1> SUFFICES ASSUME Init PROVE IInv
  OBVIOUS
<1>1. BlockByHash \in [Hash -> Block \cup {Nil}] /\ Cached # {} /\ Cached \subseteq Hash
  <2>1. BlockByHash \in [Hash -> Block \cup {Nil}] /\ BlockByHash # [h \in Hash |-> Nil]
    BY DEF Init
  <2> QED BY <2>1 DEF Cached
<1>2. LatestBlockNumber \in 0..Uint - 1 /\ EarliestBlockNumber \in 0..Uint - 1
  <2> DEFINE numbers == {Number[h] : h \in Cached}
  <2>1. /\ numbers \in SUBSET Nat /\ IsFiniteSet(numbers) /\ numbers # {}
        /\ Height \in SUBSET Nat /\ IsFiniteSet(Height) /\ Height # {}
    <3>1. Cached \in SUBSET Hash /\ Hash \in SUBSET Hash
      BY <1>1
    <3>2. /\ numbers \in SUBSET Nat /\ IsFiniteSet(numbers)
          /\ Height \in SUBSET Nat /\ IsFiniteSet(Height)
      BY <3>1, FiniteNumbers DEF Height
    <3> QED BY <1>1, <3>2 DEF Height
  <2>2. \A n \in numbers \cup Height : n \in 0..Uint - 1
    BY <1>1, NumberType DEF Height
  <2>3. /\ LatestBlockNumber = Max(numbers)
        /\ EarliestBlockNumber \in {Min(numbers), Min(Height)}
    BY DEF Init
  <2> HIDE DEF numbers
  <2> QED BY <2>1, <2>2, <2>3, MaxOfFinite, MinOfFinite
<1>3. arguments \in (0..Uint - 1) \X (0..Uint - 1)
  BY DEF Init
<1>4. TreeType
  BY <1>1, <1>2, <1>3 DEF Init, TreeType
<1>5. Shape /\ Progress /\ Result
  BY DEF Init, Shape, Progress, Result
<1> QED BY <1>4, <1>5 DEF IInv

\* A step that does not touch the tree.
LEMMA TreeStays ==
  ASSUME Shape, UNCHANGED tree
  PROVE  Shape'
BY DEF Shape, tree, Highest

\* The window is chosen.
LEMMA WindowKeeps ==
  ASSUME IInv, Window
  PROVE  IInv'
<1> USE DEF IInv
<1>1. \A n \in Int : Wrap(n) \in 0..Uint - 1
  BY DEF Wrap
<1>2. /\ arguments[1] \in 0..Uint - 1 /\ arguments[2] \in 0..Uint - 1
      /\ LatestBlockNumber \in 0..Uint - 1 /\ EarliestBlockNumber \in 0..Uint - 1
  BY DEF TreeType
<1>3. endBlockNumber' \in 0..Uint - 1
  <2>1. LatestBlockNumber - arguments[2] \in Int
    BY <1>2
  <2> QED BY <1>1, <2>1 DEF Window
<1>4. height' \in 0..Uint - 1
  <2>1. endBlockNumber' - arguments[1] \in Int
    BY <1>2, <1>3
  <2> QED BY <1>1, <1>2, <2>1 DEF Window, StartBlockNumber
<1>5. TreeType'
  BY <1>3, <1>4 DEF Window, TreeType, tree, call, Cached
<1>6. Shape'
  BY TreeStays DEF Window
<1>7. height' = StartHeight'
  BY DEF Window, StartHeight, StartBlockNumber, call
<1>8. Progress'
  <2>1. \A n \in StartHeight'..height' - 1 : FALSE
    <3> DEFINE h == height'
    <3>1. h \in Nat /\ StartHeight' = h
      BY <1>4, <1>7
    <3> HIDE DEF h
    <3>2. \A n \in h..h - 1 : FALSE
      BY <3>1
    <3> QED BY <3>1, <3>2 DEF h
  <2> QED BY <1>4, <1>7, <2>1 DEF Progress, Window, tree
<1>9. Result'
  BY DEF Window, Result, Progress
<1> QED BY <1>5, <1>6, <1>8, <1>9

\* What only Window changes.
LEMMA CallStays ==
  ASSUME UNCHANGED <<call, endBlockNumber>>
  PROVE  Cached' = Cached /\ StartHeight' = StartHeight
BY DEF call, Cached, StartHeight, StartBlockNumber

\* The heights of a call are unsigned.
LEMMA HeightsType ==
  ASSUME TreeType
  PROVE  /\ height \in 0..Uint - 1 /\ endBlockNumber \in 0..Uint - 1
         /\ EarliestBlockNumber \in 0..Uint - 1 /\ LatestBlockNumber \in 0..Uint - 1
         /\ arguments[1] \in 0..Uint - 1 /\ arguments[2] \in 0..Uint - 1
         /\ height \in Nat /\ endBlockNumber \in Nat /\ EarliestBlockNumber \in Nat
         /\ Uint \in Nat \ {0}
<1>1. /\ height \in 0..Uint - 1 /\ endBlockNumber \in 0..Uint - 1
      /\ EarliestBlockNumber \in 0..Uint - 1 /\ LatestBlockNumber \in 0..Uint - 1
      /\ arguments[1] \in 0..Uint - 1 /\ arguments[2] \in 0..Uint - 1
  BY DEF TreeType
<1> QED BY <1>1

\* A height with blocks is not the last one before the heights wrap around.
LEMMA NextNumber ==
  ASSUME TreeType, At(Cached, height) # {}
  PROVE  Wrap(height + 1) = height + 1 /\ height + 1 \in 1..Uint - 1 /\ height \in Nat
<1>1. PICK h \in Hash : Number[h] = height
  BY DEF At, Cached
<1>2. height < Uint - 1
  BY <1>1
<1>3. height \in 0..Uint - 2
  BY <1>2, HeightsType
<1> QED BY <1>3 DEF Wrap

\* The heights that an invariant speaks of are numbers.
LEMMA StartType == TreeType => StartHeight \in Nat
<1> SUFFICES ASSUME TreeType PROVE StartHeight \in Nat
  OBVIOUS
<1>1. \A n \in Int : Wrap(n) \in Nat
  BY DEF Wrap
<1>2. arguments[1] \in Nat /\ EarliestBlockNumber \in Nat /\ endBlockNumber - arguments[1] \in Int
  BY HeightsType
<1> QED BY <1>1, <1>2 DEF StartHeight, StartBlockNumber

\* The search ends with an error at a height without blocks.
LEMMA NoBlocksKeeps ==
  ASSUME IInv, NoBlocks
  PROVE  IInv'
<1> USE DEF IInv
<1>1. Cached' = Cached /\ StartHeight' = StartHeight
  BY CallStays DEF NoBlocks
<1>2. TreeType'
  BY <1>1 DEF NoBlocks, InWindow, TreeType, call, tree
<1>3. Shape'
  BY TreeStays DEF NoBlocks
<1>4. StartHeight \in Nat /\ StartHeight <= height /\ height <= endBlockNumber
      /\ height \in Nat /\ endBlockNumber \in Nat
  BY StartType, HeightsType DEF Progress, NoBlocks, InWindow
<1>5. AnalysisFails(Cached, StartHeight, endBlockNumber)
  <2>1. height \in StartHeight..endBlockNumber
    BY <1>4
  <2>2. At(Cached, height) = {}
    BY DEF NoBlocks
  <2> QED BY <2>1, <2>2 DEF AnalysisFails
<1>6. Progress'
  BY <1>1, <1>5 DEF NoBlocks, Progress, InWindow
<1>7. Result'
  BY DEF NoBlocks, InWindow, Result
<1> QED BY <1>2, <1>3, <1>6, <1>7

\* The tree of AnalyzeTree starts at the lowest height with a single block.
LEMMA TreeFromFirst ==
  ASSUME NEW S \in SUBSET Hash, NEW start \in Nat, NEW end \in Nat, NEW m \in Nat,
         start <= m, m <= end, Cardinality(At(S, m)) = 1,
         \A n \in start..m - 1 : Cardinality(At(S, n)) # 1
  PROVE  TreeNodes(S, start, end) = {h \in S : Number[h] \in m..end}
<1> DEFINE singles == Singles(S, start, end)
<1>1. m \in singles /\ singles \subseteq Nat /\ \A n \in singles : m <= n
  BY DEF Singles
<1>2. Min(singles) = m
  <2> HIDE DEF singles
  <2>1. Min(singles) \in singles /\ \A n \in singles : Min(singles) <= n
    BY <1>1, LeastElement DEF Min
  <2>2. Min(singles) <= m /\ m <= Min(singles) /\ Min(singles) \in Nat
    BY <1>1, <2>1
  <2> QED BY <2>2
<1>3. TreeNodes(S, start, end) = UNION {At(S, n) : n \in m..end}
  <2> HIDE DEF singles
  <2> QED BY <1>1, <1>2 DEF TreeNodes, singles
<1>4. ASSUME NEW h PROVE h \in UNION {At(S, n) : n \in m..end} <=> h \in S /\ Number[h] \in m..end
  BY DEF At
<1> QED BY <1>3, <1>4

\* A block without its parent: it is an orphan of the whole tree.
LEMMA ParentNotFoundKeeps ==
  ASSUME IInv, NEW block \in Hash, ParentNotFound(block)
  PROVE  IInv'
<1> USE DEF IInv
<1> DEFINE m == Number[FirstNode]
           nodes == TreeNodes(Cached, StartHeight, endBlockNumber)
<1>1. Cached' = Cached /\ StartHeight' = StartHeight
  BY CallStays DEF ParentNotFound
<1>2. TreeType'
  BY <1>1 DEF ParentNotFound, TreeType, call, tree
<1>3. Shape'
  BY TreeStays DEF ParentNotFound
<1>4. /\ StartHeight \in Nat /\ height \in Nat /\ endBlockNumber \in Nat
      /\ StartHeight <= height /\ height <= endBlockNumber
      /\ FirstNode \in Cached /\ m \in Nat /\ StartHeight <= m /\ m <= height
      /\ At(Cached, m) = {FirstNode}
      /\ \A n \in StartHeight..m - 1 : Cardinality(At(Cached, n)) # 1
      /\ \A h \in Cached : h \in NodeByHash <=>
           Number[h] \in m..height - 1 \/ (Number[h] = height /\ h \notin todo)
      /\ block \in todo /\ todo \subseteq At(Cached, height)
      /\ ParentHash[block] \notin NodeByHash
  <2>1. /\ StartHeight \in Nat /\ height \in Nat /\ endBlockNumber \in Nat
        /\ StartHeight <= height /\ height <= endBlockNumber
        /\ pc = "blocks" /\ FirstNode # Nil /\ FirstNode \in Cached /\ Cached \subseteq Hash
    BY StartType, HeightsType DEF Progress, ParentNotFound, TreeType, Cached
  <2>2. /\ m \in StartHeight..height
        /\ At(Cached, m) = {FirstNode}
        /\ \A n \in StartHeight..m - 1 : Cardinality(At(Cached, n)) # 1
        /\ \A h \in Cached : h \in NodeByHash <=>
             Number[h] \in m..height - 1 \/ (Number[h] = height /\ h \notin todo)
        /\ todo \subseteq At(Cached, height)
    BY <2>1 DEF Progress
  <2>3. block \in todo /\ ParentHash[block] \notin NodeByHash
    BY DEF ParentNotFound
  <2> HIDE DEF m
  <2>4. m \in Nat /\ StartHeight <= m /\ m <= height
    BY <2>1, <2>2
  <2> QED BY <2>1, <2>2, <2>3, <2>4
<1>5. /\ block \in Cached /\ Number[block] = height /\ block # FirstNode
      /\ FirstNode \in NodeByHash
  <2>1. block \in Cached /\ Number[block] = height
    BY <1>4 DEF At
  <2>2. FirstNode \in NodeByHash /\ block \notin NodeByHash
    <3>1. FirstNode \in NodeByHash
      BY DEF TreeType, ParentNotFound
    <3>2. block \notin NodeByHash
      BY <1>4, <2>1
    <3> QED BY <3>1, <3>2
  <2> QED BY <2>1, <2>2
<1> HIDE DEF m
<1>6. nodes = {h \in Cached : Number[h] \in m..endBlockNumber}
  <2>1. Cardinality(At(Cached, m)) = 1 /\ Cached \in SUBSET Hash
    BY <1>4, FS_Singleton DEF Cached
  <2>2. /\ StartHeight \in Nat /\ endBlockNumber \in Nat /\ m \in Nat
        /\ StartHeight <= m /\ m <= endBlockNumber
        /\ \A n \in StartHeight..m - 1 : Cardinality(At(Cached, n)) # 1
    BY <1>4
  <2> HIDE DEF IInv
  <2> QED BY <2>1, <2>2, TreeFromFirst
<1>7. block \in nodes /\ FirstNode \in nodes
  BY <1>4, <1>5, <1>6 DEF m
<1>8. ParentHash[block] \notin nodes
  <2> SUFFICES ASSUME ParentHash[block] \in nodes PROVE FALSE
    OBVIOUS
  <2>1. /\ ParentHash[block] \in Cached /\ ParentHash[block] \in Hash
        /\ m <= Number[ParentHash[block]]
    BY <1>4, <1>6 DEF Cached
  <2>2. Number[ParentHash[block]] \in m..height - 1
    BY <1>4, <1>5, <2>1, NumberType
  <2> QED BY <1>4, <2>1, <2>2
<1>9. AnalysisFails(Cached, StartHeight, endBlockNumber)
  <2>1. Number[FirstNode] <= Number[block]
    BY <1>4, <1>5 DEF m
  <2>2. block \in Orphans(nodes)
    BY <1>5, <1>7, <1>8, <2>1 DEF Orphans
  <2> QED BY <2>2 DEF AnalysisFails
<1>10. Progress'
  BY <1>1, <1>9 DEF ParentNotFound, Progress
<1>11. Result'
  BY DEF ParentNotFound, Result
<1> QED BY <1>2, <1>3, <1>10, <1>11

\* A height with more than one block before the first node.
LEMMA SkipHeightKeeps ==
  ASSUME IInv, SkipHeight
  PROVE  IInv'
<1> USE DEF IInv
<1>1. Cached' = Cached /\ StartHeight' = StartHeight
  BY CallStays DEF SkipHeight
<1>2. /\ pc = "height" /\ pc' = "height" /\ height <= endBlockNumber /\ FirstNode = Nil
      /\ Cardinality(At(Cached, height)) > 1 /\ height' = Wrap(height + 1)
      /\ UNCHANGED <<endBlockNumber, todo, tree, err, Reorgs>>
  BY DEF SkipHeight, InWindow
<1>3. At(Cached, height) # {}
  BY <1>2, FS_EmptySet
<1>4. height' = height + 1 /\ height' \in 0..Uint - 1 /\ height \in Nat
  BY <1>2, <1>3, NextNumber
<1>5. TreeType'
  BY <1>1, <1>4 DEF SkipHeight, TreeType, call, tree
<1>6. Shape'
  BY <1>2, TreeStays
<1>7. /\ StartHeight \in Nat /\ StartHeight <= height /\ endBlockNumber \in Nat
      /\ \A n \in StartHeight..height - 1 : At(Cached, n) # {}
      /\ \A n \in StartHeight..height - 1 : Cardinality(At(Cached, n)) # 1
  BY <1>2, StartType, HeightsType DEF Progress
<1>8. \A n \in StartHeight..height : At(Cached, n) # {} /\ Cardinality(At(Cached, n)) # 1
  <2>1. ASSUME NEW n \in StartHeight..height, n # height
        PROVE  n \in StartHeight..height - 1
    BY <1>4, <1>7, <2>1
  <2> QED BY <1>2, <1>3, <1>7, <2>1
<1>9. height' - 1 = height /\ StartHeight <= height' /\ height' <= endBlockNumber + 1
  BY <1>2, <1>4, <1>7
<1>10. FirstNode' = Nil /\ err' = "none"
  BY <1>2 DEF tree, Progress
<1>11. Progress'
  BY <1>1, <1>2, <1>8, <1>9, <1>10 DEF Progress
<1>12. Result'
  BY <1>2, <1>10 DEF Result
<1> QED BY <1>5, <1>6, <1>11, <1>12

\* The blocks of a height are taken up.
LEMMA EnterHeightKeeps ==
  ASSUME IInv, EnterHeight
  PROVE  IInv'
<1> USE DEF IInv
<1>1. Cached' = Cached /\ StartHeight' = StartHeight
  BY CallStays DEF EnterHeight
<1>2. /\ pc = "height" /\ pc' = "blocks" /\ height <= endBlockNumber
      /\ At(Cached, height) # {} /\ (FirstNode # Nil \/ Cardinality(At(Cached, height)) = 1)
      /\ todo' = At(Cached, height)
      /\ UNCHANGED <<height, endBlockNumber, tree, err, Reorgs>>
      /\ NodeByHash' = NodeByHash /\ FirstNode' = FirstNode
  BY DEF EnterHeight, InWindow, tree
<1>3. TreeType'
  <2>1. todo' \subseteq Cached
    BY <1>2 DEF At
  <2> QED BY <1>1, <1>2, <2>1 DEF EnterHeight, TreeType, call, tree
<1>4. Shape'
  BY <1>2, TreeStays
<1>5. ASSUME FirstNode # Nil
      PROVE  \A h \in Cached : h \in NodeByHash <=>
               Number[h] \in Number[FirstNode]..height - 1 \/ (Number[h] = height /\ h \notin todo')
  <2>1. \A h \in Cached : h \in NodeByHash <=> Number[h] \in Number[FirstNode]..height - 1
    BY <1>2, <1>5 DEF Progress
  <2>2. \A h \in Cached : Number[h] = height => h \in todo'
    BY <1>2 DEF At
  <2> QED BY <2>1, <2>2
<1>6. Progress'
  <2>1. /\ StartHeight <= height
        /\ height <= endBlockNumber + 1 \/ height = StartHeight
        /\ \A n \in StartHeight..height - 1 : At(Cached, n) # {}
        /\ FirstNode = Nil => \A n \in StartHeight..height - 1 : Cardinality(At(Cached, n)) # 1
        /\ FirstNode # Nil =>
             /\ Number[FirstNode] \in StartHeight..height
             /\ At(Cached, Number[FirstNode]) = {FirstNode}
             /\ \A n \in StartHeight..Number[FirstNode] - 1 : Cardinality(At(Cached, n)) # 1
        /\ err = "none"
    BY <1>2 DEF Progress
  <2>2. /\ At(Cached, height)' = At(Cached, height) /\ todo' \subseteq At(Cached, height)
        /\ \A n : At(Cached, n)' = At(Cached, n)
        /\ FirstNode = Nil => Cardinality(todo') = 1
    BY <1>1, <1>2
  <2>3. CASE FirstNode = Nil
    BY <1>1, <1>2, <2>1, <2>2, <2>3 DEF Progress
  <2>4. CASE FirstNode # Nil
    BY <1>1, <1>2, <1>5, <2>1, <2>2, <2>4 DEF Progress
  <2> QED BY <2>3, <2>4
<1>7. Result'
  BY <1>2 DEF Result
<1> QED BY <1>3, <1>4, <1>6, <1>7

\* A height whose blocks are all in the tree.
LEMMA NextHeightKeeps ==
  ASSUME IInv, NextHeight
  PROVE  IInv'
<1> USE DEF IInv
<1>1. Cached' = Cached /\ StartHeight' = StartHeight
  BY CallStays DEF NextHeight
<1>2. /\ pc = "blocks" /\ pc' = "height" /\ todo = {} /\ height' = Wrap(height + 1)
      /\ UNCHANGED <<endBlockNumber, todo, tree, err, Reorgs>>
      /\ NodeByHash' = NodeByHash /\ FirstNode' = FirstNode
  BY DEF NextHeight, tree
<1>3. height <= endBlockNumber /\ At(Cached, height) # {} /\ FirstNode # Nil
  <2>1. Cardinality({}) = 0
    BY FS_EmptySet
  <2> QED BY <1>2, <2>1 DEF Progress
<1>4. height' = height + 1 /\ height' \in 0..Uint - 1 /\ height \in Nat
  BY <1>2, <1>3, NextNumber
<1>5. TreeType'
  BY <1>1, <1>4 DEF NextHeight, TreeType, call, tree
<1>6. Shape'
  BY <1>2, TreeStays
<1> DEFINE m == Number[FirstNode]
<1>7. /\ StartHeight \in Nat /\ endBlockNumber \in Nat /\ StartHeight <= height
      /\ m \in StartHeight..height
      /\ At(Cached, m) = {FirstNode}
      /\ \A n \in StartHeight..m - 1 : Cardinality(At(Cached, n)) # 1
      /\ \A n \in StartHeight..height - 1 : At(Cached, n) # {}
      /\ \A h \in Cached : h \in NodeByHash <=> Number[h] \in m..height - 1 \/ Number[h] = height
  BY <1>2, <1>3, StartType, HeightsType DEF Progress
<1>8. \A n \in StartHeight..height : At(Cached, n) # {}
  <2>1. ASSUME NEW n \in StartHeight..height, n # height
        PROVE  n \in StartHeight..height - 1
    BY <1>4, <1>7, <2>1
  <2> QED BY <1>3, <1>7, <2>1
<1>9. height' - 1 = height /\ StartHeight <= height' /\ height' <= endBlockNumber + 1
  BY <1>3, <1>4, <1>7
<1> HIDE DEF m
<1>10. \A h \in Cached : h \in NodeByHash <=> Number[h] \in m..height
  <2>1. ASSUME NEW h \in Cached
        PROVE  Number[h] \in m..height <=> Number[h] \in m..height - 1 \/ Number[h] = height
    <3>1. Number[h] \in Nat
      BY NumberType DEF Cached
    <3> QED BY <1>4, <1>7, <3>1
  <2> QED BY <1>7, <2>1
<1>11. m \in StartHeight..height' /\ m # height' /\ m = Number[FirstNode]
  BY <1>4, <1>7 DEF m
<1>12. Progress'
  BY <1>1, <1>2, <1>3, <1>7, <1>8, <1>9, <1>10, <1>11 DEF Progress
<1>13. Result'
  BY <1>2 DEF Result
<1> QED BY <1>5, <1>6, <1>12, <1>13

\* The first block of the tree.
LEMMA AddFirstKeeps ==
  ASSUME IInv, NEW block \in Hash, AddFirst(block)
  PROVE  IInv'
<1> USE DEF IInv
<1>1. Cached' = Cached /\ StartHeight' = StartHeight
  BY CallStays DEF AddFirst
<1>2. /\ pc = "blocks" /\ pc' = "blocks" /\ block \in todo /\ FirstNode = Nil
      /\ FirstNode' = block /\ LatestNodes' = <<block>> /\ NodeByHash' = {block}
      /\ todo' = todo \ {block}
      /\ UNCHANGED <<height, endBlockNumber, children, MainChainNodeByHash, err, Reorgs>>
  BY DEF AddFirst
<1>3. block \in Cached /\ block # Nil /\ todo \subseteq Cached
  BY <1>2, ChainAssumption DEF TreeType
<1>4. /\ todo = At(Cached, height) /\ Cardinality(todo) = 1
      /\ NodeByHash = {} /\ MainChainNodeByHash = {} /\ children = [h \in Hash |-> <<>>]
  BY <1>2 DEF Progress, Shape
<1>5. todo = {block} /\ At(Cached, height) = {block} /\ Number[block] = height
  <2>1. IsFiniteSet(todo)
    BY <1>3, ChainAssumption, FS_Subset DEF Cached
  <2>2. PICK x : todo = {x}
    BY <1>4, <2>1, FS_Singleton
  <2> QED BY <1>2, <1>4, <2>2 DEF At
<1>6. TreeType'
  <2>1. LatestNodes' \in Seq({block})
    BY <1>2
  <2>2. children' \in [Hash -> Seq({block})]
    BY <1>2, <1>4
  <2>3. UNCHANGED <<BlockByHash, arguments, EarliestBlockNumber, LatestBlockNumber>>
    BY DEF AddFirst, call
  <2>4. /\ todo' \subseteq Cached' /\ NodeByHash' \subseteq Cached'
        /\ FirstNode' \in NodeByHash' \cup {Nil} /\ MainChainNodeByHash' \subseteq NodeByHash'
        /\ LatestNodes' \in Seq(NodeByHash') /\ children' \in [Hash -> Seq(NodeByHash')]
    BY <1>1, <1>2, <1>3, <1>4, <2>1, <2>2
  <2> QED BY <1>2, <2>3, <2>4 DEF TreeType
<1>7. Shape'
  <2>1. ToSet(LatestNodes') = {block} /\ Single(LatestNodes') /\ Len(LatestNodes') = 1
    BY <1>2 DEF ToSet, Single
  <2>2. Highest' = {block}
    BY <1>2, <1>3, NumberType DEF Highest, Cached
  <2>3. ASSUME NEW p \in Hash
        PROVE  ToSet(children'[p]) = {} /\ Single(children'[p])
    BY <1>2, <1>4 DEF ToSet, Single
  <2>4. \A p \in Hash : Children({block} \ {block}, p) = {}
    BY DEF Children
  <2> QED BY <1>2, <1>3, <1>4, <2>1, <2>2, <2>3, <2>4 DEF Shape
<1>8. Progress'
  <2>1. /\ StartHeight \in Nat /\ height \in Nat /\ StartHeight <= height
        /\ height <= endBlockNumber /\ endBlockNumber \in Nat
        /\ \A n \in StartHeight..height - 1 : At(Cached, n) # {}
        /\ \A n \in StartHeight..height - 1 : Cardinality(At(Cached, n)) # 1
        /\ err = "none"
    BY <1>2, StartType, HeightsType DEF Progress
  <2>2. ASSUME NEW h \in Cached
        PROVE  h \in {block} <=> Number[h] \in height..height - 1 \/ (Number[h] = height /\ h \notin todo')
    <3>1. ~ (Number[h] \in height..height - 1)
      BY <2>1
    <3>2. Number[h] = height <=> h = block
      BY <1>5 DEF At
    <3> QED BY <1>2, <1>5, <3>1, <3>2
  <2> HIDE DEF IInv
  <2>3. /\ Number[block] \in StartHeight..height
        /\ At(Cached, Number[block]) = {block}
        /\ \A n \in StartHeight..Number[block] - 1 : Cardinality(At(Cached, n)) # 1
        /\ \A h \in Cached : h \in {block} <=>
             Number[h] \in Number[block]..height - 1 \/ (Number[h] = height /\ h \notin todo')
        /\ todo' \subseteq At(Cached, height)
    BY <1>2, <1>5, <2>1, <2>2
  <2>4. /\ \A n : At(Cached, n)' = At(Cached, n)
        /\ At(Cached, height) # {}
    BY <1>1, <1>5
  <2>5. height <= endBlockNumber + 1 /\ FirstNode' # Nil
    BY <1>2, <1>3, <2>1
  <2> QED BY <1>1, <1>2, <2>1, <2>3, <2>4, <2>5 DEF Progress
<1>9. Result'
  BY <1>2 DEF Result
<1> QED BY <1>6, <1>7, <1>8, <1>9

\* One more element of a sequence without repetitions.
LEMMA AppendedSet ==
  ASSUME NEW S, NEW s \in Seq(S), NEW x \in S, Single(s), x \notin ToSet(s)
  PROVE  /\ Append(s, x) \in Seq(S) /\ ToSet(Append(s, x)) = ToSet(s) \cup {x}
         /\ Single(Append(s, x))
<1>1. /\ Append(s, x) \in Seq(S) /\ Len(s) \in Nat /\ DOMAIN s = 1..Len(s)
      /\ DOMAIN Append(s, x) = 1..Len(s) + 1
      /\ \A i \in 1..Len(s) : Append(s, x)[i] = s[i]
      /\ Append(s, x)[Len(s) + 1] = x
  OBVIOUS
<1> DEFINE t == Append(s, x)
<1> HIDE DEF t
<1>2. \A i \in 1..Len(s) + 1 : i \in 1..Len(s) \/ i = Len(s) + 1
  BY <1>1
<1>3. ToSet(t) = ToSet(s) \cup {x}
  <2>1. ASSUME NEW i \in 1..Len(s) + 1 PROVE t[i] \in ToSet(s) \cup {x}
    BY <1>1, <1>2 DEF ToSet, t
  <2>2. ASSUME NEW i \in 1..Len(s) PROVE s[i] \in ToSet(t)
    <3>1. i \in 1..Len(s) + 1
      BY <1>1
    <3> QED BY <1>1, <3>1 DEF ToSet, t
  <2>3. x \in ToSet(t)
    <3>1. Len(s) + 1 \in 1..Len(s) + 1
      BY <1>1
    <3> QED BY <1>1, <3>1 DEF ToSet, t
  <2>4. ToSet(t) \subseteq ToSet(s) \cup {x} /\ ToSet(s) \subseteq ToSet(t)
    BY <1>1, <2>1, <2>2 DEF ToSet, t
  <2> QED BY <2>3, <2>4
<1>4. Single(t)
  <2> SUFFICES ASSUME NEW i \in 1..Len(s) + 1, NEW j \in 1..Len(s) + 1, t[i] = t[j]
               PROVE  i = j
    BY <1>1 DEF Single, t
  <2>1. \A k \in 1..Len(s) : t[k] = s[k] /\ s[k] # x
    BY <1>1 DEF ToSet, t
  <2>2. t[Len(s) + 1] = x
    BY <1>1 DEF t
  <2> QED BY <1>1, <1>2, <2>1, <2>2 DEF Single
<1> QED BY <1>1, <1>3, <1>4 DEF t

\* The highest nodes of a tree.
LEMMA HighestIsTop ==
  ASSUME TreeType, NodeByHash # {}
  PROVE  Highest # {} /\ Highest \subseteq NodeByHash
<1> DEFINE numbers == {Number[h] : h \in NodeByHash}
<1>1. NodeByHash \in SUBSET Hash
  BY DEF TreeType, Cached
<1>2. numbers \in SUBSET Nat /\ IsFiniteSet(numbers) /\ numbers # {}
  <2>1. numbers # {}
    OBVIOUS
  <2>2. numbers \subseteq Nat /\ IsFiniteSet(numbers)
    BY <1>1, FiniteNumbers
  <2> QED BY <2>1, <2>2
<1>3. PICK n \in numbers : \A m \in numbers : m <= n
  <2> HIDE DEF numbers
  <2> QED BY <1>2, MaxOfFinite
<1>4. PICK h \in NodeByHash : n = Number[h]
  OBVIOUS
<1> QED BY <1>3, <1>4 DEF Highest

\* A block whose parent is in the tree: it is as high as any node.
LEMMA AddChildKeeps ==
  ASSUME IInv, NEW block \in Hash, AddChild(block)
  PROVE  IInv'
<1> USE DEF IInv
<1> DEFINE m == Number[FirstNode]
           p == ParentHash[block]
<1>1. Cached' = Cached /\ StartHeight' = StartHeight
  BY CallStays DEF AddChild
<1>2. /\ pc = "blocks" /\ pc' = "blocks" /\ block \in todo /\ FirstNode # Nil
      /\ p \in NodeByHash /\ NodeByHash' = NodeByHash \cup {block}
      /\ children' = [children EXCEPT ![p] = Append(@, block)]
      /\ LatestNodes' = WithLatest(block)
      /\ MainChainNodeByHash' = IF Len(LatestNodes') = 1
                                THEN Lineage(NodeByHash', LatestNodes'[1]) ELSE {}
      /\ todo' = todo \ {block} /\ FirstNode' = FirstNode
      /\ UNCHANGED <<height, endBlockNumber, err, Reorgs>>
  BY DEF AddChild
<1>3. /\ StartHeight \in Nat /\ height \in Nat /\ StartHeight <= height
      /\ height <= endBlockNumber /\ m \in StartHeight..height
      /\ todo \subseteq At(Cached, height)
      /\ \A h \in Cached : h \in NodeByHash <=>
           Number[h] \in m..height - 1 \/ (Number[h] = height /\ h \notin todo)
  BY <1>2, StartType, HeightsType DEF Progress
<1>4. /\ block \in Cached /\ Number[block] = height /\ NodeByHash \subseteq Cached
      /\ NodeByHash \subseteq Hash /\ Cached \subseteq Hash
      /\ FirstNode \in NodeByHash /\ children \in [Hash -> Seq(NodeByHash)]
      /\ LatestNodes \in Seq(NodeByHash) /\ todo \subseteq Cached
  BY <1>2, <1>3 DEF At, TreeType, Cached
<1>5. block \notin NodeByHash
  BY <1>2, <1>3, <1>4
<1>6. \A h \in NodeByHash : Number[h] \in Nat /\ m <= Number[h] /\ Number[h] <= height
  <2>1. ASSUME NEW h \in NodeByHash PROVE Number[h] \in m..height - 1 \/ Number[h] = height
    BY <1>3, <1>4
  <2> HIDE DEF m
  <2> QED BY <1>3, <1>4, <2>1
<1>7. m < height /\ Number[p] + 1 = height
  <2>1. Number[block] = Number[p] + 1 /\ m <= Number[p] /\ Number[p] \in Nat /\ m \in Nat
    BY <1>2, <1>3, <1>4, <1>6, NumberType
  <2> QED BY <1>4, <2>1
<1>8. /\ ToSet(LatestNodes) = Highest /\ Single(LatestNodes)
      /\ Highest # {} /\ Highest \subseteq NodeByHash
  <2>1. Highest # {} /\ Highest \subseteq NodeByHash
    BY <1>2, HighestIsTop
  <2> QED BY <1>2, <2>1 DEF Shape
<1>9. /\ LatestNodes' \in Seq(NodeByHash') /\ ToSet(LatestNodes') = Highest'
      /\ Single(LatestNodes')
  <2>1. Len(LatestNodes) \in Nat /\ DOMAIN LatestNodes = 1..Len(LatestNodes)
        /\ LatestNodes \in Seq(NodeByHash')
    BY <1>2, <1>4
  <2>2. 1 \in DOMAIN LatestNodes /\ LatestNodes[1] \in Highest
    <3>1. Len(LatestNodes) # 0
      BY <1>8, <2>1 DEF ToSet
    <3> QED BY <1>8, <2>1, <3>1 DEF ToSet
  <2>3. /\ LatestNodes[1] \in NodeByHash
        /\ \A h \in NodeByHash : Number[h] <= Number[LatestNodes[1]]
        /\ Number[LatestNodes[1]] \in Nat /\ Number[LatestNodes[1]] <= height
    BY <1>6, <1>8, <2>2 DEF Highest
  <2>4. CASE Number[LatestNodes[1]] = height
    <3>1. LatestNodes' = Append(LatestNodes, block)
      <4>1. Number[block] = Number[LatestNodes[1]]
        BY <1>4, <2>4
      <4>2. WithLatest(block) = Append(LatestNodes, block)
        BY <1>3, <1>4, <2>4, <4>1 DEF WithLatest
      <4> QED BY <1>2, <4>2
    <3>2. Highest' = Highest \cup {block}
      <4>1. ASSUME NEW h \in NodeByHash \cup {block}
            PROVE  (\A g \in NodeByHash \cup {block} : Number[g] <= Number[h])
                     <=> h = block \/ \A g \in NodeByHash : Number[g] <= Number[h]
        BY <1>3, <1>4, <1>6, <2>3, <2>4
      <4> QED BY <1>2, <4>1 DEF Highest
    <3>3. ASSUME NEW s \in Seq(NodeByHash'), Single(s), block \notin ToSet(s), block \in NodeByHash'
          PROVE  /\ Append(s, block) \in Seq(NodeByHash')
                 /\ ToSet(Append(s, block)) = ToSet(s) \cup {block}
                 /\ Single(Append(s, block))
      BY <3>3, AppendedSet
    <3> QED BY <1>2, <1>5, <1>8, <2>1, <3>1, <3>2, <3>3
  <2>5. CASE Number[LatestNodes[1]] # height
    <3>1. LatestNodes' = <<block>>
      BY <1>2, <1>3, <1>4, <2>3, <2>5 DEF WithLatest
    <3>2. Highest' = {block}
      <4>1. \A h \in NodeByHash : Number[h] < Number[block]
        BY <1>3, <1>4, <1>6, <2>3, <2>5
      <4>2. Number[block] <= Number[block]
        BY <1>3, <1>4
      <4>3. ASSUME NEW h \in NodeByHash \cup {block}
            PROVE  (\A g \in NodeByHash \cup {block} : Number[g] <= Number[h]) <=> h = block
        BY <1>3, <1>4, <1>6, <4>1, <4>2
      <4> QED BY <1>2, <4>3 DEF Highest
    <3> QED BY <1>2, <3>1, <3>2 DEF ToSet, Single
  <2> QED BY <2>4, <2>5
<1>10. ASSUME NEW q \in Hash
       PROVE  /\ children'[q] \in Seq(NodeByHash')
              /\ ToSet(children'[q]) = Children(NodeByHash' \ {FirstNode}, q)
              /\ Single(children'[q])
  <2>1. /\ ToSet(children[q]) = Children(NodeByHash \ {FirstNode}, q)
        /\ Single(children[q]) /\ children[q] \in Seq(NodeByHash')
    <3>1. children[q] \in Seq(NodeByHash) /\ NodeByHash \subseteq NodeByHash'
      BY <1>2, <1>4
    <3>2. children[q] \in Seq(NodeByHash')
      BY <3>1
    <3> QED BY <1>2, <3>2 DEF Shape
  <2>2. CASE q # p
    <3>1. children'[q] = children[q]
      BY <1>2, <1>4, <2>2
    <3>2. Children(NodeByHash' \ {FirstNode}, q) = Children(NodeByHash \ {FirstNode}, q)
      BY <1>2, <2>2 DEF Children
    <3> QED BY <2>1, <3>1, <3>2
  <2>3. CASE q = p
    <3>1. children'[q] = Append(children[q], block)
      BY <1>2, <1>4, <2>3
    <3>2. block \notin ToSet(children[q]) /\ block # FirstNode /\ block \in NodeByHash'
      BY <1>2, <1>4, <1>5, <2>1 DEF Children
    <3>3. Children(NodeByHash' \ {FirstNode}, q) = Children(NodeByHash \ {FirstNode}, q) \cup {block}
      BY <1>2, <2>3, <3>2 DEF Children
    <3>4. /\ Append(children[q], block) \in Seq(NodeByHash')
          /\ ToSet(Append(children[q], block)) = ToSet(children[q]) \cup {block}
          /\ Single(Append(children[q], block))
      BY <2>1, <3>2, AppendedSet
    <3> QED BY <2>1, <3>1, <3>3, <3>4
  <2> QED BY <2>2, <2>3
<1>11. MainChainNodeByHash' \subseteq NodeByHash'
  BY <1>2 DEF Lineage
<1>12. TreeType'
  <2>1. children' \in [Hash -> Seq(NodeByHash')]
    BY <1>2, <1>4, <1>10
  <2>2. UNCHANGED <<BlockByHash, arguments, EarliestBlockNumber, LatestBlockNumber>>
    BY DEF AddChild, call
  <2>3. /\ todo' \subseteq Cached' /\ NodeByHash' \subseteq Cached'
        /\ FirstNode' \in NodeByHash' \cup {Nil}
    BY <1>1, <1>2, <1>4
  <2>4. TreeType
    OBVIOUS
  <2> QED BY <1>2, <1>9, <1>11, <2>1, <2>2, <2>3, <2>4 DEF TreeType
<1>13. Shape'
  <2>1. \A h \in NodeByHash' \ {FirstNode} : m < Number[h] /\ ParentHash[h] \in NodeByHash'
    <3>1. \A h \in NodeByHash \ {FirstNode} : m < Number[h] /\ ParentHash[h] \in NodeByHash
      BY <1>2 DEF Shape
    <3> QED BY <1>2, <1>4, <1>7, <3>1
  <2>2. NodeByHash' # {FirstNode}
    BY <1>2, <1>4, <1>5
  <2> QED BY <1>2, <1>4, <1>9, <1>10, <2>1, <2>2 DEF Shape
<1>14. Progress'
  <2>1. /\ \A n \in StartHeight..height - 1 : At(Cached, n) # {}
        /\ m = height => pc = "blocks"
        /\ At(Cached, m) = {FirstNode} /\ At(Cached, height) # {}
        /\ \A n \in StartHeight..m - 1 : Cardinality(At(Cached, n)) # 1
        /\ err = "none"
    BY <1>2 DEF Progress
  <2>2. ASSUME NEW h \in Cached
        PROVE  h \in NodeByHash' <=>
                 Number[h] \in m..height - 1 \/ (Number[h] = height /\ h \notin todo')
    <3>1. h = block => ~ (Number[h] \in m..height - 1)
      BY <1>3, <1>4
    <3> QED BY <1>2, <1>3, <1>4, <3>1
  <2>3. \A n : At(Cached, n)' = At(Cached, n)
    BY <1>1
  <2>4. todo' \subseteq At(Cached, height) /\ height <= endBlockNumber + 1
    BY <1>2, <1>3, HeightsType
  <2> HIDE DEF IInv
  <2> QED BY <1>1, <1>2, <1>3, <2>1, <2>2, <2>3, <2>4 DEF Progress
<1>15. Result'
  BY <1>2 DEF Result
<1> QED BY <1>12, <1>13, <1>14, <1>15

\* The end of the search.
LEMMA AnalyseKeeps ==
  ASSUME IInv, Analyse
  PROVE  IInv'
<1> USE DEF IInv
<1>1. Cached' = Cached /\ StartHeight' = StartHeight
  BY CallStays DEF Analyse
<1>2. /\ pc = "height" /\ pc' = "done" /\ ~ (height <= endBlockNumber)
      /\ UNCHANGED <<height, endBlockNumber, todo, tree, err, call>>
      /\ FirstNode' = FirstNode /\ NodeByHash' = NodeByHash /\ children' = children
      /\ BlockByHash' = BlockByHash
  BY DEF Analyse, InWindow, tree, call
<1>3. TreeType'
  BY <1>1, <1>2 DEF TreeType, call, tree
<1>4. Shape'
  BY <1>2, TreeStays
<1>5. Progress'
  <2>1. /\ StartHeight <= height
        /\ height <= endBlockNumber + 1 \/ height = StartHeight
        /\ \A n \in StartHeight..height - 1 : At(Cached, n) # {}
        /\ FirstNode = Nil => \A n \in StartHeight..height - 1 : Cardinality(At(Cached, n)) # 1
        /\ FirstNode # Nil =>
             /\ Number[FirstNode] \in StartHeight..height /\ Number[FirstNode] # height
             /\ At(Cached, Number[FirstNode]) = {FirstNode}
             /\ \A n \in StartHeight..Number[FirstNode] - 1 : Cardinality(At(Cached, n)) # 1
             /\ \A h \in Cached : h \in NodeByHash <=> Number[h] \in Number[FirstNode]..height - 1
        /\ err = "none"
    BY <1>2 DEF Progress
  <2>2. endBlockNumber < height
    BY <1>2, HeightsType
  <2>3. \A n : At(Cached, n)' = At(Cached, n)
    BY <1>1
  <2> HIDE DEF IInv
  <2> QED BY <1>1, <1>2, <2>1, <2>2, <2>3 DEF Progress
<1>6. Result'
  <2>1. err = "none"
    BY <1>2 DEF Progress
  <2>2. DepthFirstOf' = DepthFirstOf
    BY <1>2 DEF DepthFirstOf
  <2>3. FirstNode # Nil => Reorgs' \in ReorgMaps(FoundReorgs(BlockByHash, DepthFirstOf[FirstNode]))
    BY <1>2 DEF Analyse
  <2>4. FirstNode = Nil => Reorgs' = {}
    BY <1>2 DEF Analyse
  <2> QED BY <1>2, <2>1, <2>2, <2>3, <2>4 DEF Result
<1> QED BY <1>3, <1>4, <1>5, <1>6

\* The search and its result, at every step of AnalyzeTree.
THEOREM InvariantHolds == Spec => []IInv
<1>1. IInv /\ [Next]_vars => IInv'
  <2> SUFFICES ASSUME IInv, [Next]_vars PROVE IInv'
    OBVIOUS
  <2>1. CASE UNCHANGED vars
    <3>1. Cached' = Cached /\ StartHeight' = StartHeight
      BY <2>1, CallStays DEF vars
    <3>2. UNCHANGED <<BlockByHash, EarliestBlockNumber, LatestBlockNumber, arguments, pc, height,
                      endBlockNumber, todo, FirstNode, LatestNodes, NodeByHash, children,
                      MainChainNodeByHash, err, Reorgs>>
      BY <2>1 DEF vars, call, tree
    <3>3. TreeType'
      BY <3>1, <3>2 DEF IInv, TreeType
    <3>4. Shape'
      BY <2>1, TreeStays DEF IInv, vars
    <3>5. Progress'
      BY <3>1, <3>2 DEF IInv, Progress
    <3>6. Result'
      BY <3>2 DEF IInv, Result, DepthFirstOf
    <3> QED BY <3>3, <3>4, <3>5, <3>6 DEF IInv
  <2>2. CASE Next
    BY <2>2, WindowKeeps, NoBlocksKeeps, SkipHeightKeeps, EnterHeightKeeps, NextHeightKeeps,
       AddFirstKeeps, AddChildKeeps, ParentNotFoundKeeps, AnalyseKeeps DEF Next, Search
  <2> QED BY <2>1, <2>2
<1> QED BY <1>1, InitInv, PTL DEF Spec

-----------------------------------------------------------------------------
(* The depth-first listing. *)

\* One listing after another.
LEMMA Concatenated ==
  ASSUME NEW S, NEW u \in Seq(S), NEW v \in Seq(S), Len(u) >= 1, Len(v) >= 1,
         Single(u), Single(v), ToSet(u) \cap ToSet(v) = {}, DepthFirst(u), DepthFirst(v),
         Descends(ParentHash[v[1]], u[Len(u)])
  PROVE  /\ u \o v \in Seq(S) /\ Len(u \o v) >= 1 /\ (u \o v)[1] = u[1]
         /\ ToSet(u \o v) = ToSet(u) \cup ToSet(v)
         /\ Single(u \o v) /\ DepthFirst(u \o v)
<1> DEFINE w == u \o v
           k == Len(u)
           l == Len(v)
<1>1. /\ k \in Nat /\ l \in Nat /\ w \in Seq(S) /\ Len(w) = k + l
      /\ DOMAIN w = 1..k + l /\ DOMAIN u = 1..k /\ DOMAIN v = 1..l
  OBVIOUS
<1>2. \A i \in 1..k : w[i] = u[i]
  OBVIOUS
<1>3. \A i \in 1..l : w[k + i] = v[i] /\ k + i \in 1..k + l
  OBVIOUS
<1> HIDE DEF w
<1>4. \A i \in 1..k + l : i \in 1..k \/ (i - k \in 1..l /\ k + (i - k) = i)
  BY <1>1
<1>5. \A i \in 1..k + l : i \notin 1..k => w[i] = v[i - k] /\ i - k \in 1..l
  <2> SUFFICES ASSUME NEW i \in 1..k + l, i \notin 1..k PROVE w[i] = v[i - k] /\ i - k \in 1..l
    OBVIOUS
  <2>1. i - k \in 1..l /\ k + (i - k) = i
    BY <1>4
  <2>2. w[k + (i - k)] = v[i - k]
    BY <1>3, <2>1
  <2> QED BY <2>1, <2>2
<1>6. /\ \A i \in 1..k : u[i] \in ToSet(u)
      /\ \A i \in 1..l : v[i] \in ToSet(v)
  BY <1>1 DEF ToSet
<1>7. ToSet(w) = ToSet(u) \cup ToSet(v)
  <2>1. ASSUME NEW x \in ToSet(w) PROVE x \in ToSet(u) \cup ToSet(v)
    <3>1. PICK i \in 1..k + l : x = w[i]
      BY <1>1 DEF ToSet
    <3> QED BY <1>2, <1>5, <1>6, <3>1
  <2>2. ASSUME NEW x \in ToSet(u) PROVE x \in ToSet(w)
    <3>1. PICK i \in 1..k : x = u[i]
      BY <1>1 DEF ToSet
    <3>2. i \in 1..k + l
      BY <1>1
    <3> QED BY <1>1, <1>2, <3>1, <3>2 DEF ToSet
  <2>3. ASSUME NEW x \in ToSet(v) PROVE x \in ToSet(w)
    <3>1. PICK i \in 1..l : x = v[i]
      BY <1>1 DEF ToSet
    <3>2. x = w[k + i] /\ k + i \in DOMAIN w
      BY <1>1, <1>3, <3>1
    <3> QED BY <3>2 DEF ToSet
  <2> QED BY <2>1, <2>2, <2>3
<1>8. Single(w)
  <2> SUFFICES ASSUME NEW i \in 1..k + l, NEW j \in 1..k + l, w[i] = w[j] PROVE i = j
    BY <1>1 DEF Single
  <2>1. CASE i \in 1..k /\ j \in 1..k
    BY <1>1, <1>2, <2>1 DEF Single
  <2>2. CASE i \notin 1..k /\ j \notin 1..k
    <3>1. i - k \in 1..l /\ j - k \in 1..l /\ v[i - k] = v[j - k]
      BY <1>5, <2>2
    <3>2. i - k = j - k
      BY <1>1, <3>1 DEF Single
    <3> QED BY <1>1, <3>2
  <2>3. CASE i \in 1..k /\ j \notin 1..k
    BY <1>2, <1>5, <1>6, <2>3
  <2>4. CASE i \notin 1..k /\ j \in 1..k
    BY <1>2, <1>5, <1>6, <2>4
  <2> QED BY <2>1, <2>2, <2>3, <2>4
<1>9. DepthFirst(w)
  <2> SUFFICES ASSUME NEW i \in 2..k + l PROVE Descends(ParentHash[w[i]], w[i - 1])
    BY <1>1 DEF DepthFirst
  <2>1. CASE i \in 1..k
    <3>1. i \in 2..k /\ i - 1 \in 1..k
      BY <1>1, <2>1
    <3> QED BY <1>2, <2>1, <3>1 DEF DepthFirst
  <2>2. CASE i = k + 1
    <3>1. 1 \in 1..l /\ k \in 1..k /\ i - 1 = k
      BY <1>1, <2>2
    <3>2. w[i] = v[1] /\ w[i - 1] = u[k]
      BY <1>2, <1>3, <2>2, <3>1
    <3> QED BY <3>2
  <2>3. CASE i \notin 1..k /\ i # k + 1
    <3>1. /\ i \in 1..k + l /\ i - 1 \in 1..k + l /\ i - 1 \notin 1..k
          /\ i - k \in 2..l /\ (i - 1) - k = (i - k) - 1
      BY <1>1, <2>3
    <3>2. w[i] = v[i - k] /\ w[i - 1] = v[(i - k) - 1]
      <4>1. w[i] = v[i - k] /\ w[i - 1] = v[(i - 1) - k]
        BY <1>5, <2>3, <3>1
      <4> QED BY <3>1, <4>1
    <3> QED BY <3>1, <3>2 DEF DepthFirst
  <2> QED BY <2>1, <2>2, <2>3
<1>10. Len(w) >= 1 /\ w[1] = u[1]
  <2>1. 1 \in 1..k /\ Len(w) >= 1
    BY <1>1
  <2> QED BY <1>2, <2>1
<1> QED BY <1>1, <1>7, <1>8, <1>9, <1>10 DEF w

\* The prefixes of FlattenSeq.
FlatPrefixes(flat, ss, S) ==
  /\ flat \in [1..Len(ss) -> Seq(S)] /\ flat[1] = ss[1]
  /\ \A i \in 2..Len(ss) : flat[i] = flat[i - 1] \o ss[i]
  /\ FlattenSeq(ss) = flat[Len(ss)]

\* It flattens one list after the other.
LEMMA Flattened ==
  ASSUME NEW S, NEW ss, NEW n \in Nat, n >= 1, ss \in [1..n -> Seq(S)], Len(ss) = n
  PROVE  \E flat : FlatPrefixes(flat, ss, S)
<1> DEFINE next == [k \in Nat |-> [s \in Seq(S) |-> IF k \in 1..n THEN s \o ss[k] ELSE s]]
           T == Seq(S)
<1>1. next \in [Nat -> [T -> T]]
  <2>1. ASSUME NEW k \in Nat, NEW s \in Seq(S)
        PROVE  (IF k \in 1..n THEN s \o ss[k] ELSE s) \in Seq(S)
    <3>1. k \in 1..n => ss[k] \in Seq(S)
      OBVIOUS
    <3> QED BY <3>1
  <2> QED BY <2>1
<1>2. ss[1] \in T
  OBVIOUS
<1>3. PICK f : Iterates(f, T, ss[1], 1, n, next)
  <2> HIDE DEF next, T
  <2> QED BY <1>1, <1>2, IterationExists
<1>4. /\ f \in [1..n -> Seq(S)] /\ f[1] = ss[1]
      /\ \A i \in 2..n : f[i] = f[i - 1] \o ss[i]
  <2>1. ASSUME NEW i \in 2..n PROVE f[i] = f[i - 1] \o ss[i]
    <3>1. i \in (1 + 1)..n /\ i \in Nat /\ i \in 1..n /\ i - 1 \in 1..n
      OBVIOUS
    <3>2. f[i - 1] \in Seq(S) /\ f[i] = next[i][f[i - 1]]
      BY <1>3, <3>1 DEF Iterates
    <3> QED BY <3>1, <3>2
  <2> QED BY <1>3, <2>1 DEF Iterates
<1> DEFINE Body(u) == [i \in 1..n |-> IF i = 1 THEN ss[i] ELSE u[i - 1] \o ss[i]]
           flatten == CHOOSE u : u = Body(u)
<1>5. FlattenSeq(ss) = flatten[n]
  BY DEF FlattenSeq
<1>6. ASSUME NEW u, NEW i \in 1..n
      PROVE  Body(u)[i] = IF i = 1 THEN ss[i] ELSE u[i - 1] \o ss[i]
  OBVIOUS
<1>7. f = Body(f)
  <2>1. \A i \in 1..n : f[i] = Body(f)[i]
    <3> HIDE DEF Body
    <3>1. ASSUME NEW i \in 1..n PROVE f[i] = IF i = 1 THEN ss[i] ELSE f[i - 1] \o ss[i]
      <4>1. i # 1 => i \in 2..n
        OBVIOUS
      <4> QED BY <1>4, <4>1
    <3> QED BY <1>6, <3>1
  <2>2. Body(f) = [i \in 1..n |-> Body(f)[i]] /\ f = [i \in 1..n |-> f[i]]
    BY <1>4
  <2> HIDE DEF Body
  <2> QED BY <2>1, <2>2
<1>8. flatten = Body(flatten)
  <2> HIDE DEF Body
  <2> QED BY <1>7
<1> HIDE DEF Body, flatten
<1>9. flatten[n] = f[n]
  <2> DEFINE differs == {i \in 1..n : flatten[i] # f[i]}
  <2> SUFFICES ASSUME differs # {} PROVE FALSE
    OBVIOUS
  <2>1. PICK i \in differs : \A j \in differs : i <= j
    <3>1. differs \in SUBSET Nat
      OBVIOUS
    <3> HIDE DEF differs
    <3> QED BY <3>1, LeastElement
  <2>2. i \in 1..n /\ flatten[i] # f[i]
    OBVIOUS
  <2>3. i # 1
    BY <1>4, <1>6, <1>8, <2>2
  <2>4. i - 1 \in 1..n /\ i - 1 \notin differs /\ i \in 2..n
    <3> HIDE DEF differs
    <3> QED BY <2>1, <2>2, <2>3
  <2>5. flatten[i - 1] = f[i - 1]
    BY <2>4
  <2>6. flatten[i] = flatten[i - 1] \o ss[i]
    BY <1>6, <1>8, <2>2, <2>3
  <2>7. f[i] = f[i - 1] \o ss[i]
    BY <1>4, <2>4
  <2> QED BY <2>2, <2>5, <2>6, <2>7
<1>10. FlatPrefixes(f, ss, S)
  BY <1>4, <1>5, <1>9 DEF FlatPrefixes
<1> QED BY <1>10

\* What addChildToChainRecursive appends for a node, given the rest of it.
WalkOf(walk, h) == <<h>> \o FlattenSeq([i \in DOMAIN children[h] |-> walk[children[h][i]]])

\* walk does so for every node of the k topmost heights.
Walked(walk, k) == \A h \in Hash : Number[h] + k >= Uint => walk[h] = WalkOf(walk, h)

\* The recursion goes from a block to higher ones, and so it ends.
LEMMA WalkEnds ==
  ASSUME NEW k \in Nat, \A h \in Hash : \A i \in DOMAIN children[h] :
                          children[h][i] \in Hash /\ Number[children[h][i]] > Number[h]
  PROVE  \E walk : Walked(walk, k)
<1> DEFINE stuck == {j \in Nat : ~ \E walk : Walked(walk, j)}
<1> SUFFICES ASSUME stuck # {} PROVE FALSE
  OBVIOUS
<1>1. PICK j \in stuck : \A i \in stuck : j <= i
  <2>1. stuck \in SUBSET Nat
    OBVIOUS
  <2> HIDE DEF stuck
  <2> QED BY <2>1, LeastElement
<1>2. j \in Nat /\ ~ \E walk : Walked(walk, j)
  OBVIOUS
<1>3. j # 0
  <2>1. \A h \in Hash : ~ (Number[h] + 0 >= Uint)
    BY NumberType
  <2>2. Walked(<<>>, 0)
    BY <2>1 DEF Walked
  <2> QED BY <1>2, <2>2
<1>4. j - 1 \in Nat /\ j - 1 \notin stuck
  <2> HIDE DEF stuck
  <2> QED BY <1>1, <1>2, <1>3
<1>5. PICK below : Walked(below, j - 1)
  BY <1>4
<1> DEFINE walk == [h \in Hash |-> IF Number[h] + j >= Uint THEN WalkOf(below, h) ELSE below[h]]
<1>6. ASSUME NEW h \in Hash, Number[h] + j >= Uint PROVE walk[h] = WalkOf(walk, h)
  <2>1. ASSUME NEW i \in DOMAIN children[h] PROVE walk[children[h][i]] = below[children[h][i]]
    <3> DEFINE c == children[h][i]
    <3>1. c \in Hash /\ Number[c] + (j - 1) >= Uint /\ Number[c] + j >= Uint
      BY <1>2, <1>6, NumberType
    <3>2. below[c] = WalkOf(below, c)
      BY <1>5, <3>1 DEF Walked
    <3> HIDE DEF c
    <3> QED BY <3>1, <3>2 DEF c
  <2>2. walk[h] = WalkOf(below, h)
    BY <1>6
  <2> HIDE DEF walk
  <2>3. [i \in DOMAIN children[h] |-> walk[children[h][i]]] =
          [i \in DOMAIN children[h] |-> below[children[h][i]]]
    BY <2>1
  <2> QED BY <2>2, <2>3 DEF WalkOf
<1>7. Walked(walk, j)
  <2> HIDE DEF walk
  <2> QED BY <1>6 DEF Walked
<1> HIDE DEF walk
<1> QED BY <1>2, <1>7

\* DepthFirstOf is defined by this recursion.
LEMMA DepthFirstOfStep ==
  ASSUME \A h \in Hash : \A i \in DOMAIN children[h] :
           children[h][i] \in Hash /\ Number[children[h][i]] > Number[h]
  PROVE  \A h \in Hash : DepthFirstOf[h] = WalkOf(DepthFirstOf, h)
<1> DEFINE Body(u) == [h \in Hash |-> <<h>> \o FlattenSeq([i \in DOMAIN children[h] |-> u[children[h][i]]])]
           walk == CHOOSE u : u = Body(u)
<1>1. PICK f : Walked(f, Uint)
  BY WalkEnds
<1>2. \A h \in Hash : f[h] = WalkOf(f, h)
  <2>1. \A h \in Hash : Number[h] + Uint >= Uint
    BY NumberType
  <2> QED BY <1>1, <2>1 DEF Walked
<1> DEFINE g == [h \in Hash |-> f[h]]
<1>3. ASSUME NEW u, NEW h \in Hash PROVE Body(u)[h] = WalkOf(u, h)
  BY DEF WalkOf
<1>4. g = Body(g)
  <2>1. ASSUME NEW h \in Hash PROVE g[h] = Body(g)[h]
    <3>1. [i \in DOMAIN children[h] |-> g[children[h][i]]] = [i \in DOMAIN children[h] |-> f[children[h][i]]]
      OBVIOUS
    <3>2. WalkOf(g, h) = WalkOf(f, h)
      <4> HIDE DEF g
      <4> QED BY <3>1 DEF WalkOf
    <3> HIDE DEF Body
    <3> QED BY <1>2, <1>3, <3>2
  <2>2. Body(g) = [h \in Hash |-> Body(g)[h]] /\ g = [h \in Hash |-> g[h]]
    OBVIOUS
  <2> HIDE DEF Body, g
  <2> QED BY <2>1, <2>2
<1>5. walk = Body(walk)
  <2> HIDE DEF Body, g
  <2> QED BY <1>4
<1>6. DepthFirstOf = walk
  BY DEF DepthFirstOf
<1> HIDE DEF Body, walk
<1> QED BY <1>3, <1>5, <1>6

\* The tree holds the ancestors of its nodes down to the first node, from which
\* all descend.
LEMMA TreeIsClosed ==
  ASSUME TreeType, Shape, FirstNode # Nil, NEW h \in NodeByHash
  PROVE  /\ h \in Hash /\ Descends(FirstNode, h)
         /\ \A a : Descends(a, h) /\ Number[a] >= Number[FirstNode] => a \in NodeByHash
<1> DEFINE Good(g) == /\ Descends(FirstNode, g)
                      /\ \A a : Descends(a, g) /\ Number[a] >= Number[FirstNode] => a \in NodeByHash
           wrong == {Number[g] : g \in {g \in NodeByHash : ~ Good(g)}}
<1>1. NodeByHash \subseteq Hash /\ FirstNode \in NodeByHash
  BY DEF TreeType, Shape, Cached
<1> SUFFICES ASSUME wrong # {} PROVE FALSE
  BY <1>1
<1>2. PICK n \in wrong : \A m \in wrong : n <= m
  <2>1. wrong \in SUBSET Nat
    BY <1>1, NumberType
  <2> HIDE DEF wrong
  <2> QED BY <2>1, LeastElement
<1>3. PICK g \in NodeByHash : n = Number[g] /\ ~ Good(g)
  OBVIOUS
<1>4. CASE g = FirstNode
  <2>1. Descends(FirstNode, g)
    BY <1>1, <1>4, DescendsStep
  <2>2. ASSUME NEW a, Descends(a, g), Number[a] >= Number[FirstNode] PROVE a \in NodeByHash
    <3>1. a \in Hash /\ Number[a] <= Number[g] /\ (Number[a] = Number[g] => a = g)
      BY <1>1, <2>2, DescendsUp
    <3> QED BY <1>1, <1>4, <2>2, <3>1, NumberType
  <2> QED BY <1>3, <2>1, <2>2
<1>5. CASE g # FirstNode
  <2>1. ParentHash[g] \in NodeByHash /\ ParentHash[g] \in Hash /\ g \in Hash
    BY <1>1, <1>5 DEF Shape
  <2>2. Number[ParentHash[g]] < Number[g] /\ Number[g] \in Nat /\ Number[ParentHash[g]] \in Nat
    BY <2>1, NumberType
  <2>3. Number[ParentHash[g]] \notin wrong
    <3> HIDE DEF wrong
    <3> QED BY <1>2, <1>3, <2>2
  <2>4. Good(ParentHash[g])
    BY <2>1, <2>3
  <2>5. \A a : Descends(a, g) => a = g \/ Descends(a, ParentHash[g])
    BY <2>1, DescendsStep
  <2>6. Descends(FirstNode, g)
    BY <2>1, <2>4, DescendsStep
  <2> QED BY <1>3, <2>4, <2>5, <2>6
<1> QED BY <1>4, <1>5

\* The nodes below h, h included.
Below(h) == {g \in NodeByHash : Descends(h, g)}

\* w lists the nodes below h, depth first, each once.
ListsBelow(w, h) ==
  /\ w \in Seq(NodeByHash) /\ Len(w) >= 1 /\ w[1] = h
  /\ ToSet(w) = Below(h) /\ Single(w) /\ DepthFirst(w)

\* What is listed of the nodes below h after i of its children.
ListsChildren(u, h, i) ==
  /\ u \in Seq(NodeByHash) /\ Len(u) >= 1 /\ u[1] = children[h][1]
  /\ ToSet(u) = UNION {Below(children[h][j]) : j \in 1..i} /\ Single(u) /\ DepthFirst(u)

\* When each child lists what is below it, the children together do: what is
\* below different children differs, and the next child is a child of an
\* ancestor of the last node listed.
LEMMA ChildrenListed ==
  ASSUME TreeType, Shape, FirstNode # Nil, NEW h \in NodeByHash,
         NEW walk, NEW flat, Len(children[h]) >= 1,
         \A i \in DOMAIN children[h] : ListsBelow(walk[children[h][i]], children[h][i]),
         FlatPrefixes(flat, [i \in DOMAIN children[h] |-> walk[children[h][i]]], NodeByHash)
  PROVE  ListsChildren(flat[Len(children[h])], h, Len(children[h]))
<1> DEFINE cs == children[h]
           n  == Len(cs)
           ss == [i \in DOMAIN cs |-> walk[cs[i]]]
<1>1. /\ NodeByHash \subseteq Hash /\ h \in Hash
      /\ cs \in Seq(NodeByHash) /\ n \in Nat /\ DOMAIN cs = 1..n /\ n >= 1
      /\ ToSet(cs) = Children(NodeByHash \ {FirstNode}, h) /\ Single(cs)
  <2>1. NodeByHash \subseteq Hash /\ children \in [Hash -> Seq(NodeByHash)]
    BY DEF TreeType, Cached
  <2>2. h \in Hash /\ cs \in Seq(NodeByHash)
    BY <2>1
  <2>3. ToSet(cs) = Children(NodeByHash \ {FirstNode}, h) /\ Single(cs)
    BY <2>2 DEF Shape
  <2> HIDE DEF cs
  <2>4. n \in Nat /\ DOMAIN cs = 1..n
    BY <2>2
  <2>5. n >= 1
    BY DEF cs
  <2> QED BY <2>1, <2>2, <2>3, <2>4, <2>5
<1>2. \A i \in 1..n : /\ cs[i] \in NodeByHash /\ cs[i] \in Hash /\ ParentHash[cs[i]] = h
                      /\ Number[cs[i]] = Number[h] + 1 /\ Descends(cs[i], cs[i])
                      /\ ListsBelow(walk[cs[i]], cs[i])
  <2>1. \A i \in 1..n : cs[i] \in NodeByHash /\ ParentHash[cs[i]] = h
    BY <1>1 DEF ToSet, Children
  <2> QED BY <1>1, <2>1, NumberType, DescendsStep
<1>3. /\ flat[1] = walk[cs[1]]
      /\ \A i \in 2..n : flat[i] = flat[i - 1] \o walk[cs[i]]
  <2>1. ss \in [1..n -> {walk[cs[i]] : i \in 1..n}] /\ Len(ss) = n
    BY <1>1
  <2>2. \A i \in 1..n : ss[i] = walk[cs[i]]
    BY <1>1
  <2>3. flat[1] = ss[1] /\ \A i \in 2..n : flat[i] = flat[i - 1] \o ss[i]
    BY <2>1 DEF FlatPrefixes
  <2>4. \A i \in 2..n : i \in 1..n
    BY <1>1
  <2>5. 1 \in 1..n
    BY <1>1
  <2> HIDE DEF ss, n, cs
  <2>6. flat[1] = walk[cs[1]]
    BY <2>2, <2>3, <2>5
  <2>7. ASSUME NEW i \in 2..n PROVE flat[i] = flat[i - 1] \o walk[cs[i]]
    BY <2>2, <2>3, <2>4
  <2> QED BY <2>6, <2>7
<1> HIDE DEF ss
<1> DEFINE wrong == {i \in 1..n : ~ ListsChildren(flat[i], h, i)}
<1> SUFFICES ASSUME wrong # {} PROVE FALSE
  BY <1>1
<1>4. PICK i \in wrong : \A j \in wrong : i <= j
  <2>1. wrong \in SUBSET Nat
    BY <1>1
  <2> HIDE DEF wrong
  <2> QED BY <2>1, LeastElement
<1>5. i \in 1..n /\ ~ ListsChildren(flat[i], h, i)
  OBVIOUS
<1>6. CASE i = 1
  <2>1. ListsBelow(flat[1], cs[1])
    BY <1>2, <1>3, <1>5, <1>6
  <2>2. UNION {Below(cs[j]) : j \in 1..1} = Below(cs[1])
    <3>1. 1..1 = {1}
      OBVIOUS
    <3> QED BY <3>1
  <2> QED BY <1>5, <1>6, <2>1, <2>2 DEF ListsChildren, ListsBelow
<1>7. CASE i # 1
  <2>1. i - 1 \in 1..n /\ i - 1 \notin wrong /\ i \in 2..n
    <3> HIDE DEF wrong
    <3> QED BY <1>1, <1>4, <1>5, <1>7
  <2> DEFINE u == flat[i - 1]
             v == walk[cs[i]]
  <2>2. ListsChildren(u, h, i - 1)
    BY <2>1
  <2>3. ListsBelow(v, cs[i]) /\ flat[i] = u \o v
    BY <1>2, <1>3, <1>5, <2>1
  <2> HIDE DEF u, v, wrong
  <2>4. \A g \in ToSet(u) : g \in Hash /\ \E j \in 1..(i - 1) : Descends(cs[j], g)
    BY <1>1, <2>2 DEF ListsChildren, Below
  <2>5. ToSet(u) \cap ToSet(v) = {}
    <3> SUFFICES ASSUME NEW g \in ToSet(u), g \in ToSet(v) PROVE FALSE
      OBVIOUS
    <3>1. PICK j \in 1..(i - 1) : Descends(cs[j], g)
      BY <2>4
    <3>2. Descends(cs[i], g) /\ g \in Hash /\ j \in 1..n /\ j # i
      BY <1>1, <1>5, <2>3, <2>4 DEF ListsBelow, Below
    <3>3. Descends(cs[j], cs[i])
      <4>1. Number[cs[j]] = Number[h] + 1 /\ Number[cs[i]] = Number[h] + 1 /\ Number[h] \in Nat
        BY <1>1, <1>2, <1>5, <3>2, NumberType
      <4> QED BY <3>1, <3>2, <4>1, DescendsLinear
    <3>4. cs[j] = cs[i]
      BY <1>2, <1>5, <3>2, <3>3, DescendsUp
    <3> QED BY <1>1, <1>5, <3>2, <3>4 DEF Single
  <2>6. Descends(ParentHash[v[1]], u[Len(u)])
    <3>1. ParentHash[v[1]] = h
      BY <1>2, <1>5, <2>3 DEF ListsBelow
    <3>2. u[Len(u)] \in ToSet(u)
      <4>1. u \in Seq(NodeByHash) /\ Len(u) >= 1
        BY <2>2 DEF ListsChildren
      <4>2. Len(u) \in DOMAIN u
        BY <4>1
      <4> QED BY <4>2 DEF ToSet
    <3>3. PICK j \in 1..(i - 1) : Descends(cs[j], u[Len(u)])
      BY <2>4, <3>2
    <3>4. j \in 1..n /\ u[Len(u)] \in Hash
      BY <1>1, <1>5, <2>4, <3>2
    <3>5. Descends(h, cs[j])
      <4>1. cs[j] \in Hash /\ ParentHash[cs[j]] = h /\ Descends(h, h)
        BY <1>1, <1>2, <3>4, DescendsStep
      <4> DEFINE c == cs[j]
      <4> HIDE DEF c
      <4>2. c \in Hash /\ ParentHash[c] = h => Descends(h, c)
        BY <1>1, <4>1, DescendsStep
      <4> QED BY <4>1, <4>2 DEF c
    <3> QED BY <3>1, <3>3, <3>4, <3>5, DescendsTransitive
  <2>7. /\ u \o v \in Seq(NodeByHash) /\ Len(u \o v) >= 1 /\ (u \o v)[1] = u[1]
        /\ ToSet(u \o v) = ToSet(u) \cup ToSet(v)
        /\ Single(u \o v) /\ DepthFirst(u \o v)
    BY <2>2, <2>3, <2>5, <2>6, Concatenated DEF ListsChildren, ListsBelow
  <2>8. ToSet(u) \cup ToSet(v) = UNION {Below(cs[j]) : j \in 1..i}
    <3>1. 1..i = (1..(i - 1)) \cup {i}
      BY <1>1, <1>5, <2>1
    <3>2. ToSet(u) = UNION {Below(cs[j]) : j \in 1..(i - 1)} /\ ToSet(v) = Below(cs[i])
      BY <2>2, <2>3 DEF ListsChildren, ListsBelow
    <3> HIDE DEF cs
    <3> QED BY <3>1, <3>2
  <2>9. ListsChildren(flat[i], h, i)
    BY <2>2, <2>3, <2>7, <2>8 DEF ListsChildren, ListsBelow
  <2> QED BY <1>5, <2>9
<1> QED BY <1>6, <1>7

\* The children of a node are blocks of the tree, one above it.
LEMMA ChildrenAreHigher ==
  ASSUME TreeType, Shape
  PROVE  \A h \in Hash : \A i \in DOMAIN children[h] :
           /\ children[h][i] \in Hash /\ children[h][i] \in NodeByHash
           /\ children[h][i] # FirstNode
           /\ ParentHash[children[h][i]] = h /\ Number[children[h][i]] = Number[h] + 1
           /\ Number[children[h][i]] > Number[h]
<1> SUFFICES ASSUME NEW h \in Hash, NEW i \in DOMAIN children[h]
             PROVE  /\ children[h][i] \in Hash /\ children[h][i] \in NodeByHash
                    /\ children[h][i] # FirstNode
                    /\ ParentHash[children[h][i]] = h /\ Number[children[h][i]] = Number[h] + 1
                    /\ Number[children[h][i]] > Number[h]
  OBVIOUS
<1>1. FirstNode # Nil
  BY DEF Shape
<1>2. children[h][i] \in Children(NodeByHash \ {FirstNode}, h)
  BY <1>1 DEF Shape, ToSet
<1> DEFINE c == children[h][i]
<1> HIDE DEF c
<1>3. c \in NodeByHash /\ c # FirstNode /\ ParentHash[c] = h /\ c \in Hash
  BY <1>2 DEF c, Children, TreeType, Cached
<1>4. Number[c] = Number[h] + 1 /\ Number[c] \in Nat /\ Number[h] \in Nat
  BY <1>3, NumberType
<1> QED BY <1>3, <1>4 DEF c

\* addChildToChainRecursive lists what is below a node:
\* each node once, depth first.
LEMMA WhatIsBelowIsListed ==
  ASSUME TreeType, Shape, FirstNode # Nil, NEW h \in NodeByHash
  PROVE  ListsBelow(DepthFirstOf[h], h)
<1> DEFINE wrong == {Uint - Number[g] : g \in {g \in NodeByHash : ~ ListsBelow(DepthFirstOf[g], g)}}
<1> SUFFICES ASSUME wrong # {} PROVE FALSE
  OBVIOUS
<1>1. NodeByHash \subseteq Hash /\ FirstNode \in NodeByHash
  BY DEF TreeType, Cached, Shape
<1>2. PICK n \in wrong : \A m \in wrong : n <= m
  <2>1. \A g \in Hash : Uint - Number[g] \in Nat
    BY NumberType
  <2>2. wrong \in SUBSET Nat
    BY <1>1, <2>1
  <2> HIDE DEF wrong
  <2> QED BY <2>2, LeastElement
<1>3. PICK g \in NodeByHash : n = Uint - Number[g] /\ ~ ListsBelow(DepthFirstOf[g], g)
  OBVIOUS
<1> DEFINE cs == children[g]
           k  == Len(cs)
           walk == DepthFirstOf
           ss == [i \in DOMAIN cs |-> walk[cs[i]]]
<1>4. /\ g \in Hash /\ cs \in Seq(NodeByHash) /\ k \in Nat /\ DOMAIN cs = 1..k
      /\ ToSet(cs) = Children(NodeByHash \ {FirstNode}, g)
  <2>1. g \in Hash /\ children \in [Hash -> Seq(NodeByHash)]
    BY <1>1 DEF TreeType
  <2>2. cs \in Seq(NodeByHash) /\ ToSet(cs) = Children(NodeByHash \ {FirstNode}, g)
    BY <2>1 DEF Shape
  <2> HIDE DEF cs
  <2> QED BY <2>1, <2>2
<1>5. walk[g] = <<g>> \o FlattenSeq(ss)
  BY <1>4, ChildrenAreHigher, DepthFirstOfStep DEF WalkOf
<1>6. \A i \in DOMAIN cs : ListsBelow(walk[cs[i]], cs[i])
  <2> SUFFICES ASSUME NEW i \in DOMAIN cs PROVE ListsBelow(walk[cs[i]], cs[i])
    OBVIOUS
  <2> DEFINE c == cs[i]
  <2>1. c \in NodeByHash /\ c \in Hash /\ Number[c] > Number[g]
    BY <1>4, ChildrenAreHigher
  <2> HIDE DEF c
  <2>2. Uint - Number[c] \notin wrong
    <3>1. Number[c] \in Nat /\ Number[g] \in Nat
      BY <1>4, <2>1, NumberType
    <3> HIDE DEF wrong
    <3> QED BY <1>2, <1>3, <2>1, <3>1
  <2>3. ListsBelow(walk[c], c)
    BY <2>1, <2>2
  <2> QED BY <2>3 DEF c
<1>7. g \in Below(g) /\ Descends(g, g)
  BY <1>4, DescendsStep DEF Below
<1>8. CASE k = 0
  <2>1. FlattenSeq(ss) = <<>>
    <3>1. ss = <<>>
      BY <1>4, <1>8
    <3> HIDE DEF ss
    <3> QED BY <3>1 DEF FlattenSeq
  <2>2. walk[g] = <<g>>
    <3> HIDE DEF ss, walk
    <3> QED BY <1>5, <2>1
  <2>3. Below(g) = {g}
    <3> SUFFICES ASSUME NEW x \in Below(g), x # g PROVE FALSE
      BY <1>7
    <3>1. x \in NodeByHash /\ x \in Hash /\ Descends(g, x)
      BY <1>1 DEF Below
    <3>2. PICK c \in Hash : ParentHash[c] = g /\ Descends(c, x)
      BY <3>1, ChildTowards
    <3>3. Number[c] >= Number[FirstNode] /\ c # FirstNode
      <4>1. Number[FirstNode] <= Number[g] /\ Number[FirstNode] \in Nat /\ Number[g] \in Nat
        BY <1>1, <1>4, NumberType DEF Shape
      <4>2. Number[c] = Number[g] + 1
        BY <1>4, <3>2, NumberType
      <4> QED BY <4>1, <4>2
    <3>4. c \in ToSet(cs)
      BY <1>4, <3>1, <3>2, <3>3, TreeIsClosed DEF Children
    <3> QED BY <1>4, <1>8, <3>4 DEF ToSet
  <2>4. ListsBelow(<<g>>, g)
    <3>1. /\ <<g>> \in Seq(NodeByHash) /\ Len(<<g>>) = 1 /\ DOMAIN <<g>> = 1..1
      BY <1>4
    <3>2. ToSet(<<g>>) = {g}
      BY <3>1 DEF ToSet
    <3>3. Single(<<g>>) /\ DepthFirst(<<g>>)
      BY <3>1 DEF Single, DepthFirst
    <3> QED BY <2>3, <3>1, <3>2, <3>3 DEF ListsBelow
  <2> QED BY <1>3, <2>2, <2>4
<1>9. CASE k # 0
  <2>1. k >= 1
    BY <1>4, <1>9
  <2>2. ss \in [1..k -> Seq(NodeByHash)] /\ Len(ss) = k
    <3>1. \A i \in 1..k : walk[cs[i]] \in Seq(NodeByHash)
      BY <1>4, <1>6 DEF ListsBelow
    <3> HIDE DEF cs, k
    <3> QED BY <1>4, <3>1
  <2>3. PICK flat : FlatPrefixes(flat, ss, NodeByHash)
    <3> HIDE DEF ss, k
    <3> QED BY <1>4, <2>1, <2>2, Flattened
  <2> DEFINE v == flat[k]
             u == <<g>>
  <2>4. ListsChildren(v, g, k)
    <3> HIDE DEF wrong
    <3> QED BY <1>3, <1>6, <2>1, <2>3, ChildrenListed
  <2>5. walk[g] = u \o v
    <3>1. FlattenSeq(ss) = v
      BY <2>2, <2>3 DEF FlatPrefixes
    <3> QED BY <1>5, <3>1
  <2> HIDE DEF v, wrong, walk
  <2>6. \A x : x \in ToSet(v) <=> \E i \in 1..k : x \in Below(cs[i])
    <3> HIDE DEF cs, k
    <3> QED BY <2>4 DEF ListsChildren, cs, k
  <2>7. /\ u \in Seq(NodeByHash) /\ Len(u) = 1 /\ u[1] = g /\ u[Len(u)] = g
        /\ ToSet(u) = {g} /\ Single(u) /\ DepthFirst(u)
    <3>1. /\ u \in Seq(NodeByHash) /\ Len(u) = 1 /\ DOMAIN u = 1..1 /\ u[1] = g
      BY <1>4
    <3>2. ToSet(u) = {g}
      BY <3>1 DEF ToSet
    <3>3. Single(u) /\ DepthFirst(u)
      BY <3>1 DEF Single, DepthFirst
    <3> QED BY <3>1, <3>2, <3>3
  <2>8. g \notin ToSet(v)
    <3> SUFFICES ASSUME g \in ToSet(v) PROVE FALSE
      OBVIOUS
    <3>1. PICK i \in 1..k : g \in Below(cs[i])
      BY <2>6
    <3>2. Descends(cs[i], g) /\ Number[cs[i]] > Number[g] /\ cs[i] \in Hash
      BY <1>4, <3>1, ChildrenAreHigher DEF Below
    <3>3. Number[cs[i]] <= Number[g]
      BY <1>4, <3>2, DescendsUp
    <3> QED BY <1>4, <3>2, <3>3, NumberType
  <2>9. ToSet(u) \cup ToSet(v) = Below(g)
    <3>1. ASSUME NEW x \in Below(g), x # g PROVE x \in ToSet(v)
      <4>1. x \in NodeByHash /\ x \in Hash /\ Descends(g, x)
        BY <1>1, <3>1 DEF Below
      <4>2. PICK c \in Hash : ParentHash[c] = g /\ Descends(c, x)
        BY <3>1, <4>1, ChildTowards
      <4>3. Number[c] >= Number[FirstNode] /\ c # FirstNode
        <5>1. Number[FirstNode] <= Number[g] /\ Number[FirstNode] \in Nat /\ Number[g] \in Nat
          BY <1>1, <1>4, NumberType DEF Shape
        <5>2. Number[c] = Number[g] + 1
          BY <1>4, <4>2, NumberType
        <5> QED BY <5>1, <5>2
      <4>4. c \in ToSet(cs)
        BY <1>4, <4>1, <4>2, <4>3, TreeIsClosed DEF Children
      <4>5. PICK i \in 1..k : c = cs[i]
        BY <1>4, <4>4 DEF ToSet
      <4> QED BY <2>6, <4>1, <4>2, <4>5 DEF Below
    <3>2. ASSUME NEW x \in ToSet(v) PROVE x \in Below(g)
      <4>1. PICK i \in 1..k : x \in Below(cs[i])
        BY <2>6
      <4> DEFINE c == cs[i]
      <4>2. c \in Hash /\ ParentHash[c] = g /\ x \in NodeByHash /\ x \in Hash /\ Descends(c, x)
        BY <1>1, <1>4, <4>1, ChildrenAreHigher DEF Below
      <4> HIDE DEF c
      <4>3. Descends(g, c)
        BY <1>4, <1>7, <4>2, DescendsStep
      <4> QED BY <4>2, <4>3, DescendsTransitive DEF Below
    <3>3. \A x : x \in ToSet(u) <=> x = g
      BY <2>7
    <3> HIDE DEF u
    <3> QED BY <1>7, <3>1, <3>2, <3>3
  <2>10. Descends(ParentHash[v[1]], u[Len(u)])
    <3>1. v[1] = cs[1] /\ 1 \in DOMAIN cs
      BY <1>4, <2>1, <2>4 DEF ListsChildren
    <3>2. ParentHash[v[1]] = g
      BY <1>4, <3>1, ChildrenAreHigher
    <3> QED BY <1>7, <2>7, <3>2
  <2>11. /\ u \o v \in Seq(NodeByHash) /\ Len(u \o v) >= 1 /\ (u \o v)[1] = u[1]
         /\ ToSet(u \o v) = ToSet(u) \cup ToSet(v)
         /\ Single(u \o v) /\ DepthFirst(u \o v)
    <3>1. /\ v \in Seq(NodeByHash) /\ Len(v) >= 1 /\ Single(v) /\ DepthFirst(v)
          /\ Len(u) >= 1 /\ u \in Seq(NodeByHash) /\ Single(u) /\ DepthFirst(u)
      BY <2>4, <2>7 DEF ListsChildren
    <3>2. ToSet(u) \cap ToSet(v) = {}
      BY <2>7, <2>8
    <3> HIDE DEF u
    <3> QED BY <2>10, <3>1, <3>2, Concatenated
  <2>12. ListsBelow(u \o v, g)
    <3> HIDE DEF u
    <3> QED BY <2>7, <2>9, <2>11 DEF ListsBelow
  <2> HIDE DEF u
  <2>13. ListsBelow(DepthFirstOf[g], g)
    BY <2>5, <2>12 DEF walk
  <2> QED BY <1>3, <2>13
<1> QED BY <1>8, <1>9

\* The walk from the first node lists the tree.
LEMMA TreeIsListed ==
  ASSUME TreeType, Shape, FirstNode # Nil
  PROVE  Root(NodeByHash) = FirstNode /\ IsListing(DepthFirstOf[FirstNode], NodeByHash)
<1>1. NodeByHash \subseteq Hash /\ FirstNode \in NodeByHash
  BY DEF TreeType, Cached, Shape
<1>2. Root(NodeByHash) = FirstNode
  <2>1. /\ Root(NodeByHash) \in NodeByHash
        /\ Number[Root(NodeByHash)] <= Number[FirstNode]
    BY <1>1, RootIsLowest
  <2>2. Root(NodeByHash) # FirstNode => Number[FirstNode] < Number[Root(NodeByHash)]
    BY <2>1 DEF Shape
  <2> DEFINE root == Root(NodeByHash)
  <2>3. Number[root] \in Nat /\ Number[FirstNode] \in Nat
    BY <1>1, <2>1, NumberType
  <2> HIDE DEF root
  <2> QED BY <2>1, <2>2, <2>3 DEF root
<1>3. Below(FirstNode) = NodeByHash
  BY TreeIsClosed DEF Below
<1> DEFINE w == DepthFirstOf[FirstNode]
<1> HIDE DEF w
<1>4. ListsBelow(w, FirstNode)
  BY <1>1, WhatIsBelowIsListed DEF w
<1>5. NodeByHash = {w[i] : i \in DOMAIN w} /\ \A i, j \in DOMAIN w : w[i] = w[j] => i = j
  BY <1>3, <1>4 DEF ListsBelow, ToSet, Single
<1>6. IsListing(w, NodeByHash)
  BY <1>2, <1>4, <1>5 DEF ListsBelow, IsListing
<1> QED BY <1>2, <1>6 DEF w

-----------------------------------------------------------------------------
(* The properties. *)

\* What NewReorg (reorg.go:33) is called with: a node with more than one child,
\* and the chains of its children.
LEMMA FoundAtForks ==
  ASSUME NEW nodes \in SUBSET Hash, NEW w, IsListing(w, nodes), NEW B
  PROVE  /\ \A r \in FoundReorgs(B, w) : \E p \in Forks(nodes) : r = NewReorg(B, p, ChainsBelow(w, p))
         /\ \A p \in Forks(nodes) : NewReorg(B, p, ChainsBelow(w, p)) \in FoundReorgs(B, w)
<1>1. nodes = {w[i] : i \in DOMAIN w}
  BY DEF IsListing
<1> DEFINE calls == {<<p, ChainsBelow(w, p)>> : p \in Forks(nodes)}
<1>2. FoundReorgs(B, w) = {NewReorg(B, f[1], f[2]) : f \in calls}
  BY <1>1 DEF FoundReorgs
<1>3. ASSUME NEW r \in FoundReorgs(B, w)
      PROVE  \E p \in Forks(nodes) : r = NewReorg(B, p, ChainsBelow(w, p))
  <2> HIDE DEF calls
  <2>1. PICK f \in calls : r = NewReorg(B, f[1], f[2])
    BY <1>2
  <2>2. PICK p \in Forks(nodes) : f = <<p, ChainsBelow(w, p)>>
    BY <2>1 DEF calls
  <2> QED BY <2>1, <2>2
<1>4. ASSUME NEW p \in Forks(nodes)
      PROVE  NewReorg(B, p, ChainsBelow(w, p)) \in FoundReorgs(B, w)
  <2> DEFINE f == <<p, ChainsBelow(w, p)>>
  <2>1. f \in calls /\ f[1] = p /\ f[2] = ChainsBelow(w, p)
    OBVIOUS
  <2> HIDE DEF calls, f
  <2> QED BY <1>2, <2>1
<1> QED BY <1>3, <1>4

\* A reorg in the result is one of a fork of the tree.
LEMMA ReportedAtForks ==
  ASSUME IInv, NEW r \in Reorgs
  PROVE  /\ FirstNode # Nil /\ NodeByHash \in SUBSET Hash
         /\ IsListing(DepthFirstOf[FirstNode], NodeByHash)
         /\ \E p \in Forks(NodeByHash) :
              r = NewReorg(BlockByHash, p, ChainsBelow(DepthFirstOf[FirstNode], p))
<1>1. FirstNode # Nil /\ Reorgs \in ReorgMaps(FoundReorgs(BlockByHash, DepthFirstOf[FirstNode]))
  BY DEF IInv, Result
<1>2. r \in FoundReorgs(BlockByHash, DepthFirstOf[FirstNode])
  BY <1>1 DEF ReorgMaps
<1>3. IsListing(DepthFirstOf[FirstNode], NodeByHash) /\ NodeByHash \in SUBSET Hash
  BY <1>1, TreeIsListed DEF IInv, TreeType, Cached
<1> DEFINE w == DepthFirstOf[FirstNode]
<1> HIDE DEF w
<1>4. \A s \in FoundReorgs(BlockByHash, w) : \E p \in Forks(NodeByHash) :
        s = NewReorg(BlockByHash, p, ChainsBelow(w, p))
  BY <1>3, FoundAtForks DEF w
<1> HIDE DEF IInv
<1> QED BY <1>1, <1>2, <1>3, <1>4 DEF w

\* A reorg is named after its fork.
LEMMA ForkFields ==
  ASSUME NEW B, NEW p, NEW chains
  PROVE  /\ NewReorg(B, p, chains).CommonParent = p
         /\ NewReorg(B, p, chains).StartBlockHeight = Number[p] + 1
BY DEF NewReorg

\* Every variable of AnalyzeTree holds a value of the type its Go field has; a
\* reorg starts at a node of the tree.
THEOREM TypeCorrect == Spec => []TypeOK
<1>1. IInv => TypeOK
  <2> SUFFICES ASSUME IInv PROVE TypeOK
    OBVIOUS
  <2>1. \A r \in Reorgs : r.CommonParent \in NodeByHash
    BY ReportedAtForks, ForkFields DEF Forks
  <2> QED BY <2>1 DEF IInv, TreeType, TypeOK
<1> QED BY <1>1, InvariantHolds, PTL

\* What AnalyzeTree (monitor.go:242) gives its callers.
THEOREM TheTreeIsTheResult == Spec => []ResultIsTheTree
<1>1. IInv => ResultIsTheTree
  <2> SUFFICES ASSUME IInv, pc = "done"
               PROVE  /\ err # "none" <=> AnalysisFails(Cached, StartHeight, endBlockNumber)
                      /\ err = "none" =>
                           /\ NodeByHash = TreeNodes(Cached, StartHeight, endBlockNumber)
                           /\ NodeByHash # {} => DepthFirstOf[FirstNode] \in Walks(NodeByHash)
    BY DEF ResultIsTheTree, StartHeight
  <2> USE DEF IInv
  <2>1. CASE err # "none"
    BY <2>1 DEF Progress
  <2>2. CASE err = "none"
    <3> DEFINE m == Number[FirstNode]
               nodes == TreeNodes(Cached, StartHeight, endBlockNumber)
    <3>1. /\ StartHeight \in Nat /\ height \in Nat /\ endBlockNumber \in Nat
          /\ endBlockNumber < height
          /\ height <= endBlockNumber + 1 \/ height = StartHeight
          /\ \A n \in StartHeight..height - 1 : At(Cached, n) # {}
          /\ FirstNode = Nil => \A n \in StartHeight..height - 1 : Cardinality(At(Cached, n)) # 1
      BY <2>2, StartType, HeightsType DEF Progress
    <3>2. \A n \in StartHeight..endBlockNumber : n \in StartHeight..height - 1
      BY <3>1
    <3>3. \A n \in StartHeight..endBlockNumber : At(Cached, n) # {}
      BY <3>1, <3>2
    <3>4. CASE FirstNode = Nil
      <4>1. Singles(Cached, StartHeight, endBlockNumber) = {}
        BY <3>1, <3>2, <3>4 DEF Singles
      <4>2. nodes = {} /\ NodeByHash = {}
        BY <3>4, <4>1 DEF TreeNodes, Shape
      <4> QED BY <2>2, <3>3, <4>2 DEF AnalysisFails, Orphans
    <3>5. CASE FirstNode # Nil
      <4>1. /\ m \in StartHeight..height /\ m # height
            /\ At(Cached, m) = {FirstNode}
            /\ \A n \in StartHeight..m - 1 : Cardinality(At(Cached, n)) # 1
            /\ \A h \in Cached : h \in NodeByHash <=> Number[h] \in m..height - 1
            /\ NodeByHash \subseteq Cached
        BY <2>2, <3>5 DEF Progress, TreeType
      <4> HIDE DEF m
      <4>2. /\ m \in Nat /\ StartHeight <= m /\ m <= endBlockNumber
            /\ height - 1 = endBlockNumber
        BY <3>1, <4>1
      <4>3. nodes = {h \in Cached : Number[h] \in m..endBlockNumber}
        <5>1. Cardinality(At(Cached, m)) = 1 /\ Cached \in SUBSET Hash
          BY <4>1, FS_Singleton DEF Cached
        <5>2. /\ StartHeight \in Nat /\ endBlockNumber \in Nat
              /\ m \in Nat /\ StartHeight <= m /\ m <= endBlockNumber
              /\ \A n \in StartHeight..m - 1 : Cardinality(At(Cached, n)) # 1
          BY <3>1, <4>1, <4>2
        <5> HIDE DEF IInv
        <5> QED BY <5>1, <5>2, TreeFromFirst
      <4>4. nodes = NodeByHash
        BY <4>1, <4>2, <4>3
      <4> HIDE DEF nodes
      <4>5. Orphans(nodes) = {}
        <5> SUFFICES ASSUME NEW h \in Orphans(nodes) PROVE FALSE
          OBVIOUS
        <5>1. h \in NodeByHash /\ ParentHash[h] \notin NodeByHash
          BY <4>4 DEF Orphans
        <5>2. h = FirstNode
          BY <3>5, <5>1 DEF Shape
        <5>3. PICK g \in NodeByHash : g # h /\ Number[g] <= Number[h]
          BY <4>4 DEF Orphans
        <5>4. Number[h] < Number[g] /\ g \in Hash /\ h \in Hash
          BY <3>5, <5>1, <5>2, <5>3 DEF Shape, TreeType, Cached
        <5> QED BY <5>3, <5>4, NumberType
      <4>6. DepthFirstOf[FirstNode] \in Walks(NodeByHash)
        <5>1. NodeByHash \in SUBSET Hash
          BY DEF TreeType, Cached
        <5> HIDE DEF IInv
        <5> QED BY <3>5, <5>1, TreeIsListed, ListingIsWalk DEF IInv
      <4> QED BY <2>2, <3>3, <4>4, <4>5, <4>6 DEF AnalysisFails, nodes
    <3> QED BY <3>4, <3>5
  <2> QED BY <2>1, <2>2
<1> QED BY <1>1, InvariantHolds, PTL

\* A list without repetitions is as long as the set of its members.
LEMMA LengthOfSingle ==
  ASSUME NEW S, NEW s \in Seq(S), Single(s)
  PROVE  Len(s) = Cardinality(ToSet(s))
<1>1. s \in Bijection(1..Len(s), ToSet(s))
  <2>1. DOMAIN s = 1..Len(s) /\ ToSet(s) = {s[i] : i \in 1..Len(s)} /\ s = [i \in 1..Len(s) |-> s[i]]
    BY DEF ToSet
  <2>2. \A i, j \in 1..Len(s) : s[i] = s[j] => i = j
    BY <2>1 DEF Single
  <2> QED BY <2>1, <2>2 DEF Bijection, Injection, Surjection, IsInjective
<1>2. IsFiniteSet(1..Len(s)) /\ Cardinality(1..Len(s)) = Len(s)
  <2>1. Len(s) \in Nat
    OBVIOUS
  <2> DEFINE n == Len(s)
  <2> HIDE DEF n
  <2>2. n \in Nat /\ n \in Int /\ 1 \in Int
    BY <2>1 DEF n
  <2>3. IsFiniteSet(1..n) /\ Cardinality(1..n) = IF 1 > n THEN 0 ELSE n - 1 + 1
    BY <2>2, FS_Interval
  <2>4. (IF 1 > n THEN 0 ELSE n - 1 + 1) = n
    BY <2>2
  <2> QED BY <2>3, <2>4 DEF n
<1>3. ExistsBijection(1..Len(s), ToSet(s))
  BY <1>1 DEF ExistsBijection
<1> QED BY <1>2, <1>3, FS_Bijection

\* BlockTree.AddBlock (tree.go:47) keeps the highest nodes and the main chain up to date.
THEOREM TheMainChainLeadsToTheHighest == Spec => []MainChainLeadsToTheHighest
<1>1. IInv => MainChainLeadsToTheHighest
  <2> SUFFICES ASSUME IInv PROVE MainChainLeadsToTheHighest
    OBVIOUS
  <2> USE DEF IInv
  <2> DEFINE main == MainChainNodeByHash
  <2>1. CASE FirstNode = Nil
    <3>1. NodeByHash = {} /\ LatestNodes = <<>> /\ main = {}
      BY <2>1 DEF Shape
    <3>2. ToSet(LatestNodes) = {} /\ Highest = {} /\ Len(LatestNodes) = 0 /\ Cardinality(Highest) = 0
      BY <3>1, FS_EmptySet DEF ToSet, Highest
    <3> QED BY <3>1, <3>2 DEF MainChainLeadsToTheHighest, Highest
  <2>2. CASE FirstNode # Nil
    <3>1. /\ ToSet(LatestNodes) = Highest /\ Single(LatestNodes) /\ LatestNodes \in Seq(NodeByHash)
          /\ main = IF Len(LatestNodes) = 1 /\ NodeByHash # {FirstNode}
                    THEN Lineage(NodeByHash, LatestNodes[1]) ELSE {}
          /\ FirstNode \in NodeByHash /\ NodeByHash \subseteq Hash
          /\ \A h \in NodeByHash \ {FirstNode} : ParentHash[h] \in NodeByHash
      BY <2>2 DEF Shape, TreeType, Cached
    <3>2. Len(LatestNodes) = Cardinality(Highest)
      BY <3>1, LengthOfSingle
    <3>3. ASSUME Cardinality(Highest) = 1, NodeByHash # {FirstNode}
          PROVE  /\ {FirstNode, LatestNodes[1]} \subseteq main
                 /\ \A h \in main : h # FirstNode => ParentHash[h] \in main
                 /\ \A g, h \in main : Number[g] = Number[h] => g = h
      <4> DEFINE top == LatestNodes[1]
      <4>1. main = Lineage(NodeByHash, top)
        BY <3>1, <3>2, <3>3
      <4>2. top \in NodeByHash /\ top \in Hash
        <5>1. 1 \in DOMAIN LatestNodes
          BY <3>1, <3>2, <3>3
        <5> QED BY <3>1, <5>1
      <4> HIDE DEF top
      <4>3. \A h : h \in main <=> h \in NodeByHash /\ Descends(h, top)
        BY <4>1 DEF Lineage
      <4>4. FirstNode \in main /\ top \in main
        BY <2>2, <3>1, <4>2, <4>3, TreeIsClosed, DescendsStep
      <4>5. ASSUME NEW h \in main, h # FirstNode PROVE ParentHash[h] \in main
        <5>1. h \in NodeByHash /\ h \in Hash /\ Descends(h, top) /\ ParentHash[h] \in NodeByHash
          BY <3>1, <4>3, <4>5
        <5>2. Descends(ParentHash[h], h)
          BY <3>1, <5>1, DescendsStep
        <5> QED BY <4>2, <4>3, <5>1, <5>2, DescendsTransitive
      <4>6. ASSUME NEW g \in main, NEW h \in main, Number[g] = Number[h] PROVE g = h
        <5>1. g \in Hash /\ h \in Hash /\ Descends(g, top) /\ Descends(h, top)
          BY <3>1, <4>3
        <5>2. Descends(g, h)
          BY <4>2, <4>6, <5>1, DescendsLinear, NumberType
        <5> QED BY <4>6, <5>1, <5>2, DescendsUp
      <4> QED BY <4>4, <4>5, <4>6 DEF top
    <3>4. ASSUME ~ (Cardinality(Highest) = 1 /\ NodeByHash # {FirstNode}) PROVE main = {}
      BY <3>1, <3>2, <3>4
    <3> QED BY <3>1, <3>2, <3>3, <3>4 DEF MainChainLeadsToTheHighest, Highest
  <2> QED BY <2>1, <2>2
<1> QED BY <1>1, InvariantHolds, PTL

\* NewTreeAnalysis (treeanalysis.go:42-50): reorgs with one Id start at one height,
\* so no height with forks goes unreported.
THEOREM EveryForkedHeightIsReported == Spec => []LoneForksAreReported
<1>1. IInv => LoneForksAreReported
  <2> SUFFICES ASSUME IInv, pc = "done", err = "none", NEW p \in Forks(NodeByHash)
               PROVE  \E r \in Reorgs : /\ r.CommonParent \in Forks(NodeByHash)
                                        /\ Number[r.CommonParent] = Number[p]
    BY DEF LoneForksAreReported
  <2> DEFINE w == DepthFirstOf[FirstNode]
             found == FoundReorgs(BlockByHash, w)
             mine == NewReorg(BlockByHash, p, ChainsBelow(w, p))
  <2>1. FirstNode # Nil /\ NodeByHash \in SUBSET Hash /\ p \in Hash
    BY DEF IInv, Shape, TreeType, Cached, Forks
  <2>2. Reorgs \in ReorgMaps(found)
    BY <2>1 DEF IInv, Result
  <2>3. IsListing(w, NodeByHash)
    BY <2>1, TreeIsListed DEF IInv
  <2>4. mine \in found
    <3> HIDE DEF w
    <3> QED BY <2>1, <2>3, FoundAtForks
  <2> HIDE DEF found, mine
  <2>5. PICK r \in Reorgs : Id(r) = Id(mine)
    <3>1. {Id(r) : r \in Reorgs} = {Id(r) : r \in found}
      BY <2>2 DEF ReorgMaps
    <3>2. Id(mine) \in {Id(r) : r \in found}
      BY <2>4
    <3> QED BY <3>1, <3>2
  <2>6. r.StartBlockHeight = mine.StartBlockHeight
    BY <2>5 DEF Id
  <2>7. mine.StartBlockHeight = Number[p] + 1
    BY ForkFields DEF mine
  <2>8. PICK q \in Forks(NodeByHash) : r.CommonParent = q /\ r.StartBlockHeight = Number[q] + 1
    BY ReportedAtForks, ForkFields
  <2>9. q \in Hash
    BY <2>1 DEF Forks
  <2>10. Number[q] = Number[p]
    BY <2>1, <2>6, <2>7, <2>8, <2>9, NumberType
  <2> QED BY <2>8, <2>10
<1> QED BY <1>1, InvariantHolds, PTL

\* A reorg is finished when one chain is longer than the depth; what comes after
\* the depth on it is not a block of the reorg (reorg.go:72-125).
THEOREM AFinishedReorgGoesOn == Spec => []FinishedReorgGoesOn
<1>1. IInv => FinishedReorgGoesOn
  <2> SUFFICES ASSUME IInv, NEW r \in Reorgs, r.IsFinished
               PROVE  /\ r.FirstBlockAfterReorg \in NodeByHash \ r.BlocksInvolved
                      /\ Descends(r.MainChainHash, r.FirstBlockAfterReorg)
                      /\ \E h \in r.BlocksInvolved : /\ Number[h] = r.EndBlockHeight
                                                     /\ Descends(r.MainChainHash, h)
                      /\ r.NumReplacedBlocks =
                           Cardinality({h \in r.BlocksInvolved : ~ Descends(r.MainChainHash, h)})
    BY DEF FinishedReorgGoesOn
  <2>1. PICK p \in Forks(NodeByHash) :
          r = NewReorg(BlockByHash, p, ChainsBelow(DepthFirstOf[FirstNode], p))
    BY ReportedAtForks
  <2> DEFINE w == DepthFirstOf[FirstNode]
             chains == ChainsBelow(w, p)
             roots == Children(NodeByHash, p)
             depth == Depth(chains)
             main == r.MainChainHash
             s == chains[main]
  <2> HIDE DEF w
  <2>2. /\ r = NewReorg(BlockByHash, p, chains) /\ FirstNode # Nil
        /\ IsListing(w, NodeByHash) /\ NodeByHash \in SUBSET Hash
    <3> HIDE DEF IInv
    <3> QED BY <2>1, ReportedAtForks DEF w
  <2>3. /\ roots \subseteq NodeByHash
        /\ \A c \in roots : IsChain(chains[c], c, NodeByHash)
        /\ \A c, d \in roots : \A h \in Hash : Descends(c, h) /\ Descends(d, h) => c = d
    BY <2>2, ChainsOfFork
  <2>4. /\ r.NumReplacedBlocks = Cardinality(r.BlocksInvolved) - depth
        /\ depth \in Nat /\ depth >= 1
        /\ \A h : h \in r.BlocksInvolved <=>
             \E c \in roots : \E i \in 1..Len(chains[c]) : i <= depth /\ h = chains[c][i]
        /\ main \in roots /\ Len(s) > depth
        /\ r.EndBlockHeight = Number[s[depth]]
        /\ r.FirstBlockAfterReorg = s[depth + 1]
    BY <2>2, WhatIsReported
  <2> HIDE DEF chains, roots, depth, main, s
  <2>5. IsChain(s, main, NodeByHash)
    BY <2>3, <2>4 DEF s
  <2>6. /\ Len(s) \in Nat
        /\ \A i \in 1..Len(s) : s[i] \in NodeByHash /\ s[i] \in Hash /\ Descends(main, s[i])
        /\ \A i, j \in 1..Len(s) : s[i] = s[j] => i = j
        /\ \A h \in NodeByHash : Descends(main, h) => \E i \in 1..Len(s) : s[i] = h
    BY <2>2, <2>5 DEF IsChain
  <2>7. depth \in 1..Len(s) /\ depth + 1 \in 1..Len(s)
    BY <2>4, <2>6
  \* The blocks of the reorg on the main chain.
  <2>8. \A h : h \in r.BlocksInvolved /\ Descends(main, h) <=> \E i \in 1..depth : h = s[i]
    <3>1. ASSUME NEW h \in r.BlocksInvolved, Descends(main, h) PROVE \E i \in 1..depth : h = s[i]
      <4>1. PICK c \in roots : \E i \in 1..Len(chains[c]) : i <= depth /\ h = chains[c][i]
        BY <2>4
      <4>2. PICK i \in 1..Len(chains[c]) : i <= depth /\ h = chains[c][i]
        BY <4>1
      <4>3. IsChain(chains[c], c, NodeByHash)
        BY <2>3
      <4>4. h \in Hash /\ Descends(c, h) /\ Len(chains[c]) \in Nat
        BY <2>2, <4>2, <4>3 DEF IsChain
      <4>5. c = main
        BY <2>3, <2>4, <3>1, <4>4
      <4>6. i \in 1..depth /\ h = s[i]
        BY <2>4, <4>2, <4>4, <4>5 DEF s
      <4> QED BY <4>6
    <3>2. ASSUME NEW i \in 1..depth PROVE s[i] \in r.BlocksInvolved /\ Descends(main, s[i])
      <4>1. i \in 1..Len(s) /\ i <= depth
        BY <2>4, <2>6
      <4>2. \E j \in 1..Len(chains[main]) : j <= depth /\ s[i] = chains[main][j]
        BY <4>1 DEF s
      <4> QED BY <2>4, <2>6, <4>1, <4>2
    <3> QED BY <3>1, <3>2
  <2>9. r.FirstBlockAfterReorg \in NodeByHash \ r.BlocksInvolved /\ Descends(main, r.FirstBlockAfterReorg)
    <3>1. s[depth + 1] \in NodeByHash /\ Descends(main, s[depth + 1])
      BY <2>6, <2>7
    <3>2. s[depth + 1] \notin r.BlocksInvolved
      <4> SUFFICES ASSUME s[depth + 1] \in r.BlocksInvolved PROVE FALSE
        OBVIOUS
      <4>1. PICK i \in 1..depth : s[depth + 1] = s[i]
        BY <2>8, <3>1
      <4>2. i \in 1..Len(s)
        BY <2>4, <2>6
      <4>3. i = depth + 1
        BY <2>6, <2>7, <4>1, <4>2
      <4> QED BY <2>4, <4>3
    <3> QED BY <2>4, <3>1, <3>2
  <2>10. \E h \in r.BlocksInvolved : Number[h] = r.EndBlockHeight /\ Descends(main, h)
    <3>1. depth \in 1..depth
      BY <2>4
    <3> QED BY <2>4, <2>8, <3>1
  <2>11. r.NumReplacedBlocks = Cardinality({h \in r.BlocksInvolved : ~ Descends(main, h)})
    <3> DEFINE all == r.BlocksInvolved
               kept == {h \in all : Descends(main, h)}
    <3>1. all \subseteq NodeByHash
      <4> SUFFICES ASSUME NEW h \in all PROVE h \in NodeByHash
        OBVIOUS
      <4>1. PICK c \in roots : \E i \in 1..Len(chains[c]) : i <= depth /\ h = chains[c][i]
        BY <2>4
      <4>2. IsChain(chains[c], c, NodeByHash)
        BY <2>3
      <4> QED BY <4>1, <4>2 DEF IsChain
    <3> HIDE DEF all
    <3>2. IsFiniteSet(all)
      BY <2>2, <3>1, ChainAssumption, FS_Subset
    <3>3. Cardinality(kept) = depth
      <4> DEFINE f == [i \in 1..depth |-> s[i]]
      <4>1. f \in Bijection(1..depth, kept)
        <5>1. \A h : h \in kept <=> \E i \in 1..depth : h = s[i]
          BY <2>8 DEF all
        <5>2. \A i \in 1..depth : i \in 1..Len(s)
          BY <2>4, <2>6
        <5>3. \A i, j \in 1..depth : s[i] = s[j] => i = j
          BY <2>6, <5>2
        <5> HIDE DEF kept
        <5> QED BY <5>1, <5>3 DEF Bijection, Injection, Surjection, IsInjective
      <4>2. ExistsBijection(1..depth, kept)
        BY <4>1 DEF ExistsBijection
      <4>3. IsFiniteSet(1..depth) /\ Cardinality(1..depth) = depth
        BY <2>4, FS_Interval
      <4> HIDE DEF kept
      <4> QED BY <4>2, <4>3, FS_Bijection
    <3>4. /\ {h \in all : ~ Descends(main, h)} = all \ kept /\ all \cap kept = kept
      OBVIOUS
    <3>5. Cardinality(all \ kept) = Cardinality(all) - Cardinality(all \cap kept)
      <4> HIDE DEF kept
      <4> QED BY <3>2, FS_Difference
    <3> QED BY <2>4, <3>3, <3>4, <3>5 DEF all
  <2> QED BY <2>9, <2>10, <2>11 DEF main
<1> QED BY <1>1, InvariantHolds, PTL

\* The height of a branch without forks, and the length of its chain.
LEMMA HeightOfPath ==
  ASSUME NodeByHash \in SUBSET Hash, NEW c \in NodeByHash, NEW s,
         IsChain(s, c, NodeByHash), IsPath(s, c)
  PROVE  HeightOf(c) = Number[c] + Len(s) - 1
<1> DEFINE branch == {h \in NodeByHash : Descends(c, h)}
           numbers == {Number[h] : h \in branch}
<1>1. /\ Len(s) \in Nat /\ Len(s) >= 1 /\ Number[c] \in Nat
      /\ \A h : h \in branch <=> \E i \in 1..Len(s) : s[i] = h
      /\ \A i \in 1..Len(s) : Number[s[i]] = Number[c] + i - 1
  BY NumberType DEF IsChain, IsPath
<1>2. numbers \in SUBSET Nat /\ IsFiniteSet(numbers)
  <2>1. branch \in SUBSET Hash
    OBVIOUS
  <2> HIDE DEF branch
  <2> QED BY <2>1, FiniteNumbers
<1>3. \A n : n \in numbers <=> \E i \in 1..Len(s) : n = Number[c] + i - 1
  <2> HIDE DEF branch
  <2> QED BY <1>1
<1> DEFINE top == Number[c] + Len(s) - 1
<1>4. top \in numbers /\ \A n \in numbers : n <= top
  <2>1. Len(s) \in 1..Len(s)
    BY <1>1
  <2> HIDE DEF numbers
  <2>2. top \in numbers
    BY <1>3, <2>1
  <2>3. ASSUME NEW n \in numbers PROVE n <= top
    <3>1. PICK i \in 1..Len(s) : n = Number[c] + i - 1
      BY <1>3
    <3> QED BY <1>1, <3>1
  <2> QED BY <2>2, <2>3
<1> HIDE DEF numbers, top
<1>5. Max(numbers) \in numbers /\ \A n \in numbers : n <= Max(numbers)
  BY <1>2, <1>4, MaxOfFinite
<1>6. Max(numbers) = top
  <2> DEFINE m == Max(numbers)
  <2>1. m \in Nat /\ top \in Nat /\ m <= top /\ top <= m
    BY <1>2, <1>4, <1>5
  <2> HIDE DEF m
  <2> QED BY <2>1 DEF m
<1> QED BY <1>6 DEF HeightOf, numbers, top

\* A fork whose branches do not fork again has paths for chains.
LEMMA SimpleChains ==
  ASSUME TreeType, Shape, FirstNode # Nil, NEW r, Simple(r), NEW p \in NodeByHash,
         r.CommonParent = p, NEW c \in Children(NodeByHash, p), NEW s, IsChain(s, c, NodeByHash)
  PROVE  IsPath(s, c) /\ HeightOf(c) = Number[p] + Len(s)
<1>1. /\ NodeByHash \in SUBSET Hash /\ c \in NodeByHash /\ c \in Hash /\ p \in Hash
      /\ ParentHash[c] = p /\ Number[c] = Number[p] + 1
      /\ FirstNode \in NodeByHash /\ FirstNode \in Hash
  BY NumberType DEF TreeType, Cached, Children, Shape
<1>2. Descends(p, c)
  BY <1>1, DescendsStep
<1>3. ASSUME NEW h \in NodeByHash, Descends(c, h) PROVE \A x, y \in Children(NodeByHash, h) : x = y
  <2>1. h \in Hash /\ Descends(p, h) /\ h # p
    <3>1. h \in Hash /\ Descends(p, h) /\ Number[c] <= Number[h]
      BY <1>1, <1>2, <1>3, DescendsTransitive, DescendsUp
    <3> QED BY <1>1, <3>1, NumberType
  <2>2. Len(children[h]) < 2
    BY <1>1, <2>1 DEF Simple
  <2>3. /\ children[h] \in Seq(NodeByHash)
        /\ ToSet(children[h]) = Children(NodeByHash \ {FirstNode}, h)
    <3>1. children \in [Hash -> Seq(NodeByHash)]
      BY DEF TreeType
    <3>2. ToSet(children[h]) = Children(NodeByHash \ {FirstNode}, h)
      BY <2>1 DEF Shape
    <3> QED BY <2>1, <3>1, <3>2
  <2>4. ASSUME NEW x \in Children(NodeByHash, h) PROVE x \in ToSet(children[h])
    <3>1. x \in NodeByHash /\ ParentHash[x] = h /\ Number[x] = Number[h] + 1
      BY <1>1, <2>1, NumberType DEF Children
    <3>2. Number[FirstNode] <= Number[h] /\ Number[FirstNode] \in Nat /\ Number[h] \in Nat
      <4>1. h # FirstNode => Number[FirstNode] < Number[h]
        BY DEF Shape
      <4>2. Number[FirstNode] \in Nat /\ Number[h] \in Nat
        BY <1>1, <2>1, NumberType
      <4> DEFINE n == Number[FirstNode]
                 m == Number[h]
      <4>3. h = FirstNode => n = m
        OBVIOUS
      <4> HIDE DEF n, m
      <4>4. n <= m
        BY <4>1, <4>2, <4>3 DEF n, m
      <4> QED BY <4>2, <4>4 DEF n, m
    <3>3. x # FirstNode
      BY <3>1, <3>2
    <3> QED BY <2>3, <3>1, <3>3 DEF Children
  <2> DEFINE t == children[h]
  <2> HIDE DEF t
  <2>5. \A x, y \in ToSet(t) : x = y
    <3>1. t \in Seq(NodeByHash) /\ Len(t) \in Nat /\ Len(t) < 2
      BY <2>2, <2>3 DEF t
    <3>2. DOMAIN t = 1..Len(t)
      BY <3>1
    <3>3. \A i \in DOMAIN t : i = 1
      BY <3>1, <3>2
    <3> QED BY <3>3 DEF ToSet
  <2> QED BY <2>4, <2>5 DEF t
<1>4. ASSUME NEW x \in Hash, NEW y \in NodeByHash, Descends(c, x), Descends(x, y) PROVE x \in NodeByHash
  <2>1. Descends(FirstNode, c) /\ y \in Hash
    BY <1>1, TreeIsClosed
  <2>2. Number[FirstNode] <= Number[c] /\ Number[c] <= Number[x]
    BY <1>1, <1>4, <2>1, DescendsUp
  <2>3. Number[FirstNode] <= Number[x]
    <3>1. Number[FirstNode] \in Nat /\ Number[c] \in Nat /\ Number[x] \in Nat
      BY <1>1, NumberType
    <3> QED BY <2>2, <3>1
  <2>4. \A a : Descends(a, y) /\ Number[a] >= Number[FirstNode] => a \in NodeByHash
    BY TreeIsClosed
  <2>5. Number[x] >= Number[FirstNode]
    <3>1. Number[FirstNode] \in Nat /\ Number[x] \in Nat
      BY <1>1, NumberType
    <3> QED BY <2>3, <3>1
  <2> QED BY <1>4, <2>4, <2>5
<1>5. IsPath(s, c)
  BY <1>1, <1>3, <1>4, UnforkedChainIsPath
<1>6. HeightOf(c) = Number[c] + Len(s) - 1
  BY <1>1, <1>5, HeightOfPath
<1>7. Number[p] \in Nat /\ Len(s) \in Nat
  BY <1>1, NumberType DEF IsChain
<1> QED BY <1>1, <1>5, <1>6, <1>7

\* NewReorg (reorg.go:33) on a fork whose branches do not fork again.
THEOREM ASimpleReorgIsExact == Spec => []SimpleReorgIsExact
<1>1. IInv => SimpleReorgIsExact
  <2> SUFFICES ASSUME IInv, NEW r \in Reorgs, Simple(r)
               PROVE
    LET roots     == Children(NodeByHash, r.CommonParent)
        higher(c) == {d \in roots : d # c /\ HeightOf(d) >= HeightOf(c)}
        first     == {c \in roots : higher(c) = {}}
        runnerUp  == Max({HeightOf(c) : c \in roots \ first})
    IN /\ r.IsFinished <=> first # {}
       /\ r.Depth = runnerUp + 1 - r.StartBlockHeight
       /\ r.BlocksInvolved = {h \in NodeByHash :
            /\ \E c \in roots : Descends(c, h)
            /\ Number[h] \in r.StartBlockHeight..runnerUp}
       /\ r.IsFinished =>
            /\ r.MainChainHash \in first /\ r.EndBlockHeight = runnerUp
            /\ ParentHash[r.FirstBlockAfterReorg] \in r.BlocksInvolved
            /\ Number[r.FirstBlockAfterReorg] = runnerUp + 1
            /\ Descends(r.MainChainHash, r.FirstBlockAfterReorg)
    BY DEF SimpleReorgIsExact
  <2>1. PICK p \in Forks(NodeByHash) :
          r = NewReorg(BlockByHash, p, ChainsBelow(DepthFirstOf[FirstNode], p))
    BY ReportedAtForks
  <2> DEFINE w == DepthFirstOf[FirstNode]
             chains == ChainsBelow(w, p)
             roots == Children(NodeByHash, p)
             depth == Depth(chains)
             main == r.MainChainHash
             top(c) == HeightOf(c)
             len(c) == Len(chains[c])
             first == {c \in roots : \A d \in roots : d # c => ~ (top(d) >= top(c))}
             tops  == {top(c) : c \in roots \ first}
  <2> HIDE DEF w
  <2>2. /\ r = NewReorg(BlockByHash, p, chains) /\ FirstNode # Nil
        /\ IsListing(w, NodeByHash) /\ NodeByHash \in SUBSET Hash
    <3> HIDE DEF IInv
    <3> QED BY <2>1, ReportedAtForks DEF w
  <2>3. /\ roots \subseteq NodeByHash /\ Cardinality(roots) > 1 /\ chains \in [roots -> Seq(NodeByHash)]
        /\ \A c \in roots : IsChain(chains[c], c, NodeByHash) /\ Number[c] = Number[p] + 1
    BY <2>2, ChainsOfFork
  <2>4. /\ r.CommonParent = p /\ r.StartBlockHeight = Number[p] + 1 /\ r.Depth = depth
        /\ depth \in Nat /\ depth >= 1
        /\ \A h : h \in r.BlocksInvolved <=>
             \E c \in roots : \E i \in 1..Len(chains[c]) : i <= depth /\ h = chains[c][i]
        /\ r.IsFinished <=> \E c \in roots : Len(chains[c]) > depth
        /\ r.IsFinished =>
             /\ main \in roots /\ Len(chains[main]) > depth
             /\ r.EndBlockHeight = Number[chains[main][depth]]
             /\ r.FirstBlockAfterReorg = chains[main][depth + 1]
    BY <2>2, WhatIsReported
  <2> HIDE DEF chains
  <2>5. /\ \E c, d \in roots : /\ c # d /\ len(c) = depth /\ len(d) >= depth
        /\ \A c, d \in roots : c # d => len(c) <= depth \/ len(d) <= depth
    <3>1. \A c \in roots : Len(chains[c]) >= 1
      BY <2>3 DEF IsChain
    <3> HIDE DEF roots
    <3> QED BY <2>2, <2>3, <3>1, DepthIsSecondLongest
  <2>6. p \in NodeByHash /\ p \in Hash /\ Number[p] \in Nat
    BY <2>2, NumberType DEF Forks
  <2>7. \A c \in roots : /\ IsPath(chains[c], c) /\ top(c) = Number[p] + len(c)
                         /\ len(c) \in Nat /\ len(c) >= 1
    <3>1. TreeType /\ Shape /\ FirstNode # Nil
      BY <2>2 DEF IInv
    <3>2. \A c \in roots : IsChain(chains[c], c, NodeByHash)
      BY <2>3
    <3>3. \A c \in roots : len(c) \in Nat /\ len(c) >= 1
      BY <3>2 DEF IsChain
    <3>4. \A c \in roots : IsPath(chains[c], c) /\ top(c) = Number[p] + Len(chains[c])
      BY <2>4, <2>6, <3>1, <3>2, SimpleChains
    <3> QED BY <3>3, <3>4
  <2> DEFINE n == Number[p]
             runnerUp == Max(tops)
  <2> HIDE DEF roots, len, top, n
  <2>8. \A c \in roots : c \in first <=> len(c) > depth
    <3> SUFFICES ASSUME NEW c \in roots PROVE c \in first <=> len(c) > depth
      OBVIOUS
    <3>1. \A d \in roots : top(d) >= top(c) <=> len(d) >= len(c)
      BY <2>6, <2>7 DEF n
    <3>2. PICK a \in roots, b \in roots : a # b /\ len(a) = depth /\ len(b) >= depth
      BY <2>5
    <3>3. ASSUME c \in first PROVE len(c) > depth
      <4>1. \A d \in roots : d # c => ~ (len(d) >= len(c))
        BY <3>1, <3>3
      <4>2. len(a) \in Nat /\ len(b) \in Nat /\ len(c) \in Nat
        BY <2>7
      <4>3. CASE a # c
        BY <2>4, <3>2, <4>1, <4>2, <4>3
      <4>4. CASE a = c
        BY <2>4, <3>2, <4>1, <4>2, <4>4
      <4> QED BY <4>3, <4>4
    <3>4. ASSUME len(c) > depth PROVE c \in first
      <4>1. ASSUME NEW d \in roots, d # c PROVE ~ (len(d) >= len(c))
        <5>1. len(d) <= depth /\ len(d) \in Nat /\ len(c) \in Nat
          BY <2>4, <2>5, <2>7, <3>4, <4>1
        <5> QED BY <2>4, <3>4, <5>1
      <4> QED BY <3>1, <4>1
    <3> QED BY <3>3, <3>4
  <2> HIDE DEF first
  <2>9. runnerUp = n + depth
    <3>1. \A x : x \in tops <=> \E c \in roots : len(c) <= depth /\ x = n + len(c)
      <4>1. \A c \in roots : c \notin first <=> len(c) <= depth
        BY <2>4, <2>7, <2>8
      <4>2. \A c \in roots : top(c) = n + len(c)
        BY <2>7 DEF n
      <4> QED BY <4>1, <4>2
    <3> HIDE DEF tops
    <3>2. n + depth \in tops
      <4>1. depth <= depth
        BY <2>4
      <4> QED BY <2>5, <3>1, <4>1
    <3>3. \A x \in tops : x \in Nat /\ x <= n + depth
      <4> SUFFICES ASSUME NEW x \in tops PROVE x \in Nat /\ x <= n + depth
        OBVIOUS
      <4>1. PICK c \in roots : len(c) <= depth /\ x = n + len(c)
        BY <3>1
      <4>2. len(c) \in Nat /\ n \in Nat
        BY <2>6, <2>7 DEF n
      <4> QED BY <2>4, <4>1, <4>2
    <3>4. tops \in SUBSET Nat /\ tops # {} /\ IsFiniteSet(tops)
      <4>1. n + depth \in Nat
        BY <3>2, <3>3
      <4>2. tops \in SUBSET Nat
        BY <3>3
      <4> QED BY <3>2, <3>3, <4>1, <4>2, FS_BoundedSetOfNaturals
    <3>5. runnerUp \in tops /\ n + depth <= runnerUp
      BY <3>2, <3>4, MaxOfFinite
    <3> HIDE DEF runnerUp
    <3> QED BY <3>2, <3>3, <3>5
  <2> HIDE DEF tops, runnerUp
  <2>10. r.IsFinished <=> first # {}
    <3>1. r.IsFinished <=> \E c \in roots : len(c) > depth
      BY <2>4 DEF len
    <3>2. first \subseteq roots
      BY DEF first
    <3> QED BY <2>8, <3>1, <3>2
  <2>11. r.Depth = runnerUp + 1 - r.StartBlockHeight
    <3>1. n \in Nat /\ r.StartBlockHeight = n + 1
      BY <2>4, <2>6 DEF n
    <3> QED BY <2>4, <2>9, <3>1
  \* The i-th block of a chain is i above the fork.
  <2>12. \A c \in roots : \A i \in 1..len(c) :
           /\ Number[chains[c][i]] = n + i /\ chains[c][i] \in NodeByHash /\ Descends(c, chains[c][i])
           /\ i # 1 => ParentHash[chains[c][i]] = chains[c][i - 1]
    <3> SUFFICES ASSUME NEW c \in roots, NEW i \in 1..len(c)
                 PROVE  /\ Number[chains[c][i]] = n + i /\ chains[c][i] \in NodeByHash
                        /\ Descends(c, chains[c][i])
                        /\ i # 1 => ParentHash[chains[c][i]] = chains[c][i - 1]
      OBVIOUS
    <3> DEFINE h == chains[c][i]
    <3>1. i \in 1..Len(chains[c]) /\ i \in Nat /\ n \in Nat
      BY <2>6, <2>7 DEF len, n
    <3>2. /\ Number[h] = Number[c] + i - 1
          /\ i # 1 => ParentHash[h] = chains[c][i - 1]
      BY <2>7, <3>1 DEF IsPath
    <3>3. h \in NodeByHash /\ Descends(c, h)
      BY <2>3, <3>1 DEF IsChain
    <3>4. Number[c] = n + 1
      BY <2>3 DEF n
    <3> DEFINE m == Number[h]
               l == Number[c]
    <3>5. m = l + i - 1 /\ l = n + 1
      BY <3>2, <3>4
    <3> HIDE DEF m, l
    <3>6. m = n + i
      BY <3>1, <3>5
    <3> QED BY <3>2, <3>3, <3>6 DEF m
  <2>13. r.BlocksInvolved = {h \in NodeByHash : /\ \E c \in roots : Descends(c, h)
                                                /\ Number[h] \in r.StartBlockHeight..runnerUp}
    <3>0. n \in Nat /\ r.StartBlockHeight = n + 1
      BY <2>4, <2>6 DEF n
    <3>1. ASSUME NEW h \in r.BlocksInvolved
          PROVE  /\ h \in NodeByHash /\ \E c \in roots : Descends(c, h)
                 /\ Number[h] \in r.StartBlockHeight..runnerUp
      <4>1. PICK c \in roots : \E i \in 1..len(c) : i <= depth /\ h = chains[c][i]
        BY <2>4 DEF len
      <4>2. PICK i \in 1..len(c) : i <= depth /\ h = chains[c][i]
        BY <4>1
      <4>3. Number[h] = n + i /\ h \in NodeByHash /\ Descends(c, h)
        BY <2>12, <4>2
      <4>4. n + i \in (n + 1)..(n + depth)
        BY <2>4, <2>7, <3>0, <4>2
      <4> QED BY <2>9, <3>0, <4>3, <4>4
    <3>2. ASSUME NEW h \in NodeByHash, NEW c \in roots, Descends(c, h),
                 Number[h] \in r.StartBlockHeight..runnerUp
          PROVE  h \in r.BlocksInvolved
      <4>1. PICK i \in 1..len(c) : h = chains[c][i]
        BY <2>3, <3>2 DEF IsChain, len
      <4>2. Number[h] = n + i
        BY <2>12, <4>1
      <4>3. i <= depth
        BY <2>4, <2>7, <2>9, <3>0, <3>2, <4>2
      <4> QED BY <2>4, <4>1, <4>3 DEF len
    <3> QED BY <3>1, <3>2
  <2>14. ASSUME r.IsFinished
         PROVE  /\ main \in first /\ r.EndBlockHeight = runnerUp
                /\ ParentHash[r.FirstBlockAfterReorg] \in r.BlocksInvolved
                /\ Number[r.FirstBlockAfterReorg] = runnerUp + 1
                /\ Descends(main, r.FirstBlockAfterReorg)
    <3>1. /\ main \in roots /\ len(main) > depth
          /\ r.EndBlockHeight = Number[chains[main][depth]]
          /\ r.FirstBlockAfterReorg = chains[main][depth + 1]
      BY <2>4, <2>14 DEF len
    <3>2. main \in first
      BY <2>8, <3>1
    <3> HIDE DEF depth
    <3>3. depth \in 1..len(main) /\ depth + 1 \in 1..len(main) /\ depth + 1 # 1 /\ (depth + 1) - 1 = depth
      BY <2>4, <2>7, <3>1
    <3>4. Number[chains[main][depth]] = n + depth
      BY <2>12, <3>1, <3>3
    <3>5. /\ Number[chains[main][depth + 1]] = n + (depth + 1)
          /\ Descends(main, chains[main][depth + 1])
          /\ ParentHash[chains[main][depth + 1]] = chains[main][(depth + 1) - 1]
      BY <2>12, <3>1, <3>3
    <3>6. chains[main][depth] \in r.BlocksInvolved
      <4>1. depth \in 1..Len(chains[main]) /\ depth <= depth
        BY <2>4, <3>3 DEF len
      <4> QED BY <2>4, <3>1, <4>1
    <3>7. n + (depth + 1) = n + depth + 1
      BY <2>4, <2>6 DEF n
    <3> QED BY <2>9, <3>1, <3>2, <3>3, <3>4, <3>5, <3>6, <3>7
  <2>15. {c \in roots : {d \in roots : d # c /\ HeightOf(d) >= HeightOf(c)} = {}} = first
    BY DEF first, top
  <2>16. Max({HeightOf(c) : c \in roots \ first}) = runnerUp
    BY DEF runnerUp, tops, top
  <2>17. Children(NodeByHash, r.CommonParent) = roots
    BY <2>4 DEF roots
  <2> HIDE DEF IInv
  <2> QED BY <2>10, <2>11, <2>13, <2>14, <2>15, <2>16, <2>17
<1> QED BY <1>1, InvariantHolds, PTL
=============================================================================

---------------------------- MODULE CacheProofs ----------------------------
(***************************************************************************)
(* The cache of the monitor, for every block chain and every bound: its    *)
(* two maps agree, its window holds it, and it is trimmed.  What is        *)
(* missing in it was not downloaded, if two heights fit in it; and what    *)
(* TrimCache leaves is what the loop of the code leaves.                   *)
(***************************************************************************)
EXTENDS ReorgMonitorProofs

USE DEF Origin, Block

\* The window is that of the cached blocks; 0 is its value before the first.
Window ==
  /\ \A h \in Cached : Number[h] \in EarliestBlockNumber..LatestBlockNumber
  /\ Cached # {} => LatestBlockNumber \in Heights
  /\ Cached = {} <=> EarliestBlockNumber = 0
  /\ Cached = {} => LatestBlockNumber = 0

Trimmed ==
  Cardinality(Cached) <= MaxBlocksInCache \/ Heights = {LatestBlockNumber}

CacheInv ==
  /\ MapsAgree /\ Window
  /\ pc # "add" => Trimmed

\* The heights with blocks are those of the cached blocks.
LEMMA HeightsAreCached ==
  ASSUME CacheType, MapsAgree
  PROVE  Heights = {Number[h] : h \in Cached} /\ IsFiniteSet(Cached)
<1>1. ASSUME NEW n \in Heights PROVE \E h \in Cached : n = Number[h]
  <2>1. PICK h \in Hash : BlocksByHeight[n][h] # Nil /\ n \in Height
    BY DEF Heights
  <2> QED BY <2>1 DEF MapsAgree, Cached
<1>2. ASSUME NEW h \in Cached PROVE Number[h] \in Heights
  <2>1. h \in Hash /\ Number[h] \in Height /\ BlockByHash[h] # Nil
    BY HeightType DEF Cached
  <2>2. BlocksByHeight[Number[h]][h] = BlockByHash[h]
    BY <2>1 DEF MapsAgree
  <2> QED BY <2>1, <2>2 DEF Heights
<1>3. IsFiniteSet(Cached)
  BY FS_Subset, ChainAssumption DEF Cached
<1> QED BY <1>1, <1>2, <1>3

\* The ends of the window as numbers.
LEMMA WindowType ==
  ASSUME CacheType
  PROVE  EarliestBlockNumber \in Nat /\ LatestBlockNumber \in Nat
<1>1. Height \subseteq Nat
  BY HeightType
<1> QED BY <1>1 DEF CacheType

\* AddBlock enters a block into both maps, and widens the window to hold it
\* (monitor.go:132-150).
LEMMA AddBlockCache ==
  ASSUME CacheType, MapsAgree, Window,
         NEW b \in Block, NEW callers, AddBlock(b, callers)
  PROVE  MapsAgree' /\ Window'
<1>1. CASE UNCHANGED cache
  BY <1>1 DEF cache, MapsAgree, Window, Cached, Heights
<1>2. CASE ~ UNCHANGED cache
  <2> DEFINE n == Number[b.hash]
  <2>1. /\ Accepts(b)
        /\ BlockByHash' = [BlockByHash EXCEPT ![b.hash] = b]
        /\ BlocksByHeight' = [BlocksByHeight EXCEPT ![n][b.hash] = b]
        /\ EarliestBlockNumber' = IF EarliestBlockNumber = 0 THEN n ELSE EarliestBlockNumber
        /\ LatestBlockNumber' = IF n > LatestBlockNumber THEN n ELSE LatestBlockNumber
    BY <1>2 DEF AddBlock, LatestNumber
  <2>2. /\ b.hash \in Hash /\ b # Nil /\ n \in Height /\ n \in Nat \ {0}
        /\ n >= EarliestBlockNumber
    BY <2>1, HeightType, NilAssumption DEF Accepts
  <2>3. \A h \in Hash : BlockByHash'[h] = IF h = b.hash THEN b ELSE BlockByHash[h]
    BY <2>1, <2>2 DEF CacheType
  <2>4. \A m \in Height, h \in Hash :
           BlocksByHeight'[m][h] = IF m = n /\ h = b.hash THEN b ELSE BlocksByHeight[m][h]
    BY <2>1, <2>2 DEF CacheType
  <2>5. MapsAgree'
    BY <2>3, <2>4 DEF MapsAgree
  <2>6. Cached' = Cached \cup {b.hash}
    BY <2>2, <2>3 DEF Cached
  <2>7. EarliestBlockNumber \in Nat /\ LatestBlockNumber \in Nat
    BY WindowType
  <2>8. /\ Cached' # {} /\ EarliestBlockNumber' # 0
    BY <2>1, <2>2, <2>6
  <2>9. ASSUME NEW h \in Cached'
        PROVE  Number[h] \in EarliestBlockNumber'..LatestBlockNumber'
    <3>1. Number[h] \in Nat
      BY HeightType DEF Cached
    <3>2. /\ EarliestBlockNumber' = IF EarliestBlockNumber = 0 THEN n ELSE EarliestBlockNumber
          /\ LatestBlockNumber' = IF n > LatestBlockNumber THEN n ELSE LatestBlockNumber
          /\ n \in Nat /\ n >= EarliestBlockNumber
      BY <2>1, <2>2
    <3>3. CASE h = b.hash
      <4>1. Number[h] = n
        BY <3>3
      <4> HIDE DEF n
      <4> QED BY <2>7, <3>2, <4>1
    <3>4. CASE h \in Cached
      <4>1. /\ EarliestBlockNumber # 0
            /\ EarliestBlockNumber <= Number[h] /\ Number[h] <= LatestBlockNumber
        BY <2>7, <3>1, <3>4 DEF Window
      <4> HIDE DEF n
      <4> QED BY <2>7, <3>1, <3>2, <4>1
    <3> QED BY <2>6, <3>3, <3>4
  <2>10. LatestBlockNumber' \in Heights'
    <3>1. CASE n > LatestBlockNumber
      BY <2>1, <2>2, <2>4, <3>1 DEF Heights
    <3>2. CASE ~ (n > LatestBlockNumber)
      <4>1. LatestBlockNumber \in Heights
        BY <2>2, <2>7, <3>2 DEF Window
      <4>2. PICK h \in Hash : BlocksByHeight[LatestBlockNumber][h] # Nil
        BY <4>1 DEF Heights
      <4>3. LatestBlockNumber \in Height /\ LatestBlockNumber' = LatestBlockNumber
        BY <2>1, <3>2, <4>1 DEF Heights
      <4>4. BlocksByHeight'[LatestBlockNumber][h] # Nil
        BY <2>2, <2>4, <4>2, <4>3
      <4> QED BY <4>3, <4>4 DEF Heights
    <3> QED BY <3>1, <3>2
  <2> QED BY <2>5, <2>8, <2>9, <2>10 DEF Window
<1> QED BY <1>1, <1>2

\* TrimCache takes the same blocks out of both maps (monitor.go:185-190), all
\* below the new window and never the latest, and leaves the cache within its
\* bound or with one height.
LEMMA TrimCacheTrims ==
  ASSUME CacheType, MapsAgree, Window, TrimCache
  PROVE  MapsAgree' /\ Window' /\ Trimmed'
<1> DEFINE visited == Visited
           fitting == Fitting(visited)
           trimmed == {n \in visited : \A m \in fitting : n < m}
<1>1. /\ fitting \subseteq visited /\ trimmed \subseteq visited
      /\ trimmed = {n \in visited : \A m \in fitting : n < m}
      /\ \A m \in fitting :
           Cardinality({h \in Cached : Number[h] \in visited => m <= Number[h]})
             <= MaxBlocksInCache
      /\ visited = {n \in Heights : EarliestBlockNumber <= n /\ n < LatestBlockNumber}
      /\ visited \subseteq Nat \ {0}
      /\ fitting # {} => Min(fitting) \in fitting
      /\ visited # {} => Max(visited) \in visited
  BY VisitedType, HeightType DEF Fitting, Visited
<1>2. /\ EarliestBlockNumber' = CASE fitting # {} -> Min(fitting)
                                  [] fitting = {} /\ visited # {} -> Max(visited)
                                  [] visited = {} -> EarliestBlockNumber
      /\ LatestBlockNumber' = LatestBlockNumber
      /\ BlocksByHeight' = [n \in Height |-> IF n \in trimmed THEN [h \in Hash |-> Nil]
                                             ELSE BlocksByHeight[n]]
      /\ BlockByHash' = [h \in Hash |->
           IF Number[h] \in trimmed /\ BlocksByHeight[Number[h]][h] # Nil THEN Nil
           ELSE BlockByHash[h]]
  BY DEF TrimCache, HashesKept
<1> HIDE DEF visited, fitting, trimmed
<1>3. /\ EarliestBlockNumber \in Nat /\ LatestBlockNumber \in Nat
      /\ \A h \in Hash : Number[h] \in Height /\ Number[h] \in Nat
  BY WindowType, HeightType
<1>4. /\ Heights = {Number[h] : h \in Cached} /\ IsFiniteSet(Cached)
      /\ Cached \subseteq Hash
  BY HeightsAreCached DEF Cached
<1>5. \A h \in Hash : BlocksByHeight[Number[h]][h] = BlockByHash[h]
  BY <1>3 DEF MapsAgree
<1>6. \A h \in Hash :
        BlockByHash'[h] = IF Number[h] \in trimmed THEN Nil ELSE BlockByHash[h]
  BY <1>2, <1>5
<1>7. \A n \in Height, h \in Hash :
        BlocksByHeight'[n][h] = IF n \in trimmed THEN Nil ELSE BlocksByHeight[n][h]
  BY <1>2
<1>8. MapsAgree'
  BY <1>6, <1>7 DEF MapsAgree
<1>9. Cached' = {h \in Cached : Number[h] \notin trimmed}
  BY <1>6 DEF Cached
<1>10. Heights' = Heights \ trimmed
  BY <1>7 DEF Heights
<1>11. LatestBlockNumber \notin trimmed
  BY <1>1, <1>3
<1>12. CASE Cached = {}
  <2>1. visited = {} /\ Cached' = {}
    BY <1>1, <1>4, <1>9, <1>12
  <2>2. EarliestBlockNumber' = EarliestBlockNumber
    BY <1>1, <1>2, <2>1
  <2>3. Window'
    BY <1>2, <1>12, <2>1, <2>2 DEF Window
  <2>4. Trimmed'
    BY <2>1, FS_EmptySet, ReorgMonitorAssumption DEF Trimmed
  <2> QED BY <1>8, <2>3, <2>4
<1>13. CASE Cached # {}
  <2>1. LatestBlockNumber \in Heights /\ EarliestBlockNumber # 0
    BY <1>13 DEF Window
  <2>2. LatestBlockNumber' \in Heights'
    BY <1>2, <1>10, <1>11, <2>1
  <2>3. Cached' # {}
    BY <1>4, <1>9, <1>11, <2>1
  <2>4. EarliestBlockNumber' \in visited \cup {EarliestBlockNumber}
    BY <1>1, <1>2
  <2>5. EarliestBlockNumber' # 0 /\ EarliestBlockNumber' \in Nat
    BY <1>1, <1>3, <2>1, <2>4
  <2>6. ASSUME NEW h \in Cached
        PROVE  /\ Number[h] \in Nat /\ EarliestBlockNumber <= Number[h]
               /\ Number[h] \in visited \/ Number[h] = LatestBlockNumber
    BY <1>1, <1>3, <1>4 DEF Window
  <2>7. ASSUME NEW h \in Cached'
        PROVE  Number[h] \in EarliestBlockNumber'..LatestBlockNumber'
    <3>1. /\ h \in Cached /\ Number[h] \notin trimmed /\ Number[h] \in Nat
          /\ EarliestBlockNumber <= Number[h] /\ Number[h] <= LatestBlockNumber
      BY <1>1, <1>3, <1>9, <2>6
    <3>2. EarliestBlockNumber' <= Number[h]
      <4>1. CASE fitting # {}
        <5>1. EarliestBlockNumber' = Min(fitting) /\ Min(fitting) \in visited
          BY <1>1, <1>2, <4>1
        <5>2. CASE Number[h] = LatestBlockNumber
          BY <1>1, <1>3, <5>1, <5>2
        <5>3. CASE Number[h] \in visited
          <6>1. PICK m \in fitting : ~ (Number[h] < m)
            BY <1>1, <3>1, <5>3
          <6>2. fitting \subseteq Nat /\ IsFiniteSet(fitting)
            BY <1>1, VisitedType, FS_Subset DEF visited
          <6>3. Min(fitting) <= m
            BY <6>2, MinOfFinite
          <6>4. m \in Nat /\ Min(fitting) \in Nat
            BY <1>1, <5>1, <6>2
          <6> QED BY <3>1, <5>1, <6>1, <6>3, <6>4
        <5> QED BY <2>6, <3>1, <5>2, <5>3
      <4>2. CASE fitting = {}
        <5>1. trimmed = visited
          BY <1>1, <4>2
        <5>2. Number[h] = LatestBlockNumber
          BY <2>6, <3>1, <5>1
        <5> QED BY <1>1, <1>3, <2>4, <3>1, <5>2
      <4> QED BY <4>1, <4>2
    <3> QED BY <1>2, <1>3, <2>5, <3>1, <3>2
  <2>8. Window'
    BY <2>2, <2>3, <2>5, <2>7 DEF Window
  <2>9. Trimmed'
    <3>1. CASE fitting # {}
      <4> DEFINE m == Min(fitting)
                 kept == {h \in Cached : Number[h] \in visited => m <= Number[h]}
      <4>1. m \in fitting /\ m \in Nat
        BY <1>1, <3>1
      <4>2. Cached' \subseteq kept
        <5> SUFFICES ASSUME NEW h \in Cached', Number[h] \in visited PROVE m <= Number[h]
          BY <1>9
        <5>1. EarliestBlockNumber' = m
          BY <1>2, <3>1
        <5>2. Number[h] \in EarliestBlockNumber'..LatestBlockNumber'
          BY <2>7
        <5> HIDE DEF m
        <5> QED BY <1>3, <1>2, <2>5, <5>1, <5>2
      <4>3. Cardinality(kept) <= MaxBlocksInCache /\ IsFiniteSet(kept)
        BY <1>1, <1>4, <4>1, FS_Subset
      <4> HIDE DEF kept
      <4>4. /\ Cardinality(Cached') <= Cardinality(kept)
            /\ Cardinality(Cached') \in Nat /\ Cardinality(kept) \in Nat
        BY <4>2, <4>3, FS_Subset, FS_CardinalityType
      <4>5. Cardinality(Cached') <= MaxBlocksInCache
        BY <4>3, <4>4, ReorgMonitorAssumption
      <4> QED BY <4>5 DEF Trimmed
    <3>2. CASE fitting = {}
      <4>1. trimmed = visited
        BY <1>1, <3>2
      <4>2. \A n \in Heights : n \in visited \/ n = LatestBlockNumber
        BY <1>4, <2>6
      <4>3. Heights' = {LatestBlockNumber'}
        BY <1>2, <1>10, <2>2, <4>1, <4>2
      <4> QED BY <4>3 DEF Trimmed
    <3> QED BY <3>1, <3>2
  <2> QED BY <1>8, <2>8, <2>9
<1> QED BY <1>12, <1>13

-----------------------------------------------------------------------------
\* A new monitor has an empty cache.
LEMMA CacheInitInv == Init => CacheInv
<1> SUFFICES ASSUME Init PROVE CacheInv
  OBVIOUS
<1>1. Cached = {}
  BY DEF Init, Cached
<1>2. MapsAgree
  BY DEF Init, MapsAgree
<1>3. Window
  BY <1>1 DEF Init, Window
<1>4. Trimmed
  BY <1>1, FS_EmptySet, ReorgMonitorAssumption DEF Trimmed
<1> QED BY <1>2, <1>3, <1>4 DEF CacheInv

\* Every step keeps the cache in order: only AddBlock and TrimCache change it.
LEMMA CacheNextKeeps ==
  ASSUME IInv, CacheInv, [Next]_vars
  PROVE  CacheInv'
<1>1. CacheType /\ MapsAgree /\ Window /\ (pc # "add" => Trimmed)
      /\ TypeOK
  BY TypeOKParts DEF IInv, CacheInv
<1>2. ASSUME UNCHANGED cache, pc' # "add" => pc # "add"
      PROVE  CacheInv'
  <2>1. UNCHANGED <<Cached, Heights>>
    BY <1>2 DEF cache, Cached, Heights
  <2>2. MapsAgree'
    BY <1>1, <1>2 DEF cache, MapsAgree
  <2>3. Window' /\ (pc' # "add" => Trimmed')
    BY <1>1, <1>2, <2>1 DEF cache, Window, Trimmed
  <2> QED BY <2>2, <2>3 DEF CacheInv
<1>3. CASE Receive
  <2>1. Head(NewBlockChan) \in Block
    BY <1>1, <1>3, TypeOKParts, ChannelType DEF Receive
  <2>2. AddBlock(Head(NewBlockChan), <<>>) /\ pc' = "add"
    BY <1>3 DEF Receive
  <2>3. MapsAgree' /\ Window'
    BY <1>1, <2>1, <2>2, AddBlockCache
  <2> QED BY <2>2, <2>3 DEF CacheInv
<1>4. CASE Download
  <2>1. /\ pc = "add" /\ pc' = "add" /\ Innermost.refs # <<>>
        /\ Referred.hash \in Hash
        /\ AddBlock(NewBlock(Referred.hash, Referred.origin, Innermost.block.node), Resumed)
    BY <1>4 DEF Download, Checking
  <2>2. NewBlock(Referred.hash, Referred.origin, Innermost.block.node) \in Block
    BY <1>1, <2>1, InnermostType DEF NewBlock, CallType, ReferenceType
  <2>3. MapsAgree' /\ Window'
    BY <1>1, <2>1, <2>2, AddBlockCache
  <2> QED BY <2>1, <2>3 DEF CacheInv
<1>5. CASE Return
  <2>1. TrimCache
    BY <1>5 DEF Return
  <2> QED BY <1>1, <2>1, TrimCacheTrims DEF CacheInv
<1>6. CASE Found \/ DownloadFails
  BY <1>2, <1>6 DEF Found, DownloadFails, Checking
<1>7. CASE SkipAnalysis \/ AnalysisError \/ AnalyzeTree
  BY <1>2, <1>7 DEF SkipAnalysis, AnalysisError, AnalyzeTree
<1>8. CASE \/ \E r \in reorgs : Uninteresting(r) \/ Remember(r)
           \/ Send \/ EndReport
  BY <1>2, <1>8 DEF Uninteresting, Remember, Send, EndReport
<1>9. CASE \/ Handled \/ UNCHANGED vars
           \/ \E n \in NodeUri, h \in Hash : Announce(n, h)
  BY <1>2, <1>9 DEF Handled, Announce, vars
<1> QED BY <1>3, <1>4, <1>5, <1>6, <1>7, <1>8, <1>9 DEF Next, Monitor

\* The cache is in order in every reachable state.
THEOREM CacheInOrder == Spec => []CacheInv
<1>1. Init => CacheInv
  BY CacheInitInv
<1>2. IInv /\ CacheInv /\ [Next]_vars => CacheInv'
  BY CacheNextKeeps
<1> QED BY <1>1, <1>2, InvariantHolds, PTL DEF Spec

\* BlockByHash and BlocksByHeight hold the same blocks at every step of the
\* recursion of AddBlock and TrimCache (monitor.go:132-140, 186-190).
THEOREM MapsAlwaysAgree == Spec => []MapsAgree
<1>1. CacheInv => MapsAgree
  BY DEF CacheInv
<1> QED BY <1>1, CacheInOrder, PTL

\* The cached blocks lie in the window, and the subtraction of AnalyzeTree(0, 2)
\* never passes the earliest height (monitor.go:86, 244).
THEOREM CacheInWindow == Spec => []WindowHoldsCache
<1>1. IInv /\ CacheInv => WindowHoldsCache
  <2> SUFFICES ASSUME IInv, CacheInv PROVE WindowHoldsCache
    OBVIOUS
  <2>1. CacheType /\ MapsAgree /\ Window
    BY TypeOKParts DEF IInv, CacheInv
  <2>2. EarliestBlockNumber \in Nat /\ LatestBlockNumber \in Nat
    BY <2>1, WindowType
  <2>3. Heights \subseteq EarliestBlockNumber..LatestBlockNumber
    BY <2>1, HeightsAreCached DEF Window
  <2>4. /\ IsFiniteSet(EarliestBlockNumber..LatestBlockNumber)
        /\ Cardinality(EarliestBlockNumber..LatestBlockNumber) =
             IF EarliestBlockNumber > LatestBlockNumber THEN 0
             ELSE LatestBlockNumber - EarliestBlockNumber + 1
    BY <2>2, FS_Interval
  <2>5. /\ Cardinality(Heights) <= Cardinality(EarliestBlockNumber..LatestBlockNumber)
        /\ Cardinality(Heights) \in Nat
    BY <2>3, <2>4, FS_Subset, FS_CardinalityType
  <2>6. Cardinality(Heights) >= 3 => LatestBlockNumber - 2 >= EarliestBlockNumber
    BY <2>2, <2>4, <2>5
  <2> QED BY <2>1, <2>6 DEF Window, WindowHoldsCache
<1> QED BY <1>1, CacheInOrder, InvariantHolds, PTL

\* Whenever the monitor waits for a block, the cache is within its bound or
\* holds one height only (monitor.go:171-191).
THEOREM CacheIsBounded == Spec => []CacheIsTrimmed
<1>1. CacheInv => CacheIsTrimmed
  BY DEF CacheInv, Trimmed, CacheIsTrimmed
<1> QED BY <1>1, CacheInOrder, PTL

-----------------------------------------------------------------------------
(* Holes of the cache. *)

\* Two neighbouring heights never hold more blocks than the cache.  Otherwise
\* TrimCache, which keeps the latest height only, deletes parents of its blocks.
TwoHeightsFit ==
  \A n \in Height :
    Cardinality({h \in Hash : Number[h] \in {n, n + 1}}) <= MaxBlocksInCache

\* The parents that a stack of calls has still to look for.
DueOf(cs) == {Head(cs[i].refs).hash : i \in {i \in DOMAIN cs :
                cs[i].refs # <<>> /\ Head(cs[i].refs).origin = "GetParent"}}

\* What one more call adds to them.
LEMMA DueOfAppend ==
  ASSUME NEW cs \in Seq(CallType), NEW c \in CallType
  PROVE  /\ DueOf(cs) \subseteq DueOf(Append(cs, c))
         /\ DueOf(Append(cs, c)) \subseteq
              DueOf(cs) \cup (IF c.refs # <<>> THEN {Head(c.refs).hash} ELSE {})
         /\ c.refs # <<>> /\ Head(c.refs).origin = "GetParent"
              => Head(c.refs).hash \in DueOf(Append(cs, c))
<1>1. /\ DOMAIN Append(cs, c) = 1..Len(cs) + 1 /\ DOMAIN cs = 1..Len(cs) /\ Len(cs) \in Nat
      /\ \A i \in 1..Len(cs) : Append(cs, c)[i] = cs[i]
      /\ Append(cs, c)[Len(cs) + 1] = c
  OBVIOUS
<1> DEFINE ds == Append(cs, c)
<1> HIDE DEF ds
<1>2. DueOf(cs) \subseteq DueOf(ds)
  BY <1>1 DEF DueOf, ds
<1>3. DueOf(ds) \subseteq DueOf(cs) \cup (IF c.refs # <<>> THEN {Head(c.refs).hash} ELSE {})
  <2> SUFFICES ASSUME NEW i \in DOMAIN ds, ds[i].refs # <<>>,
                      Head(ds[i].refs).origin = "GetParent"
               PROVE  \/ Head(ds[i].refs).hash \in DueOf(cs)
                      \/ c.refs # <<>> /\ Head(ds[i].refs).hash = Head(c.refs).hash
    BY DEF DueOf
  <2>1. CASE i \in 1..Len(cs)
    BY <1>1, <2>1 DEF DueOf, ds
  <2>2. CASE i = Len(cs) + 1
    BY <1>1, <2>2 DEF ds
  <2> QED BY <1>1, <2>1, <2>2 DEF ds
<1>4. ASSUME c.refs # <<>>, Head(c.refs).origin = "GetParent"
      PROVE  Head(c.refs).hash \in DueOf(ds)
  <2>1. Len(cs) + 1 \in DOMAIN ds /\ ds[Len(cs) + 1] = c
    BY <1>1 DEF ds
  <2> QED BY <1>4, <2>1 DEF DueOf
<1> QED BY <1>2, <1>3, <1>4 DEF ds

\* The stack is the innermost call on top of its callers.
LEMMA DueOfStack ==
  ASSUME TypeOK, pc = "add"
  PROVE  /\ DueOf(Callers) \subseteq Due
         /\ Due \subseteq DueOf(Callers) \cup
              (IF Innermost.refs # <<>> THEN {Referred.hash} ELSE {})
<1>1. calls \in Seq(CallType) /\ calls # <<>>
  BY TypeOKParts
<1>2. Innermost \in CallType /\ Callers \in Seq(CallType)
  BY InnermostType
<1>3. calls = Append(Callers, Innermost)
  BY <1>1 DEF Innermost, Callers
<1>4. Due = DueOf(calls)
  BY DEF Due, DueOf
<1> QED BY <1>2, <1>3, <1>4, DueOfAppend DEF Referred

\* TrimCache takes the blocks of the trimmed heights out of the cache.
LEMMA TrimCacheRemoves ==
  ASSUME CacheType, MapsAgree, TrimCache
  PROVE  LET fitting == Fitting(Visited)
             trimmed == {n \in Visited : \A m \in fitting : n < m}
         IN /\ Cached' = {h \in Cached : Number[h] \notin trimmed}
            /\ EarliestBlockNumber' = CASE fitting # {} -> Min(fitting)
                                        [] fitting = {} /\ Visited # {} -> Max(Visited)
                                        [] Visited = {} -> EarliestBlockNumber
<1> DEFINE fitting == Fitting(Visited)
           trimmed == {n \in Visited : \A m \in fitting : n < m}
<1>1. /\ EarliestBlockNumber' = CASE fitting # {} -> Min(fitting)
                                  [] fitting = {} /\ Visited # {} -> Max(Visited)
                                  [] Visited = {} -> EarliestBlockNumber
      /\ BlockByHash' = [h \in Hash |->
           IF Number[h] \in trimmed /\ BlocksByHeight[Number[h]][h] # Nil THEN Nil
           ELSE BlockByHash[h]]
  BY DEF TrimCache, HashesKept
<1> HIDE DEF fitting, trimmed
<1>2. \A h \in Hash : BlocksByHeight[Number[h]][h] = BlockByHash[h]
  BY HeightType DEF MapsAgree
<1>3. \A h \in Hash :
        BlockByHash'[h] = IF Number[h] \in trimmed THEN Nil ELSE BlockByHash[h]
  BY <1>1, <1>2
<1>4. Cached' = {h \in Cached : Number[h] \notin trimmed}
  BY <1>3 DEF Cached
<1> QED BY <1>1, <1>4 DEF fitting, trimmed

\* TrimCache leaves no block of the window without its parent.
LEMMA TrimCacheHoles ==
  ASSUME TwoHeightsFit, CacheType, MapsAgree, Window, TrimCache,
         NEW h \in Cached', Number[h] > EarliestBlockNumber', ParentHash[h] \in Cached
  PROVE  h \in Cached /\ ParentHash[h] \in Cached'
<1> DEFINE visited == Visited
           fitting == Fitting(visited)
           trimmed == {n \in visited : \A m \in fitting : n < m}
           p == ParentHash[h]
<1>1. /\ fitting = {n \in visited :
                      ~ (Cardinality({g \in Cached : Number[g] \in visited => n <= Number[g]})
                           > MaxBlocksInCache)}
      /\ trimmed = {n \in visited : \A m \in fitting : n < m}
      /\ visited = {n \in Heights : EarliestBlockNumber <= n /\ n < LatestBlockNumber}
      /\ visited \subseteq Nat \ {0}
      /\ fitting # {} => Min(fitting) \in fitting
      /\ visited # {} => Max(visited) \in visited /\ \A n \in visited : n <= Max(visited)
  <2>1. \A n \in visited :
          LET c == Cardinality({g \in Cached : Number[g] \in visited => n <= Number[g]})
          IN  c <= MaxBlocksInCache <=> ~ (c > MaxBlocksInCache)
    <3> TAKE n \in visited
    <3> DEFINE kept == {g \in Cached : Number[g] \in visited => n <= Number[g]}
    <3>1. IsFiniteSet(kept)
      BY FS_Subset, ChainAssumption DEF Cached
    <3>2. Cardinality(kept) \in Nat
      BY <3>1, FS_CardinalityType
    <3> QED BY <3>2, ReorgMonitorAssumption
  <2>2. fitting = {n \in visited :
                      ~ (Cardinality({g \in Cached : Number[g] \in visited => n <= Number[g]})
                           > MaxBlocksInCache)}
    BY <2>1 DEF Fitting
  <2>3. visited # {} => \A n \in visited : n <= Max(visited)
    BY VisitedType, MaxOfFinite
  <2>4. fitting \in SUBSET visited
    BY <2>2
  <2> QED BY <2>2, <2>3, <2>4, VisitedType, HeightType DEF Visited
<1>2. /\ EarliestBlockNumber' = CASE fitting # {} -> Min(fitting)
                                  [] fitting = {} /\ visited # {} -> Max(visited)
                                  [] visited = {} -> EarliestBlockNumber
      /\ Cached' = {g \in Cached : Number[g] \notin trimmed}
  BY TrimCacheRemoves
<1>3. /\ EarliestBlockNumber \in Nat /\ LatestBlockNumber \in Nat
      /\ \A g \in Hash : Number[g] \in Height /\ Number[g] \in Nat
  BY WindowType, HeightType
<1>4. /\ Heights = {Number[g] : g \in Cached} /\ IsFiniteSet(Cached)
      /\ Cached \subseteq Hash
  BY HeightsAreCached DEF Cached
<1> HIDE DEF visited, fitting, trimmed
<1>6. /\ h \in Cached /\ Number[h] \notin trimmed /\ p \in Cached
      /\ Number[h] \in Nat /\ Number[p] \in Nat /\ Number[h] = Number[p] + 1
  BY <1>2, <1>3, <1>4, ChainAssumption
<1>7. Number[p] \notin trimmed
  <2> SUFFICES ASSUME Number[p] \in trimmed PROVE FALSE
    OBVIOUS
  <2>1. Number[p] \in visited /\ \A m \in fitting : Number[p] < m
    BY <1>1
  <2>2. CASE fitting # {}
    <3>1. Min(fitting) \in Nat /\ Number[p] < Min(fitting) /\ EarliestBlockNumber' = Min(fitting)
      BY <1>1, <1>2, <2>1, <2>2
    <3> QED BY <1>6, <3>1
  <2>3. CASE fitting = {}
    <3>1. EarliestBlockNumber' = Max(visited) /\ Max(visited) \in visited
          /\ Number[p] <= Max(visited) /\ trimmed = visited
      BY <1>1, <1>2, <2>1, <2>3
    <3>2. Number[h] \in Heights /\ EarliestBlockNumber <= Number[h]
          /\ Number[h] <= LatestBlockNumber
      BY <1>3, <1>4, <1>6 DEF Window
    <3>3. Number[h] = LatestBlockNumber
      BY <1>1, <1>3, <1>6, <3>1, <3>2
    <3>4. Max(visited) = Number[p]
      BY <1>1, <1>3, <1>6, <3>1, <3>3
    <3> DEFINE kept == {g \in Cached : Number[g] \in visited => Number[p] <= Number[g]}
               both == {g \in Hash : Number[g] \in {Number[p], Number[p] + 1}}
    <3>5. Cardinality(kept) > MaxBlocksInCache
      BY <1>1, <2>1, <2>3
    <3>6. kept \subseteq both
      <4> SUFFICES ASSUME NEW g \in kept
                   PROVE  g \in Hash /\ Number[g] \in {Number[p], Number[p] + 1}
        OBVIOUS
      <4>1. g \in Cached /\ g \in Hash /\ Number[g] \in Nat /\ Number[g] \in Heights
            /\ EarliestBlockNumber <= Number[g] /\ Number[g] <= LatestBlockNumber
        BY <1>3, <1>4 DEF Window
      <4>2. CASE Number[g] \in visited
        <5>1. Number[p] <= Number[g] /\ Number[g] <= Number[p]
          BY <1>1, <3>4, <4>2
        <5> QED BY <1>6, <4>1, <5>1
      <4>3. CASE Number[g] \notin visited
        <5>1. Number[g] = LatestBlockNumber
          BY <1>1, <1>3, <4>1, <4>3
        <5> QED BY <1>6, <3>3, <4>1, <5>1
      <4> QED BY <4>2, <4>3
    <3>7. IsFiniteSet(both) /\ Cardinality(both) <= MaxBlocksInCache
      BY <1>3, <1>4, <1>6, FS_Subset, ChainAssumption DEF TwoHeightsFit
    <3> HIDE DEF kept, both
    <3>8. /\ Cardinality(kept) <= Cardinality(both)
          /\ Cardinality(kept) \in Nat /\ Cardinality(both) \in Nat
      BY <3>6, <3>7, FS_Subset, FS_CardinalityType
    <3> QED BY <3>5, <3>7, <3>8, ReorgMonitorAssumption
  <2> QED BY <2>2, <2>3
<1> QED BY <1>2, <1>6, <1>7

\* AddBlock (monitor.go:113-158): the parent of the new block is in the cache,
\* below the window or the first reference of the call.
LEMMA AddBlockHoles ==
  ASSUME CacheType, Window, NEW b \in Block, NEW callers \in Seq(CallType),
         AddBlock(b, callers), NEW S,
         \A h \in Cached : Number[h] > EarliestBlockNumber => ParentHash[h] \in S
  PROVE  /\ Cached \subseteq Cached' /\ DueOf(callers) \subseteq Due'
         /\ b.hash \in Cached' \/ Number[b.hash] < EarliestBlockNumber'
         /\ \A h \in Cached' : Number[h] > EarliestBlockNumber' => ParentHash[h] \in S \cup Due'
<1>1. /\ b.hash \in Hash /\ b # Nil /\ Number[b.hash] \in Nat \ {0}
      /\ EarliestBlockNumber \in Nat
      /\ \A h \in Hash : Number[h] \in Nat
  BY HeightType, WindowType, NilAssumption
<1>2. Due' = DueOf(calls')
  BY DEF Due, DueOf
<1>3. CASE ~ Accepts(b) /\ calls' = Append(callers, Call(b, <<>>)) /\ UNCHANGED cache
  <2>1. Call(b, <<>>) \in CallType
    BY DEF Call, CallType
  <2>2. DueOf(callers) \subseteq Due'
    BY <1>2, <1>3, <2>1, DueOfAppend
  <2>3. b.hash \in Cached \/ Number[b.hash] < EarliestBlockNumber
    BY <1>1, <1>3 DEF Accepts, Cached
  <2>4. Cached' = Cached /\ EarliestBlockNumber' = EarliestBlockNumber
    BY <1>3 DEF cache, Cached
  <2> QED BY <2>2, <2>3, <2>4
<1>4. CASE ~ (~ Accepts(b) /\ calls' = Append(callers, Call(b, <<>>)) /\ UNCHANGED cache)
  <2> DEFINE n == Number[b.hash]
             refs == IF n > EarliestBlockNumber' THEN References(b.hash) ELSE <<>>
  <2>1. /\ BlockByHash' = [BlockByHash EXCEPT ![b.hash] = b]
        /\ EarliestBlockNumber' = IF EarliestBlockNumber = 0 THEN n ELSE EarliestBlockNumber
        /\ calls' = Append(callers, Call(b, refs))
    BY <1>4 DEF AddBlock
  <2>2. Cached' = Cached \cup {b.hash}
    BY <1>1, <2>1 DEF CacheType, Cached
  <2>3. Call(b, refs) \in CallType /\ Call(b, refs).refs = refs
    BY <1>1, ReferencesType DEF Call, CallType
  <2>4. DueOf(callers) \subseteq Due'
    BY <1>2, <2>1, <2>3, DueOfAppend
  <2>5. ASSUME n > EarliestBlockNumber' PROVE ParentHash[b.hash] \in Due'
    <3>1. refs = References(b.hash) /\ References(b.hash) \in Seq(ReferenceType)
      BY <1>1, <2>5, ReferencesType
    <3>2. References(b.hash) # <<>>
          /\ Head(References(b.hash)) = Reference(ParentHash[b.hash], "GetParent")
      <4>1. Uncles[b.hash] \in Seq(Hash)
        BY <1>1, ChainAssumption
      <4> DEFINE us == [i \in DOMAIN Uncles[b.hash] |-> Reference(Uncles[b.hash][i], "Uncle")]
                 parent == Reference(ParentHash[b.hash], "GetParent")
      <4>2. \A i \in 1..Len(Uncles[b.hash]) : Reference(Uncles[b.hash][i], "Uncle") \in ReferenceType
        BY <4>1 DEF Reference, ReferenceType
      <4>3. us \in Seq(ReferenceType)
        <5>1. DOMAIN Uncles[b.hash] = 1..Len(Uncles[b.hash]) /\ Len(Uncles[b.hash]) \in Nat
          BY <4>1
        <5> QED BY <4>2, <5>1
      <4>4. References(b.hash) = <<parent>> \o us
        BY DEF References
      <4> HIDE DEF us, parent
      <4>5. References(b.hash) # <<>> /\ Head(References(b.hash)) = parent
        BY <4>3, <4>4
      <4> QED BY <4>5 DEF parent
    <3>3. /\ Head(refs).origin = "GetParent" /\ Head(refs).hash = ParentHash[b.hash]
          /\ refs # <<>>
      BY <3>1, <3>2 DEF Reference
    <3> HIDE DEF refs
    <3> QED BY <1>2, <2>1, <2>3, <3>3, DueOfAppend
  <2>6. ASSUME NEW h \in Cached', Number[h] > EarliestBlockNumber'
        PROVE  ParentHash[h] \in S \cup Due'
    <3>1. CASE h = b.hash
      BY <2>5, <2>6, <3>1
    <3>2. CASE h \in Cached
      <4>1. EarliestBlockNumber' = EarliestBlockNumber
        BY <2>1, <3>2 DEF Window
      <4> QED BY <2>6, <3>2, <4>1
    <3> QED BY <2>2, <3>1, <3>2
  <2> QED BY <2>2, <2>4, <2>6
<1> QED BY <1>3, <1>4

\* No step makes a hole that is not a failure: a parent is looked for until it
\* is in the cache, below the window, or could not be downloaded.
LEMMA HolesNextKeeps ==
  ASSUME TwoHeightsFit, IInv, CacheInv, HolesAreFailures, [Next]_vars
  PROVE  HolesAreFailures'
<1>0. /\ \A n \in Height \cup {0} : n \in Nat
      /\ \A h \in Hash : Number[h] \in Nat
  <2>1. \A n \in Height : n \in Nat
    BY HeightType
  <2>2. \A h \in Hash : Number[h] \in Nat
    BY ChainAssumption
  <2> QED BY <2>1, <2>2
<1>1. /\ CacheType /\ MapsAgree /\ Window /\ TypeOK
      /\ \A h \in Cached :
           Number[h] > EarliestBlockNumber => ParentHash[h] \in Cached \cup lost \cup Due
  BY TypeOKParts DEF IInv, CacheInv, HolesAreFailures
<1>2. ASSUME UNCHANGED cache, lost \subseteq lost', Due \subseteq Cached \cup lost' \cup Due'
      PROVE  HolesAreFailures'
  BY <1>1, <1>2 DEF cache, HolesAreFailures, Cached
<1>3. CASE Receive
  <2>1. Head(NewBlockChan) \in Block
    BY <1>1, <1>3, TypeOKParts, ChannelType DEF Receive
  <2>2. AddBlock(Head(NewBlockChan), <<>>) /\ pc = "receive" /\ lost' = lost
    BY <1>3 DEF Receive
  <2>3. Due = {}
    <3>1. calls = <<>>
      BY <1>1, <2>2, TypeOKParts
    <3> QED BY <3>1 DEF Due
  <2>4. <<>> \in Seq(CallType)
    OBVIOUS
  <2>5. /\ Cached \subseteq Cached'
        /\ \A h \in Cached' : Number[h] > EarliestBlockNumber' =>
             ParentHash[h] \in (Cached \cup lost) \cup Due'
    BY <1>1, <2>1, <2>2, <2>3, <2>4, AddBlockHoles
  <2> QED BY <2>2, <2>5 DEF HolesAreFailures
<1>4. CASE Found
  <2>1. /\ pc = "add" /\ Innermost.refs # <<>> /\ Referred.hash \in Cached
        /\ calls' = Resumed /\ UNCHANGED <<cache, lost>>
    BY <1>4 DEF Found, Checking
  <2>2. /\ Callers \in Seq(CallType)
        /\ Call(Innermost.block, Tail(Innermost.refs)) \in CallType
    BY <1>1, <2>1, InnermostType DEF Call, CallType
  <2>3. Due' = DueOf(calls')
    BY DEF Due, DueOf
  <2>4. DueOf(Callers) \subseteq Due'
    BY <2>1, <2>2, <2>3, DueOfAppend DEF Resumed
  <2>5. Due \subseteq DueOf(Callers) \cup {Referred.hash}
    BY <1>1, <2>1, DueOfStack
  <2> QED BY <1>2, <2>1, <2>4, <2>5
<1>5. CASE DownloadFails
  <2>1. /\ pc = "add" /\ Innermost.refs # <<>> /\ UNCHANGED cache
        /\ lost' = lost \cup {Referred.hash}
        /\ calls' = Append(Callers, Call(Innermost.block, <<>>))
    BY <1>5 DEF DownloadFails, Checking
  <2>2. /\ Callers \in Seq(CallType) /\ Call(Innermost.block, <<>>) \in CallType
    BY <1>1, <2>1, InnermostType DEF Call, CallType
  <2>3. Due' = DueOf(calls')
    BY DEF Due, DueOf
  <2>4. DueOf(Callers) \subseteq Due'
    BY <2>1, <2>2, <2>3, DueOfAppend
  <2>5. Due \subseteq DueOf(Callers) \cup {Referred.hash}
    BY <1>1, <2>1, DueOfStack
  <2> QED BY <1>2, <2>1, <2>4, <2>5
<1>6. CASE Download
  <2> DEFINE b == NewBlock(Referred.hash, Referred.origin, Innermost.block.node)
  <2>1. /\ pc = "add" /\ Innermost.refs # <<>> /\ Referred.hash \in Hash
        /\ AddBlock(b, Resumed) /\ lost' = lost
    BY <1>6 DEF Download, Checking
  <2>2. /\ b \in Block /\ b.hash = Referred.hash
        /\ Callers \in Seq(CallType) /\ Resumed \in Seq(CallType)
        /\ Call(Innermost.block, Tail(Innermost.refs)) \in CallType
    BY <1>1, <2>1, InnermostType DEF NewBlock, Call, CallType, ReferenceType
  <2>3. DueOf(Callers) \subseteq DueOf(Resumed) /\ Due \subseteq DueOf(Callers) \cup {Referred.hash}
    BY <1>1, <2>1, <2>2, DueOfAppend, DueOfStack DEF Resumed
  <2>4. \A h \in Cached : Number[h] > EarliestBlockNumber =>
           ParentHash[h] \in Cached \cup lost \cup DueOf(Resumed) \cup {Referred.hash}
    BY <1>1, <2>3
  <2> HIDE DEF b
  <2>5. /\ Cached \subseteq Cached' /\ DueOf(Resumed) \subseteq Due'
        /\ b.hash \in Cached' \/ Number[b.hash] < EarliestBlockNumber'
        /\ \A h \in Cached' : Number[h] > EarliestBlockNumber' =>
             ParentHash[h] \in (Cached \cup lost \cup DueOf(Resumed) \cup {Referred.hash}) \cup Due'
    BY <1>1, <2>1, <2>2, <2>4, AddBlockHoles
  <2>6. ASSUME NEW h \in Cached', Number[h] > EarliestBlockNumber', ParentHash[h] = Referred.hash
        PROVE  ParentHash[h] \in Cached'
    <3>1. h \in Hash /\ Number[h] = Number[Referred.hash] + 1
      BY <2>1, <2>6, ChainAssumption DEF Cached
    <3>2. CacheType'
      BY <1>1, <2>1, <2>2, AddBlockType
    <3>3. EarliestBlockNumber' \in Height \cup {0}
      BY <3>2 DEF CacheType
    <3>4. EarliestBlockNumber' \in Nat /\ Number[Referred.hash] \in Nat
      BY <1>0, <2>1, <3>3
    <3> QED BY <2>2, <2>5, <2>6, <3>1, <3>4
  <2> QED BY <2>1, <2>5, <2>6 DEF HolesAreFailures
<1>7. CASE Return
  <2>1. TrimCache /\ pc = "add" /\ Innermost.refs = <<>> /\ calls' = Callers /\ lost' = lost
    BY <1>7 DEF Return
  <2>2. Due \subseteq Due'
    BY <1>1, <2>1, DueOfStack DEF Due, DueOf
  <2> SUFFICES ASSUME NEW h \in Cached', Number[h] > EarliestBlockNumber'
               PROVE  ParentHash[h] \in Cached' \cup lost' \cup Due'
    BY DEF HolesAreFailures
  <2>3. h \in Cached /\ Number[h] > EarliestBlockNumber
    <3>1. h \in Cached
      BY <2>1 DEF TrimCache, HashesKept, Cached
    <3>2. CacheType' /\ EarliestBlockNumber' >= EarliestBlockNumber
      BY <1>1, <2>1, TypeOKParts, TrimCacheType DEF WindowUp
    <3>3. h \in Hash
      BY <3>1 DEF Cached
    <3>4. {EarliestBlockNumber, EarliestBlockNumber'} \subseteq Height \cup {0}
      BY <1>1, <3>2 DEF CacheType
    <3>5. {Number[h], EarliestBlockNumber, EarliestBlockNumber'} \subseteq Nat
      BY <1>0, <3>3, <3>4
    <3> QED BY <3>1, <3>2, <3>5
  <2>4. CASE ParentHash[h] \in Cached
    BY <1>1, <2>1, <2>4, TrimCacheHoles
  <2> QED BY <1>1, <2>1, <2>2, <2>3, <2>4
<1>8. CASE SkipAnalysis \/ AnalysisError \/ AnalyzeTree
  BY <1>2, <1>8 DEF SkipAnalysis, AnalysisError, AnalyzeTree, Due
<1>9. CASE \/ \E r \in reorgs : Uninteresting(r) \/ Remember(r)
           \/ Send \/ EndReport
  BY <1>2, <1>9 DEF Uninteresting, Remember, Send, EndReport, Due
<1>10. CASE \/ Handled \/ UNCHANGED vars
            \/ \E n \in NodeUri, h \in Hash : Announce(n, h)
  BY <1>2, <1>10 DEF Handled, Announce, vars, Due
<1> QED BY <1>3, <1>4, <1>5, <1>6, <1>7, <1>8, <1>9, <1>10 DEF Next, Monitor

\* A block above the earliest height has its parent in the cache, unless a
\* download of the parent failed or is still to come (monitor.go:112): provided
\* the cache is large enough, nothing that is trimmed, replaced or ignored on
\* the way makes a hole.
THEOREM HolesOnlyFromFailures ==
  ASSUME TwoHeightsFit
  PROVE  Spec => []HolesAreFailures
<1>1. Init => HolesAreFailures
  BY DEF Init, HolesAreFailures, Cached
<1>2. IInv /\ CacheInv /\ HolesAreFailures /\ [Next]_vars => HolesAreFailures'
  BY HolesNextKeeps
<1> QED BY <1>1, <1>2, InvariantHolds, CacheInOrder, PTL DEF Spec

\* Without holes, the window has a block at every height: one has its parent
\* at the height below.
LEMMA NoHolesNoGaps ==
  ASSUME CacheType, MapsAgree, Window, Cached # {},
         \A h \in Cached : Number[h] > EarliestBlockNumber => ParentHash[h] \in Cached,
         NEW n \in EarliestBlockNumber..LatestBlockNumber
  PROVE  At(Cached, n) # {}
<1> DEFINE E == EarliestBlockNumber
           L == LatestBlockNumber
           gaps == {m \in E..L : At(Cached, m) = {}}
<1>1. E \in Nat /\ L \in Nat
  BY WindowType
<1>2. gaps \subseteq Nat /\ IsFiniteSet(gaps)
  <2>1. E..L \subseteq Nat /\ IsFiniteSet(E..L)
    BY <1>1, FS_Interval
  <2>2. gaps \subseteq E..L
    OBVIOUS
  <2> HIDE DEF gaps
  <2> QED BY <2>1, <2>2, FS_Subset
<1>3. At(Cached, L) # {}
  <2>1. L \in Heights
    BY DEF Window
  <2>2. PICK h \in Cached : Number[h] = L
    BY <2>1, HeightsAreCached
  <2> QED BY <2>2 DEF At
<1> SUFFICES ASSUME gaps # {} PROVE FALSE
  OBVIOUS
<1>4. PICK m \in gaps : \A k \in gaps : k <= m
  <2> HIDE DEF gaps
  <2> QED BY <1>2, MaxOfFinite
<1>5. m \in Nat /\ E <= m /\ m < L /\ At(Cached, m) = {} /\ m + 1 \in E..L
  BY <1>1, <1>3
<1>6. m + 1 \notin gaps
  <2> HIDE DEF gaps
  <2> QED BY <1>4, <1>5
<1>7. PICK h \in Cached : Number[h] = m + 1
  BY <1>5, <1>6 DEF At
<1>8. ParentHash[h] \in Cached /\ ParentHash[h] \in Hash /\ h \in Hash
  BY <1>1, <1>5, <1>7 DEF Cached
<1>9. Number[ParentHash[h]] = m
  <2>1. Number[h] = Number[ParentHash[h]] + 1 /\ Number[ParentHash[h]] \in Nat
    BY <1>8, ChainAssumption
  <2> QED BY <1>5, <1>7, <2>1
<1> QED BY <1>5, <1>8, <1>9 DEF At

\* A tree without gaps and holes has no orphans: it starts at a height with a
\* single block, and every block above has its parent in the tree.
LEMMA NoHolesNoOrphans ==
  ASSUME NEW S \in SUBSET Hash, NEW start \in Nat, NEW end \in Int,
         \A h \in S : Number[h] > start => ParentHash[h] \in S
  PROVE  Orphans(TreeNodes(S, start, end)) = {}
<1> DEFINE singles == Singles(S, start, end)
           nodes == TreeNodes(S, start, end)
           m == Min(singles)
<1>1. CASE singles = {}
  <2>1. nodes = {}
    BY <1>1 DEF TreeNodes
  <2> QED BY <2>1 DEF Orphans
<1>2. CASE singles # {}
  <2>1. m \in singles
    <3>1. singles \subseteq start..end
      BY DEF Singles
    <3>2. start..end \subseteq Nat /\ IsFiniteSet(start..end)
      BY FS_Interval
    <3>3. singles \subseteq Nat /\ IsFiniteSet(singles)
      BY <3>1, <3>2, FS_Subset
    <3> HIDE DEF singles
    <3> QED BY <1>2, <3>3, MinOfFinite
  <2>2. m \in Nat /\ start <= m /\ m <= end /\ Cardinality(At(S, m)) = 1
    BY <2>1 DEF Singles
  <2>3. nodes = UNION {At(S, n) : n \in m..end}
    BY <1>2 DEF TreeNodes
  <2>4. \A h \in Hash : Number[h] \in Nat
    BY ChainAssumption
  <2> HIDE DEF m, singles, nodes
  <2>5. nodes = {h \in S : m <= Number[h] /\ Number[h] <= end}
    <3>1. ASSUME NEW h \in S, m <= Number[h], Number[h] <= end PROVE h \in nodes
      <4>1. Number[h] \in m..end /\ h \in At(S, Number[h])
        BY <2>2, <2>4, <3>1 DEF At
      <4> QED BY <2>3, <4>1
    <3>2. ASSUME NEW h \in nodes PROVE h \in S /\ m <= Number[h] /\ Number[h] <= end
      BY <2>2, <2>3 DEF At
    <3> QED BY <3>1, <3>2
  <2>6. ASSUME NEW h \in nodes, ParentHash[h] \notin nodes,
               NEW g \in nodes, g # h, Number[g] <= Number[h]
        PROVE  FALSE
    <3>1. /\ h \in S /\ g \in S /\ Number[h] \in Nat /\ Number[g] \in Nat
          /\ m <= Number[h] /\ m <= Number[g] /\ Number[h] <= end
      BY <2>4, <2>5
    <3>2. CASE Number[h] > m
      <4>1. ParentHash[h] \in S
        BY <2>2, <3>1, <3>2
      <4>2. Number[h] = Number[ParentHash[h]] + 1 /\ Number[ParentHash[h]] \in Nat
        BY <3>1, <4>1, ChainAssumption
      <4>3. m <= Number[ParentHash[h]] /\ Number[ParentHash[h]] <= end
        BY <2>2, <3>1, <3>2, <4>2
      <4> QED BY <2>5, <2>6, <4>1, <4>3
    <3>3. CASE Number[h] = m
      <4>1. h \in At(S, m) /\ g \in At(S, m)
        BY <2>2, <2>6, <3>1, <3>3 DEF At
      <4>2. IsFiniteSet(At(S, m))
        BY ChainAssumption, FS_Subset DEF At
      <4>3. PICK x : At(S, m) = {x}
        BY <2>2, <4>2, FS_Singleton
      <4> QED BY <2>6, <4>1, <4>3
    <3> QED BY <2>2, <3>1, <3>2, <3>3
  <2> QED BY <2>6 DEF Orphans, nodes
<1> QED BY <1>1, <1>2

\* The analysis fails (monitor.go:93) only after a download has failed.
THEOREM ErrorsOnlyFromFailures ==
  ASSUME TwoHeightsFit
  PROVE  Spec => ErrorsAreFailures
<1>1. IInv /\ CacheInv /\ HolesAreFailures => (AnalysisError => lost # {})
  <2> SUFFICES ASSUME IInv, CacheInv, HolesAreFailures, AnalysisError, lost = {}
               PROVE  FALSE
    OBVIOUS
  <2>1. CacheType /\ MapsAgree /\ Window /\ TypeOK
    BY TypeOKParts DEF IInv, CacheInv
  <2>2. /\ pc = "check" /\ Cardinality(Heights) >= 3
        /\ AnalysisFails(Listed, EarliestBlockNumber, LatestBlockNumber - 2)
    BY DEF AnalysisError, NewHeight, AnalyzeFrom, AnalyzeTo
  <2>3. calls = <<>>
    BY <2>1, <2>2, TypeOKParts
  <2>4. \A h \in Cached : Number[h] > EarliestBlockNumber => ParentHash[h] \in Cached
    BY <2>3 DEF HolesAreFailures, Due
  <2>5. Listed = Cached /\ Cached \subseteq Hash
    <3>1. \A h \in Hash : BlocksByHeight[Number[h]][h] = BlockByHash[h]
      BY <2>1, HeightType DEF MapsAgree
    <3> QED BY <3>1 DEF Listed, Blocks, Cached
  <2>6. Cached # {}
    <3> SUFFICES ASSUME Cached = {} PROVE FALSE
      OBVIOUS
    <3>1. Heights = {}
      BY <2>1, HeightsAreCached
    <3> QED BY <2>2, <3>1, FS_EmptySet
  <2>7. EarliestBlockNumber \in Nat /\ LatestBlockNumber \in Nat
    BY <2>1, WindowType
  <2>8. ASSUME NEW n \in EarliestBlockNumber..LatestBlockNumber - 2
        PROVE  At(Listed, n) # {}
    <3>1. n \in EarliestBlockNumber..LatestBlockNumber
      BY <2>7
    <3> QED BY <2>1, <2>4, <2>5, <2>6, <3>1, NoHolesNoGaps
  <2>9. Orphans(TreeNodes(Listed, EarliestBlockNumber, LatestBlockNumber - 2)) = {}
    <3>1. LatestBlockNumber - 2 \in Int
      BY <2>7
    <3> QED BY <2>4, <2>5, <2>7, <3>1, NoHolesNoOrphans
  <2> QED BY <2>2, <2>8, <2>9 DEF AnalysisFails
<1> QED BY <1>1, InvariantHolds, CacheInOrder, HolesOnlyFromFailures, PTL DEF Spec, ErrorsAreFailures

-----------------------------------------------------------------------------
(* The closed form of TrimCache and its loop. *)

\* The state of the loop of TrimCache and what it does at one height.
LoopState == [returned : BOOLEAN, earliest : Nat, deleted : SUBSET Hash]

LoopStep(s, n) ==
  CASE s.returned \/ n \notin Heights -> s
    [] OTHER ->
       IF Cardinality(Cached \ s.deleted) <= MaxBlocksInCache
       THEN [s EXCEPT !.returned = TRUE, !.earliest = n]
       ELSE [s EXCEPT !.earliest = n,
               !.deleted = @ \cup {h \in Hash : BlocksByHeight[n][h] # Nil}]

\* The loop as a sequence of its states.
LEMMA TrimLoopSteps ==
  ASSUME CacheType, EarliestBlockNumber <= LatestBlockNumber
  PROVE  \E loopAt \in [EarliestBlockNumber..LatestBlockNumber -> LoopState] :
           /\ loopAt[EarliestBlockNumber] =
                [returned |-> FALSE, earliest |-> EarliestBlockNumber, deleted |-> {}]
           /\ \A n \in (EarliestBlockNumber + 1)..LatestBlockNumber :
                loopAt[n] = LoopStep(loopAt[n - 1], n - 1)
           /\ TrimLoop = loopAt[LatestBlockNumber]
<1> DEFINE E == EarliestBlockNumber
           L == LatestBlockNumber
           s0 == [returned |-> FALSE, earliest |-> E, deleted |-> {}]
           next == [n \in Nat |-> [s \in LoopState |->
                      IF n > 0 THEN LoopStep(s, n - 1) ELSE s]]
<1>1. E \in Nat /\ L \in Nat /\ E <= L
  BY WindowType
<1>2. ASSUME NEW s \in LoopState, NEW n \in Nat PROVE LoopStep(s, n) \in LoopState
  BY DEF LoopState, LoopStep
<1>3. s0 \in LoopState
  BY <1>1 DEF LoopState
<1>4. next \in [Nat -> [LoopState -> LoopState]]
  <2>1. ASSUME NEW n \in Nat, NEW s \in LoopState
        PROVE  (IF n > 0 THEN LoopStep(s, n - 1) ELSE s) \in LoopState
    <3>1. n > 0 => n - 1 \in Nat
      OBVIOUS
    <3> QED BY <1>2, <3>1
  <2> QED BY <2>1
<1> HIDE DEF s0
<1>5. PICK f : Iterates(f, LoopState, s0, E, L, next)
  <2> HIDE DEF next, E, L
  <2> QED BY <1>1, <1>3, <1>4, IterationExists
<1>6. /\ f \in [E..L -> LoopState] /\ f[E] = s0
      /\ \A n \in (E + 1)..L : f[n] = LoopStep(f[n - 1], n - 1)
  <2>1. ASSUME NEW n \in (E + 1)..L PROVE f[n] = LoopStep(f[n - 1], n - 1)
    <3>1. n - 1 \in E..L /\ n \in Nat /\ n > 0
      BY <1>1
    <3>2. f[n - 1] \in LoopState /\ f[n] = next[n][f[n - 1]]
      BY <1>5, <3>1 DEF Iterates
    <3>3. next[n][f[n - 1]] = LoopStep(f[n - 1], n - 1)
      BY <3>1, <3>2
    <3> QED BY <3>2, <3>3
  <2> QED BY <1>5, <2>1 DEF Iterates
<1> DEFINE Body(u) ==
        [n \in E..L |->
          IF n = E
          THEN [returned |-> FALSE, earliest |-> n, deleted |-> {}]
          ELSE LET s == u[n - 1]
               IN CASE s.returned \/ n - 1 \notin Heights -> s
                    [] OTHER ->
                         IF Cardinality(Cached \ s.deleted) <= MaxBlocksInCache
                         THEN [s EXCEPT !.returned = TRUE, !.earliest = n - 1]
                         ELSE [s EXCEPT !.earliest = n - 1,
                                 !.deleted = @ \cup {h \in Hash : BlocksByHeight[n - 1][h] # Nil}]]
           upTo == CHOOSE u : u = Body(u)
<1>7. TrimLoop = upTo[L]
  BY DEF TrimLoop
<1>8. ASSUME NEW u, NEW n \in E..L
      PROVE  Body(u)[n] = IF n = E THEN s0 ELSE LoopStep(u[n - 1], n - 1)
  BY DEF LoopStep, s0
<1>9. f = Body(f)
  <2>1. \A n \in E..L : f[n] = Body(f)[n]
    <3> HIDE DEF Body
    <3> QED BY <1>1, <1>6, <1>8
  <2>2. Body(f) = [n \in E..L |-> Body(f)[n]] /\ f = [n \in E..L |-> f[n]]
    BY <1>6
  <2> HIDE DEF Body
  <2> QED BY <2>1, <2>2
<1>10. upTo = Body(upTo)
  <2> HIDE DEF Body
  <2> QED BY <1>9
<1> HIDE DEF Body, upTo
<1>11. upTo[L] = f[L]
  <2> DEFINE differs == {n \in E..L : upTo[n] # f[n]}
  <2> SUFFICES ASSUME differs # {} PROVE FALSE
    BY <1>1
  <2>1. PICK n \in differs : \A m \in differs : n <= m
    <3>1. differs \in SUBSET Nat
      BY <1>1
    <3> HIDE DEF differs
    <3> QED BY <3>1, LeastElement
  <2>2. n \in E..L /\ upTo[n] # f[n]
    OBVIOUS
  <2>3. n # E
    BY <1>6, <1>8, <1>10, <2>2
  <2>4. n - 1 \in E..L /\ n - 1 \notin differs /\ n \in (E + 1)..L
    <3>1. n - 1 \in E..L /\ n \in (E + 1)..L /\ n - 1 < n
      BY <1>1, <2>2, <2>3
    <3> HIDE DEF differs
    <3> QED BY <1>1, <2>1, <2>2, <3>1
  <2>5. upTo[n - 1] = f[n - 1]
    BY <2>4
  <2> QED BY <1>6, <1>8, <1>10, <2>2, <2>3, <2>4, <2>5
<1> QED BY <1>6, <1>7, <1>11 DEF s0

\* What the loop has done when it comes to height n.
LoopAt(n, s) ==
  LET passed == {m \in Fitting(Visited) : m < n}
  IN /\ s.returned <=> passed # {}
     /\ s.returned =>
          /\ s.earliest \in Fitting(Visited) /\ \A m \in Fitting(Visited) : s.earliest <= m
          /\ s.deleted = {h \in Cached : Number[h] < s.earliest}
     /\ ~ s.returned =>
          /\ s.earliest \in Visited \cup {EarliestBlockNumber}
          /\ s.earliest = EarliestBlockNumber \/ s.earliest < n
          /\ \A m \in Visited : m < n => m <= s.earliest
          /\ s.deleted = {h \in Cached : Number[h] < n}

\* The height n is visited: the loop returns if the blocks from there on fit.
LEMMA LoopStepKeeps ==
  ASSUME CacheType, MapsAgree, Window, NEW n \in Nat,
         EarliestBlockNumber <= n, n < LatestBlockNumber,
         NEW s \in LoopState, LoopAt(n, s)
  PROVE  LoopAt(n + 1, LoopStep(s, n))
<1> DEFINE E == EarliestBlockNumber
           L == LatestBlockNumber
           F == Fitting(Visited)
<1>1. /\ E \in Nat /\ L \in Nat
      /\ \A h \in Hash : Number[h] \in Nat /\ Number[h] \in Height
      /\ Heights = {Number[h] : h \in Cached} /\ Cached \subseteq Hash
      /\ \A h \in Cached : E <= Number[h] /\ Number[h] <= L
  <2>1. E \in Nat /\ L \in Nat
    BY WindowType
  <2>2. \A h \in Hash : Number[h] \in Nat /\ Number[h] \in Height
    BY HeightType
  <2>3. Heights = {Number[h] : h \in Cached} /\ Cached \subseteq Hash
    BY HeightsAreCached DEF Cached
  <2>4. \A h \in Cached : E <= Number[h] /\ Number[h] <= L
    BY <2>1, <2>2, <2>3 DEF Window
  <2> QED BY <2>1, <2>2, <2>3, <2>4
<1>2. /\ Visited = {m \in Heights : E <= m /\ m < L}
      /\ Visited \subseteq Nat /\ F \subseteq Visited
      /\ \A m \in Visited : m \in F <=>
           Cardinality({h \in Cached : Number[h] \in Visited => m <= Number[h]})
             <= MaxBlocksInCache
  BY VisitedType DEF Visited, Fitting
<1>3. s.returned \in BOOLEAN /\ s.earliest \in Nat /\ s.deleted \in SUBSET Hash
  BY DEF LoopState
<1> HIDE DEF F
<1>4. CASE s.returned
  <2>1. LoopStep(s, n) = s
    BY <1>4 DEF LoopStep
  <2>2. {m \in F : m < n} # {} => {m \in F : m < n + 1} # {}
    <3>1. \A m \in F : m < n => m < n + 1
      BY <1>2
    <3> QED BY <3>1
  <2> QED BY <1>4, <2>1, <2>2 DEF LoopAt, F
<1>5. CASE ~ s.returned /\ n \notin Heights
  <2>1. LoopStep(s, n) = s
    BY <1>5 DEF LoopStep
  <2>2. \A m \in Visited : m < n + 1 => m < n
    BY <1>2, <1>5
  <2>3. {h \in Cached : Number[h] < n + 1} = {h \in Cached : Number[h] < n}
    <3>1. \A h \in Cached : Number[h] # n
      BY <1>1, <1>5
    <3>2. ASSUME NEW h \in Cached PROVE Number[h] < n + 1 <=> Number[h] < n
      BY <1>1, <3>1
    <3> QED BY <3>2
  <2>4. {m \in F : m < n + 1} = {m \in F : m < n}
    <3>1. ASSUME NEW m \in F PROVE m < n + 1 <=> m < n
      BY <1>2, <2>2
    <3> QED BY <3>1
  <2>5. s.earliest < n => s.earliest < n + 1
    BY <1>3
  <2> QED BY <1>5, <2>1, <2>2, <2>3, <2>4, <2>5 DEF LoopAt, F
<1>6. CASE ~ s.returned /\ n \in Heights
  <2>1. /\ s.deleted = {h \in Cached : Number[h] < n} /\ {m \in F : m < n} = {}
        /\ s.earliest = E \/ s.earliest < n
        /\ \A m \in Visited : m < n => m <= s.earliest
    BY <1>6 DEF LoopAt, F
  <2>2. n \in Visited
    BY <1>2, <1>6
  <2>3. Cached \ s.deleted = {h \in Cached : Number[h] \in Visited => n <= Number[h]}
    <3>1. ASSUME NEW h \in Cached
          PROVE  h \notin s.deleted <=> (Number[h] \in Visited => n <= Number[h])
      <4>1. /\ Number[h] \in Nat /\ Number[h] \in Heights
            /\ E <= Number[h] /\ Number[h] <= L
        BY <1>1
      <4>2. h \in s.deleted <=> Number[h] < n
        BY <2>1
      <4>3. Number[h] \notin Visited => Number[h] = L
        BY <1>1, <1>2, <4>1
      <4> QED BY <1>1, <4>1, <4>2, <4>3
    <3> QED BY <3>1
  <2>4. CASE n \in F
    <3>1. LoopStep(s, n) = [s EXCEPT !.returned = TRUE, !.earliest = n]
      BY <1>2, <1>6, <2>2, <2>3, <2>4 DEF LoopStep
    <3>2. /\ LoopStep(s, n).returned = TRUE /\ LoopStep(s, n).earliest = n
          /\ LoopStep(s, n).deleted = s.deleted
      BY <3>1 DEF LoopState
    <3>3. n \in {m \in F : m < n + 1}
      BY <2>4
    <3>4. \A m \in F : n <= m
      BY <1>2, <2>1
    <3> HIDE DEF LoopAt
    <3> QED BY <2>1, <2>4, <3>2, <3>3, <3>4 DEF LoopAt, F
  <2>5. CASE n \notin F
    <3> DEFINE below == {h \in Hash : BlocksByHeight[n][h] # Nil}
    <3>1. LoopStep(s, n) = [s EXCEPT !.earliest = n, !.deleted = s.deleted \cup below]
      BY <1>2, <1>6, <2>2, <2>3, <2>5 DEF LoopStep
    <3>2. /\ LoopStep(s, n).returned = FALSE /\ LoopStep(s, n).earliest = n
          /\ LoopStep(s, n).deleted = s.deleted \cup below
      <4> HIDE DEF below
      <4> QED BY <1>6, <3>1 DEF LoopState
    <3>3. below = {h \in Cached : Number[h] = n}
      <4>1. n \in Height
        BY <1>6 DEF Heights
      <4> QED BY <4>1 DEF MapsAgree, Cached
    <3>4. s.deleted \cup below = {h \in Cached : Number[h] < n + 1}
      <4> HIDE DEF below
      <4>1. ASSUME NEW h \in Cached
            PROVE  Number[h] < n + 1 <=> Number[h] < n \/ Number[h] = n
        BY <1>1
      <4> QED BY <2>1, <3>3, <4>1
    <3>5. {m \in F : m < n + 1} = {}
      <4>1. ASSUME NEW m \in F PROVE ~ (m < n + 1)
        BY <1>2, <2>1, <2>5
      <4> QED BY <4>1
    <3>6. \A m \in Visited : m < n + 1 => m <= n
      BY <1>2
    <3>7. n < n + 1
      OBVIOUS
    <3> HIDE DEF below
    <3> QED BY <2>2, <3>2, <3>4, <3>5, <3>6, <3>7 DEF LoopAt, F
  <2> QED BY <2>4, <2>5
<1> QED BY <1>3, <1>4, <1>5, <1>6

\* When a call of AddBlock returns, its TrimCache deletes the blocks and leaves
\* the earliest height of the loop in the code (monitor.go:171-191).
LEMMA TrimCacheIsTheLoop ==
  ASSUME CacheType, MapsAgree, Window, TrimCache
  PROVE  /\ Cached' = Cached \ TrimLoop.deleted
         /\ EarliestBlockNumber' = TrimLoop.earliest
<1> DEFINE E == EarliestBlockNumber
           L == LatestBlockNumber
           F == Fitting(Visited)
           trimmed == {n \in Visited : \A m \in F : n < m}
           s == TrimLoop
<1>1. E \in Nat /\ L \in Nat
  BY WindowType
<1>2. E <= L
  <2>1. CASE Cached = {}
    BY <1>1, <2>1 DEF Window
  <2>2. CASE Cached # {}
    <3>1. PICK h \in Cached : E <= Number[h] /\ Number[h] <= L /\ Number[h] \in Nat
      BY <1>1, <2>2, HeightType DEF Window, Cached
    <3> QED BY <1>1, <3>1
  <2> QED BY <2>1, <2>2
<1>3. PICK loopAt \in [E..L -> LoopState] :
        /\ loopAt[E] = [returned |-> FALSE, earliest |-> E, deleted |-> {}]
        /\ \A n \in (E + 1)..L : loopAt[n] = LoopStep(loopAt[n - 1], n - 1)
        /\ s = loopAt[L]
  BY <1>2, TrimLoopSteps
<1>4. LoopAt(E, loopAt[E])
  <2>1. \A m \in Visited : ~ (m < E)
    BY <1>1, VisitedType
  <2>2. {m \in F : m < E} = {}
    BY <2>1 DEF Fitting
  <2>3. {h \in Cached : Number[h] < E} = {}
    <3>1. \A h \in Cached : ~ (Number[h] < E)
      BY <1>1, HeightType DEF Window, Cached
    <3> QED BY <3>1
  <2> HIDE DEF F
  <2> QED BY <1>3, <2>1, <2>2, <2>3 DEF LoopAt, F
<1>5. LoopAt(L, s) /\ s \in LoopState
  <2> DEFINE fails == {n \in E..L : ~ LoopAt(n, loopAt[n])}
  <2>1. fails = {}
    <3> SUFFICES ASSUME fails # {} PROVE FALSE
      OBVIOUS
    <3>1. PICK n \in fails : \A m \in fails : n <= m
      <4>1. fails \in SUBSET Nat
        BY <1>1
      <4> HIDE DEF fails
      <4> QED BY <4>1, LeastElement
    <3>2. n \in E..L /\ ~ LoopAt(n, loopAt[n]) /\ n # E
      BY <1>4
    <3>3. /\ n - 1 \in E..L /\ n - 1 \in Nat /\ E <= n - 1 /\ n - 1 < L /\ n - 1 < n
          /\ n \in (E + 1)..L /\ (n - 1) + 1 = n
      BY <1>1, <3>2
    <3>4. n - 1 \notin fails
      <4> HIDE DEF fails
      <4> QED BY <1>1, <3>1, <3>2, <3>3
    <3>5. LoopAt(n - 1, loopAt[n - 1]) /\ loopAt[n - 1] \in LoopState
      BY <1>3, <3>3, <3>4
    <3>6. LoopAt((n - 1) + 1, LoopStep(loopAt[n - 1], n - 1))
      BY <3>3, <3>5, LoopStepKeeps
    <3> QED BY <1>3, <3>2, <3>3, <3>6
  <2>2. L \in E..L
    BY <1>1, <1>2
  <2> QED BY <1>3, <2>1, <2>2
<1>6. /\ \A m \in Visited : m \in Nat /\ m \in Heights /\ E <= m /\ m < L
      /\ \A n \in Heights : E <= n /\ n < L => n \in Visited
      /\ F \subseteq Visited
      /\ \A S \in SUBSET Visited : S # {} => Min(S) \in S /\ Max(S) \in S
      /\ F # {} => \A m \in F : Min(F) <= m
      /\ \A m \in Visited : m <= Max(Visited)
  <2>1. /\ \A m \in Visited : m \in Nat /\ m \in Heights /\ E <= m /\ m < L
        /\ \A n \in Heights : E <= n /\ n < L => n \in Visited
        /\ F \subseteq Visited
        /\ \A S \in SUBSET Visited : S # {} => Min(S) \in S /\ Max(S) \in S
    BY VisitedType DEF Visited, Fitting
  <2>2. /\ Visited \subseteq Nat /\ IsFiniteSet(Visited)
        /\ F \subseteq Nat /\ IsFiniteSet(F)
    BY <2>1, VisitedType, FS_Subset
  <2> HIDE DEF F
  <2>3. F # {} => \A m \in F : Min(F) <= m
    BY <2>2, MinOfFinite
  <2>4. \A m \in Visited : m <= Max(Visited)
    BY <2>2, MaxOfFinite
  <2> QED BY <2>1, <2>3, <2>4
<1>7. /\ F # {} => EarliestBlockNumber' = Min(F)
      /\ F = {} /\ Visited # {} => EarliestBlockNumber' = Max(Visited)
      /\ F = {} /\ Visited = {} => EarliestBlockNumber' = E
      /\ Cached' = {h \in Cached : Number[h] \notin trimmed}
  <2>1. /\ EarliestBlockNumber' = CASE F # {} -> Min(F)
                                    [] F = {} /\ Visited # {} -> Max(Visited)
                                    [] Visited = {} -> E
        /\ Cached' = {h \in Cached : Number[h] \notin trimmed}
    BY TrimCacheRemoves
  <2> DEFINE empty == F = {}
             unvisited == Visited = {}
  <2>2. EarliestBlockNumber' = CASE ~ empty -> Min(F)
                                 [] empty /\ ~ unvisited -> Max(Visited)
                                 [] unvisited -> E
    BY <2>1
  <2>3. unvisited => empty
    BY DEF Fitting
  <2> HIDE DEF F, trimmed, empty, unvisited
  <2>4. CASE ~ empty
    BY <2>1, <2>2, <2>3, <2>4 DEF empty
  <2>5. CASE empty /\ ~ unvisited
    BY <2>1, <2>2, <2>5 DEF empty, unvisited
  <2>6. CASE empty /\ unvisited
    BY <2>1, <2>2, <2>6 DEF empty, unvisited
  <2> QED BY <2>4, <2>5, <2>6
<1>8. /\ \A h \in Cached : Number[h] \in Nat /\ Number[h] \in Heights
      /\ \A h \in Cached : E <= Number[h] /\ Number[h] <= L
  <2>1. \A h \in Cached : Number[h] \in Nat /\ Number[h] \in Heights
    BY HeightsAreCached, HeightType DEF Cached
  <2> QED BY <1>1, <2>1 DEF Window
<1> DEFINE passed == {m \in F : m < L}
<1>9. /\ s.returned <=> passed # {}
      /\ s.returned =>
           /\ s.earliest \in F /\ \A m \in F : s.earliest <= m
           /\ s.deleted = {h \in Cached : Number[h] < s.earliest}
      /\ ~ s.returned =>
           /\ s.earliest \in Visited \cup {E}
           /\ \A m \in Visited : m < L => m <= s.earliest
           /\ s.deleted = {h \in Cached : Number[h] < L}
      /\ s.earliest \in Nat
  <2> HIDE DEF F, s
  <2> QED BY <1>5 DEF LoopAt, LoopState, F
<1>10. passed = F
  <2>1. \A m \in F : m < L
    BY <1>6
  <2> QED BY <2>1
<1> HIDE DEF F, s, passed, E, L
<1>11. CASE F # {}
  <2>1. /\ s.earliest \in F /\ \A m \in F : s.earliest <= m
        /\ s.deleted = {h \in Cached : Number[h] < s.earliest}
    BY <1>9, <1>10, <1>11
  <2>2. Min(F) \in F /\ Min(F) \in Nat /\ s.earliest \in Nat
    BY <1>6, <1>9, <1>11
  <2>3. s.earliest = Min(F)
    <3>1. s.earliest <= Min(F) /\ Min(F) <= s.earliest
      BY <1>6, <1>11, <2>1, <2>2
    <3> QED BY <2>2, <3>1
  <2>4. EarliestBlockNumber' = s.earliest
    BY <1>7, <1>11, <2>3
  <2>5. ASSUME NEW h \in Cached
        PROVE  Number[h] \in trimmed <=> Number[h] < s.earliest
    <3>1. Number[h] \in trimmed => Number[h] < s.earliest
      BY <2>1
    <3>2. ASSUME Number[h] < s.earliest PROVE Number[h] \in trimmed
      <4>1. s.earliest < L /\ Number[h] \in Nat /\ E <= Number[h] /\ Number[h] \in Heights
        BY <1>6, <1>8, <2>1
      <4>2. Number[h] \in Visited
        BY <1>1, <1>6, <2>2, <3>2, <4>1
      <4>3. ASSUME NEW m \in F PROVE Number[h] < m
        <5>1. m \in Nat /\ s.earliest <= m
          BY <1>6, <2>1
        <5> QED BY <2>2, <3>2, <4>1, <5>1
      <4> QED BY <4>2, <4>3
    <3> QED BY <3>1, <3>2
  <2> HIDE DEF trimmed
  <2> QED BY <1>7, <2>1, <2>4, <2>5 DEF s
<1>12. CASE F = {}
  <2>1. /\ s.earliest \in Visited \cup {E}
        /\ \A m \in Visited : m <= s.earliest
        /\ s.deleted = {h \in Cached : Number[h] < L}
    BY <1>6, <1>9, <1>10, <1>12
  <2>2. EarliestBlockNumber' = s.earliest
    <3>1. CASE Visited = {}
      BY <1>7, <1>12, <2>1, <3>1
    <3>2. CASE Visited # {}
      <4>1. EarliestBlockNumber' = Max(Visited) /\ Max(Visited) \in Visited
        BY <1>6, <1>7, <1>12, <3>2
      <4>2. Max(Visited) <= s.earliest /\ Max(Visited) \in Nat /\ E <= Max(Visited)
        BY <1>6, <2>1, <4>1
      <4>3. s.earliest <= Max(Visited)
        BY <1>1, <1>6, <2>1, <4>2
      <4> QED BY <1>9, <4>1, <4>2, <4>3
    <3> QED BY <3>1, <3>2
  <2>3. ASSUME NEW h \in Cached
        PROVE  Number[h] \in trimmed <=> Number[h] < L
    BY <1>6, <1>8, <1>12
  <2> HIDE DEF trimmed
  <2> QED BY <1>7, <2>1, <2>2, <2>3 DEF s
<1> QED BY <1>11, <1>12

\* The closed form of TrimCache is the loop of the code, for every cache in
\* which a call of AddBlock returns.
THEOREM TrimmedAsTheLoop == Spec => TrimIsTheLoop
<1>1. IInv /\ CacheInv =>
        (Return => /\ Cached' = Cached \ TrimLoop.deleted
                   /\ EarliestBlockNumber' = TrimLoop.earliest)
  <2> SUFFICES ASSUME IInv, CacheInv, Return
               PROVE  /\ Cached' = Cached \ TrimLoop.deleted
                      /\ EarliestBlockNumber' = TrimLoop.earliest
    OBVIOUS
  <2>1. CacheType /\ MapsAgree /\ Window /\ TrimCache
    BY TypeOKParts DEF IInv, CacheInv, Return
  <2> QED BY <2>1, TrimCacheIsTheLoop
<1> QED BY <1>1, InvariantHolds, CacheInOrder, PTL DEF Spec, TrimIsTheLoop
=============================================================================

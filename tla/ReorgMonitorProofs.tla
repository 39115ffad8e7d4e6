------------------------- MODULE ReorgMonitorProofs -------------------------
(***************************************************************************)
(* Safety of the monitor, for every block chain, every number of nodes and *)
(* every size of the cache and of the channel.                             *)
(***************************************************************************)
EXTENDS ReorgMonitor, AnalysisProofs

USE DEF Origin, Block

-----------------------------------------------------------------------------
(* Types. *)

\* The heights of the blocks are finitely many numbers above zero.
LEMMA HeightType ==
  /\ Height \subseteq Nat \ {0} /\ IsFiniteSet(Height)
  /\ \A h \in Hash : Number[h] \in Height
<1>1. \A h \in Hash : Number[h] \in Nat \ {0}
  BY ChainAssumption
<1>2. [h \in Hash |-> Number[h]] \in Surjection(Hash, Height)
  BY DEF Surjection, Height
<1>3. IsFiniteSet(Height)
  BY <1>2, FS_Surjection, ChainAssumption
<1> QED BY <1>1, <1>3 DEF Height

\* The list CheckBlockForReferences walks (monitor.go:194) is well-formed for
\* every block.
LEMMA ReferencesType == \A h \in Hash : References(h) \in Seq(ReferenceType)
<1> SUFFICES ASSUME NEW h \in Hash PROVE References(h) \in Seq(ReferenceType)
  OBVIOUS
<1>1. Uncles[h] \in Seq(Hash) /\ ParentHash[h] \in Hash \cup {Nil}
  BY ChainAssumption
<1>2. <<Reference(ParentHash[h], "GetParent")>> \in Seq(ReferenceType)
  BY <1>1 DEF Reference, ReferenceType
<1>3. [i \in DOMAIN Uncles[h] |-> Reference(Uncles[h][i], "Uncle")] \in Seq(ReferenceType)
  <2>1. \A i \in 1..Len(Uncles[h]) : Reference(Uncles[h][i], "Uncle") \in ReferenceType
    BY <1>1 DEF Reference, ReferenceType
  <2>2. DOMAIN Uncles[h] = 1..Len(Uncles[h]) /\ Len(Uncles[h]) \in Nat
    BY <1>1
  <2> QED BY <2>1, <2>2
<1> QED BY <1>2, <1>3 DEF References

\* The types of the cache, and what no step may do to its window.
CacheType ==
  /\ BlockByHash \in [Hash -> Block \cup {Nil}]
  /\ BlocksByHeight \in [Height -> [Hash -> Block \cup {Nil}]]
  /\ EarliestBlockNumber \in Height \cup {0} /\ LatestBlockNumber \in Height \cup {0}

WindowUp ==
  /\ EarliestBlockNumber' >= EarliestBlockNumber
  /\ LatestBlockNumber' >= LatestBlockNumber

\* AddBlock up to its first reference (monitor.go:113-158), called by any calls:
\* the cache stays well-formed, no end of the window moves down, and a call is
\* left to return.
LEMMA AddBlockType ==
  ASSUME CacheType, NEW b \in Block, NEW callers \in Seq(CallType),
         AddBlock(b, callers)
  PROVE  /\ CacheType' /\ WindowUp
         /\ calls' \in Seq(CallType) /\ calls' # <<>>
<1>1. /\ b.hash \in Hash /\ Number[b.hash] \in Height
      /\ Height \subseteq Nat
  BY HeightType
<1>2. CASE ~ Accepts(b) /\ calls' = Append(callers, Call(b, <<>>)) /\ UNCHANGED cache
  <2>1. Call(b, <<>>) \in CallType
    BY DEF Call, CallType
  <2>2. CacheType' /\ WindowUp
    BY <1>1, <1>2 DEF CacheType, WindowUp, cache
  <2> QED BY <1>2, <2>1, <2>2
<1>3. CASE ~ (~ Accepts(b) /\ calls' = Append(callers, Call(b, <<>>)) /\ UNCHANGED cache)
  <2> DEFINE n == Number[b.hash]
  <2>1. /\ BlockByHash' = [BlockByHash EXCEPT ![b.hash] = b]
        /\ BlocksByHeight' = [BlocksByHeight EXCEPT ![n][b.hash] = b]
        /\ EarliestBlockNumber' = IF EarliestBlockNumber = 0 THEN n ELSE EarliestBlockNumber
        /\ LatestBlockNumber' = IF n > LatestBlockNumber THEN n ELSE LatestBlockNumber
        /\ calls' = Append(callers,
             Call(b, IF n > EarliestBlockNumber' THEN References(b.hash) ELSE <<>>))
    BY <1>3 DEF AddBlock, LatestNumber
  <2>2. BlocksByHeight[n] \in [Hash -> Block \cup {Nil}]
    BY <1>1 DEF CacheType
  <2>3. [BlocksByHeight[n] EXCEPT ![b.hash] = b] \in [Hash -> Block \cup {Nil}]
    BY <1>1, <2>2
  <2>4. BlocksByHeight' \in [Height -> [Hash -> Block \cup {Nil}]]
    BY <1>1, <2>1, <2>3 DEF CacheType
  <2>5. CacheType' /\ WindowUp
    <3>1. BlockByHash' \in [Hash -> Block \cup {Nil}]
      BY <1>1, <2>1 DEF CacheType
    <3>2. /\ EarliestBlockNumber' \in Height \cup {0} /\ LatestBlockNumber' \in Height \cup {0}
          /\ WindowUp
      <4>1. /\ n \in Height /\ n \in Nat
            /\ EarliestBlockNumber \in Nat /\ LatestBlockNumber \in Nat
        BY <1>1 DEF CacheType
      <4>2. EarliestBlockNumber' = IF EarliestBlockNumber = 0 THEN n ELSE EarliestBlockNumber
        BY <2>1
      <4>3. LatestBlockNumber' = IF n > LatestBlockNumber THEN n ELSE LatestBlockNumber
        BY <2>1
      <4> HIDE DEF n
      <4> QED BY <4>1, <4>2, <4>3 DEF CacheType, WindowUp
    <3> QED BY <2>4, <3>1, <3>2 DEF CacheType
  <2>6. Call(b, IF n > EarliestBlockNumber' THEN References(b.hash) ELSE <<>>) \in CallType
    BY <1>1, ReferencesType DEF Call, CallType
  <2> QED BY <2>1, <2>5, <2>6
<1> QED BY <1>2, <1>3

\* The heights the loop of TrimCache can visit (monitor.go:171) lie in the
\* window, below its latest height, and any of them have a least and a greatest.
LEMMA VisitedType ==
  ASSUME CacheType
  PROVE  /\ Visited \subseteq Height /\ Visited \subseteq Nat /\ IsFiniteSet(Visited)
         /\ \A n \in Visited : EarliestBlockNumber <= n /\ n < LatestBlockNumber
         /\ \A S \in SUBSET Visited : S # {} => Min(S) \in S /\ Max(S) \in S
<1>1. Visited \subseteq Height /\ Visited \subseteq Nat
  BY HeightType DEF Visited, Heights
<1>2. IsFiniteSet(Visited)
  BY <1>1, HeightType, FS_Subset
<1>3. \A S \in SUBSET Visited : S # {} => Min(S) \in S /\ Max(S) \in S
  BY <1>1, <1>2, FS_Subset, MinOfFinite, MaxOfFinite
<1> QED BY <1>1, <1>2, <1>3 DEF Visited

\* TrimCache (monitor.go:163-192) keeps the cache well-formed, moves no end of
\* the window down, and adds nothing to KnownReorgs.
LEMMA TrimCacheType ==
  ASSUME CacheType, KnownReorgs \subseteq IdType, TrimCache
  PROVE  CacheType' /\ WindowUp /\ KnownReorgs' \subseteq KnownReorgs
<1> DEFINE visited == Visited
           fitting == Fitting(visited)
           trimmed == {n \in visited : \A m \in fitting : n < m}
<1>1. fitting \subseteq visited
  BY DEF Fitting
<1>2. /\ EarliestBlockNumber' = CASE fitting # {} -> Min(fitting)
                                  [] fitting = {} /\ visited # {} -> Max(visited)
                                  [] visited = {} -> EarliestBlockNumber
      /\ LatestBlockNumber' = LatestBlockNumber
      /\ KnownReorgs' \subseteq KnownReorgs
  BY DEF TrimCache, StillKnown
<1>3. EarliestBlockNumber' \in visited \cup {EarliestBlockNumber}
  BY <1>1, <1>2, VisitedType
<1>4. /\ EarliestBlockNumber' \in Height \cup {0}
      /\ WindowUp
  BY <1>2, <1>3, VisitedType, HeightType DEF CacheType, WindowUp
<1>5. /\ BlocksByHeight' = [n \in Height |-> IF n \in trimmed THEN [h \in Hash |-> Nil]
                                             ELSE BlocksByHeight[n]]
      /\ BlockByHash' = [h \in Hash |->
           IF Number[h] \in trimmed /\ BlocksByHeight[Number[h]][h] # Nil THEN Nil
           ELSE BlockByHash[h]]
  BY DEF TrimCache, HashesKept
<1> HIDE DEF visited, fitting, trimmed
<1>6. /\ BlocksByHeight' \in [Height -> [Hash -> Block \cup {Nil}]]
      /\ BlockByHash' \in [Hash -> Block \cup {Nil}]
  BY <1>5 DEF CacheType
<1> QED BY <1>2, <1>4, <1>6 DEF CacheType

-----------------------------------------------------------------------------
(* The inductive invariant behind TypeOK and ReportedOnce: an Id that was   *)
(* sent and could be found again, since the reorg ends in the window, is    *)
(* still among KnownReorgs; a reorg under analysis ends in the window.      *)

Remembered ==
  /\ pc \in {"receive", "add", "check"} => reorgs = {}
  /\ \A r \in reorgs : /\ Id(r) \in IdType
                       /\ r.IsFinished => Id(r)[2] >= EarliestBlockNumber
  /\ \A s \in reported : /\ s.id \in IdType
                         /\ s.id[2] >= EarliestBlockNumber => s.id \in KnownReorgs
  /\ pc = "send" => /\ Id(reorg) \in KnownReorgs
                    /\ \A s \in reported : s.id # Id(reorg)

IInv == TypeOK /\ Remembered

\* TypeOK, with what it says of the cache named CacheType.
LEMMA TypeOKParts ==
  TypeOK <=> /\ CacheType
             /\ KnownReorgs \subseteq IdType
             /\ lastBlockHeight \in Height \cup {0}
             /\ NewBlockChan \in Seq(Block) /\ Len(NewBlockChan) <= ChanCap
             /\ pc \in {"receive", "add", "check", "report", "send"}
             /\ block \in Block \cup {Nil} /\ (pc # "receive" => block # Nil)
             /\ calls \in Seq(CallType)
             /\ calls # <<>> <=> pc = "add"
             /\ lost \subseteq Hash
BY DEF TypeOK, CacheType

\* A new monitor (monitor.go:33-48) satisfies the inductive invariant.
LEMMA InitInv == Init => IInv
<1> SUFFICES ASSUME Init PROVE IInv
  OBVIOUS
<1>1. CacheType
  BY DEF Init, CacheType
<1>2. TypeOK
  BY <1>1, TypeOKParts, ReorgMonitorAssumption DEF Init
<1>3. Remembered
  BY DEF Init, Remembered
<1> QED BY <1>2, <1>3 DEF IInv

\* The innermost call, while AddBlock runs.
LEMMA InnermostType ==
  ASSUME TypeOK, pc = "add"
  PROVE  /\ Innermost \in CallType /\ Callers \in Seq(CallType)
         /\ Innermost.refs # <<>> => /\ Referred \in ReferenceType
                                     /\ Resumed \in Seq(CallType) /\ Resumed # <<>>
<1>1. calls \in Seq(CallType) /\ calls # <<>>
  BY TypeOKParts
<1>2. Innermost \in CallType /\ Callers \in Seq(CallType)
  BY <1>1 DEF Innermost, Callers
<1>3. ASSUME Innermost.refs # <<>>
      PROVE  /\ Referred \in ReferenceType
             /\ Resumed \in Seq(CallType) /\ Resumed # <<>>
  <2>1. Innermost.refs \in Seq(ReferenceType) /\ Innermost.block \in Block
    BY <1>2 DEF CallType
  <2>2. Referred \in ReferenceType /\ Tail(Innermost.refs) \in Seq(ReferenceType)
    BY <1>3, <2>1 DEF Referred
  <2>3. Call(Innermost.block, Tail(Innermost.refs)) \in CallType
    BY <2>1, <2>2 DEF Call, CallType
  <2> QED BY <1>2, <2>2, <2>3 DEF Resumed
<1> QED BY <1>2, <1>3

\* When the window moves up, what was remembered stays remembered.
LEMMA RememberedStable ==
  ASSUME IInv, WindowUp, CacheType', UNCHANGED <<KnownReorgs, reported, reorgs>>,
         reorgs = {}, pc' # "send"
  PROVE  Remembered'
<1>1. EarliestBlockNumber \in Nat /\ EarliestBlockNumber' \in Nat
      /\ EarliestBlockNumber' >= EarliestBlockNumber
  <2>1. CacheType /\ Height \subseteq Nat
    BY HeightType, TypeOKParts DEF IInv
  <2>2. EarliestBlockNumber \in Nat
    BY <2>1 DEF CacheType
  <2>3. EarliestBlockNumber' \in Nat
    BY <2>1 DEF CacheType
  <2> QED BY <2>2, <2>3 DEF WindowUp
<1>2. ASSUME NEW s \in reported
      PROVE  /\ s.id \in IdType
             /\ s.id[2] >= EarliestBlockNumber' => s.id \in KnownReorgs
  <2>1. s.id \in IdType /\ (s.id[2] >= EarliestBlockNumber => s.id \in KnownReorgs)
    BY DEF IInv, Remembered
  <2>2. s.id[2] \in Nat
    BY <2>1 DEF IdType
  <2> QED BY <1>1, <2>1, <2>2
<1> QED BY <1>2 DEF Remembered

\* A block that leaves or enters the channel.
LEMMA ChannelType ==
  ASSUME NewBlockChan \in Seq(Block), Len(NewBlockChan) <= ChanCap
  PROVE  /\ NewBlockChan # <<>> => /\ Head(NewBlockChan) \in Block
                                   /\ Tail(NewBlockChan) \in Seq(Block)
                                   /\ Len(Tail(NewBlockChan)) <= ChanCap
         /\ \A b \in Block : Len(NewBlockChan) < ChanCap =>
              /\ Append(NewBlockChan, b) \in Seq(Block)
              /\ Len(Append(NewBlockChan, b)) <= ChanCap
<1> HIDE DEF Block
<1>1. ChanCap \in Nat /\ Len(NewBlockChan) \in Nat
  BY ReorgMonitorAssumption
<1>2. ASSUME NewBlockChan # <<>>
      PROVE  /\ Head(NewBlockChan) \in Block /\ Tail(NewBlockChan) \in Seq(Block)
             /\ Len(Tail(NewBlockChan)) = Len(NewBlockChan) - 1
  BY <1>2, HeadTailProperties
<1>3. ASSUME NEW b \in Block
      PROVE  /\ Append(NewBlockChan, b) \in Seq(Block)
             /\ Len(Append(NewBlockChan, b)) = Len(NewBlockChan) + 1
  BY AppendProperties
<1> QED BY <1>1, <1>2, <1>3

\* The steps of AddBlock before its return (monitor.go:113-158, 194-240) keep
\* the inductive invariant, and the window does not move down.
LEMMA AddBlockKeeps ==
  ASSUME IInv, Receive \/ Found \/ Download \/ DownloadFails
  PROVE  IInv' /\ WindowUp
<1>1. TypeOK /\ Remembered /\ CacheType
  BY TypeOKParts DEF IInv
<1>2. CASE Receive
  <2>1. Head(NewBlockChan) \in Block /\ Tail(NewBlockChan) \in Seq(Block)
        /\ Len(Tail(NewBlockChan)) <= ChanCap
    BY <1>1, <1>2, TypeOKParts, ChannelType DEF Receive
  <2>2. /\ AddBlock(Head(NewBlockChan), <<>>)
        /\ block' = Head(NewBlockChan) /\ NewBlockChan' = Tail(NewBlockChan)
        /\ pc = "receive" /\ pc' = "add"
        /\ UNCHANGED <<KnownReorgs, lastBlockHeight, reorgs, reported, lost>>
    BY <1>2 DEF Receive
  <2>3. CacheType' /\ WindowUp /\ calls' \in Seq(CallType) /\ calls' # <<>>
    <3>1. <<>> \in Seq(CallType)
      OBVIOUS
    <3> QED BY <1>1, <2>1, <2>2, <3>1, AddBlockType
  <2>4. Head(NewBlockChan) # Nil
    BY <2>1, NilAssumption
  <2>5. TypeOK'
    BY <1>1, <2>1, <2>2, <2>3, <2>4, TypeOKParts DEF TypeOK, CacheType
  <2>6. reorgs = {}
    BY <1>1, <2>2 DEF Remembered
  <2>7. Remembered'
    BY <2>2, <2>3, <2>6, RememberedStable
  <2> QED BY <2>3, <2>5, <2>7 DEF IInv
<1>3. CASE Found \/ DownloadFails
  <2>1. /\ pc = "add" /\ pc' = "add"
        /\ UNCHANGED <<cache, loop, NewBlockChan, reported>>
    BY <1>3 DEF Found, DownloadFails, Checking
  <2>2. calls' \in Seq(CallType) /\ calls' # <<>>
    <3>1. CASE Found
      BY <1>1, <3>1, InnermostType DEF Found, Checking
    <3>2. CASE DownloadFails
      <4>1. Innermost.block \in Block /\ Callers \in Seq(CallType)
        BY <1>1, <2>1, InnermostType DEF CallType
      <4>2. Call(Innermost.block, <<>>) \in CallType
        BY <4>1 DEF Call, CallType
      <4> QED BY <3>2, <4>1, <4>2 DEF DownloadFails
    <3> QED BY <1>3, <3>1, <3>2
  <2>3. lost' \subseteq Hash
    <3>1. lost \subseteq Hash
      BY <1>1, TypeOKParts
    <3> QED BY <1>3, <3>1 DEF Found, DownloadFails
  <2>4. CacheType' /\ WindowUp
    <3>1. EarliestBlockNumber \in Nat /\ LatestBlockNumber \in Nat
      BY <1>1, HeightType DEF CacheType
    <3> QED BY <1>1, <2>1, <3>1 DEF CacheType, WindowUp, cache
  <2>5. TypeOK'
    BY <1>1, <2>1, <2>2, <2>3, <2>4, TypeOKParts DEF TypeOK, CacheType, loop
  <2>6. reorgs = {}
    BY <1>1, <2>1 DEF Remembered
  <2>7. Remembered'
    BY <2>1, <2>4, <2>6, RememberedStable DEF loop
  <2> QED BY <2>4, <2>5, <2>7 DEF IInv
<1>4. CASE Download
  <2>1. /\ pc = "add" /\ pc' = "add" /\ Innermost.refs # <<>>
        /\ Referred.hash \in Hash
        /\ AddBlock(NewBlock(Referred.hash, Referred.origin, Innermost.block.node), Resumed)
        /\ UNCHANGED <<loop, NewBlockChan, reported, lost>>
    BY <1>4 DEF Download, Checking
  <2>2. /\ NewBlock(Referred.hash, Referred.origin, Innermost.block.node) \in Block
        /\ Resumed \in Seq(CallType)
    BY <1>1, <2>1, InnermostType DEF NewBlock, CallType, ReferenceType
  <2>3. CacheType' /\ WindowUp /\ calls' \in Seq(CallType) /\ calls' # <<>>
    BY <1>1, <2>1, <2>2, AddBlockType
  <2>4. TypeOK'
    BY <1>1, <2>1, <2>3, TypeOKParts DEF TypeOK, CacheType, loop
  <2>5. reorgs = {}
    BY <1>1, <2>1 DEF Remembered
  <2>6. Remembered'
    BY <2>1, <2>3, <2>5, RememberedStable DEF loop
  <2> QED BY <2>3, <2>4, <2>6 DEF IInv
<1> QED BY <1>2, <1>3, <1>4

\* The return of AddBlock, with its deferred TrimCache (monitor.go:114), keeps
\* the inductive invariant: an Id is forgotten only below the window.
LEMMA ReturnKeeps ==
  ASSUME IInv, Return
  PROVE  IInv' /\ WindowUp
<1>1. TypeOK /\ Remembered /\ CacheType /\ KnownReorgs \subseteq IdType
  BY TypeOKParts DEF IInv
<1>2. /\ pc = "add" /\ TrimCache /\ calls' = Callers
      /\ pc' = IF Callers = <<>> THEN "check" ELSE "add"
      /\ UNCHANGED <<lastBlockHeight, block, reorgs, reorg,
                     NewBlockChan, handling, reported, lost>>
  BY DEF Return
<1>3. CacheType' /\ WindowUp /\ KnownReorgs' \subseteq KnownReorgs
  BY <1>1, <1>2, TrimCacheType
<1>4. TypeOK'
  BY <1>1, <1>2, <1>3, InnermostType, TypeOKParts DEF TypeOK, CacheType
<1>5. EarliestBlockNumber \in Nat /\ EarliestBlockNumber' \in Nat
      /\ EarliestBlockNumber' >= EarliestBlockNumber
  <2>1. Height \subseteq Nat
    BY HeightType
  <2>2. EarliestBlockNumber \in Nat
    BY <1>1, <2>1 DEF CacheType
  <2>3. EarliestBlockNumber' \in Nat
    BY <1>3, <2>1 DEF CacheType
  <2> QED BY <1>3, <2>2, <2>3 DEF WindowUp
<1>6. ASSUME NEW s \in reported
      PROVE  /\ s.id \in IdType
             /\ s.id[2] >= EarliestBlockNumber' => s.id \in KnownReorgs'
  <2>1. s.id \in IdType /\ (s.id[2] >= EarliestBlockNumber => s.id \in KnownReorgs)
    BY <1>1 DEF Remembered
  <2>2. s.id[2] \in Nat
    BY <2>1 DEF IdType
  <2>3. KnownReorgs' = {id \in KnownReorgs : id[2] >= EarliestBlockNumber}
    BY <1>2 DEF TrimCache, StillKnown
  <2> QED BY <1>5, <2>1, <2>2, <2>3
<1>7. Remembered'
  BY <1>1, <1>2, <1>6 DEF Remembered
<1> QED BY <1>3, <1>4, <1>7 DEF IInv

\* The steps that leave the cache alone.
LEMMA CacheStays ==
  ASSUME IInv, UNCHANGED cache
  PROVE  CacheType' /\ WindowUp
<1>1. CacheType /\ Height \subseteq Nat
  BY HeightType, TypeOKParts DEF IInv
<1>2. EarliestBlockNumber \in Nat /\ LatestBlockNumber \in Nat
  BY <1>1 DEF CacheType
<1> QED BY <1>1, <1>2 DEF CacheType, WindowUp, cache

\* The blocks of the tree lie in the window.
LEMMA TreeInWindow ==
  ASSUME IInv
  PROVE  /\ TreeNodes(Listed, AnalyzeFrom, AnalyzeTo) \subseteq Hash
         /\ \A h \in TreeNodes(Listed, AnalyzeFrom, AnalyzeTo) :
               Number[h] >= EarliestBlockNumber
<1> DEFINE singles == Singles(Listed, AnalyzeFrom, AnalyzeTo)
<1>1. EarliestBlockNumber \in Nat /\ LatestBlockNumber \in Nat
  <2>1. CacheType /\ Height \subseteq Nat
    BY HeightType, TypeOKParts DEF IInv
  <2> QED BY <2>1 DEF CacheType
<1>2. CASE singles = {}
  BY <1>2 DEF TreeNodes
<1>3. CASE singles # {}
  <2>1. singles \subseteq EarliestBlockNumber..(LatestBlockNumber - 2)
    BY DEF Singles, AnalyzeFrom, AnalyzeTo
  <2>2. /\ singles \subseteq Nat /\ IsFiniteSet(singles)
        /\ \A n \in singles : n >= EarliestBlockNumber
    <3>1. LatestBlockNumber - 2 \in Int
      BY <1>1
    <3>2. IsFiniteSet(EarliestBlockNumber..(LatestBlockNumber - 2))
      BY <1>1, <3>1, FS_Interval
    <3>3. \A n \in EarliestBlockNumber..(LatestBlockNumber - 2) :
             n \in Nat /\ n >= EarliestBlockNumber
      BY <1>1
    <3> HIDE DEF singles
    <3>4. IsFiniteSet(singles)
      BY <2>1, <3>2, FS_Subset
    <3> QED BY <2>1, <3>3, <3>4
  <2>3. Min(singles) \in singles
    <3> HIDE DEF singles
    <3> QED BY <1>3, <2>2, MinOfFinite
  <2>4. Min(singles) \in Nat /\ Min(singles) >= EarliestBlockNumber
    <3> HIDE DEF singles
    <3> QED BY <2>2, <2>3
  <2>5. TreeNodes(Listed, AnalyzeFrom, AnalyzeTo) =
          UNION {At(Listed, n) : n \in Min(singles)..(LatestBlockNumber - 2)}
    BY <1>3 DEF TreeNodes, AnalyzeTo
  <2>6. ASSUME NEW n \in Min(singles)..(LatestBlockNumber - 2), NEW h \in At(Listed, n)
        PROVE  h \in Hash /\ Number[h] >= EarliestBlockNumber
    <3>1. h \in Hash /\ Number[h] = n
      BY DEF At, Listed
    <3> HIDE DEF singles
    <3> QED BY <1>1, <2>4, <3>1
  <2> QED BY <2>5, <2>6
<1> QED BY <1>2, <1>3

\* The steps between AddBlock and the reports (monitor.go:82-96) keep the
\* inductive invariant: a finished reorg ends in the window.
LEMMA AnalysisKeeps ==
  ASSUME IInv, SkipAnalysis \/ AnalysisError \/ AnalyzeTree
  PROVE  IInv' /\ WindowUp
<1>1. TypeOK /\ Remembered /\ CacheType
  BY TypeOKParts DEF IInv
<1>2. /\ pc = "check" /\ block # Nil /\ block \in Block
      /\ UNCHANGED <<cache, KnownReorgs, block, reorg, NewBlockChan, calls, reported, lost>>
  BY <1>1, TypeOKParts DEF SkipAnalysis, AnalysisError, AnalyzeTree, loop
<1>3. CacheType' /\ WindowUp
  BY <1>2, CacheStays
<1>4. Number[block.hash] \in Height
  BY <1>2, HeightType
<1>5. lastBlockHeight' \in Height \cup {0} /\ pc' \in {"receive", "report"}
  BY <1>1, <1>4, TypeOKParts DEF SkipAnalysis, AnalysisError, AnalyzeTree, loop
<1>6. TypeOK'
  BY <1>1, <1>2, <1>3, <1>5, TypeOKParts DEF TypeOK, CacheType
<1>7. CASE SkipAnalysis \/ AnalysisError
  <2>1. reorgs = {} /\ reorgs' = {} /\ pc' = "receive"
    BY <1>1, <1>2, <1>7 DEF Remembered, SkipAnalysis, AnalysisError, loop
  <2>2. Remembered'
    BY <1>2, <1>3, <2>1, RememberedStable
  <2> QED BY <1>3, <1>6, <2>2 DEF IInv
<1>8. CASE AnalyzeTree
  <2>1. pc' = "report" /\ EarliestBlockNumber' = EarliestBlockNumber
    BY <1>2, <1>8 DEF AnalyzeTree, cache
  <2>2. ASSUME NEW r \in reorgs'
        PROVE  Id(r) \in IdType /\ (r.IsFinished => Id(r)[2] >= EarliestBlockNumber)
    <3>1. PICK nodes \in {TreeNodes(Listed, AnalyzeFrom, AnalyzeTo)} :
            \/ nodes = {} /\ reorgs' = {}
            \/ /\ nodes # {}
               /\ \E w \in Walks(nodes) :
                  \E found \in {FoundReorgs(Blocks, w)} : reorgs' \in ReorgMaps(found)
      BY <1>8 DEF AnalyzeTree
    <3>2. PICK w \in Walks(nodes) : reorgs' \in ReorgMaps(FoundReorgs(Blocks, w))
      BY <2>2, <3>1
    <3>3. r \in FoundReorgs(Blocks, w)
      BY <2>2, <3>2 DEF ReorgMaps
    <3>4. nodes \subseteq Hash /\ \A h \in nodes : Number[h] >= EarliestBlockNumber
      BY <3>1, TreeInWindow
    <3> QED BY <3>2, <3>3, <3>4, ReorgsAreOfTheTree
  <2>3. Remembered'
    BY <1>1, <1>2, <2>1, <2>2 DEF Remembered
  <2> QED BY <1>3, <1>6, <2>3 DEF IInv
<1> QED BY <1>7, <1>8

\* The steps of the loop over the reorgs (monitor.go:98-108) keep the inductive
\* invariant: an Id is remembered before its reorg is sent.
LEMMA ReportKeeps ==
  ASSUME IInv,
         \/ \E r \in reorgs : Uninteresting(r) \/ Remember(r)
         \/ Send \/ EndReport
  PROVE  IInv' /\ WindowUp
<1>1. TypeOK /\ Remembered /\ CacheType /\ KnownReorgs \subseteq IdType
  BY TypeOKParts DEF IInv
<1>2. /\ UNCHANGED <<cache, lastBlockHeight, block, NewBlockChan, calls, lost>>
      /\ pc \in {"report", "send"} /\ pc' \in {"report", "send", "receive"}
  BY DEF Uninteresting, Remember, Send, EndReport, loop
<1>3. CacheType' /\ WindowUp /\ EarliestBlockNumber' = EarliestBlockNumber
  BY <1>2, CacheStays DEF cache
<1>4. ASSUME KnownReorgs' \subseteq IdType PROVE TypeOK'
  BY <1>1, <1>2, <1>3, <1>4, TypeOKParts DEF TypeOK, CacheType
<1>5. CASE \E r \in reorgs : Uninteresting(r)
  <2>1. /\ reorgs' \subseteq reorgs /\ pc = "report" /\ pc' = "report"
        /\ UNCHANGED <<KnownReorgs, reported>>
    BY <1>5 DEF Uninteresting
  <2>2. Remembered'
    BY <1>1, <1>3, <2>1 DEF Remembered
  <2> QED BY <1>1, <1>3, <1>4, <2>1, <2>2 DEF IInv
<1>6. CASE \E r \in reorgs : Remember(r)
  <2>1. PICK r \in reorgs : Remember(r)
    BY <1>6
  <2>2. /\ KnownReorgs' = KnownReorgs \cup {Id(r)} /\ Id(r) \notin KnownReorgs
        /\ reorgs' \subseteq reorgs /\ reorg' = r /\ pc' = "send" /\ r.IsFinished
        /\ reported' = reported
    BY <2>1 DEF Remember
  <2>3. Id(r) \in IdType /\ Id(r)[2] >= EarliestBlockNumber
    BY <1>1, <2>2 DEF Remembered
  <2>4. ASSUME NEW s \in reported PROVE s.id # Id(r)
    BY <1>1, <2>2, <2>3 DEF Remembered
  <2>5. Remembered'
    BY <1>1, <1>3, <2>2, <2>3, <2>4 DEF Remembered
  <2> QED BY <1>1, <1>3, <1>4, <2>2, <2>3, <2>5 DEF IInv
<1>7. CASE Send
  <2>1. /\ pc = "send" /\ pc' = "report" /\ UNCHANGED <<KnownReorgs, reorgs>>
        /\ reported' = reported \cup {[id |-> Id(reorg), blocks |-> reorg.BlocksInvolved]}
    BY <1>7 DEF Send
  <2>2. Id(reorg) \in KnownReorgs
    BY <1>1, <2>1 DEF Remembered
  <2>3. Remembered'
    BY <1>1, <1>3, <2>1, <2>2 DEF Remembered
  <2> QED BY <1>1, <1>3, <1>4, <2>1, <2>3 DEF IInv
<1>8. CASE EndReport
  <2>1. /\ reorgs = {} /\ pc' = "receive" /\ UNCHANGED <<KnownReorgs, reorgs, reported>>
    BY <1>8 DEF EndReport, loop
  <2>2. Remembered'
    BY <1>3, <2>1, RememberedStable
  <2> QED BY <1>1, <1>3, <1>4, <2>1, <2>2 DEF IInv
<1> QED BY <1>5, <1>6, <1>7, <1>8

\* The connections (gethconnection.go:99) and the handler (main.go:183) keep the
\* inductive invariant.
LEMMA OutsideKeeps ==
  ASSUME IInv,
         \/ Handled \/ UNCHANGED vars
         \/ \E n \in NodeUri, h \in Hash : Announce(n, h)
  PROVE  IInv' /\ WindowUp
<1>1. TypeOK /\ Remembered /\ CacheType
  BY TypeOKParts DEF IInv
<1>2. UNCHANGED <<cache, loop, pc, calls, reported, lost>>
  BY DEF Handled, Announce, vars
<1>3. CacheType' /\ WindowUp
  BY <1>2, CacheStays
<1>4. NewBlockChan' \in Seq(Block) /\ Len(NewBlockChan') <= ChanCap
  <2>1. CASE Handled \/ UNCHANGED vars
    BY <1>1, <2>1, TypeOKParts DEF Handled, vars
  <2>2. CASE \E n \in NodeUri, h \in Hash : Announce(n, h)
    <3>1. PICK n \in NodeUri, h \in Hash : Announce(n, h)
      BY <2>2
    <3>2. NewBlock(h, "Subscription", n) \in Block
      BY DEF NewBlock
    <3> QED BY <1>1, <3>1, <3>2, TypeOKParts, ChannelType DEF Announce
  <2> QED BY <2>1, <2>2
<1>5. TypeOK'
  BY <1>1, <1>2, <1>3, <1>4, TypeOKParts DEF TypeOK, CacheType, loop
<1>6. Remembered'
  BY <1>1, <1>2 DEF Remembered, loop, cache
<1> QED BY <1>3, <1>5, <1>6 DEF IInv

\* Every step keeps the inductive invariant and moves no end of the window down.
LEMMA NextKeeps == IInv /\ [Next]_vars => IInv' /\ WindowUp
<1> SUFFICES ASSUME IInv, [Next]_vars PROVE IInv' /\ WindowUp
  OBVIOUS
<1>1. CASE Receive \/ Found \/ Download \/ DownloadFails
  BY <1>1, AddBlockKeeps
<1>2. CASE Return
  BY <1>2, ReturnKeeps
<1>3. CASE SkipAnalysis \/ AnalysisError \/ AnalyzeTree
  BY <1>3, AnalysisKeeps
<1>4. CASE \/ \E r \in reorgs : Uninteresting(r) \/ Remember(r)
           \/ Send \/ EndReport
  BY <1>4, ReportKeeps
<1>5. CASE \/ Handled \/ UNCHANGED vars
           \/ \E n \in NodeUri, h \in Hash : Announce(n, h)
  BY <1>5, OutsideKeeps
<1> QED BY <1>1, <1>2, <1>3, <1>4, <1>5 DEF Next, Monitor

-----------------------------------------------------------------------------
\* The inductive invariant holds in every reachable state.
THEOREM InvariantHolds == Spec => []IInv
<1>1. Init => IInv
  BY InitInv
<1>2. IInv /\ [Next]_vars => IInv'
  BY NextKeeps
<1> QED BY <1>1, <1>2, PTL DEF Spec

\* The state of the monitor stays well-formed: channel within its capacity,
\* a call of AddBlock exactly while a block is added (monitor.go:78-109).
THEOREM TypeCorrect == Spec => []TypeOK
<1>1. IInv => TypeOK
  BY DEF IInv
<1> QED BY <1>1, InvariantHolds, PTL

\* No Id is sent twice (monitor.go:104), whatever TrimCache forgets.
THEOREM SentOnce == Spec => ReportedOnce
<1>1. IInv /\ [Next]_vars =>
        [pc = "send" /\ pc' = "report" => \A r \in reported : r.id # Id(reorg)]_vars
  BY DEF IInv, Remembered
<1> QED BY <1>1, InvariantHolds, PTL DEF Spec, ReportedOnce

\* Neither end of the window ever moves down (monitor.go:143-150, 178).
THEOREM WindowNeverFalls == Spec => WindowMovesUp
<1>1. IInv /\ [Next]_vars => [/\ EarliestBlockNumber' >= EarliestBlockNumber
                              /\ LatestBlockNumber' >= LatestBlockNumber]_vars
  BY NextKeeps DEF WindowUp
<1> QED BY <1>1, InvariantHolds, PTL DEF Spec, WindowMovesUp
=============================================================================

---------------------------- MODULE ReportProofs ----------------------------
(***************************************************************************)
(* What the monitor sends, for every block chain and every bound: reorgs   *)
(* whose blocks are in the window, well below its latest height, and in    *)
(* the way that Reporter.tla promises.                                     *)
(***************************************************************************)
EXTENDS CacheProofs

USE DEF Origin, Block

\* What ReportsAreBuried says of a finished reorg.
Buried(r) ==
  r.IsFinished => /\ Number[r.FirstBlockAfterReorg] + 2 <= LatestBlockNumber
                  /\ r.BlocksInvolved \subseteq Cached
                  /\ r.EndBlockHeight \in EarliestBlockNumber..LatestBlockNumber

ReportInv ==
  /\ \A r \in reorgs : Buried(r)
  /\ pc = "send" => reorg.IsFinished /\ Buried(reorg)
  /\ handling \in IdType \cup {Nil}

-----------------------------------------------------------------------------
(* The reorgs of an analysis. *)

\* The blocks of the tree are cached, two heights below the latest at least.
LEMMA TreeIsBuried ==
  ASSUME IInv, CacheInv, NEW h \in TreeNodes(Listed, AnalyzeFrom, AnalyzeTo)
  PROVE  /\ h \in Cached
         /\ Number[h] \in EarliestBlockNumber..(LatestBlockNumber - 2)
<1>1. CacheType /\ MapsAgree
  BY TypeOKParts DEF IInv, CacheInv
<1>2. h \in Hash /\ Number[h] >= EarliestBlockNumber /\ Number[h] \in Height /\ Number[h] \in Nat
  BY TreeInWindow, HeightType
<1>3. PICK n \in Min(Singles(Listed, AnalyzeFrom, AnalyzeTo))..AnalyzeTo : h \in At(Listed, n)
  BY DEF TreeNodes
<1>4. Number[h] <= LatestBlockNumber - 2
  <2>1. Number[h] = n
    BY <1>3 DEF At
  <2> QED BY <1>2, <1>3, <2>1 DEF AnalyzeTo
<1>5. BlocksByHeight[Number[h]][h] # Nil
  BY <1>3 DEF At, Listed, Blocks
<1>6. h \in Cached
  BY <1>1, <1>2, <1>5 DEF MapsAgree, Cached
<1> QED BY <1>1, <1>2, <1>4, <1>6, WindowType

\* AnalyzeTree(0, 2) (monitor.go:92) finds reorgs that are buried.
LEMMA AnalyzeTreeBuries ==
  ASSUME IInv, CacheInv, AnalyzeTree, NEW r \in reorgs'
  PROVE  Buried(r)
<1>1. PICK nodes \in {TreeNodes(Listed, AnalyzeFrom, AnalyzeTo)} :
        \/ nodes = {} /\ reorgs' = {}
        \/ /\ nodes # {}
           /\ \E w \in Walks(nodes) :
              \E found \in {FoundReorgs(Blocks, w)} : reorgs' \in ReorgMaps(found)
  BY DEF AnalyzeTree
<1>2. PICK w \in Walks(nodes) : reorgs' \in ReorgMaps(FoundReorgs(Blocks, w))
  BY <1>1
<1>3. r \in FoundReorgs(Blocks, w)
  BY <1>2 DEF ReorgMaps
<1>4. /\ nodes \subseteq Hash
      /\ \A h \in nodes : /\ h \in Cached
                          /\ Number[h] \in EarliestBlockNumber..(LatestBlockNumber - 2)
  BY <1>1, TreeInWindow, TreeIsBuried
<1>5. /\ r.BlocksInvolved \subseteq nodes
      /\ r.IsFinished => /\ r.EndBlockHeight \in {Number[h] : h \in nodes}
                         /\ r.FirstBlockAfterReorg \in nodes
  BY <1>2, <1>3, <1>4, ReorgsAreOfTheTree
<1>6. EarliestBlockNumber \in Nat /\ LatestBlockNumber \in Nat
  BY WindowType, TypeOKParts DEF IInv
<1>7. ASSUME r.IsFinished
      PROVE  /\ Number[r.FirstBlockAfterReorg] + 2 <= LatestBlockNumber
             /\ r.EndBlockHeight \in EarliestBlockNumber..LatestBlockNumber
  BY <1>4, <1>5, <1>6, <1>7
<1> QED BY <1>4, <1>5, <1>7 DEF Buried

-----------------------------------------------------------------------------
LEMMA ReportInitInv == Init => ReportInv
BY DEF Init, ReportInv

\* What was buried stays so until it is sent: the cache does not change
\* between the analysis and the last report.
LEMMA ReportNextKeeps ==
  ASSUME IInv, CacheInv, ReportInv, [Next]_vars
  PROVE  ReportInv'
<1>1. ASSUME UNCHANGED <<cache, handling>>, reorgs' \subseteq reorgs,
             pc' = "send" => pc = "send" /\ reorg' = reorg
      PROVE  ReportInv'
  BY <1>1 DEF ReportInv, Buried, cache, Cached
<1>2. CASE Receive \/ Found \/ Download \/ DownloadFails \/ Return
  <2>1. reorgs = {} /\ reorgs' = reorgs /\ pc' # "send" /\ handling' = handling
    BY <1>2 DEF Receive, Found, Download, DownloadFails, Return, Checking, loop,
                IInv, Remembered
  <2> QED BY <2>1 DEF ReportInv
<1>3. CASE SkipAnalysis \/ AnalysisError \/ EndReport
  BY <1>1, <1>3 DEF SkipAnalysis, AnalysisError, EndReport, loop
<1>4. CASE AnalyzeTree
  <2>1. UNCHANGED <<cache, handling>> /\ pc' = "report"
    BY <1>4 DEF AnalyzeTree
  <2>2. ASSUME NEW r \in reorgs' PROVE Buried(r)'
    <3>1. Buried(r)
      BY <1>4, <2>2, AnalyzeTreeBuries
    <3> QED BY <2>1, <3>1 DEF Buried, cache, Cached
  <2> QED BY <2>1, <2>2 DEF ReportInv
<1>5. CASE \E r \in reorgs : Uninteresting(r)
  BY <1>1, <1>5 DEF Uninteresting
<1>6. ASSUME NEW r \in reorgs, Remember(r) PROVE ReportInv'
  <2>1. /\ UNCHANGED <<cache, handling>> /\ reorgs' \subseteq reorgs
        /\ reorg' = r /\ r.IsFinished
    BY <1>6 DEF Remember
  <2> QED BY <2>1 DEF ReportInv, Buried, cache, Cached
<1>7. CASE Send
  <2>1. /\ UNCHANGED <<cache, reorgs>> /\ pc = "send" /\ pc' = "report"
        /\ handling' = Id(reorg)
    BY <1>7 DEF Send
  <2>2. Id(reorg) \in IdType
    BY <2>1, TypeOKParts DEF IInv, Remembered
  <2> QED BY <2>1, <2>2 DEF ReportInv, Buried, cache, Cached
<1>8. CASE Handled
  <2>1. UNCHANGED <<cache, reorgs, reorg, pc>> /\ handling' = Nil
    BY <1>8 DEF Handled, loop
  <2> QED BY <2>1 DEF ReportInv, Buried, cache, Cached
<1>9. CASE UNCHANGED vars \/ \E n \in NodeUri, h \in Hash : Announce(n, h)
  BY <1>1, <1>9 DEF Announce, vars, loop
<1> QED BY <1>2, <1>3, <1>4, <1>5, <1>6, <1>7, <1>8, <1>9 DEF Next, Monitor

\* The reorgs that wait to be sent are buried in every reachable state.
THEOREM ReportInvHolds == Spec => []ReportInv
<1>1. Init => ReportInv
  BY ReportInitInv
<1>2. IInv /\ CacheInv /\ ReportInv /\ [Next]_vars => ReportInv'
  BY ReportNextKeeps
<1> QED BY <1>1, <1>2, InvariantHolds, CacheInOrder, PTL DEF Spec

\* The blocks of a reorg are all in the cache when it is sent, and the block
\* after it is two heights below the latest (monitor.go:92, 98-108).
THEOREM SentWhenBuried == Spec => []ReportsAreBuried
<1>1. ReportInv => ReportsAreBuried
  BY DEF ReportInv, Buried, ReportsAreBuried
<1> QED BY <1>1, ReportInvHolds, PTL

\* The Ids of the reported reorgs, after one more.
LEMMA OneIdMore ==
  ASSUME NEW S, NEW i, NEW b
  PROVE  {r.id : r \in S \cup {[id |-> i, blocks |-> b]}} = {r.id : r \in S} \cup {i}
<1> DEFINE new == [id |-> i, blocks |-> b]
<1>1. new.id = i
  OBVIOUS
<1> HIDE DEF new
<1>2. {r.id : r \in S \cup {new}} = {r.id : r \in S} \cup {i}
  BY <1>1
<1> QED BY <1>2 DEF new

\* One reorg is handed over at a time, and none twice under its Id: the monitor
\* implements what Reporter.tla promises its handler (monitor.go:98-108).
THEOREM ImplementsPromise == Spec => KeepsPromise
<1>1. Init => Promise!Init
  BY DEF Init, Promise!Init
<1>2. IInv /\ ReportInv /\ [Next]_vars => [Promise!Next]_(Promise!vars)
  <2> SUFFICES ASSUME IInv, ReportInv, [Next]_vars
               PROVE  Promise!Next \/ UNCHANGED Promise!vars
    OBVIOUS
  <2>1. CASE Send
    <3>1. /\ pc = "send" /\ handling = Nil /\ handling' = Id(reorg)
          /\ reported' = reported \cup {[id |-> Id(reorg), blocks |-> reorg.BlocksInvolved]}
      BY <2>1 DEF Send
    <3>2. Id(reorg) \in IdType /\ \A s \in reported : s.id # Id(reorg)
      BY <3>1, TypeOKParts DEF IInv, Remembered
    <3>3. {r.id : r \in reported}' = {r.id : r \in reported} \cup {Id(reorg)}
      BY <3>1, OneIdMore
    <3> QED BY <3>1, <3>2, <3>3 DEF Promise!Next, Promise!Report
  <2>2. CASE Handled
    <3>1. handling # Nil /\ handling' = Nil /\ reported' = reported
      BY <2>2 DEF Handled
    <3>2. {r.id : r \in reported}' = {r.id : r \in reported}
      BY <3>1
    <3> QED BY <3>1, <3>2 DEF Promise!Next, Promise!Finish
  <2>3. CASE ~ Send /\ ~ Handled
    <3>1. UNCHANGED <<handling, reported>>
      BY <2>3 DEF Next, Monitor, vars, Receive, Found, Download, DownloadFails, Return,
           SkipAnalysis, AnalysisError, AnalyzeTree, Uninteresting, Remember, EndReport, Announce
    <3> QED BY <3>1 DEF Promise!vars
  <2> QED BY <2>1, <2>2, <2>3
<1> QED BY <1>1, <1>2, InvariantHolds, ReportInvHolds, PTL
        DEF Spec, KeepsPromise, Promise!Spec
=============================================================================

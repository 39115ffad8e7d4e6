---------------------------- MODULE ReorgMonitor ----------------------------
(***************************************************************************)
(* The monitor goroutine (monitor.go): it takes blocks off NewBlockChan,   *)
(* keeps the blocks of a window of heights, downloads what they refer to,  *)
(* analyses the window at each new height and hands every new finished     *)
(* reorg to the handler (the loop of cmd/reorg-monitor/main.go).           *)
(*                                                                         *)
(* The connections only matter here for what they put on NewBlockChan and  *)
(* for the answers to downloads; GethConnection.tla models them.           *)
(***************************************************************************)
EXTENDS Analysis

CONSTANTS MaxBlocksInCache,  \* maxBlocksInCache
          ChanCap,           \* the capacity of NewBlockChan
          Heads,             \* Heads[n]: the blocks node n announces as new heads
          MaxLost            \* bound on the number of blocks whose download fails

ASSUME ReorgMonitorAssumption ==
  /\ MaxBlocksInCache \in Nat /\ ChanCap \in Nat \ {0} /\ MaxLost \in Nat
  /\ Heads \in [NodeUri -> SUBSET Hash]

VARIABLES
  BlockByHash,           \* [Hash -> Block or Nil]
  BlocksByHeight,        \* [Height -> [Hash -> Block or Nil]]
  EarliestBlockNumber, LatestBlockNumber,
  KnownReorgs,           \* the Ids; the end of a reorg is part of its Id
  lastBlockHeight,
  NewBlockChan,          \* a queue of Blocks
  pc,                    \* where SubscribeAndListen is
  block,                 \* the block it is processing
  calls,                 \* the running calls of AddBlock, the innermost last
  reorgs,                \* the reorgs of the analysis not yet looked at
  reorg,                 \* the reorg being sent
  handling,              \* the Id of the reorg the handler works on, or Nil
  reported, lost         \* history: reorgs sent, blocks a download failed for

cache   == <<BlockByHash, BlocksByHeight, EarliestBlockNumber, LatestBlockNumber>>
loop    == <<KnownReorgs, lastBlockHeight, block, reorgs, reorg>>
vars    == <<cache, loop, NewBlockChan, pc, calls, handling, reported, lost>>

Cached  == {h \in Hash : BlockByHash[h] # Nil}

\* A height is a key of BlocksByHeight from its first block to its last.
Heights == {n \in Height : \E h \in Hash : BlocksByHeight[n][h] # Nil}

Init ==
  /\ BlockByHash = [h \in Hash |-> Nil]
  /\ BlocksByHeight = [n \in Height |-> [h \in Hash |-> Nil]]
  /\ EarliestBlockNumber = 0 /\ LatestBlockNumber = 0
  /\ KnownReorgs = {} /\ lastBlockHeight = 0
  /\ NewBlockChan = <<>> /\ pc = "receive" /\ block = Nil
  /\ calls = <<>> /\ reorgs = {} /\ reorg = Nil /\ handling = Nil
  /\ reported = {} /\ lost = {}

-----------------------------------------------------------------------------
(* AddBlock.  A call is a record of its block and of the references that    *)
(* CheckBlockForReferences has still to see: parent first, then uncles.     *)

ReferenceType == [hash : Hash \cup {Nil}, origin : Origin]
CallType      == [block : Block, refs : Seq(ReferenceType)]

Reference(h, origin) == [hash |-> h, origin |-> origin]

\* Fault: the parent is not looked for.
OnlyUncles(h) == [i \in DOMAIN Uncles[h] |-> Reference(Uncles[h][i], "Uncle")]

References(h) ==
  <<Reference(ParentHash[h], "GetParent")>> \o
    [i \in DOMAIN Uncles[h] |-> Reference(Uncles[h][i], "Uncle")]

Call(b, refs) == [block |-> b, refs |-> refs]

\* Fault: the window is checked against its other end.
AcceptsNewest(b) == BlockByHash[b.hash] = Nil /\ Number[b.hash] >= LatestBlockNumber

\* A known block is only replaced if it was known as an uncle; blocks below
\* the window are ignored.
Accepts(b) ==
  /\ BlockByHash[b.hash] # Nil => BlockByHash[b.hash].origin = "Uncle"
  /\ Number[b.hash] >= EarliestBlockNumber

\* Fault: the last block is taken for the latest.
LastNumber(n) == n

LatestNumber(n) == IF n > LatestBlockNumber THEN n ELSE LatestBlockNumber

\* AddBlock up to its first reference; callers are the calls below it.
AddBlock(b, callers) ==
  \/ /\ ~ Accepts(b)
     /\ calls' = Append(callers, Call(b, <<>>))
     /\ UNCHANGED cache
  \/ LET n == Number[b.hash]
     IN /\ Accepts(b)
        /\ BlockByHash' = [BlockByHash EXCEPT ![b.hash] = b]
        /\ BlocksByHeight' = [BlocksByHeight EXCEPT ![n][b.hash] = b]
        /\ EarliestBlockNumber' = IF EarliestBlockNumber = 0 THEN n ELSE EarliestBlockNumber
        /\ LatestBlockNumber' = LatestNumber(n)
        /\ calls' = Append(callers,
             Call(b, IF n > EarliestBlockNumber' THEN References(b.hash) ELSE <<>>))

\* TrimCache.  The loop visits these heights upwards, and stops at the first
\* that leaves no more than MaxBlocksInCache blocks when those below are gone.
Visited == {n \in Heights : EarliestBlockNumber <= n /\ n < LatestBlockNumber}

\* Fault: one block too many is kept.
FittingAndOne(visited) ==
  {n \in visited :
     Cardinality({h \in Cached : Number[h] \in visited => n <= Number[h]})
       <= MaxBlocksInCache + 1}

Fitting(visited) ==
  {n \in visited :
     Cardinality({h \in Cached : Number[h] \in visited => n <= Number[h]})
       <= MaxBlocksInCache}

\* Fault: reorgs are forgotten by the wrong end of the window.
KnownAboveLatest == {id \in KnownReorgs : id[2] >= LatestBlockNumber}

StillKnown == {id \in KnownReorgs : id[2] >= EarliestBlockNumber}

\* Fault: only the map of the heights is trimmed.
EveryHash(trimmed) == BlockByHash

HashesKept(trimmed) ==
  [h \in Hash |-> IF Number[h] \in trimmed /\ BlocksByHeight[Number[h]][h] # Nil
                  THEN Nil ELSE BlockByHash[h]]

TrimCache ==
  LET visited == Visited
      fitting == Fitting(visited)
      trimmed == {n \in visited : \A m \in fitting : n < m}
  IN /\ KnownReorgs' = StillKnown
     /\ EarliestBlockNumber' = CASE fitting # {} -> Min(fitting)
                                 [] fitting = {} /\ visited # {} -> Max(visited)
                                 [] visited = {} -> EarliestBlockNumber
     /\ BlocksByHeight' = [n \in Height |-> IF n \in trimmed THEN [h \in Hash |-> Nil]
                                            ELSE BlocksByHeight[n]]
     /\ BlockByHash' = HashesKept(trimmed)
     /\ UNCHANGED LatestBlockNumber

\* The loop of TrimCache up to a height, step by step: whether it has returned,
\* EarliestBlockNumber, and the blocks it has deleted.
TrimLoop ==
  LET upTo[n \in EarliestBlockNumber..LatestBlockNumber] ==
        IF n = EarliestBlockNumber
        THEN [returned |-> FALSE, earliest |-> n, deleted |-> {}]
        ELSE LET s == upTo[n - 1]
             IN CASE s.returned \/ n - 1 \notin Heights -> s
                  [] OTHER ->
                       IF Cardinality(Cached \ s.deleted) <= MaxBlocksInCache
                       THEN [s EXCEPT !.returned = TRUE, !.earliest = n - 1]
                       ELSE [s EXCEPT !.earliest = n - 1,
                               !.deleted = @ \cup {h \in Hash : BlocksByHeight[n - 1][h] # Nil}]
  IN upTo[LatestBlockNumber]

-----------------------------------------------------------------------------
(* The connections: a node announces a head, the block was fetched from it. *)

\* Fault: one block more than the channel holds.
AnnounceToFull(n, h) ==
  /\ h \in Heads[n] /\ Len(NewBlockChan) <= ChanCap
  /\ NewBlockChan' = Append(NewBlockChan, NewBlock(h, "Subscription", n))
  /\ UNCHANGED <<cache, loop, pc, calls, handling, reported, lost>>

Announce(n, h) ==
  /\ h \in Heads[n] /\ Len(NewBlockChan) < ChanCap
  /\ NewBlockChan' = Append(NewBlockChan, NewBlock(h, "Subscription", n))
  /\ UNCHANGED <<cache, loop, pc, calls, handling, reported, lost>>

(* The monitor. *)

Receive ==
  /\ pc = "receive" /\ NewBlockChan # <<>> /\ pc' = "add"
  /\ block' = Head(NewBlockChan) /\ NewBlockChan' = Tail(NewBlockChan)
  /\ AddBlock(Head(NewBlockChan), <<>>)
  /\ UNCHANGED <<KnownReorgs, lastBlockHeight, reorgs, reorg, handling, reported, lost>>

Innermost == calls[Len(calls)]
Callers   == SubSeq(calls, 1, Len(calls) - 1)
Checking  == pc = "add" /\ Innermost.refs # <<>>
Referred  == Head(Innermost.refs)

\* Fault: the reference that was found is looked for again.
ResumedAtReference == Append(Callers, Innermost)

\* The innermost call goes on with its other references.
Resumed == Append(Callers, Call(Innermost.block, Tail(Innermost.refs)))

\* EnsureBlock for a block that is there.
Found ==
  /\ Checking /\ Referred.hash \in Cached
  /\ calls' = Resumed
  /\ UNCHANGED <<cache, loop, NewBlockChan, pc, handling, reported, lost>>

\* EnsureBlock, with an answer from the node that had the referring block.
Download ==
  /\ Checking /\ Referred.hash \in Hash \ Cached
  /\ AddBlock(NewBlock(Referred.hash, Referred.origin, Innermost.block.node), Resumed)
  /\ UNCHANGED <<loop, NewBlockChan, pc, handling, reported, lost>>

\* EnsureBlock with an error: CheckBlockForReferences returns at once.
DownloadFails ==
  /\ Checking /\ Referred.hash \in Hash \ Cached
  /\ lost' = lost \cup {Referred.hash} /\ Cardinality(lost') <= MaxLost
  /\ calls' = Append(Callers, Call(Innermost.block, <<>>))
  /\ UNCHANGED <<cache, loop, NewBlockChan, pc, handling, reported>>

\* The deferred TrimCache, and AddBlock returns.
Return ==
  /\ pc = "add" /\ Innermost.refs = <<>>
  /\ TrimCache
  /\ calls' = Callers
  /\ pc' = IF Callers = <<>> THEN "check" ELSE "add"
  /\ UNCHANGED <<lastBlockHeight, block, reorgs, reorg,
                 NewBlockChan, handling, reported, lost>>

NewHeight == Number[block.hash] # lastBlockHeight /\ Cardinality(Heights) >= 3

SkipAnalysis ==
  /\ pc = "check" /\ ~ NewHeight /\ pc' = "receive"
  /\ UNCHANGED <<cache, loop, NewBlockChan, calls, handling, reported, lost>>

\* AnalyzeTree(0, 2) works on the blocks of BlocksByHeight.
Blocks == [h \in Hash |-> BlocksByHeight[Number[h]][h]]
Listed == {h \in Hash : Blocks[h] # Nil}

\* Fault: the latest heights are analysed as well.
AnalyzeAll == LatestBlockNumber

AnalyzeFrom == EarliestBlockNumber
AnalyzeTo   == LatestBlockNumber - 2

AnalysisError ==
  /\ pc = "check" /\ NewHeight /\ pc' = "receive"
  /\ AnalysisFails(Listed, AnalyzeFrom, AnalyzeTo)
  /\ lastBlockHeight' = Number[block.hash]
  /\ UNCHANGED <<cache, KnownReorgs, block, reorgs, reorg,
                 NewBlockChan, calls, handling, reported, lost>>

AnalyzeTree ==
  /\ pc = "check" /\ NewHeight /\ pc' = "report"
  /\ ~ AnalysisFails(Listed, AnalyzeFrom, AnalyzeTo)
  /\ lastBlockHeight' = Number[block.hash]
  /\ \E nodes \in {TreeNodes(Listed, AnalyzeFrom, AnalyzeTo)} :
       \/ nodes = {} /\ reorgs' = {}
       \/ /\ nodes # {}
          /\ \E w \in Walks(nodes) :
             \E found \in {FoundReorgs(Blocks, w)} : reorgs' \in ReorgMaps(found)
  /\ UNCHANGED <<cache, KnownReorgs, block, reorg,
                 NewBlockChan, calls, handling, reported, lost>>

\* The reorgs are looked at in any order.
Uninteresting(r) ==
  /\ pc = "report" /\ r \in reorgs
  /\ ~ r.IsFinished \/ Id(r) \in KnownReorgs
  /\ reorgs' = reorgs \ {r}
  /\ UNCHANGED <<cache, KnownReorgs, lastBlockHeight, block, reorg,
                 NewBlockChan, pc, calls, handling, reported, lost>>

Remember(r) ==
  /\ pc = "report" /\ r \in reorgs
  /\ r.IsFinished /\ Id(r) \notin KnownReorgs
  /\ KnownReorgs' = KnownReorgs \cup {Id(r)}
  /\ reorgs' = reorgs \ {r} /\ reorg' = r /\ pc' = "send"
  /\ UNCHANGED <<cache, lastBlockHeight, block, NewBlockChan, calls, handling, reported, lost>>

\* NewReorgChan has no buffer: the handler must be ready to take the reorg.
Send ==
  /\ pc = "send" /\ handling = Nil /\ pc' = "report"
  /\ handling' = Id(reorg) /\ reorg' = Nil
  /\ reported' = reported \cup {[id |-> Id(reorg), blocks |-> reorg.BlocksInvolved]}
  /\ UNCHANGED <<cache, KnownReorgs, lastBlockHeight, block, reorgs,
                 NewBlockChan, calls, lost>>

EndReport ==
  /\ pc = "report" /\ reorgs = {} /\ pc' = "receive"
  /\ UNCHANGED <<cache, loop, NewBlockChan, calls, handling, reported, lost>>

\* handleReorg returns, and the handler waits for the next reorg.
Handled ==
  /\ handling # Nil /\ handling' = Nil
  /\ UNCHANGED <<cache, loop, NewBlockChan, pc, calls, reported, lost>>

-----------------------------------------------------------------------------
Monitor ==
  \/ Receive \/ Found \/ Download \/ DownloadFails \/ Return
  \/ SkipAnalysis \/ AnalysisError \/ AnalyzeTree \/ Send \/ EndReport
  \/ \E r \in reorgs : Uninteresting(r) \/ Remember(r)

Next == Monitor \/ Handled \/ \E n \in NodeUri, h \in Hash : Announce(n, h)

Spec == Init /\ [][Next]_vars

\* The scheduler runs both goroutines, and every download gets an answer (the
\* client is called without a timeout: a node that never answers stops the
\* monitor for good).  Nodes need not announce anything.
FairSpec == Spec /\ WF_vars(Monitor) /\ WF_vars(Handled)

\* What the main program sees of the monitor.
Promise == INSTANCE Reporter WITH Ids <- IdType, sent <- {r.id : r \in reported}

-----------------------------------------------------------------------------
(* Properties. *)

TypeOK ==
  /\ BlockByHash \in [Hash -> Block \cup {Nil}]
  /\ BlocksByHeight \in [Height -> [Hash -> Block \cup {Nil}]]
  /\ EarliestBlockNumber \in Height \cup {0} /\ LatestBlockNumber \in Height \cup {0}
  /\ KnownReorgs \subseteq IdType
  /\ lastBlockHeight \in Height \cup {0}
  /\ NewBlockChan \in Seq(Block) /\ Len(NewBlockChan) <= ChanCap
  /\ pc \in {"receive", "add", "check", "report", "send"}
  /\ block \in Block \cup {Nil} /\ (pc # "receive" => block # Nil)
  /\ calls \in Seq(CallType)
  /\ calls # <<>> <=> pc = "add"
  /\ lost \subseteq Hash

\* The two maps of the cache (monitor.go:132-140, 186-190) hold the same
\* blocks, at every step and in every nested call of AddBlock and TrimCache.
MapsAgree ==
  \A n \in Height, h \in Hash :
    BlocksByHeight[n][h] = IF Number[h] = n THEN BlockByHash[h] ELSE Nil

\* The cached blocks lie between EarliestBlockNumber and LatestBlockNumber,
\* and a block of the latest height is cached (monitor.go:143-150, 171-191):
\* with three heights, the window of AnalyzeTree(0, 2) is not empty and its
\* subtraction does not wrap around.
WindowHoldsCache ==
  /\ \A h \in Cached : Number[h] \in EarliestBlockNumber..LatestBlockNumber
  /\ Cached # {} => LatestBlockNumber \in Heights
  /\ Cardinality(Heights) >= 3 => LatestBlockNumber - 2 >= EarliestBlockNumber

\* TrimCache (monitor.go:171-191): whenever the monitor waits for a block the
\* cache is within its bound, or holds one height only, the latest.
CacheIsTrimmed ==
  pc = "receive" =>
    Cardinality(Cached) <= MaxBlocksInCache \/ Heights = {LatestBlockNumber}

\* The closed form of TrimCache, which the proofs use, deletes the blocks and
\* leaves the EarliestBlockNumber of the loop (monitor.go:171-191), for every
\* cache in which a call of AddBlock returns.
TrimIsTheLoop ==
  [][Return => /\ Cached' = Cached \ TrimLoop.deleted
               /\ EarliestBlockNumber' = TrimLoop.earliest]_vars

\* Parents that a running call of AddBlock has still to look for.
Due == {Head(calls[i].refs).hash : i \in {i \in DOMAIN calls :
          calls[i].refs # <<>> /\ Head(calls[i].refs).origin = "GetParent"}}

\* AddBlock "downloads unknown referenced blocks" (monitor.go:112): a block
\* above the earliest height has its parent in the cache, unless a download of
\* the parent failed or is yet to come.  Nothing that is trimmed, replaced or
\* ignored on the way makes a hole.
HolesAreFailures ==
  \A h \in Cached :
    Number[h] > EarliestBlockNumber => ParentHash[h] \in Cached \cup lost \cup Due

\* A reorg is sent when the block after it is two heights below the latest
\* (AnalyzeTree(0, 2), monitor.go:92), and all its blocks are in the window.
ReportsAreBuried ==
  pc = "send" =>
    /\ Number[reorg.FirstBlockAfterReorg] + 2 <= LatestBlockNumber
    /\ reorg.BlocksInvolved \subseteq Cached
    /\ reorg.EndBlockHeight \in EarliestBlockNumber..LatestBlockNumber

\* The analysis fails (monitor.go:93) only after a download has failed.
ErrorsAreFailures == [][AnalysisError => lost # {}]_vars

\* KnownReorgs (monitor.go:104): no reorg is sent under an Id that was sent
\* before, though TrimCache forgets the Ids that end below the window.
ReportedOnce ==
  [][pc = "send" /\ pc' = "report" => \A r \in reported : r.id # Id(reorg)]_vars

\* The ends of the window (monitor.go:143-150, 171-191) only move up: a block
\* that was trimmed or ignored stays below the window for good.
WindowMovesUp ==
  [][/\ EarliestBlockNumber' >= EarliestBlockNumber
     /\ LatestBlockNumber' >= LatestBlockNumber]_vars

\* The main program (main.go:165-185) gets what it relies on: one reorg at a
\* time, none before it is done with the last one, none twice under its Id.
KeepsPromise == Promise!Spec

\* Every announced block is taken off the channel and ends up in the cache, or
\* is below the window (monitor.go:78).
EveryBlockIsTaken ==
  \A h \in Hash :
    (\E i \in DOMAIN NewBlockChan : NewBlockChan[i].hash = h)
      ~> (h \in Cached \/ Number[h] < EarliestBlockNumber)

\* The monitor always gets back to its channel.
MonitorReturns == []<>(pc = "receive")

\* monitor.go:103: "Send new finished reorgs to channel".  A block that came
\* as an uncle and is announced later counts as seen live, which is part of
\* the Id: the same blocks are sent a second time.
ReorgIsNewWhenSent ==
  [][pc = "send" /\ pc' = "report" =>
       \A r \in reported : r.blocks # reorg.BlocksInvolved]_vars
=============================================================================

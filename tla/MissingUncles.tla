--------------------------- MODULE MissingUncles ---------------------------
(***************************************************************************)
(* The goroutines of add-missing-uncles: GetBlocks, which feeds heights to *)
(* a pool of workers; the workers, which download the blocks; the processor*)
(* that calls addUncle for the uncles of each block; and the main goroutine*)
(* that waits for it by a lock.  ReorgStore.tla has what addUncle does to  *)
(* the database.  The block of a height is that height.                    *)
(***************************************************************************)
EXTENDS Integers, Sequences, FiniteSets

CONSTANTS startBlock, endBlock,
          Worker,     \* the goroutines of the pool
          HeightCap,  \* the capacity of blockHeightChan
          BlockCap,   \* the capacity of blockChan
          NumUncles,  \* NumUncles[n]: how many uncles block n has
          NoBlock

Height == startBlock..endBlock

ASSUME MissingUnclesAssumption ==
  /\ startBlock \in Int \ {0} /\ endBlock \in Int \ {0} /\ NoBlock \notin Int
  /\ IsFiniteSet(Worker) /\ Worker # {}
  /\ HeightCap \in Nat \ {0} /\ BlockCap \in Nat \ {0}
  /\ NumUncles \in [Height -> Nat]

VARIABLES
  main,             \* where the main goroutine is
  currentBlockNumber,
  blockHeightChan, heightsClosed,
  worker,           \* [Worker -> where it is]
  held,             \* [Worker -> the height it has, or NoBlock]
  blockChan, blocksClosed,
  processor,        \* where the processor is
  block,            \* the block it has, or NoBlock
  unclesLeft,       \* how many uncles of it are to come
  analyzeLock,      \* who holds it, or "nobody"
  processed, lost   \* history: blocks that were processed, or not downloaded

getBlocks == <<currentBlockNumber, blockHeightChan, heightsClosed>>
pool      == <<worker, held, lost>>
blocks    == <<blockChan, blocksClosed>>
analysis  == <<processor, block, unclesLeft, processed>>
vars      == <<main, getBlocks, pool, blocks, analysis, analyzeLock>>

Init ==
  /\ main = "push" /\ currentBlockNumber = startBlock
  /\ blockHeightChan = <<>> /\ heightsClosed = FALSE
  /\ worker = [w \in Worker |-> "receive"] /\ held = [w \in Worker |-> NoBlock]
  /\ blockChan = <<>> /\ blocksClosed = FALSE
  /\ processor = "start" /\ block = NoBlock /\ unclesLeft = 0
  /\ analyzeLock = "nobody" /\ processed = {} /\ lost = {}

\* When the main goroutine returns or one panics, the program ends.
Running == main \notin {"exit", "panic"}

-----------------------------------------------------------------------------
(* GetBlocks, in the main goroutine. *)

\* Fault: the end is taken for one height late.
OneHeightMore == currentBlockNumber <= endBlock + 1

HeightsLeft == currentBlockNumber <= endBlock

Push ==
  /\ main = "push" /\ HeightsLeft
  /\ Len(blockHeightChan) < HeightCap
  /\ blockHeightChan' = Append(blockHeightChan, currentBlockNumber)
  /\ currentBlockNumber' = currentBlockNumber + 1
  /\ UNCHANGED <<main, heightsClosed, pool, blocks, analysis, analyzeLock>>

CloseHeights ==
  /\ main = "push" /\ ~ HeightsLeft /\ main' = "wait"
  /\ heightsClosed' = TRUE
  /\ UNCHANGED <<currentBlockNumber, blockHeightChan, pool, blocks, analysis, analyzeLock>>

\* Fault: the main goroutine does not wait for the last blocks.
NoHeightsLeft == blockHeightChan = <<>>

\* The WaitGroup counts the workers, from before they start to their return.
PoolIsDone == \A w \in Worker : worker[w] = "done"

Wait ==
  /\ main = "wait" /\ PoolIsDone /\ main' = "close"
  /\ UNCHANGED <<getBlocks, pool, blocks, analysis, analyzeLock>>

(* The workers. *)

Receive(w) ==
  /\ Running /\ worker[w] = "receive" /\ blockHeightChan # <<>>
  /\ worker' = [worker EXCEPT ![w] = "download"]
  /\ held' = [held EXCEPT ![w] = Head(blockHeightChan)]
  /\ blockHeightChan' = Tail(blockHeightChan)
  /\ UNCHANGED <<main, currentBlockNumber, heightsClosed, lost, blocks, analysis, analyzeLock>>

Download(w) ==
  /\ Running /\ worker[w] = "download" /\ worker' = [worker EXCEPT ![w] = "send"]
  /\ UNCHANGED <<main, getBlocks, held, lost, blocks, analysis, analyzeLock>>

\* Fault: a worker stops at an error.
AfterFailure == "done"

\* A worker logs an error and goes on to the next height.
AfterError == "receive"

DownloadFails(w) ==
  /\ Running /\ worker[w] = "download" /\ worker' = [worker EXCEPT ![w] = AfterError]
  /\ held' = [held EXCEPT ![w] = NoBlock] /\ lost' = lost \cup {held[w]}
  /\ UNCHANGED <<main, getBlocks, blocks, analysis, analyzeLock>>

\* Fault: a block is dropped if the channel is full.
SendOrDrop(n) ==
  blockChan' = IF Len(blockChan) < BlockCap THEN Append(blockChan, n) ELSE blockChan

SendBlock(n) == Len(blockChan) < BlockCap /\ blockChan' = Append(blockChan, n)

Send(w) ==
  /\ Running /\ worker[w] = "send" /\ SendBlock(held[w])
  /\ worker' = [worker EXCEPT ![w] = "receive"] /\ held' = [held EXCEPT ![w] = NoBlock]
  /\ UNCHANGED <<main, getBlocks, lost, blocksClosed, analysis, analyzeLock>>

Done(w) ==
  /\ Running /\ worker[w] = "receive" /\ blockHeightChan = <<>> /\ heightsClosed
  /\ worker' = [worker EXCEPT ![w] = "done"]
  /\ UNCHANGED <<main, getBlocks, held, lost, blocks, analysis, analyzeLock>>

-----------------------------------------------------------------------------
(* The processor. *)

TakeLock == analyzeLock = "nobody" /\ analyzeLock' = "processor"

Lock ==
  /\ Running /\ processor = "start" /\ TakeLock /\ processor' = "receive"
  /\ UNCHANGED <<main, getBlocks, pool, blocks, block, unclesLeft, processed>>

TakeBlock ==
  /\ Running /\ processor = "receive" /\ blockChan # <<>> /\ processor' = "uncles"
  /\ block' = Head(blockChan) /\ unclesLeft' = NumUncles[Head(blockChan)]
  /\ blockChan' = Tail(blockChan)
  /\ UNCHANGED <<main, getBlocks, pool, blocksClosed, processed, analyzeLock>>

\* An uncle could not be downloaded, or addUncle returned.
NextUncle ==
  /\ Running /\ processor = "uncles" /\ unclesLeft > 0
  /\ unclesLeft' = unclesLeft - 1
  /\ UNCHANGED <<main, getBlocks, pool, blocks, processor, block, processed, analyzeLock>>

\* addUncle panics if it cannot download the block above the uncle.
Panic ==
  /\ Running /\ processor = "uncles" /\ unclesLeft > 0 /\ main' = "panic"
  /\ UNCHANGED <<getBlocks, pool, blocks, analysis, analyzeLock>>

BlockIsDone ==
  /\ Running /\ processor = "uncles" /\ unclesLeft = 0 /\ processor' = "receive"
  /\ processed' = processed \cup {block} /\ block' = NoBlock
  /\ UNCHANGED <<main, getBlocks, pool, blocks, unclesLeft, analyzeLock>>

\* The deferred Unlock.
Unlock ==
  /\ Running /\ processor = "receive" /\ blockChan = <<>> /\ blocksClosed
  /\ processor' = "done" /\ analyzeLock' = "nobody"
  /\ UNCHANGED <<main, getBlocks, pool, blocks, block, unclesLeft, processed>>

(* The end of the main goroutine. *)

CloseBlocks ==
  /\ main = "close" /\ main' = "lock" /\ blocksClosed' = TRUE
  /\ UNCHANGED <<getBlocks, pool, blockChan, analysis, analyzeLock>>

Exit ==
  /\ main = "lock" /\ analyzeLock = "nobody"
  /\ analyzeLock' = "main" /\ main' = "exit"
  /\ UNCHANGED <<getBlocks, pool, blocks, analysis>>

-----------------------------------------------------------------------------
Main      == Push \/ CloseHeights \/ Wait \/ CloseBlocks \/ Exit
Work(w)   == Receive(w) \/ Download(w) \/ DownloadFails(w) \/ Send(w) \/ Done(w)
Processor == Lock \/ TakeBlock \/ NextUncle \/ Panic \/ BlockIsDone \/ Unlock

Next == Main \/ Processor \/ \E w \in Worker : Work(w)

Spec == Init /\ [][Next]_vars

\* The goroutines are scheduled, calls are answered, and Go serves the senders
\* and receivers of a channel in order, so that none of them waits for ever.
FairSpec ==
  /\ Spec /\ WF_vars(Main) /\ WF_vars(Processor)
  /\ \A w \in Worker : WF_vars(Work(w)) /\ SF_vars(Send(w))

-----------------------------------------------------------------------------
(* Properties. *)

TypeOK ==
  /\ main \in {"push", "wait", "close", "lock", "exit", "panic"}
  /\ currentBlockNumber \in Int
  /\ blockHeightChan \in Seq(Height) /\ Len(blockHeightChan) <= HeightCap
  /\ heightsClosed \in BOOLEAN /\ blocksClosed \in BOOLEAN
  /\ worker \in [Worker -> {"receive", "download", "send", "done"}]
  /\ held \in [Worker -> Height \cup {NoBlock}]
  /\ blockChan \in Seq(Height) /\ Len(blockChan) <= BlockCap
  /\ processor \in {"start", "receive", "uncles", "done"}
  /\ block \in Height \cup {NoBlock} /\ unclesLeft \in Nat
  /\ analyzeLock \in {"nobody", "main", "processor"}
  /\ processed \subseteq Height /\ lost \subseteq Height

\* GetBlocks returns, and blockChan is closed (main.go:101-104), only when no
\* worker will send any more: a send on a closed channel ends the program.
NoSendOnClosed == blocksClosed => \A w \in Worker : worker[w] # "send"

\* The pool and the processor (main.go:83, reorgutils.go:63-94): a processor
\* that has seen the channel closed has processed every height of the range,
\* but for the blocks that could not be downloaded.
EveryBlockIsProcessed == processor = "done" => processed \cup lost = Height

\* The utility ends: neither the pool with its two channels nor the lock can
\* keep the goroutines waiting for each other, whatever fails.
UtilityEnds == <>(~ Running)

-----------------------------------------------------------------------------
(* What a comment says of the program, and the code does not do. *)

\* main.go:103: "Wait until all blocks have been processed".  The main goroutine
\* takes the lock for this (main.go:105), which the processor only holds once
\* its goroutine has come to main.go:80.
ExitWaits == main = "exit" => processed \cup lost = Height
=============================================================================

# A verification of the reorg monitor

TLA+ models of `flashbots/reorg-monitor`, the configurations that check them
with TLC, and theorems about them checked by TLAPS. Paths below are relative to
`src/`.

## 1. Inventory

The program watches the heads that several geth nodes announce, keeps the blocks
of the last heights in a cache, reports every fork of the chain that is over (a
finished *reorg*), and stores it in a database. Two utilities work on the same
database.

| part | source | state | operations |
|---|---|---|---|
| connection, one goroutine per node | `monitor/gethconnection.go` | RPC client, subscription, `IsConnected`, `IsSubscribed`, `NextRetryTimeoutSec` | `Connect`, `Subscribe`, `ResubscribeAfterTimeout` |
| monitor, one goroutine | `monitor/monitor.go` | `BlockByHash`, `BlocksByHeight`, `EarliestBlockNumber`, `LatestBlockNumber`, `KnownReorgs` | `SubscribeAndListen`, `AddBlock`, `TrimCache`, `CheckBlockForReferences`, `EnsureBlock`, `AnalyzeTree` |
| block tree and analysis | `analysis/*.go` | one tree per call of `AnalyzeTree` | `BlockTree.AddBlock`, `NewTreeAnalysis`, `NewReorg`, `Reorg.Id` |
| main program and handler | `cmd/reorg-monitor/main.go` | the reorg being handled | `RunE`, `handleReorg` |
| status page | `monitor/webserver.go` | none | `HandleStatusRequest` reads monitor and connections |
| database | `database/*.go` | two tables, `reorg_summary` and `reorg_block` | `AddReorgEntry`, `AddBlockEntry`, `BlockEntry`, the `UPDATE`s of the utilities, deletion |
| add-missing-uncles | `cmd/db-utils/add-missing-uncles`, `reorgutils` | two channels, a lock | `GetBlocks` and its workers, the processor, `addUncle` |
| simulate-missing | `cmd/db-utils/simulate-missing` | the rows it has read | one loop |

How the parts interact:

- each connection sends blocks to the monitor over `NewBlockChan`, a channel of
  100 blocks that all connections share; a full channel blocks the connection;
- while it adds a block, the monitor downloads the parents and uncles it does
  not know, recursively, with the client of the connection the block came from
  (shared state, without a lock);
- the monitor sends reorgs to the main goroutine over `NewReorgChan`, which has
  no buffer: the monitor waits while `handleReorg` simulates and stores one;
- the handler and the two utilities, in processes of their own, write the same
  tables, each in several statements and without transactions;
- the status page reads the monitor and the connections without a lock.

What is hard, and what makes each part correct:

- *Monitor.* Blocks come in any order, from several nodes, as heads, parents and
  uncles; the adding of a block recurses, and every call trims the cache when it
  returns. Correct means: the two maps agree; the window holds what is cached;
  the chain in the cache has no hole that no failed download explains; no reorg
  is reported twice although the memory of reported reorgs is trimmed; what is
  reported is buried; the monitor never gets stuck.
- *Analysis.* The order of a Go map is the order in which blocks are added and
  chains are listed; forks nest; heights are unsigned. Correct means: the tree
  is that of the window whatever the order, and what a reorg says of its depth,
  end, main chain and liveness fits its blocks.
- *Connection.* Five calls can fail, on three ways back to a subscription.
  Correct means: no call without a client, a true status, a bounded growing
  delay, and a subscription again when the node is back.
- *Handler and database.* A row is looked for and then inserted; any statement
  may fail or its answer get lost; the process may stop between two statements,
  and sends the same reorg again after a restart. Correct means: what was handled
  is stored, but for what a failure explains; nothing is overwritten; races cost
  no more than a second copy of a row; the handler always returns.
- *Utilities.* A pool of workers between two bounded channels, a lock instead of
  a wait group, a list of rows that grows old. Correct means: no send on a closed
  channel, no height forgotten, an end that waits for the work, and an end at all.

`PROJECT.json` lists the hazards one by one with the lines where they bite.

## 2. Modules

```
Chain            blocks, heights, ancestry (constants)
  Analysis       the tree, NewReorg, Id, the Reorgs map (operators)
    BlockTree    AnalyzeTree and BlockTree.AddBlock, step by step
    ReorgMonitor the monitor goroutine, connections and handler around it
    Database     the two tables and their statements
      ReorgStore handler, addUncle and simulate-missing on the database
Reporter         what the monitor promises the main program
MissingUncles    the goroutines of add-missing-uncles
GethConnection   the connections, nodes and monitor around them
MCBlockTree, MCReorgMonitor, MCReorgStore, MCMissingUncles   instances for TLC
AnalysisProofs, BlockTreeProofs, ReorgMonitorProofs, CacheProofs, ReportProofs,
GethConnectionProofs, ReorgStoreProofs, MissingUnclesProofs
```

**Chain.** A block is its hash; `Number`, `ParentHash` and `Uncles` are constant
functions of it, since a hash fixes them. The modelled blocks are a finite piece
of a chain with forks. What the program knows of a block is a record of hash,
origin and node (`analysis.Block`); the time of observation is left out. Block 0
is excluded: number 0 is "unset" in `EarliestBlockNumber`.

**Analysis.** The result of `AnalyzeTree` as a function of the cached blocks and
of one choice: a depth-first listing `w` of the tree, which stands for the order
in which Go visits the blocks of a height. `ChainOf(w, c)` is the list
`NewReorg` collects below a child `c`, `NewReorg` computes every field the rest
of the program uses, and `ReorgMaps` keeps one reorg per `Id`. `Id` is the tuple
of the numbers the code formats into a string. `TreeAnalysis` fields that are
only printed are left out.

**BlockTree.** The same call in the code's own steps: window with wrapping
subtraction, loop over heights, `AddBlock` per block in any order, main-chain
marking, `NewTreeAnalysis`. `ResultIsTheTree` ties it to `Analysis`: the loop
ends with exactly the nodes, the errors and one of the listings that the
one-step definition used by `ReorgMonitor` allows. It is proved for every cache,
so that what is proved about `Analysis` holds for the code's own loop.

**ReorgMonitor.** One action per step of `SubscribeAndListen`. The Go stack of
nested `AddBlock` calls is `calls`, the innermost last; each frame holds the
references its `CheckBlockForReferences` has still to look at. A download is a
step of its own (announcements and the handler go on meanwhile), and so is the
return of each call, with its deferred `TrimCache`. `TrimCache` is written in
closed form, which the proofs use; `TrimLoop` is the loop of the code, and
`TrimIsTheLoop`, checked and proved, says that the two agree. `lost` and `reported` are history
variables. The connections appear as `Announce`.

**Reporter.** The abstract specification between the monitor and the main
program: reorgs are handed over one at a time, the next one when the handler is
done, never two under one `Id`. `ReorgMonitor` implements it with `sent` mapped
to the Ids of `reported` (`KeepsPromise == Promise!Spec`), checked by TLC and
proved. `ReorgStore` takes its reorgs by the action `Promise!Report`, so that
it relies on nothing else; in return its `HandlerEnds` is the fairness that
`ReorgMonitor` assumes of `Handled`.

**Database.** The tables as a set and a sequence of rows, one operator per
statement. `Admits` is the schema: the foreign key, and the width of two columns
(`Oversized`: blocks whose coinbase difference has 1000 ETH or more, which with
six decimals does not fit `VARCHAR(10)`). `Simulated` stands for the five MevGeth
columns: whose simulation they hold, or 0.

**ReorgStore.** Three processes on this database. One action is one statement:
`AddReorgEntry` and `AddBlockEntry` are a `COUNT` and an `INSERT` with the other
processes in between. A statement can succeed, be refused, fail, or be carried
out and answered by an error; `Restart` stops a process anywhere and starts it
again. `failed` is a history variable: the blocks that a failed statement, or a simulation
too large for its columns, kept from the reorg. It excuses no more than that: an
error of `AddReorgEntry` costs nothing where the reorg is in its table all the same,
and a refusal by the foreign key is never a failure of its own (`CostsReorg`,
`AddBlock`), so that a handler that left the reorg entry out would be found.
The blocks of a reorg are stored in any order, as they come out of a Go map.

**MissingUncles.** The main goroutine in `GetBlocks`, the workers, the processor
and the lock. A block is its height. What `addUncle` does to the database is in
`ReorgStore`; here it is one step per uncle, which may end the program (`Panic`).

**GethConnection.** All connections, their nodes, and the monitor as far as it
matters to them. `pc` is the place of each goroutine in `Connect`, `Subscribe`
and `ResubscribeAfterTimeout`; a step goes from one blocking call to the next.
`Subscribe` and `ResubscribeAfterTimeout` call each other, and a call of the
latter only returns when a deeper one does, that is never, so the stack reduces
to `retrying`: whether the error of `Subscribe` has a caller that retries. The
counters of the status page are left out. The RPC library is external: `Dial`
fails if the node is down (WebSocket and IPC endpoints, which the project's
README asks for); a call over a client that lost its socket fails or opens a
new one; a subscription breaks with its socket, or when its queue overflows.

Each property of a passing run is paired in `PROJECT.json` with a *fault*: a
variant of one definition, kept beside it and marked `Fault`, that a plausible
slip in the code would amount to (a lost negation, a wrong bound, a missing
reset). With the fault in place the property fails, so it does constrain the
code.

## 3. Runs

| run | instance | what it shows |
|---|---|---|
| `monitor_window` | 8 blocks with a fork and an uncle, 2 nodes that announce 6 of them, cache of 6, channel of 1, 1 lost block | cache invariants, holes and analysis errors only after a failed download, trimming, burial, monotony, no Id sent twice, also after the reorg has left the window; implements `Reporter` |
| `monitor_live` | 1 node that announces 3 of 6 blocks, 1 lost block | the recursion ends, every block is taken |
| `tree_call` | every subset of 10 blocks with a three-way fork and of 9 with forks inside forks, 4 pairs of arguments | tree, main chain, simple forks, consistency of finished reorgs, no fork lost that shares its `Id` with no other, termination with wrap-around |
| `connections` | 2 nodes, channel of 1, delays of 5, 10 and 18 s | client, status, delay, end of the goroutine, recovery, and every block gets through |
| `store_handled` | a reorg of 2 blocks, an uncle that gives a reorg of the same Id, 2 calls of `addUncle`, 2 failures or restarts | what is handled is stored, one row per writer, simulations stay, the handler returns |
| `uncles_pool` | 5 heights, 3 workers, channels of 1 and 2 | no send after the close, no height forgotten, the utility ends |

Bounds. Announcements are unbounded: a node may announce a block as often as it
likes. The blocks are the bound that matters. Six are enough for a fork to be
found (`AnalyzeTree(0, 2)` needs the fork, the block after it and two heights
above), eight for it to leave a cache of six afterwards. A channel of one block
makes it full and empty in turn. `MaxLost` bounds the blocks whose download
fails; a lost block may fail again and again. The tree runs take all subsets of
their blocks as caches, also those with holes, and an `EarliestBlockNumber` that
may lie below all of them, as `TrimCache` can leave it. `Uint` is the modulus of
the heights; it only has to be above all heights. `MaxWaits` stops the history
variable `waits` once the delay has reached its maximum: in `connections` after
two doublings, the second of them cut short (5, 10, 18). No guard depends on the
delay, so that the five doublings of the code, up to 180 seconds, differ from this
in nothing but the numbers, and `DelayDoubles` is proved for all of them.
In `store_handled`, `MaxFaults` 2 is what it takes to stop the monitor in the
middle of a reorg and then let a statement of the second attempt fail, and
`MaxUncles` 2 lets `addUncle` meet what its own first call left. One reorg is
enough: rows of different Ids meet in no statement but `BlockEntry`. Its blocks
cover the three kinds: without transactions, with them, and oversized.
In `uncles_pool` the heights outnumber the two channels together with the
workers' hands at either end, so that every sender and receiver has to wait.
The runs of the tree and of `MissingUncles` do not check for deadlock, as the call returns
and the program ends; all other runs check it, and `UtilityEnds` shows that the
utility stops nowhere else.

Fairness. `ReorgMonitor`: weak fairness of the monitor goroutine and of the
handler, which `HandlerEnds` justifies. This includes that every download is
answered, with a block or an error; the code sets no timeout, and a node that
never answers stops the monitor for good. Nodes need not announce anything.
`GethConnection`: weak fairness of each goroutine (calls return, timers expire),
strong fairness of a send, as Go serves blocked senders in order, and weak
fairness of the monitor, which the `monitor_live` run justifies. Nodes may stay
down or silent; `Recovers` only speaks of nodes that are up from some time on.
`MissingUncles`: weak fairness of each goroutine, strong fairness of a worker's
send for the same reason. `ReorgStore`: weak fairness of the handler and of
`addUncle` (statements are answered); nothing makes a reorg come, or anybody
start a utility. `BlockTree`: weak fairness of the loop, which is sequential.

### What the code does not do

Six runs end in a violation of what a comment of the code says; `PROJECT.json`
has the details under `findings`.

- `tree_same_height` (`analysis/reorg.go:85`): a reorg with two branches of the
  same height is called finished when one of them forks again, because
  `NewReorg` compares numbers of blocks in subtrees. In the same situation
  `EndBlockHeight` ("last block in a reorg", `analysis/reorg.go:17`) is the height
  of whichever block the listing ends with, not of the last one.
- `monitor_sent_again` (`monitor/monitor.go:103`): a stale block known as an
  uncle and announced later changes the `Id` of its reorg, which is sent again.
- `connection_first_subscribe` (`monitor/gethconnection.go:1`): if the very
  first `SubscribeNewHead` fails, the goroutine ends and the node is lost.
- `connection_no_client` (`monitor/monitor.go:112`): while a connection dials
  again, its client can be nil, and a download from its node ends the program.
  The other properties of `GethConnection` take this into account (`Panic`).
- `store_uncle_is_added` (`cmd/db-utils/add-missing-uncles/main.go:1`): two
  uncles of one height have the same `Id`, and the second is not stored. The same
  collision meets a reorg of the monitor, and a reorg that an earlier run of the
  utility left without blocks when it was stopped.
- `uncles_exit_waits` (`cmd/db-utils/add-missing-uncles/main.go:103`): the main
  goroutine may take `analyzeLock` before the processor does; then it returns and
  the blocks still in the channel are lost. `GetBlocks` waits for downloads in
  between, so that it takes an unlucky scheduler, but nothing in the code rules it
  out. `EveryBlockIsProcessed` states what holds of a processor that ends.

Met on the way, and without a run of their own:

- two forks of equal shape at one height have the same `Id`, and `NewTreeAnalysis`
  keeps one of them (`analysis/treeanalysis.go:48`, against "Reorgs start on each
  node with more than one child", `analysis/tree.go:2`); `LoneForksAreReported`
  states what is left;
- a row whose simulation does not fit `VARCHAR(10)` ends every run of
  simulate-missing (`Perror` after the `UPDATE`, line 80), and the rows below it
  are never reached; no property says that they are;
- `TreeAnalysis.StartBlockHeight` is commented "first block number with siblings"
  but is the number of the first node of the tree (`analysis/treeanalysis.go:31`),
  and `TreeAnalysis.Print`, which only test programs call, dereferences the block
  after the reorg of unfinished reorgs too (`analysis/treeanalysis.go:64`);
- `addUncle` simulates the uncle, not the main chain block, for the entry of the
  latter (`add-missing-uncles/main.go:161`; `NextEntry` models it), and what it
  calls the main chain block is the block that names the uncle, one height above
  it at least, not the block that replaced it;
- two processes that both count no row store a block twice (`OneRowPerWriter`);
- a block of 1000 ETH or more that comes with its simulation is refused by
  `VARCHAR(10)` and stays out of the database;
- `Reset` drops `reorg_summary` before the table that references it, which
  PostgreSQL refuses; nothing calls it.

## 4. Proofs

TLAPS checks, for every value of the constants that satisfies the named
assumptions (`ChainAssumption`, `NilAssumption`, `IdAssumption`,
`BlockTreeAssumption`, `ReorgMonitorAssumption`, `GethConnectionAssumption`,
`DatabaseAssumption`, `ReorgStoreAssumption`, `MissingUnclesAssumption`:
finiteness of `Hash` and `Worker`, positive numbers, a Nil apart from the rest,
reorgs that are made of known blocks and have an Id). `BlockTreeAssumption` asks
that a cache is not empty (the monitor analyses three heights at least) and that
the height after the last block is one the integer type has; the two arguments
are any, so that the window may still wrap around.

- `AnalysisProofs!ReorgsAreOfTheTree`: what `NewReorg` says is about blocks of
  the tree, and a finished reorg ends at the height of one of them. It rests on
  `Max` and `Min` of finite sets, on the chains being non-empty parts of the
  listing, and on a fork having two of them, hence a depth of at least one that
  the longest chain exceeds. The module also has the facts about ancestry and about
  depth-first listings that the tree needs: what is below a block is one piece of
  any listing (`BelowInOnePiece`), so the chain that `NewReorg` collects below a
  child is exactly what descends from it (`ChainOfListing`), the chains of a fork
  are disjoint (`ChainsOfFork`), and the depth, a `Max` over pairs in the model, is
  the length of the second longest chain (`DepthIsSecondLongest`).
- `BlockTreeProofs!TypeCorrect`, `TheTreeIsTheResult`,
  `TheMainChainLeadsToTheHighest`, `EveryForkedHeightIsReported`,
  `AFinishedReorgGoesOn`, `ASimpleReorgIsExact`, for every cache, hole or not, every
  pair of arguments and every order of the blocks of a height. None of these
  properties is inductive. The invariant `IInv` says what the loop has done so
  far: `Shape`, that each node but the first is below its parent and listed once
  among its children, that `LatestNodes` are the highest nodes and the main chain
  is the lineage of the only one; `Progress`, that the heights passed all had
  blocks, none of them alone before the first node, and all of them in the tree
  from it on; `Result`, where the reorgs come from. There is one lemma per action,
  and `AddChildKeeps` is the one that matters: a new node is always at least as
  high as the rest. From the invariant at the end, `DepthFirstOf` is shown to list
  each node once, everything below a node together (`TreeIsListed`), so that it is
  one of the listings of `Analysis`, and the facts above apply. Where no branch
  forks again the chains are paths (`UnforkedChainIsPath`) with one block per
  height, and comparing their lengths is comparing heights; this is what the code
  relies on, and what `tree_same_height` refutes otherwise.
- `ReorgMonitorProofs!TypeCorrect`, `SentOnce`, `WindowNeverFalls`. `ReportedOnce`
  is not inductive: it needs to know why an Id that was forgotten cannot come
  back. The invariant `IInv` is `TypeOK /\ Remembered`, where `Remembered` says
  that a reported Id whose reorg ends in the window is still in `KnownReorgs`,
  and that a finished reorg under analysis ends in the window. It is kept because
  `TrimCache` forgets Ids below the window only, the window never moves down
  (`WindowUp`, proved with it), and, by `ReorgsAreOfTheTree` and `TreeInWindow`,
  the analysis finds only reorgs that end in the window. There is one lemma per
  group of actions.
- `CacheProofs!MapsAlwaysAgree`, `CacheInWindow`, `CacheIsBounded`, from the
  invariant `CacheInv`: the maps agree; the window holds the cached blocks, has
  one at its latest height, and is 0 exactly while nothing is cached; the cache
  is trimmed unless a call of `AddBlock` is running. Only two operators change
  the cache, so the proof has one lemma for each: `AddBlockCache` and
  `TrimCacheTrims`. The latter is where the loop's early return matters: what it
  leaves fits, or only the latest height is left.
- `CacheProofs!HolesOnlyFromFailures`, `ErrorsOnlyFromFailures`, under the
  hypothesis `TwoHeightsFit`: the blocks of any two neighbouring heights fit in
  the cache. It is needed: when they do not, `TrimCache` keeps the latest height
  alone and deletes the parents of its blocks, and TLC finds `HolesAreFailures`
  violated if the cache of `monitor_window` is given a bound of 1 or 2; from 3 on,
  the most blocks its chain has on two heights, it holds. The default bound is
  200 blocks (`cmd/reorg-monitor/main.go:21`). The proof follows the chain of
  references of nested calls: the parent that a new block needs is the first
  reference of its own call (`DueOfAppend`, `DueOfStack`), and what `TrimCache`
  removes is a lower part of the window that takes no parent from what stays
  (`TrimCacheHoles`). Without holes every height of the window has a block and
  every block its parent, so the analysis has no error.
- `CacheProofs!TrimmedAsTheLoop`: `TrimIsTheLoop`. The loop of `TrimCache` is a
  recursive function over the heights; `LoopStepKeeps` says what it has deleted
  when it comes to a height.
- `ReportProofs!SentWhenBuried`: `ReportsAreBuried`, from the invariant that the
  reorgs under analysis consist of cached blocks and are buried; the cache is not
  touched between the analysis and the last send. `ReportProofs!ImplementsPromise`
  is the refinement: every step of the monitor is a step of `Reporter` or a
  stutter, `Send` by `SentOnce`'s invariant.
- `ReorgStoreProofs!HandlerStores`, `AdderStores`, `SimulationsStay`, `TypeCorrect`,
  `OneRowEach`. No statement takes a row or a simulation away (`Grows`), so that
  what a writer has reached is stable under the steps of the others
  (`StillWorks`). `Progress` says how far that is: every block of the reorg that
  no failure cost is still to come, is the one being added, or is stored. It
  also says why the foreign key refuses no such block: the reorg is in its
  table, or a failure cost all of it (`Rooted`). `FailureStep` and `PlainStep`
  show once what a step of a writer has to keep, and there is one lemma per
  action. `Selection` (rows that simulate-missing has read and not updated are
  still without a simulation) gives `SimulationsStay`; `FewRows`, which counts
  rows and intended insertions together, `OneRowEach`.
- `MissingUnclesProofs!NeverSentOnClosed`, `AllAreProcessed`, `TypeCorrect`,
  from an invariant that says where each height is: to be pushed, in a channel, in
  a worker's or the processor's hands, processed or lost. `WaitsUnlessFirst` adds
  that `ExitWaits` (violated, section 3) fails in one way only: the main goroutine
  was at the lock before the processor.
- `GethConnectionProofs!TypeCorrect`, `ClientIsThere`, `StatusHolds`,
  `EndsOnlyFresh`, from an invariant that adds `Stages` to the properties: a
  connection is not connected before its first `SyncProgress` is answered, keeps
  its client while it sends, and has not waited before it retries.
  `GethConnectionProofs!DelayIsDoubled`: the delay, capped, is the first one times
  the power of two that belongs to the number of waits.

Induction over data. The models define `TrimLoop`, `Ancestors`, `Listings`,
`DepthFirstOf` and `PowerOfTwo` by recursive functions, that is by a `CHOOSE`, and
the induction theorems of the library cannot be instantiated by the provers used.
The proofs do without: a function that satisfies the equation is shown to exist,
so that the chosen one satisfies it, and what holds at every step is proved from
the least number at which it fails (`LeastElement`), which the well-foundedness
of `<` provides. Where the recursion is a loop over numbers, the function exists
because the loop has a list of its values (`IterationExists`); the ancestors are
the least sets closed under parents (`AncestorsOf`).

With this every invariant and every `[][A]_vars` that a passing run checks is
proved, `HolesAreFailures` and `ErrorsAreFailures` under `TwoHeightsFit`. Only
model-checked are the liveness properties (`SearchEnds`, `MonitorReturns`,
`EveryBlockIsTaken`, `HandlerEnds`, `UtilityEnds`, `Recovers`, `BlocksAreSent`), as the
proof of what must happen under fairness needs `ENABLED`, which TLAPS does not
handle here; so are the counterexamples of the runs that end in a violation.

## 5. What could follow

A composition of `ReorgMonitor` and `GethConnection` in which a download really
uses the client and ends the program without one. Today the first takes an
answer or an error from any node, and the second has `EnsureBlock` and `Panic`.

## 6. Not modelled

The status page reads single fields and keeps no state; what it shows of a
connection is `StatusIsTrue`. Formatting, printing and Mermaid output, the start
of the program without a database (the handler only prints then), the
configuration and deployment files, the manual test programs and the recorded
test data have no behaviour of interest. `Reset`, the deletions and
`AddReorgWithBlocks` of the database service are called from nowhere. The depth
of the Go stack of a connection that fails for ever, and data races as such (torn
reads), are not represented; a racing read of a client sees it before or after
the write. The database is taken to execute each statement atomically, as
PostgreSQL does for statements of one row; the isolation of larger statements is
not a question here, as the code has no transactions.

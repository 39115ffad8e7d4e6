----------------------------- MODULE ReorgStore -----------------------------
(***************************************************************************)
(* What ends up in the database.  Three processes work on it, none of which*)
(* knows of the others: the monitor program, whose handler stores every    *)
(* reorg it is sent; add-missing-uncles, which stores a reorg for an uncle *)
(* that the monitor missed; simulate-missing, which fills in simulations.  *)
(* Any statement may fail, its answer may get lost, and any process may be *)
(* stopped between two statements and started again.                       *)
(*                                                                         *)
(* The monitor appears as Reporter.tla promises, and add-missing-uncles    *)
(* as the calls of addUncle, whichever blocks they are for;                *)
(* MissingUncles.tla has what happens around them.                         *)
(***************************************************************************)
EXTENDS Database

CONSTANTS Reorg,           \* the reorgs the monitor may find
          SimulateBlocks,  \* the flag of that name
          MaxFaults,       \* bound on failed statements and stops of processes
          MaxUncles        \* bound on the calls of addUncle

ASSUME ReorgStoreAssumption ==
  /\ SimulateBlocks \in BOOLEAN /\ MaxFaults \in Nat /\ MaxUncles \in Nat
  /\ \A r \in Reorg : Id(r) \in IdType /\ r.BlocksInvolved \subseteq Hash

VARIABLES
  pc,       \* where each process is
  reorg,    \* [Writer -> the reorg being stored, or Nil]
  row,      \* [Writer -> the block entry being added, or Nil]
  todo,     \* [Writer -> the blocks of the reorg that come after it]
  sent,     \* the Ids this run of the monitor has sent
  selected, \* the Ids of the rows simulate-missing has still to update
  failed,   \* history: [Writer -> the blocks that a failure kept from the reorg]
  faults, uncles  \* counters for the bounds

work == <<reorg, row, todo, failed>>
vars == <<db, pc, work, sent, selected, faults, uncles>>

Writer  == {"monitor", "uncles"}
Process == Writer \cup {"simulator"}

Promise == INSTANCE Reporter WITH
  Ids <- IdType,
  handling <- IF reorg["monitor"] = Nil THEN Nil ELSE Id(reorg["monitor"])

Init ==
  /\ NoRows
  /\ pc = [p \in Process |-> "wait"]
  /\ reorg = [p \in Writer |-> Nil] /\ row = [p \in Writer |-> Nil]
  /\ todo = [p \in Writer |-> {}] /\ failed = [p \in Writer |-> {}]
  /\ sent = {} /\ selected = {} /\ faults = 0 /\ uncles = 0

-----------------------------------------------------------------------------
Goto(p, place) == pc' = [pc EXCEPT ![p] = place]

Fails == faults < MaxFaults /\ faults' = faults + 1

\* A failed statement costs p these blocks.
Costs(p, blocks) == failed' = [failed EXCEPT ![p] = @ \cup blocks]

\* A failed AddReorgEntry costs it the whole reorg, unless the reorg is there.
CostsReorg(p) ==
  Costs(p, IF HasReorg(Id(reorg[p])) THEN {} ELSE reorg[p].BlocksInvolved)

\* Fault: the handler gives up a reorg on the first error.
ReturnOnError(p) == "return"

\* Fault: addUncle goes on after an error.
GoOnAfterError(p) == IF p = "monitor" THEN "blocks" ELSE "added"

\* The handler logs an error of AddReorgEntry or AddBlockEntry and goes on to
\* the next block; addUncle returns.
OnError(p) == IF p = "monitor" THEN "blocks" ELSE "return"

(* AddReorgEntry: a COUNT, and an INSERT if it is 0. *)

CountReorg(p) ==
  /\ pc[p] = "count reorg"
  /\ \/ /\ Goto(p, IF HasReorg(Id(reorg[p])) THEN OnError(p) ELSE "insert reorg")
        /\ UNCHANGED <<failed, faults>>
     \/ Fails /\ CostsReorg(p) /\ Goto(p, OnError(p))
  /\ UNCHANGED <<db, reorg, row, todo, sent, selected, uncles>>

AfterReorg(p) == IF p = "monitor" THEN "blocks" ELSE "date reorg"

\* The row may be inserted though the answer is an error.
AddReorg(p) ==
  /\ pc[p] = "insert reorg"
  /\ LET entry == NewReorgEntry(reorg[p])
     IN \/ InsertReorg(entry) /\ Goto(p, AfterReorg(p)) /\ UNCHANGED <<failed, faults>>
        \/ HasReorg(entry.Key) /\ Goto(p, OnError(p)) /\ UNCHANGED <<db, failed, faults>>
        \/ /\ Fails /\ Goto(p, OnError(p))
           /\ \/ InsertReorg(entry) /\ UNCHANGED failed
              \/ UNCHANGED db /\ CostsReorg(p)
  /\ UNCHANGED <<reorg, row, todo, sent, selected, uncles>>

(* AddBlockEntry, likewise. *)

CountBlock(p) ==
  /\ pc[p] = "count block"
  /\ \/ /\ Goto(p, IF IsStored(row[p]) THEN OnError(p) ELSE "insert block")
        /\ UNCHANGED <<failed, faults>>
     \/ Fails /\ Costs(p, {row[p].BlockHash}) /\ Goto(p, OnError(p))
  /\ UNCHANGED <<db, reorg, row, todo, sent, selected, uncles>>

AfterBlock(p) == IF p = "monitor" THEN "blocks" ELSE "added"

\* That the foreign key refuses a block is no failure of its own: the statement
\* that kept the reorg from its table has cost the block already, or nothing has.
AddBlock(p) ==
  /\ pc[p] = "insert block"
  /\ \/ InsertBlock(row[p]) /\ Goto(p, AfterBlock(p)) /\ UNCHANGED <<failed, faults>>
     \/ /\ ~ Admits(row[p]) /\ Goto(p, OnError(p)) /\ UNCHANGED <<db, faults>>
        /\ Costs(p, IF Fits(row[p]) THEN {} ELSE {row[p].BlockHash})
     \/ /\ Fails /\ Goto(p, OnError(p))
        /\ \/ InsertBlock(row[p]) /\ UNCHANGED failed
           \/ UNCHANGED db /\ Costs(p, {row[p].BlockHash})
  /\ UNCHANGED <<reorg, row, todo, sent, selected, uncles>>

-----------------------------------------------------------------------------
(* The monitor program: handleReorg. *)

TakeReorg(r) ==
  /\ pc["monitor"] = "wait" /\ Goto("monitor", "count reorg")
  /\ reorg' = [reorg EXCEPT !["monitor"] = r] /\ Promise!Report
  /\ todo' = [todo EXCEPT !["monitor"] = r.BlocksInvolved]
  /\ failed' = [failed EXCEPT !["monitor"] = {}]
  /\ UNCHANGED <<db, row, selected, faults, uncles>>

\* Fault: the block is not taken off the list.
AllBlocks(p, h) == todo[p]

OtherBlocks(p, h) == todo[p] \ {h}

\* The simulations of a block the handler may get: none if it does not ask, or
\* if the node fails.
Simulations(h) == IF SimulateBlocks /\ h \in WithTx THEN {Nil, h} ELSE {Nil}

NextBlock(h) ==
  /\ pc["monitor"] = "blocks" /\ h \in todo["monitor"] /\ Goto("monitor", "count block")
  /\ \E s \in Simulations(h) :
       row' = [row EXCEPT !["monitor"] =
                 UpdateWitCallBundleResponse(NewBlockEntry(h, reorg["monitor"]), s)]
  /\ todo' = [todo EXCEPT !["monitor"] = OtherBlocks("monitor", h)]
  /\ UNCHANGED <<db, reorg, failed, sent, selected, faults, uncles>>

NoMoreBlocks ==
  /\ pc["monitor"] = "blocks" /\ todo["monitor"] = {} /\ Goto("monitor", "return")
  /\ UNCHANGED <<db, work, sent, selected, faults, uncles>>

HandlerReturns ==
  /\ pc["monitor"] = "return" /\ Goto("monitor", "wait")
  /\ reorg' = [reorg EXCEPT !["monitor"] = Nil] /\ Promise!Finish
  /\ row' = [row EXCEPT !["monitor"] = Nil] /\ todo' = [todo EXCEPT !["monitor"] = {}]
  /\ UNCHANGED <<db, failed, selected, faults, uncles>>

-----------------------------------------------------------------------------
(* add-missing-uncles: addUncle for an uncle u of block b.  What it calls   *)
(* the main chain block is b, one height above u at least.                  *)

UncleReorg(u, b) ==
  [StartBlockHeight |-> Number[u], EndBlockHeight |-> Number[u], Depth |-> 1,
   BlocksInvolved |-> {u, b}, SeenLive |-> FALSE, IsFinished |-> TRUE, MainChainHash |-> b]

\* BlockEntry: any error counts as "not there".
AddUncle(u, b) ==
  /\ pc["uncles"] = "wait" /\ uncles < MaxUncles /\ uncles' = uncles + 1
  /\ u \in {Uncles[b][i] : i \in DOMAIN Uncles[b]}
  /\ \/ ~ HasBlockEntry(u) /\ UNCHANGED faults
     \/ Fails
  /\ Goto("uncles", "download")
  /\ reorg' = [reorg EXCEPT !["uncles"] = UncleReorg(u, b)]
  /\ row' = [row EXCEPT !["uncles"] =
               UpdateWitCallBundleResponse(NewBlockEntry(u, UncleReorg(u, b)), u)]
  /\ todo' = [todo EXCEPT !["uncles"] = {b}]
  /\ failed' = [failed EXCEPT !["uncles"] = {}]
  /\ UNCHANGED <<db, sent, selected>>

\* The next block, whose failure ends the program as Restart does, and two
\* simulations, without which addUncle returns.
Download ==
  /\ pc["uncles"] = "download"
  /\ \/ Goto("uncles", "count reorg") /\ UNCHANGED failed
     \/ Goto("uncles", "return") /\ Costs("uncles", reorg["uncles"].BlocksInvolved)
  /\ UNCHANGED <<db, reorg, row, todo, sent, selected, faults, uncles>>

\* The UPDATE of the reorg, and of its blocks at the end.
Date(from, to, Set(_)) ==
  /\ pc["uncles"] = from
  /\ \/ Set(Id(reorg["uncles"])) /\ Goto("uncles", to) /\ UNCHANGED <<failed, faults>>
     \/ /\ Fails /\ Goto("uncles", "return")
        /\ Costs("uncles", reorg["uncles"].BlocksInvolved)
        /\ Set(Id(reorg["uncles"])) \/ UNCHANGED db
  /\ UNCHANGED <<reorg, row, todo, sent, selected, uncles>>

DateReorg  == Date("date reorg", "count block", SetReorgTime)
DateBlocks == Date("date blocks", "return", SetBlockTimes)

\* The entry of b is given the simulation of the uncle.
NextEntry ==
  /\ pc["uncles"] = "added"
  /\ \/ \E b \in todo["uncles"] :
          /\ Goto("uncles", "count block") /\ todo' = [todo EXCEPT !["uncles"] = {}]
          /\ row' = [row EXCEPT !["uncles"] =
                       UpdateWitCallBundleResponse(NewBlockEntry(b, reorg["uncles"]),
                                                   row["uncles"].Simulated)]
     \/ todo["uncles"] = {} /\ Goto("uncles", "date blocks") /\ UNCHANGED <<row, todo>>
  /\ UNCHANGED <<db, reorg, failed, sent, selected, faults, uncles>>

UncleReturns ==
  /\ pc["uncles"] = "return" /\ Goto("uncles", "wait")
  /\ reorg' = [reorg EXCEPT !["uncles"] = Nil] /\ row' = [row EXCEPT !["uncles"] = Nil]
  /\ todo' = [todo EXCEPT !["uncles"] = {}]
  /\ UNCHANGED <<db, failed, sent, selected, faults, uncles>>

-----------------------------------------------------------------------------
(* simulate-missing.  Nothing else changes a simulation, so that the       *)
(* simulation and the UPDATE of a row can be one step.                     *)

\* Without rows simulate-missing ends; a failed SELECT leaves none.
Select ==
  /\ pc["simulator"] = "wait" /\ selected' = Unsimulated
  /\ Goto("simulator", IF selected' = {} THEN "wait" ELSE "update")
  /\ UNCHANGED <<db, work, sent, faults, uncles>>

\* The rows come in descending order; a block that cannot be downloaded or
\* simulated is passed over, and a failed UPDATE ends the program.
Simulate ==
  /\ pc["simulator"] = "update"
  /\ LET i == Max(selected)
     IN \/ (SetSimulation(i) \/ UNCHANGED db) /\ selected' = selected \ {i} /\ UNCHANGED faults
        \/ ~ Admits([reorg_block[i] EXCEPT !.Simulated = reorg_block[i].BlockHash])
           /\ selected' = {} /\ UNCHANGED <<db, faults>>
        \/ Fails /\ selected' = {} /\ (SetSimulation(i) \/ UNCHANGED db)
  /\ Goto("simulator", IF selected' = {} THEN "wait" ELSE "update")
  /\ UNCHANGED <<work, sent, uncles>>

-----------------------------------------------------------------------------
\* A process is stopped and started again.  The monitor forgets what it sent.
Restart(p) ==
  /\ Fails /\ (p = "monitor" \/ pc[p] # "wait") /\ Goto(p, "wait")
  /\ IF p = "simulator" THEN selected' = {} /\ UNCHANGED work
     ELSE /\ reorg' = [reorg EXCEPT ![p] = Nil] /\ row' = [row EXCEPT ![p] = Nil]
          /\ todo' = [todo EXCEPT ![p] = {}] /\ failed' = [failed EXCEPT ![p] = {}]
          /\ UNCHANGED selected
  /\ sent' = IF p = "monitor" THEN {} ELSE sent
  /\ UNCHANGED <<db, uncles>>

Add(p) == CountReorg(p) \/ AddReorg(p) \/ CountBlock(p) \/ AddBlock(p)

Handler ==
  Add("monitor") \/ (\E h \in todo["monitor"] : NextBlock(h)) \/ NoMoreBlocks \/ HandlerReturns

UncleAdder == Add("uncles") \/ Download \/ DateReorg \/ NextEntry \/ DateBlocks \/ UncleReturns

Next ==
  \/ \E r \in Reorg : TakeReorg(r)
  \/ Handler \/ UncleAdder \/ Select \/ Simulate
  \/ \E b \in Hash, u \in Hash : AddUncle(u, b)
  \/ \E p \in Process : Restart(p)

Spec == Init /\ [][Next]_vars

\* Statements and simulations are answered, one way or the other.  The monitor
\* need not find reorgs, and nobody need start the utilities.
FairSpec == Spec /\ WF_vars(Handler) /\ WF_vars(UncleAdder)

-----------------------------------------------------------------------------
(* Properties. *)

Place == {"wait", "download", "count reorg", "insert reorg", "date reorg", "blocks",
          "count block", "insert block", "added", "date blocks", "return", "update"}

\* The rows are those the schema (types.go:13-60) admits, each under a reorg
\* that has a row, and the processes are where their code can be.
TypeOK ==
  /\ reorg_summary \subseteq ReorgRow /\ reorg_block \in Seq(BlockRow)
  /\ \A i \in DOMAIN reorg_block : HasReorg(reorg_block[i].Reorg_Key)
  /\ pc \in [Process -> Place]
  /\ DOMAIN reorg = Writer /\ reorg["monitor"] \in Reorg \cup {Nil}
  /\ row \in [Writer -> BlockRow \cup {Nil}]
  /\ todo \in [Writer -> SUBSET Hash] /\ failed \in [Writer -> SUBSET Hash]
  /\ sent \subseteq IdType /\ selected \subseteq DOMAIN reorg_block

\* handleReorg (main.go:82-108): when it returns, the reorg and every block of
\* it are stored under its Id, but for the blocks that a failed statement or a
\* simulation too large for its columns cost it.  An error of AddReorgEntry is
\* no excuse where the reorg is in its table all the same, nor is the foreign
\* key where no statement failed.  It does not matter whether an earlier run of
\* the monitor was stopped in the middle of the same reorg, or
\* add-missing-uncles stores one of the same Id in between.
HandledIsStored ==
  [][HandlerReturns =>
       \A h \in reorg["monitor"].BlocksInvolved \ failed["monitor"] :
         LET key == Id(reorg["monitor"])
         IN HasReorg(key) /\ RowsOf(key, h) # {}]_vars

\* addUncle (add-missing-uncles/main.go:173-204): when it returns after its
\* second block, without an error of the database, the reorg and both blocks
\* are stored, whatever the monitor stores under the same Id meanwhile.
AddedUncleIsStored ==
  [][UncleReturns /\ todo["uncles"] = {} /\ failed["uncles"] = {} =>
       \A h \in reorg["uncles"].BlocksInvolved :
         LET key == Id(reorg["uncles"])
         IN HasReorg(key) /\ RowsOf(key, h) # {}]_vars

\* AddBlockEntry (dbservice.go:69-83) looks for a row and then inserts it: two
\* processes can both find none.  A block is stored under a reorg at most once
\* by each writer, however often reorgs are sent and uncles added.
OneRowPerWriter ==
  \A key \in {e.Key : e \in reorg_summary}, h \in Hash :
    LET inserting == {p \in Writer : /\ pc[p] = "insert block"
                                     /\ row[p].Reorg_Key = key /\ row[p].BlockHash = h}
    IN Cardinality(RowsOf(key, h)) + Cardinality(inserting) <= Cardinality(Writer)

\* A simulation that was stored is never overwritten: simulate-missing
\* (simulate-missing/main.go:49-80) works on a list that may be old.
KeepsSimulations ==
  [][\A i \in DOMAIN reorg_block : reorg_block[i].Simulated # Nil =>
       reorg_block'[i].Simulated = reorg_block[i].Simulated]_vars

\* The handler returns, whatever fails: it is what ReorgMonitor assumes of it,
\* as NewReorgChan (main.go:165) has no buffer.
HandlerEnds == reorg["monitor"] # Nil ~> reorg["monitor"] = Nil

-----------------------------------------------------------------------------
(* What a comment says of the program, and the code does not do. *)

\* add-missing-uncles/main.go:1: "In case of service downtime, add at least the
\* known uncles to the database".  addUncle can return without an error of the
\* database, and the uncle is not there: its Id is that of another uncle.
UncleIsAdded ==
  [][UncleReturns /\ failed["uncles"] = {} =>
       \E h \in reorg["uncles"].BlocksInvolved \ {reorg["uncles"].MainChainHash} :
         HasBlockEntry(h)]_vars
=============================================================================

------------------------------ MODULE Database ------------------------------
(***************************************************************************)
(* The two tables of the database package and what its statements do to    *)
(* them.  Each statement is atomic; the code uses no transactions, so what *)
(* lies between two statements is up to the processes (ReorgStore.tla).    *)
(* Nothing in the repository calls the deletions or Reset.                 *)
(***************************************************************************)
EXTENDS Analysis

CONSTANTS WithTx,    \* the blocks that have transactions
          Oversized  \* those whose simulation does not fit its VARCHAR columns

ASSUME DatabaseAssumption == Oversized \subseteq WithTx /\ WithTx \subseteq Hash

VARIABLES
  reorg_summary,  \* the set of its rows
  reorg_block     \* the sequence of its rows: the Id of a row is its index

db == <<reorg_summary, reorg_block>>

\* A row is created at its insertion, or at the time add-missing-uncles gives
\* it.  Simulated is the block whose simulation is in the MevGeth columns, Nil
\* while they are 0 (no simulated block with transactions comes to just 0).  The
\* other columns repeat the block and the reorg.
Created  == {"insertion", "next block"}
ReorgRow == [Key : IdType, Created_At : Created]
BlockRow == [Reorg_Key : IdType, BlockHash : Hash, Simulated : Hash \cup {Nil},
             Created_At : Created]

NewReorgEntry(r) == [Key |-> Id(r), Created_At |-> "insertion"]

NewBlockEntry(h, r) ==
  [Reorg_Key |-> Id(r), BlockHash |-> h, Simulated |-> Nil, Created_At |-> "insertion"]

\* The simulation of a block without transactions is 0, as the columns are.
UpdateWitCallBundleResponse(row, h) ==
  [row EXCEPT !.Simulated = IF h \in WithTx THEN h ELSE Nil]

NoRows == reorg_summary = {} /\ reorg_block = <<>>

-----------------------------------------------------------------------------
(* Queries. *)

HasReorg(key) == \E e \in reorg_summary : e.Key = key

RowsOf(key, h) ==
  {i \in DOMAIN reorg_block : /\ reorg_block[i].Reorg_Key = key
                              /\ reorg_block[i].BlockHash = h}

\* Fault: the hash is looked for in another spelling than the stored one.
NeverFound(row) == FALSE

\* The COUNT(*) of AddBlockEntry.
IsStored(row) == RowsOf(row.Reorg_Key, row.BlockHash) # {}

\* BlockEntry: a row of the block, under any reorg.
HasBlockEntry(h) == \E i \in DOMAIN reorg_block : reorg_block[i].BlockHash = h

\* Fault: all rows are simulated again.
EveryRow == DOMAIN reorg_block

\* The SELECT of simulate-missing.
Unsimulated ==
  {i \in DOMAIN reorg_block : /\ reorg_block[i].Simulated = Nil
                              /\ reorg_block[i].BlockHash \in WithTx}

-----------------------------------------------------------------------------
(* Insertions and updates, if the schema admits them. *)

\* Key is UNIQUE.
InsertReorg(e) ==
  /\ ~ HasReorg(e.Key)
  /\ reorg_summary' = reorg_summary \cup {e}
  /\ UNCHANGED reorg_block

\* The columns have a width.
Fits(row) == row.Simulated \notin Oversized

\* Fault: Reorg_Key is not a foreign key.
AnyBlock(row) == Fits(row)

\* Reorg_Key REFERENCES reorg_summary.
Admits(row) == HasReorg(row.Reorg_Key) /\ Fits(row)

InsertBlock(row) ==
  /\ Admits(row)
  /\ reorg_block' = Append(reorg_block, row)
  /\ UNCHANGED reorg_summary

SetReorgTime(key) ==
  /\ reorg_summary' = {IF e.Key = key THEN [e EXCEPT !.Created_At = "next block"] ELSE e :
                         e \in reorg_summary}
  /\ UNCHANGED reorg_block

SetBlockTimes(key) ==
  /\ reorg_block' = [i \in DOMAIN reorg_block |->
       IF reorg_block[i].Reorg_Key = key
       THEN [reorg_block[i] EXCEPT !.Created_At = "next block"] ELSE reorg_block[i]]
  /\ UNCHANGED reorg_summary

SetSimulation(i) ==
  LET row == UpdateWitCallBundleResponse(reorg_block[i], reorg_block[i].BlockHash)
  IN /\ Admits(row)
     /\ reorg_block' = [reorg_block EXCEPT ![i] = row]
     /\ UNCHANGED reorg_summary
=============================================================================

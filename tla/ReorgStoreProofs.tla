-------------------------- MODULE ReorgStoreProofs --------------------------
(***************************************************************************)
(* What ends up in the database, for every block chain, every set of       *)
(* reorgs and any number of failures, restarts and calls of addUncle.      *)
(***************************************************************************)
EXTENDS ReorgStore, AnalysisProofs

-----------------------------------------------------------------------------
(* The statements. *)

DbType ==
  /\ reorg_summary \subseteq ReorgRow /\ reorg_block \in Seq(BlockRow)
  /\ \A i \in DOMAIN reorg_block : HasReorg(reorg_block[i].Reorg_Key)

\* What no statement takes away.
Grows ==
  /\ \A key : HasReorg(key) => HasReorg(key)'
  /\ DOMAIN reorg_block \subseteq DOMAIN reorg_block'
  /\ \A key, h : RowsOf(key, h) \subseteq RowsOf(key, h)'
  /\ \A i \in DOMAIN reorg_block :
       /\ reorg_block'[i].BlockHash = reorg_block[i].BlockHash
       /\ reorg_block[i].Simulated # Nil =>
            reorg_block'[i].Simulated = reorg_block[i].Simulated

\* A row whose simulation is missing, and which simulate-missing can fill in.
Missing(i) == reorg_block[i].Simulated = Nil /\ reorg_block[i].BlockHash \in WithTx

\* What only an insertion of a block changes, or only a simulation.
SameRows == \A key, h : RowsOf(key, h)' = RowsOf(key, h)
SameSimulations ==
  \A i \in DOMAIN reorg_block : reorg_block'[i].Simulated = reorg_block[i].Simulated

ReorgStatement ==
  \/ UNCHANGED db
  \/ \E e \in ReorgRow : InsertReorg(e)
  \/ \E key \in IdType : SetReorgTime(key) \/ SetBlockTimes(key)

Statement == ReorgStatement \/ \E entry \in BlockRow : InsertBlock(entry)

\* Rows as they are updated.
LEMMA UpdatedRow ==
  ASSUME NEW e \in BlockRow, NEW h \in Hash \cup {Nil}
  PROVE  /\ UpdateWitCallBundleResponse(e, h) \in BlockRow
         /\ UpdateWitCallBundleResponse(e, h).Reorg_Key = e.Reorg_Key
         /\ UpdateWitCallBundleResponse(e, h).BlockHash = e.BlockHash
         /\ h \in WithTx => UpdateWitCallBundleResponse(e, h).Simulated = h
BY DatabaseAssumption DEF DatabaseAssumption, BlockRow, UpdateWitCallBundleResponse

\* An insertion into reorg_block (dbservice.go:81) adds a row at its end.
LEMMA InsertBlockGrows ==
  ASSUME DbType, NEW entry \in BlockRow, InsertBlock(entry)
  PROVE  /\ DbType' /\ Grows /\ SameSimulations
         /\ \A key, h : RowsOf(key, h)' =
              IF entry.Reorg_Key = key /\ entry.BlockHash = h
              THEN RowsOf(key, h) \cup {Len(reorg_block) + 1} ELSE RowsOf(key, h)
<1>1. /\ reorg_block \in Seq(BlockRow) /\ reorg_block' = Append(reorg_block, entry)
      /\ reorg_summary' = reorg_summary /\ HasReorg(entry.Reorg_Key)
  BY DEF DbType, InsertBlock, Admits
<1>2. /\ reorg_block' \in Seq(BlockRow)
      /\ DOMAIN reorg_block = 1..Len(reorg_block) /\ Len(reorg_block) \in Nat
      /\ DOMAIN reorg_block' = 1..(Len(reorg_block) + 1)
      /\ \A i \in 1..Len(reorg_block) : reorg_block'[i] = reorg_block[i]
      /\ reorg_block'[Len(reorg_block) + 1] = entry
  BY <1>1, AppendProperties, LenProperties
<1>3. /\ DOMAIN reorg_block' = DOMAIN reorg_block \cup {Len(reorg_block) + 1}
      /\ Len(reorg_block) + 1 \notin DOMAIN reorg_block
      /\ \A i \in DOMAIN reorg_block : reorg_block'[i] = reorg_block[i]
  BY <1>2
<1>4. \A key : HasReorg(key) <=> HasReorg(key)'
  BY <1>1 DEF HasReorg
<1>5. DbType'
  BY <1>1, <1>2, <1>3, <1>4 DEF DbType
<1>6. \A key, h : RowsOf(key, h)' =
        IF entry.Reorg_Key = key /\ entry.BlockHash = h
        THEN RowsOf(key, h) \cup {Len(reorg_block) + 1} ELSE RowsOf(key, h)
  BY <1>2, <1>3 DEF RowsOf
<1>7. \A key, h : RowsOf(key, h) \subseteq RowsOf(key, h)'
  BY <1>6
<1> QED
  BY <1>3, <1>4, <1>5, <1>6, <1>7 DEF Grows, SameSimulations

\* The other statements leave every row under its reorg, with its block.
LEMMA OthersKeepRows ==
  ASSUME DbType, reorg_block' \in Seq(BlockRow), DOMAIN reorg_block' = DOMAIN reorg_block,
         \A key : HasReorg(key) => HasReorg(key)',
         \A i \in DOMAIN reorg_block :
           /\ reorg_block'[i].Reorg_Key = reorg_block[i].Reorg_Key
           /\ reorg_block'[i].BlockHash = reorg_block[i].BlockHash
           /\ reorg_block[i].Simulated # Nil =>
                reorg_block'[i].Simulated = reorg_block[i].Simulated,
         reorg_summary' \subseteq ReorgRow
  PROVE  DbType' /\ Grows /\ SameRows
<1>1. \A key, h : RowsOf(key, h)' = RowsOf(key, h)
  BY DEF RowsOf
<1> QED
  BY <1>1 DEF DbType, Grows, SameRows

\* No statement deletes a row or a simulation, and each keeps the foreign key.
LEMMA ReorgStatementGrows ==
  ASSUME DbType, ReorgStatement
  PROVE  DbType' /\ Grows /\ SameRows /\ SameSimulations
<1>1. reorg_summary \subseteq ReorgRow /\ reorg_block \in Seq(BlockRow)
      /\ \A i \in DOMAIN reorg_block : reorg_block[i] \in BlockRow
  BY DEF DbType
<1>2. CASE UNCHANGED db
  BY <1>1, <1>2, OthersKeepRows DEF db, HasReorg, SameSimulations
<1>3. ASSUME NEW e \in ReorgRow, InsertReorg(e) PROVE DbType' /\ Grows /\ SameRows /\ SameSimulations
  BY <1>1, <1>3, OthersKeepRows DEF InsertReorg, HasReorg, SameSimulations
<1>4. ASSUME NEW key \in IdType, SetReorgTime(key) PROVE DbType' /\ Grows /\ SameRows /\ SameSimulations
  <2>1. /\ reorg_block' = reorg_block
        /\ reorg_summary' = {IF e.Key = key THEN [e EXCEPT !.Created_At = "next block"]
                             ELSE e : e \in reorg_summary}
    BY <1>4 DEF SetReorgTime
  <2>2. ASSUME NEW e \in reorg_summary
        PROVE  /\ [e EXCEPT !.Created_At = "next block"] \in ReorgRow
               /\ [e EXCEPT !.Created_At = "next block"].Key = e.Key
    BY <1>1 DEF ReorgRow, Created
  <2>3. reorg_summary' \subseteq ReorgRow
    BY <1>1, <2>1, <2>2
  <2>4. ASSUME NEW k, HasReorg(k) PROVE HasReorg(k)'
    <3>1. PICK e \in reorg_summary : e.Key = k
      BY <2>4 DEF HasReorg
    <3> DEFINE updated == IF e.Key = key THEN [e EXCEPT !.Created_At = "next block"] ELSE e
    <3>2. updated \in reorg_summary'
      BY <2>1
    <3>3. updated.Key = k
      BY <2>2, <3>1
    <3> QED
      BY <3>2, <3>3 DEF HasReorg
  <2> QED
    BY <1>1, <2>1, <2>3, <2>4, OthersKeepRows DEF SameSimulations
<1>5. ASSUME NEW key \in IdType, SetBlockTimes(key) PROVE DbType' /\ Grows /\ SameRows /\ SameSimulations
  <2>1. /\ reorg_summary' = reorg_summary
        /\ reorg_block' = [i \in DOMAIN reorg_block |->
             IF reorg_block[i].Reorg_Key = key
             THEN [reorg_block[i] EXCEPT !.Created_At = "next block"] ELSE reorg_block[i]]
    BY <1>5 DEF SetBlockTimes
  <2>2. ASSUME NEW i \in DOMAIN reorg_block
        PROVE  /\ reorg_block'[i] \in BlockRow
               /\ reorg_block'[i].Reorg_Key = reorg_block[i].Reorg_Key
               /\ reorg_block'[i].BlockHash = reorg_block[i].BlockHash
               /\ reorg_block'[i].Simulated = reorg_block[i].Simulated
    <3> DEFINE old == reorg_block[i]
               new == [old EXCEPT !.Created_At = "next block"]
    <3>1. old \in BlockRow /\ reorg_block'[i] \in {old, new}
      BY <1>1, <2>1
    <3>2. /\ new \in BlockRow /\ new.Reorg_Key = old.Reorg_Key
          /\ new.BlockHash = old.BlockHash /\ new.Simulated = old.Simulated
      <4> HIDE DEF old
      <4> QED
        BY <3>1 DEF BlockRow, Created
    <3> HIDE DEF new
    <3> QED
      BY <3>1, <3>2
  <2>3. reorg_block' \in Seq(BlockRow) /\ DOMAIN reorg_block' = DOMAIN reorg_block
    <3>1. DOMAIN reorg_block = 1..Len(reorg_block) /\ Len(reorg_block) \in Nat
      BY <1>1
    <3>2. /\ reorg_block' = [i \in 1..Len(reorg_block) |-> reorg_block'[i]]
          /\ \A i \in 1..Len(reorg_block) : reorg_block'[i] \in BlockRow
      BY <2>1, <2>2, <3>1
    <3> QED
      BY <3>1, <3>2
  <2> QED
    BY <1>1, <2>1, <2>2, <2>3, OthersKeepRows DEF HasReorg, SameSimulations
<1> QED
  BY <1>2, <1>3, <1>4, <1>5 DEF ReorgStatement

\* No statement of a writer deletes a row or changes a simulation.
LEMMA StatementGrows ==
  ASSUME DbType, Statement
  PROVE  DbType' /\ Grows /\ SameSimulations
BY ReorgStatementGrows, InsertBlockGrows DEF Statement

\* The UPDATE of simulate-missing fills in a simulation that was missing.
LEMMA SimulationGrows ==
  ASSUME DbType, NEW n \in DOMAIN reorg_block, Missing(n), SetSimulation(n)
  PROVE  /\ DbType' /\ Grows /\ SameRows
         /\ \A i \in DOMAIN reorg_block \ {n} : reorg_block'[i] = reorg_block[i]
<1> DEFINE new == UpdateWitCallBundleResponse(reorg_block[n], reorg_block[n].BlockHash)
<1>1. reorg_summary \subseteq ReorgRow /\ reorg_block \in Seq(BlockRow)
      /\ \A i \in DOMAIN reorg_block : reorg_block[i] \in BlockRow
  BY DEF DbType
<1>2. /\ reorg_summary' = reorg_summary /\ reorg_block' = [reorg_block EXCEPT ![n] = new]
  BY DEF SetSimulation
<1>3. /\ new \in BlockRow /\ new.Reorg_Key = reorg_block[n].Reorg_Key
      /\ new.BlockHash = reorg_block[n].BlockHash /\ reorg_block[n].Simulated = Nil
  <2>1. reorg_block[n].BlockHash \in Hash
    BY <1>1 DEF BlockRow
  <2> QED
    BY <1>1, <2>1, UpdatedRow DEF Missing
<1> HIDE DEF new
<1>4. reorg_block' \in Seq(BlockRow) /\ DOMAIN reorg_block' = DOMAIN reorg_block
  BY <1>1, <1>2, <1>3
<1>5. ASSUME NEW i \in DOMAIN reorg_block
      PROVE  /\ reorg_block'[i].Reorg_Key = reorg_block[i].Reorg_Key
             /\ reorg_block'[i].BlockHash = reorg_block[i].BlockHash
             /\ reorg_block[i].Simulated # Nil =>
                  reorg_block'[i].Simulated = reorg_block[i].Simulated
             /\ i # n => reorg_block'[i] = reorg_block[i]
  BY <1>2, <1>3
<1> QED
  BY <1>1, <1>2, <1>4, <1>5, OthersKeepRows DEF HasReorg

-----------------------------------------------------------------------------
(* The inductive invariant: a writer has stored what it has dealt with, but *)
(* for the blocks that a failure cost it, and the foreign key refuses none  *)
(* of the others.                                                           *)

StateType ==
  /\ pc \in [Process -> Place] /\ DOMAIN reorg = Writer
  /\ row \in [Writer -> BlockRow \cup {Nil}]
  /\ todo \in [Writer -> SUBSET Hash] /\ failed \in [Writer -> SUBSET Hash]
  /\ sent \subseteq IdType /\ reorg["monitor"] \in Reorg \cup {Nil}
  /\ \A g, h \in todo["uncles"] : g = h  \* an uncle has one next block

\* simulate-missing works on rows whose simulation is still missing.
Selection ==
  /\ selected \subseteq DOMAIN reorg_block /\ \A i \in selected : Missing(i)
  /\ pc["simulator"] = "update" => selected # {}

AddingBlock(p) == pc[p] \in {"count block", "insert block"}
AddingReorg(p) == pc[p] \in {"download", "count reorg", "insert reorg", "date reorg"}

\* A process that works has a reorg, and a row of it when it needs one.
Working(p) ==
  /\ pc[p] # "wait" => Id(reorg[p]) \in IdType /\ reorg[p].BlocksInvolved \subseteq Hash
  /\ AddingBlock(p) \/ (p = "uncles" /\ pc[p] # "wait") =>
       row[p] \in BlockRow /\ row[p].Reorg_Key = Id(reorg[p])

Needed(p)    == reorg[p].BlocksInvolved \ failed[p]
Stored(p, h) == RowsOf(Id(reorg[p]), h) # {}

\* The foreign key admits the blocks, unless a failure cost them all.
Rooted(p) == HasReorg(Id(reorg[p])) \/ Needed(p) = {}

Progress(p) ==
  /\ p = "monitor" /\ AddingReorg(p) => Needed(p) \subseteq todo[p]
  /\ p = "uncles" /\ AddingReorg(p) => todo[p] # {}
  /\ AddingReorg(p) \/ AddingBlock(p) =>
       \A h \in Needed(p) : h \in todo[p] \/ h = row[p].BlockHash \/ Stored(p, h)
  /\ pc[p] \in {"blocks", "added", "date blocks"} =>
       \A h \in Needed(p) : h \in todo[p] \/ Stored(p, h)
  /\ pc[p] = "date blocks" \/ (p = "monitor" /\ pc[p] = "return") => todo[p] = {}
  /\ pc[p] = "return" /\ todo[p] = {} => \A h \in Needed(p) : Stored(p, h)
  /\ pc[p] \in {"date reorg", "blocks", "count block", "insert block", "added"} => Rooted(p)

\* The actions of addUncle are not those of the handler.
Apart ==
  /\ pc["monitor"] \notin {"download", "date reorg", "added", "date blocks"}
  /\ pc["uncles"] # "blocks"

IInv ==
  /\ DbType /\ StateType /\ Selection /\ Apart
  /\ \A p \in Writer : Working(p) /\ Progress(p)

\* What a process has reached does not depend on the others.
Still(p) ==
  /\ pc'[p] = pc[p] /\ reorg'[p] = reorg[p] /\ row'[p] = row[p]
  /\ todo'[p] = todo[p] /\ failed'[p] = failed[p]

LEMMA StillWorks ==
  ASSUME NEW p \in Writer, Working(p), Progress(p), Still(p), Grows
  PROVE  Working(p)' /\ Progress(p)'
<1>1. Working(p)'
  BY DEF Still, Working, AddingBlock
<1>2. Needed(p)' = Needed(p) /\ \A h : Stored(p, h) => Stored(p, h)'
  BY DEF Still, Needed, Stored, Grows
<1>3. Rooted(p) => Rooted(p)'
  BY <1>2 DEF Still, Rooted, Grows
<1>4. Progress(p)'
  BY <1>2, <1>3 DEF Still, Progress, AddingReorg, AddingBlock
<1> QED
  BY <1>1, <1>4

\* Goto and Costs change what they name.
LEMMA Moves ==
  ASSUME StateType, NEW p \in Process, NEW place \in Place, Goto(p, place)
  PROVE  /\ pc' \in [Process -> Place] /\ pc'[p] = place
         /\ \A q \in Process \ {p} : pc'[q] = pc[q]
BY DEF StateType, Goto

LEMMA FailureCosts ==
  ASSUME StateType, NEW p \in Writer, NEW S \in SUBSET Hash, Costs(p, S)
  PROVE  /\ failed' \in [Writer -> SUBSET Hash] /\ failed'[p] = failed[p] \cup S
         /\ \A q \in Writer \ {p} : failed'[q] = failed[q]
BY DEF StateType, Costs

\* A step of a writer: it leaves the other processes alone.
StepOf(p) ==
  /\ Statement /\ StateType' /\ Apart'
  /\ Working(p)' /\ Progress(p)' /\ \A q \in Writer \ {p} : Still(q)
  /\ pc'["simulator"] = pc["simulator"] /\ selected' = selected

\* After an error a block may be missing that is not among the failed ones only
\* if it has still its turn, or if addUncle never came to its second block.
LEMMA AtError ==
  ASSUME NEW p \in Writer, Working(p), pc[p] # "wait", pc'[p] = OnError(p),
         reorg'[p] = reorg[p], row'[p] = row[p],
         p = "monitor" \/ todo'[p] = {} =>
           \A h \in Needed(p)' : h \in todo'[p] \/ Stored(p, h)',
         p = "monitor" => Rooted(p)'
  PROVE  Working(p)' /\ Progress(p)'
<1>1. CASE p = "monitor"
  <2>1. pc'["monitor"] = "blocks"
    BY <1>1 DEF OnError
  <2> QED
    BY <1>1, <2>1 DEF Working, Progress, AddingBlock, AddingReorg
<1>2. CASE p = "uncles"
  <2>1. pc'["uncles"] = "return"
    BY <1>2 DEF OnError
  <2> QED
    BY <1>2, <2>1 DEF Working, Progress, AddingBlock, AddingReorg
<1> QED
  BY <1>1, <1>2 DEF Writer

\* A failure that costs p these blocks, between two statements or at one.
LEMMA FailureStep ==
  ASSUME IInv, NEW p \in Writer, NEW S \in SUBSET Hash,
         pc[p] # "wait", Goto(p, OnError(p)), Costs(p, S), Statement,
         p = "monitor" \/ todo[p] = {} =>
           \A h \in Needed(p) \ S : h \in todo[p] \/ Stored(p, h),
         p = "monitor" => HasReorg(Id(reorg[p])) \/ Needed(p) \subseteq S,
         UNCHANGED <<reorg, row, todo, sent, selected>>
  PROVE  StepOf(p)
<1>1. /\ StateType /\ Apart /\ Working(p) /\ DbType /\ p \in Process
      /\ OnError(p) \in Place
  BY DEF IInv, Process, Place, OnError
<1>2. /\ pc' \in [Process -> Place] /\ pc'[p] = OnError(p)
      /\ \A q \in Process \ {p} : pc'[q] = pc[q]
  BY <1>1, Moves
<1>3. /\ failed' \in [Writer -> SUBSET Hash] /\ failed'[p] = failed[p] \cup S
      /\ \A q \in Writer \ {p} : failed'[q] = failed[q]
  BY <1>1, FailureCosts
<1>4. StateType'
  BY <1>1, <1>2, <1>3 DEF StateType
<1>5. /\ Needed(p)' = Needed(p) \ S /\ \A h : Stored(p, h) => Stored(p, h)'
      /\ HasReorg(Id(reorg[p])) => HasReorg(Id(reorg[p]))'
  BY <1>1, <1>3, StatementGrows DEF Needed, Stored, Grows
<1>6. Working(p)' /\ Progress(p)'
  <2>1. p = "monitor" => Rooted(p)'
    BY <1>5 DEF Rooted
  <2> QED
    BY <1>1, <1>2, <1>5, <2>1, AtError
<1>7. \A q \in Writer \ {p} : Still(q)
  BY <1>2, <1>3 DEF Still, Process
<1>8. Apart'
  BY <1>1, <1>2 DEF Apart, OnError, Writer, Process
<1>9. pc'["simulator"] = pc["simulator"]
  BY <1>2 DEF Process, Writer
<1> QED
  BY <1>4, <1>6, <1>7, <1>8, <1>9 DEF StepOf

\* A statement that succeeds, or a step between two of them.
LEMMA PlainStep ==
  ASSUME IInv, NEW p \in Writer, NEW place \in Place, Goto(p, place), Statement,
         selected' = selected, failed' \in [Writer -> SUBSET Hash],
         row' \in [Writer -> BlockRow \cup {Nil}], todo' \in [Writer -> SUBSET Hash],
         DOMAIN reorg' = Writer, reorg'["monitor"] \in Reorg \cup {Nil},
         sent' \subseteq IdType, \A g, h \in todo'["uncles"] : g = h,
         \A q \in Writer \ {p} : /\ reorg'[q] = reorg[q] /\ row'[q] = row[q]
                                  /\ todo'[q] = todo[q] /\ failed'[q] = failed[q],
         p = "monitor" => place \notin {"download", "date reorg", "added", "date blocks"},
         p = "uncles" => place # "blocks",
         Working(p)', Progress(p)'
  PROVE  StepOf(p)
<1>1. StateType /\ Apart /\ p \in Process
  BY DEF IInv, Process
<1>2. /\ pc' \in [Process -> Place] /\ pc'[p] = place
      /\ \A q \in Process \ {p} : pc'[q] = pc[q]
  BY <1>1, Moves
<1>3. StateType'
  BY <1>1, <1>2 DEF StateType
<1>4. \A q \in Writer \ {p} : Still(q)
  BY <1>2 DEF Still, Process
<1>5. Apart' /\ pc'["simulator"] = pc["simulator"]
  BY <1>1, <1>2 DEF Apart, Writer, Process
<1> QED
  BY <1>3, <1>4, <1>5 DEF StepOf

-----------------------------------------------------------------------------
(* AddReorgEntry and AddBlockEntry (dbservice.go:54-83). *)

\* A failed statement of AddReorgEntry.
LEMMA ReorgFailureStep ==
  ASSUME IInv, NEW p \in Writer, pc[p] \in {"count reorg", "insert reorg"},
         Goto(p, OnError(p)), CostsReorg(p), Statement,
         UNCHANGED <<reorg, row, todo, sent, selected>>
  PROVE  StepOf(p)
<1>1. /\ p = "monitor" => Needed(p) \subseteq todo[p]
      /\ p = "uncles" => todo[p] # {}
      /\ reorg[p].BlocksInvolved \subseteq Hash
  BY DEF IInv, Progress, AddingReorg, Working
<1>2. PICK S \in SUBSET Hash :
        /\ S = IF HasReorg(Id(reorg[p])) THEN {} ELSE reorg[p].BlocksInvolved
        /\ Costs(p, S)
  BY <1>1 DEF CostsReorg
<1>3. HasReorg(Id(reorg[p])) \/ Needed(p) \subseteq S
  BY <1>2 DEF Needed
<1>4. p = "monitor" \/ todo[p] = {} => \A h \in Needed(p) \ S : h \in todo[p]
  BY <1>1 DEF Writer
<1> QED
  BY <1>2, <1>3, <1>4, FailureStep

LEMMA CountReorgSteps ==
  ASSUME IInv, NEW p \in Writer, CountReorg(p)
  PROVE  StepOf(p)
<1>1. /\ StateType /\ Working(p) /\ Progress(p) /\ pc[p] = "count reorg"
      /\ UNCHANGED <<db, reorg, row, todo, sent, selected>> /\ Statement
  BY DEF IInv, CountReorg, Statement, ReorgStatement
<1>2. /\ p = "monitor" => Needed(p) \subseteq todo[p]
      /\ p = "uncles" => todo[p] # {}
      /\ reorg[p].BlocksInvolved \subseteq Hash
      /\ \A h \in Needed(p) : h \in todo[p] \/ h = row[p].BlockHash \/ Stored(p, h)
  BY <1>1 DEF Progress, AddingReorg, Working
<1>3. CASE Goto(p, "insert reorg") /\ failed' = failed
  <2>1. pc'[p] = "insert reorg" /\ "insert reorg" \in Place
    BY <1>1, <1>3, Moves DEF Place, Process
  <2>2. Working(p)'
    BY <1>1, <2>1 DEF Working, AddingBlock
  <2>3. Progress(p)'
    BY <1>1, <1>2, <1>3, <2>1
    DEF Progress, AddingReorg, AddingBlock, Needed, Stored, RowsOf, db
  <2> QED
    BY <1>1, <1>3, <2>1, <2>2, <2>3, PlainStep DEF StateType
<1>4. CASE HasReorg(Id(reorg[p])) /\ Goto(p, OnError(p)) /\ failed' = failed
  <2>1. pc'[p] = OnError(p) /\ OnError(p) \in Place
    BY <1>1, <1>4, Moves DEF Place, Process, OnError
  <2>2. Needed(p)' = Needed(p) /\ todo'[p] = todo[p] /\ Rooted(p)'
    BY <1>1, <1>4 DEF Needed, Rooted, HasReorg, db
  <2>3. p = "monitor" \/ todo'[p] = {} => \A h \in Needed(p)' : h \in todo'[p]
    BY <1>2, <2>2 DEF Writer
  <2>4. Working(p)' /\ Progress(p)'
    BY <1>1, <2>1, <2>2, <2>3, AtError
  <2> QED
    BY <1>1, <1>4, <2>1, <2>4, PlainStep DEF StateType, OnError
<1>5. CASE Goto(p, OnError(p)) /\ CostsReorg(p)
  BY <1>1, <1>2, <1>5, ReorgFailureStep
<1> QED
  BY <1>3, <1>4, <1>5 DEF CountReorg

LEMMA AddReorgSteps ==
  ASSUME IInv, NEW p \in Writer, AddReorg(p)
  PROVE  StepOf(p)
<1>1. /\ StateType /\ Working(p) /\ Progress(p) /\ DbType /\ pc[p] = "insert reorg"
      /\ UNCHANGED <<reorg, row, todo, sent, selected>>
  BY DEF IInv, AddReorg
<1>2. /\ p = "monitor" => Needed(p) \subseteq todo[p]
      /\ p = "uncles" => todo[p] # {}
      /\ Id(reorg[p]) \in IdType /\ reorg[p].BlocksInvolved \subseteq Hash
      /\ \A h \in Needed(p) : h \in todo[p] \/ h = row[p].BlockHash \/ Stored(p, h)
  BY <1>1 DEF Progress, AddingReorg, Working
<1> DEFINE entry == NewReorgEntry(reorg[p])
<1>3. entry \in ReorgRow
  BY <1>2 DEF NewReorgEntry, ReorgRow, Created
<1> HIDE DEF entry
<1>4. Statement
  <2>1. UNCHANGED db \/ InsertReorg(entry)
    BY DEF AddReorg, entry
  <2> QED
    BY <1>3, <2>1 DEF Statement, ReorgStatement
<1>5. \A h : Stored(p, h) => Stored(p, h)'
  BY <1>1, <1>4, StatementGrows DEF Stored, Grows
<1>6. CASE HasReorg(Id(reorg[p]))' /\ Goto(p, AfterReorg(p)) /\ failed' = failed
  <2>1. /\ pc'[p] = AfterReorg(p) /\ AfterReorg(p) \in Place
        /\ AfterReorg(p) = IF p = "monitor" THEN "blocks" ELSE "date reorg"
    BY <1>1, <1>6, Moves DEF Place, Process, AfterReorg
  <2>2. Needed(p)' = Needed(p) /\ Rooted(p)'
    BY <1>1, <1>6 DEF Needed, Rooted
  <2>3. Working(p)'
    BY <1>1, <2>1 DEF Working, AddingBlock
  <2>4. Progress(p)'
    <3>1. CASE p = "monitor"
      BY <1>1, <1>2, <2>1, <2>2, <3>1 DEF Progress, AddingReorg, AddingBlock
    <3>2. CASE p = "uncles"
      BY <1>1, <1>2, <1>5, <2>1, <2>2, <3>2 DEF Progress, AddingReorg, AddingBlock
    <3> QED
      BY <3>1, <3>2 DEF Writer
  <2> QED
    BY <1>1, <1>4, <1>6, <2>1, <2>3, <2>4, PlainStep DEF StateType
<1>7. CASE HasReorg(Id(reorg[p]))' /\ Goto(p, OnError(p)) /\ failed' = failed
  <2>1. pc'[p] = OnError(p) /\ OnError(p) \in Place
    BY <1>1, <1>7, Moves DEF Place, Process, OnError
  <2>2. Needed(p)' = Needed(p) /\ todo'[p] = todo[p] /\ Rooted(p)'
    BY <1>1, <1>7 DEF Needed, Rooted
  <2>3. p = "monitor" \/ todo'[p] = {} => \A h \in Needed(p)' : h \in todo'[p]
    BY <1>2, <2>2 DEF Writer
  <2>4. Working(p)' /\ Progress(p)'
    BY <1>1, <2>1, <2>2, <2>3, AtError
  <2> QED
    BY <1>1, <1>4, <1>7, <2>1, <2>4, PlainStep DEF StateType, OnError
<1>8. CASE Goto(p, OnError(p)) /\ CostsReorg(p)
  BY <1>1, <1>4, <1>8, ReorgFailureStep
<1>9. entry.Key = Id(reorg[p])
  BY DEF entry, NewReorgEntry
<1>10. InsertReorg(entry) => HasReorg(Id(reorg[p]))'
  BY <1>1, <1>9 DEF InsertReorg, HasReorg
<1>11. HasReorg(entry.Key) /\ UNCHANGED db => HasReorg(Id(reorg[p]))'
  BY <1>1, <1>9 DEF HasReorg, db
<1>12. \/ InsertReorg(entry) /\ Goto(p, AfterReorg(p)) /\ failed' = failed
       \/ HasReorg(entry.Key) /\ Goto(p, OnError(p)) /\ UNCHANGED db /\ failed' = failed
       \/ /\ Goto(p, OnError(p))
          /\ (InsertReorg(entry) /\ failed' = failed) \/ CostsReorg(p)
  BY DEF AddReorg, entry
<1> QED
  BY <1>6, <1>7, <1>8, <1>10, <1>11, <1>12

LEMMA CountBlockSteps ==
  ASSUME IInv, NEW p \in Writer, CountBlock(p)
  PROVE  StepOf(p)
<1>1. /\ StateType /\ Working(p) /\ Progress(p) /\ pc[p] = "count block"
      /\ UNCHANGED <<db, reorg, row, todo, sent, selected>> /\ Statement
  BY DEF IInv, CountBlock, Statement, ReorgStatement
<1>2. /\ row[p] \in BlockRow /\ row[p].Reorg_Key = Id(reorg[p]) /\ row[p].BlockHash \in Hash
      /\ \A h \in Needed(p) : h \in todo[p] \/ h = row[p].BlockHash \/ Stored(p, h)
      /\ Rooted(p)
  BY <1>1 DEF Progress, AddingBlock, Working, BlockRow
<1>3. CASE Goto(p, "insert block") /\ failed' = failed
  <2>1. pc'[p] = "insert block" /\ "insert block" \in Place
    BY <1>1, <1>3, Moves DEF Place, Process
  <2>2. Working(p)'
    BY <1>1, <1>2, <2>1 DEF Working, AddingBlock
  <2>3. Rooted(p)'
    BY <1>1, <1>2, <1>3 DEF Rooted, Needed, HasReorg, db
  <2>4. Progress(p)'
    BY <1>1, <1>2, <1>3, <2>1, <2>3
    DEF Progress, AddingReorg, AddingBlock, Needed, Stored, RowsOf, db
  <2> QED
    BY <1>1, <1>3, <2>1, <2>2, <2>4, PlainStep DEF StateType
<1>4. CASE IsStored(row[p]) /\ Goto(p, OnError(p)) /\ failed' = failed
  <2>1. pc'[p] = OnError(p) /\ OnError(p) \in Place
    BY <1>1, <1>4, Moves DEF Place, Process, OnError
  <2>2. Needed(p)' = Needed(p) /\ todo'[p] = todo[p]
        /\ (\A h : Stored(p, h) => Stored(p, h)') /\ Rooted(p)'
    BY <1>1, <1>2, <1>4 DEF Needed, Stored, Rooted, RowsOf, HasReorg, db
  <2>3. Stored(p, row[p].BlockHash)
    BY <1>2, <1>4 DEF IsStored, Stored
  <2>4. Working(p)' /\ Progress(p)'
    BY <1>1, <1>2, <2>1, <2>2, <2>3, AtError
  <2> QED
    BY <1>1, <1>4, <2>1, <2>4, PlainStep DEF StateType, OnError
<1>5. CASE Goto(p, OnError(p)) /\ Costs(p, {row[p].BlockHash})
  <2>1. /\ pc[p] # "wait" /\ {row[p].BlockHash} \in SUBSET Hash
        /\ \A h \in Needed(p) \ {row[p].BlockHash} : h \in todo[p] \/ Stored(p, h)
        /\ HasReorg(Id(reorg[p])) \/ Needed(p) \subseteq {row[p].BlockHash}
    BY <1>1, <1>2 DEF Rooted
  <2> QED
    BY <1>1, <1>2, <1>5, <2>1, FailureStep
<1> QED
  BY <1>3, <1>4, <1>5 DEF CountBlock

LEMMA AddBlockSteps ==
  ASSUME IInv, NEW p \in Writer, AddBlock(p)
  PROVE  StepOf(p)
<1>1. /\ StateType /\ Working(p) /\ Progress(p) /\ DbType /\ pc[p] = "insert block"
      /\ UNCHANGED <<reorg, row, todo, sent, selected>>
  BY DEF IInv, AddBlock
<1>2. /\ row[p] \in BlockRow /\ row[p].Reorg_Key = Id(reorg[p]) /\ row[p].BlockHash \in Hash
      /\ \A h \in Needed(p) : h \in todo[p] \/ h = row[p].BlockHash \/ Stored(p, h)
      /\ Rooted(p)
  BY <1>1 DEF Progress, AddingBlock, Working, BlockRow
<1>3. Statement
  <2>1. UNCHANGED db \/ InsertBlock(row[p])
    BY DEF AddBlock
  <2> QED
    BY <1>2, <2>1 DEF Statement, ReorgStatement
<1>4. CASE InsertBlock(row[p]) /\ Goto(p, AfterBlock(p)) /\ failed' = failed
  <2>1. /\ pc'[p] = AfterBlock(p) /\ AfterBlock(p) \in Place
        /\ AfterBlock(p) = IF p = "monitor" THEN "blocks" ELSE "added"
    BY <1>1, <1>4, Moves DEF Place, Process, AfterBlock
  <2>2. Needed(p)' = Needed(p) /\ (\A h : Stored(p, h) => Stored(p, h)') /\ Rooted(p)'
    BY <1>1, <1>2, <1>3, <1>4, StatementGrows DEF Needed, Stored, Rooted, Grows
  <2>3. Stored(p, row[p].BlockHash)'
    BY <1>1, <1>2, <1>4, InsertBlockGrows DEF Stored
  <2>4. Working(p)'
    BY <1>1, <1>2, <2>1 DEF Working, AddingBlock
  <2>5. Progress(p)'
    BY <1>1, <1>2, <2>1, <2>2, <2>3 DEF Progress, AddingReorg, AddingBlock
  <2> QED
    BY <1>1, <1>3, <1>4, <2>1, <2>4, <2>5, PlainStep DEF StateType
<1>5. CASE Goto(p, OnError(p)) /\ Costs(p, {row[p].BlockHash})
  <2>1. /\ pc[p] # "wait" /\ {row[p].BlockHash} \in SUBSET Hash
        /\ \A h \in Needed(p) \ {row[p].BlockHash} : h \in todo[p] \/ Stored(p, h)
        /\ HasReorg(Id(reorg[p])) \/ Needed(p) \subseteq {row[p].BlockHash}
    BY <1>1, <1>2 DEF Rooted
  <2> QED
    BY <1>1, <1>2, <1>3, <1>5, <2>1, FailureStep
<1>6. CASE /\ Fits(row[p]) /\ ~ Admits(row[p])  \* the foreign key
           /\ Goto(p, OnError(p)) /\ Costs(p, {})
  <2>1. pc[p] # "wait" /\ Needed(p) = {}
    BY <1>1, <1>2, <1>6 DEF Admits, Rooted
  <2> QED
    BY <1>1, <1>3, <1>6, <2>1, FailureStep
<1>7. CASE InsertBlock(row[p]) /\ Goto(p, OnError(p)) /\ failed' = failed  \* a lost answer
  <2>1. pc'[p] = OnError(p) /\ OnError(p) \in Place
    BY <1>1, <1>7, Moves DEF Place, Process, OnError
  <2>2. Needed(p)' = Needed(p) /\ (\A h : Stored(p, h) => Stored(p, h)') /\ Rooted(p)'
    BY <1>1, <1>2, <1>3, <1>7, StatementGrows DEF Needed, Stored, Rooted, Grows
  <2>3. Stored(p, row[p].BlockHash)'
    BY <1>1, <1>2, <1>7, InsertBlockGrows DEF Stored
  <2>4. Working(p)' /\ Progress(p)'
    BY <1>1, <1>2, <2>1, <2>2, <2>3, AtError
  <2> QED
    BY <1>1, <1>3, <1>7, <2>1, <2>4, PlainStep DEF StateType, OnError
<1> QED
  BY <1>4, <1>5, <1>6, <1>7 DEF AddBlock

-----------------------------------------------------------------------------
(* The handler (main.go:65-114). *)

LEMMA HandlerSteps ==
  ASSUME IInv,
         \/ \E r \in Reorg : TakeReorg(r)
         \/ \E h \in todo["monitor"] : NextBlock(h)
         \/ NoMoreBlocks \/ HandlerReturns
  PROVE  StepOf("monitor")
<1> DEFINE p == "monitor"
<1>1. /\ StateType /\ Working(p) /\ Progress(p) /\ p \in Writer /\ UNCHANGED <<db, selected>>
      /\ Statement
  BY DEF IInv, TakeReorg, NextBlock, NoMoreBlocks, HandlerReturns, Statement, ReorgStatement,
         Writer, work
<1>2. ASSUME NEW r \in Reorg, TakeReorg(r) PROVE StepOf(p)
  <2>1. /\ Goto(p, "count reorg") /\ "count reorg" \in Place /\ pc'[p] = "count reorg"
    BY <1>1, <1>2, Moves DEF TakeReorg, Place, Process
  <2>2. /\ reorg' = [reorg EXCEPT !["monitor"] = r] /\ row' = row
        /\ todo' = [todo EXCEPT !["monitor"] = r.BlocksInvolved]
        /\ failed' = [failed EXCEPT !["monitor"] = {}] /\ selected' = selected
        /\ r.BlocksInvolved \subseteq Hash /\ Id(r) \in IdType
    BY <1>2, ReorgStoreAssumption DEF ReorgStoreAssumption, TakeReorg
  <2>3. /\ DOMAIN reorg' = Writer /\ reorg'[p] = r /\ row' \in [Writer -> BlockRow \cup {Nil}]
        /\ todo' \in [Writer -> SUBSET Hash] /\ todo'[p] = r.BlocksInvolved
        /\ failed' \in [Writer -> SUBSET Hash]
        /\ \A q \in Writer \ {p} : /\ reorg'[q] = reorg[q] /\ row'[q] = row[q]
                                   /\ todo'[q] = todo[q] /\ failed'[q] = failed[q]
    BY <1>1, <2>2 DEF StateType
  <2>4. sent' \subseteq IdType
    <3>1. Promise!Report
      BY <1>2 DEF TakeReorg
    <3>2. PICK id \in IdType : sent' = sent \cup {id}
      BY <3>1 DEF Promise!Report
    <3> QED
      BY <1>1, <3>2 DEF StateType
  <2>5. Working(p)'
    BY <2>1, <2>2, <2>3 DEF Working, AddingBlock
  <2>6. Needed(p)' \subseteq todo'[p]
    BY <2>3 DEF Needed
  <2>7. Progress(p)'
    BY <2>1, <2>6 DEF Progress, AddingReorg, AddingBlock
  <2>8. reorg'["monitor"] \in Reorg \cup {Nil} /\ \A g, h \in todo'["uncles"] : g = h
    <3>1. todo'["uncles"] = todo["uncles"]
      BY <2>3 DEF Writer
    <3> QED
      BY <1>1, <2>3, <3>1 DEF StateType
  <2>9. "count reorg" \notin {"download", "date reorg", "added", "date blocks"} /\ p # "uncles"
    OBVIOUS
  <2> HIDE DEF p
  <2> QED
    BY <1>1, <2>1, <2>2, <2>3, <2>4, <2>5, <2>7, <2>8, <2>9, PlainStep
<1>3. ASSUME NEW h \in todo["monitor"], NextBlock(h) PROVE StepOf(p)
  <2>1. /\ Goto(p, "count block") /\ "count block" \in Place /\ pc'[p] = "count block"
        /\ pc[p] = "blocks"
    BY <1>1, <1>3, Moves DEF NextBlock, Place, Process
  <2>2. PICK s \in Simulations(h) :
          row' = [row EXCEPT !["monitor"] =
                    UpdateWitCallBundleResponse(NewBlockEntry(h, reorg["monitor"]), s)]
    BY <1>3 DEF NextBlock
  <2>3. /\ todo' = [todo EXCEPT !["monitor"] = todo["monitor"] \ {h}]
        /\ UNCHANGED <<reorg, failed, sent, selected>>
    BY <1>3 DEF NextBlock, OtherBlocks
  <2> DEFINE new == UpdateWitCallBundleResponse(NewBlockEntry(h, reorg["monitor"]), s)
  <2>4. /\ h \in Hash /\ s \in Hash \cup {Nil}
        /\ Id(reorg[p]) \in IdType /\ reorg[p].BlocksInvolved \subseteq Hash
    BY <1>1, <2>1, <1>3 DEF StateType, Simulations, Working
  <2>5. /\ NewBlockEntry(h, reorg["monitor"]) \in BlockRow
        /\ NewBlockEntry(h, reorg["monitor"]).Reorg_Key = Id(reorg[p])
        /\ NewBlockEntry(h, reorg["monitor"]).BlockHash = h
    BY <2>4 DEF NewBlockEntry, BlockRow, Created
  <2>6. new \in BlockRow /\ new.Reorg_Key = Id(reorg[p]) /\ new.BlockHash = h
    BY <2>4, <2>5, UpdatedRow
  <2> HIDE DEF new
  <2>7. /\ row' = [row EXCEPT !["monitor"] = new] /\ row \in [Writer -> BlockRow \cup {Nil}]
    BY <1>1, <2>2 DEF new, StateType
  <2>8. /\ row' \in [Writer -> BlockRow \cup {Nil}] /\ row'[p] = new
        /\ \A q \in Writer \ {p} : row'[q] = row[q]
    BY <1>1, <2>6, <2>7
  <2>9. /\ todo' \in [Writer -> SUBSET Hash] /\ todo'[p] = todo[p] \ {h}
        /\ \A q \in Writer \ {p} : todo'[q] = todo[q]
    BY <1>1, <2>3 DEF StateType
  <2>14. reorg'["monitor"] \in Reorg \cup {Nil} /\ \A g, l \in todo'["uncles"] : g = l
    <3>1. todo'["uncles"] = todo["uncles"]
      BY <2>9 DEF Writer
    <3> QED
      BY <1>1, <2>3, <3>1 DEF StateType
  <2>10. Working(p)'
    BY <2>1, <2>3, <2>4, <2>6, <2>8 DEF Working
  <2>11. \A g \in Needed(p)' : g \in todo'[p] \/ g = row'[p].BlockHash \/ Stored(p, g)'
    <3>1. Needed(p)' = Needed(p) /\ \A g : Stored(p, g) => Stored(p, g)'
      BY <1>1, <2>3 DEF Needed, Stored, RowsOf, db
    <3> QED
      BY <1>1, <2>1, <2>6, <2>8, <2>9, <3>1 DEF Progress
  <2>12. Rooted(p)'
    BY <1>1, <2>1, <2>3 DEF Progress, Rooted, Needed, HasReorg, db
  <2>13. Progress(p)'
    BY <2>1, <2>11, <2>12 DEF Progress, AddingReorg, AddingBlock
  <2> QED
    BY <1>1, <2>1, <2>3, <2>8, <2>9, <2>10, <2>13, <2>14, PlainStep DEF StateType
<1>4. CASE NoMoreBlocks
  <2>1. /\ Goto(p, "return") /\ "return" \in Place /\ pc'[p] = "return"
        /\ pc[p] = "blocks" /\ todo[p] = {} /\ UNCHANGED <<reorg, row, todo, failed, sent>>
    BY <1>1, <1>4, Moves DEF NoMoreBlocks, Place, Process, work
  <2>2. Working(p)'
    BY <1>1, <2>1 DEF Working, AddingBlock
  <2>3. Needed(p)' = Needed(p) /\ \A g : Stored(p, g) => Stored(p, g)'
    BY <1>1, <2>1 DEF Needed, Stored, RowsOf, db
  <2>4. Progress(p)'
    BY <1>1, <2>1, <2>3 DEF Progress, AddingReorg, AddingBlock
  <2> QED
    BY <1>1, <2>1, <2>2, <2>4, PlainStep DEF StateType
<1>5. CASE HandlerReturns
  <2>1. /\ Goto(p, "wait") /\ "wait" \in Place /\ pc'[p] = "wait"
        /\ reorg' = [reorg EXCEPT !["monitor"] = Nil] /\ row' = [row EXCEPT !["monitor"] = Nil]
        /\ todo' = [todo EXCEPT !["monitor"] = {}] /\ failed' = failed
    BY <1>1, <1>5, Moves DEF HandlerReturns, Place, Process
  <2>2. /\ DOMAIN reorg' = Writer /\ reorg'[p] = Nil /\ row' \in [Writer -> BlockRow \cup {Nil}]
        /\ todo' \in [Writer -> SUBSET Hash] /\ failed' \in [Writer -> SUBSET Hash]
        /\ \A q \in Writer \ {p} : /\ reorg'[q] = reorg[q] /\ row'[q] = row[q]
                                   /\ todo'[q] = todo[q] /\ failed'[q] = failed[q]
        /\ todo'["uncles"] = todo["uncles"]
    BY <1>1, <2>1 DEF StateType, Writer
  <2>3. sent' = sent
    BY <1>5 DEF HandlerReturns, Promise!Finish
  <2>4. Working(p)' /\ Progress(p)'
    BY <2>1 DEF Working, Progress, AddingReorg, AddingBlock
  <2>5. /\ reorg'["monitor"] \in Reorg \cup {Nil} /\ sent' \subseteq IdType
        /\ \A g, h \in todo'["uncles"] : g = h
    BY <1>1, <2>2, <2>3 DEF StateType
  <2>6. selected' = selected /\ p # "uncles"
        /\ "wait" \notin {"download", "date reorg", "added", "date blocks"}
    BY <1>1
  <2>7. StepOf(p)
    <3> HIDE DEF p
    <3> QED
      BY <1>1, <2>1, <2>2, <2>4, <2>5, <2>6, PlainStep
  <2> QED
    BY <2>7
<1> QED
  BY <1>2, <1>3, <1>4, <1>5

-----------------------------------------------------------------------------
(* addUncle (add-missing-uncles/main.go:108-205). *)

\* The reorg of an uncle has an Id as any other.
LEMMA UncleReorgType ==
  ASSUME NEW u \in Hash, NEW b \in Hash
  PROVE  Id(UncleReorg(u, b)) \in IdType /\ UncleReorg(u, b).BlocksInvolved = {u, b}
<1>1. Number[u] \in Nat
  BY ChainAssumption
<1>2. Cardinality({u, b}) \in Nat
  <2>1. IsFiniteSet({u, b})
    <3>1. {u, b} \subseteq Hash /\ IsFiniteSet(Hash)
      BY ChainAssumption
    <3> QED
      BY <3>1, FS_Subset
  <2> QED
    BY <2>1, FS_CardinalityType
<1> DEFINE n == Cardinality({u, b})
<1>3. Id(UncleReorg(u, b)) = <<Number[u], Number[u], 1, n, FALSE>>
  BY DEF Id, UncleReorg
<1> HIDE DEF n
<1>4. n \in Nat
  BY <1>2 DEF n
<1>5. UncleReorg(u, b).BlocksInvolved = {u, b}
  BY DEF UncleReorg
<1>6. <<Number[u], Number[u], 1, n, FALSE>> \in Nat \X Nat \X Nat \X Nat \X BOOLEAN
  BY <1>1, <1>4
<1>7. Id(UncleReorg(u, b)) \in IdType
  BY <1>3, <1>6 DEF IdType
<1> QED
  BY <1>5, <1>7

LEMMA AddUncleSteps ==
  ASSUME IInv, NEW b \in Hash, NEW u \in Hash, AddUncle(u, b)
  PROVE  StepOf("uncles")
<1> DEFINE p == "uncles"
           r == UncleReorg(u, b)
           entry == NewBlockEntry(u, r)
           new == UpdateWitCallBundleResponse(entry, u)
<1>1. /\ StateType /\ p \in Writer /\ UNCHANGED <<db, sent, selected>> /\ Statement
  BY DEF IInv, AddUncle, Statement, ReorgStatement, Writer
<1>2. Goto(p, "download") /\ "download" \in Place /\ pc'[p] = "download"
  BY <1>1, Moves DEF AddUncle, Place, Process
<1>3. /\ reorg' = [reorg EXCEPT !["uncles"] = r] /\ row' = [row EXCEPT !["uncles"] = new]
      /\ todo' = [todo EXCEPT !["uncles"] = {b}] /\ failed' = [failed EXCEPT !["uncles"] = {}]
  BY DEF AddUncle
<1>4. Id(r) \in IdType /\ r.BlocksInvolved = {u, b}
  BY UncleReorgType
<1>5. entry \in BlockRow /\ entry.Reorg_Key = Id(r) /\ entry.BlockHash = u
  <2> HIDE DEF r
  <2> QED
    BY <1>4 DEF NewBlockEntry, BlockRow, Created
<1>6. new \in BlockRow /\ new.Reorg_Key = Id(r) /\ new.BlockHash = u
  BY <1>5, UpdatedRow
<1> HIDE DEF r, entry, new
<1>7. /\ DOMAIN reorg' = Writer /\ reorg'[p] = r /\ reorg'["monitor"] = reorg["monitor"]
      /\ row' \in [Writer -> BlockRow \cup {Nil}] /\ row'[p] = new
      /\ todo' \in [Writer -> SUBSET Hash] /\ todo'[p] = {b}
      /\ failed' \in [Writer -> SUBSET Hash]
      /\ \A q \in Writer \ {p} : /\ reorg'[q] = reorg[q] /\ row'[q] = row[q]
                                 /\ todo'[q] = todo[q] /\ failed'[q] = failed[q]
  <2>1. p \in Writer /\ "monitor" \in Writer
    BY DEF Writer
  <2> QED
    BY <1>1, <1>3, <1>6, <2>1 DEF StateType
<1>8. Working(p)'
  BY <1>2, <1>4, <1>6, <1>7 DEF Working
<1>9. \A h \in Needed(p)' : h \in todo'[p] \/ h = row'[p].BlockHash
  BY <1>4, <1>6, <1>7 DEF Needed
<1>10. Progress(p)'
  BY <1>2, <1>7, <1>9 DEF Progress, AddingReorg, AddingBlock
<1> QED
  BY <1>1, <1>2, <1>7, <1>8, <1>10, PlainStep DEF StateType

LEMMA DateSteps ==
  ASSUME IInv, DateReorg \/ DateBlocks
  PROVE  StepOf("uncles")
<1> DEFINE p == "uncles"
<1>1. /\ StateType /\ Working(p) /\ Progress(p) /\ DbType /\ p \in Writer
      /\ pc[p] \in {"date reorg", "date blocks"}
      /\ UNCHANGED <<reorg, row, todo, sent, selected>>
  BY DEF IInv, DateReorg, DateBlocks, Date, Writer
<1>2. Id(reorg[p]) \in IdType /\ reorg[p].BlocksInvolved \subseteq Hash
  BY <1>1 DEF Working
<1>3. Statement
  <2>1. UNCHANGED db \/ SetReorgTime(Id(reorg[p])) \/ SetBlockTimes(Id(reorg[p]))
    BY DEF DateReorg, DateBlocks, Date
  <2> QED
    BY <1>2, <2>1 DEF Statement, ReorgStatement
<1>4. /\ \A h : Stored(p, h) => Stored(p, h)'
      /\ HasReorg(Id(reorg[p])) => HasReorg(Id(reorg[p]))'
  BY <1>1, <1>3, StatementGrows DEF Stored, Grows
<1>5. CASE Goto(p, "return") /\ Costs(p, reorg[p].BlocksInvolved)
  <2>1. /\ OnError(p) = "return" /\ pc[p] # "wait" /\ reorg[p].BlocksInvolved \in SUBSET Hash
        /\ Needed(p) \ reorg[p].BlocksInvolved = {}
    BY <1>1, <1>2 DEF OnError, Needed
  <2> QED
    BY <1>1, <1>3, <1>5, <2>1, FailureStep
<1>6. CASE pc[p] = "date reorg" /\ Goto(p, "count block") /\ failed' = failed
  <2>1. "count block" \in Place /\ pc'[p] = "count block" /\ Needed(p)' = Needed(p)
    BY <1>1, <1>6, Moves DEF Place, Process, Needed
  <2>2. Working(p)'
    BY <1>1, <1>2, <1>6 DEF Working
  <2>3. Rooted(p)'
    BY <1>1, <1>4, <1>6, <2>1 DEF Progress, Rooted
  <2>4. Progress(p)'
    BY <1>1, <1>4, <1>6, <2>1, <2>3 DEF Progress, AddingReorg, AddingBlock
  <2> QED
    BY <1>1, <1>3, <1>6, <2>1, <2>2, <2>4, PlainStep DEF StateType
<1>7. CASE pc[p] = "date blocks" /\ Goto(p, "return") /\ failed' = failed
  <2>1. "return" \in Place /\ pc'[p] = "return" /\ Needed(p)' = Needed(p)
    BY <1>1, <1>7, Moves DEF Place, Process, Needed
  <2>2. Working(p)'
    BY <1>1, <1>2, <1>7, <2>1 DEF Working, AddingBlock
  <2>3. Progress(p)'
    BY <1>1, <1>4, <1>7, <2>1 DEF Progress, AddingReorg, AddingBlock
  <2> QED
    BY <1>1, <1>3, <1>7, <2>1, <2>2, <2>3, PlainStep DEF StateType
<1> QED
  BY <1>5, <1>6, <1>7 DEF DateReorg, DateBlocks, Date

LEMMA UncleSteps ==
  ASSUME IInv, Download \/ NextEntry \/ UncleReturns
  PROVE  StepOf("uncles")
<1> DEFINE p == "uncles"
<1>1. /\ StateType /\ Working(p) /\ Progress(p) /\ p \in Writer
      /\ UNCHANGED <<db, sent, selected>> /\ Statement
  BY DEF IInv, Download, NextEntry, UncleReturns, Statement, ReorgStatement, Writer
<1>2. CASE Download /\ Goto(p, "count reorg") /\ failed' = failed
  <2>1. /\ "count reorg" \in Place /\ pc'[p] = "count reorg" /\ pc[p] = "download"
        /\ UNCHANGED <<reorg, row, todo>>
    BY <1>1, <1>2, Moves DEF Download, Place, Process
  <2>2. Needed(p)' = Needed(p) /\ \A h : Stored(p, h) => Stored(p, h)'
    BY <1>1, <1>2, <2>1 DEF Needed, Stored, RowsOf, db
  <2>3. Working(p)' /\ Progress(p)'
    BY <1>1, <2>1, <2>2 DEF Working, Progress, AddingReorg, AddingBlock
  <2> QED
    BY <1>1, <1>2, <2>1, <2>3, PlainStep DEF StateType
<1>3. CASE Download /\ Goto(p, "return") /\ Costs(p, reorg[p].BlocksInvolved)
  <2>1. /\ OnError(p) = "return" /\ pc[p] # "wait" /\ UNCHANGED <<reorg, row, todo>>
        /\ Needed(p) \ reorg[p].BlocksInvolved = {}
    BY <1>3 DEF OnError, Needed, Download
  <2>2. reorg[p].BlocksInvolved \in SUBSET Hash
    BY <1>1, <2>1 DEF Working
  <2> QED
    BY <1>1, <1>3, <2>1, <2>2, FailureStep
<1>4. ASSUME NextEntry, NEW b \in todo[p], Goto(p, "count block"),
             todo' = [todo EXCEPT !["uncles"] = {}],
             row' = [row EXCEPT !["uncles"] =
                       UpdateWitCallBundleResponse(NewBlockEntry(b, reorg["uncles"]),
                                                   row["uncles"].Simulated)]
      PROVE  StepOf(p)
  <2> DEFINE entry == NewBlockEntry(b, reorg["uncles"])
             new == UpdateWitCallBundleResponse(entry, row["uncles"].Simulated)
  <2>1. /\ "count block" \in Place /\ pc'[p] = "count block" /\ pc[p] = "added"
        /\ UNCHANGED <<reorg, failed>>
    BY <1>1, <1>4, Moves DEF NextEntry, Place, Process
  <2>2. todo[p] = {b}
    BY <1>1, <1>4 DEF StateType
  <2>3. /\ b \in Hash /\ Id(reorg[p]) \in IdType /\ reorg[p].BlocksInvolved \subseteq Hash
        /\ row[p].Simulated \in Hash \cup {Nil}
    BY <1>1, <1>4, <2>1 DEF Working, StateType, BlockRow
  <2>4. entry \in BlockRow /\ entry.Reorg_Key = Id(reorg[p]) /\ entry.BlockHash = b
    BY <2>3 DEF NewBlockEntry, BlockRow, Created
  <2>5. new \in BlockRow /\ new.Reorg_Key = Id(reorg[p]) /\ new.BlockHash = b
    BY <2>3, <2>4, UpdatedRow
  <2>6. row' = [row EXCEPT !["uncles"] = new]
    BY <1>4
  <2> HIDE DEF entry, new
  <2>7. /\ row' \in [Writer -> BlockRow \cup {Nil}] /\ row'[p] = new
        /\ todo' \in [Writer -> SUBSET Hash] /\ todo'[p] = {}
        /\ \A q \in Writer \ {p} : row'[q] = row[q] /\ todo'[q] = todo[q]
    BY <1>1, <1>4, <2>5, <2>6 DEF StateType
  <2>8. Needed(p)' = Needed(p) /\ \A h : Stored(p, h) => Stored(p, h)'
    BY <1>1, <2>1 DEF Needed, Stored, RowsOf, db
  <2>9. \A h \in Needed(p) : h \in todo[p] \/ Stored(p, h)
    BY <1>1, <2>1 DEF Progress
  <2>10. Working(p)'
    BY <2>1, <2>3, <2>5, <2>7 DEF Working
  <2>11. Rooted(p)'
    BY <1>1, <2>1, <2>8 DEF Progress, Rooted, HasReorg, db
  <2>12. Progress(p)'
    BY <2>1, <2>2, <2>5, <2>7, <2>8, <2>9, <2>11 DEF Progress, AddingReorg, AddingBlock
  <2> QED
    BY <1>1, <1>4, <2>1, <2>7, <2>10, <2>12, PlainStep DEF StateType
<1>5. CASE NextEntry /\ todo[p] = {} /\ Goto(p, "date blocks") /\ UNCHANGED <<row, todo>>
  <2>1. /\ "date blocks" \in Place /\ pc'[p] = "date blocks" /\ pc[p] = "added"
        /\ UNCHANGED <<reorg, failed>>
    BY <1>1, <1>5, Moves DEF NextEntry, Place, Process
  <2>2. Needed(p)' = Needed(p) /\ \A h : Stored(p, h) => Stored(p, h)'
    BY <1>1, <2>1 DEF Needed, Stored, RowsOf, db
  <2>3. Working(p)' /\ Progress(p)'
    BY <1>1, <1>5, <2>1, <2>2 DEF Working, Progress, AddingReorg, AddingBlock
  <2> QED
    BY <1>1, <1>5, <2>1, <2>3, PlainStep DEF StateType
<1>6. CASE UncleReturns
  <2>1. /\ Goto(p, "wait") /\ "wait" \in Place /\ pc'[p] = "wait"
        /\ reorg' = [reorg EXCEPT !["uncles"] = Nil] /\ row' = [row EXCEPT !["uncles"] = Nil]
        /\ todo' = [todo EXCEPT !["uncles"] = {}] /\ failed' = failed
    BY <1>1, <1>6, Moves DEF UncleReturns, Place, Process
  <2>2. /\ DOMAIN reorg' = Writer /\ reorg'["monitor"] = reorg["monitor"]
        /\ row' \in [Writer -> BlockRow \cup {Nil}]
        /\ todo' \in [Writer -> SUBSET Hash] /\ failed' \in [Writer -> SUBSET Hash]
        /\ \A q \in Writer \ {p} : /\ reorg'[q] = reorg[q] /\ row'[q] = row[q]
                                   /\ todo'[q] = todo[q] /\ failed'[q] = failed[q]
    <3>1. "monitor" \in Writer
      BY DEF Writer
    <3> QED
      BY <1>1, <2>1, <3>1 DEF StateType
  <2>3. Working(p)' /\ Progress(p)'
    BY <2>1 DEF Working, Progress, AddingReorg, AddingBlock
  <2> QED
    BY <1>1, <2>1, <2>2, <2>3, PlainStep DEF StateType
<1> QED
  BY <1>2, <1>3, <1>4, <1>5, <1>6 DEF Download, NextEntry

LEMMA RestartSteps ==
  ASSUME IInv, NEW p \in Writer, Restart(p)
  PROVE  StepOf(p)
<1>1. /\ StateType /\ p \in Process /\ p # "simulator" /\ "wait" \in Place /\ Goto(p, "wait")
      /\ UNCHANGED <<db, selected>> /\ Statement
  BY DEF IInv, Restart, Statement, ReorgStatement, Writer, Process, Place
<1>2. /\ reorg' = [reorg EXCEPT ![p] = Nil] /\ row' = [row EXCEPT ![p] = Nil]
      /\ todo' = [todo EXCEPT ![p] = {}] /\ failed' = [failed EXCEPT ![p] = {}]
      /\ sent' \in {{}, sent}
  BY <1>1 DEF Restart
<1>3. /\ DOMAIN reorg' = Writer /\ row' \in [Writer -> BlockRow \cup {Nil}]
      /\ todo' \in [Writer -> SUBSET Hash] /\ failed' \in [Writer -> SUBSET Hash]
      /\ sent' \subseteq IdType
      /\ \A q \in Writer \ {p} : /\ reorg'[q] = reorg[q] /\ row'[q] = row[q]
                                 /\ todo'[q] = todo[q] /\ failed'[q] = failed[q]
  BY <1>1, <1>2 DEF StateType
<1>4. reorg'["monitor"] \in Reorg \cup {Nil} /\ \A g, h \in todo'["uncles"] : g = h
  <2>1. reorg'["monitor"] \in {Nil, reorg["monitor"]} /\ todo'["uncles"] \in {{}, todo["uncles"]}
    BY <1>1, <1>2 DEF StateType, Writer
  <2> QED
    BY <1>1, <2>1 DEF StateType
<1>5. pc'[p] = "wait"
  BY <1>1, Moves
<1>6. Working(p)' /\ Progress(p)'
  BY <1>5 DEF Working, Progress, AddingReorg, AddingBlock
<1> QED
  BY <1>1, <1>3, <1>4, <1>6, PlainStep

-----------------------------------------------------------------------------
(* simulate-missing (simulate-missing/main.go:48-83), which no writer      *)
(* notices.                                                                *)

SimulatorStep ==
  /\ DbType' /\ Grows /\ SameRows /\ StateType' /\ Selection' /\ Apart'
  /\ \A p \in Writer : Still(p)

LEMMA NoSimulation ==
  ASSUME DbType, UNCHANGED db
  PROVE  DbType' /\ Grows /\ SameRows
BY ReorgStatementGrows DEF ReorgStatement

LEMMA SimulatorSteps ==
  ASSUME IInv, Select \/ Simulate \/ Restart("simulator")
  PROVE  SimulatorStep
<1> DEFINE p == "simulator"
<1>1. DbType /\ StateType /\ Selection /\ Apart /\ UNCHANGED <<work, sent>>
  BY DEF IInv, Select, Simulate, Restart
<1>2. /\ pc' \in [Process -> Place] /\ \A q \in Process \ {p} : pc'[q] = pc[q]
      /\ pc'[p] = "update" => selected' # {}
  <2>1. PICK place \in {"wait", "update"} :
          Goto(p, place) /\ (place = "update" => selected' # {})
    BY DEF Select, Simulate, Restart
  <2>2. place \in Place /\ p \in Process
    BY DEF Place, Process
  <2> QED
    BY <1>1, <2>1, <2>2, Moves
<1>3. StateType' /\ Apart' /\ \A q \in Writer : Still(q)
  BY <1>1, <1>2 DEF StateType, Apart, Still, work, Writer, Process
<1>4. CASE UNCHANGED db /\ selected' \subseteq Unsimulated
  <2>1. \A i \in selected' : i \in DOMAIN reorg_block' /\ Missing(i)'
    BY <1>4 DEF Unsimulated, Missing, db
  <2> QED
    BY <1>1, <1>2, <1>3, <1>4, <2>1, NoSimulation DEF SimulatorStep, Selection
<1>5. CASE UNCHANGED db /\ selected' \subseteq selected
  <2>1. \A i \in selected' : i \in DOMAIN reorg_block' /\ Missing(i)'
    BY <1>1, <1>5 DEF Selection, Missing, db
  <2> QED
    BY <1>1, <1>2, <1>3, <1>5, <2>1, NoSimulation DEF SimulatorStep, Selection
<1>6. ASSUME SetSimulation(Max(selected)), selected' \subseteq selected \ {Max(selected)},
             selected # {}
      PROVE  SimulatorStep
  <2>1. selected \in SUBSET Nat /\ IsFiniteSet(selected)
    <3>1. DOMAIN reorg_block = 1..Len(reorg_block) /\ Len(reorg_block) \in Nat
      BY <1>1 DEF DbType
    <3>2. IsFiniteSet(1..Len(reorg_block))
      BY <3>1, FS_Interval
    <3> QED
      BY <1>1, <3>1, <3>2, FS_Subset DEF Selection
  <2>2. Max(selected) \in selected
    BY <1>6, <2>1, MaxOfFinite
  <2> DEFINE i == Max(selected)
  <2> HIDE DEF i
  <2>3. i \in DOMAIN reorg_block /\ Missing(i) /\ SetSimulation(i)
    BY <1>1, <1>6, <2>2 DEF i, Selection
  <2>4. /\ DbType' /\ Grows /\ SameRows
        /\ \A j \in DOMAIN reorg_block \ {i} : reorg_block'[j] = reorg_block[j]
    BY <1>1, <2>3, SimulationGrows
  <2>5. selected' \subseteq selected \ {i}
    BY <1>6 DEF i
  <2>6. \A j \in selected' : j \in DOMAIN reorg_block' /\ Missing(j)'
    BY <1>1, <2>4, <2>5 DEF Selection, Missing, Grows
  <2> QED
    BY <1>2, <1>3, <2>4, <2>6 DEF SimulatorStep, Selection
<1>7. CASE Select
  BY <1>4, <1>7 DEF Select
<1>8. CASE Restart(p)
  BY <1>5, <1>8 DEF Restart
<1>9. CASE Simulate
  <2>1. selected # {} /\ selected' \subseteq selected
    BY <1>1, <1>9 DEF Simulate, Selection
  <2>2. \/ UNCHANGED db
        \/ SetSimulation(Max(selected)) /\ selected' \subseteq selected \ {Max(selected)}
    BY <1>9 DEF Simulate
  <2> QED
    BY <1>5, <1>6, <2>1, <2>2
<1> QED
  BY <1>7, <1>8, <1>9

-----------------------------------------------------------------------------
(* The steps together. *)

LEMMA InitInv == Init => IInv
<1> SUFFICES ASSUME Init PROVE IInv
  OBVIOUS
<1>1. DbType
  BY DEF Init, NoRows, DbType
<1>2. StateType
  BY DEF Init, StateType, Place, Process, Writer
<1>3. Selection /\ Apart /\ \A p \in Writer : Working(p) /\ Progress(p)
  BY DEF Init, Selection, Apart, Working, Progress, AddingReorg, AddingBlock, Process, Writer
<1> QED
  BY <1>1, <1>2, <1>3 DEF IInv

LEMMA NextIsAStep ==
  ASSUME IInv, Next
  PROVE  SimulatorStep \/ \E p \in Writer : StepOf(p)
<1>1. "monitor" \in Writer /\ "uncles" \in Writer
  BY DEF Writer
<1>2. ASSUME NEW p \in Writer, Add(p) PROVE StepOf(p)
  BY <1>2, CountReorgSteps, AddReorgSteps, CountBlockSteps, AddBlockSteps DEF Add
<1>3. ASSUME \E r \in Reorg : TakeReorg(r) PROVE StepOf("monitor")
  BY <1>3, HandlerSteps
<1>4. ASSUME Handler PROVE StepOf("monitor")
  BY <1>1, <1>2, <1>4, HandlerSteps DEF Handler
<1>5. ASSUME UncleAdder PROVE StepOf("uncles")
  BY <1>1, <1>2, <1>5, DateSteps, UncleSteps DEF UncleAdder
<1>6. ASSUME NEW b \in Hash, NEW u \in Hash, AddUncle(u, b) PROVE StepOf("uncles")
  BY <1>6, AddUncleSteps
<1>7. ASSUME Select \/ Simulate \/ Restart("simulator") PROVE SimulatorStep
  BY <1>7, SimulatorSteps
<1>8. ASSUME NEW p \in Writer, Restart(p) PROVE StepOf(p)
  BY <1>8, RestartSteps
<1> QED
  BY <1>1, <1>3, <1>4, <1>5, <1>6, <1>7, <1>8 DEF Next, Process

LEMMA WriterKeeps ==
  ASSUME IInv, NEW p \in Writer, StepOf(p)
  PROVE  IInv' /\ Grows
<1>1. /\ DbType /\ Statement /\ StateType' /\ Apart' /\ Working(p)' /\ Progress(p)'
      /\ Selection /\ selected' = selected /\ pc'["simulator"] = pc["simulator"]
      /\ \A q \in Writer \ {p} : Still(q) /\ Working(q) /\ Progress(q)
  BY DEF IInv, StepOf
<1>2. DbType' /\ Grows /\ SameSimulations
  BY <1>1, StatementGrows
<1>3. \A q \in Writer : Working(q)' /\ Progress(q)'
  BY <1>1, <1>2, StillWorks
<1>4. \A i \in selected : i \in DOMAIN reorg_block' /\ Missing(i)'
  BY <1>1, <1>2 DEF Selection, Missing, Grows, SameSimulations
<1>5. Selection'
  BY <1>1, <1>4 DEF Selection
<1> QED
  BY <1>1, <1>2, <1>3, <1>5 DEF IInv

LEMMA NextKeeps ==
  ASSUME IInv, [Next]_vars
  PROVE  IInv' /\ Grows
<1>1. ASSUME NEW p \in Writer, StepOf(p) PROVE IInv' /\ Grows
  BY <1>1, WriterKeeps
<1>2. CASE SimulatorStep
  <2>1. \A q \in Writer : Working(q)' /\ Progress(q)'
    BY <1>2, StillWorks DEF IInv, SimulatorStep
  <2> QED
    BY <1>2, <2>1 DEF IInv, SimulatorStep
<1>3. CASE UNCHANGED vars
  <2>1. DbType' /\ Grows
    BY <1>3, NoSimulation DEF IInv, vars
  <2>2. UNCHANGED <<db, pc, reorg, row, todo, failed, sent, selected>>
    BY <1>3 DEF vars, work
  <2>3. \A q \in Writer : Working(q)' /\ Progress(q)'
    BY <2>1, <2>2, StillWorks DEF IInv, Still
  <2>4. StateType' /\ Apart'
    BY <2>2 DEF IInv, StateType, Apart
  <2>5. Selection'
    BY <2>2 DEF IInv, Selection, Missing, db
  <2> QED
    BY <2>1, <2>3, <2>4, <2>5 DEF IInv
<1> QED
  BY <1>1, <1>2, <1>3, NextIsAStep

-----------------------------------------------------------------------------
(* The theorems. *)

THEOREM Invariance == Spec => []IInv
<1>1. IInv /\ [Next]_vars => IInv'
  BY NextKeeps
<1> QED
  BY <1>1, InitInv, PTL DEF Spec

\* The rows are always those the schema admits, and each process is where its
\* code can be (types.go:13-60).
THEOREM TypeCorrect == Spec => []TypeOK
<1>1. IInv => TypeOK
  BY DEF IInv, DbType, StateType, Selection, TypeOK
<1> QED
  BY <1>1, Invariance, PTL

\* A row under an Id shows that the reorg has one too.
LEMMA StoredUnderReorg ==
  ASSUME DbType, NEW key, NEW h, RowsOf(key, h) # {}
  PROVE  HasReorg(key)
BY DEF DbType, RowsOf

\* When the handler returns, the reorg and its blocks are stored, but for those
\* that a failure cost it (main.go:82-108).
THEOREM HandlerStores == Spec => HandledIsStored
<1>1. IInv /\ [Next]_vars =>
        [HandlerReturns =>
           \A h \in reorg["monitor"].BlocksInvolved \ failed["monitor"] :
             LET key == Id(reorg["monitor"])
             IN HasReorg(key) /\ RowsOf(key, h) # {}]_vars
  <2> SUFFICES ASSUME IInv, HandlerReturns,
                      NEW h \in reorg["monitor"].BlocksInvolved \ failed["monitor"]
               PROVE  HasReorg(Id(reorg["monitor"])) /\ RowsOf(Id(reorg["monitor"]), h) # {}
    OBVIOUS
  <2>1. Progress("monitor") /\ DbType /\ pc["monitor"] = "return"
    BY DEF IInv, HandlerReturns, Writer
  <2>2. h \in Needed("monitor")
    BY DEF Needed
  <2>3. RowsOf(Id(reorg["monitor"]), h) # {}
    BY <2>1, <2>2 DEF Progress, Stored
  <2> QED
    BY <2>1, <2>3, StoredUnderReorg
<1> QED
  BY <1>1, Invariance, PTL DEF Spec, HandledIsStored

\* When addUncle returns after its second block, without an error of the
\* database, the reorg and both blocks are stored (main.go:173-204).
THEOREM AdderStores == Spec => AddedUncleIsStored
<1>1. IInv /\ [Next]_vars =>
        [UncleReturns /\ todo["uncles"] = {} /\ failed["uncles"] = {} =>
           \A h \in reorg["uncles"].BlocksInvolved :
             LET key == Id(reorg["uncles"])
             IN HasReorg(key) /\ RowsOf(key, h) # {}]_vars
  <2> SUFFICES ASSUME IInv, UncleReturns, todo["uncles"] = {}, failed["uncles"] = {},
                      NEW h \in reorg["uncles"].BlocksInvolved
               PROVE  HasReorg(Id(reorg["uncles"])) /\ RowsOf(Id(reorg["uncles"]), h) # {}
    OBVIOUS
  <2>1. Progress("uncles") /\ DbType /\ pc["uncles"] = "return"
    BY DEF IInv, UncleReturns, Writer
  <2>2. h \in Needed("uncles")
    BY DEF Needed
  <2>3. RowsOf(Id(reorg["uncles"]), h) # {}
    BY <2>1, <2>2 DEF Progress, Stored
  <2> QED
    BY <2>1, <2>3, StoredUnderReorg
<1> QED
  BY <1>1, Invariance, PTL DEF Spec, AddedUncleIsStored

\* A simulation that was stored is never overwritten, however old the list of
\* simulate-missing is (simulate-missing/main.go:48-83).
THEOREM SimulationsStay == Spec => KeepsSimulations
<1>1. IInv /\ [Next]_vars =>
        [\A i \in DOMAIN reorg_block : reorg_block[i].Simulated # Nil =>
           reorg_block'[i].Simulated = reorg_block[i].Simulated]_vars
  BY NextKeeps DEF Grows
<1> QED
  BY <1>1, Invariance, PTL DEF Spec, KeepsSimulations

-----------------------------------------------------------------------------
(* Rows that two processes insert for the same block (dbservice.go:69-83). *)

\* The writers that found no row of h under key and are about to insert one.
Inserting(key, h) ==
  {p \in Writer : /\ pc[p] = "insert block"
                  /\ row[p].Reorg_Key = key /\ row[p].BlockHash = h}

FewRows ==
  \A key, h : Cardinality(RowsOf(key, h)) + Cardinality(Inserting(key, h))
                <= Cardinality(Writer)

LEMMA FiniteRows ==
  ASSUME DbType, NEW key, NEW h
  PROVE  /\ IsFiniteSet(RowsOf(key, h)) /\ Cardinality(RowsOf(key, h)) \in Nat
         /\ IsFiniteSet(Inserting(key, h)) /\ Cardinality(Inserting(key, h)) \in Nat
         /\ Cardinality(Inserting(key, h)) <= Cardinality(Writer)
         /\ IsFiniteSet(Writer) /\ Cardinality(Writer) \in Nat
<1>1. DOMAIN reorg_block = 1..Len(reorg_block) /\ Len(reorg_block) \in Nat
  BY DEF DbType
<1>2. RowsOf(key, h) \subseteq 1..Len(reorg_block) /\ IsFiniteSet(1..Len(reorg_block))
  BY <1>1, FS_Interval DEF RowsOf
<1>3. Inserting(key, h) \subseteq Writer
  BY DEF Inserting
<1>4. IsFiniteSet(Writer)
  <2>1. IsFiniteSet({} \cup {"monitor"})
    BY FS_EmptySet, FS_AddElement
  <2>2. IsFiniteSet(({} \cup {"monitor"}) \cup {"uncles"})
    BY <2>1, FS_AddElement
  <2>3. Writer = ({} \cup {"monitor"}) \cup {"uncles"}
    BY DEF Writer
  <2> QED
    BY <2>2, <2>3
<1> QED
  BY <1>2, <1>3, <1>4, FS_Subset, FS_CardinalityType

\* A step that adds no row and after which no other writer is about to add one.
LEMMA FewerKeep ==
  ASSUME DbType, DbType', FewRows, SameRows,
         \A key, h : Inserting(key, h)' \subseteq Inserting(key, h)
  PROVE  FewRows'
<1> SUFFICES ASSUME NEW key, NEW h
             PROVE  Cardinality(RowsOf(key, h)') + Cardinality(Inserting(key, h)')
                      <= Cardinality(Writer)
  BY DEF FewRows
<1>1. Cardinality(RowsOf(key, h)') = Cardinality(RowsOf(key, h))
  BY DEF SameRows
<1>2. /\ Cardinality(Inserting(key, h)') <= Cardinality(Inserting(key, h))
      /\ Cardinality(Inserting(key, h)') \in Nat
  <2>1. IsFiniteSet(Inserting(key, h)) /\ Inserting(key, h)' \subseteq Inserting(key, h)
    BY FiniteRows
  <2> QED
    BY <2>1, FS_Subset, FS_CardinalityType
<1>3. Cardinality(RowsOf(key, h)) + Cardinality(Inserting(key, h)) <= Cardinality(Writer)
  BY DEF FewRows
<1>4. /\ Cardinality(RowsOf(key, h)) \in Nat /\ Cardinality(Inserting(key, h)) \in Nat
      /\ Cardinality(Writer) \in Nat
  BY FiniteRows
<1> QED
  BY <1>1, <1>2, <1>3, <1>4

\* After a step of p, the others are about to insert what they were before.
LEMMA OthersInsert ==
  ASSUME NEW p \in Writer, \A q \in Writer \ {p} : Still(q), NEW key, NEW h
  PROVE  /\ Inserting(key, h)' \subseteq Inserting(key, h) \cup {p}
         /\ pc'[p] # "insert block" => Inserting(key, h)' = Inserting(key, h) \ {p}
BY DEF Inserting, Still

\* The steps of a writer that add no row and find none missing.
LEMMA OtherSteps ==
  ASSUME IInv, NEW p \in Writer,
         \/ CountReorg(p) \/ AddReorg(p) \/ Restart(p)
         \/ p = "monitor" /\ \/ \E r \in Reorg : TakeReorg(r)
                             \/ \E h \in todo["monitor"] : NextBlock(h)
                             \/ NoMoreBlocks \/ HandlerReturns
         \/ p = "uncles" /\ \/ \E b \in Hash, u \in Hash : AddUncle(u, b)
                            \/ Download \/ DateReorg \/ NextEntry \/ DateBlocks \/ UncleReturns
  PROVE  SameRows /\ pc'[p] # "insert block"
<1>1. DbType /\ StateType /\ p \in Process /\ Working(p)
  BY DEF IInv, Process
<1>2. ReorgStatement
  <2>1. CASE AddReorg(p)
    <3> DEFINE entry == NewReorgEntry(reorg[p])
    <3>1. entry \in ReorgRow
      BY <1>1, <2>1 DEF AddReorg, Working, NewReorgEntry, ReorgRow, Created
    <3>2. UNCHANGED db \/ InsertReorg(entry)
      BY <2>1 DEF AddReorg
    <3> HIDE DEF entry
    <3> QED
      BY <3>1, <3>2 DEF ReorgStatement
  <2>2. CASE p = "uncles" /\ (DateReorg \/ DateBlocks)
    <3>1. UNCHANGED db \/ SetReorgTime(Id(reorg[p])) \/ SetBlockTimes(Id(reorg[p]))
      BY <2>2 DEF DateReorg, DateBlocks, Date
    <3>2. Id(reorg[p]) \in IdType
      BY <1>1, <2>2 DEF DateReorg, DateBlocks, Date, Working
    <3> QED
      BY <3>1, <3>2 DEF ReorgStatement
  <2> QED
    BY <2>1, <2>2 DEF ReorgStatement, CountReorg, Restart, TakeReorg, NextBlock, NoMoreBlocks,
       HandlerReturns, AddUncle, Download, NextEntry, UncleReturns
<1>3. PICK place \in Place \ {"insert block"} : Goto(p, place)
  <2> USE DEF Place
  <2>1. CASE CountReorg(p)
    BY <2>1 DEF CountReorg, OnError
  <2>2. CASE AddReorg(p)
    BY <2>2 DEF AddReorg, OnError, AfterReorg
  <2>3. CASE Restart(p)
    BY <2>3 DEF Restart
  <2>4. CASE p = "monitor" /\ \/ \E r \in Reorg : TakeReorg(r)
                              \/ \E h \in todo["monitor"] : NextBlock(h)
                              \/ NoMoreBlocks \/ HandlerReturns
    BY <2>4 DEF TakeReorg, NextBlock, NoMoreBlocks, HandlerReturns
  <2>5. CASE p = "uncles" /\ \/ \E b \in Hash, u \in Hash : AddUncle(u, b)
                             \/ Download \/ NextEntry \/ UncleReturns
    BY <2>5 DEF AddUncle, Download, NextEntry, UncleReturns
  <2>6. CASE p = "uncles" /\ (DateReorg \/ DateBlocks)
    BY <2>6 DEF DateReorg, DateBlocks, Date
  <2> QED
    BY <2>1, <2>2, <2>3, <2>4, <2>5, <2>6
<1> QED
  BY <1>1, <1>2, <1>3, Moves, ReorgStatementGrows

LEMMA CountKeepsFew ==
  ASSUME IInv, FewRows, NEW p \in Writer, CountBlock(p)
  PROVE  FewRows'
<1>1. /\ StepOf(p) /\ DbType /\ DbType' /\ SameRows /\ pc[p] = "count block"
      /\ UNCHANGED <<db, row>>
  BY CountBlockSteps, WriterKeeps, NoSimulation DEF IInv, CountBlock
<1>2. \A q \in Writer \ {p} : Still(q)
  BY <1>1 DEF StepOf
<1>3. CASE pc'[p] # "insert block"
  <2>1. ASSUME NEW key, NEW h PROVE Inserting(key, h)' \subseteq Inserting(key, h)
    <3>1. Inserting(key, h)' = Inserting(key, h) \ {p}
      BY <1>2, <1>3, OthersInsert
    <3> QED
      BY <3>1
  <2> QED
    BY <1>1, <2>1, FewerKeep
<1>4. CASE pc'[p] = "insert block"
  <2>1. ~ IsStored(row[p])
    BY <1>1, <1>4 DEF CountBlock, Goto, OnError, IInv, StateType, Process, Writer
  <2> SUFFICES ASSUME NEW key, NEW h
               PROVE  Cardinality(RowsOf(key, h)') + Cardinality(Inserting(key, h)')
                        <= Cardinality(Writer)
    BY DEF FewRows
  <2>2. RowsOf(key, h)' = RowsOf(key, h)
    BY <1>1 DEF SameRows
  <2>3. CASE p \notin Inserting(key, h)'
    <3>1. Inserting(key, h)' \subseteq Inserting(key, h)
      <4>1. Inserting(key, h)' \subseteq Inserting(key, h) \cup {p}
        BY <1>2, OthersInsert
      <4> QED
        BY <2>3, <4>1
    <3>2. IsFiniteSet(Inserting(key, h)) /\ Cardinality(RowsOf(key, h)) \in Nat
          /\ Cardinality(Inserting(key, h)) \in Nat /\ Cardinality(Writer) \in Nat
      BY <1>1, FiniteRows
    <3>3. /\ Cardinality(Inserting(key, h)') <= Cardinality(Inserting(key, h))
          /\ Cardinality(Inserting(key, h)') \in Nat
      BY <3>1, <3>2, FS_Subset, FS_CardinalityType
    <3> QED
      BY <2>2, <3>2, <3>3 DEF FewRows
  <2>4. CASE p \in Inserting(key, h)'
    <3>1. RowsOf(key, h) = {}
      BY <1>1, <2>1, <2>4 DEF Inserting, IsStored
    <3>2. Inserting(key, h)' \subseteq Writer /\ IsFiniteSet(Writer) /\ Cardinality(Writer) \in Nat
      BY <1>1, FiniteRows DEF Inserting
    <3>3. /\ Cardinality(Inserting(key, h)') <= Cardinality(Writer)
          /\ Cardinality(Inserting(key, h)') \in Nat
      BY <3>2, FS_Subset, FS_CardinalityType
    <3> QED
      BY <2>2, <3>1, <3>2, <3>3, FS_EmptySet
  <2> QED
    BY <2>3, <2>4
<1> QED
  BY <1>3, <1>4

LEMMA AddKeepsFew ==
  ASSUME IInv, FewRows, NEW p \in Writer, AddBlock(p)
  PROVE  FewRows'
<1>1. /\ StepOf(p) /\ DbType /\ DbType' /\ pc[p] = "insert block" /\ p \in Process
      /\ StateType /\ Working(p)
  BY AddBlockSteps, WriterKeeps DEF IInv, AddBlock, Process
<1>2. pc'[p] # "insert block"
  BY <1>1 DEF AddBlock, Goto, OnError, AfterBlock, StateType
<1>3. \A key, h : Inserting(key, h)' = Inserting(key, h) \ {p}
  BY <1>1, <1>2, OthersInsert DEF StepOf
<1>4. CASE UNCHANGED db
  BY <1>1, <1>3, <1>4, NoSimulation, FewerKeep
<1>5. CASE InsertBlock(row[p])
  <2> SUFFICES ASSUME NEW key, NEW h
               PROVE  Cardinality(RowsOf(key, h)') + Cardinality(Inserting(key, h)')
                        <= Cardinality(Writer)
    BY DEF FewRows
  <2>1. row[p] \in BlockRow
    BY <1>1 DEF Working, AddingBlock
  <2>2. RowsOf(key, h)' =
          IF row[p].Reorg_Key = key /\ row[p].BlockHash = h
          THEN RowsOf(key, h) \cup {Len(reorg_block) + 1} ELSE RowsOf(key, h)
    BY <1>1, <1>5, <2>1, InsertBlockGrows
  <2>3. /\ IsFiniteSet(RowsOf(key, h)) /\ Cardinality(RowsOf(key, h)) \in Nat
        /\ IsFiniteSet(Inserting(key, h)) /\ Cardinality(Inserting(key, h)) \in Nat
        /\ Cardinality(Writer) \in Nat
    BY <1>1, FiniteRows
  <2>4. Cardinality(RowsOf(key, h)) + Cardinality(Inserting(key, h)) <= Cardinality(Writer)
    BY DEF FewRows
  <2>5. CASE p \in Inserting(key, h)
    <3>1. Cardinality(Inserting(key, h)') = Cardinality(Inserting(key, h)) - 1
      BY <1>3, <2>3, <2>5, FS_RemoveElement
    <3>2. Len(reorg_block) + 1 \notin RowsOf(key, h)
      <4>1. reorg_block \in Seq(BlockRow)
        BY <1>1 DEF DbType
      <4>2. DOMAIN reorg_block = 1..Len(reorg_block) /\ Len(reorg_block) \in Nat
        BY <4>1, LenProperties
      <4> QED
        BY <4>2 DEF RowsOf
    <3>3. Cardinality(RowsOf(key, h)') = Cardinality(RowsOf(key, h)) + 1
      BY <2>2, <2>3, <2>5, <3>2, FS_AddElement DEF Inserting
    <3> QED
      BY <2>3, <2>4, <3>1, <3>3
  <2>6. CASE p \notin Inserting(key, h)
    <3>1. Inserting(key, h)' = Inserting(key, h)
      BY <1>3, <2>6
    <3>2. ~ (row[p].Reorg_Key = key /\ row[p].BlockHash = h)
      BY <1>1, <2>6 DEF Inserting
    <3> QED
      BY <2>2, <2>4, <3>1, <3>2
  <2> QED
    BY <2>5, <2>6
<1> QED
  BY <1>4, <1>5 DEF AddBlock

LEMMA NextKeepsFew ==
  ASSUME IInv, FewRows, [Next]_vars
  PROVE  FewRows'
<1>1. DbType /\ DbType'
  BY NextKeeps DEF IInv
<1>2. ASSUME SimulatorStep PROVE FewRows'
  <2>1. \A key, h : Inserting(key, h)' = Inserting(key, h)
    BY <1>2 DEF SimulatorStep, Still, Inserting
  <2> QED
    BY <1>1, <1>2, <2>1, FewerKeep DEF SimulatorStep
<1>3. ASSUME NEW p \in Writer, StepOf(p), SameRows, pc'[p] # "insert block" PROVE FewRows'
  <2>1. ASSUME NEW key, NEW h PROVE Inserting(key, h)' \subseteq Inserting(key, h)
    <3>1. Inserting(key, h)' = Inserting(key, h) \ {p}
      BY <1>3, OthersInsert DEF StepOf
    <3> QED
      BY <3>1
  <2> QED
    BY <1>1, <1>3, <2>1, FewerKeep
<1>4. "monitor" \in Writer /\ "uncles" \in Writer
  BY DEF Writer
<1>5. ASSUME NEW p \in Writer, Add(p) PROVE FewRows'
  <2>1. CASE CountReorg(p)
    BY <1>3, <2>1, OtherSteps, CountReorgSteps
  <2>2. CASE AddReorg(p)
    BY <1>3, <2>2, OtherSteps, AddReorgSteps
  <2> QED
    BY <1>5, <2>1, <2>2, CountKeepsFew, AddKeepsFew DEF Add
<1>6. CASE \/ \E r \in Reorg : TakeReorg(r)
           \/ \E h \in todo["monitor"] : NextBlock(h)
           \/ NoMoreBlocks \/ HandlerReturns
  BY <1>3, <1>4, <1>6, HandlerSteps, OtherSteps
<1>7. CASE \E b \in Hash, u \in Hash : AddUncle(u, b)
  BY <1>3, <1>4, <1>7, AddUncleSteps, OtherSteps
<1>8. CASE DateReorg \/ DateBlocks
  BY <1>3, <1>4, <1>8, DateSteps, OtherSteps
<1>9. CASE Download \/ NextEntry \/ UncleReturns
  BY <1>3, <1>4, <1>9, UncleSteps, OtherSteps
<1>10. CASE Select \/ Simulate \/ Restart("simulator")
  BY <1>2, <1>10, SimulatorSteps
<1>11. ASSUME NEW p \in Writer, Restart(p) PROVE FewRows'
  BY <1>3, <1>11, RestartSteps, OtherSteps
<1>12. CASE UNCHANGED vars
  <2>1. SameRows /\ \A key, h : Inserting(key, h)' = Inserting(key, h)
    BY <1>12 DEF SameRows, RowsOf, Inserting, vars, db, work
  <2> QED
    BY <1>1, <2>1, FewerKeep
<1> QED
  BY <1>4, <1>5, <1>6, <1>7, <1>8, <1>9, <1>10, <1>11, <1>12
  DEF Next, Handler, UncleAdder, Process

\* A block is stored under a reorg at most once by each writer, though each
\* looks for the row and inserts it in two statements (dbservice.go:69-83).
THEOREM OneRowEach == Spec => []OneRowPerWriter
<1>1. Init => FewRows
  <2> SUFFICES ASSUME Init, NEW key, NEW h
               PROVE  Cardinality(RowsOf(key, h)) + Cardinality(Inserting(key, h))
                        <= Cardinality(Writer)
    BY DEF FewRows
  <2>1. DbType
    BY InitInv DEF IInv
  <2>2. RowsOf(key, h) = {}
    <3>1. reorg_block = <<>> /\ DOMAIN reorg_block = 1..0
      BY DEF Init, NoRows
    <3> QED
      BY <3>1 DEF RowsOf
  <2>3. Cardinality(RowsOf(key, h)) = 0
    BY <2>2, FS_EmptySet
  <2>4. /\ Cardinality(Inserting(key, h)) <= Cardinality(Writer)
        /\ Cardinality(Inserting(key, h)) \in Nat
    BY <2>1, FiniteRows
  <2> QED
    BY <2>3, <2>4
<1>2. IInv /\ FewRows /\ [Next]_vars => FewRows'
  BY NextKeepsFew
<1>3. FewRows => OneRowPerWriter
  BY DEF FewRows, OneRowPerWriter, Inserting
<1> QED
  BY <1>1, <1>2, <1>3, Invariance, PTL DEF Spec
=============================================================================

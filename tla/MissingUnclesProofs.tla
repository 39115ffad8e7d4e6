------------------------ MODULE MissingUnclesProofs ------------------------
(* The safety properties of MissingUncles, for every range of heights, every *)
(* number of workers and every capacity of the channels.                     *)
EXTENDS MissingUncles, TLAPS, SequenceTheorems

In(s, h) == \E i \in 1..Len(s) : s[i] = h

\* A height that was pushed is waiting, in work or done with.
Somewhere(h) ==
  \/ h \in processed \cup lost \/ block = h
  \/ In(blockHeightChan, h) \/ In(blockChan, h)
  \/ \E w \in Worker : held[w] = h

NothingIsLost == \A h \in Height : h < currentBlockNumber => Somewhere(h)

HeldIsInWork ==
  /\ startBlock <= currentBlockNumber
  /\ \A w \in Worker : held[w] # NoBlock => worker[w] \in {"download", "send"}
  /\ \A w \in Worker : worker[w] \in {"download", "send"} => held[w] \in Height
  /\ block # NoBlock => processor = "uncles"
  /\ processor = "uncles" => block \in Height

\* What is over stays over.
Ended ==
  /\ heightsClosed => currentBlockNumber > endBlock /\ main # "push"
  /\ main \in {"wait", "close", "lock", "exit"} => heightsClosed
  /\ \A w \in Worker : worker[w] = "done" => heightsClosed /\ blockHeightChan = <<>>
  /\ main \in {"close", "lock", "exit"} => PoolIsDone
  /\ blocksClosed => PoolIsDone /\ main \in {"lock", "exit", "panic"}
  /\ processor = "done" => blocksClosed /\ blockChan = <<>>

LockIsHeld ==
  /\ processor \in {"receive", "uncles"} => analyzeLock = "processor"
  /\ main = "exit" => analyzeLock = "main"

IInv == TypeOK /\ NothingIsLost /\ HeldIsInWork /\ Ended /\ LockIsHeld

\* What a receive leaves in a channel.
LEMMA InTail ==
  ASSUME NEW S, NEW s \in Seq(S), s # <<>>
  PROVE  /\ Head(s) \in S /\ Tail(s) \in Seq(S) /\ Len(Tail(s)) = Len(s) - 1
         /\ \A h : In(s, h) => h = Head(s) \/ In(Tail(s), h)
<1>1. /\ Head(s) \in S /\ Tail(s) \in Seq(S) /\ Len(Tail(s)) = Len(s) - 1
      /\ Head(s) = s[1] /\ Len(s) \in Nat /\ Len(s) > 0
      /\ \A i \in 1..Len(Tail(s)) : Tail(s)[i] = s[i + 1]
  BY HeadTailProperties, EmptySeq, LenProperties
<1>2. ASSUME NEW h, NEW i \in 1..Len(s), s[i] = h, h # Head(s)
      PROVE  In(Tail(s), h)
  <2>1. i # 1 /\ i \in Int
    BY <1>1, <1>2
  <2>2. i - 1 \in 1..Len(Tail(s)) /\ (i - 1) + 1 = i
    BY <1>1, <2>1
  <2>3. Tail(s)[i - 1] = s[i]
    BY <1>1, <2>2
  <2> QED
    BY <2>2, <2>3, <1>2 DEF In
<1> QED
  BY <1>1, <1>2 DEF In

\* What a send puts into a channel.
LEMMA InAppend ==
  ASSUME NEW S, NEW s \in Seq(S), NEW x \in S
  PROVE  /\ Append(s, x) \in Seq(S) /\ Len(Append(s, x)) = Len(s) + 1
         /\ In(Append(s, x), x)
         /\ \A h : In(s, h) => In(Append(s, x), h)
<1>1. /\ Append(s, x) \in Seq(S) /\ Len(Append(s, x)) = Len(s) + 1
      /\ \A i \in 1..Len(s) : Append(s, x)[i] = s[i]
      /\ Append(s, x)[Len(s) + 1] = x /\ Len(s) \in Nat
  BY AppendProperties, LenProperties
<1>2. In(Append(s, x), x)
  <2>1. Len(s) + 1 \in 1..Len(Append(s, x))
    BY <1>1
  <2> QED
    BY <1>1, <2>1 DEF In
<1>3. ASSUME NEW h, NEW i \in 1..Len(s), s[i] = h
      PROVE  In(Append(s, x), h)
  <2>1. i \in 1..Len(Append(s, x))
    BY <1>1
  <2> QED
    BY <1>1, <2>1, <1>3 DEF In
<1> QED
  BY <1>1, <1>2, <1>3 DEF In

LEMMA IInvInit == Init => IInv
<1> SUFFICES ASSUME Init PROVE IInv
  OBVIOUS
<1>1. TypeOK
  <2>1. /\ <<>> \in Seq(Height) /\ Len(<<>>) = 0 /\ HeightCap \in Nat /\ BlockCap \in Nat
        /\ HeightCap >= 0 /\ BlockCap >= 0 /\ startBlock \in Int
    BY MissingUnclesAssumption DEF MissingUnclesAssumption
  <2>2. /\ worker \in [Worker -> {"receive", "download", "send", "done"}]
        /\ held \in [Worker -> Height \cup {NoBlock}]
    BY DEF Init
  <2> QED
    BY <2>1, <2>2 DEF Init, TypeOK
<1>2. NothingIsLost
  BY MissingUnclesAssumption DEF MissingUnclesAssumption, Init, NothingIsLost, Height
<1>3. HeldIsInWork /\ Ended /\ LockIsHeld
  BY MissingUnclesAssumption DEF MissingUnclesAssumption, Init, HeldIsInWork, Ended, LockIsHeld
<1> QED
  BY <1>1, <1>2, <1>3 DEF IInv

\* A worker sends a height of the range: HeldIsInWork says so.
LEMMA TypeStep == TypeOK /\ HeldIsInWork /\ [Next]_vars => TypeOK'
<1> SUFFICES ASSUME TypeOK, HeldIsInWork, [Next]_vars PROVE TypeOK'
  OBVIOUS
<1> USE DEF getBlocks, pool, blocks, analysis
<1>1. CASE Push
  <2>1. currentBlockNumber \in Height
    BY <1>1, MissingUnclesAssumption DEF MissingUnclesAssumption, Push, HeightsLeft, HeldIsInWork, TypeOK, Height
  <2>2. blockHeightChan' \in Seq(Height) /\ Len(blockHeightChan') = Len(blockHeightChan) + 1
    BY <1>1, <2>1, InAppend DEF Push, TypeOK
  <2>3. Len(blockHeightChan') <= HeightCap
    BY <1>1, <2>2, LenProperties, MissingUnclesAssumption DEF MissingUnclesAssumption, Push, TypeOK
  <2> QED
    BY <1>1, <2>2, <2>3 DEF Push, TypeOK
<1>2. CASE CloseHeights
  BY <1>2 DEF CloseHeights, TypeOK
<1>3. CASE Wait
  BY <1>3 DEF Wait, TypeOK
<1>4. CASE Lock
  BY <1>4 DEF Lock, TakeLock, TypeOK
<1>5. CASE TakeBlock
  <2>1. /\ Head(blockChan) \in Height /\ blockChan' \in Seq(Height)
        /\ Len(blockChan') = Len(blockChan) - 1 /\ Len(blockChan) \in Nat
    BY <1>5, InTail, LenProperties DEF TakeBlock, TypeOK
  <2>2. Len(blockChan') <= BlockCap /\ unclesLeft' \in Nat
    BY <1>5, <2>1, MissingUnclesAssumption DEF MissingUnclesAssumption, TakeBlock, TypeOK
  <2> QED
    BY <1>5, <2>1, <2>2 DEF TakeBlock, TypeOK
<1>6. CASE NextUncle
  BY <1>6 DEF NextUncle, TypeOK
<1>7. CASE Panic
  BY <1>7 DEF Panic, TypeOK
<1>8. CASE BlockIsDone
  BY <1>8 DEF BlockIsDone, TypeOK, HeldIsInWork
<1>9. CASE Unlock
  BY <1>9 DEF Unlock, TypeOK
<1>10. CASE CloseBlocks
  BY <1>10 DEF CloseBlocks, TypeOK
<1>11. CASE Exit
  BY <1>11 DEF Exit, TypeOK
<1>12. ASSUME NEW w \in Worker, Receive(w) PROVE TypeOK'
  <2>1. /\ Head(blockHeightChan) \in Height /\ blockHeightChan' \in Seq(Height)
        /\ Len(blockHeightChan') = Len(blockHeightChan) - 1 /\ Len(blockHeightChan) \in Nat
    BY <1>12, InTail, LenProperties DEF Receive, TypeOK
  <2>2. Len(blockHeightChan') <= HeightCap
    BY <1>12, <2>1, MissingUnclesAssumption DEF MissingUnclesAssumption, Receive, TypeOK
  <2> QED
    BY <1>12, <2>1, <2>2 DEF Receive, TypeOK
<1>13. ASSUME NEW w \in Worker, Download(w) PROVE TypeOK'
  BY <1>13 DEF Download, TypeOK
<1>14. ASSUME NEW w \in Worker, DownloadFails(w) PROVE TypeOK'
  BY <1>14 DEF DownloadFails, AfterError, TypeOK, HeldIsInWork
<1>15. ASSUME NEW w \in Worker, Send(w) PROVE TypeOK'
  <2>1. held[w] \in Height
    BY <1>15 DEF Send, HeldIsInWork
  <2>2. /\ blockChan' \in Seq(Height) /\ Len(blockChan') = Len(blockChan) + 1
        /\ Len(blockChan) \in Nat
    BY <1>15, <2>1, InAppend, LenProperties DEF Send, SendBlock, TypeOK
  <2>3. Len(blockChan') <= BlockCap
    BY <1>15, <2>2, MissingUnclesAssumption DEF MissingUnclesAssumption, Send, SendBlock, TypeOK
  <2> QED
    BY <1>15, <2>2, <2>3 DEF Send, TypeOK
<1>16. ASSUME NEW w \in Worker, Done(w) PROVE TypeOK'
  BY <1>16 DEF Done, TypeOK
<1>17. CASE UNCHANGED vars
  BY <1>17 DEF vars, TypeOK
<1> QED
  BY <1>1, <1>2, <1>3, <1>4, <1>5, <1>6, <1>7, <1>8, <1>9, <1>10, <1>11, <1>12, <1>13, <1>14, <1>15, <1>16, <1>17 DEF Next, Main, Work, Processor

LEMMA HeldStep == TypeOK /\ HeldIsInWork /\ [Next]_vars => HeldIsInWork'
<1> SUFFICES ASSUME TypeOK, HeldIsInWork, [Next]_vars PROVE HeldIsInWork'
  OBVIOUS
<1> USE DEF getBlocks, pool, blocks, analysis
<1>1. CASE Push
  <2>1. startBlock <= currentBlockNumber'
    BY <1>1, MissingUnclesAssumption DEF MissingUnclesAssumption, Push, HeldIsInWork, TypeOK
  <2> QED
    BY <1>1, <2>1 DEF Push, HeldIsInWork
<1>2. CASE CloseHeights
  BY <1>2 DEF CloseHeights, HeldIsInWork, TypeOK
<1>3. CASE Wait
  BY <1>3 DEF Wait, HeldIsInWork, TypeOK
<1>4. CASE Lock
  BY <1>4 DEF Lock, HeldIsInWork
<1>5. CASE TakeBlock
  <2>1. Head(blockChan) \in Height
    BY <1>5, InTail DEF TakeBlock, TypeOK
  <2> QED
    BY <1>5, <2>1 DEF TakeBlock, HeldIsInWork
<1>6. CASE NextUncle
  BY <1>6 DEF NextUncle, HeldIsInWork, TypeOK
<1>7. CASE Panic
  BY <1>7 DEF Panic, HeldIsInWork, TypeOK
<1>8. CASE BlockIsDone
  BY <1>8 DEF BlockIsDone, HeldIsInWork, TypeOK
<1>9. CASE Unlock
  BY <1>9 DEF Unlock, HeldIsInWork, TypeOK
<1>10. CASE CloseBlocks
  BY <1>10 DEF CloseBlocks, HeldIsInWork, TypeOK
<1>11. CASE Exit
  BY <1>11 DEF Exit, HeldIsInWork, TypeOK
<1>12. ASSUME NEW w \in Worker, Receive(w) PROVE HeldIsInWork'
  <2>1. Head(blockHeightChan) \in Height
    BY <1>12, InTail DEF Receive, TypeOK
  <2> QED
    BY <1>12, <2>1 DEF Receive, HeldIsInWork, TypeOK
<1>13. ASSUME NEW w \in Worker, Download(w) PROVE HeldIsInWork'
  BY <1>13 DEF Download, HeldIsInWork, TypeOK
<1>14. ASSUME NEW w \in Worker, DownloadFails(w) PROVE HeldIsInWork'
  BY <1>14 DEF DownloadFails, AfterError, TypeOK, HeldIsInWork
<1>15. ASSUME NEW w \in Worker, Send(w) PROVE HeldIsInWork'
  BY <1>15 DEF Send, HeldIsInWork, TypeOK
<1>16. ASSUME NEW w \in Worker, Done(w) PROVE HeldIsInWork'
  BY <1>16 DEF Done, HeldIsInWork, TypeOK
<1>17. CASE UNCHANGED vars
  BY <1>17 DEF vars, HeldIsInWork, TypeOK
<1> QED
  BY <1>1, <1>2, <1>3, <1>4, <1>5, <1>6, <1>7, <1>8, <1>9, <1>10, <1>11, <1>12, <1>13, <1>14, <1>15, <1>16, <1>17 DEF Next, Main, Work, Processor

\* The heights are closed once all were pushed, the blocks once no worker runs.
LEMMA EndedStep == TypeOK /\ Ended /\ [Next]_vars => Ended'
<1> SUFFICES ASSUME TypeOK, Ended, [Next]_vars PROVE Ended'
  OBVIOUS
<1> USE DEF getBlocks, pool, blocks, analysis
<1>1. CASE Push
  <2>1. heightsClosed = FALSE /\ \A w \in Worker : worker[w] # "done"
    BY <1>1 DEF Push, Ended, TypeOK
  <2> QED
    BY <1>1, <2>1 DEF Push, Ended, PoolIsDone
<1>2. CASE CloseHeights
  <2>1. currentBlockNumber > endBlock
    BY <1>2, MissingUnclesAssumption DEF MissingUnclesAssumption, CloseHeights, HeightsLeft, TypeOK
  <2> QED
    BY <1>2, <2>1 DEF CloseHeights, Ended, PoolIsDone
<1>3. CASE Wait
  BY <1>3 DEF Wait, Ended, PoolIsDone
<1>4. CASE Lock
  BY <1>4 DEF Lock, Ended, PoolIsDone
<1>5. CASE TakeBlock
  BY <1>5 DEF TakeBlock, Ended, PoolIsDone
<1>6. CASE NextUncle
  BY <1>6 DEF NextUncle, Ended, PoolIsDone
<1>7. CASE Panic
  BY <1>7 DEF Panic, Ended, PoolIsDone
<1>8. CASE BlockIsDone
  BY <1>8 DEF BlockIsDone, Ended, PoolIsDone
<1>9. CASE Unlock
  BY <1>9 DEF Unlock, Ended, PoolIsDone
<1>10. CASE CloseBlocks
  BY <1>10 DEF CloseBlocks, Ended, PoolIsDone
<1>11. CASE Exit
  BY <1>11 DEF Exit, Ended, PoolIsDone
<1>12. ASSUME NEW w \in Worker, Receive(w) PROVE Ended'
  <2>1. \A v \in Worker : worker[v] # "done"
    BY <1>12 DEF Receive, Ended
  <2>2. \A v \in Worker : worker'[v] # "done"
    BY <1>12, <2>1 DEF Receive, TypeOK
  <2> QED
    BY <1>12, <2>1, <2>2 DEF Receive, Ended, PoolIsDone
<1>13. ASSUME NEW w \in Worker, Download(w) PROVE Ended'
  BY <1>13 DEF Download, Ended, PoolIsDone, TypeOK
<1>14. ASSUME NEW w \in Worker, DownloadFails(w) PROVE Ended'
  BY <1>14 DEF DownloadFails, AfterError, Ended, PoolIsDone, TypeOK
<1>15. ASSUME NEW w \in Worker, Send(w) PROVE Ended'
  <2>1. ~ PoolIsDone /\ blocksClosed = FALSE
    BY <1>15 DEF Send, Ended, PoolIsDone, TypeOK
  <2>2. \A v \in Worker : worker'[v] = "done" => worker[v] = "done"
    BY <1>15 DEF Send, TypeOK
  <2> QED
    BY <1>15, <2>1, <2>2 DEF Send, Ended
<1>16. ASSUME NEW w \in Worker, Done(w) PROVE Ended'
  BY <1>16 DEF Done, Ended, PoolIsDone, TypeOK
<1>17. CASE UNCHANGED vars
  BY <1>17 DEF vars, Ended, PoolIsDone
<1> QED
  BY <1>1, <1>2, <1>3, <1>4, <1>5, <1>6, <1>7, <1>8, <1>9, <1>10, <1>11, <1>12, <1>13, <1>14, <1>15, <1>16, <1>17 DEF Next, Main, Work, Processor

LEMMA LockStep == LockIsHeld /\ [Next]_vars => LockIsHeld'
<1> SUFFICES ASSUME LockIsHeld, [Next]_vars PROVE LockIsHeld'
  OBVIOUS
<1> USE DEF getBlocks, pool, blocks, analysis
<1>1. CASE Push
  BY <1>1 DEF Push, LockIsHeld
<1>2. CASE CloseHeights
  BY <1>2 DEF CloseHeights, LockIsHeld
<1>3. CASE Wait
  BY <1>3 DEF Wait, LockIsHeld
<1>4. CASE Lock
  BY <1>4 DEF Lock, TakeLock, LockIsHeld, Running
<1>5. CASE TakeBlock
  BY <1>5 DEF TakeBlock, LockIsHeld
<1>6. CASE NextUncle
  BY <1>6 DEF NextUncle, LockIsHeld
<1>7. CASE Panic
  BY <1>7 DEF Panic, LockIsHeld
<1>8. CASE BlockIsDone
  BY <1>8 DEF BlockIsDone, LockIsHeld
<1>9. CASE Unlock
  BY <1>9 DEF Unlock, LockIsHeld, Running
<1>10. CASE CloseBlocks
  BY <1>10 DEF CloseBlocks, LockIsHeld
<1>11. CASE Exit
  BY <1>11 DEF Exit, LockIsHeld
<1>12. ASSUME NEW w \in Worker, Receive(w) PROVE LockIsHeld'
  BY <1>12 DEF Receive, LockIsHeld
<1>13. ASSUME NEW w \in Worker, Download(w) PROVE LockIsHeld'
  BY <1>13 DEF Download, LockIsHeld
<1>14. ASSUME NEW w \in Worker, DownloadFails(w) PROVE LockIsHeld'
  BY <1>14 DEF DownloadFails, LockIsHeld
<1>15. ASSUME NEW w \in Worker, Send(w) PROVE LockIsHeld'
  BY <1>15 DEF Send, LockIsHeld
<1>16. ASSUME NEW w \in Worker, Done(w) PROVE LockIsHeld'
  BY <1>16 DEF Done, LockIsHeld
<1>17. CASE UNCHANGED vars
  BY <1>17 DEF vars, LockIsHeld
<1> QED
  BY <1>1, <1>2, <1>3, <1>4, <1>5, <1>6, <1>7, <1>8, <1>9, <1>10, <1>11, <1>12, <1>13, <1>14, <1>15, <1>16, <1>17 DEF Next, Main, Work, Processor

\* A height moves from the channel to a worker, the next channel and the processor.
LEMMA NothingStep == TypeOK /\ HeldIsInWork /\ NothingIsLost /\ [Next]_vars => NothingIsLost'
<1> SUFFICES ASSUME TypeOK, HeldIsInWork, NothingIsLost, [Next]_vars PROVE NothingIsLost'
  OBVIOUS
<1> USE DEF getBlocks, pool, blocks, analysis
<1>1. CASE Push
  <2> SUFFICES ASSUME NEW h \in Height, h < currentBlockNumber' PROVE Somewhere(h)'
    BY DEF NothingIsLost
  <2>1. currentBlockNumber \in Height
    BY <1>1, MissingUnclesAssumption DEF MissingUnclesAssumption, Push, HeightsLeft, HeldIsInWork, TypeOK, Height
  <2>2. In(blockHeightChan', currentBlockNumber)
        /\ (In(blockHeightChan, h) => In(blockHeightChan', h))
    BY <1>1, <2>1, InAppend DEF Push, TypeOK
  <2>3. h < currentBlockNumber \/ h = currentBlockNumber
    BY <1>1, MissingUnclesAssumption DEF MissingUnclesAssumption, Push, TypeOK, Height
  <2>4. CASE h = currentBlockNumber
    BY <2>2, <2>4 DEF Somewhere
  <2>5. CASE h < currentBlockNumber
    BY <1>1, <2>2, <2>5 DEF Push, Somewhere, NothingIsLost
  <2> QED
    BY <2>3, <2>4, <2>5
<1>2. CASE CloseHeights
  BY <1>2 DEF CloseHeights, NothingIsLost, Somewhere
<1>3. CASE Wait
  BY <1>3 DEF Wait, NothingIsLost, Somewhere
<1>4. CASE Lock
  BY <1>4 DEF Lock, NothingIsLost, Somewhere
<1>5. CASE TakeBlock
  <2> SUFFICES ASSUME NEW h \in Height, h < currentBlockNumber, Somewhere(h) PROVE Somewhere(h)'
    BY <1>5 DEF TakeBlock, NothingIsLost
  <2>1. In(blockChan, h) => block' = h \/ In(blockChan', h)
    BY <1>5, InTail DEF TakeBlock, TypeOK
  <2>2. block # h
    BY <1>5, MissingUnclesAssumption DEF MissingUnclesAssumption, TakeBlock, HeldIsInWork, Height
  <2> QED
    BY <1>5, <2>1, <2>2 DEF TakeBlock, Somewhere
<1>6. CASE NextUncle
  BY <1>6 DEF NextUncle, NothingIsLost, Somewhere
<1>7. CASE Panic
  BY <1>7 DEF Panic, NothingIsLost, Somewhere
<1>8. CASE BlockIsDone
  BY <1>8 DEF BlockIsDone, NothingIsLost, Somewhere
<1>9. CASE Unlock
  BY <1>9 DEF Unlock, NothingIsLost, Somewhere
<1>10. CASE CloseBlocks
  BY <1>10 DEF CloseBlocks, NothingIsLost, Somewhere
<1>11. CASE Exit
  BY <1>11 DEF Exit, NothingIsLost, Somewhere
<1>12. ASSUME NEW w \in Worker, Receive(w) PROVE NothingIsLost'
  <2> SUFFICES ASSUME NEW h \in Height, h < currentBlockNumber, Somewhere(h) PROVE Somewhere(h)'
    BY <1>12 DEF Receive, NothingIsLost
  <2>1. In(blockHeightChan, h) => Head(blockHeightChan) = h \/ In(blockHeightChan', h)
    BY <1>12, InTail DEF Receive, TypeOK
  <2>2. held[w] # h
    <3>1. held[w] = NoBlock
      BY <1>12 DEF Receive, HeldIsInWork
    <3>2. h \in Int /\ NoBlock \notin Int
      BY MissingUnclesAssumption DEF MissingUnclesAssumption, Height
    <3> QED
      BY <3>1, <3>2
  <2>3. held'[w] = Head(blockHeightChan) /\ \A v \in Worker : held[v] = h => held'[v] = h
    <3>1. held \in [Worker -> Height \cup {NoBlock}] /\ held' = [held EXCEPT ![w] = Head(blockHeightChan)]
      BY <1>12 DEF Receive, TypeOK
    <3> QED
      BY <3>1, <2>2
  <2> QED
    BY <1>12, <2>1, <2>3 DEF Receive, Somewhere
<1>13. ASSUME NEW w \in Worker, Download(w) PROVE NothingIsLost'
  BY <1>13 DEF Download, NothingIsLost, Somewhere
<1>14. ASSUME NEW w \in Worker, DownloadFails(w) PROVE NothingIsLost'
  <2> SUFFICES ASSUME NEW h \in Height, h < currentBlockNumber, Somewhere(h) PROVE Somewhere(h)'
    BY <1>14 DEF DownloadFails, NothingIsLost
  <2>1. \A v \in Worker : held[v] = h => held'[v] = h \/ h \in lost'
    BY <1>14 DEF DownloadFails, TypeOK
  <2>2. lost \subseteq lost'
    BY <1>14 DEF DownloadFails
  <2> QED
    BY <1>14, <2>1, <2>2 DEF DownloadFails, Somewhere
<1>15. ASSUME NEW w \in Worker, Send(w) PROVE NothingIsLost'
  <2> SUFFICES ASSUME NEW h \in Height, h < currentBlockNumber, Somewhere(h) PROVE Somewhere(h)'
    BY <1>15 DEF Send, NothingIsLost
  <2>1. held[w] \in Height
    BY <1>15 DEF Send, HeldIsInWork
  <2>2. In(blockChan', held[w]) /\ (In(blockChan, h) => In(blockChan', h))
    BY <1>15, <2>1, InAppend DEF Send, SendBlock, TypeOK
  <2>3. \A v \in Worker : held[v] = h => held'[v] = h \/ In(blockChan', h)
    BY <1>15, <2>2 DEF Send, TypeOK
  <2> QED
    BY <1>15, <2>2, <2>3 DEF Send, Somewhere
<1>16. ASSUME NEW w \in Worker, Done(w) PROVE NothingIsLost'
  BY <1>16 DEF Done, NothingIsLost, Somewhere
<1>17. CASE UNCHANGED vars
  BY <1>17 DEF vars, NothingIsLost, Somewhere
<1> QED
  BY <1>1, <1>2, <1>3, <1>4, <1>5, <1>6, <1>7, <1>8, <1>9, <1>10, <1>11, <1>12, <1>13, <1>14, <1>15, <1>16, <1>17 DEF Next, Main, Work, Processor

THEOREM Invariance == Spec => []IInv
<1>1. IInv /\ [Next]_vars => IInv'
  BY TypeStep, HeldStep, EndedStep, LockStep, NothingStep DEF IInv
<1> QED
  BY IInvInit, <1>1, PTL DEF Spec

\* The type of the utility's state: only heights of the range are handed on.
THEOREM TypeCorrect == Spec => []TypeOK
<1>1. IInv => TypeOK
  BY DEF IInv
<1> QED
  BY Invariance, <1>1, PTL

\* No worker sends on blockChan once it is closed.
THEOREM NeverSentOnClosed == Spec => []NoSendOnClosed
<1>1. IInv => NoSendOnClosed
  BY DEF IInv, Ended, PoolIsDone, NoSendOnClosed
<1> QED
  BY Invariance, <1>1, PTL

\* Where the pool is done and both channels are empty, no block is under way.
LEMMA DoneIsProcessed == IInv => EveryBlockIsProcessed
<1> SUFFICES ASSUME IInv, processor = "done" PROVE processed \cup lost = Height
  BY DEF EveryBlockIsProcessed
<1>1. PoolIsDone /\ blockChan = <<>> /\ block = NoBlock
  BY DEF IInv, Ended, HeldIsInWork
<1>2. \A w \in Worker : held[w] = NoBlock
  BY <1>1 DEF IInv, HeldIsInWork, PoolIsDone
<1>3. blockHeightChan = <<>> /\ currentBlockNumber > endBlock
  BY <1>1, MissingUnclesAssumption DEF MissingUnclesAssumption, IInv, Ended, PoolIsDone
<1>4. ASSUME NEW h \in Height PROVE h \in processed \cup lost
  <2>1. h < currentBlockNumber /\ h # NoBlock
    BY <1>3, MissingUnclesAssumption DEF MissingUnclesAssumption, IInv, TypeOK, Height
  <2>2. ~ In(blockHeightChan, h) /\ ~ In(blockChan, h)
    BY <1>1, <1>3 DEF In
  <2> QED
    BY <2>1, <2>2, <1>1, <1>2 DEF IInv, NothingIsLost, Somewhere
<1> QED
  BY <1>4 DEF IInv, TypeOK

\* A processor that ends has had every block of the range that was downloaded.
THEOREM AllAreProcessed == Spec => []EveryBlockIsProcessed
BY Invariance, DoneIsProcessed, PTL

\* The main goroutine does not return while the processor has the lock: it can
\* leave blocks behind (add-missing-uncles/main.go:103-106) only where it has
\* taken the lock before the processor.
THEOREM WaitsUnlessFirst == Spec => [](ExitWaits \/ processor = "start")
<1>1. IInv => EveryBlockIsProcessed
  BY DoneIsProcessed
<1>2. IInv => ExitWaits \/ processor = "start"
  BY <1>1 DEF IInv, TypeOK, LockIsHeld, EveryBlockIsProcessed, ExitWaits
<1> QED
  BY Invariance, <1>2, PTL
=============================================================================

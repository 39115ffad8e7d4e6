------------------------ MODULE GethConnectionProofs ------------------------
(***************************************************************************)
(* What holds of the connections for any nodes, channel and delays.        *)
(***************************************************************************)
EXTENDS GethConnection, SequenceTheorems, WellFoundedInduction, TLAPS

Resubscribing == {"sleep", "redial", "sync", "redialSync", "syncAgain"}

\* What the stages of a connection imply: it is not connected before the answer
\* to its first SyncProgress, it still has its client when it goes back to
\* listen, and only ResubscribeAfterTimeout waits, which leaves Subscribe with
\* a caller that tries again.
Stages ==
  \A n \in NodeUri :
    /\ pc[n] \in {"connect", "connectSync"} => ~ IsConnected[n]
    /\ pc[n] = "send" => Client[n] # Nil
    /\ pc[n] \in Resubscribing => retrying[n]
    /\ ~ retrying[n] => waits[n] = 0 /\ NextRetryTimeoutSec[n] = FirstRetry

IInv == TypeOK /\ CallsHaveClient /\ StatusIsTrue /\ Stages

USE GethConnectionAssumption DEF Resubscribing, status, Goto

\* A delay of Doubled (gethconnection.go:110-113) is a delay.
LEMMA DoubledType == \A sec \in FirstRetry..MaxRetry : Doubled(sec) \in FirstRetry..MaxRetry
BY DEF Doubled

\* The connections as they are before ConnectClients (gethconnection.go:30-35).
LEMMA InitInv == Init => IInv
<1> SUFFICES ASSUME Init PROVE IInv
  OBVIOUS
<1>1. TypeOK
  BY DEF Init, TypeOK
<1>2. CallsHaveClient /\ StatusIsTrue /\ Stages
  BY DEF Init, CallsHaveClient, StatusIsTrue, Stages
<1> QED BY <1>1, <1>2 DEF IInv

\* What the node and the RPC library do keeps the invariant.
LEMMA OutsideKeeps ==
  ASSUME IInv, NEW n \in NodeUri, NodeChanges(n) \/ Overflow(n)
  PROVE  IInv'
<1>1. ASSUME NEW s \in {"up", "syncing", "down"},
             node' = [node EXCEPT ![n] = s],
             s = "down" => /\ Client' = [Client EXCEPT ![n] = IF @ = "open" THEN "broken" ELSE @]
                           /\ sub' = [sub EXCEPT ![n] = IF @ = "live" THEN "broken" ELSE @],
             s # "down" => UNCHANGED <<Client, sub>>,
             UNCHANGED <<status, pc, retrying, NewBlockChan, asked>>
      PROVE  IInv'
  <2>1. CASE s # "down"
    BY <1>1, <2>1 DEF IInv, TypeOK, CallsHaveClient, StatusIsTrue, Stages
  <2>2. CASE s = "down"
    <3>1. TypeOK'
      BY <1>1, <2>2 DEF IInv, TypeOK
    <3>2. CallsHaveClient' /\ StatusIsTrue' /\ Stages'
      BY <1>1, <2>2 DEF IInv, TypeOK, CallsHaveClient, StatusIsTrue, Stages
    <3> QED BY <3>1, <3>2 DEF IInv
  <2> QED BY <2>1, <2>2
<1>2. CASE NodeChanges(n)
  BY <1>1, <1>2 DEF NodeChanges
<1>3. CASE Overflow(n)
  BY <1>3 DEF Overflow, IInv, TypeOK, CallsHaveClient, StatusIsTrue, Stages
<1> QED BY <1>2, <1>3

\* The steps of ConnectClients (monitor.go:54-66, gethconnection.go:41-60) and
\* the start of the goroutines (main.go:169, monitor.go:72) keep the invariant.
LEMMA ConnectKeeps ==
  ASSUME IInv, Start \/ \E n \in NodeUri : Connect(n) \/ ConnectSync(n)
  PROVE  IInv'
<1>1. CASE Start
  BY <1>1 DEF Start, IInv, TypeOK, CallsHaveClient, StatusIsTrue, Stages
<1> USE DEF IInv, TypeOK, CallsHaveClient, StatusIsTrue, Stages
<1>2. ASSUME NEW n \in NodeUri, Connect(n) PROVE IInv'
  <2>1. CASE node[n] = "down"
    BY <1>2, <2>1 DEF Connect, Dial
  <2>2. CASE node[n] # "down"
    BY <1>2, <2>2 DEF Connect, Dial
  <2> QED BY <2>1, <2>2
<1>3. ASSUME NEW n \in NodeUri, ConnectSync(n) PROVE IInv'
  <2>1. CASE Fails(n) /\ UNCHANGED IsConnected
    BY <1>3, <2>1 DEF ConnectSync, Fails
  <2>2. CASE Succeeds(n) /\ IsConnected' = [IsConnected EXCEPT ![n] = node[n] = "up"]
    BY <1>3, <2>2 DEF ConnectSync, Succeeds
  <2> QED BY <1>3, <2>1, <2>2 DEF ConnectSync
<1> QED BY <1>1, <1>2, <1>3

\* The steps of Subscribe (gethconnection.go:62-102) keep the invariant.
LEMMA SubscribeKeeps ==
  ASSUME IInv, NEW n \in NodeUri,
         \/ NotConnected(n) \/ Subscribe(n) \/ SubscribeFails(n)
         \/ SubscriptionError(n) \/ NewHead(n) \/ FetchBlock(n) \/ SendBlock(n)
  PROVE  IInv'
<1> USE DEF IInv, TypeOK, CallsHaveClient, StatusIsTrue, Stages
<1>1. CASE NotConnected(n)
  BY <1>1 DEF NotConnected
<1>2. CASE Subscribe(n)
  BY <1>2 DEF Subscribe, Succeeds
<1>3. CASE SubscribeFails(n)
  BY <1>3 DEF SubscribeFails, AfterError, Fails
<1>4. CASE SubscriptionError(n)
  BY <1>4 DEF SubscriptionError
<1>5. CASE NewHead(n)
  BY <1>5 DEF NewHead
<1>6. CASE FetchBlock(n)
  <2>1. CASE Goto(n, "fetch", "send") /\ Succeeds(n)
    BY <1>6, <2>1 DEF FetchBlock, Succeeds
  <2>2. CASE Goto(n, "fetch", "listen") /\ Fails(n)
    BY <1>6, <2>2 DEF FetchBlock, Fails
  <2>3. CASE Goto(n, "fetch", "listen") /\ Succeeds(n)
    BY <1>6, <2>3 DEF FetchBlock, Succeeds
  <2> QED BY <1>6, <2>1, <2>2, <2>3 DEF FetchBlock
<1>7. CASE SendBlock(n)
  <2>1. NewBlockChan' \in Seq(NodeUri) /\ Len(NewBlockChan') <= ChanCap
    BY <1>7, AppendProperties DEF SendBlock
  <2>2. TypeOK'
    BY <1>7, <2>1 DEF SendBlock
  <2>3. CallsHaveClient' /\ StatusIsTrue' /\ Stages'
    BY <1>7 DEF SendBlock
  <2> QED BY <2>2, <2>3
<1> QED BY <1>1, <1>2, <1>3, <1>4, <1>5, <1>6, <1>7

\* The steps of ResubscribeAfterTimeout (gethconnection.go:104-167) keep the
\* invariant.
LEMMA ResubscribeKeeps ==
  ASSUME IInv, NEW n \in NodeUri, WakeUp(n) \/ Redial(n) \/ SyncProgress(n)
  PROVE  IInv'
<1> USE DEF IInv, TypeOK, CallsHaveClient, StatusIsTrue, Stages
<1>1. CASE WakeUp(n)
  <2>1. /\ Goto(n, "sleep", IF MustDial(n) THEN "redial" ELSE "sync")
        /\ UNCHANGED <<node, Client, sub, IsConnected, IsSubscribed, retrying,
                       NewBlockChan, asked>>
    BY <1>1 DEF WakeUp
  <2>2. NextRetryTimeoutSec' \in [NodeUri -> FirstRetry..MaxRetry]
    BY <1>1, DoubledType DEF WakeUp
  <2>3. waits' \in [NodeUri -> 0..MaxWaits]
    BY <1>1 DEF WakeUp
  <2>4. \A m \in NodeUri \ {n} : /\ waits'[m] = waits[m]
                                 /\ NextRetryTimeoutSec'[m] = NextRetryTimeoutSec[m]
    BY <1>1 DEF WakeUp
  <2>5. TypeOK'
    BY <2>1, <2>2, <2>3
  <2>6. CallsHaveClient'
    BY <2>1 DEF MustDial
  <2>7. StatusIsTrue'
    BY <2>1
  <2>8. Stages'
    <3>1. retrying[n]
      BY <2>1
    <3> QED BY <2>1, <2>4, <3>1
  <2> QED BY <2>5, <2>6, <2>7, <2>8
<1>2. CASE Redial(n)
  <2>1. PICK at \in {<<"redial", "sync">>, <<"redialSync", "syncAgain">>} :
          Goto(n, at[1], IF node[n] = "down" THEN "sleep" ELSE at[2])
    BY <1>2 DEF Redial
  <2>2. CASE node[n] = "down"
    BY <1>2, <2>1, <2>2 DEF Redial, Dial
  <2>3. CASE node[n] # "down" /\ at = <<"redial", "sync">>
    <3>1. /\ Goto(n, "redial", "sync")
          /\ Client' = [Client EXCEPT ![n] = "open"]
          /\ IsConnected' = [IsConnected EXCEPT ![n] = TRUE]
          /\ UNCHANGED <<node, sub, IsSubscribed, NextRetryTimeoutSec, waits, retrying,
                         NewBlockChan, asked>>
      BY <1>2, <2>1, <2>3 DEF Redial, Dial
    <3> QED BY <3>1
  <2>4. CASE node[n] # "down" /\ at = <<"redialSync", "syncAgain">>
    <3>1. /\ Goto(n, "redialSync", "syncAgain")
          /\ Client' = [Client EXCEPT ![n] = "open"]
          /\ IsConnected' = [IsConnected EXCEPT ![n] = TRUE]
          /\ UNCHANGED <<node, sub, IsSubscribed, NextRetryTimeoutSec, waits, retrying,
                         NewBlockChan, asked>>
      BY <1>2, <2>1, <2>4 DEF Redial, Dial
    <3> QED BY <3>1
  <2> QED BY <2>2, <2>3, <2>4
<1>3. CASE SyncProgress(n)
  <2>1. ASSUME NEW at \in {"sync", "syncAgain"}, Succeeds(n),
               Goto(n, at, IF node[n] = "up" THEN "subscribe" ELSE "sleep")
        PROVE  IInv'
    BY <1>3, <2>1 DEF SyncProgress, Succeeds
  <2>2. CASE Fails(n) /\ Goto(n, "sync", "redialSync")
    BY <1>3, <2>2 DEF SyncProgress, Fails
  <2>3. CASE Fails(n) /\ Goto(n, "syncAgain", "sleep")
    BY <1>3, <2>3 DEF SyncProgress, Fails
  <2> QED BY <1>3, <2>1, <2>2, <2>3 DEF SyncProgress
<1> QED BY <1>1, <1>2, <1>3

\* The steps of the monitor (monitor.go:78, 228) keep the invariant.
LEMMA MonitorKeeps ==
  ASSUME IInv, TakeBlock \/ EnsureBlock \/ Panic
  PROVE  IInv'
<1> USE DEF IInv, TypeOK, CallsHaveClient, StatusIsTrue, Stages
<1>1. CASE TakeBlock
  BY <1>1, HeadTailProperties DEF TakeBlock
<1>2. CASE EnsureBlock
  BY <1>2 DEF EnsureBlock
<1>3. CASE Panic
  BY <1>3 DEF Panic
<1> QED BY <1>1, <1>2, <1>3

\* The invariant holds in every reachable state.
THEOREM InvariantHolds == Spec => []IInv
<1>1. IInv /\ [Next]_vars => IInv'
  <2> SUFFICES ASSUME IInv, [Next]_vars PROVE IInv'
    OBVIOUS
  <2>1. CASE UNCHANGED vars
    BY <2>1 DEF vars, IInv, TypeOK, CallsHaveClient, StatusIsTrue, Stages
  <2>2. CASE Next
    BY <2>2, OutsideKeeps, ConnectKeeps, SubscribeKeeps, ResubscribeKeeps, MonitorKeeps
       DEF Next, Step
  <2> QED BY <2>1, <2>2
<1> QED BY <1>1, InitInv, PTL DEF Spec

\* The state of the connections stays well-formed, and the channel within its
\* capacity (gethconnection.go:99).
THEOREM TypeCorrect == Spec => []TypeOK
<1>1. IInv => TypeOK
  BY DEF IInv
<1> QED BY <1>1, InvariantHolds, PTL

\* No goroutine of a connection calls a missing client (gethconnection.go:48,
\* 69, 91, 131, 146), in any order of failures of its node.
THEOREM ClientIsThere == Spec => []CallsHaveClient
<1>1. IInv => CallsHaveClient
  BY DEF IInv
<1> QED BY <1>1, InvariantHolds, PTL

\* The status page tells the truth about every connection (webserver.go:48),
\* and no connection holds two subscriptions.
THEOREM StatusHolds == Spec => []StatusIsTrue
<1>1. IInv => StatusIsTrue
  BY DEF IInv
<1> QED BY <1>1, InvariantHolds, PTL

\* A goroutine that ends did so in its first Subscribe (gethconnection.go:70).
THEOREM EndsOnlyFresh == Spec => EndsOnlyAtTheStart
<1> DEFINE Ending(n) == pc[n] # "stopped" /\ pc'[n] = "stopped"
<1>1. IInv /\ [Next]_vars =>
        [\A n \in NodeUri : Ending(n) => waits[n] = 0 /\ NextRetryTimeoutSec[n] = FirstRetry]_vars
  <2> SUFFICES ASSUME IInv, [Next]_vars, NEW n \in NodeUri, Ending(n)
               PROVE  waits[n] = 0 /\ NextRetryTimeoutSec[n] = FirstRetry
    OBVIOUS
  <2>1. PICK S : pc \in [NodeUri -> S]
    BY DEF IInv, TypeOK
  <2>2. PICK m \in NodeUri : Step(m) \/ NewHead(m) \/ SendBlock(m)
    BY <2>1 DEF Next, vars, Start, TakeBlock, EnsureBlock, Panic, NodeChanges, Overflow
  <2>3. CASE SubscribeFails(m)
    <3>1. ~ retrying[n]
      BY <2>1, <2>3 DEF SubscribeFails, AfterError
    <3> QED BY <3>1 DEF IInv, Stages
  <2>4. CASE ~ SubscribeFails(m)
    BY <2>1, <2>2, <2>4
       DEF Step, Connect, ConnectSync, NotConnected, Subscribe, SubscriptionError, NewHead,
           FetchBlock, SendBlock, WakeUp, Redial, SyncProgress
  <2> QED BY <2>3, <2>4
<1> QED BY <1>1, InvariantHolds, PTL DEF Spec, EndsOnlyAtTheStart

-----------------------------------------------------------------------------
(* The delay. *)

\* A set of numbers that is not empty has a least element.
LEMMA SmallestNumber ==
  ASSUME NEW S \in SUBSET Nat, S # {}
  PROVE  \E x \in S : \A y \in S : x <= y
<1>1. PICK x \in S : \A y \in S : ~ (<<y, x>> \in OpToRel(<, Nat))
  BY NatLessThanWellFounded, WFMin
<1>2. \A y \in S : ~ (y < x)
  BY <1>1 DEF OpToRel
<1> QED BY <1>2

\* f lists the powers of two up to the k-th.
Doubles(f, k) ==
  /\ f \in [0..k -> Nat] /\ f[0] = 1
  /\ \A i \in 1..k : f[i] = 2 * f[i - 1]

\* They can be listed as far as one likes.
LEMMA DoublesExists == ASSUME NEW k \in Nat PROVE \E f : Doubles(f, k)
<1> DEFINE stuck == {j \in Nat : ~ \E f : Doubles(f, j)}
<1> SUFFICES ASSUME stuck # {} PROVE FALSE
  OBVIOUS
<1>1. PICK j \in stuck : \A i \in stuck : j <= i
  <2>1. stuck \in SUBSET Nat
    OBVIOUS
  <2> HIDE DEF stuck
  <2> QED BY <2>1, SmallestNumber
<1>2. j \in Nat /\ ~ \E f : Doubles(f, j)
  OBVIOUS
<1>3. CASE j = 0
  <2>1. Doubles([i \in 0..j |-> 1], j)
    BY <1>3 DEF Doubles
  <2> QED BY <1>2, <2>1
<1>4. CASE j # 0
  <2>1. j - 1 \in Nat /\ j - 1 \notin stuck
    <3> HIDE DEF stuck
    <3> QED BY <1>1, <1>2, <1>4
  <2>2. PICK g : Doubles(g, j - 1)
    BY <2>1
  <2> DEFINE f == [i \in 0..j |-> IF i = j THEN 2 * g[j - 1] ELSE g[i]]
  <2>3. f \in [0..j -> Nat] /\ f[0] = 1
    BY <1>2, <1>4, <2>1, <2>2 DEF Doubles
  <2>4. ASSUME NEW i \in 1..j PROVE f[i] = 2 * f[i - 1]
    <3>1. f[i - 1] = g[i - 1]
      BY <1>2
    <3>2. CASE i = j
      BY <1>2, <3>1, <3>2
    <3>3. CASE i # j
      BY <1>2, <2>2, <3>1, <3>3 DEF Doubles
    <3> QED BY <3>2, <3>3
  <2> HIDE DEF f
  <2>5. Doubles(f, j)
    BY <2>3, <2>4 DEF Doubles
  <2> QED BY <1>2, <2>5
<1> QED BY <1>3, <1>4

\* The recursive definition has a function that satisfies it, and no other value
\* than the powers of two.
LEMMA PowerOfTwoDoubles == Doubles(PowerOfTwo, MaxWaits)
<1> DEFINE Body(p) == [k \in 0..MaxWaits |-> IF k = 0 THEN 1 ELSE 2 * p[k - 1]]
           power == CHOOSE p : p = Body(p)
<1>1. PICK f : Doubles(f, MaxWaits)
  BY DoublesExists
<1>2. f = Body(f)
  BY <1>1 DEF Doubles
<1>3. power = Body(power)
  <2> HIDE DEF Body
  <2> QED BY <1>2
<1>4. PowerOfTwo = power
  BY DEF PowerOfTwo
<1>5. ASSUME NEW k \in 0..MaxWaits
      PROVE  power[k] = IF k = 0 THEN 1 ELSE 2 * power[k - 1]
  <2>1. Body(power)[k] = IF k = 0 THEN 1 ELSE 2 * power[k - 1]
    <3> HIDE DEF power
    <3> QED OBVIOUS
  <2> HIDE DEF Body, power
  <2> QED BY <1>3, <2>1
<1> HIDE DEF power
<1>6. \A k \in 0..MaxWaits : power[k] = f[k]
  <2> DEFINE differs == {k \in 0..MaxWaits : power[k] # f[k]}
  <2> SUFFICES ASSUME differs # {} PROVE FALSE
    OBVIOUS
  <2>1. PICK k \in differs : \A j \in differs : k <= j
    <3>1. differs \in SUBSET Nat
      OBVIOUS
    <3> HIDE DEF differs
    <3> QED BY <3>1, SmallestNumber
  <2>2. k \in 0..MaxWaits /\ power[k] # f[k]
    OBVIOUS
  <2>3. k # 0
    BY <1>1, <1>5, <2>2 DEF Doubles
  <2>4. k - 1 \in 0..MaxWaits /\ k - 1 \notin differs
    <3> HIDE DEF differs
    <3> QED BY <2>1, <2>2, <2>3
  <2> QED BY <1>1, <1>5, <2>2, <2>3, <2>4 DEF Doubles
<1>7. power = [k \in 0..MaxWaits |-> power[k]]
  <2> HIDE DEF Body
  <2>1. Body(power) = [k \in 0..MaxWaits |-> power[k]]
    BY <1>5 DEF Body
  <2> QED BY <1>3, <2>1
<1> QED BY <1>1, <1>4, <1>6, <1>7 DEF Doubles

\* One more delay doubles the next one, up to the maximum.
LEMMA DoubledIsNextPower ==
  ASSUME NEW k \in Nat, k < MaxWaits
  PROVE  Doubled(DelayAfter(k)) = DelayAfter(k + 1)
<1> DEFINE x == FirstRetry * PowerOfTwo[k]
<1>1. /\ PowerOfTwo[k] \in Nat
      /\ PowerOfTwo[k + 1] = 2 * PowerOfTwo[k]
  BY PowerOfTwoDoubles DEF Doubles
<1>2. ASSUME NEW P \in Nat
      PROVE  FirstRetry * P \in Nat /\ FirstRetry * (2 * P) = 2 * (FirstRetry * P)
  OBVIOUS
<1>3. x \in Nat /\ FirstRetry * PowerOfTwo[k + 1] = 2 * x
  BY <1>1, <1>2
<1>4. /\ DelayAfter(k) = IF x > MaxRetry THEN MaxRetry ELSE x
      /\ DelayAfter(k + 1) = IF 2 * x > MaxRetry THEN MaxRetry ELSE 2 * x
  BY <1>3 DEF DelayAfter
<1> HIDE DEF x
<1> QED BY <1>3, <1>4 DEF Doubled

LEMMA DelayAfterNone == DelayAfter(0) = FirstRetry
<1>1. PowerOfTwo[0] = 1
  BY PowerOfTwoDoubles DEF Doubles
<1> QED BY <1>1 DEF DelayAfter

LEMMA DelayAfterType == DelayAfter(MaxWaits) \in Nat
<1>1. PowerOfTwo[MaxWaits] \in Nat
  BY PowerOfTwoDoubles DEF Doubles
<1>2. ASSUME NEW P \in Nat PROVE FirstRetry * P \in Nat
  OBVIOUS
<1> QED BY <1>1, <1>2 DEF DelayAfter

\* The delay of a connection after k of them.
DelayOf(sec, k) ==
  IF k < MaxWaits THEN sec = DelayAfter(k) ELSE sec >= DelayAfter(MaxWaits)

\* Only a subscription and a delay set NextRetryTimeoutSec (gethconnection.go:76,
\* 110-113).
LEMMA DelayKeeps ==
  ASSUME IInv, DelayDoubles, [Next]_vars
  PROVE  DelayDoubles'
<1>1. TypeOK /\ \A n \in NodeUri : DelayOf(NextRetryTimeoutSec[n], waits[n])
  BY DEF IInv, DelayDoubles, DelayOf
<1>2. \A n \in NodeUri : waits[n] \in 0..MaxWaits /\ NextRetryTimeoutSec[n] \in FirstRetry..MaxRetry
  BY <1>1 DEF TypeOK
<1>3. SUFFICES ASSUME NEW n \in NodeUri
               PROVE  DelayOf(NextRetryTimeoutSec'[n], waits'[n])
  BY DEF DelayDoubles, DelayOf
<1>4. CASE UNCHANGED <<NextRetryTimeoutSec, waits>>
  BY <1>1, <1>4
<1>5. ASSUME NEW m \in NodeUri, Subscribe(m) PROVE DelayOf(NextRetryTimeoutSec'[n], waits'[n])
  <2>1. CASE n = m
    <3>1. waits'[n] = 0 /\ NextRetryTimeoutSec'[n] = FirstRetry
      BY <1>1, <1>5, <2>1 DEF Subscribe, TypeOK
    <3> QED BY <3>1, DelayAfterNone DEF DelayOf
  <2>2. CASE n # m
    BY <1>1, <1>5, <2>2 DEF Subscribe, TypeOK
  <2> QED BY <2>1, <2>2
<1>6. ASSUME NEW m \in NodeUri, WakeUp(m) PROVE DelayOf(NextRetryTimeoutSec'[n], waits'[n])
  <2>1. CASE n = m
    <3>1. /\ NextRetryTimeoutSec'[n] = Doubled(NextRetryTimeoutSec[n])
          /\ waits'[n] = IF waits[n] = MaxWaits THEN waits[n] ELSE waits[n] + 1
      BY <1>1, <1>6, <2>1 DEF WakeUp, TypeOK
    <3>2. CASE waits[n] = MaxWaits
      <4>1. NextRetryTimeoutSec[n] >= DelayAfter(MaxWaits)
        BY <1>1, <1>2, <3>2 DEF DelayOf
      <4>2. NextRetryTimeoutSec'[n] >= NextRetryTimeoutSec[n]
        BY <1>2, <3>1 DEF Doubled
      <4>3. NextRetryTimeoutSec'[n] \in Nat
        BY <1>2, <3>1 DEF Doubled
      <4>4. NextRetryTimeoutSec'[n] >= DelayAfter(MaxWaits)
        BY <1>2, <4>1, <4>2, <4>3, DelayAfterType
      <4> QED BY <3>1, <3>2, <4>4 DEF DelayOf
    <3>3. CASE waits[n] # MaxWaits
      <4>1. waits[n] \in Nat /\ waits[n] < MaxWaits /\ waits'[n] = waits[n] + 1
        BY <1>2, <3>1, <3>3
      <4>2. NextRetryTimeoutSec'[n] = DelayAfter(waits'[n])
        BY <1>1, <3>1, <4>1, DoubledIsNextPower DEF DelayOf
      <4>3. waits'[n] < MaxWaits \/ waits'[n] = MaxWaits
        BY <4>1
      <4> QED BY <4>2, <4>3, DelayAfterType DEF DelayOf
    <3> QED BY <3>2, <3>3
  <2>2. CASE n # m
    BY <1>1, <1>6, <2>2 DEF WakeUp, TypeOK
  <2> QED BY <2>1, <2>2
<1>7. \/ UNCHANGED <<NextRetryTimeoutSec, waits>>
      \/ \E m \in NodeUri : Subscribe(m) \/ WakeUp(m)
  BY DEF Next, Step, vars, status, NodeChanges, Overflow, Connect, ConnectSync, Start,
         NotConnected, SubscribeFails, SubscriptionError, NewHead, FetchBlock, SendBlock,
         Redial, SyncProgress, TakeBlock, EnsureBlock, Panic
<1> QED BY <1>4, <1>5, <1>6, <1>7

\* The n-th delay since the last subscription is 5 * 2^n seconds, or the maximum
\* if that is less (gethconnection.go:23).
THEOREM DelayIsDoubled == Spec => []DelayDoubles
<1>1. Init => DelayDoubles
  <2>1. ASSUME ~ 0 < MaxWaits PROVE FirstRetry >= DelayAfter(MaxWaits)
    <3>1. MaxWaits = 0 /\ FirstRetry \in Nat
      BY <2>1, GethConnectionAssumption DEF GethConnectionAssumption
    <3> QED BY <3>1, DelayAfterNone
  <2>2. Init => \A n \in NodeUri : waits[n] = 0 /\ NextRetryTimeoutSec[n] = FirstRetry
    BY DEF Init
  <2> QED BY <2>1, <2>2, DelayAfterNone DEF DelayDoubles
<1> QED BY <1>1, DelayKeeps, InvariantHolds, PTL DEF Spec
=============================================================================

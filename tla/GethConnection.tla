--------------------------- MODULE GethConnection ---------------------------
(***************************************************************************)
(* The connections to the geth nodes (gethconnection.go): one goroutine    *)
(* per node subscribes to new heads, fetches each new block, puts it on    *)
(* NewBlockChan, and resubscribes after a growing delay when something     *)
(* fails.  The main goroutine makes the connections (ConnectClients), and  *)
(* the monitor takes the blocks, and downloads what they refer to over the *)
(* same client (EnsureBlock); ReorgMonitor.tla says what it does with them.*)
(*                                                                         *)
(* Subscribe and ResubscribeAfterTimeout call each other and never return  *)
(* once the latter was called, so the callers need no stack.               *)
(***************************************************************************)
EXTENDS Integers, Sequences

CONSTANTS NodeUri,     \* the configured nodes
          ChanCap,     \* the capacity of NewBlockChan
          FirstRetry,  \* the first delay, 5 seconds
          MaxRetry,    \* the longest delay, 180 seconds
          MaxWaits,    \* bound on the history variable waits
          Nil

ASSUME GethConnectionAssumption ==
  /\ ChanCap \in Nat \ {0} /\ FirstRetry \in Nat \ {0} /\ MaxRetry \in Nat
  /\ FirstRetry <= MaxRetry /\ MaxWaits \in Nat
  /\ Nil \notin NodeUri /\ Nil \notin {"open", "broken"}

VARIABLES
  node,                 \* what each node does: "up", "syncing" or "down"
  Client,               \* the RPC client: Nil, "open", or "broken" (lost its socket)
  sub,                  \* the subscription: "none", "live" or "broken"
  IsConnected, IsSubscribed, NextRetryTimeoutSec,
  pc,                   \* where the goroutine of each connection is
  retrying,             \* whether ResubscribeAfterTimeout was called
  waits,                \* history: delays since the last subscription
  NewBlockChan,         \* the node of each queued block
  asked                 \* the node EnsureBlock is about to ask, or Nil

status == <<IsConnected, IsSubscribed, NextRetryTimeoutSec, waits>>
vars   == <<node, Client, sub, status, pc, retrying, NewBlockChan, asked>>

Init ==
  /\ node \in [NodeUri -> {"up", "syncing", "down"}]
  /\ Client = [n \in NodeUri |-> Nil] /\ sub = [n \in NodeUri |-> "none"]
  /\ IsConnected = [n \in NodeUri |-> FALSE] /\ IsSubscribed = [n \in NodeUri |-> FALSE]
  /\ NextRetryTimeoutSec = [n \in NodeUri |-> FirstRetry]
  /\ pc = [n \in NodeUri |-> "connect"] /\ retrying = [n \in NodeUri |-> FALSE]
  /\ waits = [n \in NodeUri |-> 0]
  /\ NewBlockChan = <<>> /\ asked = Nil

Goto(n, from, to) == pc[n] = from /\ pc' = [pc EXCEPT ![n] = to]

-----------------------------------------------------------------------------
(* The node and the RPC library.                                            *)

\* A node that goes down, or out of reach, takes the sockets with it.
NodeChanges(n) ==
  /\ \E s \in {"up", "syncing", "down"} \ {node[n]} :
       /\ node' = [node EXCEPT ![n] = s]
       /\ IF s = "down"
          THEN /\ Client' = [Client EXCEPT ![n] = IF @ = "open" THEN "broken" ELSE @]
               /\ sub' = [sub EXCEPT ![n] = IF @ = "live" THEN "broken" ELSE @]
          ELSE UNCHANGED <<Client, sub>>
  /\ UNCHANGED <<status, pc, retrying, NewBlockChan, asked>>

\* The library gives a subscription up when too many headers wait for a
\* goroutine that is busy with an earlier one.
Overflow(n) ==
  /\ pc[n] \in {"fetch", "send"} /\ sub[n] = "live"
  /\ sub' = [sub EXCEPT ![n] = "broken"]
  /\ UNCHANGED <<node, Client, status, pc, retrying, NewBlockChan, asked>>

\* A call over a client that lost its socket opens a new one, or fails.
Succeeds(n) == node[n] # "down" /\ Client' = [Client EXCEPT ![n] = "open"]
Fails(n)    == (node[n] = "down" \/ Client[n] = "broken") /\ UNCHANGED Client

\* ethclient.Dial returns no client when it fails.
Dial(n) == Client' = [Client EXCEPT ![n] = IF node[n] = "down" THEN Nil ELSE "open"]

-----------------------------------------------------------------------------
(* ConnectClients: the main goroutine connects one node after the other.    *)

Connect(n) ==
  /\ \A m \in NodeUri : pc[m] # "connectSync"
  /\ Dial(n)
  /\ Goto(n, "connect", IF node[n] = "down" THEN "connected" ELSE "connectSync")
  /\ UNCHANGED <<node, sub, status, retrying, NewBlockChan, asked>>

ConnectSync(n) ==
  /\ Goto(n, "connectSync", "connected")
  /\ \/ Fails(n) /\ UNCHANGED IsConnected
     \/ Succeeds(n) /\ IsConnected' = [IsConnected EXCEPT ![n] = node[n] = "up"]
  /\ UNCHANGED <<node, sub, IsSubscribed, NextRetryTimeoutSec, waits, retrying,
                 NewBlockChan, asked>>

\* RunE gives up if no node is connected; else SubscribeAndListen starts a
\* goroutine for every connection, the failed ones included.
Start ==
  /\ NodeUri # {} /\ \A n \in NodeUri : pc[n] = "connected"
  /\ pc' = [n \in NodeUri |->
              IF \E m \in NodeUri : IsConnected[m] THEN "subscribe" ELSE "exit"]
  /\ UNCHANGED <<node, Client, sub, status, retrying, NewBlockChan, asked>>

-----------------------------------------------------------------------------
(* Subscribe. *)

NotConnected(n) ==
  /\ Goto(n, "subscribe", "sleep") /\ ~ IsConnected[n]
  /\ retrying' = [retrying EXCEPT ![n] = TRUE]
  /\ UNCHANGED <<node, Client, sub, status, NewBlockChan, asked>>

Subscribe(n) ==
  /\ Goto(n, "subscribe", "listen") /\ IsConnected[n] /\ Succeeds(n)
  /\ sub' = [sub EXCEPT ![n] = "live"]
  /\ IsSubscribed' = [IsSubscribed EXCEPT ![n] = TRUE]
  /\ NextRetryTimeoutSec' = [NextRetryTimeoutSec EXCEPT ![n] = FirstRetry]
  /\ waits' = [waits EXCEPT ![n] = 0]
  /\ UNCHANGED <<node, IsConnected, retrying, NewBlockChan, asked>>

\* Fault: ResubscribeAfterTimeout ignores the error of Subscribe as well.
Ends(n) == "stopped"

\* The error goes back to the caller.  ResubscribeAfterTimeout tries again;
\* SubscribeAndListen has nobody waiting for its goroutine, which ends.
AfterError(n) == IF retrying[n] THEN "sleep" ELSE "stopped"

SubscribeFails(n) ==
  /\ Goto(n, "subscribe", AfterError(n))
  /\ IsConnected[n] /\ Fails(n)
  /\ IsSubscribed' = [IsSubscribed EXCEPT ![n] = FALSE]
  /\ UNCHANGED <<node, sub, IsConnected, NextRetryTimeoutSec, waits, retrying,
                 NewBlockChan, asked>>

\* Fault: the connection still counts as subscribed.
SubscriptionErrorUnseen(n) ==
  /\ Goto(n, "listen", "sleep") /\ sub[n] = "broken"
  /\ sub' = [sub EXCEPT ![n] = "none"]
  /\ retrying' = [retrying EXCEPT ![n] = TRUE]
  /\ UNCHANGED <<node, Client, status, NewBlockChan, asked>>

SubscriptionError(n) ==
  /\ Goto(n, "listen", "sleep") /\ sub[n] = "broken"
  /\ sub' = [sub EXCEPT ![n] = "none"]
  /\ IsSubscribed' = [IsSubscribed EXCEPT ![n] = FALSE]
  /\ retrying' = [retrying EXCEPT ![n] = TRUE]
  /\ UNCHANGED <<node, Client, IsConnected, NextRetryTimeoutSec, waits, NewBlockChan, asked>>

NewHead(n) ==
  /\ Goto(n, "listen", "fetch") /\ sub[n] = "live"
  /\ UNCHANGED <<node, Client, sub, status, retrying, NewBlockChan, asked>>

\* The node may have dropped the block since it announced the header.
FetchBlock(n) ==
  /\ \/ Goto(n, "fetch", "send") /\ Succeeds(n)
     \/ Goto(n, "fetch", "listen") /\ (Fails(n) \/ Succeeds(n))
  /\ UNCHANGED <<node, sub, status, retrying, NewBlockChan, asked>>

\* Fault: one slot of the channel is never used.
SendWithRoom(n) ==
  /\ Goto(n, "send", "listen") /\ Len(NewBlockChan) + 1 < ChanCap
  /\ NewBlockChan' = Append(NewBlockChan, n)
  /\ UNCHANGED <<node, Client, sub, status, retrying, asked>>

SendBlock(n) ==
  /\ Goto(n, "send", "listen") /\ Len(NewBlockChan) < ChanCap
  /\ NewBlockChan' = Append(NewBlockChan, n)
  /\ UNCHANGED <<node, Client, sub, status, retrying, asked>>

-----------------------------------------------------------------------------
(* ResubscribeAfterTimeout. *)

\* Faults: no maximum; the delay grows by a constant.
Unbounded(sec) == 2 * sec
Increased(sec) == IF sec + FirstRetry > MaxRetry THEN MaxRetry ELSE sec + FirstRetry

Doubled(sec) == IF 2 * sec > MaxRetry THEN MaxRetry ELSE 2 * sec

\* Faults: the negation is lost; a client that is there is taken to be connected.
AlreadyConnected(n) == IsConnected[n]
HasNoClient(n)      == Client[n] = Nil

MustDial(n) == Client[n] = Nil \/ ~ IsConnected[n]

WakeUp(n) ==
  /\ Goto(n, "sleep", IF MustDial(n) THEN "redial" ELSE "sync")
  /\ NextRetryTimeoutSec' =
       [NextRetryTimeoutSec EXCEPT ![n] = Doubled(@)]
  /\ waits' = [waits EXCEPT ![n] = IF @ = MaxWaits THEN @ ELSE @ + 1]
  /\ UNCHANGED <<node, Client, sub, IsConnected, IsSubscribed, retrying, NewBlockChan, asked>>

\* Both places that dial again set the same fields.
Redial(n) ==
  /\ \E at \in {<<"redial", "sync">>, <<"redialSync", "syncAgain">>} :
       Goto(n, at[1], IF node[n] = "down" THEN "sleep" ELSE at[2])
  /\ Dial(n)
  /\ IsConnected' = [IsConnected EXCEPT ![n] = node[n] # "down"]
  /\ UNCHANGED <<node, sub, IsSubscribed, NextRetryTimeoutSec, waits, retrying,
                 NewBlockChan, asked>>

\* SyncProgress is asked over the client, and once more over a new one.
SyncProgress(n) ==
  /\ \/ \E at \in {"sync", "syncAgain"} :
          Succeeds(n) /\ Goto(n, at, IF node[n] = "up" THEN "subscribe" ELSE "sleep")
     \/ Fails(n) /\ Goto(n, "sync", "redialSync")
     \/ Fails(n) /\ Goto(n, "syncAgain", "sleep")
  /\ UNCHANGED <<node, sub, status, retrying, NewBlockChan, asked>>

-----------------------------------------------------------------------------
(* The monitor goroutine, as far as the connections see it. *)

\* AddBlock finds a reference it does not know, or finds none.
TakeBlock ==
  /\ asked = Nil /\ NewBlockChan # <<>>
  /\ asked' \in {Nil, Head(NewBlockChan)}
  /\ NewBlockChan' = Tail(NewBlockChan)
  /\ UNCHANGED <<node, Client, sub, status, pc, retrying>>

\* The client of the node answers or fails; another reference may follow.
EnsureBlock ==
  /\ asked # Nil /\ Client[asked] # Nil
  /\ asked' \in {Nil, asked}
  /\ UNCHANGED <<node, Client, sub, status, pc, retrying, NewBlockChan>>

\* A call through a nil *ethclient.Client panics: the whole program is gone.
Panic ==
  /\ asked # Nil /\ Client[asked] = Nil
  /\ pc' = [n \in NodeUri |-> "exit"]
  /\ UNCHANGED <<node, Client, sub, status, retrying, NewBlockChan, asked>>

-----------------------------------------------------------------------------
Step(n) ==
  \/ Connect(n) \/ ConnectSync(n)
  \/ NotConnected(n) \/ Subscribe(n) \/ SubscribeFails(n) \/ SubscriptionError(n)
  \/ FetchBlock(n) \/ WakeUp(n) \/ Redial(n) \/ SyncProgress(n)

Next ==
  \/ Start \/ TakeBlock \/ EnsureBlock \/ Panic
  \/ \E n \in NodeUri :
       Step(n) \/ NewHead(n) \/ SendBlock(n) \/ NodeChanges(n) \/ Overflow(n)

Spec == Init /\ [][Next]_vars

\* Goroutines run and timers expire.  Nodes need not announce heads, change or
\* stay as they are.  A goroutine blocked on a full channel is in its queue of
\* senders, which is served in order: strong fairness.  The monitor always
\* gets back to the channel (MonitorReturns of ReorgMonitor).
FairSpec ==
  /\ Spec /\ WF_vars(Start)
  /\ \A n \in NodeUri : WF_vars(Step(n)) /\ SF_vars(SendBlock(n))
  /\ WF_vars(TakeBlock) /\ WF_vars((EnsureBlock /\ asked' = Nil) \/ Panic)

-----------------------------------------------------------------------------
(* Properties. *)

TypeOK ==
  /\ node \in [NodeUri -> {"up", "syncing", "down"}]
  /\ Client \in [NodeUri -> {Nil, "open", "broken"}]
  /\ sub \in [NodeUri -> {"none", "live", "broken"}]
  /\ IsConnected \in [NodeUri -> BOOLEAN] /\ IsSubscribed \in [NodeUri -> BOOLEAN]
  /\ retrying \in [NodeUri -> BOOLEAN]
  /\ NextRetryTimeoutSec \in [NodeUri -> FirstRetry..MaxRetry]
  /\ waits \in [NodeUri -> 0..MaxWaits]
  /\ pc \in [NodeUri -> {"connect", "connectSync", "connected", "exit", "subscribe",
                         "stopped", "listen", "fetch", "send", "sleep", "redial",
                         "sync", "redialSync", "syncAgain"}]
  /\ NewBlockChan \in Seq(NodeUri) /\ Len(NewBlockChan) <= ChanCap
  /\ asked \in NodeUri \cup {Nil}

\* No call of a connection's goroutine goes to a missing client
\* (gethconnection.go:48, 69, 91, 131, 146): IsConnected, which the code tests
\* instead of the client, is never true without one.
CallsHaveClient ==
  \A n \in NodeUri :
    /\ IsConnected[n] => Client[n] # Nil
    /\ pc[n] \in {"connectSync", "listen", "fetch", "sync", "syncAgain"} => Client[n] # Nil

\* What the status page shows (webserver.go:48): a connection is subscribed
\* exactly while its goroutine listens or works on a header, and there is no
\* second subscription on the way back to Subscribe.
StatusIsTrue ==
  \A n \in {m \in NodeUri : pc[m] # "exit"} :
    /\ IsSubscribed[n] <=> pc[n] \in {"listen", "fetch", "send"}
    /\ IsSubscribed[n] <=> sub[n] # "none"

\* 2^k, for as many delays as are counted.
PowerOfTwo[k \in 0..MaxWaits] == IF k = 0 THEN 1 ELSE 2 * PowerOfTwo[k - 1]

\* What the next delay should be after k of them.
DelayAfter(k) ==
  LET sec == FirstRetry * PowerOfTwo[k] IN IF sec > MaxRetry THEN MaxRetry ELSE sec

\* NextRetryTimeoutSec "starts at 5 seconds and doubles after each unsuccessful
\* retry (max: 3 min)" (gethconnection.go:23), and starts again at 5 seconds
\* after a subscription.  Where no more delays are counted it does not fall.
DelayDoubles ==
  \A n \in NodeUri :
    IF waits[n] < MaxWaits THEN NextRetryTimeoutSec[n] = DelayAfter(waits[n])
    ELSE NextRetryTimeoutSec[n] >= DelayAfter(MaxWaits)

\* The error of SubscribeNewHead is lost only where nobody waits for it
\* (gethconnection.go:70-74, 160-166): a goroutine that ends did not wait since
\* it was started; after a delay, every error leads to the next delay.
EndsOnlyAtTheStart ==
  [][\A n \in NodeUri : pc[n] # "stopped" /\ pc'[n] = "stopped" =>
       waits[n] = 0 /\ NextRetryTimeoutSec[n] = FirstRetry]_vars

\* A node that comes back for good is subscribed again and again, whatever
\* failed before, unless the goroutine ended in its first Subscribe or the
\* program ended in EnsureBlock.
Recovers ==
  \A n \in NodeUri :
    <>[](node[n] = "up") /\ <>(pc[n] = "subscribe") =>
      []<>IsSubscribed[n] \/ <>(pc[n] \in {"stopped", "exit"})

\* A fetched block is always sent, however full the channel is and whatever the
\* other connections do (gethconnection.go:99).
BlocksAreSent == \A n \in NodeUri : pc[n] = "send" ~> pc[n] # "send"

\* gethconnection.go:1: the package "wraps an Ethereum connection and tries to
\* reconnect on error".  If the first SubscribeNewHead fails it does not.
ReconnectsOnError ==
  \A n \in NodeUri :
    <>[](node[n] = "up") /\ [](pc[n] # "exit") => []<>IsSubscribed[n]

\* monitor.go:112: AddBlock will "download unknown referenced blocks".  While
\* the connection tries to dial again there is no client to ask.
DownloadHasClient == asked # Nil => Client[asked] # Nil
=============================================================================

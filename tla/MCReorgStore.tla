---------------------------- MODULE MCReorgStore ----------------------------
(***************************************************************************)
(* Instances of ReorgStore.  Two stale blocks of one height are uncles of  *)
(* the next block:                                                         *)
(*   1 - 2a - 3a                                                           *)
(*     \ 2b, 2c                                                            *)
(***************************************************************************)
EXTENDS ReorgStore

StoreHash   == {"1", "2a", "2b", "2c", "3a"}
StoreNumber == [h \in StoreHash |-> CASE h = "1" -> 1 [] h = "3a" -> 3 [] OTHER -> 2]
StoreParent == [h \in StoreHash |-> CASE h = "1" -> Nil [] h = "3a" -> "2a" [] OTHER -> "1"]
OneUncle    == [h \in StoreHash |-> IF h = "3a" THEN <<"2b">> ELSE <<>>]
TwoUncles   == [h \in StoreHash |-> IF h = "3a" THEN <<"2b", "2c">> ELSE <<>>]

\* What NewReorg says of the fork after block 1, if the monitor knows these
\* stale blocks, as uncles or live.
ForkOf(stale, origin) ==
  NewReorg([h \in StoreHash |-> NewBlock(h, IF h \in stale THEN origin ELSE "Subscription", "geth")],
           "1", [c \in stale \cup {"2a"} |-> IF c = "2a" THEN <<"2a", "3a">> ELSE <<c>>])

\* It has the Id that add-missing-uncles gives to the uncle 2b of 3a.
StoreReorgs == {ForkOf({"2b"}, "Uncle")}
=============================================================================

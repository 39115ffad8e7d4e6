------------------------------- MODULE Chain -------------------------------
(***************************************************************************)
(* The blocks the monitor can hear of.  A block is named by its hash; its  *)
(* number, parent and uncles never change, so they are constant functions  *)
(* of the hash.  The modelled blocks are a finite piece of a block chain   *)
(* with forks: the parents of its lowest blocks lie outside and are Nil.   *)
(***************************************************************************)
EXTENDS Integers, Sequences, FiniteSets, FiniteSetsExt

CONSTANTS Hash,        \* the block hashes
          Number,      \* Number[h]: the height of block h
          ParentHash,  \* ParentHash[h]: the hash of its parent, or Nil
          Uncles,      \* Uncles[h]: the hashes of its uncle headers, in order
          NodeUri,     \* the geth nodes
          Nil          \* Go's nil, and the zero hash

\* A valid header is one above its parent; the uncles of a block lie below it.
\* Block 0 is never announced by a node (nor fetched: it has no children in
\* the window of the monitor), and number 0 means "unset" in the code.
ASSUME ChainAssumption ==
  /\ IsFiniteSet(Hash) /\ Nil \notin Hash /\ Nil \notin Nat
  /\ Number \in [Hash -> Nat \ {0}]
  /\ ParentHash \in [Hash -> Hash \cup {Nil}]
  /\ Uncles \in [Hash -> Seq(Hash)]
  /\ \A h \in Hash :
        /\ ParentHash[h] \in Hash => Number[h] = Number[ParentHash[h]] + 1
        /\ ParentHash[h] = Nil => \A g \in Hash : Number[h] <= Number[g]
        /\ \A i \in DOMAIN Uncles[h] : Number[Uncles[h][i]] < Number[h]

Height == {Number[h] : h \in Hash}

\* analysis.Block: what is known of a block that has been seen.  Its immutable
\* contents are those of its hash; the time of observation is left out.
Origin == {"Subscription", "GetParent", "Uncle"}
Block  == [hash : Hash, origin : Origin, node : NodeUri]

ASSUME NilAssumption == Nil \notin Block

NewBlock(h, origin, node) == [hash |-> h, origin |-> origin, node |-> node]

Ancestors ==
  LET above[h \in Hash] ==
        {h} \cup IF ParentHash[h] \in Hash THEN above[ParentHash[h]] ELSE {}
  IN above

\* h is a or lies on a branch that grows out of a.
Descends(a, h) == a \in Ancestors[h]
=============================================================================

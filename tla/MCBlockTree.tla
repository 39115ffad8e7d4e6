---------------------------- MODULE MCBlockTree ----------------------------
(***************************************************************************)
(* Instances of BlockTree.  The name of a block is its height and branch.  *)
(***************************************************************************)
EXTENDS BlockTree

\* One long fork with a late third branch, a later second fork, and a block
\* beside the first:
\*   1 - 2a - 3a - 4a - 5a
\*     \ 2b - 3b     \ 5b
\*     \ 2c
\*   1b
ForkHash == {"1", "1b", "2a", "2b", "2c", "3a", "3b", "4a", "5a", "5b"}

\* Forks within both branches of a fork:
\*   n1 - n2a - n3a - n4a
\*      |     \ n3c
\*      \ n2b - n3b - n4b
\*            \ n3d
NestedHash == {"n1", "n2a", "n2b", "n3a", "n3b", "n3c", "n3d", "n4a", "n4b"}

TreeHash   == ForkHash \cup NestedHash
TreeNumber == [h \in TreeHash |->
  CASE h \in {"1", "1b", "n1"} -> 1
    [] h \in {"2a", "2b", "2c", "n2a", "n2b"} -> 2
    [] h \in {"3a", "3b", "n3a", "n3b", "n3c", "n3d"} -> 3
    [] h \in {"4a", "n4a", "n4b"} -> 4
    [] h \in {"5a", "5b"} -> 5]
TreeParent == [h \in TreeHash |->
  CASE h \in {"1", "1b", "n1"} -> Nil
    [] h \in {"2a", "2b", "2c"} -> "1"  [] h \in {"n2a", "n2b"} -> "n1"
    [] h = "3a" -> "2a"                 [] h = "3b" -> "2b"
    [] h \in {"n3a", "n3c"} -> "n2a"    [] h \in {"n3b", "n3d"} -> "n2b"
    [] h = "4a" -> "3a"                 [] h \in {"5a", "5b"} -> "4a"
    [] h = "n4a" -> "n3a"               [] h = "n4b" -> "n3b"]
TreeUncles == [h \in TreeHash |-> <<>>]

Node == "node"

\* Every cache of at least one block, of either piece.  Block 2b came as an uncle.
AnyCache ==
  {[h \in Hash |-> IF h \notin S THEN Nil
                   ELSE NewBlock(h, IF h = "2b" THEN "Uncle" ELSE "GetParent", Node)] :
     S \in (SUBSET ForkHash \cup SUBSET NestedHash) \ {{}}}

\* The arguments of the callers: the monitor's (0, 2), the tests' (0, 0), and
\* a bounded search as in (100, 0), scaled to the heights of the instance.
CallArguments == {<<0, 2>>, <<0, 0>>, <<1, 1>>, <<2, 0>>}
TestArguments == {<<0, 0>>}
=============================================================================

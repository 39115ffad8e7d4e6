--------------------------- MODULE MCReorgMonitor ---------------------------
(***************************************************************************)
(* Instances of ReorgMonitor.  The name of a block is its height and branch.*)
(***************************************************************************)
EXTENDS ReorgMonitor

\* A fork of depth one whose stale block 2b is an uncle of 3a:
\*   1 - 2a - 3a - 4a - 5a
\*     \ 2b
UncleHash   == {"1", "2a", "2b", "3a", "4a", "5a"}
UncleNumber == [h \in UncleHash |->
  CASE h = "1" -> 1 [] h \in {"2a", "2b"} -> 2 [] h = "3a" -> 3
    [] h = "4a" -> 4 [] OTHER -> 5]
UncleParent == [h \in UncleHash |->
  CASE h = "1" -> Nil [] h \in {"2a", "2b"} -> "1" [] h = "3a" -> "2a"
    [] h = "4a" -> "3a" [] OTHER -> "4a"]
UncleUncles == [h \in UncleHash |-> IF h = "3a" THEN <<"2b">> ELSE <<>>]
SparseHeads == [n \in {"geth"} |-> {"1", "2b", "5a"}]
UncleHeads  == [n \in {"geth1", "geth2"} |->
  IF n = "geth1" THEN UncleHash \ {"2b"} ELSE {"2b", "5a"}]

\* The same fork with more blocks after it, to move the window past a reorg
\* that was reported:
\*   1 - 2a - 3a - 4a - 5a - 6a - 7a
\*     \ 2b
LongHash   == UncleHash \cup {"6a", "7a"}
LongNumber == [h \in LongHash |->
  CASE h = "6a" -> 6 [] h = "7a" -> 7 [] OTHER -> UncleNumber[h]]
LongParent == [h \in LongHash |->
  CASE h = "6a" -> "5a" [] h = "7a" -> "6a" [] OTHER -> UncleParent[h]]
LongUncles == [h \in LongHash |-> IF h = "3a" THEN <<"2b">> ELSE <<>>]
LongHeads  == [n \in {"geth1", "geth2"} |->
  IF n = "geth1" THEN {"1", "3a", "5a", "7a"} ELSE {"2b", "6a"}]
=============================================================================

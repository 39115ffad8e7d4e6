------------------------------ MODULE Reporter ------------------------------
(***************************************************************************)
(* What the monitor promises the main program over NewReorgChan, whatever  *)
(* the blocks and the nodes do: reorgs are handed over one at a time, the  *)
(* next one when the handler is done with the last, and never two under    *)
(* one Id.  ReorgMonitor.tla implements it; ReorgStore.tla, which has the  *)
(* handler, relies on nothing else, and shows that the handler is done     *)
(* with every reorg in the end.                                            *)
(***************************************************************************)
CONSTANTS Ids,  \* what Reorg.Id can return
          Nil

VARIABLES handling,  \* the Id of the reorg that the handler works on, or Nil
          sent       \* the Ids handed over since the monitor started

vars == <<handling, sent>>

Init == handling = Nil /\ sent = {}

\* The channel has no buffer: the handler takes the reorg as it is sent.
Report ==
  /\ handling = Nil /\ handling' \in Ids
  /\ handling' \notin sent
  /\ sent' = sent \cup {handling'}

Finish ==
  /\ handling # Nil /\ handling' = Nil
  /\ UNCHANGED sent

Next == Report \/ Finish

Spec == Init /\ [][Next]_vars
=============================================================================

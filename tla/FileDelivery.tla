----------------------------- MODULE FileDelivery -----------------------------
(***************************************************************************)
(* What a firmware download promises: the file arrives block after block,  *)
(* and the server reports success at most once, after the last block       *)
(* arrived.                                                                *)
(***************************************************************************)
EXTENDS Naturals

CONSTANT Blocks      \* the file's number of blocks

VARIABLES arrived,   \* blocks of the file that arrived
          reported   \* the server reported success

Init == arrived = 0 /\ reported = FALSE

Arrive == arrived < Blocks /\ arrived' = arrived + 1 /\ UNCHANGED reported

Report == arrived = Blocks /\ ~reported /\ reported' = TRUE /\ UNCHANGED arrived

Next == Arrive \/ Report

Spec == Init /\ [][Next]_<<arrived, reported>>
=============================================================================

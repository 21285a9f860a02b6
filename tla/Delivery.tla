------------------------------ MODULE Delivery ------------------------------
(***************************************************************************)
(* What slack-sync and gong-sync promise of the blocks they are given,     *)
(* however many requests overlap, fail or are killed.  A block is written  *)
(* to the docs, where it stays, or waits in the queue, which it leaves     *)
(* only when it is in the docs.  A block is in the docs when one has all   *)
(* its characters in their order, other text between them or not.  Nothing *)
(* is promised of the order of blocks, and a block that is in the docs may *)
(* be queued and written once more.                                        *)
(***************************************************************************)
CONSTANT Blocks

VARIABLES
    written,   \* the blocks in the docs
    queued     \* the blocks in the buffer

Init == written = {} /\ queued = {}

Write(b) == written' = written \cup {b} /\ UNCHANGED queued

Queue(b) == queued' = queued \cup {b} /\ UNCHANGED written

Leave(b) ==
    /\ b \in queued \cap written
    /\ queued' = queued \ {b}
    /\ UNCHANGED written

Next == \E b \in Blocks : Write(b) \/ Queue(b) \/ Leave(b)

Spec == Init /\ [][Next]_<<written, queued>>
=============================================================================

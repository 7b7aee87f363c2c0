----------------------------- MODULE BoundedFifo -----------------------------
(***************************************************************************)
(* What rtc_base/swap_queue.h promises its two users: a first-in first-out *)
(* queue of at most Size items.  Every operation is atomic here; SwapQueue *)
(* shows that the lock-free code implements it.                            *)
(***************************************************************************)
EXTENDS Naturals, Sequences

CONSTANTS Size,   \* Capacity of the queue.
          Item    \* What can be inserted.

VARIABLES fifo,     \* The queued items, oldest first.
          removed   \* The item the last successful removal returned.

vars == <<fifo, removed>>

Init == fifo = <<>> /\ removed \in Item

Insert(x) == /\ Len(fifo) < Size
             /\ fifo' = Append(fifo, x)
             /\ UNCHANGED removed

Remove == /\ fifo # <<>>
          /\ removed' = Head(fifo)
          /\ fifo' = Tail(fifo)

Clear == fifo' = <<>> /\ UNCHANGED removed

Next == (\E x \in Item : Insert(x)) \/ Remove \/ Clear

Spec == Init /\ [][Next]_vars
=============================================================================

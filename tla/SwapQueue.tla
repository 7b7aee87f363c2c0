------------------------------ MODULE SwapQueue ------------------------------
(***************************************************************************)
(* The lock-free single-producer single-consumer queue that carries render *)
(* frames from the render thread to the capture thread                     *)
(* (src/base/rtc_base/swap_queue.h).  An action is one access to memory    *)
(* the other thread can see: the load of num_elements_, the swap of a slot,*)
(* the read-modify-write of num_elements_, the advance of an index.        *)
(*                                                                         *)
(* Items travel in buffers that are swapped, never copied: a slot, and the *)
(* hand of each thread, holds the identity of a buffer, and content[b] is  *)
(* the item last written into buffer b.  Items are numbered in the order   *)
(* in which the producer fills them.                                       *)
(***************************************************************************)
EXTENDS Naturals, Sequences

CONSTANTS Size,      \* queue_.size(); 100 in EchoCanceller3.
          MaxItems   \* Bound on the number of items the producer fills.

ASSUME SizeAssumption == Size \in Nat \ {0}
ASSUME MaxItemsAssumption == MaxItems \in Nat

VARIABLES
  queue_,            \* Slot -> buffer.
  num_elements_,     \* The shared atomic counter.
  next_write_index_, \* Only accessed by the producer.
  next_read_index_,  \* Only accessed by the consumer.
  content,           \* Buffer -> item last written into it, 0 when none.
  input,             \* The buffer in the producer's hand (*input).
  output,            \* The buffer in the consumer's hand (*output).
  producer,          \* Where the producer is inside Insert.
  consumer,          \* Where the consumer is inside Remove or Clear.
  cleared,           \* The value Clear's exchange returned.
  filled,            \* Number of items filled so far.
  removed            \* The item of the last Remove that returned true.

producerVars == <<next_write_index_, input, producer, filled>>
consumerVars == <<next_read_index_, output, consumer, cleared, removed>>
sharedVars == <<queue_, num_elements_, content>>
vars == <<producerVars, consumerVars, sharedVars>>

Slot == 0 .. Size - 1
Buffer == 0 .. Size + 1
Item == 0 .. MaxItems

\* An index that went at most once around the ring.
Wrap(i) == IF i >= Size THEN i - Size ELSE i

Init ==
  /\ queue_ = [s \in Slot |-> s]
  /\ input = Size
  /\ output = Size + 1
  /\ content = [b \in Buffer |-> 0]
  /\ num_elements_ = 0
  /\ next_write_index_ = 0
  /\ next_read_index_ = 0
  /\ producer = "idle"
  /\ consumer = "idle"
  /\ cleared = 0
  /\ filled = 0
  /\ removed = 0

-----------------------------------------------------------------------------
(* Variants of the steps below, each with a mistake in it.                 *)

\* A full queue is noticed one element too late.
InsertLoadOverfull ==
  /\ producer = "load"
  /\ producer' = IF num_elements_ > Size THEN "idle" ELSE "swap"
  /\ UNCHANGED <<next_write_index_, input, filled, consumerVars, sharedVars>>

\* The producer keeps the buffer it put into the slot.
InsertSwapCopy ==
  /\ producer = "swap"
  /\ queue_' = [queue_ EXCEPT ![next_write_index_] = input]
  /\ producer' = "count"
  /\ UNCHANGED <<next_write_index_, input, filled, num_elements_, content, consumerVars>>

\* The index stays where it is.
InsertAdvanceForgotten ==
  /\ producer = "advance"
  /\ producer' = "idle"
  /\ UNCHANGED <<next_write_index_, input, filled, consumerVars, sharedVars>>

\* The slot keeps the buffer the consumer took.
RemoveSwapCopy ==
  /\ consumer = "swap"
  /\ output' = queue_[next_read_index_]
  /\ consumer' = "count"
  /\ UNCHANGED <<queue_, next_read_index_, cleared, removed, num_elements_, content, producerVars>>

\* Clear leaves its index behind.
ClearAdvanceForgotten ==
  /\ consumer = "clear"
  /\ cleared' = 0
  /\ consumer' = "idle"
  /\ UNCHANGED <<next_read_index_, output, removed, producerVars, sharedVars>>

-----------------------------------------------------------------------------
(* The producer.                                                           *)

\* The producer writes a new item into its buffer and calls Insert.
Fill ==
  /\ producer = "idle"
  /\ filled < MaxItems
  /\ filled' = filled + 1
  /\ content' = [content EXCEPT ![input] = filled + 1]
  /\ producer' = "load"
  /\ UNCHANGED <<queue_, num_elements_, next_write_index_, input, consumerVars>>

\* The load of num_elements_: a full queue makes Insert return false.
InsertLoad ==
  /\ producer = "load"
  /\ producer' = IF num_elements_ = Size THEN "idle" ELSE "swap"
  /\ UNCHANGED <<next_write_index_, input, filled, consumerVars, sharedVars>>

InsertSwap ==
  /\ producer = "swap"
  /\ queue_' = [queue_ EXCEPT ![next_write_index_] = input]
  /\ input' = queue_[next_write_index_]
  /\ producer' = "count"
  /\ UNCHANGED <<next_write_index_, filled, num_elements_, content, consumerVars>>

\* fetch_add publishes the slot to the consumer.
InsertCount ==
  /\ producer = "count"
  /\ num_elements_' = num_elements_ + 1
  /\ producer' = "advance"
  /\ UNCHANGED <<next_write_index_, input, filled, queue_, content, consumerVars>>

InsertAdvance ==
  /\ producer = "advance"
  /\ next_write_index_' = Wrap(next_write_index_ + 1)
  /\ producer' = "idle"
  /\ UNCHANGED <<input, filled, consumerVars, sharedVars>>

Producer == Fill \/ InsertLoad \/ InsertSwap \/ InsertCount \/ InsertAdvance

-----------------------------------------------------------------------------
(* The consumer.                                                           *)

\* The load of num_elements_: on an empty queue Remove returns false, and
\* nothing has changed.
RemoveLoad ==
  /\ consumer = "idle"
  /\ num_elements_ # 0
  /\ consumer' = "swap"
  /\ UNCHANGED <<next_read_index_, output, cleared, removed, producerVars, sharedVars>>

RemoveSwap ==
  /\ consumer = "swap"
  /\ queue_' = [queue_ EXCEPT ![next_read_index_] = output]
  /\ output' = queue_[next_read_index_]
  /\ consumer' = "count"
  /\ UNCHANGED <<next_read_index_, cleared, removed, num_elements_, content, producerVars>>

\* fetch_sub gives the slot back to the producer.
RemoveCount ==
  /\ consumer = "count"
  /\ num_elements_' = num_elements_ - 1
  /\ removed' = content[output]
  /\ consumer' = "advance"
  /\ UNCHANGED <<next_read_index_, output, cleared, queue_, content, producerVars>>

RemoveAdvance ==
  /\ consumer = "advance"
  /\ next_read_index_' = Wrap(next_read_index_ + 1)
  /\ consumer' = "idle"
  /\ UNCHANGED <<output, cleared, removed, producerVars, sharedVars>>

\* The exchange of Clear: every queued slot goes back to the producer at once,
\* before next_read_index_ has moved past them.
ClearExchange ==
  /\ consumer = "idle"
  /\ cleared' = num_elements_
  /\ num_elements_' = 0
  /\ consumer' = "clear"
  /\ UNCHANGED <<next_read_index_, output, removed, queue_, content, producerVars>>

ClearAdvance ==
  /\ consumer = "clear"
  /\ next_read_index_' = Wrap(next_read_index_ + cleared)
  /\ cleared' = 0
  /\ consumer' = "idle"
  /\ UNCHANGED <<output, removed, producerVars, sharedVars>>

Remove == RemoveLoad \/ RemoveSwap \/ RemoveCount \/ RemoveAdvance
Clear == ClearExchange \/ ClearAdvance

Next == Producer \/ Remove \/ Clear

Spec == Init /\ [][Next]_vars

\* The capture thread calls Remove again and again (EmptyRenderQueue runs in every
\* ProcessCapture), and a thread inside an operation goes on.  How often the
\* producer inserts is not assumed.
FairSpec == /\ Spec
            /\ WF_vars(Remove)
            /\ WF_vars(ClearAdvance)
            /\ WF_vars(InsertLoad \/ InsertSwap \/ InsertCount \/ InsertAdvance)

-----------------------------------------------------------------------------
(* Properties.                                                             *)

\* Type invariant: indices stay inside the ring and the counter between 0 and
\* Size (the RTC_DCHECKs at the end of Insert, Remove and Clear).
TypeOK ==
  /\ queue_ \in [Slot -> Buffer]
  /\ num_elements_ \in 0 .. Size
  /\ next_write_index_ \in Slot
  /\ next_read_index_ \in Slot
  /\ content \in [Buffer -> Item]
  /\ input \in Buffer
  /\ output \in Buffer
  /\ producer \in {"idle", "load", "swap", "count", "advance"}
  /\ consumer \in {"idle", "swap", "count", "advance", "clear"}
  /\ cleared \in 0 .. Size
  /\ filled \in Item
  /\ removed \in Item

\* The two threads never swap the same slot at the same time: Insert's and
\* Remove's std::swap need no lock because num_elements_ keeps them apart.
NoSlotRace ==
  ~(producer = "swap" /\ consumer = "swap" /\ next_write_index_ = next_read_index_)

\* No buffer is ever in two places: the swaps only permute the Size + 2 buffers
\* among the slots and the two hands, so nothing is copied, leaked or allocated.
BuffersConserved ==
  /\ \A s, t \in Slot : s # t => queue_[s] # queue_[t]
  /\ \A s \in Slot : queue_[s] # input /\ queue_[s] # output
  /\ input # output

\* Where the oldest counted element is, and where the next uncounted one goes.
\* A thread that changed num_elements_ but did not move its index yet is ahead
\* of that index.
Front == CASE consumer = "advance" -> Wrap(next_read_index_ + 1)
           [] consumer = "clear"   -> Wrap(next_read_index_ + cleared)
           [] OTHER                -> next_read_index_
Back == IF producer = "advance" THEN Wrap(next_write_index_ + 1) ELSE next_write_index_

\* The item at the given distance from the front.  The consumer holds the
\* front item itself between its swap and its fetch_sub.
ItemAt(i) == IF consumer = "count" /\ i = 0 THEN content[output]
             ELSE content[queue_[Wrap(Front + i)]]

\* Refinement: read this way, the queue is a bounded FIFO.  Insert takes effect
\* at its fetch_add, Remove at its fetch_sub, Clear at its exchange; every other
\* access is invisible.
queued == [i \in 1 .. num_elements_ |-> ItemAt(i - 1)]
Fifo == INSTANCE BoundedFifo WITH fifo <- queued
ImplementsFifo == Fifo!Spec

\* What the render side puts in comes out in the order it was put in, each item
\* at most once: a successful Remove returns a later item than the one before.
RemovedInOrder == [][removed' # removed => removed' > removed]_vars

\* An item that is in the queue does not stay there for ever: it is removed, or
\* dropped by the next Clear.
QueuedIsRemoved ==
  \A n \in Item \ {0} :
    (\E i \in 1 .. num_elements_ : queued[i] = n) ~> (removed = n \/ cleared > 0)
=============================================================================

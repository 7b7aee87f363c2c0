--------------------------- MODULE SwapQueueProofs ---------------------------
(***************************************************************************)
(* Proofs about SwapQueue for every queue size and every number of items.  *)
(***************************************************************************)
EXTENDS SwapQueue, SequenceTheorems, TLAPS

USE SizeAssumption, MaxItemsAssumption

\* The counter separates the two indices: the back of the queue is
\* num_elements_ slots after its front, a producer past its load has seen a
\* free slot that no step of the consumer can take away, and a consumer past its
\* load has seen an element that no step of the producer can take away.
IndexInv ==
  /\ Back = Wrap(Front + num_elements_)
  /\ producer \in {"swap", "count"} => num_elements_ < Size
  /\ consumer \in {"swap", "count"} => num_elements_ > 0

Inv == TypeOK /\ IndexInv /\ BuffersConserved

\* Wrapping an index that went at most once around the ring gives a slot, and
\* slots less than a ring apart are different.
LEMMA WrapSlot == ASSUME NEW i \in Slot, NEW n \in 0 .. Size
                  PROVE  Wrap(i + n) \in Slot
  BY DEF Slot, Wrap

\* One slot further and then n more are n + 1 more.
LEMMA WrapNext == ASSUME NEW i \in Slot, NEW n \in 0 .. Size - 1
                  PROVE  /\ Wrap(Wrap(i + n) + 1) = Wrap(i + (n + 1))
                         /\ Wrap(Wrap(i + 1) + n) = Wrap(i + (n + 1))
  BY DEF Slot, Wrap

\* Different distances below the size lead to different slots.
LEMMA WrapInjective == ASSUME NEW i \in Slot, NEW m \in 0 .. Size - 1, NEW n \in 0 .. Size - 1, m # n
                       PROVE  Wrap(i + m) # Wrap(i + n)
  BY DEF Slot, Wrap

\* The front of the queue is a slot.
LEMMA FrontSlot == ASSUME TypeOK PROVE Front \in Slot
  BY WrapSlot, 1 \in 0 .. Size DEF TypeOK, Front

\* Every step, and every stutter, preserves the types.
LEMMA TypeStep == Inv /\ [Next]_vars => TypeOK'
<1> SUFFICES ASSUME Inv, [Next]_vars PROVE TypeOK'
  OBVIOUS
<1> USE DEF Inv, TypeOK, producerVars, consumerVars, sharedVars
<1>0. CASE UNCHANGED vars
  BY <1>0 DEF vars
<1>1. CASE Fill
  BY <1>1 DEF Fill, Item
<1>2. CASE InsertLoad
  BY <1>2 DEF InsertLoad
<1>3. CASE InsertSwap
  BY <1>3 DEF InsertSwap
<1>4. CASE InsertCount
  BY <1>4 DEF InsertCount, IndexInv
<1>5. CASE InsertAdvance
  BY <1>5, 1 \in 0 .. Size, WrapSlot DEF InsertAdvance
<1>6. CASE RemoveLoad
  BY <1>6 DEF RemoveLoad
<1>7. CASE RemoveSwap
  BY <1>7 DEF RemoveSwap
<1>8. CASE RemoveCount
  BY <1>8 DEF RemoveCount, IndexInv
<1>9. CASE RemoveAdvance
  BY <1>9, 1 \in 0 .. Size, WrapSlot DEF RemoveAdvance
<1>10. CASE ClearExchange
  BY <1>10 DEF ClearExchange
<1>11. CASE ClearAdvance
  BY <1>11, WrapSlot DEF ClearAdvance
<1> QED
  BY <1>0, <1>1, <1>2, <1>3, <1>4, <1>5, <1>6, <1>7, <1>8, <1>9, <1>10, <1>11
     DEF Next, Producer, Remove, Clear

\* Every step keeps the counter equal to the distance between the indices.
LEMMA IndexStep == Inv /\ [Next]_vars => IndexInv'
<1> SUFFICES ASSUME Inv, [Next]_vars PROVE IndexInv'
  OBVIOUS
<1> USE DEF Inv, TypeOK, IndexInv, Front, Back, producerVars, consumerVars, sharedVars
<1>0. CASE UNCHANGED vars
  BY <1>0 DEF vars
<1>1. CASE Fill
  BY <1>1 DEF Fill
<1>2. CASE InsertLoad
  BY <1>2 DEF InsertLoad
<1>3. CASE InsertSwap
  BY <1>3 DEF InsertSwap
<1>4. CASE InsertCount
  <2>1. Front' = Front /\ Front \in Slot
    BY <1>4, FrontSlot DEF InsertCount
  <2>2. num_elements_ \in 0 .. Size - 1 /\ num_elements_' = num_elements_ + 1
    BY <1>4 DEF InsertCount
  <2>3. Back = next_write_index_ /\ Back' = Wrap(next_write_index_ + 1)
    BY <1>4 DEF InsertCount
  <2>4. Back' = Wrap(Front' + num_elements_')
    <3>1. Wrap(Wrap(Front + num_elements_) + 1) = Wrap(Front + (num_elements_ + 1))
      BY <2>1, <2>2, WrapNext
    <3> QED
      BY <2>1, <2>2, <2>3, <3>1 DEF IndexInv
  <2> HIDE DEF Back, Front
  <2> QED
    BY <2>2, <2>4, <1>4 DEF InsertCount
<1>5. CASE InsertAdvance
  BY <1>5 DEF InsertAdvance
<1>6. CASE RemoveLoad
  BY <1>6 DEF RemoveLoad
<1>7. CASE RemoveSwap
  BY <1>7 DEF RemoveSwap
<1>8. CASE RemoveCount
  <2>1. /\ Front = next_read_index_ /\ Front' = Wrap(Front + 1) /\ Front \in Slot
        /\ Back' = Back /\ Back = Wrap(Front + num_elements_)
    BY <1>8, FrontSlot DEF RemoveCount
  <2>2. num_elements_ \in 1 .. Size /\ num_elements_' = num_elements_ - 1
    BY <1>8 DEF RemoveCount
  <2>3. consumer' = "advance" /\ producer' = producer
    BY <1>8 DEF RemoveCount
  <2> HIDE DEF Inv, TypeOK, Back, Front
  <2>4. Wrap(Wrap(Front + 1) + (num_elements_ - 1)) = Wrap(Front + num_elements_)
    <3>1. num_elements_ - 1 \in 0 .. Size - 1 /\ (num_elements_ - 1) + 1 = num_elements_
      BY <2>2
    <3> QED
      BY <2>1, <3>1, WrapNext
  <2> QED
    BY <2>1, <2>2, <2>3, <2>4 DEF IndexInv
<1>9. CASE RemoveAdvance
  BY <1>9 DEF RemoveAdvance
<1>10. CASE ClearExchange
  BY <1>10 DEF ClearExchange, Slot, Wrap
<1>11. CASE ClearAdvance
  BY <1>11 DEF ClearAdvance
<1> HIDE DEF Inv, TypeOK, IndexInv, Front, Back, producerVars, consumerVars, sharedVars
<1> QED
  BY <1>0, <1>1, <1>2, <1>3, <1>4, <1>5, <1>6, <1>7, <1>8, <1>9, <1>10, <1>11
     DEF Next, Producer, Remove, Clear

\* Every step permutes the buffers.
LEMMA BuffersStep == Inv /\ [Next]_vars => BuffersConserved'
<1> SUFFICES ASSUME Inv, [Next]_vars PROVE BuffersConserved'
  OBVIOUS
<1> USE DEF Inv, TypeOK, BuffersConserved, producerVars, consumerVars, sharedVars
<1>1. CASE InsertSwap
  BY <1>1 DEF InsertSwap
<1>2. CASE RemoveSwap
  BY <1>2 DEF RemoveSwap
<1>3. CASE UNCHANGED <<queue_, input, output>>
  BY <1>3
<1> QED
  BY <1>1, <1>2, <1>3 DEF vars, Next, Producer, Remove, Clear, Fill, InsertLoad, InsertCount,
     InsertAdvance, RemoveLoad, RemoveCount, RemoveAdvance, ClearExchange, ClearAdvance

\* The invariant holds of a new queue.
LEMMA InitInv == Init => Inv
  BY DEF Init, Inv, TypeOK, IndexInv, BuffersConserved, Front, Back, Wrap, Slot, Buffer, Item

\* The invariant always holds.
LEMMA Invariance == Spec => []Inv
<1>1. Inv /\ [Next]_vars => Inv'
  BY TypeStep, IndexStep, BuffersStep DEF Inv
<1> QED
  BY <1>1, InitInv, PTL DEF Spec

\* Indices and counter never leave their ranges (the RTC_DCHECKs of Insert,
\* Remove and Clear), for every queue size.
THEOREM TypeCorrect == Spec => []TypeOK
  BY Invariance, PTL DEF Inv

\* The lock-free accesses never meet in a slot, for every queue size and with
\* Clear at any point between the producer's steps.
THEOREM NoRace == Spec => []NoSlotRace
<1>1. Inv => NoSlotRace
  BY DEF Inv, TypeOK, IndexInv, NoSlotRace, Front, Back, Wrap, Slot
<1> QED
  BY <1>1, Invariance, PTL

\* The swaps conserve the buffers.
THEOREM Conservation == Spec => []BuffersConserved
  BY Invariance, PTL DEF Inv

-----------------------------------------------------------------------------
(* Refinement.                                                             *)

\* Appending to a sequence, and taking its tail, read as functions.
LEMMA AppendIsFunction ==
  ASSUME NEW S, NEW s \in Seq(S), NEW x \in S
  PROVE  Append(s, x) = [i \in 1 .. Len(s) + 1 |-> IF i = Len(s) + 1 THEN x ELSE s[i]]
<1> DEFINE t == [i \in 1 .. Len(s) + 1 |-> IF i = Len(s) + 1 THEN x ELSE s[i]]
<1>1. Len(s) \in Nat /\ \A i \in 1 .. Len(s) : s[i] \in S
  BY LenProperties, ElementOfSeq
<1>2. t \in Seq(S) /\ Len(t) = Len(s) + 1
  BY <1>1
<1> HIDE DEF t
<1>3. \A i \in 1 .. Len(s) + 1 : t[i] = IF i = Len(s) + 1 THEN x ELSE s[i]
  BY DEF t
<1>4. Append(s, x) = t
  BY <1>1, <1>2, <1>3, AppendProperties, SeqEqual
<1> QED
  BY <1>4 DEF t

\* The tail of a sequence as a function.
LEMMA TailIsFunction ==
  ASSUME NEW S, NEW s \in Seq(S), s # <<>>
  PROVE  Tail(s) = [i \in 1 .. Len(s) - 1 |-> s[i + 1]]
<1> DEFINE t == [i \in 1 .. Len(s) - 1 |-> s[i + 1]]
<1>1. Len(s) \in Nat \ {0} /\ \A i \in 1 .. Len(s) : s[i] \in S
  BY EmptySeq, ElementOfSeq
<1>2. t \in Seq(S) /\ Len(t) = Len(s) - 1
  BY <1>1
<1> HIDE DEF t
<1>3. \A i \in 1 .. Len(s) - 1 : t[i] = s[i + 1]
  BY DEF t
<1>4. Tail(s) = t
  BY <1>1, <1>2, <1>3, HeadTailProperties, SeqEqual
<1> QED
  BY <1>4 DEF t

\* Two states that agree on the items at every occupied distance from the front
\* hold the same queue.
LEMMA QueuedUnchanged == ASSUME num_elements_' = num_elements_,
                                \A i \in 0 .. num_elements_ - 1 : ItemAt(i)' = ItemAt(i),
                                num_elements_ \in Nat
                         PROVE  queued' = queued
  BY DEF queued

\* What is queued is a sequence of items.
LEMMA QueuedSeq == ASSUME TypeOK
                   PROVE  /\ queued \in Seq(Item)
                          /\ Len(queued) = num_elements_
                          /\ DOMAIN queued = 1 .. num_elements_
<1>1. \A i \in 1 .. num_elements_ : ItemAt(i - 1) \in Item
  BY FrontSlot, WrapSlot DEF TypeOK, ItemAt
<1> QED
  BY <1>1 DEF queued, TypeOK

\* The accesses that do not write num_elements_ are invisible in the queue.
LEMMA InvisibleStep ==
  ASSUME Inv, [Next]_vars, ~InsertCount, ~RemoveCount, ~ClearExchange
  PROVE  queued' = queued /\ removed' = removed
<1> USE DEF Inv, TypeOK, producerVars, consumerVars, sharedVars
<1>a. num_elements_ \in Nat /\ Front \in Slot
  BY FrontSlot
<1>b. ASSUME NEW i \in 0 .. num_elements_ - 1
      PROVE  Wrap(Front + i) \in Slot
  BY <1>a, <1>b, WrapSlot
<1>0. CASE UNCHANGED vars
  <2>1. \A i \in 0 .. num_elements_ - 1 : ItemAt(i)' = ItemAt(i)
    BY <1>0 DEF vars, ItemAt, Front
  <2> QED
    BY <1>0, <1>a, <2>1, QueuedUnchanged DEF vars
<1>1. CASE Fill
  <2>1. Front' = Front
    BY <1>1 DEF Fill, Front
  <2>2. \A i \in 0 .. num_elements_ - 1 : ItemAt(i)' = ItemAt(i)
    BY <1>1, <1>b, <2>1 DEF Fill, ItemAt, BuffersConserved
  <2> QED
    BY <1>1, <1>a, <2>2, QueuedUnchanged DEF Fill
<1>2. CASE InsertLoad \/ InsertAdvance \/ RemoveLoad \/ RemoveAdvance \/ ClearAdvance
  <2>1. Front' = Front
    BY <1>2 DEF InsertLoad, InsertAdvance, RemoveLoad, RemoveAdvance, ClearAdvance, Front
  <2>2. /\ UNCHANGED sharedVars /\ UNCHANGED <<output, removed>>
        /\ consumer = "count" <=> consumer' = "count"
    BY <1>2 DEF InsertLoad, InsertAdvance, RemoveLoad, RemoveAdvance, ClearAdvance
  <2>3. \A i \in 0 .. num_elements_ - 1 : ItemAt(i)' = ItemAt(i)
    BY <2>1, <2>2 DEF ItemAt
  <2> QED
    BY <1>a, <2>2, <2>3, QueuedUnchanged
<1>3. CASE InsertSwap
  <2>1. Front' = Front /\ num_elements_ \in 0 .. Size - 1
    BY <1>3 DEF InsertSwap, Front, IndexInv
  <2>2. next_write_index_ = Wrap(Front + num_elements_)
    BY <1>3 DEF InsertSwap, IndexInv, Back
  <2>3. \A i \in 0 .. num_elements_ - 1 : Wrap(Front + i) # next_write_index_
    BY <1>a, <2>1, <2>2, WrapInjective
  <2>4. \A i \in 0 .. num_elements_ - 1 : ItemAt(i)' = ItemAt(i)
    BY <1>3, <1>b, <2>1, <2>3 DEF InsertSwap, ItemAt
  <2> QED
    BY <1>3, <1>a, <2>4, QueuedUnchanged DEF InsertSwap
<1>4. CASE RemoveSwap
  <2>1. Front' = Front /\ Front = next_read_index_
    BY <1>4 DEF RemoveSwap, Front
  <2>2. ItemAt(0)' = ItemAt(0)
    BY <1>4, <2>1 DEF RemoveSwap, ItemAt, Slot, Wrap
  <2>3. ASSUME NEW i \in 1 .. num_elements_ - 1
        PROVE  ItemAt(i)' = ItemAt(i)
    <3>1. Wrap(Front + i) # Wrap(Front + 0) /\ Wrap(Front + 0) = next_read_index_
      BY <1>a, <2>1, WrapInjective DEF Wrap, Slot
    <3> QED
      BY <1>4, <1>b, <2>1, <3>1 DEF RemoveSwap, ItemAt
  <2>4. \A i \in 0 .. num_elements_ - 1 : ItemAt(i)' = ItemAt(i)
    BY <2>2, <2>3, <1>a
  <2> QED
    BY <1>4, <1>a, <2>4, QueuedUnchanged DEF RemoveSwap
<1> QED
  BY <1>0, <1>1, <1>2, <1>3, <1>4 DEF Next, Producer, Remove, Clear

\* The fetch_add of Insert appends the item the producer swapped in.
LEMMA InsertStep ==
  ASSUME Inv, InsertCount
  PROVE  /\ queued' = Append(queued, content[queue_[next_write_index_]])
         /\ Len(queued) < Size /\ removed' = removed
<1> USE DEF Inv, TypeOK, producerVars, consumerVars, sharedVars
<1>1. /\ num_elements_ \in 0 .. Size - 1 /\ num_elements_' = num_elements_ + 1
      /\ UNCHANGED <<queue_, content, output, consumer, removed>>
      /\ producer = "count"
  BY DEF InsertCount, IndexInv
<1>2. Front' = Front
  BY DEF InsertCount, Front
<1>3. next_write_index_ = Wrap(Front + num_elements_)
  BY <1>1 DEF IndexInv, Back
<1>4. \A i \in 0 .. num_elements_ : ItemAt(i)' = ItemAt(i)
  BY <1>1, <1>2 DEF ItemAt
<1>5. ItemAt(num_elements_) = content[queue_[next_write_index_]]
  BY <1>1, <1>3 DEF ItemAt, IndexInv
<1>6. queued' = [i \in 1 .. num_elements_ + 1 |-> ItemAt(i - 1)]
  BY <1>1, <1>4 DEF queued
<1>7. /\ Len(queued) = num_elements_ /\ queued \in Seq(Item)
      /\ \A i \in 1 .. num_elements_ : queued[i] = ItemAt(i - 1)
  BY QueuedSeq DEF queued
<1>8. Append(queued, ItemAt(num_elements_)) = [i \in 1 .. num_elements_ + 1 |-> ItemAt(i - 1)]
  <2>1. ItemAt(num_elements_) \in Item
    BY <1>5
  <2>2. \A i \in 1 .. num_elements_ + 1 :
          (IF i = num_elements_ + 1 THEN ItemAt(num_elements_) ELSE queued[i]) = ItemAt(i - 1)
    BY <1>1, <1>7
  <2> HIDE DEF Inv, TypeOK, producerVars, consumerVars, sharedVars
  <2>3. num_elements_ \in Nat
    BY <1>1
  <2> QED
    BY <1>7, <2>1, <2>2, <2>3, AppendIsFunction
<1> HIDE DEF Inv, TypeOK, producerVars, consumerVars, sharedVars
<1> QED
  BY <1>1, <1>5, <1>6, <1>7, <1>8

\* The fetch_sub of Remove takes the front item, which the consumer holds.
LEMMA RemoveStep ==
  ASSUME Inv, RemoveCount
  PROVE  /\ queued # <<>> /\ queued' = Tail(queued)
         /\ removed' = Head(queued)
<1> USE DEF Inv, TypeOK, producerVars, consumerVars, sharedVars
<1>1. /\ num_elements_ \in 1 .. Size /\ num_elements_' = num_elements_ - 1
      /\ UNCHANGED <<queue_, content, output>>
      /\ consumer = "count" /\ consumer' = "advance"
      /\ removed' = content[output]
  BY DEF RemoveCount, IndexInv
<1>2. Front = next_read_index_ /\ Front' = Wrap(Front + 1)
  BY DEF RemoveCount, Front
<1>3. ASSUME NEW i \in 0 .. num_elements_ - 2
      PROVE  ItemAt(i)' = ItemAt(i + 1)
  <2>1. Wrap(Wrap(Front + 1) + i) = Wrap(Front + (i + 1))
    BY <1>1, <1>2, WrapNext
  <2> QED
    BY <1>1, <1>2, <2>1 DEF ItemAt
<1>4. /\ Len(queued) = num_elements_ /\ queued \in Seq(Item)
      /\ \A i \in 1 .. num_elements_ : queued[i] = ItemAt(i - 1)
  BY QueuedSeq DEF queued
<1>5. queued' = [i \in 1 .. num_elements_ - 1 |-> ItemAt(i)]
  <2>1. queued' = [i \in 1 .. num_elements_ - 1 |-> ItemAt(i - 1)']
    BY <1>1 DEF queued
  <2>2. ASSUME NEW i \in 1 .. num_elements_ - 1
        PROVE  ItemAt(i - 1)' = ItemAt(i)
    <3>1. i - 1 \in 0 .. num_elements_ - 2 /\ (i - 1) + 1 = i
      BY <1>1
    <3> QED
      BY <3>1, <1>3
  <2> QED
    BY <2>1, <2>2
<1>6. Tail(queued) = [i \in 1 .. num_elements_ - 1 |-> ItemAt(i)]
  <2>1. \A i \in 1 .. num_elements_ - 1 : queued[i + 1] = ItemAt(i)
    BY <1>1, <1>4
  <2>2. queued # <<>>
    BY <1>1, <1>4
  <2> HIDE DEF Inv, TypeOK, producerVars, consumerVars, sharedVars
  <2> QED
    BY <1>4, <2>1, <2>2, TailIsFunction
<1>7. Head(queued) = content[output]
  BY <1>1, <1>4 DEF ItemAt
<1> QED
  BY <1>1, <1>4, <1>5, <1>6, <1>7

\* The exchange of Clear empties the queue.
LEMMA ClearStep == ASSUME Inv, ClearExchange
                   PROVE  queued' = <<>> /\ removed' = removed
<1>1. num_elements_' = 0 /\ removed' = removed
  BY DEF ClearExchange
<1> QED
  BY <1>1 DEF queued

\* The lock-free queue implements the abstract FIFO, for every queue size: each
\* access to memory is one FIFO operation or invisible.
THEOREM Refinement == Spec => ImplementsFifo
<1>1. Init => Fifo!Init
  BY DEF Init, Fifo!Init, queued, Item
<1>2. Inv /\ [Next]_vars => [Fifo!Next]_(Fifo!vars)
  <2> SUFFICES ASSUME Inv, [Next]_vars PROVE [Fifo!Next]_(Fifo!vars)
    OBVIOUS
  <2>1. CASE InsertCount
    <3>1. content[queue_[next_write_index_]] \in Item
      BY DEF Inv, TypeOK
    <3> QED
      BY <2>1, <3>1, InsertStep DEF Fifo!Next, Fifo!Insert
  <2>2. CASE RemoveCount
    BY <2>2, RemoveStep DEF Fifo!Next, Fifo!Remove
  <2>3. CASE ClearExchange
    BY <2>3, ClearStep DEF Fifo!Next, Fifo!Clear
  <2>4. CASE ~InsertCount /\ ~RemoveCount /\ ~ClearExchange
    BY <2>4, InvisibleStep DEF Fifo!vars
  <2> QED
    BY <2>1, <2>2, <2>3, <2>4
<1> QED
  BY <1>1, <1>2, Invariance, PTL DEF Spec, ImplementsFifo, Fifo!Spec

-----------------------------------------------------------------------------
(* Order.                                                                  *)

\* The queue holds, oldest first, items filled after the last removed one; the
\* item being inserted is younger than all of them and stays, until fetch_add
\* publishes it, in the producer's hand or in the slot it was swapped into.
OrderInv ==
  /\ removed <= filled
  /\ \A i \in 1 .. Len(queued) : removed < queued[i] /\ queued[i] <= filled
  /\ \A i, j \in 1 .. Len(queued) : i < j => queued[i] < queued[j]
  /\ producer \in {"load", "swap"} => content[input] = filled
  /\ producer = "count" => content[queue_[next_write_index_]] = filled
  /\ producer \in {"load", "swap", "count"} =>
       removed < filled /\ \A i \in 1 .. Len(queued) : queued[i] < filled

\* The three visible steps and the invisible ones keep the order.
LEMMA OrderStep == Inv /\ OrderInv /\ [Next]_vars => OrderInv'
<1> SUFFICES ASSUME Inv, OrderInv, [Next]_vars PROVE OrderInv'
  OBVIOUS
<1>a. /\ queued \in Seq(Nat) /\ Len(queued) \in Nat
      /\ \A i \in 1 .. Len(queued) : queued[i] \in Nat
  <2>1. queued \in Seq(Item) /\ Item \subseteq Nat
    BY QueuedSeq DEF Inv, Item
  <2> QED
    BY <2>1, SeqMonotonic, ElementOfSeq, LenProperties
<1>b. removed \in Nat /\ filled \in Nat
  BY DEF Inv, TypeOK, Item
<1>1. CASE InsertCount
  <2>1. queued' = Append(queued, filled) /\ removed' = removed /\ filled' = filled
    BY <1>1, InsertStep DEF InsertCount, OrderInv, consumerVars
  <2>2. /\ Len(queued') = Len(queued) + 1
        /\ queued'[Len(queued) + 1] = filled
        /\ \A i \in 1 .. Len(queued) : queued'[i] = queued[i]
    BY <1>a, <1>b, <2>1, AppendProperties
  <2>3. removed < filled /\ \A i \in 1 .. Len(queued) : queued[i] < filled
    BY <1>1 DEF InsertCount, OrderInv
  <2>4. producer' = "advance"
    BY <1>1 DEF InsertCount
  <2> QED
    BY <1>a, <1>b, <2>1, <2>2, <2>3, <2>4 DEF OrderInv
<1>2. CASE RemoveCount
  <2>1. queued # <<>> /\ queued' = Tail(queued) /\ removed' = Head(queued)
    BY <1>2, RemoveStep
  <2>2. /\ Len(queued') = Len(queued) - 1 /\ Len(queued) > 0
        /\ \A i \in 1 .. Len(queued') : queued'[i] = queued[i + 1]
        /\ removed' = queued[1]
    BY <1>a, <2>1, HeadTailProperties, EmptySeq
  <2>3. UNCHANGED <<filled, producer, content, input, queue_, next_write_index_>>
    BY <1>2 DEF RemoveCount, producerVars
  <2>4. ASSUME NEW i \in 1 .. Len(queued')
        PROVE  /\ queued'[i] = queued[i + 1] /\ i + 1 \in 1 .. Len(queued)
               /\ removed' < queued'[i] /\ queued'[i] <= filled
    <3>1. i \in Nat /\ i + 1 \in 1 .. Len(queued) /\ 1 \in 1 .. Len(queued) /\ 1 < i + 1
      BY <1>a, <2>2
    <3>2. queued[1] < queued[i + 1] /\ queued[i + 1] <= filled
      BY <3>1 DEF OrderInv
    <3> QED
      BY <2>2, <3>1, <3>2
  <2>5. \A i, j \in 1 .. Len(queued') : i < j => queued'[i] < queued'[j]
    <3> SUFFICES ASSUME NEW i \in 1 .. Len(queued'), NEW j \in 1 .. Len(queued'), i < j
                 PROVE  queued'[i] < queued'[j]
      OBVIOUS
    <3>1. i + 1 < j + 1
      BY <1>a, <2>2
    <3>2. queued[i + 1] < queued[j + 1]
      BY <2>4, <3>1 DEF OrderInv
    <3> QED
      BY <2>4, <3>2
  <2>6. producer \in {"load", "swap", "count"} => \A i \in 1 .. Len(queued') : queued'[i] < filled
    BY <2>4 DEF OrderInv
  <2>7. /\ producer \in {"load", "swap"} => content[input] = filled
        /\ producer = "count" => content[queue_[next_write_index_]] = filled
    BY DEF OrderInv
  <2>8. removed' <= filled
    BY <1>a, <2>2 DEF OrderInv
  <2>9. producer \in {"load", "swap", "count"} => removed' < filled
    BY <1>a, <2>2 DEF OrderInv
  <2> QED
    BY <2>3, <2>4, <2>5, <2>6, <2>7, <2>8, <2>9 DEF OrderInv
<1>3. CASE ClearExchange
  <2>1. Len(queued') = 0 /\ UNCHANGED <<removed, producerVars, content, queue_>>
    BY <1>3, ClearStep, EmptySeq DEF ClearExchange
  <2> QED
    BY <2>1 DEF OrderInv, producerVars
<1>4. CASE ~InsertCount /\ ~RemoveCount /\ ~ClearExchange
  <2>1. queued' = queued /\ removed' = removed
    BY <1>4, InvisibleStep
  <2>2. CASE Fill
    <3>1. filled' = filled + 1 /\ content'[input'] = filled + 1 /\ producer' = "load"
      BY <2>2 DEF Fill, Inv, TypeOK
    <3> QED
      BY <1>a, <1>b, <2>1, <3>1 DEF OrderInv
  <2>3. CASE InsertSwap
    <3>1. content'[queue_'[next_write_index_']] = content[input]
      BY <2>3 DEF InsertSwap, Inv, TypeOK
    <3>2. /\ producer = "swap" /\ producer' = "count" /\ filled' = filled
      BY <2>3 DEF InsertSwap
    <3> QED
      BY <2>1, <3>1, <3>2 DEF OrderInv
  <2>4. CASE RemoveSwap
    <3>1. producer = "count" => next_read_index_ # next_write_index_
      BY <2>4 DEF RemoveSwap, Inv, TypeOK, IndexInv, Front, Back, Slot, Wrap
    <3>2. producer = "count" => queue_'[next_write_index_] = queue_[next_write_index_]
      BY <2>4, <3>1 DEF RemoveSwap, Inv, TypeOK
    <3> QED
      BY <2>1, <2>4, <3>2 DEF RemoveSwap, OrderInv, producerVars
  <2>5. CASE InsertLoad \/ InsertAdvance
    BY <2>1, <2>5 DEF InsertLoad, InsertAdvance, OrderInv, sharedVars, consumerVars
  <2>6. CASE RemoveLoad \/ RemoveAdvance \/ ClearAdvance \/ UNCHANGED vars
    BY <2>1, <2>6 DEF RemoveLoad, RemoveAdvance, ClearAdvance, OrderInv, vars, sharedVars, producerVars
  <2> QED
    BY <1>4, <2>2, <2>3, <2>4, <2>5, <2>6 DEF Next, Producer, Remove, Clear
<1> QED
  BY <1>1, <1>2, <1>3, <1>4

\* Items leave the queue in the order in which they were inserted, and none
\* twice, whatever the size of the queue and wherever Clear runs.
THEOREM InOrder == Spec => RemovedInOrder
<1>1. Init => OrderInv
  <2>1. Init => queued = <<>>
    BY DEF Init, queued
  <2> QED
    BY <2>1 DEF Init, OrderInv
<1>2. Inv /\ OrderInv /\ [Next]_vars => [removed' # removed => removed' > removed]_vars
  <2> SUFFICES ASSUME Inv, OrderInv, [Next]_vars, removed' # removed PROVE removed' > removed
    OBVIOUS
  <2>1. RemoveCount
    BY InvisibleStep, InsertStep, ClearStep
  <2>2. queued # <<>> /\ removed' = Head(queued) /\ Len(queued) \in Nat
    BY <2>1, RemoveStep, QueuedSeq DEF Inv, TypeOK
  <2>3. queued \in Seq(Item)
    BY QueuedSeq DEF Inv
  <2>4. Len(queued) > 0 /\ removed' = queued[1]
    BY <2>2, <2>3, EmptySeq
  <2> QED
    BY <2>4, <2>3 DEF OrderInv, Item, Inv, TypeOK
<1> QED
  BY <1>1, <1>2, OrderStep, Invariance, PTL DEF Spec, RemovedInOrder
=============================================================================

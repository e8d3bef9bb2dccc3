-------------------------- MODULE AsyncQueueProofs --------------------------
(***************************************************************************)
(* Proofs about SpscRing and, on top of it, AsyncQueue, for every          *)
(* Capacity, every set of messages, every MaxSent and any number of        *)
(* coroutines.  The first part is about the ring alone, on its own         *)
(* RingSpec; the second, from "The ring under a step of the queue",        *)
(* carries the ring's invariant over to the queue.                         *)
(***************************************************************************)
EXTENDS AsyncQueue, TLAPS

USE CapacityAssumption, NoObjectAssumption, MaxSentAssumption,
    FragileAssumption

-----------------------------------------------------------------------------
(***************************************************************************)
(* Ring arithmetic: everything the steps need to know about next and       *)
(* Distance.                                                               *)
(***************************************************************************)
\* The modulo of async_queue::next is a wrap to 0 at the last slot.
LEMMA NextIndex ==
    ASSUME NEW i \in Index
    PROVE  /\ next(i) \in Index
           /\ next(i) = IF i = Capacity THEN 0 ELSE i + 1
  BY DEF Index, next, storage_size

\* A distance is shorter than the ring, and is 0 only from a slot to itself.
LEMMA DistanceRange ==
    ASSUME NEW i \in Index, NEW j \in Index
    PROVE  /\ Distance(i, j) \in 0 .. Capacity
           /\ Distance(i, j) = 0 <=> i = j
  BY DEF Index, Distance, storage_size

\* Moving the far end on adds one, until it comes round.
LEMMA DistanceToNext ==
    ASSUME NEW i \in Index, NEW j \in Index, next(j) # i
    PROVE  Distance(i, next(j)) = Distance(i, j) + 1
  BY NextIndex DEF Index, Distance, storage_size

\* The far end comes round exactly when the ring is full.
LEMMA FullDistance ==
    ASSUME NEW i \in Index, NEW j \in Index
    PROVE  next(j) = i <=> Distance(i, j) = Capacity
  BY NextIndex DEF Index, Distance, storage_size

\* Moving the near end on takes one off, unless the ends had met.
LEMMA DistanceFromNext ==
    ASSUME NEW i \in Index, NEW j \in Index, i # j
    PROVE  Distance(next(i), j) = Distance(i, j) - 1
  BY NextIndex DEF Index, Distance, storage_size

\* Two slots at the same distance are the same slot.
LEMMA DistanceInjective ==
    ASSUME NEW i \in Index, NEW j \in Index, NEW k \in Index
    PROVE  Distance(i, j) = Distance(i, k) => j = k
  BY DEF Index, Distance, storage_size

\* Two slots from which a slot is at the same distance are the same slot.
LEMMA DistanceInjectiveFrom ==
    ASSUME NEW i \in Index, NEW j \in Index, NEW k \in Index
    PROVE  Distance(i, k) = Distance(j, k) => i = j
<1> SUFFICES ASSUME Distance(i, k) = Distance(j, k) PROVE i = j
  OBVIOUS
<1>1. /\ Capacity \in Nat
      /\ i \in 0 .. Capacity /\ j \in 0 .. Capacity /\ k \in 0 .. Capacity
  BY CapacityAssumption DEF Index, storage_size
<1>2. CASE k >= i /\ k >= j
  BY <1>1, <1>2 DEF Distance
<1>3. CASE k < i /\ k < j
  BY <1>1, <1>3 DEF Distance, storage_size
<1>4. CASE (k >= i /\ k < j) \/ (k < i /\ k >= j)
  BY <1>1, <1>4 DEF Distance, storage_size
<1> QED
  BY <1>1, <1>2, <1>3, <1>4
-----------------------------------------------------------------------------
(***************************************************************************)
(* The invariant holds at the start and every step of either side, of the  *)
(* memory and of the destructor keeps it.                                  *)
(***************************************************************************)
LEMMA InitInv == RingInit => RingInv
<1> SUFFICES ASSUME RingInit PROVE RingInv
  OBVIOUS
<1> USE DEF RingInit
<1>1. RingTypeOK
  BY DEF RingTypeOK, Index, storage_size
<1>2. IndicesCount /\ ViewsLag
  BY DEF IndicesCount, ViewsLag, Distance
<1>3. OperationsHold /\ ReceivedInOrder /\ NoneLost
  BY DEF OperationsHold, ReceivedInOrder, NoneLost
<1>4. SlotContents
  BY DEF SlotContents, Filled, Distance, Index
<1> QED
  BY <1>1, <1>2, <1>3, <1>4 DEF RingInv

LEMMA StutterInv ==
    ASSUME RingInv, UNCHANGED ringVars
    PROVE  RingInv'
  BY DEF ringVars, RingInv, RingTypeOK, IndicesCount, ViewsLag, OperationsHold,
         SlotContents, Filled, ReceivedInOrder, NoneLost, Distance

LEMMA TryEmplaceInv ==
    ASSUME RingInv, NEW m \in Messages, TryEmplace(m)
    PROVE  RingInv'
<1> USE DEF RingInv, TryEmplace, consumerVars
<1>1. RingTypeOK'
  BY DEF RingTypeOK
<1>2. IndicesCount' /\ ViewsLag' /\ ReceivedInOrder' /\ NoneLost'
  BY DEF IndicesCount, ViewsLag, ReceivedInOrder, NoneLost, Distance
<1>3. OperationsHold'
  <2>1. Distance(head_seen, tail_) < Capacity
    BY FullDistance, DistanceRange DEF full, RingTypeOK
  <2> QED
    BY <2>1 DEF OperationsHold, Distance
<1>4. SlotContents'
  BY DEF SlotContents, Filled, Distance
<1> QED
  BY <1>1, <1>2, <1>3, <1>4

LEMMA InvFacts ==
    ASSUME RingInv
    PROVE  /\ head_ \in Index /\ tail_ \in Index
           /\ head_seen \in Index /\ tail_seen \in Index
           /\ sent \in Seq(Messages) /\ received \in Seq(Messages)
           /\ Len(sent) \in Nat /\ Len(received) \in Nat
           /\ Distance(head_, tail_) \in 0 .. Capacity
           /\ Distance(head_, tail_seen) \in 0 .. Capacity
           /\ Distance(head_seen, tail_) \in 0 .. Capacity
           /\ Len(sent) = Len(received) + Distance(head_, tail_)
           /\ consumer \in {"move", "release"} => Distance(head_, tail_) >= 1
<1>1. /\ head_ \in Index /\ tail_ \in Index
      /\ head_seen \in Index /\ tail_seen \in Index
      /\ sent \in Seq(Messages) /\ received \in Seq(Messages)
  BY DEF RingInv, RingTypeOK
<1>2. /\ Distance(head_, tail_) \in 0 .. Capacity
      /\ Distance(head_, tail_seen) \in 0 .. Capacity
      /\ Distance(head_seen, tail_) \in 0 .. Capacity
  BY <1>1, DistanceRange
<1>3. Len(sent) = Len(received) + Distance(head_, tail_)
  BY DEF RingInv, IndicesCount
<1>4. consumer \in {"move", "release"} => Distance(head_, tail_seen) # 0
  BY <1>1, DistanceRange DEF RingInv, OperationsHold
<1>5. consumer \in {"move", "release"} => Distance(head_, tail_) >= 1
  BY <1>2, <1>4 DEF RingInv, ViewsLag
<1>6. Len(sent) \in Nat /\ Len(received) \in Nat
  BY <1>1
<1> QED
  BY <1>1, <1>2, <1>3, <1>5, <1>6

LEMMA ConstructInv ==
    ASSUME RingInv, Construct
    PROVE  RingInv'
<1> USE DEF Construct, consumerVars
<1>1. RingTypeOK'
  BY DEF RingInv, RingTypeOK, OperationsHold
<1>2. IndicesCount' /\ ViewsLag' /\ ReceivedInOrder' /\ NoneLost'
      /\ OperationsHold'
  BY DEF RingInv, IndicesCount, ViewsLag, ReceivedInOrder, NoneLost,
         OperationsHold,
         Distance
<1>3. SlotContents'
  <2> SUFFICES ASSUME NEW i \in Index
               PROVE  IF Filled(i)
                        THEN storage_'[i]
                               = sent[Len(received) + 1 + Distance(head_, i)]
                        ELSE IF i = tail_ THEN storage_'[i] = emplacing
                                          ELSE storage_'[i] = NoObject
    BY DEF SlotContents, Filled, Distance
  <2>1. storage_'[i] = IF i = tail_ THEN emplacing ELSE storage_[i]
    BY DEF RingInv, RingTypeOK
  <2>2. i = tail_ => ~Filled(i)
    BY InvFacts DEF Filled
  <2>3. IF Filled(i)
          THEN storage_[i] = sent[Len(received) + 1 + Distance(head_, i)]
          ELSE storage_[i] = NoObject
    BY DEF RingInv, SlotContents
  <2> HIDE DEF Construct
  <2> QED
    BY <2>1, <2>2, <2>3
<1> QED
  BY <1>1, <1>2, <1>3 DEF RingInv

LEMMA ConstructThrowsInv ==
    ASSUME RingInv, ConstructThrows
    PROVE  RingInv'
<1> USE DEF RingInv, ConstructThrows, consumerVars
<1>1. RingTypeOK'
  BY DEF RingTypeOK
<1>2. IndicesCount' /\ ViewsLag' /\ ReceivedInOrder' /\ NoneLost'
      /\ OperationsHold'
  BY DEF IndicesCount, ViewsLag, ReceivedInOrder, NoneLost, OperationsHold,
         Distance
<1>3. SlotContents'
  BY DEF SlotContents, Filled, Distance
<1> QED
  BY <1>1, <1>2, <1>3

LEMMA PublishInv ==
    ASSUME RingInv, Publish
    PROVE  RingInv'
<1>0. /\ tail_' = next(tail_)
      /\ sent' = Append(sent, emplacing)
      /\ producer = "publish" /\ producer' = "idle"
      /\ emplacing' = NoObject
      /\ UNCHANGED <<head_, tail_seen, consumer, value, received, delivered,
                     head_seen, storage_, alive>>
      /\ emplacing \in Messages
  BY DEF RingInv, OperationsHold, Publish, consumerVars
<1>1. RingTypeOK'
  BY <1>0, InvFacts, NextIndex DEF RingInv, RingTypeOK
<1>2. /\ next(tail_) # head_seen /\ next(tail_) # head_
      /\ Distance(head_seen, next(tail_)) = Distance(head_seen, tail_) + 1
      /\ Distance(head_, next(tail_)) = Distance(head_, tail_) + 1
  <2>1. Distance(head_seen, tail_) < Capacity
    BY <1>0 DEF RingInv, OperationsHold
  <2>2. Distance(head_, tail_) < Capacity
    BY <2>1, InvFacts DEF RingInv, ViewsLag
  <2> QED
    BY <2>1, <2>2, InvFacts, FullDistance, DistanceToNext
<1>3. /\ Distance(head_, tail_)' = Distance(head_, tail_) + 1
      /\ Distance(head_seen, tail_)' = Distance(head_seen, tail_) + 1
      /\ Distance(head_, tail_seen)' = Distance(head_, tail_seen)
  <2>1. Distance(head_, tail_)' = Distance(head_, next(tail_))
    BY <1>0 DEF Distance
  <2>2. Distance(head_seen, tail_)' = Distance(head_seen, next(tail_))
    BY <1>0 DEF Distance
  <2>3. Distance(head_, tail_seen)' = Distance(head_, tail_seen)
    BY <1>0 DEF Distance
  <2> QED
    BY <1>2, <2>1, <2>2, <2>3
<1>4. /\ Len(sent') = Len(sent) + 1
      /\ sent'[Len(sent) + 1] = emplacing
      /\ \A k \in 1 .. Len(sent) : sent'[k] = sent[k]
  BY <1>0, InvFacts
<1>5. IndicesCount' /\ ViewsLag'
  BY <1>0, <1>3, <1>4, InvFacts DEF RingInv, IndicesCount, ViewsLag
<1>6. ReceivedInOrder' /\ NoneLost'
  BY <1>0, <1>4, InvFacts DEF RingInv, ReceivedInOrder, NoneLost
<1>7. OperationsHold'
  <2>1. consumer = "release" => Len(received) + 1 \in 1 .. Len(sent)
    BY InvFacts
  <2> QED
    BY <1>0, <1>4, <2>1 DEF RingInv, OperationsHold
<1>8. SlotContents'
  <2> SUFFICES ASSUME NEW i \in Index
               PROVE  IF Filled(i)'
                        THEN storage_[i]
                               = sent'[Len(received) + 1 + Distance(head_, i)]
                        ELSE storage_[i] = NoObject
    BY <1>0 DEF SlotContents, Distance
  <2>1. Filled(i)' <=> /\ alive
                       /\ Distance(head_, i) < Distance(head_, tail_) + 1
                       /\ i = head_ => consumer # "release"
    <3>1. Distance(head_, i)' = Distance(head_, i)
      BY <1>0 DEF Distance
    <3> QED
      BY <1>0, <1>3, <3>1 DEF Filled
  <2>2. Distance(head_, i) \in 0 .. Capacity
    BY InvFacts, DistanceRange
  <2>3. IF Filled(i)
          THEN storage_[i] = sent[Len(received) + 1 + Distance(head_, i)]
          ELSE IF i = tail_ THEN storage_[i] = emplacing
                            ELSE storage_[i] = NoObject
    BY <1>0 DEF RingInv, SlotContents
  <2>4. CASE i = tail_
    <3>1. storage_[i] = emplacing
      BY <2>3, <2>4, InvFacts DEF Filled
    <3>2. alive /\ (consumer = "release" => i # head_)
      <4>1. i = head_ => Distance(head_, tail_) = 0
        BY <2>4, InvFacts, DistanceRange
      <4> QED
        BY <1>0, <4>1, InvFacts DEF RingInv, OperationsHold
    <3>3. Filled(i)'
      BY <2>1, <2>2, <2>4, <3>2
    <3>4. Len(received) + 1 + Distance(head_, i) = Len(sent) + 1
      BY <2>4, InvFacts
    <3> QED
      BY <1>4, <3>1, <3>3, <3>4
  <2>5. CASE i # tail_
    <3>1. Distance(head_, i) # Distance(head_, tail_)
      BY <2>5, InvFacts, DistanceInjective
    <3>2. Filled(i)' <=> Filled(i)
      BY <2>1, <2>2, <3>1, InvFacts DEF Filled
    <3>3. Filled(i) => Len(received) + 1 + Distance(head_, i) \in 1 .. Len(sent)
      BY <2>2, InvFacts DEF Filled
    <3> QED
      BY <1>4, <2>3, <2>5, <3>2, <3>3
  <2> QED
    BY <2>4, <2>5
<1> QED
  BY <1>1, <1>5, <1>6, <1>7, <1>8 DEF RingInv

LEMMA TryPopInv ==
    ASSUME RingInv, TryPop
    PROVE  RingInv'
<1>0. /\ alive /\ consumer = "idle" /\ head_ # tail_seen
      /\ consumer' = "move"
      /\ UNCHANGED <<producerVars, head_, tail_seen, value, received,
                     delivered, storage_, alive>>
  BY DEF TryPop, empty
<1> USE DEF producerVars
<1>1. RingTypeOK'
  BY <1>0 DEF RingInv, RingTypeOK
<1>2. IndicesCount' /\ ViewsLag' /\ ReceivedInOrder' /\ NoneLost'
      /\ OperationsHold'
  BY <1>0 DEF RingInv, IndicesCount, ViewsLag, ReceivedInOrder, NoneLost,
              OperationsHold, Distance
<1>3. SlotContents'
  BY <1>0 DEF RingInv, SlotContents, Filled, Distance
<1> QED
  BY <1>1, <1>2, <1>3 DEF RingInv

LEMMA MoveOutInv ==
    ASSUME RingInv, MoveOut
    PROVE  RingInv'
<1>0. /\ consumer = "move" /\ consumer' = "release"
      /\ value' = storage_[head_]
      /\ storage_' = [storage_ EXCEPT ![head_] = NoObject]
      /\ UNCHANGED <<producerVars, head_, tail_seen, received, delivered,
                     alive>>
  BY DEF MoveOut
<1> USE DEF producerVars
<1>1. RingTypeOK'
  BY <1>0 DEF RingInv, RingTypeOK
<1>2. IndicesCount' /\ ViewsLag' /\ ReceivedInOrder' /\ NoneLost'
  BY <1>0 DEF RingInv, IndicesCount, ViewsLag, ReceivedInOrder, NoneLost,
              Distance
<1>3. Distance(head_, head_) = 0 /\ head_ # tail_
  BY InvFacts, DistanceRange, <1>0
<1>4. storage_[head_] = sent[Len(received) + 1]
  <2>1. Filled(head_)
    BY <1>0, <1>3, InvFacts DEF Filled, RingInv, OperationsHold
  <2>2. storage_[head_] = sent[Len(received) + 1 + Distance(head_, head_)]
    BY <2>1, InvFacts DEF RingInv, SlotContents
  <2> QED
    BY <2>2, <1>3, InvFacts
<1>5. OperationsHold'
  BY <1>0, <1>4 DEF RingInv, OperationsHold, Distance
<1>6. SlotContents'
  <2> SUFFICES ASSUME NEW i \in Index
               PROVE  IF Filled(i)'
                        THEN storage_'[i]
                               = sent[Len(received) + 1 + Distance(head_, i)]
                        ELSE IF i = tail_ /\ producer = "publish"
                               THEN storage_'[i] = emplacing
                               ELSE storage_'[i] = NoObject
    BY <1>0 DEF SlotContents, Distance
  <2>1. Filled(i)' <=> Filled(i) /\ i # head_
    BY <1>0 DEF Filled, Distance
  <2>2. storage_'[i] = IF i = head_ THEN NoObject ELSE storage_[i]
    BY <1>0 DEF RingInv, RingTypeOK
  <2>3. IF Filled(i)
          THEN storage_[i] = sent[Len(received) + 1 + Distance(head_, i)]
          ELSE IF i = tail_ /\ producer = "publish"
                 THEN storage_[i] = emplacing
                 ELSE storage_[i] = NoObject
    BY DEF RingInv, SlotContents
  <2> QED
    BY <1>3, <2>1, <2>2, <2>3
<1> QED
  BY <1>1, <1>2, <1>5, <1>6 DEF RingInv

LEMMA MoveThrowsInv ==
    ASSUME RingInv, MoveThrows
    PROVE  RingInv'
<1>0. /\ consumer = "move" /\ consumer' = "idle"
      /\ UNCHANGED <<producerVars, head_, tail_seen, value, received,
                     delivered, storage_, alive>>
  BY DEF MoveThrows
<1> USE DEF producerVars
<1>1. RingTypeOK'
  BY <1>0 DEF RingInv, RingTypeOK
<1>2. IndicesCount' /\ ViewsLag' /\ ReceivedInOrder' /\ NoneLost'
      /\ OperationsHold'
  BY <1>0 DEF RingInv, IndicesCount, ViewsLag, ReceivedInOrder, NoneLost,
              OperationsHold, Distance
<1>3. SlotContents'
  BY <1>0 DEF RingInv, SlotContents, Filled, Distance
<1> QED
  BY <1>1, <1>2, <1>3 DEF RingInv

LEMMA ReleaseSlotInv ==
    ASSUME RingInv, ReleaseSlot
    PROVE  RingInv'
<1>0. /\ consumer = "release" /\ consumer' = "hand"
      /\ head_' = next(head_)
      /\ received' = Append(received, value)
      /\ UNCHANGED <<producerVars, tail_seen, value, delivered, storage_,
                     alive>>
  BY DEF ReleaseSlot
<1> USE DEF producerVars
<1>1. /\ value = sent[Len(received) + 1]
      /\ Len(received) + 1 \in 1 .. Len(sent)
      /\ alive
      /\ head_ # tail_seen /\ head_ # tail_
  <2>1. /\ value = sent[Len(received) + 1]
        /\ alive
        /\ head_ # tail_seen
    BY <1>0 DEF RingInv, OperationsHold
  <2>2. Distance(head_, tail_) >= 1
    BY <1>0, InvFacts
  <2>3. Len(received) + 1 \in 1 .. Len(sent)
    BY <2>2, InvFacts
  <2>4. head_ # tail_
    BY <2>2, InvFacts, DistanceRange
  <2> QED
    BY <2>1, <2>3, <2>4
<1>2. value \in Messages
  BY <1>1, InvFacts
<1>3. RingTypeOK'
  BY <1>0, <1>2, InvFacts, NextIndex DEF RingInv, RingTypeOK
<1>4. /\ Distance(head_, tail_)' = Distance(head_, tail_) - 1
      /\ Distance(head_, tail_seen)' = Distance(head_, tail_seen) - 1
      /\ Distance(head_seen, tail_)' = Distance(head_seen, tail_)
  <2>1. Distance(head_, tail_)' = Distance(next(head_), tail_)
    BY <1>0 DEF Distance
  <2>2. Distance(head_, tail_seen)' = Distance(next(head_), tail_seen)
    BY <1>0 DEF Distance
  <2>3. Distance(head_seen, tail_)' = Distance(head_seen, tail_)
    BY <1>0 DEF Distance
  <2> QED
    BY <1>1, <2>1, <2>2, <2>3, InvFacts, DistanceFromNext
<1>5. /\ Len(received') = Len(received) + 1
      /\ received'[Len(received) + 1] = value
      /\ \A k \in 1 .. Len(received) : received'[k] = received[k]
  BY <1>0, <1>2, InvFacts
<1>6. IndicesCount' /\ ViewsLag'
  BY <1>0, <1>4, <1>5, InvFacts DEF RingInv, IndicesCount, ViewsLag
<1>7. ReceivedInOrder' /\ NoneLost'
  BY <1>0, <1>1, <1>5, InvFacts DEF RingInv, ReceivedInOrder, NoneLost
<1>8. OperationsHold'
  BY <1>0, <1>2, <1>4 DEF RingInv, OperationsHold
<1>9. SlotContents'
  <2> SUFFICES ASSUME NEW i \in Index
               PROVE  IF Filled(i)'
                        THEN storage_[i] = sent[Len(received)' + 1
                                                + Distance(next(head_), i)]
                        ELSE IF i = tail_ /\ producer = "publish"
                               THEN storage_[i] = emplacing
                               ELSE storage_[i] = NoObject
    BY <1>0 DEF SlotContents, Distance
  <2>1. Filled(i)' <=> Distance(next(head_), i) < Distance(head_, tail_) - 1
    <3>1. Distance(head_, i)' = Distance(next(head_), i)
      BY <1>0 DEF Distance
    <3> QED
      BY <1>0, <1>1, <1>4, <3>1 DEF Filled
  <2>2. IF Filled(i)
          THEN storage_[i] = sent[Len(received) + 1 + Distance(head_, i)]
          ELSE IF i = tail_ /\ producer = "publish"
                 THEN storage_[i] = emplacing
                 ELSE storage_[i] = NoObject
    BY DEF RingInv, SlotContents
  <2>3. CASE i = head_
    <3>1. ~Filled(i)
      BY <1>0, <2>3 DEF Filled
    <3>2. Distance(next(head_), i) = Capacity
      BY <2>3, InvFacts, NextIndex, FullDistance
    <3>3. ~Filled(i)'
      BY <2>1, <3>2, InvFacts
    <3> QED
      BY <2>2, <3>1, <3>3
  <2>4. CASE i # head_
    <3>1. /\ Distance(next(head_), i) = Distance(head_, i) - 1
          /\ Distance(head_, i) \in 0 .. Capacity
      BY <2>4, InvFacts, DistanceFromNext, DistanceRange
    <3>2. Filled(i)' <=> Filled(i)
      BY <1>1, <2>1, <2>4, <3>1, InvFacts DEF Filled
    <3>3. Len(received)' + 1 + Distance(next(head_), i)
            = Len(received) + 1 + Distance(head_, i)
      BY <1>5, <3>1, InvFacts
    <3> QED
      BY <2>2, <3>2, <3>3
  <2> QED
    BY <2>3, <2>4
<1> QED
  BY <1>3, <1>6, <1>7, <1>8, <1>9 DEF RingInv

\* The message goes from the local optional to the caller, or is lost.
LEMMA HandOverInv ==
    ASSUME RingInv, HandOver \/ HandOverThrows
    PROVE  RingInv'
<1>0. /\ consumer = "hand" /\ consumer' = "idle" /\ value' = NoObject
      /\ \/ delivered' = Append(delivered, value)
         \/ value \in Fragile /\ delivered' = delivered
      /\ UNCHANGED <<producerVars, head_, tail_seen, received, storage_, alive>>
  BY DEF HandOver, HandOverThrows
<1> USE DEF producerVars
<1>1. value \in Messages
  BY <1>0 DEF RingInv, OperationsHold
<1>2. RingTypeOK'
  BY <1>0, <1>1 DEF RingInv, RingTypeOK
<1>3. IndicesCount' /\ ViewsLag' /\ ReceivedInOrder' /\ OperationsHold'
  BY <1>0 DEF RingInv, IndicesCount, ViewsLag, ReceivedInOrder,
              OperationsHold, Distance
<1>4. NoneLost'
  BY <1>0 DEF RingInv, NoneLost
<1>5. SlotContents'
  BY <1>0 DEF RingInv, SlotContents, Filled, Distance
<1> QED
  BY <1>2, <1>3, <1>4, <1>5 DEF RingInv

LEMMA SeeTailInv ==
    ASSUME RingInv, SeeTail
    PROVE  RingInv'
<1>0. /\ tail_seen # tail_ /\ tail_seen' = next(tail_seen)
      /\ UNCHANGED <<producerVars, head_, consumer, value, received,
                     delivered, storage_, alive>>
  BY DEF SeeTail
<1> USE DEF producerVars
<1>1. RingTypeOK'
  BY <1>0, InvFacts, NextIndex DEF RingInv, RingTypeOK
<1>2. Distance(head_, tail_seen) < Distance(head_, tail_)
  BY <1>0, InvFacts, DistanceInjective DEF RingInv, ViewsLag
<1>3. /\ next(tail_seen) # head_
      /\ Distance(head_, next(tail_seen)) = Distance(head_, tail_seen) + 1
  BY <1>2, InvFacts, FullDistance, DistanceToNext
<1>4. /\ Distance(head_, tail_seen)' = Distance(head_, tail_seen) + 1
      /\ Distance(head_, tail_)' = Distance(head_, tail_)
      /\ Distance(head_seen, tail_)' = Distance(head_seen, tail_)
  <2>1. Distance(head_, tail_seen)' = Distance(head_, next(tail_seen))
    BY <1>0 DEF Distance
  <2>2. /\ Distance(head_, tail_)' = Distance(head_, tail_)
        /\ Distance(head_seen, tail_)' = Distance(head_seen, tail_)
    BY <1>0 DEF Distance
  <2> QED
    BY <1>3, <2>1, <2>2
<1>5. IndicesCount' /\ ViewsLag' /\ ReceivedInOrder' /\ NoneLost'
      /\ OperationsHold'
  BY <1>0, <1>2, <1>3, <1>4, InvFacts
     DEF RingInv, IndicesCount, ViewsLag, ReceivedInOrder, NoneLost,
         OperationsHold
<1>6. SlotContents'
  BY <1>0 DEF RingInv, SlotContents, Filled, Distance
<1> QED
  BY <1>1, <1>5, <1>6 DEF RingInv

LEMMA SeeHeadInv ==
    ASSUME RingInv, SeeHead
    PROVE  RingInv'
<1>0. /\ head_seen # head_ /\ head_seen' = next(head_seen)
      /\ UNCHANGED <<consumerVars, tail_, producer, emplacing, sent,
                     storage_, alive>>
  BY DEF SeeHead
<1> USE DEF consumerVars
<1>1. RingTypeOK'
  BY <1>0, InvFacts, NextIndex DEF RingInv, RingTypeOK
<1>2. /\ head_seen # tail_
      /\ Distance(head_, tail_) < Distance(head_seen, tail_)
  <2>1. Distance(head_, tail_) # Distance(head_seen, tail_)
    BY <1>0, InvFacts, DistanceInjectiveFrom
  <2> QED
    BY <2>1, InvFacts, DistanceRange DEF RingInv, ViewsLag
<1>3. /\ Distance(head_seen, tail_)' = Distance(head_seen, tail_) - 1
      /\ Distance(head_, tail_)' = Distance(head_, tail_)
      /\ Distance(head_, tail_seen)' = Distance(head_, tail_seen)
  <2>1. Distance(head_seen, tail_)' = Distance(next(head_seen), tail_)
    BY <1>0 DEF Distance
  <2>2. /\ Distance(head_, tail_)' = Distance(head_, tail_)
        /\ Distance(head_, tail_seen)' = Distance(head_, tail_seen)
    BY <1>0 DEF Distance
  <2> QED
    BY <1>2, <2>1, <2>2, InvFacts, DistanceFromNext
<1>4. IndicesCount' /\ ViewsLag' /\ ReceivedInOrder' /\ NoneLost'
      /\ OperationsHold'
  BY <1>0, <1>2, <1>3, InvFacts
     DEF RingInv, IndicesCount, ViewsLag, ReceivedInOrder, NoneLost,
         OperationsHold
<1>5. SlotContents'
  BY <1>0 DEF RingInv, SlotContents, Filled, Distance
<1> QED
  BY <1>1, <1>4, <1>5 DEF RingInv

LEMMA DestroyInv ==
    ASSUME RingInv, Destroy
    PROVE  RingInv'
<1>0. /\ alive /\ producer = "idle" /\ consumer = "idle"
      /\ storage_' = [i \in Index |-> IF i \in Occupied THEN NoObject
                                                        ELSE storage_[i]]
      /\ alive' = FALSE
      /\ UNCHANGED <<producerVars, consumerVars>>
  BY DEF Destroy
<1> USE DEF producerVars, consumerVars
<1>1. RingTypeOK'
  BY <1>0 DEF RingInv, RingTypeOK
<1>2. IndicesCount' /\ ViewsLag' /\ ReceivedInOrder' /\ NoneLost'
      /\ OperationsHold'
  BY <1>0 DEF RingInv, IndicesCount, ViewsLag, ReceivedInOrder, NoneLost,
              OperationsHold, Distance
<1>3. SlotContents'
  BY <1>0 DEF RingInv, SlotContents, Filled, Occupied, Distance
<1> QED
  BY <1>1, <1>2, <1>3 DEF RingInv
-----------------------------------------------------------------------------
(***************************************************************************)
(* Every step of the ring, whoever takes it.                               *)
(***************************************************************************)
LEMMA RingStepInv ==
    ASSUME RingInv, [RingNext]_ringVars
    PROVE  RingInv'
<1>1. CASE TryEmplaceFull
  BY <1>1, StutterInv DEF TryEmplaceFull
<1>2. ASSUME NEW m \in Messages, TryEmplace(m) PROVE RingInv'
  BY <1>2, TryEmplaceInv
<1>3. CASE Construct
  BY <1>3, ConstructInv
<1>4. CASE ConstructThrows
  BY <1>4, ConstructThrowsInv
<1>5. CASE Publish
  BY <1>5, PublishInv
<1>6. CASE TryPopEmpty
  BY <1>6, StutterInv DEF TryPopEmpty
<1>7. CASE TryPop
  BY <1>7, TryPopInv
<1>8. CASE MoveOut
  BY <1>8, MoveOutInv
<1>9. CASE MoveThrows
  BY <1>9, MoveThrowsInv
<1>10. CASE ReleaseSlot
  BY <1>10, ReleaseSlotInv
<1>11. CASE HandOver \/ HandOverThrows
  BY <1>11, HandOverInv
<1>15. CASE SeeTail
  BY <1>15, SeeTailInv
<1>12. CASE SeeHead
  BY <1>12, SeeHeadInv
<1>13. CASE Destroy
  BY <1>13, DestroyInv
<1>14. CASE UNCHANGED ringVars
  BY <1>14, StutterInv
<1> QED
  BY <1>1, <1>2, <1>3, <1>4, <1>5, <1>6, <1>7, <1>8, <1>9, <1>10, <1>11,
     <1>12, <1>13, <1>14, <1>15 DEF RingNext, Producer, Consumer

(***************************************************************************)
(* The invariant that carries every safety property of async_queue's ring: *)
(* indices, views, slots and operations in progress agree at every step.   *)
(***************************************************************************)
THEOREM RingInvariant == RingSpec => []RingInv
<1>1. RingInit => RingInv
  BY InitInv
<1>2. RingInv /\ [RingNext]_ringVars => RingInv'
  BY RingStepInv
<1> QED
  BY <1>1, <1>2, PTL DEF RingSpec

(***************************************************************************)
(* What the users of try_emplace, try_push, try_pop and the destructor     *)
(* rely on, for every Capacity.                                            *)
(***************************************************************************)
\* Indices stay inside storage_ and slots hold messages or nothing.
THEOREM TypeCorrect == RingSpec => []RingTypeOK
<1>1. RingInv => RingTypeOK
  BY DEF RingInv
<1> QED
  BY <1>1, RingInvariant, PTL

\* No live object is overwritten, none is moved from twice, and the two
\* sides never work on one slot at the same time.
THEOREM SlotsDisciplined == RingSpec => []SlotDiscipline
<1>1. ASSUME RingInv PROVE SlotDiscipline
  <2>1. producer # "idle" => Distance(head_, tail_) < Capacity
    BY <1>1, InvFacts DEF RingInv, ViewsLag, OperationsHold
  <2>2. producer = "construct" => storage_[tail_] = NoObject
    BY <1>1, InvFacts DEF RingInv, SlotContents, Filled
  <2>3. consumer = "move" => storage_[head_] \in Messages
    <3> SUFFICES ASSUME consumer = "move" PROVE storage_[head_] \in Messages
      OBVIOUS
    <3>1. Distance(head_, head_) = 0 /\ Filled(head_)
      BY <1>1, InvFacts, DistanceRange DEF Filled, RingInv, OperationsHold
    <3>2. storage_[head_] = sent[Len(received) + 1 + Distance(head_, head_)]
      BY <1>1, <3>1, InvFacts DEF RingInv, SlotContents
    <3>3. Len(received) + 1 \in 1 .. Len(sent)
      BY <1>1, InvFacts
    <3> QED
      BY <1>1, <3>1, <3>2, <3>3, InvFacts
  <2>4. consumer \in {"move", "release"} => head_ # tail_
    BY <1>1, InvFacts, DistanceRange
  <2> QED
    BY <2>2, <2>3, <2>4 DEF SlotDiscipline
<1> QED
  BY <1>1, RingInvariant, PTL

\* Messages leave the ring in the order they were accepted, none skipped or
\* repeated, and if no move constructor throws all of them are delivered.
THEOREM DeliveredInOrder == RingSpec => []FifoDelivery
<1>1. ASSUME RingInv PROVE FifoDelivery
  BY <1>1, InvFacts
     DEF RingInv, ReceivedInOrder, OperationsHold, FifoDelivery
<1> QED
  BY <1>1, RingInvariant, PTL

\* Index equality says exactly how many messages are outstanding.
THEOREM OccupancyIsExact == RingSpec => []OccupancyExact
<1>1. ASSUME RingInv PROVE OccupancyExact
  <2>1. head_ = tail_ <=> Distance(head_, tail_) = 0
    BY <1>1, InvFacts, DistanceRange
  <2>2. next(tail_) = head_ <=> Distance(head_, tail_) = Capacity
    BY <1>1, InvFacts, FullDistance
  <2>3. Len(sent) = Len(received) + Distance(head_, tail_)
    BY <1>1, InvFacts
  <2>4. /\ Len(received) \in Nat /\ Distance(head_, tail_) \in Nat
        /\ Capacity \in Nat
    BY <1>1, InvFacts, CapacityAssumption
  <2>5. Len(sent) = Len(received) <=> Distance(head_, tail_) = 0
    BY <2>3, <2>4
  <2>6. Len(sent) = Len(received) + Capacity
          <=> Distance(head_, tail_) = Capacity
    BY <2>3, <2>4
  <2> QED
    BY <2>1, <2>2, <2>5, <2>6 DEF OccupancyExact
<1> QED
  BY <1>1, RingInvariant, PTL

\* Whenever the destructor may run it destroys live objects only, and all.
THEOREM DestructorComplete == RingSpec => []DestroyedOnce
<1>1. ASSUME RingInv PROVE DestroyedOnce
  <2>1. ~alive => \A i \in Index : storage_[i] = NoObject
    BY <1>1 DEF RingInv, SlotContents, Filled, OperationsHold
  <2>2. ASSUME alive, producer = "idle", consumer = "idle",
               NEW i \in Occupied
        PROVE  storage_[i] # NoObject
    <3>1. i \in Index /\ Filled(i)
      BY <2>2 DEF Occupied, Filled
    <3>2. storage_[i] = sent[Len(received) + 1 + Distance(head_, i)]
      BY <1>1, <3>1 DEF RingInv, SlotContents
    <3>3. Distance(head_, i) \in 0 .. Capacity
      BY <1>1, <3>1, InvFacts, DistanceRange
    <3>4. Len(received) + 1 + Distance(head_, i) \in 1 .. Len(sent)
      BY <1>1, <3>1, <3>3, InvFacts DEF Filled
    <3> QED
      BY <1>1, <3>2, <3>4, InvFacts
  <2> QED
    BY <2>1, <2>2 DEF DestroyedOnce
<1> QED
  BY <1>1, RingInvariant, PTL

\* A stale index never lets either side act where it may not.
THEOREM StaleIndicesSafe == RingSpec => []StaleViewsAreSafe
<1>1. ASSUME RingInv PROVE StaleViewsAreSafe
  <2>1. ~empty => Distance(head_, tail_seen) # 0
    BY <1>1, InvFacts, DistanceRange DEF empty
  <2>2. ~full => Distance(head_seen, tail_) # Capacity
    BY <1>1, InvFacts, FullDistance DEF full
  <2> QED
    BY <1>1, <2>1, <2>2, InvFacts DEF RingInv, ViewsLag, StaleViewsAreSafe
<1> QED
  BY <1>1, RingInvariant, PTL
-----------------------------------------------------------------------------
(***************************************************************************)
(* The ring implements the bounded channel.  What the slots hold, from     *)
(* head_ on, are the messages accepted and not taken yet.                  *)
(***************************************************************************)
Outstanding == [k \in 1 .. Len(sent) - Len(received) |->
                    sent[Len(received) + k]]

\* The slot of the k-th oldest message is k - 1 slots from head_.
LEMMA SlotDistance ==
    ASSUME NEW k \in 1 .. Capacity, head_ \in Index
    PROVE  SlotOf(k) \in Index /\ Distance(head_, SlotOf(k)) = k - 1
  BY DEF SlotOf, Index, Distance, storage_size

LEMMA ContentsOutstanding == RingInv /\ alive => Contents = Outstanding
<1> SUFFICES ASSUME RingInv, alive PROVE Contents = Outstanding
  OBVIOUS
<1>1. /\ Distance(head_, tail_) = Len(sent) - Len(received)
      /\ Distance(head_, tail_) \in 0 .. Capacity
      /\ head_ \in Index /\ tail_ \in Index
      /\ Len(sent) \in Nat /\ Len(received) \in Nat
  BY InvFacts
<1>2. ASSUME NEW k \in 1 .. Distance(head_, tail_)
      PROVE  (IF k = 1 /\ consumer = "release" THEN value
                                               ELSE storage_[SlotOf(k)])
               = sent[Len(received) + k]
  <2>1. k \in 1 .. Capacity
    BY <1>1
  <2>2. /\ SlotOf(k) \in Index /\ Distance(head_, SlotOf(k)) = k - 1
    BY <1>1, <2>1, SlotDistance
  <2>3. CASE k = 1 /\ consumer = "release"
    BY <1>1, <2>3 DEF RingInv, OperationsHold
  <2>4. CASE ~(k = 1 /\ consumer = "release")
    <3>1. SlotOf(k) = head_ <=> k = 1
      BY <1>1, <2>1, <2>2, DistanceRange
    <3>2. Filled(SlotOf(k))
      BY <1>1, <2>1, <2>2, <2>4, <3>1 DEF Filled
    <3>3. storage_[SlotOf(k)]
            = sent[Len(received) + 1 + Distance(head_, SlotOf(k))]
      BY <2>2, <3>2 DEF RingInv, SlotContents
    <3> QED
      BY <1>1, <2>1, <2>2, <2>4, <3>3
  <2> QED
    BY <2>3, <2>4
<1> QED
  BY <1>1, <1>2 DEF Contents, Outstanding

\* The same in the next state.
LEMMA ContentsOutstandingLater ==
    (RingInv /\ alive => Contents = Outstanding)'
  BY ContentsOutstanding, PTL

\* Outstanding messages are a sequence, and there are at most Capacity.
LEMMA OutstandingSeq ==
    ASSUME RingInv
    PROVE  /\ Outstanding \in Seq(Messages)
           /\ Len(Outstanding) = Len(sent) - Len(received)
           /\ Len(Outstanding) \in 0 .. Capacity
<1>1. /\ sent \in Seq(Messages)
      /\ Len(sent) \in Nat /\ Len(received) \in Nat
      /\ Len(sent) - Len(received) \in 0 .. Capacity
  BY InvFacts
<1>2. \A k \in 1 .. Len(sent) - Len(received) :
        sent[Len(received) + k] \in Messages
  BY <1>1
<1> QED
  BY <1>1, <1>2 DEF Outstanding

\* The store of tail_ is where the channel accepts the message.
LEMMA PublishAccepts ==
    ASSUME RingInv, RingInv', Publish
    PROVE  Fifo!Accept(emplacing) /\ emplacing \in Messages
<1>1. /\ emplacing \in Messages /\ alive /\ alive'
      /\ sent' = Append(sent, emplacing) /\ received' = received
      /\ UNCHANGED <<InHand, delivered>>
  BY DEF Publish, consumerVars, RingInv, OperationsHold, InHand
<1>2. Contents = Outstanding /\ Contents' = Outstanding'
  BY <1>1, ContentsOutstanding, ContentsOutstandingLater
<1>3. Len(Outstanding) < Capacity
  <2>1. /\ Distance(head_, tail_) <= Distance(head_seen, tail_)
        /\ Distance(head_seen, tail_) < Capacity
    BY DEF Publish, RingInv, ViewsLag, OperationsHold
  <2> QED
    BY <2>1, InvFacts, OutstandingSeq
<1>4. Outstanding' = Append(Outstanding, emplacing)
  <2>1. /\ sent \in Seq(Messages) /\ Len(sent) \in Nat
        /\ Len(received) \in Nat /\ Len(received) <= Len(sent)
    BY InvFacts
  <2>2. /\ Len(sent') = Len(sent) + 1
        /\ \A i \in 1 .. Len(sent) : sent'[i] = sent[i]
        /\ sent'[Len(sent) + 1] = emplacing
    BY <1>1, <2>1
  <2> QED
    BY <1>1, <2>1, <2>2, OutstandingSeq DEF Outstanding
<1> QED
  BY <1>1, <1>2, <1>3, <1>4 DEF Fifo!Accept

\* The store of head_ is where the message leaves the channel.
LEMMA ReleaseTakes ==
    ASSUME RingInv, RingInv', ReleaseSlot
    PROVE  Fifo!Take
<1>1. /\ alive /\ alive' /\ sent' = sent /\ delivered' = delivered
      /\ received' = Append(received, value)
      /\ value = sent[Len(received) + 1] /\ value' = value
      /\ InHand = NoObject /\ InHand' = value
      /\ Len(sent) - Len(received) >= 1
  BY InvFacts DEF ReleaseSlot, producerVars, RingInv, OperationsHold, InHand
<1>2. Contents = Outstanding /\ Contents' = Outstanding'
  BY <1>1, ContentsOutstanding, ContentsOutstandingLater
<1>3. /\ Len(received') = Len(received) + 1
      /\ Len(received) \in Nat /\ Len(sent) \in Nat
  BY <1>1, InvFacts
<1>4. Outstanding # <<>> /\ Head(Outstanding) = value
  BY <1>1, <1>3, OutstandingSeq DEF Outstanding
<1>5. Outstanding' = Tail(Outstanding)
  BY <1>1, <1>3, <1>4, OutstandingSeq DEF Outstanding
<1> QED
  BY <1>1, <1>2, <1>4, <1>5 DEF Fifo!Take

\* Every other step but the destructor leaves what is in the channel.
LEMMA OthersStutter ==
    ASSUME RingInv, RingInv', UNCHANGED <<sent, received, alive>>
    PROVE  UNCHANGED <<Contents, alive>>
<1>1. CASE alive
  <2>1. Contents = Outstanding /\ Contents' = Outstanding'
    BY <1>1, ContentsOutstanding, ContentsOutstandingLater
  <2> QED
    BY <2>1 DEF Outstanding
<1>2. CASE ~alive
  BY <1>2 DEF Contents
<1> QED
  BY <1>1, <1>2 DEF RingInv, RingTypeOK

\* The return of the message delivers it, or its move constructor loses it.
LEMMA HandOverGives ==
    ASSUME RingInv, RingInv', HandOver \/ HandOverThrows
    PROVE  Fifo!Deliver \/ Fifo!Lose
<1>1. /\ UNCHANGED <<sent, received, alive>>
      /\ InHand = value /\ InHand' = NoObject
      /\ value \in Messages
      /\ \/ delivered' = Append(delivered, value)
         \/ value \in Fragile /\ delivered' = delivered
  BY DEF HandOver, HandOverThrows, producerVars, InHand, RingInv,
         OperationsHold
<1>2. UNCHANGED <<Contents, alive>>
  BY <1>1, OthersStutter
<1> QED
  BY <1>1, <1>2 DEF Fifo!Deliver, Fifo!Lose

(***************************************************************************)
(* Whatever the capacity and the interleaving of its two sides, the ring   *)
(* is a bounded first-in first-out channel to the users of try_push and    *)
(* try_pop.                                                                *)
(***************************************************************************)
THEOREM RingImplementsFifo == RingSpec => ImplementsBoundedFifo
<1>1. RingInit => Fifo!FifoInit
  BY DEF RingInit, Fifo!FifoInit, Contents, InHand, Distance
<1>2. RingInv /\ RingInv' /\ [RingNext]_ringVars
        => [Fifo!FifoNext]_(Fifo!fifoVars)
  <2> SUFFICES ASSUME RingInv, RingInv', [RingNext]_ringVars
               PROVE  [Fifo!FifoNext]_(Fifo!fifoVars)
    OBVIOUS
  <2>1. CASE Publish
    BY <2>1, PublishAccepts DEF Fifo!FifoNext
  <2>2. CASE ReleaseSlot
    BY <2>2, ReleaseTakes DEF Fifo!FifoNext
  <2>3. CASE Destroy
    <3>1. /\ Contents' = <<>> /\ alive /\ alive' = FALSE
          /\ InHand = NoObject /\ InHand' = NoObject /\ delivered' = delivered
      BY <2>3 DEF Destroy, Contents, InHand, consumerVars
    <3> QED
      BY <3>1 DEF Fifo!FifoNext, Fifo!Discard
  <2>4. CASE HandOver \/ HandOverThrows
    BY <2>4, HandOverGives DEF Fifo!FifoNext
  <2>5. CASE /\ [RingNext]_ringVars
             /\ ~Publish /\ ~ReleaseSlot /\ ~Destroy
             /\ ~HandOver /\ ~HandOverThrows
    <3>1. /\ UNCHANGED <<sent, received, delivered, alive>>
          /\ consumer = "hand" <=> consumer' = "hand"
          /\ consumer = "hand" => value' = value
      BY <2>5 DEF RingNext, Producer, Consumer, TryEmplaceFull, TryEmplace,
                  Construct, ConstructThrows, TryPopEmpty, TryPop, MoveOut,
                  MoveThrows, SeeTail, SeeHead, ringVars, consumerVars,
                  producerVars
    <3>2. UNCHANGED <<Contents, alive>>
      BY <3>1, OthersStutter
    <3> QED
      BY <3>1, <3>2 DEF InHand, Fifo!fifoVars
  <2> QED
    BY <2>1, <2>2, <2>3, <2>4, <2>5
<1> QED
  BY <1>1, <1>2, RingInvariant, PTL
     DEF RingSpec, ImplementsBoundedFifo, Fifo!FifoSpec

-----------------------------------------------------------------------------
USE NoHandleAssumption

(***************************************************************************)
(* The ring under a step of the queue.                                     *)
(***************************************************************************)
\* A step of the queue is a step of the ring or leaves it alone.
LEMMA QueueStepIsRingStep == [QueueNext]_queueVars => [RingNext]_ringVars
<1> SUFFICES ASSUME [QueueNext]_queueVars PROVE [RingNext]_ringVars
  OBVIOUS
<1>1. CASE ProducerStep
  BY <1>1 DEF ProducerStep, RingNext
<1>2. CASE Memory
  BY <1>2 DEF Memory, RingNext
<1>3. CASE Alive /\ PopStep
  BY <1>3 DEF PopStep, Handed, Thrown, RingNext, Consumer
<1>4. ASSUME NEW c \in Coroutines, Coroutine(c)
      PROVE  [RingNext]_ringVars
  BY <1>4 DEF Coroutine, AwaitReady, AwaitSuspend, Recheck, AwaitResume,
              Return, RingNext, Consumer
<1>5. ASSUME NEW c \in Coroutines, Launch(c)
      PROVE  [RingNext]_ringVars
  BY <1>5 DEF Launch
<1>6. CASE Loop
  BY <1>6 DEF Loop, Process, ProcessNothing, LoopPop, RingNext, Consumer,
              queueVars
<1>7. CASE DestroyQueue
  BY <1>7 DEF DestroyQueue, RingNext
<1>8. CASE UNCHANGED queueVars
  BY <1>8 DEF queueVars
<1> QED
  BY <1>1, <1>2, <1>3, <1>4, <1>5, <1>6, <1>7, <1>8 DEF QueueNext

LEMMA RingUnderQueue ==
    ASSUME QueueInv, [QueueNext]_queueVars
    PROVE  RingInv'
  BY QueueStepIsRingStep, RingStepInv DEF QueueInv

\* An item that the consumer sees stays visible when it sees more.
LEMMA SeeTailKeepsItem ==
    ASSUME RingInv, SeeTail, ~empty
    PROVE  ~empty'
<1>1. /\ head_ \in Index /\ tail_ \in Index /\ tail_seen \in Index
      /\ tail_seen # tail_ /\ tail_seen' = next(tail_seen) /\ head_' = head_
  BY DEF RingInv, RingTypeOK, SeeTail
<1>2. SUFFICES ASSUME head_ = next(tail_seen) PROVE FALSE
  BY <1>1 DEF empty
<1>3. Distance(head_, tail_seen) = Capacity
  BY <1>1, <1>2, FullDistance
<1>4. /\ Distance(head_, tail_) \in 0 .. Capacity
      /\ Distance(head_, tail_seen) <= Distance(head_, tail_)
  BY <1>1, DistanceRange DEF RingInv, ViewsLag
<1>5. Distance(head_, tail_seen) = Distance(head_, tail_)
  BY <1>3, <1>4
<1> QED
  BY <1>1, <1>5, DistanceInjective
-----------------------------------------------------------------------------
(***************************************************************************)
(* The invariant at the start, and under each step.                        *)
(***************************************************************************)
LEMMA QueueInitInv == QueueInit => QueueInv
<1> SUFFICES ASSUME QueueInit PROVE QueueInv
  OBVIOUS
<1>1. RingInv
  BY InitInv DEF QueueInit
<1>2. QueueTypeOK
  BY <1>1 DEF QueueInit, QueueTypeOK, RingInv, States
<1>3. /\ RunsAlone /\ PopIsTheirs /\ ItemStays
      /\ NeverResumedWithoutItem
      /\ WaiterIsParked /\ RecheckIsWaiter /\ ParkedIsWaiter
  BY DEF QueueInit, RingInit, RunsAlone, PopIsTheirs, ItemStays,
         NeverResumedWithoutItem, WaiterIsParked, RecheckIsWaiter,
         ParkedIsWaiter
<1> QED
  BY <1>1, <1>2, <1>3 DEF QueueInv

\* A step that leaves the coroutines alone, takes no item from the running
\* one and begins no try_pop while one runs.
LEMMA AsideInv ==
    ASSUME QueueInv, RingInv', UNCHANGED coroVars,
           ~empty => ~empty',
           consumer' = consumer \/ consumer' = "idle" \/ running = NoHandle
    PROVE  QueueInv'
<1>1. QueueTypeOK'
  BY DEF QueueInv, QueueTypeOK, coroVars, RingInv
<1>2. /\ RunsAlone' /\ PopIsTheirs' /\ ItemStays'
  BY DEF QueueInv, RunsAlone, PopIsTheirs, ItemStays, coroVars
<1>3. /\ NeverResumedWithoutItem'
      /\ WaiterIsParked' /\ RecheckIsWaiter'
      /\ ParkedIsWaiter'
  BY DEF QueueInv, NeverResumedWithoutItem, WaiterIsParked, RecheckIsWaiter,
         ParkedIsWaiter, coroVars
<1> QED
  BY <1>1, <1>2, <1>3 DEF QueueInv

LEMMA ProducerStepInv ==
    ASSUME QueueInv, RingInv', ProducerStep
    PROVE  QueueInv'
<1>1. UNCHANGED <<coroVars, head_, tail_seen, consumer>>
  BY DEF ProducerStep, Producer, TryEmplaceFull, TryEmplace, Construct,
         ConstructThrows, Publish, ringVars, consumerVars
<1> QED
  BY <1>1, AsideInv DEF empty

LEMMA MemoryInv ==
    ASSUME QueueInv, RingInv', Memory
    PROVE  QueueInv'
<1>1. CASE SeeTail
  BY <1>1, SeeTailKeepsItem, AsideInv DEF Memory, QueueInv, SeeTail
<1>2. CASE SeeHead
  BY <1>2, AsideInv DEF Memory, SeeHead, consumerVars, empty
<1> QED
  BY <1>1, <1>2 DEF Memory

LEMMA LoopInv ==
    ASSUME QueueInv, RingInv', Loop
    PROVE  QueueInv'
<1>1. CASE Process
  <2>0. PICK c \in Coroutines : waiter_ = c
    BY <1>1 DEF Process, QueueInv, QueueTypeOK
  <2>1. /\ waiter_' = NoHandle /\ running = NoHandle /\ running' = c
        /\ state' = [state EXCEPT ![c] = "resume"]
        /\ halted' = halted /\ consumer' = consumer /\ consumer = "idle"
        /\ ~empty /\ ~empty'
        /\ state \in [Coroutines -> States]
        /\ state[c] \in {"recheck", "parked"}
    BY <1>1, <2>0 DEF Process, Goto, InLoop, ringVars, empty, QueueInv,
                      QueueTypeOK, WaiterIsParked
  <2>2. QueueTypeOK'
    BY <2>1 DEF QueueInv, QueueTypeOK, RingInv, States
  <2>3. RunsAlone' /\ PopIsTheirs' /\ ItemStays'
    BY <2>1 DEF QueueInv, RunsAlone, PopIsTheirs, ItemStays
  <2>4. WaiterIsParked' /\ RecheckIsWaiter' /\ NeverResumedWithoutItem'
    BY <2>0, <2>1 DEF QueueInv, WaiterIsParked, RecheckIsWaiter, RunsAlone,
                      NeverResumedWithoutItem
  <2>5. ParkedIsWaiter'
    BY <2>0, <2>1 DEF QueueInv, ParkedIsWaiter
  <2> QED
    BY <2>2, <2>3, <2>4, <2>5 DEF QueueInv
<1>2. CASE ProcessNothing
  BY <1>2, AsideInv DEF ProcessNothing, queueVars, ringVars, empty
<1>3. CASE LoopPop
  BY <1>3, AsideInv DEF LoopPop, InLoop, TryPop, TryPopEmpty, ringVars, empty
<1> QED
  BY <1>1, <1>2, <1>3 DEF Loop

\* Inside a try_pop no coroutine stands between its check and its try_pop.
LEMMA NobodyChecks ==
    ASSUME QueueInv, consumer # "idle"
    PROVE  \A c \in Coroutines : state[c] # "resume"
<1>1. CASE running = NoHandle
  BY <1>1 DEF QueueInv, RunsAlone
<1>2. CASE running # NoHandle
  BY <1>2 DEF QueueInv, QueueTypeOK, RunsAlone, PopIsTheirs
<1> QED
  BY <1>1, <1>2

LEMMA MoveOutAsideInv ==
    ASSUME QueueInv, RingInv', MoveOut \/ ReleaseSlot, UNCHANGED coroVars
    PROVE  QueueInv'
<1>1. consumer # "idle"
  BY DEF MoveOut, ReleaseSlot
<1>2. \A c \in Coroutines : state[c] # "resume"
  BY <1>1, NobodyChecks
<1>3. QueueTypeOK' /\ PopIsTheirs' /\ ItemStays'
  BY <1>1, <1>2 DEF QueueInv, QueueTypeOK, PopIsTheirs, ItemStays, coroVars,
                    RingInv
<1> QED
  BY <1>3
     DEF QueueInv, RunsAlone, NeverResumedWithoutItem, WaiterIsParked,
         RecheckIsWaiter, ParkedIsWaiter, coroVars

\* The end of a try_pop, with the message or without: the coroutine it
\* belongs to is in its own code again, or the program has ended.
LEMMA PopEndsInv ==
    ASSUME QueueInv, RingInv', consumer # "idle", consumer' = "idle",
           \/ IF running = NoHandle THEN UNCHANGED state
                                    ELSE Goto(running, "body")
           \/ UNCHANGED state,
           halted' \in {halted, "terminated"},
           UNCHANGED <<waiter_, running>>
    PROVE  QueueInv'
<1>1. \A c \in Coroutines : state[c] # "resume"
  BY NobodyChecks
<1>2. CASE UNCHANGED state
  <2>1. QueueTypeOK' /\ RunsAlone' /\ PopIsTheirs' /\ ItemStays'
    BY <1>1, <1>2
       DEF QueueInv, QueueTypeOK, RunsAlone, PopIsTheirs, ItemStays, RingInv
  <2> QED
    BY <1>2, <2>1 DEF QueueInv, NeverResumedWithoutItem, WaiterIsParked,
                      RecheckIsWaiter, ParkedIsWaiter
<1>3. CASE running # NoHandle /\ Goto(running, "body")
  <2>1. /\ running \in Coroutines /\ state[running] = "take"
        /\ state \in [Coroutines -> States]
        /\ state' = [state EXCEPT ![running] = "body"]
    BY <1>3 DEF QueueInv, QueueTypeOK, PopIsTheirs, Goto
  <2>2. QueueTypeOK'
    BY <2>1 DEF QueueInv, QueueTypeOK, RingInv, States
  <2>3. RunsAlone' /\ PopIsTheirs'
    BY <2>1 DEF QueueInv, RunsAlone, PopIsTheirs
  <2>4. ItemStays'
    BY <1>1, <2>1 DEF ItemStays
  <2>5. /\ WaiterIsParked' /\ RecheckIsWaiter'
        /\ NeverResumedWithoutItem'
        /\ ParkedIsWaiter'
    BY <2>1 DEF QueueInv, WaiterIsParked, RecheckIsWaiter,
                NeverResumedWithoutItem, ParkedIsWaiter
  <2> QED
    BY <2>2, <2>3, <2>4, <2>5 DEF QueueInv
<1> QED
  BY <1>2, <1>3

LEMMA PopStepInv ==
    ASSUME QueueInv, RingInv', PopStep
    PROVE  QueueInv'
<1>1. CASE (MoveOut \/ ReleaseSlot) /\ UNCHANGED coroVars
  BY <1>1, MoveOutAsideInv
<1>2. CASE Handed
  BY <1>2, PopEndsInv DEF Handed, HandOver
<1>3. CASE Thrown
  <2>1. /\ consumer # "idle" /\ consumer' = "idle"
        /\ \/ IF running = NoHandle THEN UNCHANGED state
                                     ELSE Goto(running, "body")
           \/ UNCHANGED state
        /\ halted' \in {halted, "terminated"}
        /\ UNCHANGED <<waiter_, running>>
    BY <1>3 DEF Thrown, MoveThrows, HandOverThrows
  <2> QED
    BY <2>1, PopEndsInv
<1> QED
  BY <1>1, <1>2, <1>3 DEF PopStep

LEMMA DestroyQueueInv ==
    ASSUME QueueInv, RingInv', DestroyQueue
    PROVE  QueueInv'
<1>1. UNCHANGED <<coroVars, head_, tail_seen, consumer>>
  BY DEF DestroyQueue, Destroy, consumerVars
<1> QED
  BY <1>1, AsideInv DEF empty

\* A coroutine that enters, leaves or moves on while the ring stands still.
LEMMA LaunchInv ==
    ASSUME QueueInv, RingInv', NEW c \in Coroutines, Launch(c)
    PROVE  QueueInv'
<1>1. /\ running = NoHandle /\ running' = c /\ state[c] = "fresh"
      /\ state \in [Coroutines -> States]
      /\ state' = [state EXCEPT ![c] = "body"]
      /\ UNCHANGED <<waiter_, halted, head_, tail_seen, consumer>>
      /\ consumer = "idle"
  BY DEF Launch, InLoop, Goto, QueueInv, QueueTypeOK, ringVars
<1>2. QueueTypeOK'
  BY <1>1 DEF QueueInv, QueueTypeOK, RingInv, States
<1>3. RunsAlone' /\ PopIsTheirs' /\ ItemStays'
  BY <1>1 DEF QueueInv, RunsAlone, PopIsTheirs, ItemStays, empty
<1>4. /\ WaiterIsParked' /\ RecheckIsWaiter' /\ NeverResumedWithoutItem'
      /\ ParkedIsWaiter'
  BY <1>1 DEF QueueInv, WaiterIsParked, RecheckIsWaiter,
              NeverResumedWithoutItem, ParkedIsWaiter
<1> QED
  BY <1>2, <1>3, <1>4 DEF QueueInv

LEMMA ReturnInv ==
    ASSUME QueueInv, RingInv', NEW c \in Coroutines, Return(c)
    PROVE  QueueInv'
<1>1. /\ running = c /\ running' = NoHandle /\ state[c] = "body"
      /\ state \in [Coroutines -> States]
      /\ state' = [state EXCEPT ![c] = "done"]
      /\ UNCHANGED <<waiter_, halted, head_, tail_seen, consumer>>
  BY DEF Return, Goto, QueueInv, QueueTypeOK, ringVars
<1>2. QueueTypeOK'
  BY <1>1 DEF QueueInv, QueueTypeOK, RingInv, States
<1>3. RunsAlone' /\ PopIsTheirs' /\ ItemStays'
  BY <1>1 DEF QueueInv, RunsAlone, PopIsTheirs, ItemStays, empty
<1>4. /\ WaiterIsParked' /\ RecheckIsWaiter' /\ NeverResumedWithoutItem'
      /\ ParkedIsWaiter'
  BY <1>1 DEF QueueInv, WaiterIsParked, RecheckIsWaiter,
              NeverResumedWithoutItem, ParkedIsWaiter
<1> QED
  BY <1>2, <1>3, <1>4 DEF QueueInv

LEMMA AwaitReadyInv ==
    ASSUME QueueInv, RingInv', NEW c \in Coroutines, AwaitReady(c)
    PROVE  QueueInv'
<1>1. /\ running = c /\ running' = c /\ state[c] = "body"
      /\ state \in [Coroutines -> States]
      /\ state' = [state EXCEPT ![c] = IF empty THEN "suspend" ELSE "resume"]
      /\ UNCHANGED <<waiter_, halted, head_, tail_seen, consumer>>
  BY DEF AwaitReady, Goto, QueueInv, QueueTypeOK, ringVars
<1>2. consumer = "idle" /\ (empty' <=> empty)
  BY <1>1 DEF QueueInv, QueueTypeOK, PopIsTheirs, empty
<1>3. QueueTypeOK'
  BY <1>1 DEF QueueInv, QueueTypeOK, RingInv, States
<1>4. RunsAlone' /\ PopIsTheirs' /\ ItemStays'
  BY <1>1, <1>2 DEF QueueInv, RunsAlone, PopIsTheirs, ItemStays
<1>5. /\ WaiterIsParked' /\ RecheckIsWaiter' /\ NeverResumedWithoutItem'
      /\ ParkedIsWaiter'
  BY <1>1 DEF QueueInv, WaiterIsParked, RecheckIsWaiter,
              NeverResumedWithoutItem, ParkedIsWaiter
<1> QED
  BY <1>3, <1>4, <1>5 DEF QueueInv

LEMMA AwaitSuspendInv ==
    ASSUME QueueInv, RingInv', NEW c \in Coroutines, AwaitSuspend(c)
    PROVE  QueueInv'
<1>1. /\ running = c /\ running' = c /\ state[c] = "suspend"
      /\ state \in [Coroutines -> States]
      /\ UNCHANGED <<head_, tail_seen, consumer>>
  BY DEF AwaitSuspend, QueueInv, QueueTypeOK, ringVars
<1>2. consumer = "idle" /\ (empty' <=> empty)
  BY <1>1 DEF QueueInv, QueueTypeOK, PopIsTheirs, empty
<1>3. CASE halted' = "only one waiter" /\ UNCHANGED <<waiter_, state>>
  <2>1. QueueTypeOK' /\ RunsAlone' /\ PopIsTheirs' /\ ItemStays'
    BY <1>1, <1>2, <1>3
       DEF QueueInv, QueueTypeOK, RingInv, RunsAlone, PopIsTheirs, ItemStays
  <2> QED
    BY <1>3, <2>1 DEF QueueInv, WaiterIsParked, RecheckIsWaiter,
                      NeverResumedWithoutItem, ParkedIsWaiter
<1>4. CASE ~empty /\ Goto(c, "resume") /\ UNCHANGED <<waiter_, halted>>
  <2>1. state' = [state EXCEPT ![c] = "resume"]
    BY <1>4 DEF Goto
  <2>2. QueueTypeOK' /\ RunsAlone' /\ PopIsTheirs' /\ ItemStays'
    BY <1>1, <1>2, <1>4, <2>1
       DEF QueueInv, QueueTypeOK, RingInv, RunsAlone, PopIsTheirs, ItemStays,
           States
  <2> QED
    BY <1>1, <1>4, <2>1, <2>2
       DEF QueueInv, WaiterIsParked, RecheckIsWaiter,
           NeverResumedWithoutItem, ParkedIsWaiter
<1>5. CASE empty /\ waiter_' = c /\ Replace(c) /\ UNCHANGED halted
  <2>1. QueueTypeOK'
    BY <1>1, <1>5 DEF QueueInv, QueueTypeOK, RingInv, States, Replace
  <2>2. /\ state'[c] = "recheck"
        /\ \A d \in Coroutines :
             \/ d = c
             \/ d # waiter_ /\ state'[d] = state[d] /\ state[d] # "parked"
             \/ d = waiter_ /\ state'[d] = "replaced"
                /\ state[d] \in {"recheck", "parked"}
    BY <1>5 DEF Replace, QueueInv, ParkedIsWaiter, WaiterIsParked
  <2>3. RunsAlone' /\ PopIsTheirs' /\ ItemStays'
    BY <1>1, <1>2, <1>5, <2>2
       DEF QueueInv, RunsAlone, PopIsTheirs, ItemStays, RecheckIsWaiter
  <2>4. /\ WaiterIsParked' /\ RecheckIsWaiter' /\ ParkedIsWaiter'
        /\ NeverResumedWithoutItem'
    BY <1>1, <1>5, <2>2
       DEF QueueInv, WaiterIsParked, RecheckIsWaiter, ParkedIsWaiter,
           RunsAlone, NeverResumedWithoutItem
  <2> QED
    BY <2>1, <2>3, <2>4 DEF QueueInv
<1> QED
  BY <1>3, <1>4, <1>5 DEF AwaitSuspend

LEMMA RecheckInv ==
    ASSUME QueueInv, RingInv', NEW c \in Coroutines, Recheck(c)
    PROVE  QueueInv'
<1>1. /\ running = c /\ state[c] = "recheck" /\ waiter_ = c
      /\ state \in [Coroutines -> States]
      /\ UNCHANGED <<head_, tail_seen, consumer, halted>>
  BY DEF Recheck, QueueInv, QueueTypeOK, RecheckIsWaiter, ringVars
<1>2. consumer = "idle" /\ (empty' <=> empty)
  BY <1>1 DEF QueueInv, QueueTypeOK, PopIsTheirs, empty
<1>3. CASE /\ ~empty /\ waiter_' = NoHandle /\ running' = running
           /\ Goto(c, "resume")
  <2>1. state' = [state EXCEPT ![c] = "resume"]
    BY <1>3 DEF Goto
  <2>2. QueueTypeOK' /\ RunsAlone' /\ PopIsTheirs' /\ ItemStays'
    BY <1>1, <1>2, <1>3, <2>1
       DEF QueueInv, QueueTypeOK, RingInv, RunsAlone, PopIsTheirs, ItemStays,
           States
  <2>3. WaiterIsParked' /\ RecheckIsWaiter' /\ NeverResumedWithoutItem'
    BY <1>1, <1>3, <2>1
       DEF QueueInv, WaiterIsParked, RecheckIsWaiter, RunsAlone,
           NeverResumedWithoutItem
  <2>4. ParkedIsWaiter'
    BY <1>1, <2>1 DEF QueueInv, ParkedIsWaiter
  <2> QED
    BY <2>2, <2>3, <2>4 DEF QueueInv
<1>4. CASE running' = NoHandle /\ Goto(c, "parked") /\ waiter_' = waiter_
  <2>1. state' = [state EXCEPT ![c] = "parked"]
    BY <1>4 DEF Goto
  <2>2. QueueTypeOK' /\ RunsAlone' /\ PopIsTheirs' /\ ItemStays'
    BY <1>1, <1>2, <1>4, <2>1
       DEF QueueInv, QueueTypeOK, RingInv, RunsAlone, PopIsTheirs, ItemStays,
           States
  <2>3. /\ WaiterIsParked' /\ RecheckIsWaiter' /\ NeverResumedWithoutItem'
        /\ ParkedIsWaiter'
    BY <1>1, <1>4, <2>1
       DEF QueueInv, WaiterIsParked, RecheckIsWaiter, ParkedIsWaiter,
           NeverResumedWithoutItem
  <2> QED
    BY <2>2, <2>3 DEF QueueInv
<1> QED
  BY <1>3, <1>4 DEF Recheck

LEMMA AwaitResumeInv ==
    ASSUME QueueInv, RingInv', NEW c \in Coroutines, AwaitResume(c)
    PROVE  QueueInv'
<1>1. ~empty
  BY DEF AwaitResume, QueueInv, ItemStays
<1>2. /\ running = c /\ running' = c /\ state[c] = "resume"
      /\ state \in [Coroutines -> States]
      /\ state' = [state EXCEPT ![c] = "take"]
      /\ UNCHANGED <<waiter_, halted, head_, tail_seen>>
  BY <1>1 DEF AwaitResume, TryPop, Goto, QueueInv, QueueTypeOK
<1>3. QueueTypeOK'
  BY <1>2 DEF QueueInv, QueueTypeOK, RingInv, States
<1>4. RunsAlone' /\ PopIsTheirs' /\ ItemStays'
  BY <1>2 DEF QueueInv, RunsAlone, PopIsTheirs, ItemStays, empty
<1>5. /\ WaiterIsParked' /\ RecheckIsWaiter' /\ NeverResumedWithoutItem'
      /\ ParkedIsWaiter'
  BY <1>2 DEF QueueInv, WaiterIsParked, RecheckIsWaiter,
              NeverResumedWithoutItem, ParkedIsWaiter
<1> QED
  BY <1>3, <1>4, <1>5 DEF QueueInv
-----------------------------------------------------------------------------
(***************************************************************************)
(* The invariant of the queue and its coroutines, wherever the producer    *)
(* steps between theirs.                                                   *)
(***************************************************************************)
THEOREM QueueInvariant == QueueSpec => []QueueInv
<1>1. QueueInit => QueueInv
  BY QueueInitInv
<1>2. QueueInv /\ [QueueNext]_queueVars => QueueInv'
  <2> SUFFICES ASSUME QueueInv, [QueueNext]_queueVars PROVE QueueInv'
    OBVIOUS
  <2>0. RingInv'
    BY RingUnderQueue
  <2>1. CASE ProducerStep
    BY <2>0, <2>1, ProducerStepInv
  <2>2. CASE Memory
    BY <2>0, <2>2, MemoryInv
  <2>3. CASE PopStep
    BY <2>0, <2>3, PopStepInv
  <2>4. ASSUME NEW c \in Coroutines, Coroutine(c) PROVE QueueInv'
    BY <2>0, <2>4, AwaitReadyInv, AwaitSuspendInv, RecheckInv,
       AwaitResumeInv, ReturnInv DEF Coroutine
  <2>5. ASSUME NEW c \in Coroutines, Launch(c) PROVE QueueInv'
    BY <2>0, <2>5, LaunchInv
  <2>6. CASE Loop
    BY <2>0, <2>6, LoopInv
  <2>7. CASE DestroyQueue
    BY <2>0, <2>7, DestroyQueueInv
  <2>8. CASE UNCHANGED queueVars
    BY <2>0, <2>8, AsideInv DEF queueVars, ringVars, empty
  <2> QED
    BY <2>1, <2>2, <2>3, <2>4, <2>5, <2>6, <2>7, <2>8 DEF QueueNext
<1> QED
  BY <1>1, <1>2, PTL DEF QueueSpec

\* The queue, its handle and its coroutines stay within their types.
THEOREM QueueTypeCorrect == QueueSpec => []QueueTypeOK
<1>1. QueueInv => QueueTypeOK
  BY DEF QueueInv
<1> QED
  BY <1>1, QueueInvariant, PTL

\* The assertion of await_resume (async_queue.hpp:128) never fails: an item
\* found by any of the checks before is still there.
THEOREM ItemIsThere == QueueSpec => []NeverResumedWithoutItem
<1>1. QueueInv => NeverResumedWithoutItem
  BY DEF QueueInv
<1> QED
  BY <1>1, QueueInvariant, PTL

\* process() resumes suspended coroutines only, even where a second waiter
\* has replaced the first.
THEOREM ResumedIsParked == QueueSpec => []WaiterIsParked
<1>1. QueueInv => WaiterIsParked
  BY DEF QueueInv
<1> QED
  BY <1>1, QueueInvariant, PTL

\* process() knows whoever is suspended and not replaced.
THEOREM NoWaiterForgotten == QueueSpec => []ParkedIsWaiter
<1>1. QueueInv => ParkedIsWaiter
  BY DEF QueueInv
<1> QED
  BY <1>1, QueueInvariant, PTL

\* Whatever holds of the ring alone holds of the ring in the queue: the
\* coroutines and the loop use it through try_pop only.
THEOREM QueueImplementsRing == QueueSpec => RingSpec
<1>1. QueueInit => RingInit
  BY DEF QueueInit
<1> QED
  BY <1>1, QueueStepIsRingStep, PTL DEF QueueSpec, RingSpec

\* async_queue, awaiter and all, is the bounded channel of BoundedFifo.
THEOREM QueueImplementsFifo == QueueSpec => ImplementsBoundedFifo
  BY QueueImplementsRing, RingImplementsFifo, PTL
=============================================================================

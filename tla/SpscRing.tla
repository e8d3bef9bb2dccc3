------------------------------ MODULE SpscRing ------------------------------
(***************************************************************************)
(* The storage of async_queue<T, Capacity>: a ring of Capacity + 1 slots   *)
(* shared by one producer (an interrupt handler or a thread, try_emplace   *)
(* and try_push) and one consumer (the event loop, try_pop).               *)
(* coro/include/coro/async_queue.hpp:28-95 and 153-169.                    *)
(*                                                                         *)
(* Every load and store of the other side's index is a step of its own, so *)
(* the two sides interleave everywhere the code lets them.  head_seen and  *)
(* tail_seen are the values an acquire load of head_ and tail_ returns     *)
(* now: they follow the stores in order (coherence) and may lag behind     *)
(* them.  An index store is a release store, so whoever sees it also sees  *)
(* the slots written before it.                                            *)
(***************************************************************************)
EXTENDS Naturals, Sequences

CONSTANTS Capacity, \* template parameter
          Messages, \* the values of T that are sent
          Fragile,  \* those whose move constructor may throw (none, if T is
                    \* nothrow move constructible)
          NoObject, \* the contents of a slot that holds no live T
          MaxSent   \* bound on the number of accepted messages

ASSUME CapacityAssumption == Capacity \in Nat \ {0}
ASSUME NoObjectAssumption == NoObject \notin Messages
ASSUME FragileAssumption  == Fragile \subseteq Messages
ASSUME MaxSentAssumption  == MaxSent \in Nat

VARIABLES
    head_,     \* index of the oldest message; stored by the consumer only
    tail_,     \* index of the next free slot; stored by the producer only
    storage_,  \* the live object in each slot, or NoObject
    head_seen, \* what the producer's next acquire load of head_ returns
    tail_seen, \* what the consumer's next acquire load of tail_ returns
    producer,  \* how far try_emplace is: "idle", "construct", "publish"
    emplacing, \* the arguments of the try_emplace in progress
    consumer,  \* how far try_pop is: "idle", "move", "release", "hand"
    value,     \* the local optional of try_pop, or of await_resume
    alive,     \* FALSE once ~async_queue has run
    sent,      \* history: messages published, in order
    received,  \* history: messages whose slot try_pop has released, in order
    delivered  \* history: messages that its callers have got, in order

ringVars == <<head_, tail_, storage_, head_seen, tail_seen, producer,
              emplacing, consumer, value, alive, sent, received, delivered>>

producerVars == <<tail_, head_seen, producer, emplacing, sent>>
consumerVars == <<head_, tail_seen, consumer, value, received, delivered>>
-----------------------------------------------------------------------------
\* One slot always stays empty, so that full and empty rings differ.
storage_size_NoSpareSlot == Capacity
storage_size == Capacity + 1

Index == 0 .. storage_size - 1

next(index) == (index + 1) % storage_size

\* How many slots lie from index h up to, and without, index t.
Distance(h, t) == IF t >= h THEN t - h ELSE (t - h) + storage_size

\* The slots between head_ and tail_, which ~async_queue walks over.
Occupied == {i \in Index : Distance(head_, i) < Distance(head_, tail_)}

\* empty() as the consumer evaluates it, full() as the producer does.
empty == head_ = tail_seen

full_TooLate == FALSE
full == next(tail_) = head_seen
-----------------------------------------------------------------------------
RingInit ==
    /\ head_ = 0 /\ tail_ = 0
    /\ head_seen = 0 /\ tail_seen = 0
    /\ storage_ = [i \in Index |-> NoObject]
    /\ producer = "idle" /\ emplacing = NoObject
    /\ consumer = "idle" /\ value = NoObject
    /\ alive = TRUE
    /\ sent = <<>> /\ received = <<>> /\ delivered = <<>>

(***************************************************************************)
(* The producer: try_push(m) is try_emplace(m).                            *)
(***************************************************************************)
\* The ring looks full: return false, the message is the caller's to drop.
TryEmplaceFull ==
    /\ alive /\ producer = "idle" /\ full
    /\ UNCHANGED ringVars

TryEmplace(m) ==
    /\ alive /\ producer = "idle" /\ ~full
    /\ Len(sent) < MaxSent
    /\ producer' = "construct"
    /\ emplacing' = m
    /\ UNCHANGED <<consumerVars, tail_, head_seen, sent, storage_, alive>>

\* std::construct_at in the slot of tail_.
Construct ==
    /\ producer = "construct"
    /\ storage_' = [storage_ EXCEPT ![tail_] = emplacing]
    /\ producer' = "publish"
    /\ UNCHANGED <<consumerVars, tail_, head_seen, emplacing, sent, alive>>

\* A throwing constructor leaves no object and leaves tail_ alone.
ConstructThrows ==
    /\ producer = "construct"
    /\ producer' = "idle"
    /\ emplacing' = NoObject
    /\ UNCHANGED <<consumerVars, tail_, head_seen, sent, storage_, alive>>

\* The release store of tail_ makes the message visible.
Publish ==
    /\ producer = "publish"
    /\ tail_' = next(tail_)
    /\ sent' = Append(sent, emplacing)
    /\ producer' = "idle"
    /\ emplacing' = NoObject
    /\ UNCHANGED <<consumerVars, head_seen, storage_, alive>>

(***************************************************************************)
(* The consumer: try_pop().                                                *)
(***************************************************************************)
\* Nothing visible: return nullopt.
TryPopEmpty ==
    /\ alive /\ consumer = "idle" /\ empty
    /\ UNCHANGED ringVars

TryPop ==
    /\ alive /\ consumer = "idle" /\ ~empty
    /\ consumer' = "move"
    /\ UNCHANGED <<producerVars, head_, tail_seen, value, received,
                   delivered, storage_, alive>>

\* Move the object out of its slot and destroy what is left of it.
MoveOut_NoDestroy ==
    /\ consumer = "move"
    /\ value' = storage_[head_]
    /\ storage_' = storage_
    /\ consumer' = "release"
    /\ UNCHANGED <<producerVars, head_, tail_seen, received, delivered, alive>>
MoveOut_WrongSlot ==
    /\ consumer = "move"
    /\ value' = storage_[next(head_)]
    /\ storage_' = [storage_ EXCEPT ![head_] = NoObject]
    /\ consumer' = "release"
    /\ UNCHANGED <<producerVars, head_, tail_seen, received, delivered, alive>>
MoveOut ==
    /\ consumer = "move"
    /\ value' = storage_[head_]
    /\ storage_' = [storage_ EXCEPT ![head_] = NoObject]
    /\ consumer' = "release"
    /\ UNCHANGED <<producerVars, head_, tail_seen, received, delivered, alive>>

\* A throwing move constructor: the object stays in its slot and in the queue.
MoveThrows ==
    /\ consumer = "move" /\ storage_[head_] \in Fragile
    /\ consumer' = "idle"
    /\ UNCHANGED <<producerVars, head_, tail_seen, value, received,
                   delivered, storage_, alive>>

\* The release store of head_ gives the slot back to the producer.
ReleaseSlot ==
    /\ consumer = "release"
    /\ head_' = next(head_)
    /\ received' = Append(received, value)
    /\ consumer' = "hand"
    /\ UNCHANGED <<producerVars, tail_seen, value, delivered, storage_, alive>>

\* From the local optional to the caller: return value (a move, unless the
\* compiler elides it), and in await_resume return std::move(*value).
HandOver ==
    /\ consumer = "hand"
    /\ delivered' = Append(delivered, value)
    /\ consumer' = "idle"
    /\ value' = NoObject
    /\ UNCHANGED <<producerVars, head_, tail_seen, received, storage_, alive>>

\* A move constructor that throws now: the slot is gone, and the message
\* with it.
HandOverThrows ==
    /\ consumer = "hand" /\ value \in Fragile
    /\ consumer' = "idle"
    /\ value' = NoObject
    /\ UNCHANGED <<producerVars, head_, tail_seen, received, delivered,
                   storage_, alive>>

(***************************************************************************)
(* The memory between them, and the destructor.                            *)
(***************************************************************************)
\* The next store of tail_ becomes visible to the consumer.
SeeTail ==
    /\ alive /\ tail_seen # tail_
    /\ tail_seen' = next(tail_seen)
    /\ UNCHANGED <<producerVars, head_, consumer, value, received,
                   delivered, storage_, alive>>

\* The next store of head_ becomes visible to the producer.
SeeHead ==
    /\ alive /\ head_seen # head_
    /\ head_seen' = next(head_seen)
    /\ UNCHANGED <<consumerVars, tail_, producer, emplacing, sent,
                   storage_, alive>>

\* ~async_queue, with both sides done: destroys the objects left in the ring.
Destroy_UpToLast ==
    /\ alive /\ producer = "idle" /\ consumer = "idle"
    /\ storage_' = [i \in Index |-> IF i \in Occupied /\ next(i) # tail_
                                      THEN NoObject ELSE storage_[i]]
    /\ alive' = FALSE
    /\ UNCHANGED <<producerVars, consumerVars>>
Destroy ==
    /\ alive /\ producer = "idle" /\ consumer = "idle"
    /\ storage_' = [i \in Index |-> IF i \in Occupied THEN NoObject
                                                      ELSE storage_[i]]
    /\ alive' = FALSE
    /\ UNCHANGED <<producerVars, consumerVars>>

Producer == \/ TryEmplaceFull
            \/ \E m \in Messages : TryEmplace(m)
            \/ Construct
            \/ ConstructThrows
            \/ Publish

Consumer == \/ TryPopEmpty
            \/ TryPop
            \/ MoveOut
            \/ MoveThrows
            \/ ReleaseSlot
            \/ HandOver
            \/ HandOverThrows

RingNext == Producer \/ Consumer \/ SeeTail \/ SeeHead \/ Destroy

RingSpec == RingInit /\ [][RingNext]_ringVars
-----------------------------------------------------------------------------
(***************************************************************************)
(* Properties.                                                             *)
(***************************************************************************)
RingTypeOK ==
    /\ head_ \in Index /\ tail_ \in Index
    /\ head_seen \in Index /\ tail_seen \in Index
    /\ storage_ \in [Index -> Messages \cup {NoObject}]
    /\ producer \in {"idle", "construct", "publish"}
    /\ emplacing \in Messages \cup {NoObject}
    /\ consumer \in {"idle", "move", "release", "hand"}
    /\ value \in Messages \cup {NoObject}
    /\ alive \in BOOLEAN
    /\ sent \in Seq(Messages) /\ received \in Seq(Messages)
    /\ delivered \in Seq(Messages)

(***************************************************************************)
(* Object lifetimes, the part of the code a wrong index breaks silently:   *)
(* try_emplace constructs only where no object lives (none is overwritten  *)
(* without its destructor), try_pop moves only from a live object, and the *)
(* two never work on one slot at the same time.                            *)
(***************************************************************************)
SlotDiscipline ==
    /\ producer = "construct" => storage_[tail_] = NoObject
    /\ consumer = "move" => storage_[head_] \in Messages
    /\ producer # "idle" /\ consumer \in {"move", "release"}
         => head_ # tail_

(***************************************************************************)
(* First in, first out, through every interleaving of try_push and         *)
(* try_pop: what has left the ring is a prefix of what was accepted, and   *)
(* the message being moved is the next one.  If no move constructor        *)
(* throws, all of it has reached the callers, in that order.               *)
(***************************************************************************)
NoneLost ==
    Fragile = {} =>
        received = IF consumer = "hand" THEN Append(delivered, value)
                                        ELSE delivered

FifoDelivery ==
    /\ Len(received) <= Len(sent)
    /\ \A k \in 1 .. Len(received) : received[k] = sent[k]
    /\ consumer = "release" => /\ Len(received) < Len(sent)
                               /\ value = sent[Len(received) + 1]
    /\ NoneLost

(***************************************************************************)
(* full() and empty() mean what their names say: the indices meet exactly  *)
(* when every accepted message was taken, and are one short of meeting     *)
(* exactly when Capacity messages are outstanding.                         *)
(***************************************************************************)
OccupancyExact ==
    /\ head_ = tail_ <=> Len(sent) = Len(received)
    /\ next(tail_) = head_ <=> Len(sent) = Len(received) + Capacity

(***************************************************************************)
(* The destructor destroys each object once, whatever is in the ring and   *)
(* wherever in the ring it is: whenever it may run, it would walk over     *)
(* live objects only, and when it has run, none is left.                   *)
(***************************************************************************)
DestroyedOnce ==
    /\ alive /\ producer = "idle" /\ consumer = "idle" =>
         \A i \in Occupied : storage_[i] # NoObject
    /\ ~alive => \A i \in Index : storage_[i] = NoObject

(***************************************************************************)
(* A stale index errs on the safe side only: an item the consumer sees is  *)
(* there, and room the producer sees is there.                             *)
(***************************************************************************)
StaleViewsAreSafe ==
    /\ ~empty => Len(sent) > Len(received)
    /\ ~full => Len(sent) < Len(received) + Capacity

(***************************************************************************)
(* The inductive invariant behind the five above.  Its parts tie the three *)
(* views of the ring together: the indices count the messages, a view lags *)
(* but never by a lap, an operation in progress holds the slot it checked, *)
(* and each slot holds what its position between the indices says.         *)
(***************************************************************************)
IndicesCount == Len(sent) = Len(received) + Distance(head_, tail_)

ViewsLag ==
    /\ Distance(head_, tail_seen) <= Distance(head_, tail_)
    /\ Distance(head_, tail_) <= Distance(head_seen, tail_)

OperationsHold ==
    /\ producer # "idle" => /\ Distance(head_seen, tail_) < Capacity
                            /\ emplacing \in Messages
    /\ consumer \in {"move", "release"} => head_ # tail_seen
    /\ consumer = "release" => value = sent[Len(received) + 1]
    /\ consumer = "hand" => value \in Messages
    /\ ~alive => producer = "idle" /\ consumer = "idle"

\* The slots with a message: those between the indices, but for the one
\* try_pop has emptied and not yet released.
Filled(i) ==
    /\ alive
    /\ Distance(head_, i) < Distance(head_, tail_)
    /\ i = head_ => consumer # "release"

SlotContents ==
    \A i \in Index :
        IF Filled(i)
          THEN storage_[i] = sent[Len(received) + 1 + Distance(head_, i)]
          ELSE IF i = tail_ /\ producer = "publish"
                 THEN storage_[i] = emplacing
                 ELSE storage_[i] = NoObject

ReceivedInOrder == \A k \in 1 .. Len(received) : received[k] = sent[k]

RingInv ==
    /\ RingTypeOK
    /\ IndicesCount
    /\ ViewsLag
    /\ OperationsHold
    /\ SlotContents
    /\ ReceivedInOrder /\ NoneLost

\* The slot that holds the k-th oldest message.
SlotOf(k) == IF head_ + k <= storage_size THEN (head_ + k) - 1
                                          ELSE ((head_ + k) - 1) - storage_size

\* The ring refines the bounded channel: the slots from head_ on, oldest
\* first, are the channel's contents (the oldest may be in try_pop's hands),
\* and the local optional is the hand once the slot has been released.
Contents ==
    IF alive
      THEN [k \in 1 .. Distance(head_, tail_) |->
              IF k = 1 /\ consumer = "release" THEN value
                                              ELSE storage_[SlotOf(k)]]
      ELSE <<>>

InHand == IF consumer = "hand" THEN value ELSE NoObject

Fifo == INSTANCE BoundedFifo
          WITH fifo <- Contents, hand <- InHand, open <- alive,
               Nothing <- NoObject

\* Every step of the ring is a step of the channel or none: BoundedFifo is
\* what a user of try_push and try_pop may rely on.
ImplementsBoundedFifo == Fifo!FifoSpec
=============================================================================

---------------------------- MODULE BoundedFifo ----------------------------
(***************************************************************************)
(* What async_queue promises its two users, with no ring, no indices and   *)
(* no interleaving: a first-in first-out channel that holds at most        *)
(* Capacity messages and delivers each of them once, in order.  A message  *)
(* that has left the channel is lost only if its own move constructor      *)
(* throws on its way to the consumer.                                      *)
(* Refusing a message, or finding none, changes nothing and is a           *)
(* stuttering step here.                                                   *)
(***************************************************************************)
EXTENDS Naturals, Sequences

CONSTANTS Capacity, \* how many messages the channel holds
          Messages, \* what may be sent
          Fragile,  \* the messages whose move constructor may throw
          Nothing   \* an empty hand

VARIABLES fifo,      \* accepted messages not taken yet, oldest first
          hand,      \* the message on its way to the consumer, or Nothing
          delivered, \* every message handed to the consumer, in that order
          open       \* FALSE once the channel has been destroyed

fifoVars == <<fifo, hand, delivered, open>>

FifoInit == fifo = <<>> /\ hand = Nothing /\ delivered = <<>> /\ open = TRUE

Accept(m) ==
    /\ open
    /\ Len(fifo) < Capacity
    /\ fifo' = Append(fifo, m)
    /\ UNCHANGED <<hand, delivered, open>>

\* The oldest message leaves the channel, which has room for another.
Take ==
    /\ open
    /\ hand = Nothing /\ fifo # <<>>
    /\ hand' = Head(fifo)
    /\ fifo' = Tail(fifo)
    /\ UNCHANGED <<delivered, open>>

Deliver ==
    /\ hand # Nothing
    /\ delivered' = Append(delivered, hand)
    /\ hand' = Nothing
    /\ UNCHANGED <<fifo, open>>

\* The consumer gets an exception in the place of the message.
Lose ==
    /\ hand \in Fragile
    /\ hand' = Nothing
    /\ UNCHANGED <<fifo, delivered, open>>

\* The destructor discards whatever was accepted and not taken.
Discard ==
    /\ open
    /\ hand = Nothing
    /\ open' = FALSE
    /\ fifo' = <<>>
    /\ UNCHANGED <<hand, delivered>>

FifoNext ==
    (\E m \in Messages : Accept(m)) \/ Take \/ Deliver \/ Lose \/ Discard

FifoSpec == FifoInit /\ [][FifoNext]_fifoVars
=============================================================================

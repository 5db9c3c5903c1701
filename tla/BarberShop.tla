----------------------------- MODULE BarberShop -----------------------------
(***************************************************************************)
(* What cw07 promises its clients, without semaphores or shared memory.    *)
(* The waiting room serves in order of arrival and holds at most Chairs    *)
(* clients, one client is in the barber's chair at a time, the barber      *)
(* falls asleep only when nobody waits, and a client who finds him asleep  *)
(* goes straight to the chair.                                             *)
(***************************************************************************)
EXTENDS Naturals, Sequences

CONSTANTS Clients, Chairs, NoClient

VARIABLES
    queue,      \* the waiting room, in order of arrival
    chair,      \* who is in the chair, or on the way to it
    asleep      \* the barber sleeps

bvars == <<queue, chair, asleep>>

ShopInit == queue = <<>> /\ chair = NoClient /\ asleep = FALSE

Waits(c) == \E i \in 1 .. Len(queue) : queue[i] = c

Arrive(c) ==
    /\ ~asleep /\ chair # c /\ ~Waits(c)
    /\ Len(queue) < Chairs
    /\ queue' = Append(queue, c)
    /\ UNCHANGED <<chair, asleep>>

WakeUp(c) ==
    /\ asleep /\ chair = NoClient /\ ~Waits(c)
    /\ asleep' = FALSE
    /\ chair' = c
    /\ UNCHANGED queue

CallNext ==
    /\ ~asleep /\ chair = NoClient /\ queue # <<>>
    /\ chair' = Head(queue)
    /\ queue' = Tail(queue)
    /\ UNCHANGED asleep

Leaves ==
    /\ chair # NoClient
    /\ chair' = NoClient
    /\ UNCHANGED <<queue, asleep>>

FallAsleep ==
    /\ ~asleep /\ chair = NoClient /\ queue = <<>>
    /\ asleep' = TRUE
    /\ UNCHANGED <<queue, chair>>

ShopNext ==
    \/ \E c \in Clients : Arrive(c) \/ WakeUp(c)
    \/ CallNext \/ Leaves \/ FallAsleep

ShopSpec == ShopInit /\ [][ShopNext]_bvars
=============================================================================

--------------------------- MODULE SleepingBarber ---------------------------
(***************************************************************************)
(* "cw07 - semafory i smh/task1": a barber process and its client          *)
(* processes, with five System V semaphores and one shared memory segment. *)
(*                                                                         *)
(* sem[0] is the lock of the shared memory, free at 0: it is taken with    *)
(* one semop that waits for 0 and adds 1 (semaphore_op2).  sem[1] to       *)
(* sem[3] carry the meeting of the barber and the client he serves, sem[4] *)
(* is 1 while the barber sleeps.                                           *)
(*                                                                         *)
(* Grain.  An action is one semop with the memory accesses that follow it  *)
(* up to the next one: these are made under sem[0], or on memory that only *)
(* the barber and the client he serves look at in between.  The client's   *)
(* wait for NEXT is a busy loop and an action of its own.                  *)
(*                                                                         *)
(* task2 is the same program over five named POSIX semaphores, the         *)
(* operations turned round (see below): Posix chooses between them, and    *)
(* SleepingBarberPosix adds how task2 starts and ends.                     *)
(***************************************************************************)
EXTENDS Naturals, Sequences, FiniteSets

CONSTANTS
    Clients,        \* the client processes
    NoClient,       \* the 0 in a cell that names no client
    Cuts,           \* haircuts each client wants (cuts_n)
    Chairs,         \* chairs in the waiting room (m_pointer[CHAIRS])
    FifoLen,        \* FIFO_END - FIFO_START cells of the queue
    Posix           \* the POSIX version, task2

ASSUME ClientsAssumption == /\ IsFiniteSet(Clients) /\ Clients # {}
                            /\ NoClient \notin Clients
ASSUME CountsAssumption  == /\ Cuts \in Nat
                            /\ Chairs \in Nat /\ FifoLen \in Nat
ASSUME PosixAssumption   == Posix \in BOOLEAN

(* The segment is a whole number of pages, so the cells behind FIFO_END    *)
(* that a queue of at most Chairs clients can reach exist.                 *)
Cells == 0 .. FifoLen + Chairs

VARIABLES
    sem,            \* the five semaphores
    SLEEPY,         \* m_pointer[SLEEPY_OLD_MAN]
    TAKEN,          \* m_pointer[CHAIRS_TAKEN]
    GHOST,          \* m_pointer[GHOST_CHAIR]
    WAKER,          \* m_pointer[WAKER]
    NEXT,           \* m_pointer[NEXT]
    FIFO,           \* m_pointer[FIFO_START ...]
    bpc,            \* where the barber is
    client_number,  \* whom the barber serves
    cpc,            \* where each client is
    place,          \* i, the cell each client took
    done            \* haircuts each client has had

memory == <<SLEEPY, TAKEN, GHOST, WAKER, NEXT, FIFO>>
bvars  == <<bpc, client_number>>
cvars  == <<cpc, place, done>>
vars   == <<sem, memory, bvars, cvars>>

BarberPCs == {"check", "doze", "doze_unlock", "asleep", "unlock", "invite",
              "meet", "seat", "cut", "cut_end", "last", "goodbye"}
ClientPCs == {"enter", "no_seat", "seated", "waiting", "rise", "rise_2",
              "rise_unlock", "greet", "wake", "wake_4", "wake_unlock",
              "wake_wait", "wake_2", "hair_1", "hair_2", "hair_3", "hair_4",
              "done"}

TypeOK ==
    /\ sem \in [0 .. 4 -> Nat]
    /\ SLEEPY \in {0, 1} /\ TAKEN \in Nat /\ GHOST \in Nat
    /\ WAKER \in Clients \cup {NoClient} /\ NEXT \in Clients \cup {NoClient}
    /\ FIFO \in [Cells -> Clients \cup {NoClient}]
    /\ bpc \in BarberPCs /\ client_number \in Clients \cup {NoClient}
    /\ cpc \in [Clients -> ClientPCs]
    /\ place \in [Clients -> Cells] /\ done \in [Clients -> 0 .. Cuts]

Init ==
    /\ sem = [s \in 0 .. 4 |-> IF Posix THEN 1 ELSE 0]
    /\ SLEEPY = 0 /\ TAKEN = 0 /\ GHOST = 0
    /\ WAKER = NoClient /\ NEXT = NoClient
    /\ FIFO = [i \in Cells |-> NoClient]
    /\ bpc = "check" /\ client_number = NoClient
    /\ cpc = [c \in Clients |-> IF Cuts = 0 THEN "done" ELSE "enter"]
    /\ place = [c \in Clients |-> 0] /\ done = [c \in Clients |-> 0]

-----------------------------------------------------------------------------
(* The operations on one semaphore.  semop adds, subtracts and waits for   *)
(* 0.  task2 starts its semaphores at 1 and has sem_wait where semop adds, *)
(* sem_post, which never waits, where it subtracts, and a busy loop until  *)
(* the value is positive where it waits for 0.  Its semaphore_op2(0, 1, s) *)
(* is that loop and then sem_wait: whoever comes in between only makes     *)
(* sem_wait wait, as it would without the loop.                            *)

sem_wait(s) == sem[s] > 0 /\ sem' = [sem EXCEPT ![s] = @ - 1]
sem_post(s) == sem' = [sem EXCEPT ![s] = @ + 1]
SpinUntilFree(s) == sem[s] > 0 /\ UNCHANGED sem

(* Mutant: semaphore_op2 polls and does not take the semaphore.            *)
PollOnly(s) == SpinUntilFree(s)

PollAndWait(s) == sem_wait(s)

Add(s)      == IF Posix THEN sem_wait(s) ELSE sem' = [sem EXCEPT ![s] = @ + 1]
Subtract(s) == IF Posix THEN sem_post(s)
                        ELSE sem[s] > 0 /\ sem' = [sem EXCEPT ![s] = @ - 1]
WaitZero(s) == IF Posix THEN SpinUntilFree(s) ELSE sem[s] = 0 /\ UNCHANGED sem
WaitZeroAdd(s) ==
    IF Posix THEN PollAndWait(s)
             ELSE sem[s] = 0 /\ sem' = [sem EXCEPT ![s] = @ + 1]

-----------------------------------------------------------------------------
(* The barber.                                                             *)

BStep(from, to) == bpc = from /\ bpc' = to

(* Mutant: the scan starts at the second cell.                             *)
FirstInUseFrom1 ==
    CHOOSE i \in 1 .. FifoLen :
        /\ i < FifoLen => FIFO[i] # NoClient
        /\ \A j \in 1 .. i - 1 : FIFO[j] = NoClient

(* The first cell in use, or the one behind the queue if there is none.    *)
FirstInUse ==
    CHOOSE i \in 0 .. FifoLen :
        /\ i < FifoLen => FIFO[i] # NoClient
        /\ \A j \in 0 .. i - 1 : FIFO[j] = NoClient

NobodyWaits == TAKEN = 0 /\ GHOST = 0

CheckSleep ==
    /\ BStep("check", "doze")
    /\ WaitZeroAdd(0)
    /\ NobodyWaits
    /\ SLEEPY' = 1
    /\ UNCHANGED <<TAKEN, GHOST, WAKER, NEXT, FIFO, client_number, cvars>>

CheckNext ==
    /\ BStep("check", "unlock")
    /\ WaitZeroAdd(0)
    /\ ~NobodyWaits
    /\ client_number' = FIFO[FirstInUse]
    /\ UNCHANGED <<memory, cvars>>

Doze ==
    /\ BStep("doze", "doze_unlock")
    /\ Add(4)
    /\ UNCHANGED <<memory, client_number, cvars>>

DozeUnlock ==
    /\ BStep("doze_unlock", "asleep")
    /\ Subtract(0)
    /\ UNCHANGED <<memory, client_number, cvars>>

(* Mutant: the barber does not wait for sem[4].                            *)
LightSleep ==
    /\ BStep("asleep", "invite")
    /\ client_number' = WAKER
    /\ UNCHANGED <<sem, memory, cvars>>

WokenUp ==
    /\ BStep("asleep", "invite")
    /\ WaitZero(4)
    /\ client_number' = WAKER
    /\ UNCHANGED <<memory, cvars>>

UnlockNext ==
    /\ BStep("unlock", "invite")
    /\ Subtract(0)
    /\ UNCHANGED <<memory, client_number, cvars>>

Invite ==
    /\ BStep("invite", "meet")
    /\ Add(1)
    /\ NEXT' = client_number
    /\ UNCHANGED <<SLEEPY, TAKEN, GHOST, WAKER, FIFO, client_number, cvars>>

Meet ==
    /\ BStep("meet", "seat")
    /\ Subtract(3)
    /\ UNCHANGED <<memory, client_number, cvars>>

Seat ==
    /\ BStep("seat", "cut")
    /\ WaitZero(1)
    /\ NEXT' = NoClient
    /\ UNCHANGED <<SLEEPY, TAKEN, GHOST, WAKER, FIFO, client_number, cvars>>

(* Mutant: the barber lets go of the client before the haircut as well.    *)
BeginCutTwice ==
    /\ BStep("cut", "cut_end")
    /\ sem' = [sem EXCEPT ![2] = @ + 2]
    /\ UNCHANGED <<memory, client_number, cvars>>

BeginCut ==
    /\ BStep("cut", "cut_end")
    /\ Subtract(2)
    /\ UNCHANGED <<memory, client_number, cvars>>

EndCut ==
    /\ BStep("cut_end", "last")
    /\ Add(1)
    /\ UNCHANGED <<memory, client_number, cvars>>

LastMeet ==
    /\ BStep("last", "goodbye")
    /\ Subtract(2)
    /\ UNCHANGED <<memory, client_number, cvars>>

Goodbye ==
    /\ BStep("goodbye", "check")
    /\ WaitZero(1)
    /\ UNCHANGED <<memory, client_number, cvars>>

HaircutTime ==
    Invite \/ Meet \/ Seat \/ BeginCut \/ EndCut \/ LastMeet \/ Goodbye

Barber ==
    \/ CheckSleep \/ Doze \/ DozeUnlock \/ WokenUp
    \/ CheckNext \/ UnlockNext
    \/ HaircutTime

-----------------------------------------------------------------------------
(* The clients.                                                            *)

CStep(c, from, to) == cpc[c] = from /\ cpc' = [cpc EXCEPT ![c] = to]

InUse == {i \in Cells : FIFO[i] # NoClient}

(* Where the loop over FIFO stops after taken chairs have been counted:    *)
(* at a free cell of the queue, or any cell behind it, with every other    *)
(* client of the waiting room in front.                                    *)
FreePlace(i) ==
    /\ i < FifoLen => FIFO[i] = NoClient
    /\ Cardinality({j \in InUse : j < i}) >= TAKEN

(* Mutants: the first free cell, and a search that starts at cell 1.       *)
FirstFreeCell ==
    CHOOSE i \in Cells : /\ FIFO[i] = NoClient
                         /\ \A j \in 0 .. i - 1 : FIFO[j] # NoClient

PlaceFrom1 ==
    CHOOSE i \in Cells : /\ i > 0 /\ FreePlace(i)
                         /\ \A j \in 1 .. i - 1 : ~FreePlace(j)

(* task2's loop ends at the end of the queue in any case, whoever is in    *)
(* the cell behind it.                                                     *)
StopsAt(i) == FreePlace(i) \/ (Posix /\ i = FifoLen)

PlaceOf ==
    CHOOSE i \in Cells : StopsAt(i) /\ \A j \in 0 .. i - 1 : ~StopsAt(j)

Sit(c) ==
    /\ CStep(c, "enter", "seated")
    /\ WaitZeroAdd(0)
    /\ SLEEPY = 0
    /\ TAKEN < Chairs
    /\ TAKEN' = TAKEN + 1
    /\ place' = [place EXCEPT ![c] = PlaceOf]
    /\ FIFO' = [FIFO EXCEPT ![PlaceOf] = c]
    /\ UNCHANGED <<SLEEPY, GHOST, WAKER, NEXT, bvars, done>>

NoSeat(c) ==
    /\ CStep(c, "enter", "no_seat")
    /\ WaitZeroAdd(0)
    /\ SLEEPY = 0
    /\ TAKEN >= Chairs
    /\ UNCHANGED <<memory, bvars, place, done>>

(* Mutant: a client without a seat keeps the lock.                         *)
TryAgainLocked(c) ==
    /\ CStep(c, "no_seat", "enter")
    /\ UNCHANGED <<sem, memory, bvars, place, done>>

TryAgain(c) ==
    /\ CStep(c, "no_seat", "enter")
    /\ Subtract(0)
    /\ UNCHANGED <<memory, bvars, place, done>>

Seated(c) ==
    /\ CStep(c, "seated", "waiting")
    /\ Subtract(0)
    /\ UNCHANGED <<memory, bvars, place, done>>

(* Mutant: the ghost chair is not counted up.                              *)
CalledNoGhost(c) ==
    /\ CStep(c, "waiting", "rise")
    /\ NEXT = c
    /\ UNCHANGED <<sem, memory, bvars, place, done>>

Called(c) ==
    /\ CStep(c, "waiting", "rise")
    /\ NEXT = c
    /\ GHOST' = GHOST + 1
    /\ UNCHANGED <<sem, SLEEPY, TAKEN, WAKER, NEXT, FIFO, bvars, place, done>>

Rise(c) ==
    /\ CStep(c, "rise", "rise_2")
    /\ WaitZeroAdd(0)
    /\ UNCHANGED <<memory, bvars, place, done>>

(* Mutant: the cell of the queue is not cleared.                           *)
LeaveSeatInUse(c) ==
    /\ CStep(c, "rise_2", "rise_unlock")
    /\ WaitZeroAdd(2)
    /\ GHOST' = GHOST - 1
    /\ TAKEN' = TAKEN - 1
    /\ UNCHANGED <<SLEEPY, FIFO, WAKER, NEXT, bvars, place, done>>

LeaveSeat(c) ==
    /\ CStep(c, "rise_2", "rise_unlock")
    /\ WaitZeroAdd(2)
    /\ GHOST' = GHOST - 1
    /\ TAKEN' = TAKEN - 1
    /\ FIFO' = [FIFO EXCEPT ![place[c]] = NoClient]
    /\ UNCHANGED <<SLEEPY, WAKER, NEXT, bvars, place, done>>

RiseUnlock(c) ==
    /\ CStep(c, "rise_unlock", "greet")
    /\ Subtract(0)
    /\ UNCHANGED <<memory, bvars, place, done>>

Greet(c) ==
    /\ CStep(c, "greet", "hair_1")
    /\ Add(3)
    /\ UNCHANGED <<memory, bvars, place, done>>

Wake(c) ==
    /\ CStep(c, "enter", "wake")
    /\ WaitZeroAdd(0)
    /\ SLEEPY = 1
    /\ SLEEPY' = 0
    /\ WAKER' = c
    /\ UNCHANGED <<TAKEN, GHOST, NEXT, FIFO, bvars, place, done>>

WakeGreet(c) ==
    /\ CStep(c, "wake", "wake_4")
    /\ Add(3)
    /\ UNCHANGED <<memory, bvars, place, done>>

WakeBarber(c) ==
    /\ CStep(c, "wake_4", "wake_unlock")
    /\ Subtract(4)
    /\ UNCHANGED <<memory, bvars, place, done>>

WakeUnlock(c) ==
    /\ CStep(c, "wake_unlock", "wake_wait")
    /\ Subtract(0)
    /\ UNCHANGED <<memory, bvars, place, done>>

WakeWait(c) ==
    /\ CStep(c, "wake_wait", "wake_2")
    /\ WaitZero(3)
    /\ UNCHANGED <<memory, bvars, place, done>>

WakeSit(c) ==
    /\ CStep(c, "wake_2", "hair_1")
    /\ WaitZeroAdd(2)
    /\ UNCHANGED <<memory, bvars, place, done>>

HairBegin(c) ==
    /\ CStep(c, "hair_1", "hair_2")
    /\ Subtract(1)
    /\ UNCHANGED <<memory, bvars, place, done>>

HairTaken(c) ==
    /\ CStep(c, "hair_2", "hair_3")
    /\ WaitZeroAdd(2)
    /\ UNCHANGED <<memory, bvars, place, done>>

HairEnd(c) ==
    /\ CStep(c, "hair_3", "hair_4")
    /\ WaitZero(2)
    /\ UNCHANGED <<memory, bvars, place, done>>

(* done is the client's own; a client who woke the barber has counted this *)
(* haircut earlier, and looks at done only here, on its way round the loop.*)
LeaveShop(c) ==
    /\ CStep(c, "hair_4", IF done[c] + 1 < Cuts THEN "enter" ELSE "done")
    /\ Subtract(1)
    /\ done' = [done EXCEPT ![c] = @ + 1]
    /\ UNCHANGED <<memory, bvars, place>>

Enter(c) == Sit(c) \/ NoSeat(c) \/ Wake(c)

ClientRest(c) ==
    \/ TryAgain(c) \/ Seated(c) \/ Called(c) \/ LeaveSeat(c)
    \/ RiseUnlock(c) \/ Greet(c)
    \/ WakeGreet(c) \/ WakeBarber(c) \/ WakeUnlock(c) \/ WakeWait(c)
    \/ WakeSit(c)
    \/ HairBegin(c) \/ HairTaken(c) \/ HairEnd(c) \/ LeaveShop(c)

Client(c) == Enter(c) \/ Rise(c) \/ ClientRest(c)

(* The children are gone, the parent returns, and the barber sleeps on.    *)
Closed ==
    /\ \A c \in Clients : cpc[c] = "done"
    /\ bpc = "asleep" /\ sem[4] > 0
    /\ UNCHANGED vars

Next == Barber \/ (\E c \in Clients : Client(c)) \/ Closed

Spec == Init /\ [][Next]_vars

(* Linux hands a System V semaphore to the sleepers in the order in which  *)
(* they called semop, so nobody is overtaken for ever at sem[0]: strong    *)
(* fairness for the steps that take it.  Everything else has one waiter,   *)
(* or is a busy loop that the scheduler runs: weak fairness.               *)
Fairness ==
    /\ WF_vars(Barber)
    /\ SF_vars(CheckSleep \/ CheckNext)
    /\ \A c \in Clients : /\ WF_vars(ClientRest(c))
                          /\ SF_vars(Rise(c))
                          /\ SF_vars(Enter(c))

FairSpec == Spec /\ Fairness

-----------------------------------------------------------------------------
(* Properties.                                                             *)

(* Everybody gets the haircuts he came for, whoever wakes the barber and   *)
(* however often there is no seat (clients.c:97-171).                      *)
EveryoneIsServed == <>(\A c \in Clients : done[c] = Cuts)

(* The barber and the client in the chair belong together: there is one    *)
(* such client at a time, and it is the one he has invited (barber.c:31-56 *)
(* and clients.c:18-31).                                                   *)
InChair == {c \in Clients : cpc[c] \in
               {"rise", "rise_2", "rise_unlock", "greet", "wake", "wake_4",
                "wake_unlock", "wake_wait", "wake_2",
                "hair_1", "hair_2", "hair_3", "hair_4"}}

OneInChair ==
    /\ \A c, d \in InChair : c = d
    /\ \A c \in InChair :
           bpc \in {"check", "doze", "doze_unlock", "asleep"}
               \/ client_number = c

(* The books of the waiting room agree whenever nobody is changing them:   *)
(* CHAIRS_TAKEN counts the clients in the queue, each in the cell it took, *)
(* and when the barber looks, nobody is still on the way from a chair to   *)
(* him (GHOST_CHAIR, barber.c:124), so an empty room is really empty and   *)
(* no second client gets to the chair (OneInChair).                        *)
Waiting == {c \in Clients : cpc[c] \in {"seated", "waiting", "rise", "rise_2"}}

RoomIsConsistent ==
    /\ TAKEN = Cardinality(Waiting)
    /\ TAKEN = Cardinality(InUse)
    /\ \A c \in Waiting : FIFO[place[c]] = c
    /\ bpc = "check" => GHOST = 0
    /\ OneInChair

(* The queue creeps by at most one cell per seating: a cell in use is      *)
(* behind no more than the haircuts given so far and the clients in the    *)
(* shop, so a shop of at most FIFO_END - FIFO_START = 2550 haircuts never  *)
(* reaches the end of the queue (clients.c:107-114).                       *)
HaircutsGiven == Cardinality({h \in Clients \X (1 .. Cuts) : h[2] <= done[h[1]]})
InShop        == Cardinality(Waiting \cup InChair)

PlacesAreBounded == \A i \in InUse : i < HaircutsGiven + InShop

(* The shop is first come, first served (see BarberShop).                  *)
NthCell(I, n) == CHOOSE i \in I : Cardinality({j \in I : j < i}) = n - 1

QueueOrder == [n \in 1 .. Cardinality(InUse) |-> FIFO[NthCell(InUse, n)]]

ChairOf == IF \E c \in InChair : c \notin Waiting
           THEN CHOOSE c \in InChair : c \notin Waiting
           ELSE NoClient

Shop == INSTANCE BarberShop WITH
            queue <- QueueOrder, chair <- ChairOf, asleep <- SLEEPY = 1

ShopRefinement == Shop!ShopSpec
=============================================================================

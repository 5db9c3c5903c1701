------------------------ MODULE SleepingBarberPosix ------------------------
(***************************************************************************)
(* "cw07 - semafory i smh/task2": the barber's shop over named POSIX       *)
(* semaphores and POSIX shared memory.  The shop itself is SleepingBarber  *)
(* with Posix = TRUE; this module adds                                     *)
(*   - the start: barber creates the shared memory and his semaphores one  *)
(*     after the other, and a client program started meanwhile opens them  *)
(*     one after the other, each if it exists by then.  It does not look   *)
(*     at what sem_open returned, and a client that uses a semaphore it    *)
(*     has not got is killed by the fault;                                 *)
(*   - Ctrl-C: the barber removes the names and exits, with his clients    *)
(*     still attached, and a client exits wherever it is.  A second barber *)
(*     stops at shm_open with O_EXCL, but a Ctrl-C before that makes it    *)
(*     remove the names of the first.                                      *)
(***************************************************************************)
EXTENDS SleepingBarber

CONSTANT MaxKilled      \* clients that may be interrupted

ASSUME KilledAssumption == MaxKilled \in Nat

VARIABLES
    made,       \* steps of the barber's start done, 0 to Ready
    gone,       \* the barber has been interrupted
    cleared,    \* made, when a second barber was last interrupted
    program,    \* "off", "opening", "running" or "refused": the clients'
    tried,      \* how many of the five semaphores it has tried to open
    opened,     \* the semaphores it has got
    killed,     \* clients that were interrupted
    crashed     \* clients that used a semaphore they had not got

starts  == <<made, gone, cleared, program, tried, opened, killed, crashed>>
clients == <<program, tried, opened, killed, crashed>>
allvars == <<vars, starts>>

Semaphores == 0 .. 4

(* shm_open, five sem_open, and m_pointer[CHAIRS] = chairs.                *)
Ready == 7

PosixInit ==
    /\ Init
    /\ made = 0 /\ gone = FALSE /\ cleared = 0
    /\ program = "off" /\ tried = 0 /\ opened = {}
    /\ killed = {} /\ crashed = {}

-----------------------------------------------------------------------------
(* The barber.                                                             *)

(* Fresh shared memory is zero, and the semaphores are created at 1, which *)
(* is Init: until Ready the segment says that there are no chairs.         *)
MakeNext ==
    /\ ~gone /\ made < Ready
    /\ made' = made + 1
    /\ UNCHANGED <<vars, gone, cleared, clients>>

BarberLoop == CheckSleep \/ Doze \/ DozeUnlock \/ WokenUp \/ CheckNext \/ UnlockNext

BarberHaircut ==
    Invite \/ Meet \/ Seat \/ BeginCut \/ EndCut \/ LastMeet \/ Goodbye

BarberProcess ==
    /\ ~gone /\ made = Ready
    /\ BarberLoop \/ BarberHaircut
    /\ UNCHANGED starts

(* finish and clean: the names go, but not what the clients have mapped.   *)
BarberInterrupted ==
    /\ ~gone /\ made > 0
    /\ gone' = TRUE
    /\ UNCHANGED <<vars, made, cleared, clients>>

(* The clean of a second barber, before its shm_open: it has nothing to    *)
(* unmap or close, and unlinks what the first has made so far.             *)
SecondInterrupted ==
    /\ ~gone /\ cleared < made
    /\ cleared' = made
    /\ UNCHANGED <<vars, made, gone, clients>>

-----------------------------------------------------------------------------
(* The clients.                                                            *)

(* What step n of the barber's start creates is there after it, but may    *)
(* have been unlinked since: a clean takes its time, and clients may come  *)
(* before, during or after it.  Step 1 is shm_open, and step s + 2 the     *)
(* sem_open of semaphore s.                                                *)
Made(n) == n <= made
MayBeMissing(n) == ~Made(n) \/ gone \/ n <= cleared

Refused ==
    /\ program = "off"
    /\ MayBeMissing(1)
    /\ program' = "refused"
    /\ UNCHANGED <<vars, made, gone, cleared, tried, opened, killed, crashed>>

Attach ==
    /\ program = "off"
    /\ Made(1)
    /\ program' = "opening"
    /\ UNCHANGED <<vars, made, gone, cleared, tried, opened, killed, crashed>>

OpenNext ==
    /\ program = "opening"
    /\ \/ Made(tried + 2) /\ opened' = opened \cup {tried}
       \/ MayBeMissing(tried + 2) /\ UNCHANGED opened
    /\ tried' = tried + 1
    /\ program' = IF tried' = 5 THEN "running" ELSE "opening"
    /\ UNCHANGED <<vars, made, gone, cleared, killed, crashed>>

(* The semaphore a client uses next, or 5 for none.                        *)
SemaphoreOf(c) ==
    CASE cpc[c] \in {"enter", "no_seat", "seated", "rise", "rise_unlock",
                     "wake_unlock"} -> 0
      [] cpc[c] \in {"hair_1", "hair_4"} -> 1
      [] cpc[c] \in {"rise_2", "wake_2", "hair_2", "hair_3"} -> 2
      [] cpc[c] \in {"greet", "wake", "wake_wait"} -> 3
      [] cpc[c] = "wake_4" -> 4
      [] OTHER -> 5

Alive(c) == program = "running" /\ c \notin killed \cup crashed

(* The barber has not yet said how many chairs there are.                  *)
NoChairsYet(c) ==
    /\ CStep(c, "enter", "no_seat")
    /\ WaitZeroAdd(0)
    /\ UNCHANGED <<memory, bvars, place, done>>

ClientLoop(c) ==
    \/ Sit(c) \/ Seated(c) \/ Called(c) \/ Rise(c) \/ LeaveSeat(c)
    \/ RiseUnlock(c) \/ Greet(c)
    \/ NoSeat(c) \/ TryAgain(c)
    \/ Wake(c) \/ WakeGreet(c) \/ WakeBarber(c) \/ WakeUnlock(c)
    \/ WakeWait(c) \/ WakeSit(c)

ClientHaircut(c) == HairBegin(c) \/ HairTaken(c) \/ HairEnd(c) \/ LeaveShop(c)

ClientProcess(c) ==
    /\ Alive(c)
    /\ SemaphoreOf(c) \in Semaphores => SemaphoreOf(c) \in opened
    /\ IF made < Ready THEN NoChairsYet(c) \/ TryAgain(c)
                       ELSE ClientLoop(c) \/ ClientHaircut(c)
    /\ UNCHANGED starts

Fault(c) ==
    /\ Alive(c)
    /\ SemaphoreOf(c) \in Semaphores \ opened
    /\ crashed' = crashed \cup {c}
    /\ UNCHANGED <<vars, made, gone, cleared, program, tried, opened, killed>>

ClientInterrupted(c) ==
    /\ Alive(c)
    /\ cpc[c] # "done" /\ Cardinality(killed) < MaxKilled
    /\ killed' = killed \cup {c}
    /\ UNCHANGED <<vars, made, gone, cleared, program, tried, opened, crashed>>

-----------------------------------------------------------------------------
(* A client who sits in the waiting room and is not in the queue: another  *)
(* has sat down in the cell behind the end of the queue.                   *)
Lost == {c \in Waiting : FIFO[place[c]] # c}

(* The shop may stand still when everybody has gone, and when the barber   *)
(* or a client was killed, or a client lost, on whom others wait.  A       *)
(* client killed at the door or in the no_seat branch's printf is not such *)
(* a reason.  The deadlock check shows that there is no other.             *)
Standstill ==
    /\ \/ \A c \in Clients : cpc[c] = "done" \/ c \in killed \cup crashed
       \/ gone \/ program = "refused" \/ Lost # {}
       \/ \E c \in killed : cpc[c] # "enter"
       \/ crashed # {}
    /\ UNCHANGED allvars

PosixNext ==
    \/ MakeNext \/ BarberProcess \/ BarberInterrupted \/ SecondInterrupted
    \/ Refused \/ Attach \/ OpenNext
    \/ \E c \in Clients :
           ClientProcess(c) \/ Fault(c) \/ ClientInterrupted(c)
    \/ Standstill

PosixSpec == PosixInit /\ [][PosixNext]_allvars

-----------------------------------------------------------------------------
(* Properties.                                                             *)

(* A client goes home only from a finished haircut, his own, and not when  *)
(* the barber was interrupted in the middle of it, although sem_post never *)
(* waits for the other side (barber.c:41-66, clients.c:23-35).             *)
NobodyLeavesHalfCut ==
    [][\A c \in Clients : done'[c] # done[c]
           => bpc = "goodbye" /\ client_number = c]_allvars

(* As long as nobody was lost the shop is first come, first served, under  *)
(* every fault of this module (see BarberShop).                            *)
ShopUntilALoss ==
    [][Shop!ShopNext \/ Lost # {} \/ Lost' # {}]_(Shop!bvars)

(* The barber invites nobody, and so waits for ever, only when somebody    *)
(* sits in the waiting room whose number another has overwritten: the      *)
(* cell behind the queue is the only one used twice (clients.c:116-124,    *)
(* barber.c:158-162).                                                      *)
EmptyInvitationMeansLoss ==
    bpc \in {"unlock", "invite", "meet", "seat", "cut", "cut_end", "last"}
        /\ client_number = NoClient
    => \E c \in Lost : place[c] = FifoLen

(* The five sem_opens of the clients race with the barber's, so they may   *)
(* have got any of the semaphores (clients.c:81-85, barber.c:116-120).     *)
(* Who has not got 0, 3 and 4 does not wake a sleeping barber.  Who has    *)
(* may wake him, but if it lacks 1 or 2 it faults on its way to the chair  *)
(* (clients.c:169-176 and 23-35): he waits for it for ever, and never      *)
(* begins to cut anybody who has not got 0 to 3.                           *)
EarlyClientsAreNotCut ==
    [][/\ bpc = "asleep" /\ bpc' # "asleep" => {0, 3, 4} \subseteq opened
       /\ bpc # "cut" /\ bpc' = "cut" => {0, 1, 2, 3} \subseteq opened
      ]_allvars
=============================================================================

------------------------ MODULE SleepingBarberProofs ------------------------
(***************************************************************************)
(* Proofs about the barber's shop of cw07, for every number of clients,    *)
(* haircuts, chairs and cells of the queue.  Theorems that assume ~Posix   *)
(* are about SleepingBarber as task1 runs it; those that assume Posix are  *)
(* about task2, SleepingBarberPosix, with its start, faults and Ctrl-C.    *)
(***************************************************************************)
EXTENDS SleepingBarberPosix, FiniteSetTheorems, SequenceTheorems,
        WellFoundedInduction, TLAPS

-----------------------------------------------------------------------------
(* The inductive invariant.                                                *)

(* sem[0] is a lock: who is between taking and giving it back is alone.    *)
BarberHolds == bpc \in {"doze", "doze_unlock", "unlock"}
Holds(c)    == cpc[c] \in {"no_seat", "seated", "rise_2", "rise_unlock",
                           "wake", "wake_4", "wake_unlock"}

LockInv ==
    /\ sem[0] \in {0, 1}
    /\ BarberHolds => sem[0] = 1
    /\ \A c \in Clients : Holds(c) => sem[0] = 1 /\ ~BarberHolds
    /\ \A c, d \in Clients : Holds(c) /\ Holds(d) => c = d

(* The meeting.  k is the client in the chair, or on the way there, if     *)
(* there is one; Partner(k) is where it is.  Each place of the barber goes *)
(* with some places of the client, and the four semaphores are determined  *)
(* by the two.                                                             *)
ChairPCs == {"rise", "rise_2", "rise_unlock", "greet", "wake", "wake_4",
             "wake_unlock", "wake_wait", "wake_2",
             "hair_1", "hair_2", "hair_3", "hair_4"}

Partner(k) == IF k \in Clients THEN cpc[k] ELSE "nobody"

GoesWith(b, p) ==
    \/ b \in {"check", "doze", "doze_unlock", "unlock"} /\ p = "nobody"
    \/ b = "asleep"
         /\ p \in {"nobody", "wake", "wake_4", "wake_unlock", "wake_wait"}
    \/ b = "invite" /\ p \in {"nobody", "wake_unlock", "wake_wait"}
    \/ b = "meet" /\ p \in {"nobody", "rise", "rise_2", "rise_unlock", "greet",
                            "hair_1", "hair_2", "wake_unlock", "wake_wait"}
    \/ b = "seat" /\ p \in {"hair_1", "hair_2", "wake_unlock", "wake_wait",
                            "wake_2"}
    \/ b = "cut" /\ p = "hair_2"
    \/ b \in {"cut_end", "last"} /\ p \in {"hair_2", "hair_3"}
    \/ b = "goodbye" /\ p \in {"hair_3", "hair_4", "nobody"}

Sem1(b, p) == \/ b \in {"meet", "seat"} /\ p # "hair_2"
              \/ b = "last"
              \/ b = "goodbye" /\ p # "nobody"
Sem2(b, p) == \/ p \in {"rise_unlock", "greet", "hair_1"}
              \/ p = "hair_2" /\ b \in {"meet", "seat", "cut"}
              \/ p = "hair_3" /\ b \in {"cut_end", "last"}
Sem3(b, p) == \/ /\ p \in {"wake_4", "wake_unlock", "wake_wait"}
                 /\ b \in {"asleep", "invite", "meet"}
              \/ p \in {"hair_1", "hair_2"} /\ b = "meet"
Sem4(b, p) == b \in {"doze_unlock", "asleep"}
                /\ p \notin {"wake_unlock", "wake_wait"}

Bit(condition) == IF condition THEN 1 ELSE 0

Meeting(k) ==
    /\ \A c \in Clients : cpc[c] \in ChairPCs <=> c = k
    /\ GoesWith(bpc, Partner(k))
    /\ sem[1] = Bit(Sem1(bpc, Partner(k)))
    /\ sem[2] = Bit(Sem2(bpc, Partner(k)))
    /\ sem[3] = Bit(Sem3(bpc, Partner(k)))
    /\ sem[4] = Bit(Sem4(bpc, Partner(k)))
    /\ k \in Clients => IF bpc = "asleep" THEN WAKER = k
                                          ELSE client_number = k
    /\ NEXT = IF bpc \in {"meet", "seat"} THEN client_number ELSE NoClient
    /\ SLEEPY = Bit(\/ bpc \in {"doze", "doze_unlock"}
                    \/ bpc = "asleep" /\ k \notin Clients)
    /\ GHOST = Bit(Partner(k) \in {"rise", "rise_2"})

MeetingInv == \E k \in Clients \cup {NoClient} : Meeting(k)

(* The waiting room: each client in his cell and each cell in use his, no  *)
(* gap among the cells behind the queue, and the client who is called sits *)
(* in the first cell in use.                                               *)
SomebodyCalled ==
    /\ bpc \in {"unlock", "invite", "meet"}
    /\ client_number # NoClient
    /\ client_number \in InChair => client_number \in Waiting

RoomInv ==
    /\ \A c \in Waiting : FIFO[place[c]] = c
    /\ \A i \in InUse : FIFO[i] \in Waiting /\ place[FIFO[i]] = i
    /\ TAKEN = Cardinality(Waiting)
    /\ TAKEN = Cardinality(InUse)
    /\ TAKEN <= Chairs
    /\ \A i \in InUse : \A j \in FifoLen + 1 .. i : j \in InUse
    /\ SomebodyCalled => /\ client_number \in Waiting
                  /\ place[client_number] <= FifoLen
                  /\ \A i \in InUse : place[client_number] <= i

(* Who has not gone home still wants a haircut.                            *)
WantsMore == \A c \in Clients : cpc[c] = "done" \/ done[c] < Cuts

IInv == TypeOK /\ LockInv /\ MeetingInv /\ RoomInv /\ WantsMore

-----------------------------------------------------------------------------
(* The scans over the queue find what they look for.                       *)

(* Every nonempty set of naturals has a least element.                     *)
LEMMA LeastElement ==
  ASSUME NEW T \in SUBSET Nat, T # {}
  PROVE  \E m \in T : \A n \in T : m <= n
<1> DEFINE R == StrictSubsetOrdering(Nat)
           U == {0 .. n : n \in T}
<1>1. IsWellFoundedOn(R, FiniteSubsetsOf(Nat))
  BY FS_StrictSubsetOrderingWellFounded
<1>2. U \subseteq FiniteSubsetsOf(Nat) /\ U # {}
  <2>1. ASSUME NEW n \in T
        PROVE  IsFiniteSet(0 .. n) /\ 0 .. n \in SUBSET Nat
    BY FS_Interval
  <2> QED BY <2>1 DEF FiniteSubsetsOf
<1> HIDE DEF R
<1>3. \E x \in U : \A y \in U : ~ (<<y, x>> \in R)
  <2> HIDE DEF U
  <2> QED BY <1>1, <1>2, WFMin
<1>4. PICK m \in T : \A n \in T : <<0 .. n, 0 .. m>> \notin R
  BY <1>3
<1>5. ASSUME NEW n \in T, n < m
      PROVE  FALSE
  <2>1. 0 .. n \subseteq 0 .. m /\ 0 .. n # 0 .. m
    BY <1>5
  <2>2. 0 .. n \in SUBSET Nat /\ 0 .. m \in SUBSET Nat
    BY <1>5
  <2>3. <<0 .. n, 0 .. m>> \in R
    BY <2>1, <2>2 DEF R, StrictSubsetOrdering
  <2> QED BY <1>4, <2>3
<1> QED BY <1>5

LEMMA FirstInUseFacts ==
  ASSUME TypeOK
  PROVE  /\ FirstInUse \in 0 .. FifoLen
         /\ FirstInUse \in Cells
         /\ FirstInUse < FifoLen => FIFO[FirstInUse] # NoClient
         /\ \A j \in InUse : FirstInUse <= j
<1> DEFINE T == {i \in 0 .. FifoLen : i < FifoLen => FIFO[i] # NoClient}
           P(i) == /\ i < FifoLen => FIFO[i] # NoClient
                   /\ \A j \in 0 .. i - 1 : FIFO[j] = NoClient
<1>1. FifoLen \in T /\ T \in SUBSET Nat
  BY CountsAssumption
<1>2. PICK m \in T : \A n \in T : m <= n
  BY <1>1, LeastElement
<1>3. m \in 0 .. FifoLen /\ P(m)
  BY <1>2, CountsAssumption
<1>4. FirstInUse = CHOOSE i \in 0 .. FifoLen : P(i)
  BY DEF FirstInUse
<1>5. FirstInUse \in 0 .. FifoLen /\ P(FirstInUse)
  <2> HIDE DEF P
  <2> QED BY <1>3, <1>4
<1> QED BY <1>5, CountsAssumption DEF InUse, Cells

LEMMA FiniteRoom ==
  /\ IsFiniteSet(Waiting) /\ Cardinality(Waiting) \in Nat
  /\ IsFiniteSet(InUse) /\ Cardinality(InUse) \in Nat
  /\ IsFiniteSet(InChair)
<1>1. IsFiniteSet(Cells)
  BY FS_Interval, CountsAssumption DEF Cells
<1>2. Waiting \subseteq Clients /\ InUse \subseteq Cells /\ InChair \subseteq Clients
  BY DEF Waiting, InUse, InChair
<1> QED BY <1>1, <1>2, ClientsAssumption, FS_Subset, FS_CardinalityType

(* The cell behind the last one in use.                                    *)
LEMMA BehindTheLast ==
  \E u \in Nat : (\A j \in InUse : j < u) /\ (u = 0 \/ u - 1 \in InUse)
<1> USE CountsAssumption
<1>1. InUse \subseteq Cells /\ Cells \subseteq Nat
  BY DEF InUse, Cells
<1> DEFINE T == {u \in Nat : \A j \in InUse : j < u}
<1>2. FifoLen + Chairs + 1 \in T
  BY <1>1 DEF Cells
<1>3. PICK u \in T : \A n \in T : u <= n
  BY <1>2, LeastElement
<1>4. u # 0 => u - 1 \in InUse
  <2> SUFFICES ASSUME u # 0, u - 1 \notin InUse
               PROVE  FALSE
    OBVIOUS
  <2>1. \A j \in InUse : j < u - 1
    BY <1>1, <1>3
  <2>2. u - 1 \in T
    BY <2>1
  <2> QED BY <1>3, <2>2
<1> QED BY <1>3, <1>4

(* The loop of Sit stops at the first cell where it may stop.              *)
LEMMA PlaceIsFirst ==
  ASSUME NEW u \in Cells, StopsAt(u)
  PROVE  /\ PlaceOf \in Cells /\ StopsAt(PlaceOf) /\ PlaceOf <= u
         /\ \A j \in 0 .. PlaceOf - 1 : ~StopsAt(j)
<1> USE CountsAssumption
<1> DEFINE T == {i \in Cells : StopsAt(i)}
<1>1. T \in SUBSET Nat /\ u \in T
  BY DEF Cells
<1>2. PICK m \in T : \A n \in T : m <= n
  BY <1>1, LeastElement
<1>3. \A j \in 0 .. m - 1 : j \in Cells /\ ~(m <= j)
  BY <1>2 DEF Cells
<1>4. /\ PlaceOf \in Cells /\ StopsAt(PlaceOf)
      /\ \A j \in 0 .. PlaceOf - 1 : ~StopsAt(j)
  BY <1>2, <1>3 DEF PlaceOf
<1>5. PlaceOf <= u
  BY <1>1, <1>4 DEF Cells
<1> QED BY <1>4, <1>5

(* While there is a chair left the loop of Sit stops at the free cell      *)
(* behind the last one in use.                                             *)
LEMMA PlaceFacts ==
  ASSUME ~Posix, TypeOK, RoomInv, TAKEN < Chairs
  PROVE  /\ PlaceOf \in Cells
         /\ \A j \in InUse : j < PlaceOf
         /\ PlaceOf = 0 \/ PlaceOf - 1 \in InUse
<1> USE CountsAssumption
<1>a. TAKEN = Cardinality(InUse) /\ TAKEN \in Nat
  BY FiniteRoom DEF RoomInv
<1>b. InUse \subseteq Cells /\ Cells \subseteq Nat
  BY DEF InUse, Cells
<1>1. ASSUME NEW i \in Nat
      PROVE  Cardinality({j \in InUse : j < i}) >= TAKEN
             <=> \A j \in InUse : j < i
  <2> DEFINE B == {j \in InUse : j < i}
  <2>1. B \in SUBSET InUse
    OBVIOUS
  <2>2. /\ Cardinality(B) <= Cardinality(InUse) /\ Cardinality(B) \in Nat
        /\ Cardinality(InUse) = Cardinality(B) => InUse = B
    BY <2>1, FiniteRoom, FS_Subset, FS_CardinalityType
  <2>3. (\A j \in InUse : j < i) <=> B = InUse
    OBVIOUS
  <2> HIDE DEF B
  <2> QED BY <1>a, <2>2, <2>3 DEF B
<1>2. PICK u \in Nat : /\ \A j \in InUse : j < u
                       /\ u = 0 \/ u - 1 \in InUse
  BY BehindTheLast
<1>3. u \in Cells
  <2> SUFFICES ASSUME u > FifoLen + Chairs
               PROVE  FALSE
    BY DEF Cells
  <2>1. FifoLen + 1 .. u - 1 \in SUBSET InUse
    BY <1>2 DEF RoomInv
  <2>2. Cardinality(FifoLen + 1 .. u - 1) = (u - 1) - FifoLen
    BY FS_Interval
  <2>3. Cardinality(FifoLen + 1 .. u - 1) <= TAKEN
    BY <1>a, <2>1, FiniteRoom, FS_Subset
  <2> QED BY <1>a, <2>2, <2>3
<1>4. ASSUME NEW i \in Cells
      PROVE  StopsAt(i) <=> /\ i < FifoLen => FIFO[i] = NoClient
                            /\ \A j \in InUse : j < i
  BY <1>1, <1>b DEF StopsAt, FreePlace
<1>5. StopsAt(u)
  BY <1>2, <1>3, <1>4 DEF InUse
<1>6. PlaceOf \in Cells /\ StopsAt(PlaceOf) /\ PlaceOf <= u
  BY <1>3, <1>5, PlaceIsFirst
<1>7. PlaceOf = u
  <2>1. \A j \in InUse : j < PlaceOf
    BY <1>4, <1>6
  <2> QED BY <1>2, <1>b, <1>6, <2>1
<1> QED BY <1>2, <1>3, <1>7

-----------------------------------------------------------------------------
(* What a barber's and a client's step leave alone.                        *)

LEMMA BarberFrame ==
  ASSUME Barber
  PROVE  UNCHANGED <<TAKEN, GHOST, WAKER, FIFO, cvars>>
  BY DEF Barber, HaircutTime, CheckSleep, CheckNext, Doze, DozeUnlock,
         WokenUp, UnlockNext, Invite, Meet, Seat, BeginCut, EndCut, LastMeet,
         Goodbye, memory

LEMMA ClientFrame ==
  ASSUME NEW c \in Clients, Client(c)
  PROVE  UNCHANGED <<NEXT, bvars>>
  BY DEF Client, Enter, ClientRest, Sit, NoSeat, TryAgain, Seated, Called,
         Rise, LeaveSeat, RiseUnlock, Greet, Wake, WakeGreet, WakeBarber,
         WakeUnlock, WakeWait, WakeSit, HairBegin, HairTaken, HairEnd,
         LeaveShop, memory

LEMMA ClosedFrame ==
  ASSUME Closed \/ UNCHANGED vars
  PROVE  UNCHANGED vars
  BY DEF Closed

-----------------------------------------------------------------------------
(* The meeting.                                                            *)

LEMMA BarberMeeting ==
  ASSUME ~Posix, TypeOK, LockInv, MeetingInv, Barber
  PROVE  MeetingInv'
<1> PICK k \in Clients \cup {NoClient} : Meeting(k)
  BY DEF MeetingInv
<1> SUFFICES Meeting(k)'
  BY DEF MeetingInv
<1>1. /\ UNCHANGED <<cpc, WAKER, GHOST>> /\ Partner(k)' = Partner(k)
      /\ sem \in [0 .. 4 -> Nat]
  BY BarberFrame DEF cvars, Partner, TypeOK
<1>a. Partner(k) = "nobody" <=> k \notin Clients
  BY DEF Partner, Meeting, ChairPCs
<1> USE <1>1, <1>a DEF Meeting, GoesWith, Sem1, Sem2, Sem3, Sem4, Bit, BStep,
                 Add, Subtract, WaitZero, WaitZeroAdd, memory
<1>2. CASE CheckSleep
  BY <1>2 DEF CheckSleep
<1>3. CASE CheckNext
  BY <1>3 DEF CheckNext
<1>4. CASE Doze
  BY <1>4 DEF Doze
<1>5. CASE DozeUnlock
  BY <1>5 DEF DozeUnlock
<1>6. CASE WokenUp
  BY <1>6 DEF WokenUp, Partner
<1>7. CASE UnlockNext
  BY <1>7 DEF UnlockNext
<1>8. CASE Invite
  BY <1>8 DEF Invite
<1>9. CASE Meet
  BY <1>9 DEF Meet
<1>10. CASE Seat
  BY <1>10 DEF Seat
<1>11. CASE BeginCut
  BY <1>11 DEF BeginCut
<1>12. CASE EndCut
  BY <1>12 DEF EndCut
<1>13. CASE LastMeet
  BY <1>13 DEF LastMeet
<1>14. CASE Goodbye
  BY <1>14, ClientsAssumption DEF Goodbye, Partner
<1> QED BY <1>2, <1>3, <1>4, <1>5, <1>6, <1>7, <1>8, <1>9, <1>10, <1>11,
           <1>12, <1>13, <1>14 DEF Barber, HaircutTime

LEMMA ClientMeeting ==
  ASSUME ~Posix, TypeOK, LockInv, MeetingInv, NEW c \in Clients, Client(c)
  PROVE  MeetingInv'
<1> PICK k \in Clients \cup {NoClient} : Meeting(k)
  BY DEF MeetingInv
<1>1. /\ UNCHANGED <<bpc, client_number, NEXT>>
      /\ sem \in [0 .. 4 -> Nat] /\ cpc \in [Clients -> ClientPCs]
      /\ NoClient \notin Clients
  BY ClientFrame, ClientsAssumption DEF bvars, TypeOK
<1>2. /\ Partner(k) = "nobody" <=> k \notin Clients
      /\ \A d \in Clients : cpc[d] \in ChairPCs <=> d = k
  BY DEF Partner, Meeting, ChairPCs
<1> USE <1>1, <1>2 DEF CStep, memory, Add, Subtract, WaitZero, WaitZeroAdd
(* Clients who are not in the chair touch sem[0] only.                     *)
<1>3. CASE Sit(c) \/ NoSeat(c) \/ TryAgain(c) \/ Seated(c)
  <2>1. c # k /\ cpc'[c] \notin ChairPCs
    BY <1>3 DEF Sit, NoSeat, TryAgain, Seated, ChairPCs
  <2>2. /\ Partner(k)' = Partner(k) /\ \A d \in Clients \ {c} : cpc'[d] = cpc[d]
    BY <1>3, <2>1 DEF Sit, NoSeat, TryAgain, Seated, Partner
  <2>3. /\ UNCHANGED <<WAKER, SLEEPY, GHOST>>
        /\ \A s \in 1 .. 4 : sem'[s] = sem[s]
    BY <1>3 DEF Sit, NoSeat, TryAgain, Seated
  <2>4. Meeting(k)'
    BY <2>1, <2>2, <2>3 DEF Meeting, GoesWith, Sem1, Sem2, Sem3, Sem4, Bit
  <2> QED BY <2>4 DEF MeetingInv
(* Two ways to the chair.                                                  *)
<1>4. CASE Called(c)
  <2>1. bpc = "meet" /\ client_number = c /\ k \notin Clients
    BY <1>4 DEF Called, Meeting, GoesWith, ChairPCs
  <2>2. /\ Partner(c)' = "rise" /\ GHOST' = 1
        /\ \A d \in Clients \ {c} : cpc'[d] = cpc[d]
    BY <1>4, <2>1 DEF Called, Partner, Meeting, Bit
  <2>3. Meeting(c)'
    BY <1>4, <2>1, <2>2 DEF Called, Meeting, GoesWith, Sem1, Sem2, Sem3,
                            Sem4, Bit, ChairPCs
  <2> QED BY <2>3 DEF MeetingInv
<1>5. CASE Wake(c)
  <2>1. bpc = "asleep" /\ k \notin Clients
    BY <1>5 DEF Wake, Meeting, Bit, LockInv, BarberHolds
  <2>2. /\ Partner(c)' = "wake" /\ WAKER' = c
        /\ \A d \in Clients \ {c} : cpc'[d] = cpc[d]
    BY <1>5 DEF Wake, Partner
  <2>3. Meeting(c)'
    BY <1>5, <2>1, <2>2 DEF Wake, Meeting, GoesWith, Sem1, Sem2, Sem3,
                            Sem4, Bit, ChairPCs
  <2> QED BY <2>3 DEF MeetingInv
<1>6. CASE Rise(c)
  <2>1. Meeting(c)'
    BY <1>6 DEF Rise, Meeting, GoesWith, Sem1, Sem2, Sem3, Sem4, Bit,
                ChairPCs, Partner
  <2> QED BY <2>1 DEF MeetingInv
<1>7. CASE LeaveSeat(c)
  <2>1. Meeting(c)'
    BY <1>7 DEF LeaveSeat, Meeting, GoesWith, Sem1, Sem2, Sem3, Sem4, Bit,
                ChairPCs, Partner
  <2> QED BY <2>1 DEF MeetingInv
<1>8. CASE RiseUnlock(c)
  <2>1. Meeting(c)'
    BY <1>8 DEF RiseUnlock, Meeting, GoesWith, Sem1, Sem2, Sem3, Sem4, Bit,
                ChairPCs, Partner
  <2> QED BY <2>1 DEF MeetingInv
<1>9. CASE Greet(c)
  <2>1. Meeting(c)'
    BY <1>9 DEF Greet, Meeting, GoesWith, Sem1, Sem2, Sem3, Sem4, Bit,
                ChairPCs, Partner
  <2> QED BY <2>1 DEF MeetingInv
<1>10. CASE WakeGreet(c)
  <2>1. Meeting(c)'
    BY <1>10 DEF WakeGreet, Meeting, GoesWith, Sem1, Sem2, Sem3, Sem4, Bit,
                ChairPCs, Partner
  <2> QED BY <2>1 DEF MeetingInv
<1>11. CASE WakeBarber(c)
  <2>1. Meeting(c)'
    BY <1>11 DEF WakeBarber, Meeting, GoesWith, Sem1, Sem2, Sem3, Sem4, Bit,
                ChairPCs, Partner
  <2> QED BY <2>1 DEF MeetingInv
<1>12. CASE WakeUnlock(c)
  <2>1. Meeting(c)'
    BY <1>12 DEF WakeUnlock, Meeting, GoesWith, Sem1, Sem2, Sem3, Sem4, Bit,
                ChairPCs, Partner
  <2> QED BY <2>1 DEF MeetingInv
<1>13. CASE WakeWait(c)
  <2>1. Meeting(c)'
    BY <1>13 DEF WakeWait, Meeting, GoesWith, Sem1, Sem2, Sem3, Sem4, Bit,
                ChairPCs, Partner
  <2> QED BY <2>1 DEF MeetingInv
<1>14. CASE WakeSit(c)
  <2>1. Meeting(c)'
    BY <1>14 DEF WakeSit, Meeting, GoesWith, Sem1, Sem2, Sem3, Sem4, Bit,
                ChairPCs, Partner
  <2> QED BY <2>1 DEF MeetingInv
<1>15. CASE HairBegin(c)
  <2>1. Meeting(c)'
    BY <1>15 DEF HairBegin, Meeting, GoesWith, Sem1, Sem2, Sem3, Sem4, Bit,
                ChairPCs, Partner
  <2> QED BY <2>1 DEF MeetingInv
<1>16. CASE HairTaken(c)
  <2>1. Meeting(c)'
    BY <1>16 DEF HairTaken, Meeting, GoesWith, Sem1, Sem2, Sem3, Sem4, Bit,
                ChairPCs, Partner
  <2> QED BY <2>1 DEF MeetingInv
<1>17. CASE HairEnd(c)
  <2>1. Meeting(c)'
    BY <1>17 DEF HairEnd, Meeting, GoesWith, Sem1, Sem2, Sem3, Sem4, Bit,
                ChairPCs, Partner
  <2> QED BY <2>1 DEF MeetingInv
(* The way out.                                                            *)
<1>18. CASE LeaveShop(c)
  <2>1. c = k /\ bpc = "goodbye"
    BY <1>18 DEF LeaveShop, Meeting, GoesWith, ChairPCs, Partner
  <2>2. Partner(NoClient)' = "nobody"
    BY DEF Partner
  <2>3. /\ \A d \in Clients \ {c} : cpc'[d] = cpc[d]
        /\ cpc'[c] \notin ChairPCs
    BY <1>18 DEF LeaveShop, ChairPCs
  <2>4. Meeting(NoClient)'
    BY <1>18, <2>1, <2>2, <2>3
       DEF LeaveShop, Meeting, GoesWith, Sem1, Sem2, Sem3, Sem4, Bit, Partner
  <2> QED BY <2>4 DEF MeetingInv
<1> QED BY <1>3, <1>4, <1>5, <1>6, <1>7, <1>8, <1>9, <1>10, <1>11, <1>12, <1>13, <1>14, <1>15, <1>16, <1>17, <1>18
        DEF Client, Enter, ClientRest

-----------------------------------------------------------------------------
(* The lock of the shared memory.                                          *)

LEMMA BarberLock ==
  ASSUME ~Posix, TypeOK, LockInv, Barber
  PROVE  LockInv'
<1>1. UNCHANGED cpc /\ sem \in [0 .. 4 -> Nat]
  BY BarberFrame DEF cvars, TypeOK
<1>2. \A c \in Clients : Holds(c)' <=> Holds(c)
  BY <1>1 DEF Holds
<1> USE <1>1, <1>2 DEF LockInv, BarberHolds, BStep, Add, Subtract, WaitZero,
                       WaitZeroAdd
<1>3. CASE CheckSleep \/ CheckNext
  BY <1>3 DEF CheckSleep, CheckNext
<1>4. CASE DozeUnlock \/ UnlockNext
  BY <1>4 DEF DozeUnlock, UnlockNext
<1>5. CASE Doze \/ WokenUp \/ HaircutTime
  <2>1. sem'[0] = sem[0] /\ (BarberHolds' <=> BarberHolds)
    BY <1>5 DEF Doze, WokenUp, HaircutTime, Invite, Meet, Seat, BeginCut,
                EndCut, LastMeet, Goodbye
  <2> QED BY <2>1
<1> QED BY <1>3, <1>4, <1>5 DEF Barber

LEMMA ClientLock ==
  ASSUME ~Posix, TypeOK, LockInv, NEW c \in Clients, Client(c)
  PROVE  LockInv'
<1>1. /\ UNCHANGED bpc /\ sem \in [0 .. 4 -> Nat]
      /\ cpc \in [Clients -> ClientPCs]
  BY ClientFrame DEF bvars, TypeOK
<1>2. \A d \in Clients \ {c} : Holds(d)' <=> Holds(d)
  BY <1>1 DEF Holds, Client, Enter, ClientRest, CStep, Sit, NoSeat, TryAgain,
              Seated, Called, Rise, LeaveSeat, RiseUnlock, Greet, Wake,
              WakeGreet, WakeBarber, WakeUnlock, WakeWait, WakeSit, HairBegin,
              HairTaken, HairEnd, LeaveShop
<1> USE <1>1 DEF CStep, Add, Subtract, WaitZero, WaitZeroAdd
<1>3. CASE Sit(c) \/ NoSeat(c) \/ Rise(c) \/ Wake(c)
  <2>1. sem[0] = 0 /\ sem'[0] = 1
    BY <1>3 DEF Sit, NoSeat, Rise, Wake
  <2> QED BY <1>2, <2>1 DEF LockInv, BarberHolds
<1>4. CASE TryAgain(c) \/ Seated(c) \/ RiseUnlock(c) \/ WakeUnlock(c)
  <2>1. Holds(c) /\ ~Holds(c)' /\ sem'[0] = sem[0] - 1
    BY <1>4 DEF TryAgain, Seated, RiseUnlock, WakeUnlock, Holds
  <2> QED BY <1>2, <2>1 DEF LockInv, BarberHolds
<1>5. CASE \/ Called(c) \/ LeaveSeat(c) \/ Greet(c) \/ WakeGreet(c)
           \/ WakeBarber(c) \/ WakeWait(c) \/ WakeSit(c) \/ HairBegin(c)
           \/ HairTaken(c) \/ HairEnd(c) \/ LeaveShop(c)
  <2>1. sem'[0] = sem[0] /\ (Holds(c)' <=> Holds(c))
    BY <1>5 DEF Called, LeaveSeat, Greet, WakeGreet, WakeBarber, WakeWait,
                WakeSit, HairBegin, HairTaken, HairEnd, LeaveShop, Holds
  <2> QED BY <1>2, <2>1 DEF LockInv, BarberHolds
<1> QED BY <1>3, <1>4, <1>5 DEF Client, Enter, ClientRest

-----------------------------------------------------------------------------
(* Types.                                                                  *)

LEMMA BarberTypeOK ==
  ASSUME ~Posix, TypeOK, Barber
  PROVE  TypeOK'
<1>1. /\ sem' \in [0 .. 4 -> Nat] /\ bpc' \in BarberPCs
      /\ client_number' \in Clients \cup {NoClient}
      /\ SLEEPY' \in {0, 1} /\ NEXT' \in Clients \cup {NoClient}
  BY FirstInUseFacts
     DEF TypeOK, Barber, HaircutTime, CheckSleep, CheckNext, Doze, DozeUnlock,
         WokenUp, UnlockNext, Invite, Meet, Seat, BeginCut, EndCut, LastMeet,
         Goodbye, BStep, BarberPCs, Add, Subtract, WaitZero, WaitZeroAdd,
         memory
<1> QED BY <1>1, BarberFrame DEF TypeOK, cvars

LEMMA ClientTypeOK ==
  ASSUME ~Posix, IInv, NEW c \in Clients, Client(c)
  PROVE  TypeOK' /\ WantsMore'
<1>1. TypeOK /\ RoomInv /\ WantsMore
  BY DEF IInv
<1>2. UNCHANGED <<NEXT, bvars>>
  BY ClientFrame
<1>3. sem' \in [0 .. 4 -> Nat]
  BY <1>1 DEF TypeOK, Client, Enter, ClientRest, Sit, NoSeat, TryAgain,
              Seated, Called, Rise, LeaveSeat, RiseUnlock, Greet, Wake,
              WakeGreet, WakeBarber, WakeUnlock, WakeWait, WakeSit, HairBegin,
              HairTaken, HairEnd, LeaveShop, Add, Subtract, WaitZero,
              WaitZeroAdd
<1>4. cpc' \in [Clients -> ClientPCs]
  BY <1>1 DEF TypeOK, Client, Enter, ClientRest, Sit, NoSeat, TryAgain,
              Seated, Called, Rise, LeaveSeat, RiseUnlock, Greet, Wake,
              WakeGreet, WakeBarber, WakeUnlock, WakeWait, WakeSit, HairBegin,
              HairTaken, HairEnd, LeaveShop, CStep, ClientPCs
<1>5. SLEEPY' \in {0, 1} /\ WAKER' \in Clients \cup {NoClient}
  BY <1>1 DEF TypeOK, Client, Enter, ClientRest, Sit, NoSeat, TryAgain,
              Seated, Called, Rise, LeaveSeat, RiseUnlock, Greet, Wake,
              WakeGreet, WakeBarber, WakeUnlock, WakeWait, WakeSit, HairBegin,
              HairTaken, HairEnd, LeaveShop, memory
<1>6. /\ TAKEN' \in Nat /\ GHOST' \in Nat
      /\ FIFO' \in [Cells -> Clients \cup {NoClient}]
      /\ place' \in [Clients -> Cells]
  <2>1. CASE Sit(c)
    <3>1. PlaceOf \in Cells
      BY <1>1, <2>1, PlaceFacts DEF Sit
    <3> QED BY <1>1, <2>1, <3>1 DEF Sit, TypeOK
  <2>2. CASE LeaveSeat(c)
    <3>1. GHOST = 1
      BY <2>2 DEF LeaveSeat, CStep, IInv, MeetingInv, Meeting, ChairPCs,
                  Partner, Bit
    <3>2. TAKEN # 0
      <4>1. c \in Waiting
        BY <2>2 DEF LeaveSeat, CStep, Waiting
      <4> QED BY <1>1, <4>1, FiniteRoom, FS_EmptySet DEF RoomInv
    <3> QED BY <1>1, <2>2, <3>1, <3>2 DEF LeaveSeat, TypeOK
  <2>3. ASSUME ~Sit(c), ~LeaveSeat(c)
        PROVE  /\ UNCHANGED <<TAKEN, FIFO, place>>
               /\ GHOST' \in {GHOST, GHOST + 1}
    BY <2>3 DEF Client, Enter, ClientRest, NoSeat, TryAgain, Seated, Called,
                Rise, RiseUnlock, Greet, Wake, WakeGreet, WakeBarber,
                WakeUnlock, WakeWait, WakeSit, HairBegin, HairTaken, HairEnd,
                LeaveShop, memory
  <2> QED BY <1>1, <2>1, <2>2, <2>3 DEF TypeOK
<1>7. done' \in [Clients -> 0 .. Cuts] /\ WantsMore'
  <2>1. CASE LeaveShop(c)
    BY <1>1, <2>1, CountsAssumption DEF LeaveShop, CStep, TypeOK, WantsMore
  <2>2. ASSUME ~LeaveShop(c)
        PROVE  /\ done' = done
               /\ \A d \in Clients : cpc[d] = "done" <=> cpc'[d] = "done"
    BY <1>1, <2>2
       DEF TypeOK, Client, Enter, ClientRest, Sit, NoSeat, TryAgain, Seated,
           Called, Rise, LeaveSeat, RiseUnlock, Greet, Wake, WakeGreet,
           WakeBarber, WakeUnlock, WakeWait, WakeSit, HairBegin, HairTaken,
           HairEnd, CStep
  <2> QED BY <1>1, <2>1, <2>2 DEF TypeOK, WantsMore
<1> QED BY <1>1, <1>2, <1>3, <1>4, <1>5, <1>6, <1>7 DEF TypeOK, bvars

-----------------------------------------------------------------------------
(* The waiting room.                                                       *)

LEMMA BarberRoom ==
  ASSUME ~Posix, TypeOK, MeetingInv, RoomInv, Barber
  PROVE  RoomInv'
<1>1. UNCHANGED <<TAKEN, FIFO, cpc, place, WAKER>>
  BY BarberFrame DEF cvars
<1>2. Waiting' = Waiting /\ InUse' = InUse /\ InChair' = InChair
  BY <1>1 DEF Waiting, InUse, InChair
<1>3. CASE CheckNext
  <2>1. bpc' = "unlock" /\ client_number' = FIFO[FirstInUse]
    BY <1>3 DEF CheckNext, BStep
  <2>2. FirstInUse \in Cells /\ FirstInUse <= FifoLen
        /\ \A j \in InUse : FirstInUse <= j
    BY FirstInUseFacts, CountsAssumption
  <2>3. client_number' # NoClient => FirstInUse \in InUse
    BY <2>1, <2>2 DEF InUse
  <2> QED BY <1>1, <1>2, <2>1, <2>2, <2>3 DEF RoomInv, SomebodyCalled
<1>4. CASE WokenUp
  <2>1. client_number' \in InChair /\ client_number' \notin Waiting
    BY <1>4, ClientsAssumption
       DEF WokenUp, BStep, WaitZero, MeetingInv, Meeting, GoesWith, Sem4, Bit,
           Partner, InChair, Waiting
  <2>2. ~SomebodyCalled'
    BY <1>2, <2>1 DEF SomebodyCalled
  <2> QED BY <1>1, <1>2, <2>2 DEF RoomInv
<1>5. CASE ~CheckNext /\ ~WokenUp
  <2>1. SomebodyCalled' => SomebodyCalled /\ client_number' = client_number
    BY <1>2, <1>5
       DEF SomebodyCalled, Barber, HaircutTime, CheckSleep, Doze, DozeUnlock,
           UnlockNext, Invite, Meet, Seat, BeginCut, EndCut, LastMeet,
           Goodbye, BStep
  <2> QED BY <1>1, <1>2, <2>1 DEF RoomInv
<1> QED BY <1>3, <1>4, <1>5

LEMMA SitRoom ==
  ASSUME ~Posix, TypeOK, RoomInv, NEW c \in Clients, Sit(c)
  PROVE  RoomInv'
<1> DEFINE s == PlaceOf
<1>1. /\ s \in Cells /\ \A j \in InUse : j < s
      /\ s = 0 \/ s - 1 \in InUse
  BY PlaceFacts DEF Sit
<1>2. /\ cpc[c] = "enter" /\ cpc' = [cpc EXCEPT ![c] = "seated"]
      /\ TAKEN < Chairs /\ TAKEN' = TAKEN + 1
      /\ place' = [place EXCEPT ![c] = s] /\ FIFO' = [FIFO EXCEPT ![s] = c]
      /\ UNCHANGED <<bpc, client_number>>
  BY DEF Sit, CStep, bvars
<1> HIDE DEF s
<1> USE ClientsAssumption, CountsAssumption
<1>3. InUse \subseteq Nat /\ s \in Nat /\ s \notin InUse /\ FIFO[s] = NoClient
  BY <1>1 DEF InUse, Cells
<1>4. Waiting' = Waiting \cup {c} /\ c \notin Waiting /\ InChair' = InChair
      /\ c \notin InChair
  BY <1>2 DEF Waiting, InChair, TypeOK
<1>5. InUse' = InUse \cup {s}
  BY <1>1, <1>2 DEF InUse, TypeOK
<1>6. /\ \A d \in Waiting \ {c} : place'[d] = place[d] /\ place[d] # s
      /\ place'[c] = s /\ FIFO'[s] = c
      /\ \A i \in InUse : FIFO'[i] = FIFO[i] /\ FIFO[i] # c
  BY <1>1, <1>2, <1>3, <1>4 DEF RoomInv, TypeOK, Waiting, InUse
<1>7. /\ Cardinality(Waiting') = Cardinality(Waiting) + 1
      /\ Cardinality(InUse') = Cardinality(InUse) + 1
  BY <1>3, <1>4, <1>5, FiniteRoom, FS_AddElement
<1>8. /\ TAKEN' = Cardinality(Waiting') /\ TAKEN' = Cardinality(InUse')
      /\ TAKEN' <= Chairs
  <2>1. /\ TAKEN = Cardinality(Waiting) /\ TAKEN = Cardinality(InUse)
        /\ TAKEN <= Chairs /\ TAKEN \in Nat
    BY DEF RoomInv, TypeOK
  <2> QED BY <1>2, <1>7, <2>1
<1>9. \A d \in Waiting' : FIFO'[place'[d]] = d
  <2>1. \A d \in Waiting : place[d] \in InUse
    BY DEF RoomInv, InUse, Waiting, TypeOK
  <2> QED BY <1>4, <1>6, <2>1 DEF RoomInv
<1>10. \A i \in InUse' : FIFO'[i] \in Waiting' /\ place'[FIFO'[i]] = i
  BY <1>4, <1>5, <1>6 DEF RoomInv
<1>11. \A i \in InUse' : \A j \in FifoLen + 1 .. i : j \in InUse'
  BY <1>1, <1>3, <1>5 DEF RoomInv
<1>12. SomebodyCalled' => /\ client_number' \in Waiting'
                   /\ place'[client_number'] <= FifoLen
                   /\ \A i \in InUse' : place'[client_number'] <= i
  <2> SUFFICES ASSUME SomebodyCalled'
               PROVE  /\ client_number \in Waiting
                      /\ place'[client_number] <= FifoLen
                      /\ \A i \in InUse' : place'[client_number] <= i
    BY <1>2, <1>4
  <2>1. SomebodyCalled
    BY <1>2, <1>4 DEF SomebodyCalled
  <2>2. /\ client_number \in Waiting /\ client_number # c
        /\ place[client_number] <= FifoLen
        /\ \A i \in InUse : place[client_number] <= i
    BY <1>4, <2>1 DEF RoomInv
  <2>3. place[client_number] \in InUse
    BY <2>2 DEF RoomInv, InUse, Waiting, TypeOK
  <2>4. place'[client_number] = place[client_number]
    BY <1>6, <2>2
  <2>5. place[client_number] <= s
    <3>1. \A j \in InUse : j <= s
      BY <1>1, <1>3
    <3> QED BY <2>3, <3>1
  <2> QED BY <1>5, <2>2, <2>4, <2>5
<1> QED BY <1>8, <1>9, <1>10, <1>11, <1>12 DEF RoomInv

LEMMA LeaveSeatRoom ==
  ASSUME ~Posix, TypeOK, MeetingInv, RoomInv, NEW c \in Clients, LeaveSeat(c)
  PROVE  RoomInv'
<1> DEFINE s == place[c]
<1>1. /\ cpc[c] = "rise_2" /\ cpc' = [cpc EXCEPT ![c] = "rise_unlock"]
      /\ TAKEN' = TAKEN - 1 /\ FIFO' = [FIFO EXCEPT ![s] = NoClient]
      /\ UNCHANGED <<bpc, client_number, place>>
  BY DEF LeaveSeat, CStep, bvars
<1>2. c \in Waiting /\ c \in InChair /\ client_number = c /\ bpc = "meet"
  BY <1>1 DEF Waiting, InChair, MeetingInv, Meeting, GoesWith, Partner,
              ChairPCs
<1> USE ClientsAssumption, CountsAssumption
<1>3. SomebodyCalled /\ s \in Cells /\ s <= FifoLen /\ s \in InUse
  BY <1>2 DEF SomebodyCalled, RoomInv, TypeOK, InUse
<1> HIDE DEF s
<1>4. Waiting' = Waiting \ {c}
  BY <1>1, <1>2 DEF Waiting, TypeOK
<1>5. InUse' = InUse \ {s}
  BY <1>1, <1>3 DEF InUse, TypeOK
<1>6. /\ Cardinality(Waiting') = Cardinality(Waiting) - 1
      /\ Cardinality(InUse') = Cardinality(InUse) - 1
  BY <1>2, <1>3, <1>4, <1>5, FiniteRoom, FS_RemoveElement
<1>7. /\ \A d \in Waiting' : place[d] # s /\ FIFO'[place[d]] = FIFO[place[d]]
      /\ \A i \in InUse' : FIFO'[i] = FIFO[i] /\ FIFO[i] # c
  BY <1>1, <1>2, <1>3, <1>4, <1>5 DEF RoomInv, TypeOK, Waiting, InUse, s
<1>8. /\ TAKEN' = Cardinality(Waiting') /\ TAKEN' = Cardinality(InUse')
      /\ TAKEN' <= Chairs
  <2>1. /\ TAKEN = Cardinality(Waiting) /\ TAKEN = Cardinality(InUse)
        /\ TAKEN <= Chairs /\ TAKEN \in Nat
    BY DEF RoomInv, TypeOK
  <2> QED BY <1>1, <1>6, <2>1
<1>9. /\ \A d \in Waiting' : FIFO'[place'[d]] = d
      /\ \A i \in InUse' : FIFO'[i] \in Waiting' /\ place'[FIFO'[i]] = i
  BY <1>1, <1>4, <1>5, <1>7 DEF RoomInv
<1>10. \A i \in InUse' : \A j \in FifoLen + 1 .. i : j \in InUse'
  BY <1>3, <1>5 DEF RoomInv, InUse, Cells
<1>11. ~SomebodyCalled'
  BY <1>1, <1>2, <1>4 DEF SomebodyCalled, InChair, TypeOK
<1> QED BY <1>8, <1>9, <1>10, <1>11 DEF RoomInv

LEMMA ClientRoom ==
  ASSUME ~Posix, TypeOK, LockInv, MeetingInv, RoomInv,
         NEW c \in Clients, Client(c)
  PROVE  RoomInv'
<1>1. UNCHANGED <<bpc, client_number>>
  BY ClientFrame DEF bvars
<1>2. CASE Sit(c) \/ LeaveSeat(c)
  BY <1>2, SitRoom, LeaveSeatRoom
<1>3. CASE Called(c)
  <2>1. /\ UNCHANGED <<TAKEN, FIFO, place>> /\ Waiting' = Waiting
        /\ InChair' = InChair \cup {c} /\ c \in Waiting
    BY <1>3 DEF Called, CStep, Waiting, InChair, TypeOK
  <2> QED BY <1>1, <2>1 DEF RoomInv, SomebodyCalled, InUse
<1>4. CASE Wake(c) \/ LeaveShop(c)
  <2>1. UNCHANGED <<TAKEN, FIFO, place>> /\ Waiting' = Waiting
    BY <1>4 DEF Wake, LeaveShop, CStep, Waiting, TypeOK, memory
  <2>2. bpc \in {"asleep", "goodbye"}
    BY <1>4 DEF Wake, LeaveShop, CStep, WaitZeroAdd, MeetingInv, Meeting,
                GoesWith, Bit, LockInv, BarberHolds, Partner, ChairPCs
  <2> QED BY <1>1, <2>1, <2>2 DEF RoomInv, SomebodyCalled, InUse
<1>5. CASE ~(\/ Sit(c) \/ LeaveSeat(c) \/ Called(c) \/ Wake(c)
             \/ LeaveShop(c))
  <2>1. /\ UNCHANGED <<TAKEN, FIFO, place>> /\ Waiting' = Waiting
        /\ InChair' = InChair
    BY <1>5 DEF Client, Enter, ClientRest, NoSeat, TryAgain, Seated, Rise,
                RiseUnlock, Greet, WakeGreet, WakeBarber, WakeUnlock,
                WakeWait, WakeSit, HairBegin, HairTaken, HairEnd, CStep,
                memory, Waiting, InChair, TypeOK
  <2> QED BY <1>1, <2>1 DEF RoomInv, SomebodyCalled, InUse
<1> QED BY <1>2, <1>3, <1>4, <1>5

-----------------------------------------------------------------------------
(* The invariant.                                                          *)

LEMMA InitInv == ~Posix /\ Init => IInv
<1> SUFFICES ASSUME ~Posix, Init
             PROVE  IInv
  OBVIOUS
<1> USE ClientsAssumption, CountsAssumption
<1>1. /\ Waiting = {} /\ InUse = {} /\ InChair = {} /\ Cardinality({}) = 0
  BY FS_EmptySet DEF Init, Waiting, InUse, InChair
<1>2. TypeOK
  BY DEF Init, TypeOK, Cells, BarberPCs, ClientPCs
<1>3. LockInv
  BY DEF Init, LockInv, BarberHolds, Holds
<1>4. Meeting(NoClient)
  BY DEF Init, Meeting, GoesWith, Sem1, Sem2, Sem3, Sem4, Bit, Partner,
         ChairPCs
<1>5. RoomInv /\ WantsMore
  BY <1>1 DEF Init, RoomInv, SomebodyCalled, WantsMore
<1> QED BY <1>2, <1>3, <1>4, <1>5 DEF IInv, MeetingInv

LEMMA BarberInv == ~Posix /\ IInv /\ Barber => IInv'
<1> SUFFICES ASSUME ~Posix, IInv, Barber
             PROVE  IInv'
  OBVIOUS
<1>1. WantsMore'
  BY BarberFrame DEF IInv, WantsMore, cvars
<1> QED BY <1>1, BarberTypeOK, BarberLock, BarberMeeting, BarberRoom DEF IInv

LEMMA ClientInv ==
  ASSUME ~Posix, IInv, NEW c \in Clients, Client(c)
  PROVE  IInv'
  BY ClientTypeOK, ClientLock, ClientMeeting, ClientRoom DEF IInv

LEMMA StutterInv == IInv /\ UNCHANGED vars => IInv'
  BY DEF IInv, vars, memory, bvars, cvars, TypeOK, LockInv, BarberHolds, Holds,
         MeetingInv, Meeting, GoesWith, Sem1, Sem2, Sem3, Sem4, Bit, Partner,
         RoomInv, SomebodyCalled, WantsMore, Waiting, InUse, InChair

LEMMA NextInv == ~Posix /\ IInv /\ [Next]_vars => IInv'
  BY BarberInv, ClientInv, StutterInv, ClosedFrame DEF Next

(* IInv holds in every reachable state of task1, for every number of       *)
(* clients, haircuts, chairs and cells.                                    *)
THEOREM Invariance ==
  ASSUME ~Posix
  PROVE  Spec => []IInv
<1>1. Init => IInv
  BY InitInv
<1>2. IInv /\ [Next]_vars => IInv'
  BY NextInv
<1> QED BY <1>1, <1>2, PTL DEF Spec

(* The shared memory and the semaphores keep their types.                  *)
THEOREM TypeCorrectness ==
  ASSUME ~Posix
  PROVE  Spec => []TypeOK
<1>1. IInv => TypeOK
  BY DEF IInv
<1> QED BY <1>1, Invariance, PTL

(* One client at a time is in the chair, the one the barber has called or  *)
(* was woken by, and the books of the waiting room agree, even when the    *)
(* queue has grown over its last cell.                                     *)
THEOREM RoomStaysConsistent ==
  ASSUME ~Posix
  PROVE  Spec => []RoomIsConsistent
<1>1. IInv => RoomIsConsistent
  <2> SUFFICES ASSUME IInv
               PROVE  RoomIsConsistent
    OBVIOUS
  <2>1. PICK k \in Clients \cup {NoClient} : Meeting(k)
    BY DEF IInv, MeetingInv
  <2>2. \A c \in InChair : c = k /\ c \in Clients
    BY <2>1 DEF InChair, Meeting, ChairPCs
  <2>3. OneInChair
    BY <2>1, <2>2 DEF OneInChair, Meeting, GoesWith, Partner, IInv, TypeOK,
                      BarberPCs
  <2>4. bpc = "check" => GHOST = 0
    BY <2>1 DEF Meeting, GoesWith, Bit
  <2> QED BY <2>3, <2>4 DEF RoomIsConsistent, IInv, RoomInv
<1> QED BY <1>1, Invariance, PTL

-----------------------------------------------------------------------------
(* How far the queue creeps.                                               *)

Haircuts == {h \in Clients \X (1 .. Cuts) : h[2] <= done[h[1]]}

LEMMA FiniteShop ==
  /\ IsFiniteSet(Haircuts) /\ HaircutsGiven = Cardinality(Haircuts)
  /\ IsFiniteSet(Waiting \cup InChair)
  /\ HaircutsGiven \in Nat /\ InShop \in Nat
<1>1. IsFiniteSet(Clients \X (1 .. Cuts))
  <2>1. IsFiniteSet(1 .. Cuts)
    BY CountsAssumption, FS_Interval
  <2> QED BY <2>1, ClientsAssumption, FS_Product
<1>2. /\ Haircuts \subseteq Clients \X (1 .. Cuts)
      /\ Waiting \cup InChair \subseteq Clients
  BY DEF Haircuts, Waiting, InChair
<1>3. HaircutsGiven = Cardinality(Haircuts)
  BY DEF HaircutsGiven, Haircuts
<1>4. IsFiniteSet(Haircuts) /\ IsFiniteSet(Waiting \cup InChair)
  BY <1>1, <1>2, ClientsAssumption, FS_Subset
<1> QED BY <1>3, <1>4, FS_CardinalityType DEF InShop

(* A step changes the number of clients in the shop or of haircuts by one. *)
LEMMA ClientPlaces ==
  ASSUME TypeOK, WantsMore, PlacesAreBounded,
         NEW c \in Clients, Client(c) \/ NoChairsYet(c),
         Sit(c) => PlaceOf \in Cells /\ (PlaceOf = 0 \/ PlaceOf - 1 \in InUse)
  PROVE  PlacesAreBounded'
<1> DEFINE S == Waiting \cup InChair
<1>b. InShop = Cardinality(S) /\ InShop' = Cardinality(S')
  BY DEF InShop
<1>1. CASE Sit(c)
  <2>1. /\ cpc[c] = "enter" /\ cpc' = [cpc EXCEPT ![c] = "seated"]
        /\ TAKEN < Chairs /\ FIFO' = [FIFO EXCEPT ![PlaceOf] = c]
        /\ UNCHANGED done
    BY <1>1 DEF Sit, CStep
  <2>2. S' = S \cup {c} /\ c \notin S
    BY <2>1 DEF Waiting, InChair, TypeOK
  <2>3. InShop' = InShop + 1 /\ HaircutsGiven' = HaircutsGiven
    <3>1. Cardinality(S') = Cardinality(S) + 1
      BY <2>2, FiniteShop, FS_AddElement
    <3> QED BY <1>b, <2>1, <3>1 DEF HaircutsGiven
  <2>4. /\ PlaceOf \in Cells
        /\ PlaceOf = 0 \/ PlaceOf - 1 \in InUse
    BY <1>1
  <2>5. InUse' \subseteq InUse \cup {PlaceOf}
    BY <2>1 DEF InUse, TypeOK
  <2>6. InUse \subseteq Nat /\ PlaceOf \in Nat
    BY <2>4, CountsAssumption DEF InUse, Cells
  <2>7. PlaceOf < HaircutsGiven + InShop + 1
    BY <2>4, <2>6, FiniteShop DEF PlacesAreBounded
  <2>8. \A i \in InUse : i < HaircutsGiven + InShop + 1
    BY <2>6, FiniteShop DEF PlacesAreBounded
  <2> QED BY <2>3, <2>5, <2>7, <2>8, FiniteShop DEF PlacesAreBounded
<1>2. CASE Wake(c)
  <2>1. /\ cpc[c] = "enter" /\ cpc' = [cpc EXCEPT ![c] = "wake"]
        /\ UNCHANGED <<done, FIFO>>
    BY <1>2 DEF Wake, CStep
  <2>2. S' = S \cup {c} /\ c \notin S
    BY <2>1 DEF Waiting, InChair, TypeOK
  <2>3. InShop' = InShop + 1 /\ HaircutsGiven' = HaircutsGiven /\ InUse' = InUse
    <3>1. Cardinality(S') = Cardinality(S) + 1
      BY <2>2, FiniteShop, FS_AddElement
    <3> QED BY <1>b, <2>1, <3>1 DEF HaircutsGiven, InUse
  <2>4. InUse \subseteq Nat
    BY CountsAssumption DEF InUse, Cells
  <2> QED BY <2>3, <2>4, FiniteShop DEF PlacesAreBounded
<1>3. CASE LeaveShop(c)
  <2>1. /\ cpc[c] = "hair_4" /\ cpc'[c] \in {"enter", "done"}
        /\ cpc' = [cpc EXCEPT ![c] = cpc'[c]]
        /\ done' = [done EXCEPT ![c] = @ + 1] /\ UNCHANGED FIFO
    BY <1>3 DEF LeaveShop, CStep, TypeOK, memory
  <2>2. S' = S \ {c} /\ c \in S
    BY <2>1 DEF Waiting, InChair, TypeOK
  <2>3. /\ Haircuts' = Haircuts \cup {<<c, done[c] + 1>>}
        /\ <<c, done[c] + 1>> \notin Haircuts
    <3>1. done[c] < Cuts /\ done[c] \in Nat /\ Cuts \in Nat
      BY <2>1, CountsAssumption DEF WantsMore, TypeOK
    <3>2. ASSUME NEW h \in Clients \X (1 .. Cuts)
          PROVE  h[2] <= done'[h[1]]
                 <=> h[2] <= done[h[1]] \/ h = <<c, done[c] + 1>>
      BY <2>1, <3>1 DEF TypeOK
    <3>3. <<c, done[c] + 1>> \in Clients \X (1 .. Cuts)
      BY <3>1
    <3> QED BY <3>1, <3>2, <3>3 DEF Haircuts
  <2>4. /\ Cardinality(S') = Cardinality(S) - 1
        /\ Cardinality(Haircuts') = Cardinality(Haircuts) + 1
    BY <2>2, <2>3, FiniteShop, FS_AddElement, FS_RemoveElement
  <2>5. HaircutsGiven' = Cardinality(Haircuts')
    BY DEF HaircutsGiven, Haircuts
  <2>6. HaircutsGiven' + InShop' = HaircutsGiven + InShop /\ InUse' = InUse
    BY <1>b, <2>1, <2>4, <2>5, FiniteShop DEF InUse
  <2> QED BY <2>6 DEF PlacesAreBounded
<1>4. CASE ~Sit(c) /\ ~Wake(c) /\ ~LeaveShop(c)
  <2>1. S' = S /\ done' = done /\ InUse' \subseteq InUse
    BY <1>4
       DEF NoChairsYet, Client, Enter, ClientRest, NoSeat, TryAgain, Seated,
           Called, Rise, LeaveSeat, RiseUnlock, Greet, WakeGreet, WakeBarber,
           WakeUnlock, WakeWait, WakeSit, HairBegin, HairTaken, HairEnd,
           CStep, memory, InUse, Waiting, InChair, TypeOK
  <2> QED BY <1>b, <2>1 DEF PlacesAreBounded, HaircutsGiven
<1> QED BY <1>1, <1>2, <1>3, <1>4

(* A cell in use is behind no more than the haircuts given so far and the  *)
(* clients in the shop, so a shop of at most FifoLen haircuts never gets   *)
(* to the end of the queue.                                                *)
THEOREM QueueCreepsSlowly ==
  ASSUME ~Posix
  PROVE  Spec => []PlacesAreBounded
<1>1. Init => PlacesAreBounded
  BY DEF Init, PlacesAreBounded, InUse
<1>2. IInv /\ PlacesAreBounded /\ [Next]_vars => PlacesAreBounded'
  <2> SUFFICES ASSUME IInv, PlacesAreBounded, [Next]_vars
               PROVE  PlacesAreBounded'
    OBVIOUS
  <2>1. CASE \E c \in Clients : Client(c)
    <3>1. PICK c \in Clients : Client(c)
      BY <2>1
    <3>2. Sit(c) => PlaceOf \in Cells /\ (PlaceOf = 0 \/ PlaceOf - 1 \in InUse)
      BY PlaceFacts DEF Sit, IInv
    <3> QED BY <3>1, <3>2, ClientPlaces DEF IInv
  <2>2. CASE UNCHANGED <<cpc, done, FIFO>>
    BY <2>2 DEF PlacesAreBounded, HaircutsGiven, InShop, InUse, Waiting, InChair
  <2> QED BY <2>1, <2>2, BarberFrame, ClosedFrame
          DEF Next, vars, memory, cvars
<1> QED BY <1>1, <1>2, Invariance, PTL DEF Spec

(* The haircuts given and those of the clients in the shop are among those *)
(* that were wanted in all.                                                *)
LEMMA ShopIsBounded ==
  ASSUME TypeOK, WantsMore, Cardinality(Clients) * Cuts <= FifoLen
  PROVE  HaircutsGiven + InShop <= FifoLen
<1> DEFINE S == Waiting \cup InChair
           All == Clients \X (1 .. Cuts)
           Wanted == {h \in All : h[1] \in S /\ h[2] = done[h[1]] + 1}
           f == [c \in S |-> <<c, done[c] + 1>>]
<1>1. IsFiniteSet(All) /\ Cardinality(All) <= FifoLen
  <2>1. /\ IsFiniteSet(1 .. Cuts) /\ Cardinality(1 .. Cuts) = Cuts
    BY CountsAssumption, FS_Interval
  <2>2. /\ IsFiniteSet(All)
        /\ Cardinality(All) = Cardinality(Clients) * Cardinality(1 .. Cuts)
    BY <2>1, ClientsAssumption, FS_Product
  <2> QED BY <2>1, <2>2
<1>2. ASSUME NEW c \in S
      PROVE  <<c, done[c] + 1>> \in Wanted
  <2>1. c \in Clients /\ done[c] \in Nat /\ done[c] < Cuts
    BY DEF WantsMore, TypeOK, Waiting, InChair
  <2> QED BY <2>1, CountsAssumption
<1>3. f \in Injection(S, Wanted)
  BY <1>2, Zenon DEF Injection, IsInjective
<1>4. Haircuts \subseteq All /\ Wanted \subseteq All
  BY DEF Haircuts
<1>5. IsFiniteSet(Haircuts) /\ IsFiniteSet(Wanted)
  BY <1>1, <1>4, FS_Subset
<1>6. Cardinality(S) <= Cardinality(Wanted)
  BY <1>3, <1>5, FS_Injection
<1>7. Haircuts \cap Wanted = {}
  BY DEF Haircuts, TypeOK
<1>8. Cardinality(Haircuts \cup Wanted)
         = Cardinality(Haircuts) + Cardinality(Wanted)
  <2> HIDE DEF Wanted
  <2>1. Cardinality(Haircuts \cup Wanted) = Cardinality(Haircuts)
           + Cardinality(Wanted) - Cardinality(Haircuts \cap Wanted)
    BY <1>5, FS_Union
  <2>2. Cardinality(Haircuts \cap Wanted) = 0
    BY <1>7, FS_EmptySet
  <2>3. Cardinality(Haircuts) \in Nat /\ Cardinality(Wanted) \in Nat
    BY <1>5, FS_CardinalityType
  <2> QED BY <2>1, <2>2, <2>3
<1>9. Cardinality(Haircuts \cup Wanted) <= Cardinality(All)
  BY <1>1, <1>4, FS_Subset
<1> QED BY <1>1, <1>5, <1>6, <1>8, <1>9, FiniteShop, FS_CardinalityType,
           CountsAssumption DEF InShop

(* With at least as many cells as haircuts wanted in all, no client ever   *)
(* sits behind the end of the queue, where the barber may not see him.     *)
THEOREM QueueIsLongEnough ==
  ASSUME ~Posix, Cardinality(Clients) * Cuts <= FifoLen
  PROVE  Spec => [](\A i \in InUse : i < FifoLen)
<1>1. IInv /\ PlacesAreBounded => \A i \in InUse : i < FifoLen
  BY ShopIsBounded, FiniteShop, CountsAssumption
     DEF IInv, PlacesAreBounded, InUse, Cells
<1> QED BY <1>1, Invariance, QueueCreepsSlowly, PTL

-----------------------------------------------------------------------------
(* The cells in use, counted from the front.                               *)

Before(I, i) == {j \in I : j < i}

(* Each number from 1 up belongs to one cell, NthCell.                     *)
LEMMA NthCellFacts ==
  ASSUME NEW I \in SUBSET Nat, IsFiniteSet(I)
  PROVE  /\ Cardinality(I) \in Nat
         /\ \A i \in I : Cardinality(Before(I, i)) \in 0 .. Cardinality(I) - 1
         /\ \A n \in 1 .. Cardinality(I) :
                /\ NthCell(I, n) \in I
                /\ Cardinality(Before(I, NthCell(I, n))) = n - 1
         /\ \A i \in I : NthCell(I, Cardinality(Before(I, i)) + 1) = i
<1> DEFINE r == [i \in I |-> Cardinality(Before(I, i))]
           T == 0 .. Cardinality(I) - 1
<1>1. Cardinality(I) \in Nat
  BY FS_CardinalityType
<1>2. ASSUME NEW i \in I
      PROVE  IsFiniteSet(Before(I, i)) /\ r[i] \in T
  <2>1. Before(I, i) \in SUBSET I /\ Before(I, i) # I
    BY DEF Before
  <2>2. /\ IsFiniteSet(Before(I, i))
        /\ Cardinality(Before(I, i)) <= Cardinality(I)
        /\ Cardinality(I) # Cardinality(Before(I, i))
    BY <2>1, FS_Subset
  <2>3. Cardinality(Before(I, i)) \in Nat
    BY <2>2, FS_CardinalityType
  <2> QED BY <1>1, <2>2, <2>3
<1>3. ASSUME NEW i \in I, NEW j \in I, i < j
      PROVE  r[i] # r[j]
  <2>1. Before(I, i) \in SUBSET Before(I, j)
    <3> SUFFICES ASSUME NEW x \in I, x < i
                 PROVE  x < j
      BY DEF Before
    <3>1. x \in Nat /\ i \in Nat /\ j \in Nat
      OBVIOUS
    <3> QED BY <1>3, <3>1
  <2>2. i \in Before(I, j) /\ i \notin Before(I, i)
    BY <1>3 DEF Before
  <2>3. Before(I, i) # Before(I, j)
    BY <2>2
  <2> QED BY <1>2, <2>1, <2>3, FS_Subset
<1>4. r \in Injection(I, T)
  <2>1. r \in [I -> T]
    BY <1>2
  <2>2. \A i, j \in I : r[i] = r[j] => i = j
    <3> HIDE DEF r
    <3>1. \A i, j \in I : i < j \/ j < i \/ i = j
      OBVIOUS
    <3> QED BY <1>3, <3>1
  <2> HIDE DEF r, T
  <2> QED BY <2>1, <2>2 DEF Injection, IsInjective
<1>5. r \in Surjection(I, T)
  <2>1. IsFiniteSet(T) /\ Cardinality(T) = Cardinality(I)
    <3> DEFINE n == Cardinality(I)
    <3>1. n - 1 \in Int /\ 0 \in Int /\ n \in Nat
      BY <1>1
    <3> HIDE DEF n
    <3>2. /\ IsFiniteSet(0 .. n - 1)
          /\ Cardinality(0 .. n - 1) = IF 0 > n - 1 THEN 0 ELSE (n - 1) - 0 + 1
      BY <3>1, FS_Interval
    <3>3. IsFiniteSet(0 .. n - 1) /\ Cardinality(0 .. n - 1) = n
      BY <3>1, <3>2
    <3> QED BY <3>3 DEF n
  <2> HIDE DEF r, T
  <2> QED BY <1>4, <2>1, FS_Injection
<1>6. ASSUME NEW n \in 1 .. Cardinality(I)
      PROVE  /\ NthCell(I, n) \in I
             /\ Cardinality(Before(I, NthCell(I, n))) = n - 1
  <2>1. n - 1 \in T
    BY <1>1
  <2>2. PICK i \in I : r[i] = n - 1
    <3> HIDE DEF r, T
    <3> QED BY <1>5, <2>1 DEF Surjection
  <2>3. \E h \in I : Cardinality({j \in I : j < h}) = n - 1
    BY <2>2 DEF Before
  <2> QED BY <2>3 DEF NthCell, Before
<1>7. ASSUME NEW i \in I
      PROVE  NthCell(I, r[i] + 1) = i
  <2>1. r[i] \in Nat /\ (r[i] + 1) - 1 = r[i]
    BY <1>1, <1>2
  <2>2. NthCell(I, r[i] + 1) = CHOOSE j \in I : r[j] = r[i]
    BY <2>1 DEF NthCell, Before
  <2>3. \A j \in I : r[j] = r[i] => j = i
    <3> HIDE DEF r, T
    <3> QED BY <1>4 DEF Injection, IsInjective
  <2> HIDE DEF r
  <2> QED BY <2>2, <2>3
<1> QED BY <1>1, <1>2, <1>6, <1>7

LEMMA NthCellAppend ==
  ASSUME NEW I \in SUBSET Nat, IsFiniteSet(I),
         NEW s \in Nat, \A j \in I : j < s
  PROVE  /\ Cardinality(I \cup {s}) = Cardinality(I) + 1
         /\ \A n \in 1 .. Cardinality(I) :
                NthCell(I \cup {s}, n) = NthCell(I, n)
         /\ NthCell(I \cup {s}, Cardinality(I) + 1) = s
<1> DEFINE J == I \cup {s}
<1>1. s \notin I /\ J \in SUBSET Nat
  OBVIOUS
<1>2. IsFiniteSet(J) /\ Cardinality(J) = Cardinality(I) + 1
  BY <1>1, FS_AddElement
<1>3. \A i \in J : NthCell(J, Cardinality(Before(J, i)) + 1) = i
  <2> HIDE DEF J
  <2> QED BY <1>1, <1>2, NthCellFacts
<1>4. Before(J, s) = I
  <2>1. \A j \in J : j < s <=> j \in I
    OBVIOUS
  <2> QED BY <2>1 DEF Before
<1>5. ASSUME NEW n \in 1 .. Cardinality(I)
      PROVE  NthCell(J, n) = NthCell(I, n)
  <2> DEFINE i == NthCell(I, n)
  <2>1. i \in I /\ Cardinality(Before(I, i)) = n - 1
    BY NthCellFacts
  <2> HIDE DEF i
  <2>2. Before(J, i) = Before(I, i)
    BY <2>1 DEF Before
  <2>3. Cardinality(Before(J, i)) + 1 = n
    BY <2>1, <2>2
  <2>4. NthCell(J, n) = i
    BY <1>3, <2>1, <2>3
  <2> QED BY <2>4 DEF i
<1> QED BY <1>2, <1>3, <1>4, <1>5

LEMMA NthCellTail ==
  ASSUME NEW I \in SUBSET Nat, IsFiniteSet(I),
         NEW s \in I, \A j \in I : s <= j
  PROVE  /\ Cardinality(I \ {s}) = Cardinality(I) - 1
         /\ Cardinality(I) \in Nat \ {0}
         /\ NthCell(I, 1) = s
         /\ \A n \in 1 .. Cardinality(I) - 1 :
                NthCell(I \ {s}, n) = NthCell(I, n + 1)
<1> DEFINE J == I \ {s}
<1>1. J \in SUBSET Nat
  OBVIOUS
<1>2. IsFiniteSet(J) /\ Cardinality(J) = Cardinality(I) - 1
  BY FS_RemoveElement
<1>3. Cardinality(I) \in Nat \ {0}
  BY FS_CardinalityType, FS_EmptySet
<1>4. \A i \in J : NthCell(J, Cardinality(Before(J, i)) + 1) = i
  <2> HIDE DEF J
  <2> QED BY <1>1, <1>2, NthCellFacts
<1>5. Cardinality(Before(I, s)) = 0
  <2>1. Before(I, s) = {}
    <3>1. \A j \in I : j \in Nat /\ ~(j < s)
      OBVIOUS
    <3> QED BY <3>1 DEF Before
  <2> QED BY <2>1, FS_EmptySet
<1>6. NthCell(I, 1) = s
  BY <1>5, NthCellFacts
<1>7. ASSUME NEW n \in 1 .. Cardinality(I) - 1
      PROVE  NthCell(J, n) = NthCell(I, n + 1)
  <2> DEFINE i == NthCell(I, n + 1)
  <2>1. n + 1 \in 1 .. Cardinality(I) /\ (n + 1) - 1 = n /\ n >= 1
    BY <1>3
  <2>2. i \in I /\ Cardinality(Before(I, i)) = n
    BY <2>1, NthCellFacts
  <2> HIDE DEF i
  <2>3. i # s /\ i \in J
    BY <1>5, <2>1, <2>2
  <2>4. s \in Before(I, i) /\ Before(J, i) = Before(I, i) \ {s}
    BY <2>2, <2>3 DEF Before
  <2>5. IsFiniteSet(Before(I, i))
    <3>1. Before(I, i) \in SUBSET I
      BY DEF Before
    <3> QED BY <3>1, FS_Subset
  <2>6. Cardinality(Before(J, i)) = n - 1
    <3>1. Cardinality(Before(I, i) \ {s}) = Cardinality(Before(I, i)) - 1
      BY <2>4, <2>5, FS_RemoveElement
    <3> QED BY <2>2, <2>4, <3>1
  <2>7. NthCell(J, n) = i
    BY <1>4, <2>1, <2>3, <2>6
  <2> QED BY <2>7 DEF i
<1> QED BY <1>2, <1>3, <1>6, <1>7

-----------------------------------------------------------------------------
(* The shop implements BarberShop.  The lemmas about the single steps ask  *)
(* for no more than that the books are right (Books) and who is in the     *)
(* chair (Occupant), so that they serve both versions.                     *)

Books ==
    /\ \A c \in Waiting : FIFO[place[c]] = c
    /\ \A i \in InUse : FIFO[i] \in Waiting /\ place[FIFO[i]] = i
    /\ TAKEN = Cardinality(Waiting)
    /\ TAKEN = Cardinality(InUse)

QueueFact ==
  /\ InUse \in SUBSET Nat /\ IsFiniteSet(InUse)
  /\ Cardinality(InUse) = TAKEN /\ TAKEN \in Nat
  /\ QueueOrder \in Seq(Clients) /\ Len(QueueOrder) = TAKEN
  /\ \A n \in 1 .. TAKEN : /\ QueueOrder[n] = FIFO[NthCell(InUse, n)]
                           /\ QueueOrder[n] \in Waiting

LEMMA QueueFacts == TypeOK /\ Books => QueueFact
<1> SUFFICES ASSUME TypeOK, Books
             PROVE  QueueFact
  OBVIOUS
<1>1. InUse \in SUBSET Nat /\ IsFiniteSet(InUse)
  BY FiniteRoom, CountsAssumption DEF InUse, Cells
<1>2. Cardinality(InUse) = TAKEN /\ TAKEN \in Nat
  BY DEF Books, TypeOK
<1>3. ASSUME NEW n \in 1 .. TAKEN
      PROVE  /\ FIFO[NthCell(InUse, n)] \in Waiting
             /\ FIFO[NthCell(InUse, n)] \in Clients
             /\ QueueOrder[n] = FIFO[NthCell(InUse, n)]
  <2>1. NthCell(InUse, n) \in InUse
    BY <1>1, <1>2, NthCellFacts
  <2> QED BY <1>2, <2>1 DEF QueueOrder, Books, Waiting
<1>4. QueueOrder \in [1 .. TAKEN -> Clients]
  BY <1>2, <1>3 DEF QueueOrder
<1>5. QueueOrder \in Seq(Clients)
  BY <1>2, <1>4, SeqDef
<1>6. Len(QueueOrder) = TAKEN
  <2>1. 1 .. Len(QueueOrder) = 1 .. TAKEN /\ Len(QueueOrder) \in Nat
    BY <1>4, <1>5, LenProperties
  <2> QED BY <1>2, <2>1
<1> QED BY <1>1, <1>2, <1>3, <1>5, <1>6 DEF QueueFact

LEMMA QueueFactsPrimed == TypeOK' /\ Books' => QueueFact'
  BY QueueFacts, PTL

(* Who is in the barber's chair.                                           *)
Occupant(k) == \A c \in Clients : cpc[c] \in ChairPCs <=> c = k

ChairFact(k) == ChairOf = IF Partner(k) \in {"nobody", "rise", "rise_2"}
                          THEN NoClient ELSE k

LEMMA ChairFacts ==
  ASSUME NEW k \in Clients \cup {NoClient}
  PROVE  Occupant(k) => ChairFact(k)
<1> SUFFICES ASSUME Occupant(k)
             PROVE  ChairFact(k)
  OBVIOUS
<1>1. \A c \in Clients : c \in InChair /\ c \notin Waiting
         <=> c = k /\ Partner(k) \notin {"rise", "rise_2"}
  BY DEF Occupant, ChairPCs, InChair, Waiting, Partner
<1>2. Partner(k) = "nobody" <=> k \notin Clients
  BY DEF Partner, Occupant, ChairPCs
<1>3. \A c \in InChair : c \in Clients
  BY DEF InChair
<1> QED BY <1>1, <1>2, <1>3 DEF ChairOf, ChairFact

LEMMA ChairFactsPrimed ==
  ASSUME NEW k \in Clients \cup {NoClient}
  PROVE  Occupant(k)' => ChairFact(k)'
  BY ChairFacts, PTL

(* A client who sits down is the last in the queue.                        *)
LEMMA SitArrives ==
  ASSUME TypeOK, TypeOK', Books, Books',
         NEW k \in Clients \cup {NoClient}, Occupant(k),
         NEW c \in Clients, Sit(c),
         PlaceOf \in Cells, \A j \in InUse : j < PlaceOf
  PROVE  Shop!Arrive(c)
<1> DEFINE s == PlaceOf
<1>1. /\ cpc[c] = "enter" /\ cpc' = [cpc EXCEPT ![c] = "seated"]
      /\ SLEEPY = 0 /\ SLEEPY' = 0 /\ TAKEN < Chairs /\ TAKEN' = TAKEN + 1
      /\ FIFO' = [FIFO EXCEPT ![s] = c]
  BY DEF Sit, CStep
<1>2. /\ s \in Cells /\ s \in Nat /\ \A j \in InUse : j < s
  BY CountsAssumption DEF Cells
<1> HIDE DEF s
<1>3. InUse' = InUse \cup {s} /\ s \notin InUse
  <2>1. s \notin InUse
    BY <1>2
  <2> QED BY <1>1, <1>2, <2>1, ClientsAssumption DEF InUse, TypeOK
<1>4. QueueFact /\ QueueFact'
  BY QueueFacts, QueueFactsPrimed
<1>5. /\ Cardinality(InUse) = TAKEN
      /\ \A n \in 1 .. TAKEN : NthCell(InUse', n) = NthCell(InUse, n)
      /\ NthCell(InUse', TAKEN + 1) = s
  BY <1>2, <1>3, <1>4, NthCellAppend DEF QueueFact
<1>6. QueueOrder' = Append(QueueOrder, c)
  <2>1. /\ Append(QueueOrder, c) \in Seq(Clients)
        /\ Len(Append(QueueOrder, c)) = TAKEN + 1
        /\ \A n \in 1 .. TAKEN : Append(QueueOrder, c)[n] = QueueOrder[n]
        /\ Append(QueueOrder, c)[TAKEN + 1] = c
    BY <1>4, AppendProperties DEF QueueFact
  <2>2. QueueOrder' \in Seq(Clients) /\ Len(QueueOrder') = TAKEN + 1
    BY <1>1, <1>4 DEF QueueFact
  <2>3. ASSUME NEW n \in 1 .. TAKEN
        PROVE  QueueOrder'[n] = QueueOrder[n]
    <3>1. n \in 1 .. TAKEN'
      BY <1>1, <1>4 DEF QueueFact
    <3>2. NthCell(InUse, n) \in InUse
      BY <1>4, NthCellFacts DEF QueueFact
    <3>3. FIFO'[NthCell(InUse, n)] = FIFO[NthCell(InUse, n)]
      BY <1>1, <1>3, <3>2 DEF TypeOK, InUse
    <3> QED BY <1>4, <1>5, <3>1, <3>3 DEF QueueFact
  <2>4. QueueOrder'[TAKEN + 1] = c
    <3>1. TAKEN + 1 \in 1 .. TAKEN'
      BY <1>1, <1>4 DEF QueueFact
    <3>2. FIFO'[s] = c
      BY <1>1, <1>2 DEF TypeOK
    <3> QED BY <1>4, <1>5, <3>1, <3>2 DEF QueueFact
  <2>5. \A n \in 1 .. TAKEN + 1 : n \in 1 .. TAKEN \/ n = TAKEN + 1
    BY <1>4 DEF QueueFact
  <2> QED BY <2>1, <2>2, <2>3, <2>4, <2>5, SeqEqual
<1>8. c # k /\ cpc'[c] \notin ChairPCs /\ Partner(k)' = Partner(k)
  BY <1>1 DEF Occupant, ChairPCs, Partner, TypeOK
<1>9. ChairOf # c /\ ChairOf' = ChairOf
  <2>1. ChairOf # c
    BY <1>8, ChairFacts, ClientsAssumption DEF ChairFact
  <2>2. InChair' = InChair /\ \A d \in InChair : d \in Waiting' <=> d \in Waiting
    BY <1>1 DEF InChair, Waiting, TypeOK
  <2> QED BY <2>1, <2>2 DEF ChairOf
<1>10. ~Shop!Waits(c)
  <2>1. c \notin Waiting
    BY <1>1 DEF Waiting
  <2> QED BY <1>4, <2>1 DEF Shop!Waits, QueueFact
<1> QED BY <1>1, <1>4, <1>6, <1>9, <1>10 DEF Shop!Arrive, QueueFact

(* A client who gets up is the first in the queue.                         *)
LEMMA LeaveSeatCalls ==
  ASSUME TypeOK, TypeOK', Books, Books', SLEEPY = 0,
         NEW c \in Clients, Occupant(c), LeaveSeat(c),
         \A i \in InUse : place[c] <= i
  PROVE  Shop!CallNext
<1> DEFINE s == place[c]
<1>1. /\ cpc[c] = "rise_2" /\ cpc' = [cpc EXCEPT ![c] = "rise_unlock"]
      /\ TAKEN' = TAKEN - 1 /\ FIFO' = [FIFO EXCEPT ![s] = NoClient]
      /\ UNCHANGED <<bpc, client_number, SLEEPY>>
  BY DEF LeaveSeat, CStep, bvars
<1>4. /\ s \in InUse /\ FIFO[s] = c /\ \A i \in InUse : s <= i
  BY <1>1, ClientsAssumption DEF Books, Waiting, InUse, TypeOK
<1> HIDE DEF s
<1>5. InUse' = InUse \ {s}
  BY <1>1, <1>4 DEF InUse, TypeOK
<1>6. QueueFact /\ QueueFact'
  BY QueueFacts, QueueFactsPrimed
<1>7. /\ TAKEN \in Nat \ {0} /\ NthCell(InUse, 1) = s
      /\ \A n \in 1 .. TAKEN - 1 :
             NthCell(InUse', n) = NthCell(InUse, n + 1)
  <2>1. /\ Cardinality(InUse) \in Nat \ {0} /\ NthCell(InUse, 1) = s
        /\ \A n \in 1 .. Cardinality(InUse) - 1 :
               NthCell(InUse \ {s}, n) = NthCell(InUse, n + 1)
    <3>1. InUse \in SUBSET Nat /\ IsFiniteSet(InUse)
      BY <1>6 DEF QueueFact
    <3> QED BY <1>4, <3>1, NthCellTail
  <2> QED BY <1>5, <1>6, <2>1 DEF QueueFact
<1>8. QueueOrder # <<>> /\ Head(QueueOrder) = c
  <2>1. QueueOrder # <<>>
    BY <1>6, <1>7, EmptySeq DEF QueueFact
  <2>2. Head(QueueOrder) = QueueOrder[1]
    BY <1>6, <2>1 DEF QueueFact
  <2> QED BY <1>4, <1>6, <1>7, <2>1, <2>2 DEF QueueFact
<1>9. QueueOrder' = Tail(QueueOrder)
  <2>1. /\ Tail(QueueOrder) \in Seq(Clients)
        /\ Len(Tail(QueueOrder)) = TAKEN - 1
        /\ \A n \in 1 .. TAKEN - 1 : Tail(QueueOrder)[n] = QueueOrder[n + 1]
    BY <1>6, <1>8, HeadTailProperties DEF QueueFact
  <2>2. QueueOrder' \in Seq(Clients) /\ Len(QueueOrder') = TAKEN - 1
    BY <1>1, <1>6 DEF QueueFact
  <2>3. ASSUME NEW n \in 1 .. TAKEN - 1
        PROVE  QueueOrder'[n] = QueueOrder[n + 1]
    <3>1. n \in 1 .. TAKEN' /\ n + 1 \in 1 .. TAKEN
      BY <1>1, <1>7
    <3>2. NthCell(InUse', n) \in InUse'
      BY <1>6, <3>1, NthCellFacts DEF QueueFact
    <3>3. FIFO'[NthCell(InUse', n)] = FIFO[NthCell(InUse, n + 1)]
      BY <1>1, <1>5, <1>7, <3>2 DEF TypeOK, InUse
    <3> QED BY <1>6, <3>1, <3>3 DEF QueueFact
  <2> QED BY <2>1, <2>2, <2>3, SeqEqual
<1>10. ChairOf = NoClient
  BY <1>1, ChairFacts DEF ChairFact, Partner
<1>11. ChairOf' = c
  <2>1. Occupant(c)'
    BY <1>1 DEF Occupant, ChairPCs, TypeOK
  <2>2. Partner(c)' = "rise_unlock"
    BY <1>1 DEF Partner, TypeOK
  <2> QED BY <2>1, <2>2, ChairFactsPrimed DEF ChairFact
<1> QED BY <1>1, <1>8, <1>9, <1>10, <1>11 DEF Shop!CallNext

LEMMA WakeWakes ==
  ASSUME TypeOK, Books, Occupant(NoClient), NEW c \in Clients, Wake(c)
  PROVE  Shop!WakeUp(c)
<1>1. /\ cpc[c] = "enter" /\ cpc' = [cpc EXCEPT ![c] = "wake"]
      /\ SLEEPY = 1 /\ SLEEPY' = 0 /\ UNCHANGED FIFO
  BY DEF Wake, CStep
<1>4. ChairOf = NoClient
  BY ChairFacts DEF ChairFact
<1>5. ChairOf' = c
  <2>1. Occupant(c)'
    BY <1>1, ClientsAssumption DEF Occupant, ChairPCs, TypeOK
  <2>2. Partner(c)' = "wake"
    BY <1>1 DEF Partner, TypeOK
  <2> QED BY <2>1, <2>2, ChairFactsPrimed DEF ChairFact
<1>6. UNCHANGED QueueOrder
  BY <1>1 DEF QueueOrder, InUse
<1>7. ~Shop!Waits(c)
  <2>1. c \notin Waiting
    BY <1>1 DEF Waiting
  <2> QED BY <2>1, QueueFacts DEF Shop!Waits, QueueFact
<1> QED BY <1>1, <1>4, <1>5, <1>6, <1>7 DEF Shop!WakeUp

LEMMA LeaveShopLeaves ==
  ASSUME TypeOK, NEW c \in Clients, Occupant(c), LeaveShop(c)
  PROVE  Shop!Leaves
<1>1. /\ cpc[c] = "hair_4" /\ cpc'[c] \in {"enter", "done"}
      /\ cpc' = [cpc EXCEPT ![c] = cpc'[c]] /\ UNCHANGED <<FIFO, SLEEPY>>
  BY DEF LeaveShop, CStep, memory, TypeOK
<1>3. ChairOf = c
  BY <1>1, ChairFacts DEF ChairFact, Partner
<1>4. ChairOf' = NoClient
  <2>1. \A d \in Clients : d \notin InChair'
    BY <1>1 DEF Occupant, ChairPCs, InChair, TypeOK
  <2>2. InChair' = {}
    BY <2>1 DEF InChair
  <2> QED BY <2>2 DEF ChairOf
<1>5. UNCHANGED QueueOrder
  BY <1>1 DEF QueueOrder, InUse
<1> QED BY <1>1, <1>3, <1>4, <1>5, ClientsAssumption DEF Shop!Leaves

LEMMA CheckSleepSleeps ==
  ASSUME TypeOK, Books, Occupant(NoClient), SLEEPY = 0, CheckSleep
  PROVE  Shop!FallAsleep
<1>1. /\ bpc = "check" /\ TAKEN = 0 /\ SLEEPY' = 1
      /\ UNCHANGED <<FIFO, cpc>>
  BY DEF CheckSleep, BStep, NobodyWaits, cvars
<1>4. ChairOf = NoClient
  BY ChairFacts DEF ChairFact
<1>5. QueueOrder = <<>>
  BY <1>1, QueueFacts, EmptySeq DEF QueueFact
<1>6. UNCHANGED <<QueueOrder, ChairOf>>
  BY <1>1 DEF QueueOrder, InUse, ChairOf, InChair, Waiting
<1> QED BY <1>1, <1>4, <1>5, <1>6 DEF Shop!FallAsleep

(* Whatever else a client or the barber does shows neither in the queue    *)
(* nor in the chair.                                                       *)
LEMMA BarberHides ==
  ASSUME Barber, ~CheckSleep
  PROVE  UNCHANGED Shop!bvars
<1>1. UNCHANGED <<FIFO, cpc>>
  BY BarberFrame DEF cvars
<1>2. SLEEPY' = SLEEPY
  BY DEF Barber, HaircutTime, CheckNext, Doze, DozeUnlock, WokenUp,
         UnlockNext, Invite, Meet, Seat, BeginCut, EndCut, LastMeet, Goodbye,
         memory
<1> QED BY <1>1, <1>2
        DEF Shop!bvars, QueueOrder, InUse, ChairOf, InChair, Waiting

LEMMA ClientHides ==
  ASSUME TypeOK, NEW c \in Clients, Client(c),
         ~Sit(c), ~LeaveSeat(c), ~Wake(c), ~LeaveShop(c)
  PROVE  UNCHANGED Shop!bvars
<1>1. UNCHANGED <<FIFO, SLEEPY>>
  BY DEF Client, Enter, ClientRest, NoSeat, TryAgain, Seated, Called, Rise,
         RiseUnlock, Greet, WakeGreet, WakeBarber, WakeUnlock, WakeWait,
         WakeSit, HairBegin, HairTaken, HairEnd, memory
<1>2. InChair' \ Waiting' = InChair \ Waiting
  BY DEF Client, Enter, ClientRest, NoSeat, TryAgain, Seated, Called, Rise,
         RiseUnlock, Greet, WakeGreet, WakeBarber, WakeUnlock, WakeWait,
         WakeSit, HairBegin, HairTaken, HairEnd, CStep, InChair, Waiting,
         TypeOK
<1>3. ChairOf' = ChairOf
  <2>1. ChairOf = IF \E d \in InChair \ Waiting : TRUE
                  THEN CHOOSE d : d \in InChair \ Waiting ELSE NoClient
    BY DEF ChairOf
  <2> QED BY <1>2, <2>1 DEF ChairOf
<1> QED BY <1>1, <1>3 DEF Shop!bvars, QueueOrder, InUse

LEMMA ShopStep == ~Posix /\ IInv /\ IInv' /\ [Next]_vars
                     => [Shop!ShopNext]_(Shop!bvars)
<1> SUFFICES ASSUME ~Posix, IInv, IInv', [Next]_vars
             PROVE  [Shop!ShopNext]_(Shop!bvars)
  OBVIOUS
<1>0. PICK k \in Clients \cup {NoClient} : Meeting(k)
  BY DEF IInv, MeetingInv
<1>a. /\ TypeOK /\ TypeOK' /\ RoomInv /\ Books /\ Books' /\ Occupant(k)
      /\ Partner(k) = "nobody" <=> k = NoClient
  BY <1>0, ClientsAssumption
     DEF IInv, RoomInv, Books, Meeting, Occupant, Partner, ChairPCs
<1>1. CASE Barber
  <2>1. CASE CheckSleep
    <3>1. SLEEPY = 0 /\ k = NoClient
      BY <1>0, <1>a, <2>1 DEF CheckSleep, BStep, Meeting, GoesWith, Bit
    <3> QED BY <1>a, <2>1, <3>1, CheckSleepSleeps DEF Shop!ShopNext
  <2> QED BY <1>1, <2>1, BarberHides
<1>2. ASSUME NEW c \in Clients, Client(c)
      PROVE  [Shop!ShopNext]_(Shop!bvars)
  <2>1. CASE Sit(c)
    <3>1. PlaceOf \in Cells /\ \A j \in InUse : j < PlaceOf
      BY <1>a, <2>1, PlaceFacts DEF Sit
    <3> QED BY <1>a, <2>1, <3>1, SitArrives DEF Shop!ShopNext
  <2>2. CASE LeaveSeat(c)
    <3>1. k = c /\ bpc = "meet" /\ client_number = c /\ SLEEPY = 0
      BY <1>0, <2>2 DEF LeaveSeat, CStep, Meeting, GoesWith, Partner,
                        ChairPCs, Bit
    <3>2. \A i \in InUse : place[c] <= i
      BY <1>a, <2>2, <3>1, ClientsAssumption
         DEF LeaveSeat, CStep, RoomInv, SomebodyCalled, Waiting
    <3> QED BY <1>a, <2>2, <3>1, <3>2, LeaveSeatCalls DEF Shop!ShopNext
  <2>3. CASE Wake(c)
    <3>1. k = NoClient
      BY <1>0, <1>a, <2>3
         DEF Wake, Meeting, GoesWith, Bit
    <3> QED BY <1>a, <2>3, <3>1, WakeWakes DEF Shop!ShopNext
  <2>4. CASE LeaveShop(c)
    <3>1. k = c
      BY <1>a, <2>4 DEF LeaveShop, CStep, Occupant, ChairPCs
    <3> QED BY <1>a, <2>4, <3>1, LeaveShopLeaves DEF Shop!ShopNext
  <2> QED BY <1>2, <1>a, <2>1, <2>2, <2>3, <2>4, ClientHides
<1>3. CASE UNCHANGED vars
  BY <1>3 DEF vars, memory, cvars, Shop!bvars, QueueOrder, InUse, ChairOf,
              InChair, Waiting
<1> QED BY <1>1, <1>2, <1>3, ClosedFrame DEF Next

(* task1 keeps what BarberShop promises: clients are served in the order   *)
(* in which they sat down, one at a time, at most Chairs of them wait, and *)
(* the barber falls asleep in an empty shop only.                          *)
THEOREM ImplementsShop ==
  ASSUME ~Posix
  PROVE  Spec => ShopRefinement
<1>1. Init => Shop!ShopInit
  <2> SUFFICES ASSUME Init
               PROVE  Shop!ShopInit
    OBVIOUS
  <2>1. TypeOK /\ Books /\ TAKEN = 0
    BY InitInv DEF Init, IInv, RoomInv, Books
  <2>2. QueueOrder = <<>>
    BY <2>1, QueueFacts, EmptySeq DEF QueueFact
  <2>3. InChair = {}
    BY DEF Init, InChair
  <2> QED BY <2>2, <2>3 DEF Init, Shop!ShopInit, ChairOf
<1>2. IInv /\ IInv' /\ [Next]_vars => [Shop!ShopNext]_(Shop!bvars)
  BY ShopStep
<1> QED BY <1>1, <1>2, Invariance, PTL DEF Spec, ShopRefinement, Shop!ShopSpec

-----------------------------------------------------------------------------
(* The POSIX version, task2.                                               *)

(* sem[0] is the same lock, now at 0 while it is held.                     *)
PosixLockInv ==
    /\ sem[0] \in {0, 1}
    /\ BarberHolds => sem[0] = 0
    /\ \A c \in Clients : Holds(c) => sem[0] = 0 /\ ~BarberHolds
    /\ \A c, d \in Clients : Holds(c) /\ Holds(d) => c = d

(* sem_post does not wait for the other side, so that the barber may be    *)
(* one place ahead of the client twice: he has called the client and waits *)
(* for it in the chair, and he has given it back both of its permits.      *)
PosixGoesWith(b, p) ==
    \/ GoesWith(b, p)
    \/ b = "seat" /\ p \in {"nobody", "rise", "rise_2", "rise_unlock", "greet"}
    \/ b = "goodbye" /\ p = "hair_2"

PosixMeeting(k) ==
    /\ \A c \in Clients : cpc[c] \in ChairPCs <=> c = k
    /\ PosixGoesWith(bpc, Partner(k))
    /\ sem[1] = 1 - Bit(Sem1(bpc, Partner(k)))
    /\ sem[2] = 1 - Bit(Sem2(bpc, Partner(k)))
                  + Bit(bpc = "goodbye" /\ Partner(k) = "hair_2")
    /\ sem[3] = 1 - Bit(Sem3(bpc, Partner(k)))
                  + Bit(/\ bpc = "seat"
                        /\ Partner(k) \in {"nobody", "rise", "rise_2",
                                           "rise_unlock", "greet"})
    /\ sem[4] = 1 - Bit(Sem4(bpc, Partner(k)))
    /\ k \in Clients => IF bpc = "asleep" THEN WAKER = k
                                          ELSE client_number = k
    /\ NEXT = IF bpc \in {"meet", "seat"} THEN client_number ELSE NoClient
    /\ SLEEPY = Bit(\/ bpc \in {"doze", "doze_unlock"}
                    \/ bpc = "asleep" /\ k \notin Clients)
    /\ GHOST = Bit(Partner(k) \in {"rise", "rise_2"})

PosixMeetingInv == \E k \in Clients \cup {NoClient} : PosixMeeting(k)

(* Only the cell behind the queue is used twice.                           *)
PosixCalled ==
    /\ bpc \in {"unlock", "invite", "meet", "seat"}
    /\ client_number # NoClient
    /\ client_number \in InChair => client_number \in Waiting

PosixRoomInv ==
    /\ \A c \in Waiting : /\ place[c] <= FifoLen
                          /\ place[c] < FifoLen => FIFO[place[c]] = c
    /\ \A i \in InUse : FIFO[i] \in Waiting /\ place[FIFO[i]] = i
    /\ TAKEN = Cardinality(Waiting)
    /\ TAKEN <= Chairs
    /\ PosixCalled => /\ client_number \in Waiting
                      /\ \A i \in InUse : place[client_number] <= i

(* The semaphores a client has used on its way to a place.                 *)
UsedBy(pc) ==
    {s \in Semaphores :
        \/ s = 0 /\ pc \notin {"enter", "done"}
        \/ s = 1 /\ pc \in {"hair_2", "hair_3", "hair_4"}
        \/ s = 2 /\ pc \in {"rise_unlock", "greet", "hair_1", "hair_2",
                            "hair_3", "hair_4"}
        \/ s = 3 /\ pc \in {"hair_1", "hair_2", "hair_3", "hair_4", "wake_4",
                            "wake_unlock", "wake_wait", "wake_2"}
        \/ s = 4 /\ pc \in {"wake_unlock", "wake_wait", "wake_2"}}

(* Nobody gets past a semaphore that it has not got.                       *)
OpenedInv ==
    /\ made \in 0 .. Ready
    /\ tried \in 0 .. 5 /\ opened \subseteq Semaphores
    /\ program = "off" => tried = 0
    /\ program = "opening" => tried \in Semaphores
    /\ \A c \in Clients : UsedBy(cpc[c]) \subseteq opened

PosixInv ==
    /\ TypeOK /\ PosixLockInv /\ PosixMeetingInv /\ PosixRoomInv /\ WantsMore
    /\ EmptyInvitationMeansLoss /\ OpenedInv

(* What a client may do to the memory and the semaphores.                  *)
PosixClient(c) == Client(c) \/ NoChairsYet(c)

LEMMA PosixSteps ==
  ASSUME [PosixNext]_allvars
  PROVE  Barber \/ (\E c \in Clients : PosixClient(c)) \/ UNCHANGED vars
<1>1. MakeNext \/ BarberInterrupted \/ SecondInterrupted \/ Refused
      \/ Attach \/ OpenNext \/ Standstill
      \/ (\E c \in Clients : Fault(c) \/ ClientInterrupted(c))
      \/ UNCHANGED allvars
        => UNCHANGED vars
  BY DEF MakeNext, BarberInterrupted, SecondInterrupted, Refused, Attach,
         OpenNext, Standstill, Fault, ClientInterrupted, allvars
<1>2. BarberProcess => Barber
  BY DEF BarberProcess, BarberLoop, BarberHaircut, Barber, HaircutTime
<1>3. ASSUME NEW c \in Clients, ClientProcess(c)
      PROVE  PosixClient(c)
  BY <1>3 DEF ClientProcess, ClientLoop, ClientHaircut, PosixClient, Client,
              Enter, ClientRest
<1> QED BY <1>1, <1>2, <1>3 DEF PosixNext

LEMMA PosixClientFrame ==
  ASSUME NEW c \in Clients, PosixClient(c)
  PROVE  UNCHANGED <<NEXT, bvars>>
  BY ClientFrame DEF PosixClient, NoChairsYet, memory

-----------------------------------------------------------------------------
(* The meeting when a post does not wait.                                  *)

LEMMA PosixBarberMeeting ==
  ASSUME Posix, TypeOK, PosixLockInv, PosixMeetingInv, Barber
  PROVE  PosixMeetingInv'
<1> PICK k \in Clients \cup {NoClient} : PosixMeeting(k)
  BY DEF PosixMeetingInv
<1> SUFFICES PosixMeeting(k)'
  BY DEF PosixMeetingInv
<1>1. /\ UNCHANGED <<cpc, WAKER, GHOST>> /\ Partner(k)' = Partner(k)
      /\ sem \in [0 .. 4 -> Nat]
  BY BarberFrame DEF cvars, Partner, TypeOK
<1>a. Partner(k) = "nobody" <=> k \notin Clients
  BY DEF Partner, PosixMeeting, ChairPCs
<1> USE <1>1, <1>a DEF PosixMeeting, PosixGoesWith, GoesWith,
                  Sem1, Sem2, Sem3, Sem4, Bit, BStep,
                 Add, Subtract, WaitZero, WaitZeroAdd, memory, sem_wait, sem_post,
                 SpinUntilFree, PollAndWait
<1>2. CASE CheckSleep
  BY <1>2 DEF CheckSleep
<1>3. CASE CheckNext
  BY <1>3 DEF CheckNext
<1>4. CASE Doze
  BY <1>4 DEF Doze
<1>5. CASE DozeUnlock
  BY <1>5 DEF DozeUnlock
<1>6. CASE WokenUp
  BY <1>6 DEF WokenUp, Partner
<1>7. CASE UnlockNext
  BY <1>7 DEF UnlockNext
<1>8. CASE Invite
  BY <1>8 DEF Invite
<1>9. CASE Meet
  BY <1>9 DEF Meet
<1>10. CASE Seat
  BY <1>10 DEF Seat
<1>11. CASE BeginCut
  BY <1>11 DEF BeginCut
<1>12. CASE EndCut
  BY <1>12 DEF EndCut
<1>13. CASE LastMeet
  BY <1>13 DEF LastMeet
<1>14. CASE Goodbye
  BY <1>14, ClientsAssumption DEF Goodbye, Partner
<1> QED BY <1>2, <1>3, <1>4, <1>5, <1>6, <1>7, <1>8, <1>9, <1>10, <1>11,
           <1>12, <1>13, <1>14 DEF Barber, HaircutTime

LEMMA PosixClientMeeting ==
  ASSUME Posix, TypeOK, PosixLockInv, PosixMeetingInv,
         NEW c \in Clients, PosixClient(c)
  PROVE  PosixMeetingInv'
<1> PICK k \in Clients \cup {NoClient} : PosixMeeting(k)
  BY DEF PosixMeetingInv
<1>1. /\ UNCHANGED <<bpc, client_number, NEXT>>
      /\ sem \in [0 .. 4 -> Nat] /\ cpc \in [Clients -> ClientPCs]
      /\ NoClient \notin Clients
  BY PosixClientFrame, ClientsAssumption DEF bvars, TypeOK
<1>2. /\ Partner(k) = "nobody" <=> k \notin Clients
      /\ \A d \in Clients : cpc[d] \in ChairPCs <=> d = k
  BY DEF Partner, PosixMeeting, ChairPCs
<1> USE <1>1, <1>2 DEF CStep, memory, Add, Subtract, WaitZero, WaitZeroAdd,
             sem_wait, sem_post, SpinUntilFree, PollAndWait
(* Clients who are not in the chair touch sem[0] only.                     *)
<1>3. CASE Sit(c) \/ NoSeat(c) \/ NoChairsYet(c) \/ TryAgain(c) \/ Seated(c)
  <2>1. c # k /\ cpc'[c] \notin ChairPCs
    BY <1>3 DEF Sit, NoSeat, NoChairsYet, TryAgain, Seated, ChairPCs
  <2>2. /\ Partner(k)' = Partner(k) /\ \A d \in Clients \ {c} : cpc'[d] = cpc[d]
    BY <1>3, <2>1 DEF Sit, NoSeat, NoChairsYet, TryAgain, Seated, Partner
  <2>3. /\ UNCHANGED <<WAKER, SLEEPY, GHOST>>
        /\ \A s \in 1 .. 4 : sem'[s] = sem[s]
    BY <1>3 DEF Sit, NoSeat, NoChairsYet, TryAgain, Seated
  <2>4. PosixMeeting(k)'
    BY <2>1, <2>2, <2>3 DEF PosixMeeting, PosixGoesWith, GoesWith, Sem1, Sem2, Sem3, Sem4, Bit
  <2> QED BY <2>4 DEF PosixMeetingInv
(* Two ways to the chair.                                                  *)
<1>4. CASE Called(c)
  <2>1. bpc \in {"meet", "seat"} /\ client_number = c /\ k \notin Clients
    BY <1>4 DEF Called, PosixMeeting, PosixGoesWith, GoesWith, ChairPCs
  <2>2. /\ Partner(c)' = "rise" /\ GHOST' = 1
        /\ \A d \in Clients \ {c} : cpc'[d] = cpc[d]
    BY <1>4, <2>1 DEF Called, Partner, PosixMeeting, Bit
  <2>3. PosixMeeting(c)'
    BY <1>4, <2>1, <2>2 DEF Called, PosixMeeting, PosixGoesWith, GoesWith, Sem1, Sem2, Sem3,
                            Sem4, Bit, ChairPCs
  <2> QED BY <2>3 DEF PosixMeetingInv
<1>5. CASE Wake(c)
  <2>1. bpc = "asleep" /\ k \notin Clients
    BY <1>5 DEF Wake, PosixMeeting, Bit, PosixLockInv, BarberHolds
  <2>2. /\ Partner(c)' = "wake" /\ WAKER' = c
        /\ \A d \in Clients \ {c} : cpc'[d] = cpc[d]
    BY <1>5 DEF Wake, Partner
  <2>3. PosixMeeting(c)'
    BY <1>5, <2>1, <2>2 DEF Wake, PosixMeeting, PosixGoesWith, GoesWith, Sem1, Sem2, Sem3,
                            Sem4, Bit, ChairPCs
  <2> QED BY <2>3 DEF PosixMeetingInv
<1>6. CASE Rise(c)
  <2>1. PosixMeeting(c)'
    BY <1>6 DEF Rise, PosixMeeting, PosixGoesWith, GoesWith, Sem1, Sem2, Sem3, Sem4, Bit,
                ChairPCs, Partner
  <2> QED BY <2>1 DEF PosixMeetingInv
<1>7. CASE LeaveSeat(c)
  <2>1. PosixMeeting(c)'
    BY <1>7 DEF LeaveSeat, PosixMeeting, PosixGoesWith, GoesWith, Sem1, Sem2, Sem3, Sem4, Bit,
                ChairPCs, Partner
  <2> QED BY <2>1 DEF PosixMeetingInv
<1>8. CASE RiseUnlock(c)
  <2>1. PosixMeeting(c)'
    BY <1>8 DEF RiseUnlock, PosixMeeting, PosixGoesWith, GoesWith, Sem1, Sem2, Sem3, Sem4, Bit,
                ChairPCs, Partner
  <2> QED BY <2>1 DEF PosixMeetingInv
<1>9. CASE Greet(c)
  <2>1. PosixMeeting(c)'
    BY <1>9 DEF Greet, PosixMeeting, PosixGoesWith, GoesWith, Sem1, Sem2, Sem3, Sem4, Bit,
                ChairPCs, Partner
  <2> QED BY <2>1 DEF PosixMeetingInv
<1>10. CASE WakeGreet(c)
  <2>1. PosixMeeting(c)'
    BY <1>10 DEF WakeGreet, PosixMeeting, PosixGoesWith, GoesWith, Sem1, Sem2, Sem3, Sem4, Bit,
                ChairPCs, Partner
  <2> QED BY <2>1 DEF PosixMeetingInv
<1>11. CASE WakeBarber(c)
  <2>1. PosixMeeting(c)'
    BY <1>11 DEF WakeBarber, PosixMeeting, PosixGoesWith, GoesWith, Sem1, Sem2, Sem3, Sem4, Bit,
                ChairPCs, Partner
  <2> QED BY <2>1 DEF PosixMeetingInv
<1>12. CASE WakeUnlock(c)
  <2>1. PosixMeeting(c)'
    BY <1>12 DEF WakeUnlock, PosixMeeting, PosixGoesWith, GoesWith, Sem1, Sem2, Sem3, Sem4, Bit,
                ChairPCs, Partner
  <2> QED BY <2>1 DEF PosixMeetingInv
<1>13. CASE WakeWait(c)
  <2>1. PosixMeeting(c)'
    BY <1>13 DEF WakeWait, PosixMeeting, PosixGoesWith, GoesWith, Sem1, Sem2, Sem3, Sem4, Bit,
                ChairPCs, Partner
  <2> QED BY <2>1 DEF PosixMeetingInv
<1>14. CASE WakeSit(c)
  <2>1. PosixMeeting(c)'
    BY <1>14 DEF WakeSit, PosixMeeting, PosixGoesWith, GoesWith, Sem1, Sem2, Sem3, Sem4, Bit,
                ChairPCs, Partner
  <2> QED BY <2>1 DEF PosixMeetingInv
<1>15. CASE HairBegin(c)
  <2>1. PosixMeeting(c)'
    BY <1>15 DEF HairBegin, PosixMeeting, PosixGoesWith, GoesWith, Sem1, Sem2, Sem3, Sem4, Bit,
                ChairPCs, Partner
  <2> QED BY <2>1 DEF PosixMeetingInv
<1>16. CASE HairTaken(c)
  <2>1. PosixMeeting(c)'
    BY <1>16 DEF HairTaken, PosixMeeting, PosixGoesWith, GoesWith, Sem1, Sem2, Sem3, Sem4, Bit,
                ChairPCs, Partner
  <2> QED BY <2>1 DEF PosixMeetingInv
<1>17. CASE HairEnd(c)
  <2>1. PosixMeeting(c)'
    BY <1>17 DEF HairEnd, PosixMeeting, PosixGoesWith, GoesWith, Sem1, Sem2, Sem3, Sem4, Bit,
                ChairPCs, Partner
  <2> QED BY <2>1 DEF PosixMeetingInv
(* The way out.                                                            *)
<1>18. CASE LeaveShop(c)
  <2>1. c = k /\ bpc = "goodbye"
    BY <1>18 DEF LeaveShop, PosixMeeting, PosixGoesWith, GoesWith, ChairPCs, Partner
  <2>2. Partner(NoClient)' = "nobody"
    BY DEF Partner
  <2>3. /\ \A d \in Clients \ {c} : cpc'[d] = cpc[d]
        /\ cpc'[c] \notin ChairPCs
    BY <1>18 DEF LeaveShop, ChairPCs
  <2>4. PosixMeeting(NoClient)'
    BY <1>18, <2>1, <2>2, <2>3
       DEF LeaveShop, PosixMeeting, PosixGoesWith, GoesWith, Sem1, Sem2, Sem3, Sem4, Bit, Partner
  <2> QED BY <2>4 DEF PosixMeetingInv
<1> QED BY <1>3, <1>4, <1>5, <1>6, <1>7, <1>8, <1>9, <1>10, <1>11, <1>12, <1>13, <1>14, <1>15, <1>16, <1>17, <1>18
        DEF PosixClient, Client, Enter, ClientRest

-----------------------------------------------------------------------------
(* The lock when it is taken by sem_wait.                                  *)

LEMMA PosixBarberLock ==
  ASSUME Posix, TypeOK, PosixLockInv, Barber
  PROVE  PosixLockInv'
<1>1. UNCHANGED cpc /\ sem \in [0 .. 4 -> Nat]
  BY BarberFrame DEF cvars, TypeOK
<1>2. \A c \in Clients : Holds(c)' <=> Holds(c)
  BY <1>1 DEF Holds
<1> USE <1>1, <1>2 DEF PosixLockInv, BarberHolds, BStep, Add, Subtract,
                       WaitZero, WaitZeroAdd, sem_wait, sem_post,
                       SpinUntilFree, PollAndWait
<1>3. CASE CheckSleep \/ CheckNext
  BY <1>3 DEF CheckSleep, CheckNext
<1>4. CASE DozeUnlock \/ UnlockNext
  BY <1>4 DEF DozeUnlock, UnlockNext
<1>5. CASE Doze \/ WokenUp \/ HaircutTime
  <2>1. sem'[0] = sem[0] /\ (BarberHolds' <=> BarberHolds)
    BY <1>5 DEF Doze, WokenUp, HaircutTime, Invite, Meet, Seat, BeginCut,
                EndCut, LastMeet, Goodbye
  <2> QED BY <2>1
<1> QED BY <1>3, <1>4, <1>5 DEF Barber

LEMMA PosixClientLock ==
  ASSUME Posix, TypeOK, PosixLockInv, NEW c \in Clients, PosixClient(c)
  PROVE  PosixLockInv'
<1>1. /\ UNCHANGED bpc /\ sem \in [0 .. 4 -> Nat]
      /\ cpc \in [Clients -> ClientPCs]
  BY PosixClientFrame DEF bvars, TypeOK
<1>2. \A d \in Clients \ {c} : Holds(d)' <=> Holds(d)
  BY <1>1 DEF Holds, PosixClient, NoChairsYet, Client, Enter, ClientRest,
              CStep, Sit, NoSeat, TryAgain, Seated, Called, Rise, LeaveSeat,
              RiseUnlock, Greet, Wake, WakeGreet, WakeBarber, WakeUnlock,
              WakeWait, WakeSit, HairBegin, HairTaken, HairEnd, LeaveShop
<1> USE <1>1 DEF CStep, Add, Subtract, WaitZero, WaitZeroAdd, sem_wait,
                 sem_post, SpinUntilFree, PollAndWait
<1>3. CASE Sit(c) \/ NoSeat(c) \/ NoChairsYet(c) \/ Rise(c) \/ Wake(c)
  <2>1. sem[0] > 0 /\ sem'[0] = sem[0] - 1
    BY <1>3 DEF Sit, NoSeat, NoChairsYet, Rise, Wake
  <2> QED BY <1>2, <2>1 DEF PosixLockInv, BarberHolds
<1>4. CASE TryAgain(c) \/ Seated(c) \/ RiseUnlock(c) \/ WakeUnlock(c)
  <2>1. Holds(c) /\ ~Holds(c)' /\ sem'[0] = sem[0] + 1
    BY <1>4 DEF TryAgain, Seated, RiseUnlock, WakeUnlock, Holds
  <2> QED BY <1>2, <2>1 DEF PosixLockInv, BarberHolds
<1>5. CASE \/ Called(c) \/ LeaveSeat(c) \/ Greet(c) \/ WakeGreet(c)
           \/ WakeBarber(c) \/ WakeWait(c) \/ WakeSit(c) \/ HairBegin(c)
           \/ HairTaken(c) \/ HairEnd(c) \/ LeaveShop(c)
  <2>1. sem'[0] = sem[0] /\ (Holds(c)' <=> Holds(c))
    BY <1>5 DEF Called, LeaveSeat, Greet, WakeGreet, WakeBarber, WakeWait,
                WakeSit, HairBegin, HairTaken, HairEnd, LeaveShop, Holds
  <2> QED BY <1>2, <2>1 DEF PosixLockInv, BarberHolds
<1> QED BY <1>3, <1>4, <1>5 DEF PosixClient, Client, Enter, ClientRest

-----------------------------------------------------------------------------
(* The waiting room with a queue that may be too short.                    *)

(* Each cell in use is some waiting client's.                              *)
LEMMA PosixUsedCells ==
  ASSUME TypeOK, PosixRoomInv
  PROVE  /\ InUse \in SUBSET (0 .. FifoLen)
         /\ Cardinality(InUse) <= TAKEN /\ TAKEN \in Nat
<1>1. InUse \in SUBSET (0 .. FifoLen)
  BY CountsAssumption DEF PosixRoomInv, InUse, Cells, Waiting
<1> DEFINE f == [i \in InUse |-> FIFO[i]]
<1>2. f \in Injection(InUse, Waiting)
  <2>1. f \in [InUse -> Waiting]
    BY DEF PosixRoomInv
  <2>2. \A i, j \in InUse : f[i] = f[j] => i = j
    BY DEF PosixRoomInv
  <2> QED BY <2>1, <2>2 DEF Injection, IsInjective
<1>3. Cardinality(InUse) <= Cardinality(Waiting)
  <2> HIDE DEF f
  <2> QED BY <1>2, FiniteRoom, FS_Injection
<1> QED BY <1>1, <1>3 DEF PosixRoomInv, TypeOK

(* Sit stops at a free cell behind all that are in use, or at the cell     *)
(* behind the queue.                                                       *)
LEMMA PosixPlaceFacts ==
  ASSUME Posix, TypeOK, PosixRoomInv
  PROVE  /\ PlaceOf \in Cells /\ PlaceOf \in 0 .. FifoLen
         /\ \A j \in InUse : j <= PlaceOf
         /\ PlaceOf < FifoLen => /\ PlaceOf \notin InUse
                                 /\ Cardinality(InUse) = TAKEN
<1> USE CountsAssumption
<1>1. FifoLen \in Cells /\ StopsAt(FifoLen) /\ Cells \subseteq Nat
  BY DEF Cells, StopsAt
<1>3. PlaceOf \in Cells /\ StopsAt(PlaceOf) /\ PlaceOf <= FifoLen
  BY <1>1, PlaceIsFirst
<1>4. PlaceOf \in 0 .. FifoLen
  BY <1>1, <1>3 DEF Cells
<1>5. ASSUME PlaceOf < FifoLen
      PROVE  /\ PlaceOf \notin InUse
             /\ \A j \in InUse : j < PlaceOf
             /\ Cardinality(InUse) = TAKEN
  <2> DEFINE B == {j \in InUse : j < PlaceOf}
  <2>1. FIFO[PlaceOf] = NoClient /\ Cardinality(B) >= TAKEN
    BY <1>3, <1>4, <1>5 DEF StopsAt, FreePlace
  <2>2. B \in SUBSET InUse
    OBVIOUS
  <2>3. /\ Cardinality(B) <= Cardinality(InUse) /\ Cardinality(B) \in Nat
        /\ Cardinality(InUse) \in Nat
        /\ Cardinality(InUse) = Cardinality(B) => InUse = B
    BY <2>2, FiniteRoom, FS_Subset, FS_CardinalityType
  <2>4. Cardinality(B) = Cardinality(InUse) /\ Cardinality(InUse) = TAKEN
    <3> HIDE DEF B
    <3> QED BY <2>1, <2>3, PosixUsedCells
  <2>5. InUse = B
    BY <2>3, <2>4
  <2> QED BY <2>1, <2>4, <2>5 DEF InUse
<1> QED BY <1>3, <1>4, <1>5, PosixUsedCells

LEMMA PosixBarberTypeOK ==
  ASSUME Posix, TypeOK, Barber
  PROVE  TypeOK'
<1>1. /\ sem' \in [0 .. 4 -> Nat] /\ bpc' \in BarberPCs
      /\ client_number' \in Clients \cup {NoClient}
      /\ SLEEPY' \in {0, 1} /\ NEXT' \in Clients \cup {NoClient}
  BY FirstInUseFacts
     DEF TypeOK, Barber, HaircutTime, CheckSleep, CheckNext, Doze, DozeUnlock,
         WokenUp, UnlockNext, Invite, Meet, Seat, BeginCut, EndCut, LastMeet,
         Goodbye, BStep, BarberPCs, Add, Subtract, WaitZero, WaitZeroAdd,
         sem_wait, sem_post, SpinUntilFree, PollAndWait, memory
<1> QED BY <1>1, BarberFrame DEF TypeOK, cvars

LEMMA PosixClientTypeOK ==
  ASSUME Posix, TypeOK, PosixMeetingInv, PosixRoomInv, WantsMore,
         NEW c \in Clients, PosixClient(c)
  PROVE  TypeOK' /\ WantsMore'
<1>2. UNCHANGED <<NEXT, bvars>>
  BY PosixClientFrame
<1>3. sem' \in [0 .. 4 -> Nat]
  BY DEF TypeOK, PosixClient, NoChairsYet, Client, Enter, ClientRest, Sit,
         NoSeat, TryAgain, Seated, Called, Rise, LeaveSeat, RiseUnlock, Greet,
         Wake, WakeGreet, WakeBarber, WakeUnlock, WakeWait, WakeSit,
         HairBegin, HairTaken, HairEnd, LeaveShop, Add, Subtract, WaitZero,
         WaitZeroAdd, sem_wait, sem_post, SpinUntilFree, PollAndWait
<1>4. cpc' \in [Clients -> ClientPCs]
  BY DEF TypeOK, PosixClient, NoChairsYet, Client, Enter, ClientRest, Sit,
         NoSeat, TryAgain, Seated, Called, Rise, LeaveSeat, RiseUnlock, Greet,
         Wake, WakeGreet, WakeBarber, WakeUnlock, WakeWait, WakeSit,
         HairBegin, HairTaken, HairEnd, LeaveShop, CStep, ClientPCs
<1>5. SLEEPY' \in {0, 1} /\ WAKER' \in Clients \cup {NoClient}
  BY DEF TypeOK, PosixClient, NoChairsYet, Client, Enter, ClientRest, Sit,
         NoSeat, TryAgain, Seated, Called, Rise, LeaveSeat, RiseUnlock, Greet,
         Wake, WakeGreet, WakeBarber, WakeUnlock, WakeWait, WakeSit,
         HairBegin, HairTaken, HairEnd, LeaveShop, memory
<1>6. /\ TAKEN' \in Nat /\ GHOST' \in Nat
      /\ FIFO' \in [Cells -> Clients \cup {NoClient}]
      /\ place' \in [Clients -> Cells]
  <2>1. CASE Sit(c)
    BY <2>1, PosixPlaceFacts DEF Sit, TypeOK
  <2>2. CASE LeaveSeat(c)
    <3>1. GHOST = 1
      BY <2>2 DEF LeaveSeat, CStep, PosixMeetingInv, PosixMeeting, ChairPCs,
                  Partner, Bit
    <3>2. TAKEN # 0
      <4>1. c \in Waiting
        BY <2>2 DEF LeaveSeat, CStep, Waiting
      <4> QED BY <4>1, FiniteRoom, FS_EmptySet DEF PosixRoomInv
    <3> QED BY <2>2, <3>1, <3>2 DEF LeaveSeat, TypeOK
  <2>3. ASSUME ~Sit(c), ~LeaveSeat(c)
        PROVE  /\ UNCHANGED <<TAKEN, FIFO, place>>
               /\ GHOST' \in {GHOST, GHOST + 1}
    BY <2>3 DEF PosixClient, NoChairsYet, Client, Enter, ClientRest, NoSeat,
                TryAgain, Seated, Called, Rise, RiseUnlock, Greet, Wake,
                WakeGreet, WakeBarber, WakeUnlock, WakeWait, WakeSit,
                HairBegin, HairTaken, HairEnd, LeaveShop, memory
  <2> QED BY <2>1, <2>2, <2>3 DEF TypeOK
<1>7. done' \in [Clients -> 0 .. Cuts] /\ WantsMore'
  <2>1. CASE LeaveShop(c)
    BY <2>1, CountsAssumption DEF LeaveShop, CStep, TypeOK, WantsMore
  <2>2. ASSUME ~LeaveShop(c)
        PROVE  /\ done' = done
               /\ \A d \in Clients : cpc[d] = "done" <=> cpc'[d] = "done"
    BY <2>2
       DEF TypeOK, PosixClient, NoChairsYet, Client, Enter, ClientRest, Sit,
           NoSeat, TryAgain, Seated, Called, Rise, LeaveSeat, RiseUnlock,
           Greet, Wake, WakeGreet, WakeBarber, WakeUnlock, WakeWait, WakeSit,
           HairBegin, HairTaken, HairEnd, CStep
  <2> QED BY <2>1, <2>2 DEF TypeOK, WantsMore
<1> QED BY <1>2, <1>3, <1>4, <1>5, <1>6, <1>7 DEF TypeOK, bvars

LEMMA PosixBarberRoom ==
  ASSUME Posix, TypeOK, PosixMeetingInv, PosixRoomInv, Barber,
         EmptyInvitationMeansLoss
  PROVE  PosixRoomInv' /\ EmptyInvitationMeansLoss'
<1>1. UNCHANGED <<TAKEN, GHOST, FIFO, cpc, place, WAKER>>
  BY BarberFrame DEF cvars
<1>2. Waiting' = Waiting /\ InUse' = InUse /\ InChair' = InChair /\ Lost' = Lost
  BY <1>1 DEF Waiting, InUse, InChair, Lost
<1>3. CASE CheckNext
  <2>1. bpc' = "unlock" /\ client_number' = FIFO[FirstInUse]
    BY <1>3 DEF CheckNext, BStep
  <2>2. FirstInUse \in Cells /\ FirstInUse <= FifoLen
        /\ \A j \in InUse : FirstInUse <= j
    BY FirstInUseFacts, CountsAssumption
  <2>3. client_number' # NoClient => FirstInUse \in InUse
    BY <2>1, <2>2 DEF InUse
  <2>4. ASSUME client_number' = NoClient
        PROVE  \E c \in Lost : place[c] = FifoLen
    <3>1. GHOST = 0 /\ TAKEN # 0
      BY <1>3 DEF CheckNext, BStep, NobodyWaits, PosixMeetingInv, PosixMeeting,
                  PosixGoesWith, GoesWith, Bit
    <3>2. PICK c \in Waiting : TRUE
      BY <3>1, FS_EmptySet DEF PosixRoomInv
    <3>3. FIFO[FifoLen] = NoClient /\ \A j \in 0 .. FifoLen : j \notin InUse
      <4>1. FirstInUse = FifoLen
        <5>1. FirstInUse < FifoLen => FIFO[FirstInUse] # NoClient
          BY FirstInUseFacts
        <5> QED BY <2>1, <2>2, <2>4, <5>1, FirstInUseFacts, CountsAssumption
      <4>2. FIFO[FifoLen] = NoClient /\ FifoLen \notin InUse
        BY <2>1, <2>4, <4>1 DEF InUse
      <4>3. \A j \in 0 .. FifoLen : j \in InUse => j = FifoLen
        BY <2>2, <4>1, CountsAssumption
      <4> QED BY <4>2, <4>3
    <3>4. place[c] \in 0 .. FifoLen /\ c \in Clients
      BY CountsAssumption DEF PosixRoomInv, TypeOK, Waiting, Cells
    <3>5. place[c] = FifoLen
      BY <3>3, <3>4, ClientsAssumption, CountsAssumption
         DEF PosixRoomInv, InUse, Cells
    <3> QED BY <3>3, <3>4, <3>5, ClientsAssumption DEF Lost
  <2> QED BY <1>1, <1>2, <2>1, <2>2, <2>3, <2>4
          DEF PosixRoomInv, PosixCalled, EmptyInvitationMeansLoss
<1>4. CASE WokenUp
  <2>1. client_number' \in InChair /\ client_number' \notin Waiting
    BY <1>4, ClientsAssumption
       DEF WokenUp, BStep, WaitZero, SpinUntilFree, PosixMeetingInv,
           PosixMeeting, PosixGoesWith, GoesWith, Sem4, Bit, Partner, InChair,
           Waiting
  <2>2. ~PosixCalled' /\ client_number' # NoClient
    BY <1>2, <2>1, ClientsAssumption DEF PosixCalled, InChair
  <2> QED BY <1>1, <1>2, <2>2 DEF PosixRoomInv, EmptyInvitationMeansLoss
<1>5. CASE ~CheckNext /\ ~WokenUp
  <2>1. /\ PosixCalled' => PosixCalled /\ client_number' = client_number
        /\ client_number' = client_number
        /\ bpc' \in {"unlock", "invite", "meet", "seat", "cut", "cut_end",
                     "last"}
             => bpc \in {"unlock", "invite", "meet", "seat", "cut", "cut_end",
                         "last"}
    BY <1>2, <1>5
       DEF PosixCalled, Barber, HaircutTime, CheckSleep, Doze, DozeUnlock,
           UnlockNext, Invite, Meet, Seat, BeginCut, EndCut, LastMeet,
           Goodbye, BStep
  <2> QED BY <1>1, <1>2, <2>1 DEF PosixRoomInv, EmptyInvitationMeansLoss
<1> QED BY <1>3, <1>4, <1>5

LEMMA PosixSitRoom ==
  ASSUME Posix, TypeOK, PosixRoomInv, EmptyInvitationMeansLoss,
         NEW c \in Clients, Sit(c)
  PROVE  PosixRoomInv' /\ EmptyInvitationMeansLoss'
<1> DEFINE s == PlaceOf
<1>1. /\ s \in Cells /\ s \in 0 .. FifoLen /\ s \in Nat
      /\ \A j \in InUse : j <= s
      /\ s < FifoLen => s \notin InUse /\ Cardinality(InUse) = TAKEN
  BY PosixPlaceFacts, CountsAssumption
<1>2. /\ cpc[c] = "enter" /\ cpc' = [cpc EXCEPT ![c] = "seated"]
      /\ TAKEN < Chairs /\ TAKEN' = TAKEN + 1
      /\ place' = [place EXCEPT ![c] = s] /\ FIFO' = [FIFO EXCEPT ![s] = c]
      /\ UNCHANGED <<bpc, client_number>>
  BY DEF Sit, CStep, bvars
<1> HIDE DEF s
<1> USE ClientsAssumption, CountsAssumption
<1>3. /\ Waiting' = Waiting \cup {c} /\ c \notin Waiting
      /\ InChair' = InChair /\ c \notin InChair
  BY <1>2 DEF Waiting, InChair, TypeOK
<1>4. InUse' = InUse \cup {s} /\ InUse \in SUBSET Nat
  BY <1>1, <1>2 DEF InUse, TypeOK, Cells
<1>5. /\ \A d \in Waiting : place'[d] = place[d]
      /\ place'[c] = s /\ FIFO'[s] = c
      /\ \A i \in Cells \ {s} : FIFO'[i] = FIFO[i]
  BY <1>1, <1>2, <1>3 DEF TypeOK, Waiting
<1>6. TAKEN' = Cardinality(Waiting') /\ TAKEN' <= Chairs
  <2>1. Cardinality(Waiting') = Cardinality(Waiting) + 1
    BY <1>3, FiniteRoom, FS_AddElement
  <2> QED BY <1>2, <2>1 DEF PosixRoomInv, TypeOK
<1>7. \A d \in Waiting : /\ place[d] \in Cells /\ d \in Clients
                         /\ place[d] < FifoLen => place[d] \in InUse
  BY DEF PosixRoomInv, InUse, TypeOK, Waiting
<1>8. \A d \in Waiting' : /\ place'[d] <= FifoLen
                          /\ place'[d] < FifoLen => FIFO'[place'[d]] = d
  <2>1. ASSUME NEW d \in Waiting
        PROVE  /\ place'[d] <= FifoLen
               /\ place'[d] < FifoLen => FIFO'[place'[d]] = d
    <3>1. place[d] <= FifoLen /\ (place[d] < FifoLen => FIFO[place[d]] = d)
      BY DEF PosixRoomInv
    <3>2. place[d] < FifoLen => place[d] # s
      BY <1>1, <1>7
    <3> QED BY <1>5, <1>7, <3>1, <3>2
  <2>2. place'[c] <= FifoLen /\ FIFO'[place'[c]] = c
    BY <1>1, <1>5
  <2> QED BY <1>3, <2>1, <2>2
<1>9. \A i \in InUse' : FIFO'[i] \in Waiting' /\ place'[FIFO'[i]] = i
  BY <1>3, <1>4, <1>5 DEF PosixRoomInv, InUse
<1>10. PosixCalled' => /\ client_number' \in Waiting'
                       /\ \A i \in InUse' : place'[client_number'] <= i
  <2> SUFFICES ASSUME PosixCalled'
               PROVE  /\ client_number \in Waiting
                      /\ \A i \in InUse' : place'[client_number] <= i
    BY <1>2, <1>3
  <2>1. PosixCalled
    BY <1>2, <1>3 DEF PosixCalled
  <2>2. /\ client_number \in Waiting
        /\ \A i \in InUse : place[client_number] <= i
    BY <2>1 DEF PosixRoomInv
  <2> DEFINE p == place[client_number]
  <2>3. p \in Nat /\ p <= FifoLen /\ p < FifoLen => p \in InUse
    BY <1>4, <1>7, <2>2 DEF PosixRoomInv, Cells
  <2>4. p \in 0 .. FifoLen
    BY <1>7, <2>2 DEF PosixRoomInv, Cells
  <2>5. TAKEN # 0
    BY <2>2, FiniteRoom, FS_EmptySet DEF PosixRoomInv
  <2> HIDE DEF p
  <2>6. p <= s
    <3>1. CASE p < FifoLen
      BY <1>1, <2>3, <2>4, <3>1
    <3>2. CASE p = FifoLen
      <4> SUFFICES ASSUME s < FifoLen
                   PROVE  FALSE
        BY <1>1, <3>2
      <4>1. InUse = {}
        BY <1>1, <1>4, <2>2, <3>2 DEF p
      <4> QED BY <1>1, <2>5, <4>1, FS_EmptySet
    <3> QED BY <2>4, <3>1, <3>2
  <2> QED BY <1>4, <1>5, <2>2, <2>6 DEF p
<1>11. EmptyInvitationMeansLoss'
  <2>1. \A d \in Lost : place[d] = FifoLen => d \in Lost' /\ place'[d] = FifoLen
    BY <1>1, <1>3, <1>5, <1>7 DEF Lost
  <2> QED BY <1>2, <1>3, <2>1 DEF EmptyInvitationMeansLoss
<1> QED BY <1>6, <1>8, <1>9, <1>10, <1>11 DEF PosixRoomInv

LEMMA PosixLeaveSeatRoom ==
  ASSUME Posix, TypeOK, PosixMeetingInv, PosixRoomInv,
         NEW c \in Clients, LeaveSeat(c)
  PROVE  PosixRoomInv' /\ EmptyInvitationMeansLoss'
<1> DEFINE s == place[c]
<1>1. /\ cpc[c] = "rise_2" /\ cpc' = [cpc EXCEPT ![c] = "rise_unlock"]
      /\ TAKEN' = TAKEN - 1 /\ FIFO' = [FIFO EXCEPT ![s] = NoClient]
      /\ UNCHANGED <<bpc, client_number, place>>
  BY DEF LeaveSeat, CStep, bvars
<1>2. c \in Waiting /\ c \in InChair /\ client_number = c
  BY <1>1 DEF Waiting, InChair, PosixMeetingInv, PosixMeeting, PosixGoesWith,
              GoesWith, Partner, ChairPCs
<1> USE ClientsAssumption, CountsAssumption
<1>3. s \in Cells
  BY DEF TypeOK
<1>4. Waiting' = Waiting \ {c} /\ InChair' = InChair
  BY <1>1, <1>2 DEF Waiting, InChair, TypeOK
<1>5. InUse' = InUse \ {s}
  BY <1>1, <1>3 DEF InUse, TypeOK
<1>6. /\ \A d \in Waiting' : place[d] < FifoLen =>
             place[d] # s /\ FIFO'[place[d]] = FIFO[place[d]]
      /\ \A i \in InUse' : FIFO'[i] = FIFO[i] /\ FIFO[i] # c
  BY <1>1, <1>2, <1>3, <1>4, <1>5 DEF PosixRoomInv, TypeOK, Waiting, InUse
<1>7. TAKEN' = Cardinality(Waiting') /\ TAKEN' <= Chairs
  <2>1. Cardinality(Waiting') = Cardinality(Waiting) - 1
    BY <1>2, <1>4, FiniteRoom, FS_RemoveElement
  <2>2. TAKEN = Cardinality(Waiting) /\ TAKEN <= Chairs /\ TAKEN \in Nat
    BY DEF PosixRoomInv, TypeOK
  <2> QED BY <1>1, <2>1, <2>2
<1>8. /\ \A d \in Waiting' : /\ place'[d] <= FifoLen
                             /\ place'[d] < FifoLen => FIFO'[place'[d]] = d
      /\ \A i \in InUse' : FIFO'[i] \in Waiting' /\ place'[FIFO'[i]] = i
  BY <1>1, <1>4, <1>5, <1>6 DEF PosixRoomInv
<1>9. ~PosixCalled'
  BY <1>1, <1>2, <1>4 DEF PosixCalled
<1>10. EmptyInvitationMeansLoss'
  BY <1>1, <1>2 DEF EmptyInvitationMeansLoss
<1> QED BY <1>7, <1>8, <1>9, <1>10 DEF PosixRoomInv

LEMMA PosixClientRoom ==
  ASSUME Posix, TypeOK, PosixMeetingInv, PosixRoomInv,
         EmptyInvitationMeansLoss, NEW c \in Clients, PosixClient(c)
  PROVE  PosixRoomInv' /\ EmptyInvitationMeansLoss'
<1>1. UNCHANGED <<bpc, client_number>>
  BY PosixClientFrame DEF bvars
<1>2. CASE Sit(c) \/ LeaveSeat(c)
  BY <1>2, PosixSitRoom, PosixLeaveSeatRoom
<1>3. CASE Called(c)
  <2>1. /\ UNCHANGED <<TAKEN, FIFO, place>> /\ Waiting' = Waiting
        /\ InChair' = InChair \cup {c} /\ c \in Waiting
    BY <1>3 DEF Called, CStep, Waiting, InChair, TypeOK
  <2> QED BY <1>1, <2>1 DEF PosixRoomInv, PosixCalled, InUse, Lost,
                            EmptyInvitationMeansLoss
<1>4. CASE Wake(c) \/ LeaveShop(c)
  <2>1. UNCHANGED <<TAKEN, FIFO, place>> /\ Waiting' = Waiting
    BY <1>4 DEF Wake, LeaveShop, CStep, Waiting, TypeOK, memory
  <2>2. bpc \in {"doze", "doze_unlock", "asleep", "goodbye"}
    BY <1>4 DEF Wake, LeaveShop, CStep, PosixMeetingInv, PosixMeeting,
                PosixGoesWith, GoesWith, Bit, Partner, ChairPCs
  <2> QED BY <1>1, <2>1, <2>2 DEF PosixRoomInv, PosixCalled, InUse,
                                  EmptyInvitationMeansLoss
<1>5. CASE ~(\/ Sit(c) \/ LeaveSeat(c) \/ Called(c) \/ Wake(c)
             \/ LeaveShop(c))
  <2>1. /\ UNCHANGED <<TAKEN, FIFO, place>> /\ Waiting' = Waiting
        /\ InChair' = InChair
    BY <1>5 DEF PosixClient, NoChairsYet, Client, Enter, ClientRest, NoSeat,
                TryAgain, Seated, Rise, RiseUnlock, Greet, WakeGreet,
                WakeBarber, WakeUnlock, WakeWait, WakeSit, HairBegin,
                HairTaken, HairEnd, CStep, memory, Waiting, InChair, TypeOK
  <2> QED BY <1>1, <2>1 DEF PosixRoomInv, PosixCalled, InUse, Lost,
                            EmptyInvitationMeansLoss
<1> QED BY <1>2, <1>3, <1>4, <1>5

-----------------------------------------------------------------------------
(* The invariant of task2.                                                 *)

(* The steps of a client from place to place.                              *)
Walk ==
    {<<"enter", "seated">>, <<"enter", "no_seat">>, <<"enter", "wake">>,
     <<"no_seat", "enter">>, <<"seated", "waiting">>, <<"waiting", "rise">>,
     <<"rise", "rise_2">>, <<"rise_2", "rise_unlock">>,
     <<"rise_unlock", "greet">>, <<"greet", "hair_1">>, <<"wake", "wake_4">>,
     <<"wake_4", "wake_unlock">>, <<"wake_unlock", "wake_wait">>,
     <<"wake_wait", "wake_2">>, <<"wake_2", "hair_1">>,
     <<"hair_1", "hair_2">>, <<"hair_2", "hair_3">>, <<"hair_3", "hair_4">>,
     <<"hair_4", "enter">>, <<"hair_4", "done">>}

LEMMA OpenedStep ==
  ASSUME OpenedInv, cpc \in [Clients -> ClientPCs], [PosixNext]_allvars
  PROVE  OpenedInv'
<1>1. CASE Attach
  BY <1>1 DEF Attach, OpenedInv, Semaphores, vars, cvars
<1>7. CASE OpenNext
  <2>1. /\ opened \subseteq opened' /\ opened' \subseteq Semaphores
        /\ UNCHANGED <<made, cpc>>
    BY <1>7 DEF OpenNext, OpenedInv, vars, cvars
  <2>2. /\ tried' \in 0 .. 5 /\ program' # "off"
        /\ program' = "opening" => tried' \in Semaphores
    BY <1>7 DEF OpenNext, OpenedInv, Semaphores
  <2>3. \A c \in Clients : UsedBy(cpc'[c]) \subseteq opened'
    BY <2>1 DEF OpenedInv
  <2> QED BY <2>1, <2>2, <2>3 DEF OpenedInv
<1>2. CASE MakeNext
  BY <1>2 DEF MakeNext, OpenedInv, Ready, vars, cvars, clients
<1>3. CASE \/ BarberInterrupted \/ SecondInterrupted \/ Refused \/ Standstill
           \/ UNCHANGED allvars
  BY <1>3 DEF BarberInterrupted, SecondInterrupted, Refused, Standstill,
              OpenedInv, allvars, starts, clients, vars, cvars
<1>4. CASE BarberProcess
  <2>1. UNCHANGED cpc /\ UNCHANGED starts
    BY <1>4, BarberFrame
       DEF BarberProcess, BarberLoop, BarberHaircut, Barber, HaircutTime, cvars
  <2> QED BY <2>1 DEF OpenedInv, starts
<1>5. ASSUME NEW c \in Clients, ClientProcess(c)
      PROVE  OpenedInv'
  <2>1. UNCHANGED starts
    BY <1>5 DEF ClientProcess
  <2>2. PICK to : CStep(c, cpc[c], to) /\ <<cpc[c], to>> \in Walk
    BY <1>5 DEF ClientProcess, ClientLoop, ClientHaircut, NoChairsYet, Sit,
                NoSeat, TryAgain, Seated, Called, Rise, LeaveSeat, RiseUnlock,
                Greet, Wake, WakeGreet, WakeBarber, WakeUnlock, WakeWait,
                WakeSit, HairBegin, HairTaken, HairEnd, LeaveShop, CStep, Walk
  <2>3. UsedBy(to) \subseteq
            UsedBy(cpc[c]) \cup ({SemaphoreOf(c)} \cap Semaphores)
    <3> SUFFICES ASSUME NEW s \in Semaphores, s \in UsedBy(to),
                        s \notin UsedBy(cpc[c])
                 PROVE  s = SemaphoreOf(c)
      BY DEF UsedBy
    <3> USE <2>2 DEF Walk, UsedBy, SemaphoreOf, Semaphores
    <3>1. CASE cpc[c] \in {"enter", "no_seat", "rise", "rise_2", "hair_4"}
      BY <3>1
    <3>2. CASE cpc[c] \in {"seated", "waiting", "wake_unlock", "wake_wait"}
      BY <3>2
    <3>3. CASE cpc[c] \in {"rise_unlock", "greet", "wake", "wake_4", "wake_2"}
      BY <3>3
    <3>4. CASE cpc[c] \in {"hair_1", "hair_2", "hair_3"}
      BY <3>4
    <3> QED BY <3>1, <3>2, <3>3, <3>4
  <2>4. {SemaphoreOf(c)} \cap Semaphores \subseteq opened
    BY <1>5 DEF ClientProcess
  <2>5. cpc' = [cpc EXCEPT ![c] = to]
    BY <2>2 DEF CStep
  <2>6. \A d \in Clients : UsedBy(cpc'[d]) \subseteq opened
    BY <2>3, <2>4, <2>5 DEF OpenedInv
  <2> QED BY <2>1, <2>6 DEF OpenedInv, starts
<1>6. ASSUME NEW c \in Clients, Fault(c) \/ ClientInterrupted(c)
      PROVE  OpenedInv'
  BY <1>6 DEF Fault, ClientInterrupted, OpenedInv, vars, cvars
<1> QED BY <1>1, <1>2, <1>3, <1>4, <1>5, <1>6, <1>7 DEF PosixNext

LEMMA PosixInitInv == Posix /\ PosixInit => PosixInv
<1> SUFFICES ASSUME Posix, PosixInit
             PROVE  PosixInv
  OBVIOUS
<1> USE ClientsAssumption, CountsAssumption
<1>1. Init
  BY DEF PosixInit
<1>2. /\ Waiting = {} /\ InUse = {} /\ InChair = {} /\ Cardinality({}) = 0
  BY <1>1, FS_EmptySet DEF Init, Waiting, InUse, InChair
<1>3. TypeOK
  BY <1>1 DEF Init, TypeOK, Cells, BarberPCs, ClientPCs
<1>4. PosixLockInv
  BY <1>1 DEF Init, PosixLockInv, BarberHolds, Holds
<1>5. PosixMeeting(NoClient)
  BY <1>1 DEF Init, PosixMeeting, PosixGoesWith, GoesWith, Sem1, Sem2, Sem3,
              Sem4, Bit, Partner, ChairPCs
<1>6. PosixRoomInv /\ WantsMore /\ EmptyInvitationMeansLoss
  BY <1>1, <1>2 DEF Init, PosixRoomInv, PosixCalled, WantsMore,
                    EmptyInvitationMeansLoss
<1>7. OpenedInv
  BY <1>1 DEF PosixInit, Init, OpenedInv, Ready, UsedBy
<1> QED BY <1>3, <1>4, <1>5, <1>6, <1>7 DEF PosixInv, PosixMeetingInv

LEMMA PosixStutterInv ==
  ASSUME TypeOK, PosixLockInv, PosixMeetingInv, PosixRoomInv, WantsMore,
         EmptyInvitationMeansLoss, UNCHANGED vars
  PROVE  /\ TypeOK' /\ PosixLockInv' /\ PosixMeetingInv' /\ PosixRoomInv'
         /\ WantsMore' /\ EmptyInvitationMeansLoss'
<1> USE DEF vars, memory, bvars, cvars
<1>1. TypeOK' /\ PosixLockInv' /\ WantsMore'
  BY DEF TypeOK, PosixLockInv, BarberHolds, Holds, WantsMore
<1>2. PosixMeetingInv'
  BY DEF PosixMeetingInv, PosixMeeting, PosixGoesWith, GoesWith, Sem1, Sem2,
         Sem3, Sem4, Bit, Partner
<1>3. PosixRoomInv' /\ EmptyInvitationMeansLoss'
  BY DEF PosixRoomInv, PosixCalled, Waiting, InUse, InChair, Lost,
         EmptyInvitationMeansLoss
<1> QED BY <1>1, <1>2, <1>3

LEMMA PosixNextInv == Posix /\ PosixInv /\ [PosixNext]_allvars => PosixInv'
<1> SUFFICES ASSUME Posix, PosixInv, [PosixNext]_allvars
             PROVE  PosixInv'
  OBVIOUS
<1>1. /\ TypeOK /\ PosixLockInv /\ PosixMeetingInv /\ PosixRoomInv
      /\ WantsMore /\ EmptyInvitationMeansLoss /\ OpenedInv
  BY DEF PosixInv
<1>2. OpenedInv'
  BY <1>1, OpenedStep DEF TypeOK
<1>3. CASE Barber
  <2>1. WantsMore'
    BY <1>1, <1>3, BarberFrame DEF WantsMore, cvars
  <2> QED BY <1>1, <1>2, <1>3, <2>1, PosixBarberTypeOK, PosixBarberLock,
             PosixBarberMeeting, PosixBarberRoom DEF PosixInv
<1>4. ASSUME NEW c \in Clients, PosixClient(c)
      PROVE  PosixInv'
  BY <1>1, <1>2, <1>4, PosixClientTypeOK, PosixClientLock,
     PosixClientMeeting, PosixClientRoom DEF PosixInv
<1>5. CASE UNCHANGED vars
  BY <1>1, <1>2, <1>5, PosixStutterInv DEF PosixInv
<1> QED BY <1>3, <1>4, <1>5, PosixSteps

(* PosixInv holds in every reachable state of task2, whoever is            *)
(* interrupted, faults or is lost, for every number of clients, haircuts,  *)
(* chairs and cells.                                                       *)
THEOREM PosixInvariance ==
  ASSUME Posix
  PROVE  PosixSpec => []PosixInv
<1>1. PosixInit => PosixInv
  BY PosixInitInv
<1>2. PosixInv /\ [PosixNext]_allvars => PosixInv'
  BY PosixNextInv
<1> QED BY <1>1, <1>2, PTL DEF PosixSpec

(* The barber of task2 calls nobody only when somebody sits in the waiting *)
(* room whose cell behind the queue has gone to another.                   *)
THEOREM EmptyInvitationsAreLosses ==
  ASSUME Posix
  PROVE  PosixSpec => []EmptyInvitationMeansLoss
<1>1. PosixInv => EmptyInvitationMeansLoss
  BY DEF PosixInv
<1> QED BY <1>1, PosixInvariance, PTL

(* The barber of task2 serves one client at a time, the one he has invited.*)
THEOREM PosixOneAtATime ==
  ASSUME Posix
  PROVE  PosixSpec => []OneInChair
<1>1. PosixInv => OneInChair
  <2> SUFFICES ASSUME PosixInv
               PROVE  OneInChair
    OBVIOUS
  <2>1. PICK k \in Clients \cup {NoClient} : PosixMeeting(k)
    BY DEF PosixInv, PosixMeetingInv
  <2>2. \A c \in Clients : c \in InChair <=> c = k
    BY <2>1 DEF InChair, PosixMeeting, ChairPCs
  <2>3. \A c \in InChair : c \in Clients
    BY DEF InChair
  <2> QED BY <2>1, <2>2, <2>3 DEF OneInChair, PosixMeeting
<1> QED BY <1>1, PosixInvariance, PTL

(* Nobody goes home but from a finished haircut of his own.                *)
THEOREM CutsAreFinished ==
  ASSUME Posix
  PROVE  PosixSpec => NobodyLeavesHalfCut
<1>1. PosixInv /\ [PosixNext]_allvars
        => [\A c \in Clients : done'[c] # done[c]
                => bpc = "goodbye" /\ client_number = c]_allvars
  <2> SUFFICES ASSUME PosixInv, [PosixNext]_allvars, NEW d \in Clients,
                      done'[d] # done[d]
               PROVE  bpc = "goodbye" /\ client_number = d
    OBVIOUS
  <2>1. PICK c \in Clients : PosixClient(c)
    <3>1. Barber \/ UNCHANGED vars => done' = done
      BY BarberFrame DEF vars, cvars
    <3> QED BY <3>1, PosixSteps
  <2>2. LeaveShop(c)
    BY <2>1 DEF PosixClient, NoChairsYet, Client, Enter, ClientRest, Sit,
                NoSeat, TryAgain, Seated, Called, Rise, LeaveSeat, RiseUnlock,
                Greet, Wake, WakeGreet, WakeBarber, WakeUnlock, WakeWait,
                WakeSit, HairBegin, HairTaken, HairEnd
  <2>3. d = c /\ cpc[c] = "hair_4"
    BY <2>2 DEF LeaveShop, CStep, PosixInv, TypeOK
  <2> QED BY <2>3 DEF PosixInv, PosixMeetingInv, PosixMeeting, PosixGoesWith,
                      GoesWith, Partner, ChairPCs
<1> QED BY <1>1, PosixInvariance, PTL DEF PosixSpec, NobodyLeavesHalfCut

(* Whatever semaphores clients have got who opened them while the barber   *)
(* was still creating them: without 0, 3 and 4 nobody wakes him, and       *)
(* without 0 to 3 nobody's hair is cut.                                    *)
THEOREM EarlyClientsGoUncut ==
  ASSUME Posix
  PROVE  PosixSpec => EarlyClientsAreNotCut
<1>1. ASSUME PosixInv, [PosixNext]_allvars, bpc' # bpc
      PROVE  Barber
  <2>1. ASSUME NEW c \in Clients, PosixClient(c)
        PROVE  bpc' = bpc
    BY <2>1, PosixClientFrame DEF bvars
  <2> QED BY <1>1, <2>1, PosixSteps DEF vars, bvars
<1>2. ASSUME Posix, PosixInv, [PosixNext]_allvars, bpc = "asleep",
             bpc' # "asleep"
      PROVE  {0, 3, 4} \subseteq opened
  <2>1. PICK k \in Clients \cup {NoClient} : PosixMeeting(k)
    BY <1>2 DEF PosixInv, PosixMeetingInv
  <2>2. WokenUp
    BY <1>1, <1>2 DEF Barber, HaircutTime, CheckSleep, CheckNext, Doze,
                      DozeUnlock, UnlockNext, Invite, Meet, Seat, BeginCut,
                      EndCut, LastMeet, Goodbye, BStep
  <2>3. sem[4] > 0
    BY <1>2, <2>2 DEF WokenUp, WaitZero, SpinUntilFree
  <2>4. Partner(k) \in {"wake_unlock", "wake_wait"}
    BY <1>2, <2>1, <2>3 DEF PosixMeeting, Sem4, Bit
  <2>5. k \in Clients /\ {0, 3, 4} \subseteq UsedBy(cpc[k])
    BY <2>4 DEF Partner, UsedBy, Semaphores
  <2> QED BY <1>2, <2>5 DEF PosixInv, OpenedInv
<1>3. ASSUME Posix, PosixInv, [PosixNext]_allvars, bpc # "cut", bpc' = "cut"
      PROVE  {0, 1, 2, 3} \subseteq opened
  <2>1. PICK k \in Clients \cup {NoClient} : PosixMeeting(k)
    BY <1>3 DEF PosixInv, PosixMeetingInv
  <2>2. Seat
    BY <1>1, <1>3 DEF Barber, HaircutTime, CheckSleep, CheckNext, Doze,
                      DozeUnlock, WokenUp, UnlockNext, Invite, Meet, BeginCut,
                      EndCut, LastMeet, Goodbye, BStep
  <2>3. sem[1] > 0 /\ bpc = "seat"
    BY <1>3, <2>2 DEF Seat, WaitZero, SpinUntilFree, BStep
  <2>4. Partner(k) = "hair_2"
    BY <2>1, <2>3 DEF PosixMeeting, PosixGoesWith, GoesWith, Sem1, Bit
  <2>5. k \in Clients /\ {0, 1, 2, 3} \subseteq UsedBy(cpc[k])
    BY <2>4 DEF Partner, UsedBy, Semaphores
  <2> QED BY <1>3, <2>5 DEF PosixInv, OpenedInv
<1>4. PosixInv /\ [PosixNext]_allvars
        => [/\ bpc = "asleep" /\ bpc' # "asleep" => {0, 3, 4} \subseteq opened
            /\ bpc # "cut" /\ bpc' = "cut" => {0, 1, 2, 3} \subseteq opened
           ]_allvars
  BY <1>2, <1>3
<1> QED BY <1>4, PosixInvariance, PTL DEF PosixSpec, EarlyClientsAreNotCut

-----------------------------------------------------------------------------
(* As long as no client in the waiting room has been overwritten behind    *)
(* the queue the POSIX shop is a BarberShop too.                           *)

Lossless == Lost = {}

LEMMA LosslessBooks == TypeOK /\ PosixRoomInv /\ Lossless => Books
<1> SUFFICES ASSUME TypeOK, PosixRoomInv, Lossless
             PROVE  Books
  OBVIOUS
<1>1. \A c \in Waiting : FIFO[place[c]] = c /\ place[c] \in InUse
  BY ClientsAssumption DEF Lossless, Lost, InUse, Waiting, TypeOK
<1> DEFINE f == [c \in Waiting |-> place[c]]
<1>2. f \in Injection(Waiting, InUse)
  <2>1. f \in [Waiting -> InUse]
    BY <1>1
  <2>2. \A c, d \in Waiting : f[c] = f[d] => c = d
    BY <1>1
  <2> QED BY <2>1, <2>2 DEF Injection, IsInjective
<1>3. Cardinality(Waiting) <= Cardinality(InUse)
  <2> HIDE DEF f
  <2> QED BY <1>2, FiniteRoom, FS_Injection
<1>4. Cardinality(InUse) = Cardinality(Waiting)
  BY <1>3, FiniteRoom, PosixUsedCells DEF PosixRoomInv
<1> QED BY <1>1, <1>4 DEF Books, PosixRoomInv

LEMMA LosslessBooksPrimed == TypeOK' /\ PosixRoomInv' /\ Lossless' => Books'
  BY LosslessBooks, PTL

(* Without a loss Sit finds a cell behind all that are in use here too.    *)
LEMMA LosslessSit ==
  ASSUME Posix, TypeOK, PosixRoomInv, Lost' = {}, NEW c \in Clients, Sit(c)
  PROVE  PlaceOf \in Cells /\ \A j \in InUse : j < PlaceOf
<1>1. /\ PlaceOf \in Cells /\ PlaceOf \in 0 .. FifoLen
      /\ \A j \in InUse : j <= PlaceOf
  BY PosixPlaceFacts
<1>2. ASSUME PlaceOf \in InUse
      PROVE  FALSE
  <2> DEFINE d == FIFO[PlaceOf]
  <2>1. d \in Waiting /\ d \in Clients /\ place[d] = PlaceOf
    BY <1>2 DEF PosixRoomInv, Waiting
  <2> HIDE DEF d
  <2>2. d # c /\ d \in Waiting'
    BY <2>1 DEF Sit, CStep, Waiting, TypeOK
  <2>3. place'[d] = PlaceOf /\ FIFO'[PlaceOf] = c
    BY <1>1, <2>1, <2>2 DEF Sit, TypeOK
  <2> QED BY <2>2, <2>3 DEF Lost
<1>3. PlaceOf \in Nat /\ \A j \in InUse : j \in Nat
  BY <1>1, CountsAssumption DEF InUse, Cells
<1> QED BY <1>1, <1>2, <1>3

LEMMA PosixClientHides ==
  ASSUME TypeOK, NEW c \in Clients, PosixClient(c),
         ~Sit(c), ~LeaveSeat(c), ~Wake(c), ~LeaveShop(c)
  PROVE  UNCHANGED Shop!bvars
<1>1. CASE Client(c)
  BY <1>1, ClientHides
<1>2. CASE NoChairsYet(c)
  <2>1. UNCHANGED <<FIFO, SLEEPY>>
    BY <1>2 DEF NoChairsYet, memory
  <2>2. InChair' = InChair /\ Waiting' = Waiting
    BY <1>2 DEF NoChairsYet, CStep, InChair, Waiting, TypeOK
  <2> QED BY <2>1, <2>2 DEF Shop!bvars, QueueOrder, InUse, ChairOf
<1> QED BY <1>1, <1>2 DEF PosixClient

LEMMA LosslessStep ==
  ASSUME Posix, PosixInv, PosixInv', [PosixNext]_allvars, Lost = {}, Lost' = {}
  PROVE  [Shop!ShopNext]_(Shop!bvars)
<1>1. PICK k \in Clients \cup {NoClient} : PosixMeeting(k)
  BY DEF PosixInv, PosixMeetingInv
<1>2. /\ TypeOK /\ TypeOK' /\ PosixRoomInv /\ Books /\ Books' /\ Occupant(k)
      /\ Partner(k) = "nobody" <=> k = NoClient
  BY <1>1, LosslessBooks, LosslessBooksPrimed, ClientsAssumption
     DEF PosixInv, PosixMeeting, Occupant, Partner, ChairPCs, Lossless
<1>3. CASE Barber
  <2>1. CASE CheckSleep
    <3>1. SLEEPY = 0 /\ k = NoClient
      BY <1>1, <1>2, <2>1
         DEF CheckSleep, BStep, PosixMeeting, PosixGoesWith, GoesWith, Bit
    <3> QED BY <1>2, <2>1, <3>1, CheckSleepSleeps DEF Shop!ShopNext
  <2> QED BY <1>3, <2>1, BarberHides
<1>4. ASSUME NEW c \in Clients, PosixClient(c)
      PROVE  [Shop!ShopNext]_(Shop!bvars)
  <2>1. CASE Sit(c)
    BY <1>2, <2>1, LosslessSit, SitArrives DEF Shop!ShopNext
  <2>2. CASE LeaveSeat(c)
    <3>1. /\ k = c /\ bpc \in {"meet", "seat"} /\ client_number = c
          /\ SLEEPY = 0
      BY <1>1, <2>2
         DEF LeaveSeat, CStep, PosixMeeting, PosixGoesWith, GoesWith, Partner,
             ChairPCs, Bit
    <3>2. \A i \in InUse : place[c] <= i
      BY <1>2, <2>2, <3>1, ClientsAssumption
         DEF LeaveSeat, CStep, PosixRoomInv, PosixCalled, Waiting
    <3> QED BY <1>2, <2>2, <3>1, <3>2, LeaveSeatCalls DEF Shop!ShopNext
  <2>3. CASE Wake(c)
    <3>1. k = NoClient
      BY <1>1, <1>2, <2>3
         DEF Wake, PosixMeeting, PosixGoesWith, GoesWith, Bit
    <3> QED BY <1>2, <2>3, <3>1, WakeWakes DEF Shop!ShopNext
  <2>4. CASE LeaveShop(c)
    <3>1. k = c
      BY <1>2, <2>4 DEF LeaveShop, CStep, Occupant, ChairPCs
    <3> QED BY <1>2, <2>4, <3>1, LeaveShopLeaves DEF Shop!ShopNext
  <2> QED BY <1>2, <1>4, <2>1, <2>2, <2>3, <2>4, PosixClientHides
<1>5. CASE UNCHANGED vars
  BY <1>5 DEF vars, memory, cvars, Shop!bvars, QueueOrder, InUse, ChairOf,
              InChair, Waiting
<1> QED BY <1>3, <1>4, <1>5, PosixSteps

(* Until a client is overwritten behind the queue, task2 is first come,    *)
(* first served with one client in the chair, as task1 is, whoever is      *)
(* interrupted or faults.                                                  *)
THEOREM ShopWithoutLoss ==
  ASSUME Posix
  PROVE  PosixSpec => ShopUntilALoss
<1>1. PosixInv /\ PosixInv' /\ [PosixNext]_allvars
        => [Shop!ShopNext \/ Lost # {} \/ Lost' # {}]_(Shop!bvars)
  BY LosslessStep
<1> QED BY <1>1, PosixInvariance, PTL DEF PosixSpec, ShopUntilALoss

-----------------------------------------------------------------------------
(* A shop whose haircuts fit into the queue loses nobody.                  *)

LEMMA ShortShop ==
  ASSUME TypeOK, WantsMore, PlacesAreBounded,
         Cardinality(Clients) * Cuts <= FifoLen
  PROVE  \A i \in InUse : i \in Nat /\ i < FifoLen
  BY ShopIsBounded, FiniteShop, CountsAssumption
     DEF PlacesAreBounded, InUse, Cells

(* There Sit stops at the free cell behind the last one in use, as task1's *)
(* does.                                                                   *)
LEMMA ShortShopPlace ==
  ASSUME Posix, TypeOK, PosixRoomInv, Lossless,
         \A i \in InUse : i \in Nat /\ i < FifoLen
  PROVE  /\ PlaceOf \in Cells /\ PlaceOf \notin InUse
         /\ PlaceOf = 0 \/ PlaceOf - 1 \in InUse
<1> USE CountsAssumption
<1>1. PICK u \in Nat : /\ \A j \in InUse : j < u
                       /\ u = 0 \/ u - 1 \in InUse
  BY BehindTheLast
<1>2. u \in Cells /\ u <= FifoLen
  BY <1>1 DEF Cells
<1>3. {j \in InUse : j < u} = InUse
  BY <1>1
<1>4. StopsAt(u)
  <2>1. u \notin InUse
    BY <1>1
  <2>2. Cardinality({j \in InUse : j < u}) >= TAKEN
    BY <1>3, LosslessBooks DEF Books, TypeOK
  <2> QED BY <1>2, <2>1, <2>2 DEF StopsAt, FreePlace, InUse
<1>5. PlaceOf <= u
  BY <1>2, <1>4, PlaceIsFirst
<1>6. /\ PlaceOf \in Cells /\ PlaceOf \in Nat
      /\ \A j \in InUse : j <= PlaceOf
      /\ PlaceOf \notin InUse
  BY PosixPlaceFacts
<1>7. PlaceOf = u
  BY <1>1, <1>5, <1>6
<1> QED BY <1>1, <1>6, <1>7

LEMMA LosslessClient ==
  ASSUME Posix, TypeOK, PosixRoomInv, Lossless, NEW c \in Clients,
         PosixClient(c), Sit(c) => PlaceOf \in Cells /\ PlaceOf \notin InUse
  PROVE  Lossless'
<1> USE ClientsAssumption
<1>1. \A d \in Waiting : /\ d \in Clients /\ place[d] \in Cells
                         /\ FIFO[place[d]] = d
  BY DEF Lossless, Lost, Waiting, TypeOK
<1>2. CASE Sit(c)
  <2>1. /\ cpc[c] = "enter" /\ cpc' = [cpc EXCEPT ![c] = "seated"]
        /\ place' = [place EXCEPT ![c] = PlaceOf]
        /\ FIFO' = [FIFO EXCEPT ![PlaceOf] = c]
    BY <1>2 DEF Sit, CStep
  <2>2. /\ Waiting' = Waiting \cup {c} /\ c \notin Waiting
        /\ place'[c] = PlaceOf /\ FIFO'[PlaceOf] = c
    BY <1>2, <2>1 DEF Waiting, TypeOK
  <2>3. \A d \in Waiting : place'[d] = place[d] /\ place[d] # PlaceOf
    BY <1>1, <1>2, <2>1, <2>2 DEF InUse, TypeOK
  <2>4. \A d \in Waiting : FIFO'[place'[d]] = d
    BY <1>1, <1>2, <2>1, <2>3 DEF TypeOK
  <2> QED BY <2>2, <2>4 DEF Lossless, Lost
<1>3. CASE LeaveSeat(c)
  <2>1. /\ Waiting' = Waiting \ {c} /\ c \in Waiting /\ place' = place
        /\ FIFO' = [FIFO EXCEPT ![place[c]] = NoClient]
    BY <1>3 DEF LeaveSeat, CStep, Waiting, TypeOK
  <2>2. \A d \in Waiting' : FIFO'[place[d]] = FIFO[place[d]]
    BY <1>1, <2>1 DEF TypeOK
  <2> QED BY <1>1, <2>1, <2>2 DEF Lossless, Lost
<1>4. CASE ~Sit(c) /\ ~LeaveSeat(c)
  <2>1. UNCHANGED <<FIFO, place>> /\ Waiting' = Waiting
    BY <1>4 DEF PosixClient, NoChairsYet, Client, Enter, ClientRest, NoSeat,
                TryAgain, Seated, Called, Rise, RiseUnlock, Greet, Wake,
                WakeGreet, WakeBarber, WakeUnlock, WakeWait, WakeSit,
                HairBegin, HairTaken, HairEnd, LeaveShop, CStep, memory,
                Waiting, TypeOK
  <2> QED BY <2>1 DEF Lossless, Lost
<1> QED BY <1>2, <1>3, <1>4

(* With at least as many cells as haircuts wanted in all nobody is ever    *)
(* overwritten in task2 either.                                            *)
THEOREM NobodyIsLost ==
  ASSUME Posix, Cardinality(Clients) * Cuts <= FifoLen
  PROVE  PosixSpec => []Lossless
<1> DEFINE LossInv == Lossless /\ PlacesAreBounded
<1>1. PosixInit => LossInv
  BY DEF PosixInit, Init, Lossless, Lost, Waiting, PlacesAreBounded, InUse
<1>2. PosixInv /\ LossInv /\ [PosixNext]_allvars => LossInv'
  <2> SUFFICES ASSUME PosixInv, Lossless, PlacesAreBounded,
                      [PosixNext]_allvars
               PROVE  Lossless' /\ PlacesAreBounded'
    OBVIOUS
  <2>1. ASSUME NEW c \in Clients, PosixClient(c)
        PROVE  Lossless' /\ PlacesAreBounded'
    <3>1. /\ PlaceOf \in Cells /\ PlaceOf \notin InUse
          /\ PlaceOf = 0 \/ PlaceOf - 1 \in InUse
      BY ShortShop, ShortShopPlace DEF PosixInv
    <3>2. PlacesAreBounded'
      BY <2>1, <3>1, ClientPlaces DEF PosixInv, PosixClient
    <3> QED BY <2>1, <3>1, <3>2, LosslessClient DEF PosixInv
  <2>2. CASE UNCHANGED <<FIFO, cvars>>
    BY <2>2 DEF PlacesAreBounded, HaircutsGiven, InShop, InUse, Waiting,
                InChair, Lossless, Lost, cvars
  <2>3. Barber \/ UNCHANGED vars => UNCHANGED <<FIFO, cvars>>
    BY BarberFrame DEF vars, memory
  <2> QED BY <2>1, <2>2, <2>3, PosixSteps
<1> QED BY <1>1, <1>2, PosixInvariance, PTL DEF PosixSpec

(* And then task2 is first come, first served for good, through early      *)
(* clients, faults and interruptions.                                      *)
THEOREM PosixImplementsShop ==
  ASSUME Posix, Cardinality(Clients) * Cuts <= FifoLen
  PROVE  PosixSpec => ShopRefinement
<1>1. PosixInit => Shop!ShopInit
  <2> SUFFICES ASSUME PosixInit
               PROVE  Shop!ShopInit
    OBVIOUS
  <2>1. Init /\ TypeOK /\ PosixRoomInv
    BY PosixInitInv DEF PosixInit, PosixInv
  <2>2. Waiting = {} /\ InChair = {} /\ InUse = {} /\ SLEEPY = 0 /\ TAKEN = 0
    BY <2>1 DEF Init, Waiting, InChair, InUse
  <2>3. Books
    BY <2>1, <2>2, LosslessBooks DEF Lossless, Lost
  <2>4. QueueOrder = <<>>
    BY <2>1, <2>2, <2>3, QueueFacts, EmptySeq DEF QueueFact
  <2> QED BY <2>2, <2>4 DEF Shop!ShopInit, ChairOf
<1>2. PosixInv /\ PosixInv' /\ Lossless /\ Lossless' /\ [PosixNext]_allvars
        => [Shop!ShopNext]_(Shop!bvars)
  BY LosslessStep DEF Lossless
<1> QED BY <1>1, <1>2, PosixInvariance, NobodyIsLost, PTL
           DEF PosixSpec, ShopRefinement, Shop!ShopSpec

=============================================================================

----------------------- MODULE ProducerConsumerProofs -----------------------
(***************************************************************************)
(* Proofs about ProducerConsumer, for any number of producers, consumers,  *)
(* slots and lines and for any LockMax, so for the mutexes of task1 and    *)
(* for the semaphores of task2 alike, and after them those about           *)
(* ProducerConsumerSem: its threads keep the invariants through every      *)
(* launch, and what is true of the semaphores, their names and the faults. *)
(***************************************************************************)
EXTENDS ProducerConsumerSem, FiniteSetTheorems, SequenceTheorems, TLAPS

-----------------------------------------------------------------------------
(* What the three kinds of threads leave alone.                            *)

LEMMA ProducerFrame ==
    ASSUME NEW p \in Producers, Producer(p)
    PROVE  UNCHANGED <<cons_arr_m, arr_m, curr_N_c, end_flag, heap, cvars,
                       main>>
BY DEF Producer, PStep, LockProd, Claim, LoadNext, StoreNext, CheckWrap,
       Reset, LockSlot, LockBeyondRing, UnlockProd, ScanLine, ScanEOF,
       WaitEmpty, Put, UnlockSlot, UnlockSlotAtEOF, UnlockProdAtEOF

LEMMA ConsumerFrame ==
    ASSUME NEW c \in Consumers, Consumer(c)
    PROVE  UNCHANGED <<prod_arr_m, arr_m_p, curr_N_p, end_flag, lines_read,
                       pvars, main>>
BY DEF Consumer, CStep, TakeTicket, LockConsSlot, Poll, CheckEnd, Leave,
       UnlockCons, PrintLine, Clear, UnlockConsSlot

LEMMA MainFrame ==
    ASSUME Main \/ Finish \/ Exited
    PROVE  UNCHANGED <<locks, curr_N_p, curr_N_c, work_arr, lines_read,
                       heap, pvars, cvars>>
BY DEF Main, Finish, Exited, JoinProducers, SetEnd, JoinConsumers, TimeUp,
       vars, shared

-----------------------------------------------------------------------------
(* The producers preserve each part of IInv.                               *)

(* A producer keeps the variables in their types.                          *)
LEMMA ProducerTypeOK ==
    ASSUME IInv, NEW p \in Producers, Producer(p)
    PROVE  TypeOK'
<1> USE RingAssumption, FileAssumption, LockAssumption DEF IInv, TypeOK,
        PStep, ring, heap, cvars, ProducerPCs, Free, Release, ReleaseSlotOf
<1>1. CASE LockProd(p) BY <1>1 DEF LockProd
<1>2. CASE Claim(p) BY <1>2 DEF Claim
<1>3. CASE LoadNext(p) BY <1>3 DEF LoadNext
<1>4. CASE StoreNext(p) BY <1>4 DEF StoreNext
<1>5. CASE CheckWrap(p) BY <1>5 DEF CheckWrap
<1>6. CASE Reset(p) BY <1>6 DEF Reset
<1>7. CASE LockSlot(p) BY <1>7 DEF LockSlot
<1>8. CASE LockBeyondRing(p)
  <2>1. CASE PStep(p, "slot", "unlock") BY <1>8, <2>1 DEF LockBeyondRing
  <2>2. CASE PStep(p, "slot", "stuck") BY <1>8, <2>2 DEF LockBeyondRing
  <2> QED BY <1>8, <2>1, <2>2 DEF LockBeyondRing
<1>9. CASE UnlockProd(p) BY <1>9 DEF UnlockProd
<1>10. CASE ScanLine(p)
  <2>1. lines_read' \in 0 .. FileLines BY <1>10 DEF ScanLine
  <2>2. line_buffer' \in [Producers -> Lines \cup {NULL}]
    BY <1>10 DEF ScanLine, Lines
  <2> QED BY <1>10, <2>1, <2>2 DEF ScanLine
<1>11. CASE ScanEOF(p) BY <1>11 DEF ScanEOF
<1>12. CASE WaitEmpty(p) BY <1>12 DEF WaitEmpty
<1>13. CASE Put(p) BY <1>13 DEF Put
<1>14. CASE UnlockSlot(p) BY <1>14 DEF UnlockSlot
<1>15. CASE UnlockSlotAtEOF(p) BY <1>15 DEF UnlockSlotAtEOF
<1>16. CASE UnlockProdAtEOF(p) BY <1>16 DEF UnlockProdAtEOF
<1> QED BY <1>1, <1>2, <1>3, <1>4, <1>5, <1>6, <1>7, <1>8, <1>9, <1>10,
           <1>11, <1>12, <1>13, <1>14, <1>15, <1>16 DEF Producer

(* Before the end of the file prod_arr_m is a lock: the stray unlock comes *)
(* after it.                                                               *)
LEMMA ProducerProdLock ==
    ASSUME IInv, NEW p \in Producers, Producer(p)
    PROVE  ProdLockInv'
<1> USE RingAssumption, FileAssumption, LockAssumption DEF IInv, TypeOK,
        PStep, ring, heap, cvars, Free, Release, Slots, ProdLockInv,
        ProdIndexInv, InProdSection, BeforeEOF
<1>1. CASE LockProd(p) BY <1>1 DEF LockProd
<1>2. CASE Claim(p) BY <1>2 DEF Claim
<1>3. CASE LoadNext(p) BY <1>3 DEF LoadNext
<1>4. CASE StoreNext(p) BY <1>4 DEF StoreNext
<1>5. CASE CheckWrap(p) BY <1>5 DEF CheckWrap
<1>6. CASE Reset(p) BY <1>6 DEF Reset
<1>7. CASE LockSlot(p) BY <1>7 DEF LockSlot
<1>8. CASE LockBeyondRing(p)
  <2>1. CASE PStep(p, "slot", "unlock") BY <1>8, <2>1 DEF LockBeyondRing
  <2>2. CASE PStep(p, "slot", "stuck") BY <1>8, <2>2 DEF LockBeyondRing
  <2> QED BY <1>8, <2>1, <2>2 DEF LockBeyondRing
<1>9. CASE UnlockProd(p) BY <1>9 DEF UnlockProd
<1>10. CASE ScanLine(p) BY <1>10 DEF ScanLine
<1>11. CASE ScanEOF(p) BY <1>11 DEF ScanEOF
<1>12. CASE WaitEmpty(p) BY <1>12 DEF WaitEmpty
<1>13. CASE Put(p) BY <1>13 DEF Put
<1>14. CASE UnlockSlot(p) BY <1>14 DEF UnlockSlot
<1>15. CASE UnlockSlotAtEOF(p) BY <1>15 DEF UnlockSlotAtEOF
<1>16. CASE UnlockProdAtEOF(p) BY <1>16 DEF UnlockProdAtEOF
<1> QED BY <1>1, <1>2, <1>3, <1>4, <1>5, <1>6, <1>7, <1>8, <1>9, <1>10,
           <1>11, <1>12, <1>13, <1>14, <1>15, <1>16 DEF Producer

(* Before the end of the file curr_N_p is advanced by one producer at a    *)
(* time and reset in time, so every index taken is one of the ring.        *)
LEMMA ProducerProdIndex ==
    ASSUME IInv, NEW p \in Producers, Producer(p)
    PROVE  ProdIndexInv'
<1> USE RingAssumption, FileAssumption, LockAssumption DEF IInv, TypeOK,
        PStep, ring, heap, cvars, ProducerPCs, Free, Slots, ProdLockInv,
        ProdIndexInv, InProdSection, BeforeEOF
<1>1. CASE LockProd(p) BY <1>1 DEF LockProd
<1>2. CASE Claim(p) BY <1>2 DEF Claim
<1>3. CASE LoadNext(p) BY <1>3 DEF LoadNext
<1>4. CASE StoreNext(p) BY <1>4 DEF StoreNext
<1>5. CASE CheckWrap(p) BY <1>5 DEF CheckWrap
<1>6. CASE Reset(p) BY <1>6 DEF Reset
<1>7. CASE LockSlot(p) BY <1>7 DEF LockSlot
<1>8. CASE LockBeyondRing(p)
  <2>1. CASE PStep(p, "slot", "unlock") BY <1>8, <2>1 DEF LockBeyondRing
  <2>2. CASE PStep(p, "slot", "stuck") BY <1>8, <2>2 DEF LockBeyondRing
  <2> QED BY <1>8, <2>1, <2>2 DEF LockBeyondRing
<1>9. CASE UnlockProd(p) BY <1>9 DEF UnlockProd
<1>10. CASE ScanLine(p) BY <1>10 DEF ScanLine
<1>11. CASE ScanEOF(p) BY <1>11 DEF ScanEOF
<1>12. CASE WaitEmpty(p) BY <1>12 DEF WaitEmpty
<1>13. CASE Put(p) BY <1>13 DEF Put
<1>14. CASE UnlockSlot(p) BY <1>14 DEF UnlockSlot
<1>15. CASE UnlockSlotAtEOF(p) BY <1>15 DEF UnlockSlotAtEOF
<1>16. CASE UnlockProdAtEOF(p) BY <1>16 DEF UnlockProdAtEOF
<1> QED BY <1>1, <1>2, <1>3, <1>4, <1>5, <1>6, <1>7, <1>8, <1>9, <1>10,
           <1>11, <1>12, <1>13, <1>14, <1>15, <1>16 DEF Producer

(* The lock of a slot is taken while a producer works on the slot, and a   *)
(* producer that has a line got it before the end of the file, with an     *)
(* index of the ring.                                                      *)
LEMMA ProducerSlotLock ==
    ASSUME IInv, NEW p \in Producers, Producer(p)
    PROVE  SlotLockInv'
<1> USE RingAssumption, FileAssumption, LockAssumption DEF IInv, TypeOK,
        PStep, ring, heap, cvars, Free, Release, ReleaseSlotOf, Slots,
        SlotLockInv, ProdIndexInv, InSlotSection, StoresLine,
        SlotExclusion, BeforeEOF
<1>1. CASE LockProd(p) BY <1>1 DEF LockProd
<1>2. CASE Claim(p) BY <1>2 DEF Claim
<1>3. CASE LoadNext(p) BY <1>3 DEF LoadNext
<1>4. CASE StoreNext(p) BY <1>4 DEF StoreNext
<1>5. CASE CheckWrap(p) BY <1>5 DEF CheckWrap
<1>6. CASE Reset(p) BY <1>6 DEF Reset
<1>7. CASE LockSlot(p) BY <1>7 DEF LockSlot
<1>8. CASE LockBeyondRing(p)
  <2>1. CASE PStep(p, "slot", "unlock") BY <1>8, <2>1 DEF LockBeyondRing
  <2>2. CASE PStep(p, "slot", "stuck") BY <1>8, <2>2 DEF LockBeyondRing
  <2> QED BY <1>8, <2>1, <2>2 DEF LockBeyondRing
<1>9. CASE UnlockProd(p) BY <1>9 DEF UnlockProd
<1>10. CASE ScanLine(p) BY <1>10 DEF ScanLine
<1>11. CASE ScanEOF(p) BY <1>11 DEF ScanEOF
<1>12. CASE WaitEmpty(p) BY <1>12 DEF WaitEmpty
<1>13. CASE Put(p) BY <1>13 DEF Put
<1>14. CASE UnlockSlot(p) BY <1>14 DEF UnlockSlot
<1>15. CASE UnlockSlotAtEOF(p) BY <1>15 DEF UnlockSlotAtEOF
<1>16. CASE UnlockProdAtEOF(p) BY <1>16 DEF UnlockProdAtEOF
<1> QED BY <1>1, <1>2, <1>3, <1>4, <1>5, <1>6, <1>7, <1>8, <1>9, <1>10,
           <1>11, <1>12, <1>13, <1>14, <1>15, <1>16 DEF Producer

(* Two producers never work on one slot.                                   *)
LEMMA ProducerSlotExclusion ==
    ASSUME IInv, NEW p \in Producers, Producer(p)
    PROVE  SlotExclusion'
<1> USE RingAssumption, FileAssumption, LockAssumption DEF IInv, TypeOK,
        PStep, ring, heap, cvars, Slots, Free, SlotLockInv, InSlotSection,
        InConsSlotSection, SlotExclusion
<1>1. CASE LockProd(p) BY <1>1 DEF LockProd
<1>2. CASE Claim(p) BY <1>2 DEF Claim
<1>3. CASE LoadNext(p) BY <1>3 DEF LoadNext
<1>4. CASE StoreNext(p) BY <1>4 DEF StoreNext
<1>5. CASE CheckWrap(p) BY <1>5 DEF CheckWrap
<1>6. CASE Reset(p) BY <1>6 DEF Reset
<1>7. CASE LockSlot(p) BY <1>7 DEF LockSlot
<1>8. CASE LockBeyondRing(p)
  <2>1. CASE PStep(p, "slot", "unlock") BY <1>8, <2>1 DEF LockBeyondRing
  <2>2. CASE PStep(p, "slot", "stuck") BY <1>8, <2>2 DEF LockBeyondRing
  <2> QED BY <1>8, <2>1, <2>2 DEF LockBeyondRing
<1>9. CASE UnlockProd(p) BY <1>9 DEF UnlockProd
<1>10. CASE ScanLine(p) BY <1>10 DEF ScanLine
<1>11. CASE ScanEOF(p) BY <1>11 DEF ScanEOF
<1>12. CASE WaitEmpty(p) BY <1>12 DEF WaitEmpty
<1>13. CASE Put(p) BY <1>13 DEF Put
<1>14. CASE UnlockSlot(p) BY <1>14 DEF UnlockSlot
<1>15. CASE UnlockSlotAtEOF(p) BY <1>15 DEF UnlockSlotAtEOF
<1>16. CASE UnlockProdAtEOF(p) BY <1>16 DEF UnlockProdAtEOF
<1> QED BY <1>1, <1>2, <1>3, <1>4, <1>5, <1>6, <1>7, <1>8, <1>9, <1>10,
           <1>11, <1>12, <1>13, <1>14, <1>15, <1>16 DEF Producer

(* Only the producer that holds a slot stores into it, so the slot it      *)
(* found empty is still empty when it stores.                              *)
LEMMA ProducerHand ==
    ASSUME IInv, NEW p \in Producers, Producer(p)
    PROVE  HandInv'
<1> USE RingAssumption, FileAssumption, LockAssumption DEF IInv, TypeOK,
        PStep, ring, heap, cvars, Slots, Lines, NULL, SlotLockInv, HandInv,
        InSlotSection, StoresLine, SlotExclusion
<1>1. CASE LockProd(p) BY <1>1 DEF LockProd
<1>2. CASE Claim(p) BY <1>2 DEF Claim
<1>3. CASE LoadNext(p) BY <1>3 DEF LoadNext
<1>4. CASE StoreNext(p) BY <1>4 DEF StoreNext
<1>5. CASE CheckWrap(p) BY <1>5 DEF CheckWrap
<1>6. CASE Reset(p) BY <1>6 DEF Reset
<1>7. CASE LockSlot(p) BY <1>7 DEF LockSlot
<1>8. CASE LockBeyondRing(p)
  <2>1. CASE PStep(p, "slot", "unlock") BY <1>8, <2>1 DEF LockBeyondRing
  <2>2. CASE PStep(p, "slot", "stuck") BY <1>8, <2>2 DEF LockBeyondRing
  <2> QED BY <1>8, <2>1, <2>2 DEF LockBeyondRing
<1>9. CASE UnlockProd(p) BY <1>9 DEF UnlockProd
<1>10. CASE ScanLine(p) BY <1>10 DEF ScanLine
<1>11. CASE ScanEOF(p) BY <1>11 DEF ScanEOF
<1>12. CASE WaitEmpty(p) BY <1>12 DEF WaitEmpty
<1>13. CASE Put(p) BY <1>13 DEF Put
<1>14. CASE UnlockSlot(p) BY <1>14 DEF UnlockSlot
<1>15. CASE UnlockSlotAtEOF(p) BY <1>15 DEF UnlockSlotAtEOF
<1>16. CASE UnlockProdAtEOF(p) BY <1>16 DEF UnlockProdAtEOF
<1> QED BY <1>1, <1>2, <1>3, <1>4, <1>5, <1>6, <1>7, <1>8, <1>9, <1>10,
           <1>11, <1>12, <1>13, <1>14, <1>15, <1>16 DEF Producer

(* A producer that is done takes no step.                                  *)
LEMMA ProducerEnd ==
    ASSUME IInv, NEW p \in Producers, Producer(p)
    PROVE  EndInv'
<1> USE RingAssumption, FileAssumption, LockAssumption DEF IInv, TypeOK,
        PStep, ring, heap, cvars, EndInv
<1>1. CASE LockProd(p) BY <1>1 DEF LockProd
<1>2. CASE Claim(p) BY <1>2 DEF Claim
<1>3. CASE LoadNext(p) BY <1>3 DEF LoadNext
<1>4. CASE StoreNext(p) BY <1>4 DEF StoreNext
<1>5. CASE CheckWrap(p) BY <1>5 DEF CheckWrap
<1>6. CASE Reset(p) BY <1>6 DEF Reset
<1>7. CASE LockSlot(p) BY <1>7 DEF LockSlot
<1>8. CASE LockBeyondRing(p)
  <2>1. CASE PStep(p, "slot", "unlock") BY <1>8, <2>1 DEF LockBeyondRing
  <2>2. CASE PStep(p, "slot", "stuck") BY <1>8, <2>2 DEF LockBeyondRing
  <2> QED BY <1>8, <2>1, <2>2 DEF LockBeyondRing
<1>9. CASE UnlockProd(p) BY <1>9 DEF UnlockProd
<1>10. CASE ScanLine(p) BY <1>10 DEF ScanLine
<1>11. CASE ScanEOF(p) BY <1>11 DEF ScanEOF
<1>12. CASE WaitEmpty(p) BY <1>12 DEF WaitEmpty
<1>13. CASE Put(p) BY <1>13 DEF Put
<1>14. CASE UnlockSlot(p) BY <1>14 DEF UnlockSlot
<1>15. CASE UnlockSlotAtEOF(p) BY <1>15 DEF UnlockSlotAtEOF
<1>16. CASE UnlockProdAtEOF(p) BY <1>16 DEF UnlockProdAtEOF
<1> QED BY <1>1, <1>2, <1>3, <1>4, <1>5, <1>6, <1>7, <1>8, <1>9, <1>10,
           <1>11, <1>12, <1>13, <1>14, <1>15, <1>16 DEF Producer

(* A line moves from the file to the hand of one producer, and from there  *)
(* to one slot, which was empty.                                           *)
LEMMA ProducerAccounting ==
    ASSUME IInv, NEW p \in Producers, Producer(p)
    PROVE  EachLineInOnePlace'
<1> USE RingAssumption, FileAssumption DEF Lines, NULL
<1>0. TypeOK /\ EachLineSomewhere /\ NoLineTwice
  BY DEF IInv, EachLineInOnePlace
<1>1. CASE ScanLine(p)
  <2> DEFINE new == lines_read + 1
  <2>1. line_buffer[p] = NULL
    BY <1>1 DEF ScanLine, PStep, IInv, HandInv
  <2>2. new \in Lines /\ ~(new <= lines_read)
    BY <1>0, <1>1 DEF ScanLine, TypeOK
  <2>3. /\ line_buffer' = [line_buffer EXCEPT ![p] = new]
        /\ lines_read' = new
        /\ work_arr' = work_arr /\ freed' = freed
    BY <1>1 DEF ScanLine, PStep, heap
  <2>4. ~InHand(new) /\ ~InRing(new) /\ new \notin freed
    BY <1>0, <2>2 DEF EachLineSomewhere
  <2> HIDE DEF new
  <2>5. ASSUME NEW l \in Lines
        PROVE  /\ InHand(l)' <=> InHand(l) \/ l = new
               /\ InRing(l)' <=> InRing(l)
    BY <1>0, <2>1, <2>2, <2>3 DEF TypeOK, InHand, InRing
  <2>6. EachLineSomewhere'
    BY <1>0, <2>2, <2>3, <2>5 DEF EachLineSomewhere, TypeOK, new
  <2>7. NoLineTwice'
    BY <1>0, <2>2, <2>3, <2>4, <2>5 DEF NoLineTwice, TypeOK, InHand
  <2> QED BY <2>6, <2>7 DEF EachLineInOnePlace
<1>2. CASE Put(p)
  <2> DEFINE line == line_buffer[p]
  <2> DEFINE s == p_n[p]
  <2>1. s \in Slots /\ work_arr[s] = NULL /\ line # NULL
    BY <1>2 DEF Put, PStep, IInv, SlotLockInv, StoresLine, HandInv
  <2>2. line \in Lines
    BY <1>0, <2>1 DEF TypeOK
  <2>3. /\ work_arr' = [work_arr EXCEPT ![s] = line]
        /\ line_buffer' = [line_buffer EXCEPT ![p] = NULL]
        /\ lines_read' = lines_read /\ freed' = freed
    BY <1>2 DEF Put, PStep, heap
  <2>4. InHand(line) /\ ~InRing(line) /\ line \notin freed
    BY <1>0, <2>2 DEF NoLineTwice, InHand
  <2>5. ASSUME NEW l \in Lines
        PROVE  /\ InHand(l)' <=> InHand(l) /\ l # line
               /\ InRing(l)' <=> InRing(l) \/ l = line
    <3>1. InHand(l)' <=> InHand(l) /\ l # line
      BY <1>0, <2>1, <2>3 DEF TypeOK, InHand, NoLineTwice
    <3>2. InRing(l)' <=> InRing(l) \/ l = line
      BY <1>0, <2>1, <2>3 DEF TypeOK, InRing
    <3> QED BY <3>1, <3>2
  <2>6. EachLineSomewhere'
    BY <1>0, <2>3, <2>4, <2>5 DEF EachLineSomewhere
  <2>7. (\A t, u \in Slots :
           t # u /\ work_arr[t] # NULL => work_arr[t] # work_arr[u])'
    BY <1>0, <2>1, <2>2, <2>3, <2>4 DEF NoLineTwice, TypeOK, InRing
  <2>8. (\A q, r \in Producers :
           q # r /\ line_buffer[q] # NULL => line_buffer[q] # line_buffer[r])'
    BY <1>0, <2>3 DEF NoLineTwice, TypeOK
  <2>9. NoLineTwice'
    BY <1>0, <2>2, <2>3, <2>4, <2>5, <2>7, <2>8 DEF NoLineTwice
  <2> QED BY <2>6, <2>9 DEF EachLineInOnePlace
<1>3. CASE UNCHANGED <<line_buffer, work_arr, freed, lines_read>>
  BY <1>0, <1>3 DEF EachLineInOnePlace, EachLineSomewhere, NoLineTwice, InHand,
                    InRing
<1>4. Producer(p) => \/ ScanLine(p) \/ Put(p)
                    \/ UNCHANGED <<line_buffer, work_arr, freed, lines_read>>
  BY DEF Producer, PStep, ring, heap, LockProd, Claim, LoadNext, StoreNext,
         CheckWrap, Reset, LockSlot, LockBeyondRing, UnlockProd, ScanEOF,
         WaitEmpty, UnlockSlot, UnlockSlotAtEOF, UnlockProdAtEOF
<1> QED BY <1>1, <1>2, <1>3, <1>4

-----------------------------------------------------------------------------
(* The consumers preserve each part of IInv that reads their variables.    *)

(* A consumer keeps the variables in their types; what it prints and frees *)
(* is a line.                                                              *)
LEMMA ConsumerTypeOK ==
    ASSUME IInv, NEW c \in Consumers, Consumer(c)
    PROVE  TypeOK'
<1> USE RingAssumption, FileAssumption, LockAssumption DEF IInv, TypeOK,
        CStep, heap, pvars, ConsumerPCs, Free, Release, HandInv
<1>1. CASE TakeTicket(c)
  <2>1. curr_N_c' \in Slots BY <1>1 DEF TakeTicket, Slots
  <2>2. cons_arr_m' \in 0 .. LockMax BY <1>1 DEF TakeTicket
  <2> QED BY <1>1, <2>1, <2>2 DEF TakeTicket
<1>2. CASE LockConsSlot(c) BY <1>2 DEF LockConsSlot
<1>3. CASE Poll(c) BY <1>3 DEF Poll
<1>4. CASE CheckEnd(c) BY <1>4 DEF CheckEnd
<1>5. CASE Leave(c) BY <1>5 DEF Leave
<1>6. CASE UnlockCons(c) BY <1>6 DEF UnlockCons
<1>7. CASE PrintLine(c) BY <1>7 DEF PrintLine
<1>8. CASE Clear(c) BY <1>8 DEF Clear
<1>9. CASE UnlockConsSlot(c) BY <1>9 DEF UnlockConsSlot
<1> QED BY <1>1, <1>2, <1>3, <1>4, <1>5, <1>6, <1>7, <1>8, <1>9 DEF
           Consumer

(* The lock of a slot is taken while a consumer works on the slot, and     *)
(* after the consumer has returned from it.                                *)
LEMMA ConsumerSlotLock ==
    ASSUME IInv, NEW c \in Consumers, Consumer(c)
    PROVE  ConsSlotLockInv'
<1> USE RingAssumption, FileAssumption, LockAssumption DEF IInv, TypeOK,
        CStep, heap, pvars, Free, Release, Slots, ConsSlotLockInv,
        SlotExclusion, InConsSlotSection
<1>1. CASE TakeTicket(c) BY <1>1 DEF TakeTicket
<1>2. CASE LockConsSlot(c) BY <1>2 DEF LockConsSlot
<1>3. CASE Poll(c) BY <1>3 DEF Poll
<1>4. CASE CheckEnd(c) BY <1>4 DEF CheckEnd
<1>5. CASE Leave(c) BY <1>5 DEF Leave
<1>6. CASE UnlockCons(c) BY <1>6 DEF UnlockCons
<1>7. CASE PrintLine(c) BY <1>7 DEF PrintLine
<1>8. CASE Clear(c) BY <1>8 DEF Clear
<1>9. CASE UnlockConsSlot(c) BY <1>9 DEF UnlockConsSlot
<1> QED BY <1>1, <1>2, <1>3, <1>4, <1>5, <1>6, <1>7, <1>8, <1>9 DEF
           Consumer

(* Two consumers never work on one slot.                                   *)
LEMMA ConsumerSlotExclusion ==
    ASSUME IInv, NEW c \in Consumers, Consumer(c)
    PROVE  SlotExclusion'
<1> USE RingAssumption, FileAssumption, LockAssumption DEF IInv, TypeOK,
        CStep, heap, pvars, Free, Slots, ConsSlotLockInv, SlotExclusion,
        InConsSlotSection, InSlotSection
<1>1. CASE TakeTicket(c) BY <1>1 DEF TakeTicket
<1>2. CASE LockConsSlot(c) BY <1>2 DEF LockConsSlot
<1>3. CASE Poll(c) BY <1>3 DEF Poll
<1>4. CASE CheckEnd(c) BY <1>4 DEF CheckEnd
<1>5. CASE Leave(c) BY <1>5 DEF Leave
<1>6. CASE UnlockCons(c) BY <1>6 DEF UnlockCons
<1>7. CASE PrintLine(c) BY <1>7 DEF PrintLine
<1>8. CASE Clear(c) BY <1>8 DEF Clear
<1>9. CASE UnlockConsSlot(c) BY <1>9 DEF UnlockConsSlot
<1> QED BY <1>1, <1>2, <1>3, <1>4, <1>5, <1>6, <1>7, <1>8, <1>9 DEF
           Consumer

(* Only the consumer that holds a slot empties it, so the line it found    *)
(* there is still there when it is printed and freed.                      *)
LEMMA ConsumerHand ==
    ASSUME IInv, NEW c \in Consumers, Consumer(c)
    PROVE  HandInv'
<1> USE RingAssumption, FileAssumption, LockAssumption DEF IInv, TypeOK,
        CStep, heap, pvars, Slots, NULL, HandInv, SlotExclusion,
        InConsSlotSection
<1>1. CASE TakeTicket(c) BY <1>1 DEF TakeTicket
<1>2. CASE LockConsSlot(c) BY <1>2 DEF LockConsSlot
<1>3. CASE Poll(c) BY <1>3 DEF Poll
<1>4. CASE CheckEnd(c) BY <1>4 DEF CheckEnd
<1>5. CASE Leave(c) BY <1>5 DEF Leave
<1>6. CASE UnlockCons(c) BY <1>6 DEF UnlockCons
<1>7. CASE PrintLine(c) BY <1>7 DEF PrintLine
<1>8. CASE Clear(c) BY <1>8 DEF Clear
<1>9. CASE UnlockConsSlot(c) BY <1>9 DEF UnlockConsSlot
<1> QED BY <1>1, <1>2, <1>3, <1>4, <1>5, <1>6, <1>7, <1>8, <1>9 DEF
           Consumer

(* A line moves from one slot to the lines freed.                          *)
LEMMA ConsumerAccounting ==
    ASSUME IInv, NEW c \in Consumers, Consumer(c)
    PROVE  EachLineInOnePlace'
<1> USE RingAssumption, FileAssumption DEF Lines, NULL
<1>0. TypeOK /\ EachLineSomewhere /\ NoLineTwice
  BY DEF IInv, EachLineInOnePlace
<1>1. CASE Clear(c)
  <2> DEFINE s == c_n[c]
  <2> DEFINE line == work_arr[s]
  <2>1. s \in Slots /\ line \in Lines
    BY <1>0, <1>1 DEF Clear, CStep, IInv, TypeOK, HandInv
  <2>2. /\ work_arr' = [work_arr EXCEPT ![s] = NULL]
        /\ freed' = freed \cup {line}
        /\ line_buffer' = line_buffer /\ lines_read' = lines_read
    BY <1>1, ConsumerFrame DEF Clear, CStep, pvars
  <2>3. InRing(line) /\ ~InHand(line) /\ line \notin freed
    BY <1>0, <2>1 DEF NoLineTwice, InRing
  <2>4. ASSUME NEW l \in Lines
        PROVE  /\ InRing(l)' <=> InRing(l) /\ l # line
               /\ InHand(l)' <=> InHand(l)
    BY <1>0, <2>1, <2>2 DEF TypeOK, InHand, InRing, NoLineTwice
  <2>5. EachLineSomewhere'
    BY <1>0, <2>2, <2>3, <2>4 DEF EachLineSomewhere
  <2>6. NoLineTwice'
    BY <1>0, <2>1, <2>2, <2>3, <2>4 DEF NoLineTwice, TypeOK
  <2> QED BY <2>5, <2>6 DEF EachLineInOnePlace
<1>2. CASE UNCHANGED <<line_buffer, work_arr, freed, lines_read>>
  BY <1>0, <1>2 DEF EachLineInOnePlace, EachLineSomewhere, NoLineTwice, InHand,
                    InRing
<1>3. Consumer(c) => \/ Clear(c)
                     \/ UNCHANGED <<line_buffer, work_arr, freed, lines_read>>
  BY DEF Consumer, CStep, heap, pvars, TakeTicket, LockConsSlot, Poll,
         CheckEnd, Leave, UnlockCons, PrintLine, UnlockConsSlot
<1> QED BY <1>1, <1>2, <1>3

-----------------------------------------------------------------------------
(* The invariant.                                                          *)

LEMMA InitInv == Init => IInv
<1> SUFFICES ASSUME Init PROVE IInv OBVIOUS
<1> USE RingAssumption, FileAssumption, LockAssumption, ArgsAssumption
        DEF Init
<1>1. TypeOK
  BY DEF TypeOK, Slots, Lines, ProducerPCs, ConsumerPCs, MainPCs, StartOfMain
<1>2. ProdLockInv /\ ProdIndexInv
  BY DEF ProdLockInv, ProdIndexInv, InProdSection, Slots
<1>3. SlotLockInv /\ ConsSlotLockInv /\ SlotExclusion
  BY DEF SlotLockInv, ConsSlotLockInv, SlotExclusion, InSlotSection,
         InConsSlotSection, StoresLine
<1>4. HandInv /\ EndInv
  BY DEF HandInv, EndInv, StartOfMain
<1>5. EachLineInOnePlace
  BY DEF EachLineInOnePlace, EachLineSomewhere, NoLineTwice, InHand, InRing,
         Lines, NULL
<1> QED BY <1>1, <1>2, <1>3, <1>4, <1>5 DEF IInv

(* Each producer step preserves the invariant.                             *)
LEMMA ProducerInv ==
    ASSUME IInv, NEW p \in Producers, Producer(p)
    PROVE  IInv'
<1>1. ConsSlotLockInv'
  BY ProducerFrame DEF IInv, ConsSlotLockInv, InConsSlotSection, cvars
<1> QED
  BY <1>1, ProducerTypeOK, ProducerProdLock, ProducerProdIndex,
     ProducerSlotLock, ProducerSlotExclusion, ProducerHand, ProducerEnd,
     ProducerAccounting DEF IInv

(* Each consumer step preserves the invariant.                             *)
LEMMA ConsumerInv ==
    ASSUME IInv, NEW c \in Consumers, Consumer(c)
    PROVE  IInv'
<1>1. ProdLockInv' /\ ProdIndexInv'
  BY ConsumerFrame DEF IInv, ProdLockInv, ProdIndexInv, BeforeEOF,
                       InProdSection, pvars
<1>2. SlotLockInv'
  BY ConsumerFrame DEF IInv, SlotLockInv, InSlotSection, StoresLine, pvars
<1>3. EndInv'
  BY ConsumerFrame DEF IInv, EndInv, pvars
<1> QED
  BY <1>1, <1>2, <1>3, ConsumerTypeOK, ConsumerSlotLock,
     ConsumerSlotExclusion, ConsumerHand, ConsumerAccounting DEF IInv

(* The steps of main preserve the invariant: it joins the producers before *)
(* it sets end_flag.                                                       *)
LEMMA MainInv ==
    ASSUME IInv, Main \/ Finish \/ Exited
    PROVE  IInv'
<1>1. TypeOK'
  BY MainFrame DEF IInv, TypeOK, MainPCs, locks, heap, pvars, cvars, Main,
     Finish, Exited, JoinProducers, SetEnd, JoinConsumers, TimeUp, vars, shared
<1>2. EndInv'
  BY MainFrame DEF IInv, EndInv, pvars, Main, Finish, Exited, JoinProducers,
     SetEnd, JoinConsumers, TimeUp, vars, shared
<1>3. /\ ProdLockInv' /\ ProdIndexInv'
      /\ SlotLockInv' /\ ConsSlotLockInv' /\ SlotExclusion'
  BY MainFrame DEF IInv, ProdLockInv, ProdIndexInv, SlotLockInv,
     ConsSlotLockInv, SlotExclusion, BeforeEOF, InProdSection, InSlotSection,
     InConsSlotSection, StoresLine, locks, pvars, cvars
<1>4. HandInv' /\ EachLineInOnePlace'
  BY MainFrame DEF IInv, HandInv, EachLineInOnePlace, EachLineSomewhere,
     NoLineTwice, InHand, InRing, heap, pvars, cvars
<1> QED BY <1>1, <1>2, <1>3, <1>4 DEF IInv

(* So does a step that changes nothing.                                    *)
LEMMA StutterInv ==
    ASSUME IInv, UNCHANGED vars
    PROVE  IInv'
<1> USE DEF IInv, vars, locks, shared, heap, pvars, cvars
<1>2. TypeOK' /\ ProdLockInv' /\ ProdIndexInv' /\ EndInv'
  BY DEF TypeOK, ProdLockInv, ProdIndexInv, EndInv, BeforeEOF, InProdSection
<1>3. SlotLockInv' /\ ConsSlotLockInv' /\ SlotExclusion'
  BY DEF SlotLockInv, ConsSlotLockInv, SlotExclusion, InSlotSection,
         InConsSlotSection, StoresLine
<1>4. HandInv' /\ EachLineInOnePlace'
  BY DEF HandInv, EachLineInOnePlace, EachLineSomewhere, NoLineTwice, InHand,
         InRing
<1> QED BY <1>2, <1>3, <1>4

LEMMA NextInv == IInv /\ [Next]_vars => IInv'
<1> SUFFICES ASSUME IInv, [Next]_vars PROVE IInv' OBVIOUS
<1>1. ASSUME NEW p \in Producers, Producer(p) PROVE IInv'
  BY <1>1, ProducerInv
<1>2. ASSUME NEW c \in Consumers, Consumer(c) PROVE IInv'
  BY <1>2, ConsumerInv
<1>3. CASE Main \/ Finish \/ Exited
  BY <1>3, MainInv
<1>4. CASE UNCHANGED vars
  BY <1>4, StutterInv
<1> QED BY <1>1, <1>2, <1>3, <1>4 DEF Next

THEOREM Invariance == Spec => []IInv
<1>1. Init => IInv BY InitInv
<1>2. IInv /\ [Next]_vars => IInv' BY NextInv
<1> QED BY <1>1, <1>2, PTL DEF Spec

-----------------------------------------------------------------------------
(* What follows from the invariant.                                        *)

(* Every variable keeps its type.                                          *)
THEOREM TypeCorrectness == Spec => []TypeOK
BY Invariance, PTL DEF IInv

(* Every line read is in the hand of one producer, in one slot, or freed,  *)
(* whatever the threads do (task.c:83-95 and 144-145).                     *)
THEOREM LineAccounting == Spec => []EachLineInOnePlace
BY Invariance, PTL DEF IInv

(* One producer and one consumer at a time work on a slot (task.c:79-96    *)
(* and 118-146).                                                           *)
THEOREM SlotsAreExclusive == Spec => []SlotExclusion
BY Invariance, PTL DEF IInv

(* No line is ever stored outside the ring, and an index leaves the ring   *)
(* only after the end of the file (task.c:74-95).                          *)
THEOREM OverrunIsHarmless == Spec => []OverrunOnlyAfterEOF
<1>1. IInv => OverrunOnlyAfterEOF
  BY DEF IInv, SlotLockInv, ProdIndexInv, BeforeEOF, OverrunOnlyAfterEOF
<1> QED BY <1>1, Invariance, PTL

(* The returned consumers hold locks of different slots, so there are at   *)
(* most N of them (task.c:118-123).                                        *)
THEOREM ReturnsAreBounded == Spec => []AtMostNConsumersReturn
<1>1. IInv => AtMostNConsumersReturn
  <2> SUFFICES ASSUME IInv PROVE Cardinality(Returned) <= N
    BY DEF AtMostNConsumersReturn
  <2> DEFINE f == [c \in Returned |-> c_n[c]]
  <2>1. f \in Injection(Returned, Slots)
    BY DEF IInv, TypeOK, SlotExclusion, InConsSlotSection, Returned, Injection,
           IsInjective
  <2>2. IsFiniteSet(Slots) /\ Cardinality(Slots) = N
    BY RingAssumption, FS_Interval DEF Slots
  <2>3. Cardinality(Returned) <= Cardinality(Slots)
    BY <2>1, <2>2, FS_Injection
  <2> QED BY <2>2, <2>3
<1> QED BY <1>1, Invariance, PTL

(* After end_flag is set the ring only loses lines (task.c:216-221).       *)
THEOREM NoStoreAfterEnd == Spec => NothingStoredAfterEnd
<1> DEFINE A == end_flag = 1 =>
                   \A s \in Slots : work_arr'[s] \in {NULL, work_arr[s]}
<1>1. IInv /\ [Next]_vars => [A]_vars
  <2> SUFFICES ASSUME IInv, [Next]_vars, end_flag = 1, NEW s \in Slots
               PROVE  work_arr'[s] \in {NULL, work_arr[s]}
    OBVIOUS
  <2>1. \A p \in Producers : ppc[p] = "done"
    BY DEF IInv, EndInv
  <2>2. ASSUME NEW p \in Producers, Producer(p) PROVE FALSE
    BY <2>1, <2>2 DEF Producer, PStep, LockProd, Claim, LoadNext, StoreNext,
       CheckWrap, Reset, LockSlot, LockBeyondRing, UnlockProd, ScanLine,
       ScanEOF, WaitEmpty, Put, UnlockSlot, UnlockSlotAtEOF, UnlockProdAtEOF
  <2>3. ASSUME NEW c \in Consumers, Consumer(c)
        PROVE  work_arr'[s] \in {NULL, work_arr[s]}
    BY <2>3 DEF IInv, TypeOK, Consumer, TakeTicket, LockConsSlot, Poll,
       CheckEnd, Leave, UnlockCons, PrintLine, Clear, UnlockConsSlot, shared
  <2>4. CASE Main \/ Finish \/ Exited
    BY <2>4, MainFrame
  <2>5. CASE UNCHANGED vars
    BY <2>5 DEF vars, shared
  <2> QED BY <2>2, <2>3, <2>4, <2>5 DEF Next
<1> QED BY <1>1, Invariance, PTL DEF Spec, NothingStoredAfterEnd

-----------------------------------------------------------------------------
(* What is printed.                                                        *)

(* A printed line that is still in the ring is the one a consumer is about *)
(* to free, and one about to be freed was printed if it matches.           *)
PrintingInv ==
    /\ \A s \in Slots : work_arr[s] \in PrintedLines =>
           \E c \in Consumers : cpc[c] = "clear" /\ c_n[c] = s
    /\ \A c \in Consumers : cpc[c] = "clear" /\ Matches(work_arr[c_n[c]])
           => work_arr[c_n[c]] \in PrintedLines

PrintInv == PrintedOnce /\ PrintingInv

(* Printing one more line.                                                 *)
LEMMA PrintOne ==
    ASSUME printed \in Seq(Lines), NEW l \in Lines,
           printed' = Append(printed, l)
    PROVE  /\ PrintedLines' = PrintedLines \cup {l}
           /\ Len(printed') = Len(printed) + 1
           /\ printed'[Len(printed) + 1] = l
           /\ \A i \in 1 .. Len(printed) : printed'[i] = printed[i]
<1>1. /\ Len(printed) \in Nat /\ Len(printed') = Len(printed) + 1
      /\ printed'[Len(printed) + 1] = l
      /\ \A i \in 1 .. Len(printed) : printed'[i] = printed[i]
  BY AppendProperties, LenProperties
<1>2. ASSUME NEW k
      PROVE  k \in PrintedLines' <=> k \in PrintedLines \/ k = l
  <2>1. 1 .. Len(printed') = 1 .. Len(printed) \cup {Len(printed) + 1}
    BY <1>1
  <2> QED BY <1>1, <2>1 DEF PrintedLines
<1> QED BY <1>1, <1>2

LEMMA InitPrint == Init => PrintInv
BY DEF Init, PrintInv, PrintingInv, PrintedOnce, PrintedLines

(* Of the producers only a store matters: its line is new to the ring.     *)
LEMMA ProducerPrint ==
    ASSUME IInv, PrintInv, NEW p \in Producers, Producer(p)
    PROVE  PrintInv'
<1>0. /\ UNCHANGED <<printed, freed, cpc, c_n>>
      /\ PrintedLines' = PrintedLines
  BY ProducerFrame DEF heap, cvars, PrintedLines
<1>1. CASE Put(p)
  <2> DEFINE s == p_n[p]
  <2> DEFINE l == line_buffer[p]
  <2>1. /\ work_arr \in [Slots -> Lines \cup {NULL}]
        /\ s \in Slots /\ l # NULL /\ l \in Lines
        /\ InHand(l) /\ work_arr[s] = NULL
        /\ work_arr' = [work_arr EXCEPT ![s] = l]
    BY <1>1 DEF Put, PStep, IInv, TypeOK, SlotLockInv, StoresLine, HandInv,
                InHand
  <2>2. l \notin PrintedLines
    BY <2>1 DEF IInv, EachLineInOnePlace, NoLineTwice, PrintInv, PrintedOnce
  <2>3. PrintedOnce'
    <3>1. ASSUME NEW k, InRing(k), k # NULL PROVE InRing(k)'
      BY <2>1, <3>1 DEF InRing
    <3>2. NULL \notin PrintedLines
      <4>1. printed \in Seq(Lines) BY DEF IInv, TypeOK
      <4> QED BY <4>1, ElementOfSeq, FileAssumption
              DEF PrintedLines, Lines, NULL
    <3> QED BY <1>0, <3>1, <3>2 DEF PrintInv, PrintedOnce, Matches
  <2>4. PrintingInv'
    <3>1. \A c \in Consumers : cpc[c] = "clear" => c_n[c] # s
      BY <2>1 DEF IInv, HandInv
    <3>2. \A t \in Slots : t # s => work_arr'[t] = work_arr[t]
      BY <2>1
    <3>3. \A c \in Consumers : c_n[c] \in Slots
      BY DEF IInv, TypeOK
    <3> QED BY <1>0, <2>1, <2>2, <3>1, <3>2, <3>3
            DEF PrintInv, PrintingInv, Matches
  <2> QED BY <2>3, <2>4 DEF PrintInv
<1>2. CASE UNCHANGED work_arr
  BY <1>0, <1>2 DEF PrintInv, PrintedOnce, PrintingInv, InRing, Matches
<1>3. Put(p) \/ UNCHANGED work_arr
  BY DEF Producer, ring, LockProd, Claim, LoadNext, StoreNext,
       CheckWrap, Reset, LockSlot, LockBeyondRing, UnlockProd, ScanLine,
       ScanEOF, WaitEmpty, UnlockSlot, UnlockSlotAtEOF, UnlockProdAtEOF
<1> QED BY <1>1, <1>2, <1>3

(* A consumer prints the line of its slot, which no other consumer is at,  *)
(* and frees it next.                                                      *)
LEMMA ConsumerPrint ==
    ASSUME IInv, PrintInv, NEW c \in Consumers, Consumer(c)
    PROVE  PrintInv'
<1> DEFINE s == c_n[c]
<1> DEFINE l == work_arr[s]
<1>0. /\ work_arr \in [Slots -> Lines \cup {NULL}]
      /\ cpc \in [Consumers -> ConsumerPCs] /\ c_n \in [Consumers -> Slots]
      /\ printed \in Seq(Lines) /\ s \in Slots
  BY DEF IInv, TypeOK
<1>1. CASE PrintLine(c)
  <2>1. /\ cpc[c] = "print" /\ cpc' = [cpc EXCEPT ![c] = "clear"]
        /\ UNCHANGED <<c_n, work_arr, freed>>
        /\ l # NULL /\ l \in Lines
    BY <1>0, <1>1 DEF PrintLine, CStep, IInv, HandInv
  <2>2. l \notin PrintedLines
    <3>1. ASSUME NEW d \in Consumers, cpc[d] = "clear", c_n[d] = s PROVE FALSE
      BY <2>1, <3>1 DEF IInv, SlotExclusion, InConsSlotSection
    <3> QED BY <1>0, <3>1 DEF PrintInv, PrintingInv
  <2>3. CASE Matches(l)
    <3>1. printed' = Append(printed, l)
      BY <1>1, <2>3 DEF PrintLine
    <3>2. /\ PrintedLines' = PrintedLines \cup {l}
          /\ Len(printed') = Len(printed) + 1
          /\ printed'[Len(printed) + 1] = l
          /\ \A i \in 1 .. Len(printed) : printed'[i] = printed[i]
          /\ Len(printed) \in Nat
      BY <1>0, <2>1, <3>1, PrintOne, LenProperties
    <3>3. \A i \in 1 .. Len(printed) : printed[i] # l
      BY <2>2 DEF PrintedLines
    <3>4. \A i, j \in 1 .. Len(printed') :
              i # j => printed'[i] # printed'[j]
      BY <3>2, <3>3 DEF PrintInv, PrintedOnce
    <3>5. InRing(l)' BY <1>0, <2>1 DEF InRing
    <3>6. PrintedOnce'
      BY <2>1, <2>3, <3>2, <3>4, <3>5
         DEF PrintInv, PrintedOnce, Matches, InRing
    <3>7. PrintingInv'
      BY <1>0, <2>1, <3>2, <2>3 DEF PrintInv, PrintingInv, Matches, IInv,
         EachLineInOnePlace, NoLineTwice
    <3> QED BY <3>6, <3>7 DEF PrintInv
  <2>4. CASE ~Matches(l)
    <3>1. printed' = printed /\ PrintedLines' = PrintedLines
      BY <1>1, <2>4 DEF PrintLine, PrintedLines
    <3>2. PrintedOnce'
      BY <2>1, <3>1 DEF PrintInv, PrintedOnce, Matches, InRing
    <3>3. PrintingInv'
      BY <1>0, <2>1, <2>4, <3>1 DEF PrintInv, PrintingInv, Matches
    <3> QED BY <3>2, <3>3 DEF PrintInv
  <2> QED BY <2>3, <2>4
<1>2. CASE Clear(c)
  <2>1. /\ cpc[c] = "clear" /\ cpc' = [cpc EXCEPT ![c] = "unslot"]
        /\ UNCHANGED <<c_n, printed>>
        /\ freed' = freed \cup {l}
        /\ work_arr' = [work_arr EXCEPT ![s] = NULL]
        /\ PrintedLines' = PrintedLines
    BY <1>2 DEF Clear, CStep, PrintedLines
  <2>2. NULL \notin PrintedLines
    BY <1>0, ElementOfSeq, FileAssumption DEF PrintedLines, Lines, NULL
  <2>3. Matches(l) => l \in PrintedLines
    BY <2>1 DEF PrintInv, PrintingInv
  <2>4. ASSUME NEW k, InRing(k), k # l PROVE InRing(k)'
    BY <1>0, <2>1, <2>4 DEF InRing
  <2>5. PrintedOnce'
    BY <2>1, <2>3, <2>4 DEF PrintInv, PrintedOnce, Matches
  <2>6. ASSUME NEW d \in Consumers, cpc[d] = "clear", d # c
        PROVE  c_n[d] # s
    BY <2>1, <2>6 DEF IInv, SlotExclusion, InConsSlotSection
  <2>7. PrintingInv'
    BY <1>0, <2>1, <2>2, <2>6 DEF PrintInv, PrintingInv, Matches
  <2> QED BY <2>5, <2>7 DEF PrintInv
<1>3. CASE UNCHANGED <<printed, freed, work_arr>>
           /\ \A d \in Consumers :
                  (cpc[d] = "clear" \/ cpc'[d] = "clear") =>
                      cpc'[d] = cpc[d] /\ c_n'[d] = c_n[d]
  <2>1. PrintedLines' = PrintedLines BY <1>3 DEF PrintedLines
  <2>2. PrintedOnce'
    BY <1>3, <2>1 DEF PrintInv, PrintedOnce, InRing, Matches
  <2>3. PrintingInv'
    BY <1>3, <2>1 DEF PrintInv, PrintingInv, Matches
  <2> QED BY <2>2, <2>3 DEF PrintInv
<1>4. \/ PrintLine(c) \/ Clear(c)
      \/ /\ UNCHANGED <<printed, freed, work_arr>>
         /\ \A d \in Consumers :
                  (cpc[d] = "clear" \/ cpc'[d] = "clear") =>
                      cpc'[d] = cpc[d] /\ c_n'[d] = c_n[d]
  BY <1>0 DEF Consumer, CStep, heap, TakeTicket, LockConsSlot, Poll, CheckEnd,
       Leave, UnlockCons, UnlockConsSlot
<1> QED BY <1>1, <1>2, <1>3, <1>4

LEMMA NextPrint == IInv /\ PrintInv /\ [Next]_vars => PrintInv'
<1> SUFFICES ASSUME IInv, PrintInv, [Next]_vars PROVE PrintInv' OBVIOUS
<1>1. ASSUME NEW p \in Producers, Producer(p) PROVE PrintInv'
  BY <1>1, ProducerPrint
<1>2. ASSUME NEW c \in Consumers, Consumer(c) PROVE PrintInv'
  BY <1>2, ConsumerPrint
<1>3. CASE UNCHANGED <<printed, freed, work_arr, cpc, c_n>>
  <2>1. PrintedLines' = PrintedLines BY <1>3 DEF PrintedLines
  <2> QED BY <1>3, <2>1
          DEF PrintInv, PrintedOnce, PrintingInv, InRing, Matches
<1>4. CASE Main \/ Finish \/ Exited
  BY <1>3, <1>4, MainFrame DEF heap, cvars
<1>5. CASE UNCHANGED vars
  BY <1>3, <1>5 DEF vars, shared, heap, cvars
<1> QED BY <1>1, <1>2, <1>4, <1>5 DEF Next

(* A line is printed at most once, only if it matches, and none that       *)
(* matches is freed in silence (task.c:128-145).                           *)
THEOREM PrintsOnce == Spec => []PrintedOnce
<1>1. Init => PrintInv BY InitPrint
<1>2. IInv /\ PrintInv /\ [Next]_vars => PrintInv' BY NextPrint
<1>3. Spec => []PrintInv BY <1>1, <1>2, Invariance, PTL DEF Spec
<1> QED BY <1>3, PTL DEF PrintInv

-----------------------------------------------------------------------------
(* One producer and one consumer: the ring is a queue.                     *)

After(s) == IF s + 1 = N THEN 0 ELSE s + 1

(* The indices go round the ring in step, beyond the end of the file too.  *)
OneIndexInv(p, c) ==
    /\ ppc[p] \in {"lock", "claim", "load", "store", "unslot"}
           => curr_N_p \in Slots
    /\ ppc[p] \in {"load", "store"} => p_n[p] = curr_N_p
    /\ ppc[p] = "store" => p_tmp[p] = curr_N_p
    /\ ppc[p] \in {"check", "reset"}
           => p_n[p] \in Slots /\ curr_N_p = p_n[p] + 1
    /\ ppc[p] = "reset" => curr_N_p = N
    /\ ppc[p] \in {"slot", "unlock", "scan", "spin", "put", "unslot"}
           => p_n[p] \in Slots /\ curr_N_p = After(p_n[p])
    /\ ppc[p] # "stuck"
    /\ cpc[c] # "ticket" => curr_N_c = After(c_n[c])

(* Where the producer stores next and the consumer takes next, and the     *)
(* last line that was stored.                                              *)
Storing(p) == ppc[p] \notin {"eof_slot", "eof_prod", "done"}

PSlot(p) ==
    IF ppc[p] \in {"lock", "claim", "unslot"} THEN curr_N_p ELSE p_n[p]

CSlot(c) == IF cpc[c] \in {"ticket", "unslot"} THEN curr_N_c ELSE c_n[c]

Stored(p) == IF line_buffer[p] = NULL THEN lines_read ELSE lines_read - 1

(* The lines f + 1 .. Stored(p) are in the ring, one slot after the other, *)
(* from the consumer's slot up to the producer's.                          *)
Queued(p, c, f) ==
    /\ freed = 1 .. f
    /\ f < Stored(p) => work_arr[CSlot(c)] = f + 1
    /\ f = Stored(p) /\ Storing(p) => PSlot(p) = CSlot(c)
    /\ \A s \in Slots : work_arr[s] # NULL =>
           /\ work_arr[s] > f /\ work_arr[s] <= Stored(p)
           /\ work_arr[s] < Stored(p) => work_arr[After(s)] = work_arr[s] + 1
           /\ work_arr[s] = Stored(p) /\ Storing(p) => PSlot(p) = After(s)

PrintedInOrder(c, f) ==
    /\ \A i, j \in 1 .. Len(printed) : i < j => printed[i] < printed[j]
    /\ \A k \in PrintedLines : k <= f \/ (k = f + 1 /\ cpc[c] = "clear")

TailInv(p, c) ==
    /\ line_buffer[p] # NULL => line_buffer[p] = lines_read
    /\ \E f \in 0 .. FileLines :
           /\ f <= Stored(p)
           /\ Queued(p, c, f)
           /\ PrintedInOrder(c, f)

OneInv ==
    OneEach => \A p \in Producers, c \in Consumers :
                   OneIndexInv(p, c) /\ TailInv(p, c)

LEMMA OnlyOne ==
    ASSUME OneEach
    PROVE  /\ \A p, q \in Producers : p = q
           /\ \A c, d \in Consumers : c = d
<1>1. (\E x : Producers = {x}) /\ (\E x : Consumers = {x})
  BY ThreadsAssumption, FS_Singleton DEF OneEach
<1> QED BY <1>1

LEMMA InitOne == Init => OneInv
<1> SUFFICES ASSUME Init, NEW p \in Producers, NEW c \in Consumers
             PROVE  OneIndexInv(p, c) /\ TailInv(p, c)
  BY DEF OneInv
<1> USE RingAssumption, FileAssumption DEF Init
<1>1. OneIndexInv(p, c) BY DEF OneIndexInv, Slots
<1>2. 0 \in 0 .. FileLines /\ 0 <= Stored(p) BY DEF Stored, NULL
<1>3. Queued(p, c, 0)
  BY DEF Queued, Stored, Storing, PSlot, CSlot, Slots, NULL
<1>4. PrintedInOrder(c, 0) BY DEF PrintedInOrder, PrintedLines
<1> QED BY <1>1, <1>2, <1>3, <1>4 DEF TailInv, NULL

LEMMA ProducerOneIndex ==
    ASSUME IInv, NEW p \in Producers, NEW c \in Consumers,
           OneIndexInv(p, c), Producer(p)
    PROVE  OneIndexInv(p, c)'
<1>0. /\ UNCHANGED <<cpc, c_n, curr_N_c>>
      /\ ppc \in [Producers -> ProducerPCs] /\ p_n \in [Producers -> Nat]
      /\ p_tmp \in [Producers -> Nat]
  BY ProducerFrame DEF cvars, IInv, TypeOK
<1> USE <1>0, RingAssumption DEF OneIndexInv, PStep, Slots, After
<1>1. CASE LockProd(p) BY <1>1 DEF LockProd
<1>2. CASE Claim(p) BY <1>2 DEF Claim
<1>3. CASE LoadNext(p) BY <1>3 DEF LoadNext
<1>4. CASE StoreNext(p) BY <1>4 DEF StoreNext
<1>5. CASE CheckWrap(p) BY <1>5 DEF CheckWrap
<1>6. CASE Reset(p) BY <1>6 DEF Reset
<1>7. CASE LockSlot(p) BY <1>7 DEF LockSlot
<1>8. CASE LockBeyondRing(p) BY <1>8 DEF LockBeyondRing
<1>9. CASE UnlockProd(p) BY <1>9 DEF UnlockProd
<1>10. CASE ScanLine(p) BY <1>10 DEF ScanLine
<1>11. CASE ScanEOF(p) BY <1>11 DEF ScanEOF
<1>12. CASE WaitEmpty(p) BY <1>12 DEF WaitEmpty
<1>13. CASE Put(p) BY <1>13 DEF Put
<1>14. CASE UnlockSlot(p) BY <1>14 DEF UnlockSlot
<1>15. CASE UnlockSlotAtEOF(p) BY <1>15 DEF UnlockSlotAtEOF
<1>16. CASE UnlockProdAtEOF(p) BY <1>16 DEF UnlockProdAtEOF
<1> QED
  BY <1>1, <1>2, <1>3, <1>4, <1>5, <1>6, <1>7, <1>8, <1>9, <1>10, <1>11,
     <1>12, <1>13, <1>14, <1>15, <1>16 DEF Producer

LEMMA ConsumerOneIndex ==
    ASSUME IInv, NEW p \in Producers, NEW c \in Consumers,
           OneIndexInv(p, c), Consumer(c)
    PROVE  OneIndexInv(p, c)'
<1>0. /\ UNCHANGED <<ppc, p_n, p_tmp, curr_N_p>>
      /\ cpc \in [Consumers -> ConsumerPCs] /\ c_n \in [Consumers -> Slots]
  BY ConsumerFrame DEF pvars, IInv, TypeOK
<1>1. cpc'[c] # "ticket" => curr_N_c' = After(c_n'[c])
  BY <1>0 DEF OneIndexInv, After, Consumer, CStep, TakeTicket, LockConsSlot, Poll,
     CheckEnd, Leave, UnlockCons, PrintLine, Clear, UnlockConsSlot
<1> QED BY <1>0, <1>1 DEF OneIndexInv, After

(* A producer's step other than a store keeps the queue as it is: while it *)
(* is storing it keeps its slot.                                           *)
LEMMA ProducerKeepsPlace ==
    ASSUME IInv, NEW p \in Producers, NEW c \in Consumers,
           OneIndexInv(p, c), TailInv(p, c), Producer(p), ~Put(p)
    PROVE  /\ work_arr' = work_arr
           /\ Storing(p)' => Storing(p) /\ PSlot(p)' = PSlot(p)
           /\ Stored(p)' = Stored(p)
           /\ line_buffer'[p] # NULL => line_buffer'[p] = lines_read'
<1>0. /\ ppc \in [Producers -> ProducerPCs] /\ p_n \in [Producers -> Nat]
      /\ line_buffer \in [Producers -> Lines \cup {NULL}]
      /\ lines_read \in 0 .. FileLines
      /\ ppc[p] \in {"spin", "put"} <=> line_buffer[p] # NULL
  BY DEF IInv, TypeOK, HandInv
<1>1. work_arr' = work_arr
  BY DEF Producer, ring, LockProd, Claim, LoadNext, StoreNext,
     CheckWrap, Reset, LockSlot, LockBeyondRing, UnlockProd, ScanLine, ScanEOF,
     WaitEmpty, UnlockSlot, UnlockSlotAtEOF, UnlockProdAtEOF
<1>2. Storing(p)' => Storing(p) /\ PSlot(p)' = PSlot(p)
  BY <1>0 DEF Producer, PStep, LockProd, Claim, LoadNext, StoreNext,
     CheckWrap, Reset, LockSlot, LockBeyondRing, UnlockProd, ScanLine, ScanEOF,
     WaitEmpty, UnlockSlot, UnlockSlotAtEOF, UnlockProdAtEOF, PSlot, Storing,
     OneIndexInv
<1>3. CASE ScanLine(p)
  BY <1>0, <1>1, <1>2, <1>3, FileAssumption
     DEF ScanLine, PStep, Stored, NULL, Lines
<1>4. CASE UNCHANGED <<lines_read, line_buffer>>
  BY <1>1, <1>2, <1>4 DEF Stored, TailInv
<1>5. ScanLine(p) \/ UNCHANGED <<lines_read, line_buffer>>
  BY DEF Producer, ring, LockProd, Claim, LoadNext, StoreNext,
     CheckWrap, Reset, LockSlot, LockBeyondRing, UnlockProd, ScanEOF,
     WaitEmpty, UnlockSlot, UnlockSlotAtEOF, UnlockProdAtEOF
<1> QED BY <1>3, <1>4, <1>5

LEMMA ProducerTail ==
    ASSUME IInv, NEW p \in Producers, NEW c \in Consumers,
           OneIndexInv(p, c), TailInv(p, c), Producer(p)
    PROVE  TailInv(p, c)'
<1>0. /\ UNCHANGED <<printed, freed, cpc, c_n, curr_N_c>>
      /\ PrintedLines' = PrintedLines
  BY ProducerFrame DEF heap, cvars, PrintedLines
<1>1. PICK f \in 0 .. FileLines :
          f <= Stored(p) /\ Queued(p, c, f) /\ PrintedInOrder(c, f)
  BY DEF TailInv
<1>2. PrintedInOrder(c, f)' BY <1>0, <1>1 DEF PrintedInOrder
<1>3. CSlot(c)' = CSlot(c) BY <1>0 DEF CSlot
<1>4. CASE Put(p)
  <2> DEFINE s == p_n[p]
  <2> DEFINE l == line_buffer[p]
  <2>1. /\ s \in Slots /\ l # NULL /\ l = lines_read /\ work_arr[s] = NULL
        /\ Stored(p) = l - 1 /\ lines_read \in Nat
        /\ PSlot(p) = s /\ Storing(p)
    BY <1>4 DEF Put, PStep, OneIndexInv, IInv, HandInv, TypeOK, TailInv,
                Stored, PSlot, Storing
  <2>2. /\ ppc'[p] = "unslot" /\ line_buffer'[p] = NULL
        /\ curr_N_p = After(s) /\ UNCHANGED <<curr_N_p, lines_read>>
    BY <1>4 DEF Put, PStep, OneIndexInv, IInv, TypeOK
  <2>3. /\ Stored(p)' = l /\ PSlot(p)' = After(s)
    BY <2>1, <2>2 DEF Stored, PSlot
  <2>4. /\ work_arr'[s] = l
        /\ \A t \in Slots : t # s => work_arr'[t] = work_arr[t]
        /\ work_arr \in [Slots -> Lines \cup {NULL}]
    BY <1>4, <2>1 DEF Put, IInv, TypeOK
  <2>5. \A t \in Slots : After(t) \in Slots
    BY RingAssumption DEF After, Slots
  <2>6. CSlot(c) \in Slots BY DEF CSlot, IInv, TypeOK
  <2>7. l \in Nat /\ l > 0 /\ f \in Nat /\ f <= l - 1
    BY <1>1, <2>1, FileAssumption DEF NULL
  <2>8. f < Stored(p)' => work_arr'[CSlot(c)] = f + 1
    BY <1>1, <2>1, <2>3, <2>4, <2>6, <2>7 DEF Queued, NULL
  <2>9. ASSUME NEW t \in Slots, work_arr'[t] # NULL
        PROVE  /\ work_arr'[t] > f /\ work_arr'[t] <= Stored(p)'
               /\ work_arr'[t] < Stored(p)'
                      => work_arr'[After(t)] = work_arr'[t] + 1
               /\ work_arr'[t] = Stored(p)' => PSlot(p)' = After(t)
    <3>1. CASE t = s BY <2>3, <2>4, <2>7, <3>1
    <3>2. CASE t # s
      <4>1. /\ work_arr'[t] = work_arr[t] /\ work_arr[t] \in Lines
            /\ work_arr[t] > f /\ work_arr[t] <= l - 1
            /\ work_arr[t] < l - 1 => work_arr[After(t)] = work_arr[t] + 1
            /\ work_arr[t] = l - 1 => s = After(t)
        BY <1>1, <2>1, <2>4, <2>9, <3>2 DEF Queued
      <4>2. work_arr[t] \in Nat BY <4>1, FileAssumption DEF Lines
      <4>3. work_arr[After(t)] # NULL => After(t) # s BY <2>1
      <4> QED BY <2>3, <2>4, <2>5, <2>7, <4>1, <4>2, <4>3 DEF NULL
    <3> QED BY <3>1, <3>2
  <2>10. Queued(p, c, f)'
    BY <1>0, <1>1, <1>3, <2>3, <2>7, <2>8, <2>9 DEF Queued, After
  <2>11. f <= Stored(p)' BY <2>3, <2>7
  <2> QED BY <1>2, <2>2, <2>10, <2>11 DEF TailInv
<1>5. CASE ~Put(p)
  <2>1. /\ work_arr' = work_arr /\ Stored(p)' = Stored(p)
        /\ Storing(p)' => Storing(p) /\ PSlot(p)' = PSlot(p)
        /\ line_buffer'[p] # NULL => line_buffer'[p] = lines_read'
    BY <1>5, ProducerKeepsPlace
  <2>2. Queued(p, c, f)'
    BY <1>0, <1>1, <1>3, <2>1 DEF Queued, After
  <2> QED BY <1>1, <1>2, <2>1, <2>2 DEF TailInv
<1> QED BY <1>4, <1>5

LEMMA ConsumerTail ==
    ASSUME IInv, NEW p \in Producers, NEW c \in Consumers,
           OneIndexInv(p, c), TailInv(p, c), Consumer(c)
    PROVE  TailInv(p, c)'
<1>0. /\ UNCHANGED <<ppc, p_n, curr_N_p, line_buffer, lines_read>>
      /\ Stored(p)' = Stored(p) /\ PSlot(p)' = PSlot(p)
      /\ Storing(p)' = Storing(p)
  BY ConsumerFrame DEF pvars, Stored, PSlot, Storing
<1>1. PICK f \in 0 .. FileLines :
          f <= Stored(p) /\ Queued(p, c, f) /\ PrintedInOrder(c, f)
  BY DEF TailInv
<1>2. /\ cpc \in [Consumers -> ConsumerPCs] /\ c_n \in [Consumers -> Slots]
      /\ work_arr \in [Slots -> Lines \cup {NULL}]
      /\ printed \in Seq(Lines) /\ lines_read \in 0 .. FileLines
      /\ Stored(p) \in Int /\ Stored(p) <= FileLines /\ FileLines \in Nat
      /\ curr_N_c \in Slots
  BY FileAssumption DEF IInv, TypeOK, Stored
<1>3. CASE PrintLine(c)
  <2> DEFINE s == c_n[c]
  <2>1. /\ cpc[c] = "print" /\ cpc'[c] = "clear" /\ s \in Slots
        /\ UNCHANGED <<c_n, work_arr, freed, curr_N_c>>
        /\ work_arr[s] # NULL
    BY <1>2, <1>3 DEF PrintLine, CStep, IInv, HandInv
  <2>2. CSlot(c) = s /\ CSlot(c)' = s BY <2>1 DEF CSlot
  <2>3. Queued(p, c, f)' BY <1>0, <1>1, <2>1, <2>2 DEF Queued, After
  <2>4. work_arr[s] = f + 1 /\ f + 1 \in Lines
    <3>1. work_arr[s] > f /\ work_arr[s] <= Stored(p)
      BY <1>1, <2>1 DEF Queued
    <3>2. work_arr[s] \in Lines BY <1>2, <2>1
    <3> QED BY <1>1, <1>2, <2>2, <3>1, <3>2 DEF Queued, Lines
  <2>5. \A k \in PrintedLines : k <= f
    BY <1>1, <2>1 DEF PrintedInOrder
  <2>6. PrintedInOrder(c, f)'
    <3>1. CASE Matches(work_arr[s])
      <4>1. printed' = Append(printed, f + 1)
        BY <1>3, <2>4, <3>1 DEF PrintLine
      <4>2. /\ PrintedLines' = PrintedLines \cup {f + 1}
            /\ Len(printed') = Len(printed) + 1
            /\ printed'[Len(printed) + 1] = f + 1
            /\ \A i \in 1 .. Len(printed) : printed'[i] = printed[i]
            /\ Len(printed) \in Nat
        BY <1>2, <2>4, <4>1, PrintOne, LenProperties
      <4>3. \A i \in 1 .. Len(printed) : printed[i] \in Nat /\ printed[i] <= f
        BY <1>2, <2>5, ElementOfSeq, FileAssumption DEF PrintedLines, Lines
      <4>4. ASSUME NEW i \in 1 .. Len(printed'), NEW j \in 1 .. Len(printed'),
                   i < j
            PROVE  printed'[i] < printed'[j]
        <5>1. i \in 1 .. Len(printed) BY <4>2, <4>4
        <5>2. CASE j \in 1 .. Len(printed)
          BY <1>1, <4>2, <4>4, <5>1, <5>2 DEF PrintedInOrder
        <5>3. CASE j = Len(printed) + 1
          <6>1. printed'[i] <= f /\ printed'[i] \in Nat
            BY <4>2, <4>3, <5>1
          <6> QED BY <1>1, <4>2, <5>3, <6>1
        <5> QED BY <4>2, <5>2, <5>3
      <4> QED BY <1>1, <2>1, <2>5, <4>2, <4>4 DEF PrintedInOrder
    <3>2. CASE ~Matches(work_arr[s])
      <4>1. printed' = printed /\ PrintedLines' = PrintedLines
        BY <1>3, <3>2 DEF PrintLine, PrintedLines
      <4> QED BY <1>1, <2>5, <4>1 DEF PrintedInOrder
    <3> QED BY <3>1, <3>2
  <2> QED BY <1>0, <1>1, <2>3, <2>6 DEF TailInv
<1>4. CASE Clear(c)
  <2> DEFINE s == c_n[c]
  <2>1. /\ cpc[c] = "clear" /\ cpc'[c] = "unslot" /\ s \in Slots
        /\ UNCHANGED <<c_n, printed, curr_N_c>>
        /\ work_arr[s] # NULL
        /\ freed' = freed \cup {work_arr[s]}
        /\ work_arr'[s] = NULL
        /\ \A t \in Slots : t # s => work_arr'[t] = work_arr[t]
        /\ curr_N_c = After(s)
    BY <1>2, <1>4 DEF Clear, CStep, IInv, HandInv, OneIndexInv
  <2>2. CSlot(c) = s /\ CSlot(c)' = After(s) BY <2>1 DEF CSlot
  <2>3. /\ work_arr[s] = f + 1 /\ f + 1 \in Lines
        /\ f + 1 <= Stored(p) /\ f + 1 \in 0 .. FileLines
    BY <1>1, <1>2, <2>1, <2>2 DEF Queued, Lines
  <2>4. freed' = 1 .. f + 1 BY <1>1, <2>1, <2>3 DEF Queued
  <2>5. \A t \in Slots : After(t) \in Slots
    BY RingAssumption DEF After, Slots
  <2>6. f + 1 < Stored(p) => work_arr'[After(s)] = f + 2
    BY <1>1, <2>1, <2>3, <2>5 DEF Queued
  <2>7. f + 1 = Stored(p) /\ Storing(p) => PSlot(p) = After(s)
    BY <1>1, <2>1, <2>3 DEF Queued
  <2>8. ASSUME NEW t \in Slots, work_arr'[t] # NULL
        PROVE  /\ work_arr'[t] > f + 1 /\ work_arr'[t] <= Stored(p)
               /\ work_arr'[t] < Stored(p)
                      => work_arr'[After(t)] = work_arr'[t] + 1
               /\ work_arr'[t] = Stored(p) /\ Storing(p)
                      => PSlot(p) = After(t)
    <3>1. t # s /\ work_arr'[t] = work_arr[t] /\ work_arr[t] # NULL
      BY <2>1, <2>8
    <3>2. work_arr[t] # work_arr[s]
      BY <2>1, <3>1 DEF IInv, EachLineInOnePlace, NoLineTwice
    <3>3. /\ work_arr[t] > f /\ work_arr[t] <= Stored(p)
          /\ work_arr[t] < Stored(p) => work_arr[After(t)] = work_arr[t] + 1
          /\ work_arr[t] = Stored(p) /\ Storing(p) => PSlot(p) = After(t)
      BY <1>1, <3>1 DEF Queued
    <3>4. work_arr[t] \in Nat /\ f \in Nat
      BY <1>2, FileAssumption DEF Lines, NULL
    <3>5. work_arr[After(t)] = work_arr[t] + 1 => After(t) # s
      BY <2>3, <3>2, <3>3, <3>4
    <3> QED BY <2>1, <2>3, <2>5, <3>1, <3>2, <3>3, <3>4, <3>5
  <2>9. Queued(p, c, f + 1)'
    BY <1>0, <1>1, <2>2, <2>4, <2>6, <2>7, <2>8 DEF Queued, After
  <2>10. PrintedInOrder(c, f + 1)'
    <3>1. PrintedLines' = PrintedLines BY <2>1 DEF PrintedLines
    <3>2. \A k \in PrintedLines : k \in Nat
      BY <1>2, ElementOfSeq, FileAssumption DEF PrintedLines, Lines
    <3> QED BY <1>1, <2>1, <3>1, <3>2 DEF PrintedInOrder
  <2> QED BY <1>0, <2>3, <2>9, <2>10 DEF TailInv
<1>5. CASE ~PrintLine(c) /\ ~Clear(c)
  <2>1. /\ UNCHANGED <<printed, freed, work_arr>>
        /\ cpc[c] # "clear" /\ cpc'[c] # "clear"
    BY <1>2, <1>5 DEF Consumer, CStep, heap, TakeTicket, LockConsSlot, Poll,
       CheckEnd, Leave, UnlockCons, UnlockConsSlot
  <2>2. CSlot(c)' = CSlot(c)
    BY <1>2, <1>5 DEF Consumer, CStep, CSlot, TakeTicket, LockConsSlot, Poll,
       CheckEnd, Leave, UnlockCons, UnlockConsSlot
  <2>3. Queued(p, c, f)' BY <1>0, <1>1, <2>1, <2>2 DEF Queued, After
  <2>4. PrintedInOrder(c, f)'
    BY <1>1, <2>1 DEF PrintedInOrder, PrintedLines
  <2> QED BY <1>0, <1>1, <2>3, <2>4 DEF TailInv
<1> QED BY <1>3, <1>4, <1>5

LEMMA NextOne == IInv /\ OneInv /\ [Next]_vars => OneInv'
<1> SUFFICES ASSUME IInv, OneInv, [Next]_vars, OneEach,
                    NEW p \in Producers, NEW c \in Consumers
             PROVE  OneIndexInv(p, c)' /\ TailInv(p, c)'
  BY DEF OneInv
<1>0. OneIndexInv(p, c) /\ TailInv(p, c) BY DEF OneInv
<1>1. ASSUME NEW q \in Producers, Producer(q)
      PROVE  OneIndexInv(p, c)' /\ TailInv(p, c)'
  <2>1. q = p BY OnlyOne
  <2> QED BY <1>0, <1>1, <2>1, ProducerOneIndex, ProducerTail
<1>2. ASSUME NEW d \in Consumers, Consumer(d)
      PROVE  OneIndexInv(p, c)' /\ TailInv(p, c)'
  <2>1. d = c BY OnlyOne
  <2> QED BY <1>0, <1>2, <2>1, ConsumerOneIndex, ConsumerTail
<1>3. CASE UNCHANGED <<curr_N_p, curr_N_c, work_arr, lines_read, heap, pvars,
                       cvars>>
  BY <1>0, <1>3 DEF OneIndexInv, TailInv, Stored, Storing, Queued, PSlot,
     CSlot, PrintedInOrder, PrintedLines, After, heap, pvars, cvars
<1>4. CASE Main \/ Finish \/ Exited
  BY <1>3, <1>4, MainFrame
<1>5. CASE UNCHANGED vars
  BY <1>3, <1>5 DEF vars, shared
<1> QED BY <1>1, <1>2, <1>4, <1>5 DEF Next

LEMMA OneImpliesTail == OneInv => LossIsATail
<1> SUFFICES ASSUME OneInv, OneEach
             PROVE  /\ \A i, j \in 1 .. Len(printed) :
                           i < j => printed[i] < printed[j]
                    /\ \A l \in freed : \A k \in 1 .. l : k \in freed
  BY DEF LossIsATail
<1>1. PICK p \in Producers, c \in Consumers : TailInv(p, c)
  BY ThreadsAssumption DEF OneInv
<1>2. PICK f \in 0 .. FileLines : Queued(p, c, f) /\ PrintedInOrder(c, f)
  BY <1>1 DEF TailInv
<1> QED BY <1>2, FileAssumption DEF Queued, PrintedInOrder

(* One producer and one consumer print in file order, and lose a tail of   *)
(* the file if anything (task.c:120-124 and 221).                          *)
THEOREM LosesATail == Spec => []LossIsATail
<1>1. Init => OneInv BY InitOne
<1>2. IInv /\ OneInv /\ [Next]_vars => OneInv' BY NextOne
<1>3. Spec => []OneInv BY <1>1, <1>2, Invariance, PTL DEF Spec
<1> QED BY <1>3, OneImpliesTail, PTL

-----------------------------------------------------------------------------
(* ProducerConsumer implements LineRelay.                                  *)

(* A ring with an empty slot holds fewer lines than it has slots.          *)
LEMMA RingHasRoom ==
    ASSUME IInv, NEW e \in Slots, work_arr[e] = NULL
    PROVE  Cardinality(RingLines) < N
<1> DEFINE f == [l \in RingLines |-> CHOOSE s \in Slots : work_arr[s] = l]
<1>1. ASSUME NEW l \in RingLines
      PROVE  f[l] \in Slots \ {e} /\ work_arr[f[l]] = l
  BY DEF RingLines
<1>2. f \in Injection(RingLines, Slots \ {e})
  BY <1>1 DEF Injection, IsInjective
<1>3. IsFiniteSet(Slots) /\ Cardinality(Slots) = N
  BY RingAssumption, FS_Interval DEF Slots
<1>4. IsFiniteSet(Slots \ {e}) /\ Cardinality(Slots \ {e}) = N - 1
  BY <1>3, FS_RemoveElement
<1>5. IsFiniteSet(RingLines) /\ Cardinality(RingLines) <= N - 1
  BY <1>2, <1>4, FS_Injection
<1> QED BY <1>5, FS_CardinalityType, RingAssumption

LEMMA RelayInitStep == Init => Relay!RelayInit
BY RingAssumption, ThreadsAssumption, FileAssumption
   DEF Init, Relay!RelayInit, UnreadLines, HeldLines, RingLines, Slots

(* fscanf reads the first unread line.                                     *)
LEMMA ScanReads ==
    ASSUME IInv, NEW p \in Producers, ScanLine(p)
    PROVE  Relay!Read(lines_read + 1) /\ lines_read + 1 \in 1 .. FileLines
<1> DEFINE new == lines_read + 1
<1>0. /\ lines_read \in Nat /\ new # NULL
      /\ line_buffer \in [Producers -> Lines \cup {NULL}]
      /\ line_buffer[p] = NULL
  <2>1. TypeOK /\ ppc[p] = "scan"
    BY DEF ScanLine, PStep, IInv
  <2>2. line_buffer[p] = NULL
    BY <2>1 DEF IInv, HandInv
  <2> QED BY <2>1, <2>2, FileAssumption DEF TypeOK, NULL
<1>1. /\ line_buffer' = [line_buffer EXCEPT ![p] = new]
      /\ lines_read' = new /\ lines_read < FileLines
      /\ work_arr' = work_arr /\ freed' = freed
  BY DEF ScanLine, PStep, heap
<1>2. new \in UnreadLines /\ \A k \in UnreadLines : new <= k
  BY <1>0, <1>1, FileAssumption DEF UnreadLines
<1>3. UnreadLines' = UnreadLines \ {new}
  BY <1>0, <1>1, FileAssumption DEF UnreadLines
<1>4. HeldLines' = HeldLines \cup {new}
  <2>1. ASSUME NEW l PROVE l \in HeldLines' <=> l \in HeldLines \/ l = new
    BY <1>0, <1>1 DEF HeldLines
  <2> QED BY <2>1
<1>5. RingLines' = RingLines
  BY <1>0, <1>1 DEF RingLines
<1>6. new \in 1 .. FileLines
  BY <1>0, <1>1, FileAssumption
<1> QED BY <1>0, <1>1, <1>2, <1>3, <1>4, <1>5, <1>6 DEF Relay!Read

(* A store puts the line into a ring that has room for it.                 *)
LEMMA PutStores ==
    ASSUME IInv, NEW p \in Producers, Put(p)
    PROVE  Relay!Store(line_buffer[p]) /\ line_buffer[p] \in 1 .. FileLines
<1> DEFINE line == line_buffer[p]
<1> DEFINE s == p_n[p]
<1>1. /\ s \in Slots /\ work_arr[s] = NULL /\ line # NULL
      /\ line_buffer \in [Producers -> Lines \cup {NULL}]
      /\ work_arr \in [Slots -> Lines \cup {NULL}]
      /\ NoLineTwice
  BY DEF Put, PStep, IInv, SlotLockInv, StoresLine, HandInv, TypeOK,
         EachLineInOnePlace
<1>2. /\ work_arr' = [work_arr EXCEPT ![s] = line]
      /\ line_buffer' = [line_buffer EXCEPT ![p] = NULL]
      /\ lines_read' = lines_read /\ freed' = freed
  BY DEF Put, PStep, heap
<1>3. line \in HeldLines /\ line \in Lines
  BY <1>1 DEF HeldLines
<1>4. HeldLines' = HeldLines \ {line}
  <2>1. ASSUME NEW l PROVE l \in HeldLines' <=> l \in HeldLines /\ l # line
    BY <1>1, <1>2 DEF HeldLines, NoLineTwice
  <2> QED BY <2>1
<1>5. RingLines' = RingLines \cup {line}
  <2>1. ASSUME NEW l PROVE l \in RingLines' <=> l \in RingLines \/ l = line
    BY <1>1, <1>2 DEF RingLines
  <2> QED BY <2>1
<1>6. Cardinality(RingLines) < N
  BY <1>1, RingHasRoom
<1>7. UnreadLines' = UnreadLines
  BY <1>2 DEF UnreadLines
<1>8. Relay!Store(line)
  <2>1. Relay!Cardinality(RingLines) = Cardinality(RingLines)
    BY DEF Relay!Cardinality, Cardinality
  <2> QED
    BY <1>2, <1>3, <1>4, <1>5, <1>6, <1>7, <2>1 DEF Relay!Store
<1> QED BY <1>3, <1>8 DEF Lines

(* A consumer takes the line out of the ring when it frees it.             *)
LEMMA ClearDelivers ==
    ASSUME IInv, NEW c \in Consumers, Clear(c)
    PROVE  /\ Relay!Deliver(work_arr[c_n[c]])
           /\ work_arr[c_n[c]] \in 1 .. FileLines
<1> DEFINE s == c_n[c]
<1> DEFINE line == work_arr[s]
<1>1. /\ s \in Slots /\ line # NULL
      /\ work_arr \in [Slots -> Lines \cup {NULL}]
      /\ NoLineTwice
  BY DEF Clear, CStep, IInv, HandInv, TypeOK, EachLineInOnePlace
<1>2. /\ work_arr' = [work_arr EXCEPT ![s] = NULL]
      /\ freed' = freed \cup {line}
      /\ line_buffer' = line_buffer /\ lines_read' = lines_read
  BY DEF Clear, CStep, pvars
<1>3. line \in RingLines /\ line \in Lines
  BY <1>1 DEF RingLines
<1>4. RingLines' = RingLines \ {line}
  <2>1. ASSUME NEW l PROVE l \in RingLines' <=> l \in RingLines /\ l # line
    BY <1>1, <1>2 DEF RingLines, NoLineTwice
  <2> QED BY <2>1
<1>5. HeldLines' = HeldLines /\ UnreadLines' = UnreadLines
  BY <1>2 DEF HeldLines, UnreadLines
<1> QED BY <1>2, <1>3, <1>4, <1>5 DEF Relay!Deliver, Lines

LEMMA RelayStep == IInv /\ [Next]_vars => [Relay!RelayNext]_(Relay!rvars)
<1> SUFFICES ASSUME IInv, [Next]_vars
             PROVE  Relay!RelayNext \/ UNCHANGED Relay!rvars
  OBVIOUS
<1>1. CASE UNCHANGED <<line_buffer, work_arr, freed, lines_read>>
  BY <1>1 DEF Relay!rvars, UnreadLines, HeldLines, RingLines
<1>2. ASSUME NEW p \in Producers, Producer(p)
      PROVE  Relay!RelayNext \/ UNCHANGED Relay!rvars
  <2>1. CASE ScanLine(p) BY <2>1, ScanReads DEF Relay!RelayNext
  <2>2. CASE Put(p) BY <2>2, PutStores DEF Relay!RelayNext
  <2>3. \/ ScanLine(p) \/ Put(p)
        \/ UNCHANGED <<line_buffer, work_arr, freed, lines_read>>
    BY <1>2 DEF Producer, PStep, ring, heap, LockProd, Claim, LoadNext, StoreNext,
       CheckWrap, Reset, LockSlot, LockBeyondRing, UnlockProd, ScanEOF,
       WaitEmpty, UnlockSlot, UnlockSlotAtEOF, UnlockProdAtEOF
  <2> QED BY <1>1, <2>1, <2>2, <2>3
<1>3. ASSUME NEW c \in Consumers, Consumer(c)
      PROVE  Relay!RelayNext \/ UNCHANGED Relay!rvars
  <2>1. CASE Clear(c) BY <2>1, ClearDelivers DEF Relay!RelayNext
  <2>2. \/ Clear(c)
        \/ UNCHANGED <<line_buffer, work_arr, freed, lines_read>>
    BY <1>3 DEF Consumer, CStep, heap, pvars, TakeTicket, LockConsSlot, Poll,
       CheckEnd, Leave, UnlockCons, PrintLine, UnlockConsSlot
  <2> QED BY <1>1, <2>1, <2>2
<1>4. CASE Main \/ Finish \/ Exited
  BY <1>1, <1>4, MainFrame DEF heap, pvars
<1>5. CASE UNCHANGED vars
  BY <1>1, <1>5 DEF vars, shared, heap, pvars
<1> QED BY <1>2, <1>3, <1>4, <1>5 DEF Next

(* Every behaviour of the threads is one of LineRelay: lines are read in   *)
(* file order, stored only while the ring has room, and delivered once.    *)
THEOREM ImplementsRelay == Spec => RelayRefinement
<1>1. Init => Relay!RelayInit BY RelayInitStep
<1>2. IInv /\ [Next]_vars => [Relay!RelayNext]_(Relay!rvars) BY RelayStep
<1> QED BY <1>1, <1>2, Invariance, PTL DEF Spec, RelayRefinement, Relay!RelaySpec

-----------------------------------------------------------------------------
(* The inductive invariants of the launches.                               *)

(* Where the process is in its list of sem_open or of clean_sem's calls.   *)
StepInv ==
    /\ phase \in {"args", "allocating", "creating", "running"} => step = 1
    /\ phase = "opening" => step \in 1 .. Len(Opens)
    /\ phase \in {"cleaning", "finishing"} => step \in 1 .. Len(CleanCalls)
    /\ phase \in {"quitting", "crashing"} => step \in 4 .. 6
    /\ phase = "exited" => step = Len(CleanCalls) + 1
    /\ phase = "quit" => step = 7

(* What was unlinked is gone.                                              *)
CleanInv ==
    phase \in CleanPhases \cup {"exited", "quit"} =>
        \A j \in 1 .. step - 1 :
            CleanCalls[j][1] = "unlink" => CleanCalls[j][2] \notin names

(* No thread has moved while the semaphores are being opened.              *)
Fresh ==
    /\ cons_arr_m = 1 /\ curr_N_p = 0 /\ curr_N_c = 0 /\ lines_read = 0
    /\ \A p \in Producers : ppc[p] = "lock"
    /\ \A c \in Consumers : cpc[c] = "ticket"
    /\ main # "exited"

FreshInv == phase \in {"args", "allocating", "opening"} => Fresh

FaultInv ==
    phase = "faulted" /\ failed = {} /\ closed = {} => lines_read = FileLines

(* What a semaphore that could not be opened keeps the threads from.       *)
NoProd ==
    prod \in failed => /\ lines_read = 0
                       /\ \A p \in Producers : ppc[p] = "lock"

NoCons == cons \in failed => \A c \in Consumers : cpc[c] = "ticket"

NoFirstSlot ==
    slot(0) \in failed =>
        \/ /\ curr_N_c = 0 /\ cons_arr_m = 1
           /\ \A c \in Consumers : cpc[c] = "ticket"
        \/ /\ cons_arr_m = 0
           /\ \A c \in Consumers : cpc[c] = "ticket"
                                      \/ (cpc[c] = "slot" /\ c_n[c] = 0)

(* On the first round the producers do not get beyond slot i, so each line *)
(* read or about to be read has a slot before it.                          *)
Scanning == {p \in Producers : ppc[p] = "scan"}
AtHand   == lines_read + Cardinality(Scanning)
HasClaimed(p) == ppc[p] \in {"check", "reset", "slot", "unlock"}

NoPSlot(i) ==
    slotP(i) \in failed =>
        /\ AtHand <= i
        /\ (\A p \in Producers : ~HasClaimed(p)) =>
               AtHand <= curr_N_p /\ curr_N_p <= i
        /\ \A p \in Producers :
            /\ ppc[p] \in {"load", "store"} => p_n[p] = curr_N_p
            /\ ppc[p] = "store" => p_tmp[p] = curr_N_p
            /\ HasClaimed(p) =>
                /\ AtHand <= p_n[p] /\ p_n[p] <= i
                /\ p_n[p] < i => curr_N_p = p_n[p] + 1
            /\ ppc[p] = "reset" => p_n[p] = i
            /\ ppc[p] = "unlock" => p_n[p] < i

StaleInv ==
    /\ NoProd /\ NoCons /\ NoFirstSlot
    /\ FileLines >= N => \A i \in Slots : NoPSlot(i)
    /\ failed \cap NeededNames # {} /\ FileLines >= N => main # "exited"

ThreadInv == IInv /\ PrintInv /\ OneInv

SemInv ==
    /\ ThreadInv
    /\ SemTypeOK
    /\ StepInv
    /\ CleanInv
    /\ FreshInv
    /\ FaultInv
    /\ StaleInv

-----------------------------------------------------------------------------
(* The threads.  A launch starts them anew; every other step is a step of  *)
(* ProducerConsumer or leaves them alone.                                  *)

(* A launch leaves what Init asks for (task.c:20-33 and 86-118).           *)
LEMMA LaunchInit == Launch => Init'
  BY DEF Launch, Init, StartOfMain

LEMMA InitThreads == Init => ThreadInv
  BY InitInv, InitPrint, InitOne DEF ThreadInv

LEMMA InitThreadsPrimed == Init' => ThreadInv'
  BY InitThreads, PTL

LEMMA NextThreads == ThreadInv /\ [Next]_vars => ThreadInv'
  BY NextInv, NextPrint, NextOne DEF ThreadInv

(* Any step of a launch, seen from the threads alone.                      *)
LEMMA SemNextIsNext ==
  ASSUME [SemNext]_semvars, ~Launch
  PROVE  [Next]_vars
<1>1. CASE OpenSem
  BY <1>1 DEF OpenSem
<1>11. CASE ParseArgs \/ Allocate
  BY <1>11 DEF ParseArgs, Allocate
<1>12. CASE \E t \in Producers \cup Consumers : CreateThread(t)
  BY <1>12 DEF CreateThread
<1>2. CASE \E p \in Producers : SemProducer(p)
  BY <1>2 DEF SemProducer, Next
<1>3. CASE \E c \in Consumers : SemConsumer(c)
  BY <1>3 DEF SemConsumer, Next
<1>4. CASE Fault
  BY <1>4 DEF Fault
<1>5. CASE SemMain
  BY <1>5 DEF SemMain, Next, Main
<1>6. CASE SemFinish
  BY <1>6 DEF SemFinish
<1>7. CASE CleanSem
  BY <1>7 DEF CleanSem
<1>8. CASE Kill
  BY <1>8 DEF Kill
<1>9. CASE Idle
  BY <1>9 DEF Idle, semvars
<1>10. CASE UNCHANGED semvars
  BY <1>10 DEF semvars
<1> QED BY <1>1, <1>2, <1>3, <1>4, <1>5, <1>6, <1>7, <1>8, <1>9, <1>10,
           <1>11, <1>12 DEF SemNext

(* Through all its launches the program keeps what its threads keep in one *)
(* run: no line is lost or delivered twice, a slot is worked on by one     *)
(* thread of a kind, a line is printed once, and so on.                    *)
THEOREM ThreadInvariance == SemSpec => []ThreadInv
<1>1. SemInit => ThreadInv
  BY InitThreads DEF SemInit
<1>2. ThreadInv /\ [SemNext]_semvars => ThreadInv'
  BY LaunchInit, InitThreadsPrimed, SemNextIsNext, NextThreads
<1> QED BY <1>1, <1>2, PTL DEF SemSpec

-----------------------------------------------------------------------------
(* The calls of a launch and of clean_sem, in order.                       *)

LEMMA SlotFacts ==
  /\ N \in Nat /\ N >= 1
  /\ \A i \in Slots : slot(i) \in SemNames /\ slotP(i) \in SemNames
  /\ {prod, cons, file} \subseteq SemNames
  BY RingAssumption DEF SemNames, Slots

(* A function on 1 .. n is a sequence of length n.                         *)
LEMMA TableIsSeq ==
  ASSUME NEW S, NEW n \in Nat, NEW f \in [1 .. n -> S]
  PROVE  f \in Seq(S) /\ Len(f) = n
<1>1. f \in Seq(S)
  BY SeqDef
<1>2. 1 .. Len(f) = 1 .. n /\ Len(f) \in Nat
  BY <1>1, LenProperties
<1> QED BY <1>1, <1>2

LEMMA OpensFacts ==
  /\ Len(Opens) = 3 + 2 * N
  /\ \A k \in 1 .. Len(Opens) : Opens[k] \in SemNames
<1> DEFINE heads == <<prod, cons, file>>
<1>1. SlotOpens \in Seq(SemNames) /\ Len(SlotOpens) = 2 * N
  <2>1. ASSUME NEW k \in 1 .. 2 * N
        PROVE  SlotOpens[k] \in SemNames
    <3>1. k % 2 = 1 => (k - 1) \div 2 \in Slots
      BY SlotFacts DEF Slots
    <3>2. k % 2 # 1 => (k - 1) \div 2 \in Slots
      BY SlotFacts DEF Slots
    <3> QED BY <3>1, <3>2, SlotFacts DEF SlotOpens
  <2>2. SlotOpens \in [1 .. 2 * N -> SemNames]
    BY <2>1 DEF SlotOpens
  <2> QED BY <2>2, SlotFacts, TableIsSeq
<1>2. heads \in Seq(SemNames) /\ Len(heads) = 3
  BY SlotFacts
<1> HIDE DEF heads
<1>3. Opens = heads \o SlotOpens
  BY DEF Opens, heads
<1>4. /\ heads \o SlotOpens \in Seq(SemNames)
      /\ Len(heads \o SlotOpens) = Len(heads) + Len(SlotOpens)
  BY <1>1, <1>2, ConcatProperties
<1>5. Opens \in Seq(SemNames) /\ Len(Opens) = 3 + 2 * N
  BY <1>1, <1>2, <1>3, <1>4
<1> QED BY <1>5, ElementOfSeq

(* Every call of clean_sem is about one of the names, and every name is    *)
(* unlinked by one of them, the three single names before the others.      *)
LEMMA CleanFacts ==
  /\ Len(CleanCalls) = 6 + 4 * N
  /\ CleanCalls[1][1] = "close" /\ CleanCalls[2][1] = "close"
  /\ CleanCalls[3][1] = "close"
  /\ CleanCalls[4] = <<"unlink", prod>>
  /\ CleanCalls[5] = <<"unlink", cons>>
  /\ CleanCalls[6] = <<"unlink", file>>
  /\ \A k \in 1 .. Len(CleanCalls) : CleanCalls[k][2] \in SemNames
  /\ \A n \in SemNames : \E k \in 1 .. Len(CleanCalls) :
         CleanCalls[k][1] = "unlink" /\ CleanCalls[k][2] = n
<1> DEFINE Calls == {"close", "unlink"} \X SemNames
           heads == <<<<"close", prod>>, <<"close", cons>>, <<"close", file>>,
                      <<"unlink", prod>>, <<"unlink", cons>>,
                      <<"unlink", file>>>>
<1>1. SlotCloses \in Seq(Calls) /\ Len(SlotCloses) = 4 * N
  <2>1. ASSUME NEW k \in 1 .. 4 * N
        PROVE  SlotCall((k - 1) \div 4, (k - 1) % 4) \in Calls
    <3>1. (k - 1) \div 4 \in Slots /\ (k - 1) % 4 \in {0, 1, 2, 3}
      BY SlotFacts DEF Slots
    <3>2. \A i \in Slots, j \in {0, 1, 2, 3} : SlotCall(i, j) \in Calls
      BY SlotFacts DEF SlotCall
    <3> QED BY <3>1, <3>2
  <2>2. SlotCloses \in [1 .. 4 * N -> Calls]
    BY <2>1 DEF SlotCloses
  <2> QED BY <2>2, SlotFacts, TableIsSeq
<1>2. heads \in Seq(Calls) /\ Len(heads) = 6
  BY SlotFacts
<1>3. /\ heads[1] = <<"close", prod>>
      /\ heads[2] = <<"close", cons>>
      /\ heads[3] = <<"close", file>>
      /\ heads[4] = <<"unlink", prod>>
      /\ heads[5] = <<"unlink", cons>>
      /\ heads[6] = <<"unlink", file>>
  OBVIOUS
<1>4. CleanCalls = heads \o SlotCloses
  BY DEF CleanCalls
<1> HIDE DEF heads
<1>5. /\ heads \o SlotCloses \in Seq(Calls)
      /\ Len(heads \o SlotCloses) = Len(heads) + Len(SlotCloses)
      /\ \A k \in 1 .. Len(heads) + Len(SlotCloses) :
             (heads \o SlotCloses)[k] =
                 IF k <= Len(heads) THEN heads[k]
                                    ELSE SlotCloses[k - Len(heads)]
  BY <1>1, <1>2, ConcatProperties
<1>6. /\ CleanCalls \in Seq(Calls) /\ Len(CleanCalls) = 6 + 4 * N
      /\ \A k \in 1 .. 6 : CleanCalls[k] = heads[k]
      /\ \A k \in 1 .. 4 * N : CleanCalls[6 + k] = SlotCloses[k]
  <2>1. /\ CleanCalls \in Seq(Calls) /\ Len(CleanCalls) = 6 + 4 * N
    BY <1>1, <1>2, <1>4, <1>5
  <2>2. ASSUME NEW k \in 1 .. 6
        PROVE  CleanCalls[k] = heads[k]
    BY <1>1, <1>2, <1>4, <1>5, SlotFacts
  <2>3. ASSUME NEW k \in 1 .. 4 * N
        PROVE  CleanCalls[6 + k] = SlotCloses[k]
    BY <1>1, <1>2, <1>4, <1>5, SlotFacts
  <2> QED BY <2>1, <2>2, <2>3
<1>7. ASSUME NEW k \in 1 .. Len(CleanCalls)
      PROVE  CleanCalls[k][2] \in SemNames
  <2>1. CleanCalls[k] \in Calls
    BY <1>6, ElementOfSeq
  <2> QED BY <2>1
<1>8. ASSUME NEW n \in SemNames
      PROVE  \E k \in 1 .. Len(CleanCalls) :
                CleanCalls[k][1] = "unlink" /\ CleanCalls[k][2] = n
  <2>1. CASE n \in {prod, cons, file}
    <3>1. \A k \in 1 .. 6 : k \in 1 .. Len(CleanCalls)
      BY <1>6, SlotFacts
    <3>2. PICK k \in 1 .. 6 : heads[k] = <<"unlink", n>>
      BY <1>3, <2>1
    <3> QED BY <3>1, <3>2, <1>6
  <2>2. ASSUME NEW i \in Slots
        PROVE  /\ 4 * i + 2 \in 1 .. 4 * N
               /\ SlotCloses[4 * i + 2] = <<"unlink", slot(i)>>
               /\ 4 * i + 4 \in 1 .. 4 * N
               /\ SlotCloses[4 * i + 4] = <<"unlink", slotP(i)>>
    <3>1. i \in Nat /\ i < N
      BY SlotFacts DEF Slots
    <3>2. 4 * i + 2 \in 1 .. 4 * N /\ 4 * i + 4 \in 1 .. 4 * N
      BY <3>1, SlotFacts
    <3>3. /\ ((4 * i + 2) - 1) \div 4 = i /\ ((4 * i + 2) - 1) % 4 = 1
          /\ ((4 * i + 4) - 1) \div 4 = i /\ ((4 * i + 4) - 1) % 4 = 3
      BY <3>1
    <3>4. /\ SlotCall(i, 1) = <<"unlink", slot(i)>>
          /\ SlotCall(i, 3) = <<"unlink", slotP(i)>>
      BY DEF SlotCall
    <3> QED BY <3>2, <3>3, <3>4 DEF SlotCloses
  <2>3. ASSUME NEW i \in Slots, n = slot(i)
        PROVE  \E k \in 1 .. Len(CleanCalls) :
                  CleanCalls[k][1] = "unlink" /\ CleanCalls[k][2] = n
    <3>1. CleanCalls[6 + (4 * i + 2)] = <<"unlink", n>>
      BY <1>6, <2>2, <2>3
    <3>2. 6 + (4 * i + 2) \in 1 .. Len(CleanCalls)
      BY <1>6, <2>2, SlotFacts DEF Slots
    <3> QED BY <3>1, <3>2
  <2>4. ASSUME NEW i \in Slots, n = slotP(i)
        PROVE  \E k \in 1 .. Len(CleanCalls) :
                  CleanCalls[k][1] = "unlink" /\ CleanCalls[k][2] = n
    <3>1. CleanCalls[6 + (4 * i + 4)] = <<"unlink", n>>
      BY <1>6, <2>2, <2>4
    <3>2. 6 + (4 * i + 4) \in 1 .. Len(CleanCalls)
      BY <1>6, <2>2, SlotFacts DEF Slots
    <3> QED BY <3>1, <3>2
  <2> QED BY <2>1, <2>3, <2>4 DEF SemNames
<1>9. \A k \in 1 .. 6 : CleanCalls[k] = heads[k]
  BY <1>6
<1> QED BY <1>3, <1>6, <1>7, <1>8, <1>9

-----------------------------------------------------------------------------
(* The process and the names.  The threads touch none of this.             *)

LEMMA InitNames == SemInit => SemTypeOK /\ StepInv /\ CleanInv
<1> SUFFICES ASSUME SemInit
             PROVE  SemTypeOK /\ StepInv /\ CleanInv
  OBVIOUS
<1>1. TypeOK
  BY InitInv DEF SemInit, IInv
<1> QED BY <1>1, CleanFacts, SlotFacts, LaunchesAssumption
        DEF SemInit, SemTypeOK, StepInv, CleanInv, Phases, Dead, StartPhases,
            CleanPhases

LEMMA NextNames ==
  ASSUME SemTypeOK, StepInv, CleanInv, [SemNext]_semvars, TypeOK'
  PROVE  SemTypeOK' /\ StepInv' /\ CleanInv'
<1> DEFINE Goal == SemTypeOK' /\ StepInv' /\ CleanInv'
<1> USE SlotFacts, LaunchesAssumption
<1>a. /\ phase \in Phases /\ step \in Nat /\ launches \in 0 .. MaxLaunches
      /\ step \in 1 .. Len(CleanCalls) + 1
      /\ names \subseteq SemNames
      /\ failed \subseteq SemNames /\ closed \subseteq SemNames
      /\ Len(CleanCalls) = 6 + 4 * N /\ Len(Opens) = 3 + 2 * N
  BY CleanFacts, OpensFacts DEF SemTypeOK
<1> USE DEF Phases, Dead, StartPhases, CleanPhases
<1>1. CASE Launch
  BY <1>1, <1>a DEF Launch, SemTypeOK, StepInv, CleanInv
<1>6. CASE ParseArgs \/ Allocate
  BY <1>6, <1>a DEF ParseArgs, Allocate, SemTypeOK, StepInv, CleanInv
<1>2. CASE OpenSem
  <2>1. Opens[step] \in SemNames /\ step \in 1 .. Len(Opens)
    BY <1>2, <1>a, OpensFacts DEF OpenSem, StepInv
  <2> QED BY <1>2, <1>a, <2>1
          DEF OpenSem, SemTypeOK, StepInv, CleanInv
<1>7. CASE \E t \in Producers \cup Consumers : CreateThread(t)
  <2>1. PICK t \in Producers \cup Consumers : CreateThread(t)
    BY <1>7
  <2> QED BY <1>a, <2>1 DEF CreateThread, SemTypeOK, StepInv, CleanInv
<1>3. CASE UNCHANGED svars
  BY <1>3, <1>a DEF svars, SemTypeOK, StepInv, CleanInv
<1>4. CASE Fault \/ SemMain \/ Kill
  BY <1>4, <1>a DEF Fault, SemMain, Kill, SemTypeOK, StepInv, CleanInv
<1>8. CASE SemFinish
  <2>1. SemTypeOK' /\ StepInv'
    BY <1>8, <1>a DEF SemFinish, SemTypeOK, StepInv
  <2>2. phase' \in CleanPhases => step' \in {1, 4}
    BY <1>8 DEF SemFinish
  <2>3. phase' \notin {"exited", "quit"}
    BY <1>8 DEF SemFinish
  <2>4. \A j \in 1 .. 3 : CleanCalls[j][1] # "unlink"
    BY CleanFacts
  <2>5. CleanInv'
    BY <2>2, <2>3, <2>4 DEF CleanInv
  <2> QED BY <2>1, <2>5
<1>5. CASE CleanSem
  <2> DEFINE call == CleanCalls[step]
  <2>1. step \in 1 .. LastCall /\ LastCall \in 1 .. Len(CleanCalls)
    BY <1>5, <1>a DEF CleanSem, StepInv, LastCall
  <2>2. step \in 1 .. Len(CleanCalls) /\ call[2] \in SemNames
    BY <1>a, <2>1, CleanFacts
  <2>3. SemTypeOK'
    BY <1>5, <1>a, <2>2 DEF CleanSem, AfterClean, SemTypeOK
  <2>4. StepInv'
    BY <1>5, <1>a, <2>1 DEF CleanSem, AfterClean, LastCall, StepInv
  <2>5. CleanInv'
    <3> SUFFICES ASSUME NEW j \in 1 .. step, CleanCalls[j][1] = "unlink"
                 PROVE  CleanCalls[j][2] \notin names'
      BY <1>5, <1>a DEF CleanSem, CleanInv
    <3>1. CASE j = step
      BY <1>5, <3>1 DEF CleanSem
    <3>2. CASE j # step
      <4>1. CleanCalls[j][2] \notin names
        BY <1>5, <1>a, <3>2 DEF CleanSem, CleanInv
      <4>2. names' \subseteq names
        BY <1>5 DEF CleanSem
      <4> QED BY <4>1, <4>2
    <3> QED BY <3>1, <3>2
  <2> QED BY <2>3, <2>4, <2>5
<1> QED BY <1>1, <1>2, <1>3, <1>4, <1>5, <1>6, <1>7, <1>8
        DEF SemNext, SemProducer, SemConsumer, Idle, semvars

-----------------------------------------------------------------------------
(* The faults.                                                             *)

LEMMA FreshFromInit == Init => Fresh
  BY DEF Init, Fresh, StartOfMain

LEMMA FreshFromInitPrimed == Init' => Fresh'
  BY FreshFromInit, PTL

LEMMA NextFault ==
  ASSUME ThreadInv, FreshInv, FaultInv, [SemNext]_semvars
  PROVE  FreshInv' /\ FaultInv'
<1>1. CASE Launch
  BY <1>1, LaunchInit, FreshFromInitPrimed DEF Launch, FreshInv, FaultInv
<1>8. CASE ParseArgs \/ Allocate
  BY <1>8 DEF ParseArgs, Allocate, vars, locks, shared, pvars, cvars,
              FreshInv, Fresh, FaultInv
<1>9. CASE \E t \in Producers \cup Consumers : CreateThread(t)
  BY <1>9 DEF CreateThread, FreshInv, FaultInv
<1>2. CASE Fault
  <2>1. ASSUME failed = {}, closed = {}
        PROVE  lines_read = FileLines
    <3>1. TypeOK /\ ProdIndexInv
      BY DEF ThreadInv, IInv
    <3>2. \A c \in Consumers : SemOfConsumer(c) \subseteq Usable
      BY <2>1, <3>1, SlotFacts DEF SemOfConsumer, Usable, TypeOK
    <3>3. PICK p \in Producers : ~(SemOfProducer(p) \subseteq Usable)
      BY <1>2, <3>2 DEF Fault
    <3>4. p_n[p] \notin Slots
      BY <2>1, <3>3, SlotFacts DEF SemOfProducer, Usable
    <3> QED BY <3>1, <3>4, FileAssumption
            DEF ProdIndexInv, BeforeEOF, TypeOK
  <2> QED BY <1>2, <2>1 DEF Fault, FreshInv, FaultInv, vars, shared
<1>3. CASE OpenSem
  BY <1>3 DEF OpenSem, vars, locks, shared, pvars, cvars,
              FreshInv, Fresh, FaultInv
<1>4. CASE \E p \in Producers : SemProducer(p)
  BY <1>4 DEF SemProducer, Alive, svars, FreshInv, FaultInv
<1>5. CASE \E c \in Consumers : SemConsumer(c)
  BY <1>5 DEF SemConsumer, Alive, svars, FreshInv, FaultInv
<1>6. CASE SemMain \/ SemFinish \/ CleanSem \/ Kill
  BY <1>6 DEF SemMain, SemFinish, CleanSem, AfterClean, CleanPhases, Kill,
              FreshInv, FaultInv
<1>7. CASE UNCHANGED semvars
  BY <1>7 DEF semvars, svars, vars, locks, shared, pvars, cvars,
              FreshInv, Fresh, FaultInv
<1> QED BY <1>1, <1>2, <1>3, <1>4, <1>5, <1>6, <1>7, <1>8, <1>9
        DEF SemNext, Idle

-----------------------------------------------------------------------------
(* A semaphore that could not be opened.                                   *)

(* Before any thread has moved it does not matter which are missing.       *)
LEMMA FreshIsStale == Fresh => StaleInv
<1> SUFFICES ASSUME Fresh
             PROVE  StaleInv
  OBVIOUS
<1>1. Scanning = {} /\ Cardinality(Scanning) = 0
  BY FS_EmptySet DEF Fresh, Scanning
<1>2. \A i \in Slots : NoPSlot(i)
  BY <1>1, SlotFacts DEF Fresh, NoPSlot, AtHand, HasClaimed, Slots
<1> QED BY <1>2 DEF Fresh, StaleInv, NoProd, NoCons, NoFirstSlot

LEMMA FreshIsStalePrimed == Fresh' => StaleInv'
  BY FreshIsStale, PTL

(* How a producer's step changes the set of those about to read a line.    *)
LEMMA ScanningSteps ==
  ASSUME TypeOK, NEW p \in Producers, Producer(p)
  PROVE  /\ Cardinality(Scanning) \in Nat
         /\ ppc[p] = "unlock" =>
                Cardinality(Scanning') = Cardinality(Scanning) + 1
         /\ ppc[p] = "scan" =>
                Cardinality(Scanning') = Cardinality(Scanning) - 1
         /\ ppc[p] \notin {"unlock", "scan"} => Scanning' = Scanning
<1>1. IsFiniteSet(Scanning) /\ Cardinality(Scanning) \in Nat
  <2>1. Scanning \subseteq Producers
    BY DEF Scanning
  <2> QED BY <2>1, ThreadsAssumption, FS_Subset, FS_CardinalityType
<1>2. /\ ppc' = [ppc EXCEPT ![p] = ppc'[p]]
      /\ ppc[p] = "unlock" => ppc'[p] = "scan"
      /\ ppc[p] = "scan" => ppc'[p] # "scan"
      /\ ppc[p] \notin {"unlock", "scan"} => ppc'[p] # "scan"
  BY DEF Producer, PStep, LockProd, Claim, LoadNext, StoreNext, CheckWrap,
         Reset, LockSlot, LockBeyondRing, UnlockProd, ScanLine, ScanEOF,
         WaitEmpty, Put, UnlockSlot, UnlockSlotAtEOF, UnlockProdAtEOF, TypeOK
<1>3. CASE ppc[p] = "unlock"
  <2>1. Scanning' = Scanning \cup {p} /\ p \notin Scanning
    BY <1>2, <1>3 DEF Scanning, TypeOK
  <2> QED BY <1>1, <1>3, <2>1, FS_AddElement
<1>4. CASE ppc[p] = "scan"
  <2>1. Scanning' = Scanning \ {p} /\ p \in Scanning
    BY <1>2, <1>4 DEF Scanning, TypeOK
  <2> QED BY <1>1, <1>4, <2>1, FS_RemoveElement
<1>5. CASE ppc[p] \notin {"unlock", "scan"}
  <2>1. Scanning' = Scanning
    BY <1>2, <1>5 DEF Scanning, TypeOK
  <2> QED BY <1>1, <1>5, <2>1
<1> QED BY <1>3, <1>4, <1>5

(* Without slot i of arr_m_p the producers stay on their first round.      *)
LEMMA ProducerNoPSlot ==
  ASSUME IInv, FileLines >= N, NEW i \in Slots, NoPSlot(i),
         NEW p \in Producers, SemProducer(p)
  PROVE  NoPSlot(i)'
<1> SUFFICES ASSUME slotP(i) \in failed
             PROVE  NoPSlot(i)'
  BY DEF SemProducer, svars, NoPSlot
<1>1. Producer(p) /\ UNCHANGED failed /\ TypeOK
  BY DEF SemProducer, svars, IInv
<1>2. /\ i \in Nat /\ i < N /\ N \in Nat /\ FileLines \in Nat
      /\ lines_read \in Nat /\ curr_N_p \in Nat
      /\ \A q \in Producers : p_n[q] \in Nat /\ p_tmp[q] \in Nat
  BY <1>1, SlotFacts, FileAssumption DEF Slots, TypeOK
<1>3. AtHand <= i /\ AtHand \in Nat /\ Cardinality(Scanning) \in Nat
  BY <1>1, <1>2, ScanningSteps DEF NoPSlot, AtHand
<1>4. BeforeEOF
  BY <1>2, <1>3 DEF AtHand, BeforeEOF
<1>5. /\ \A q \in Producers : InProdSection(q) => prod_arr_m = 0
      /\ \A q, r \in Producers :
             InProdSection(q) /\ InProdSection(r) => q = r
      /\ \A q \in Producers :
             /\ p_n[q] \in Slots
             /\ ppc[q] \notin {"eof_slot", "eof_prod", "done", "stuck"}
  BY <1>4 DEF IInv, ProdLockInv, ProdIndexInv
<1>6. ASSUME NEW q \in Producers, HasClaimed(q)
      PROVE  InProdSection(q)
  BY <1>6 DEF HasClaimed, InProdSection
<1>7. /\ ppc[p] \notin {"unlock", "scan"} => Scanning' = Scanning
      /\ ppc[p] = "unlock" =>
             Cardinality(Scanning') = Cardinality(Scanning) + 1
      /\ ppc[p] = "scan" =>
             Cardinality(Scanning') = Cardinality(Scanning) - 1
  BY <1>1, ScanningSteps
<1> DEFINE Same == AtHand' = AtHand
<1>8. ppc[p] \notin {"unlock", "scan"} => Same
  BY <1>1, <1>7 DEF AtHand, Producer, PStep, LockProd, Claim, LoadNext,
                    StoreNext, CheckWrap, Reset, LockSlot, LockBeyondRing,
                    UnlockProd, ScanLine, ScanEOF, WaitEmpty, Put,
                    UnlockSlot, UnlockSlotAtEOF, UnlockProdAtEOF, ring
<1> HIDE DEF Same
<1> USE <1>1, <1>2, <1>3, <1>5, <1>6, <1>8
        DEF NoPSlot, HasClaimed, InProdSection, PStep, TypeOK
<1>10. CASE LockProd(p)
  BY <1>10 DEF LockProd, Free, Same
<1>11. CASE Claim(p)
  BY <1>11 DEF Claim, Same
<1>12. CASE LoadNext(p)
  BY <1>12 DEF LoadNext, Same
<1>13. CASE StoreNext(p)
  BY <1>13 DEF StoreNext, Same
<1>14. CASE CheckWrap(p)
  <2>1. ppc[p] = "check" /\ UNCHANGED <<curr_N_p, p_n, p_tmp>> /\ AtHand' = AtHand
    BY <1>14 DEF CheckWrap, Same
  <2>2. AtHand <= p_n[p] /\ p_n[p] <= i /\ (p_n[p] < i => curr_N_p = p_n[p] + 1)
    BY <2>1
  <2>3. CASE curr_N_p = N
    <3>1. p_n[p] = i
      BY <2>2, <2>3
    <3>2. ppc' = [ppc EXCEPT ![p] = "reset"]
      BY <1>14, <2>3 DEF CheckWrap
    <3> QED BY <2>1, <2>2, <3>1, <3>2
  <2>4. CASE curr_N_p # N
    <3>1. ppc' = [ppc EXCEPT ![p] = "slot"]
      BY <1>14, <2>4 DEF CheckWrap
    <3> QED BY <2>1, <2>2, <3>1
  <2> QED BY <2>3, <2>4
<1>15. CASE Reset(p)
  BY <1>15 DEF Reset, Same
<1>16. CASE LockSlot(p)
  <2>1. p_n[p] # i
    BY <1>16 DEF SemProducer, SemOfProducer, Usable, LockSlot
  <2> QED BY <1>16, <2>1 DEF LockSlot, Same
<1>17. CASE LockBeyondRing(p)
  BY <1>17 DEF LockBeyondRing
<1>18. CASE UnlockProd(p)
  <2>1. AtHand' = AtHand + 1
    BY <1>7, <1>18 DEF UnlockProd, ring, AtHand
  <2> QED BY <1>18, <2>1 DEF UnlockProd
<1>19. CASE ScanLine(p)
  <2>1. AtHand' = AtHand
    BY <1>7, <1>19 DEF ScanLine, AtHand
  <2> QED BY <1>19, <2>1 DEF ScanLine
<1>20. CASE ScanEOF(p)
  BY <1>4, <1>20 DEF ScanEOF, BeforeEOF
<1>21. CASE WaitEmpty(p)
  BY <1>21 DEF WaitEmpty, Same
<1>24. CASE Put(p)
  BY <1>24 DEF Put, Same
<1>22. CASE UnlockSlot(p)
  BY <1>22 DEF UnlockSlot, Same
<1>23. CASE UnlockSlotAtEOF(p) \/ UnlockProdAtEOF(p)
  BY <1>23 DEF UnlockSlotAtEOF, UnlockProdAtEOF
<1> QED BY <1>10, <1>11, <1>12, <1>13, <1>14, <1>15, <1>16, <1>17, <1>18,
           <1>19, <1>20, <1>21, <1>24, <1>22, <1>23 DEF Producer

LEMMA ProducerStale ==
  ASSUME IInv, StaleInv, NEW p \in Producers, SemProducer(p)
  PROVE  StaleInv'
<1>1. Producer(p) /\ UNCHANGED failed /\ TypeOK
  BY DEF SemProducer, svars, IInv
<1>2. UNCHANGED <<cons_arr_m, curr_N_c, cvars, main>>
  BY <1>1, ProducerFrame DEF cvars
<1>3. NoProd'
  <2>1. prod \in failed => ppc[p] # "lock"
    BY DEF SemProducer, SemOfProducer, Usable
  <2> QED BY <1>1, <2>1 DEF StaleInv, NoProd
<1>4. NoCons' /\ NoFirstSlot'
  BY <1>1, <1>2 DEF StaleInv, NoCons, NoFirstSlot, cvars
<1>5. FileLines >= N => \A i \in Slots : NoPSlot(i)'
  BY ProducerNoPSlot DEF StaleInv
<1> QED BY <1>1, <1>2, <1>3, <1>4, <1>5 DEF StaleInv

LEMMA ConsumerStale ==
  ASSUME IInv, StaleInv, NEW c \in Consumers, SemConsumer(c)
  PROVE  StaleInv'
<1>1. Consumer(c) /\ UNCHANGED failed /\ TypeOK
  BY DEF SemConsumer, svars, IInv
<1>2. UNCHANGED <<curr_N_p, lines_read, pvars, main>>
  BY <1>1, ConsumerFrame DEF pvars
<1>3. NoProd' /\ \A i \in Slots : NoPSlot(i) => NoPSlot(i)'
  BY <1>1, <1>2 DEF StaleInv, NoProd, NoPSlot, AtHand, Scanning, HasClaimed,
                    pvars
<1>4. NoCons'
  <2>1. cons \in failed => cpc[c] # "ticket"
    BY DEF SemConsumer, SemOfConsumer, Usable
  <2> QED BY <1>1, <2>1 DEF StaleInv, NoCons
<1>5. NoFirstSlot'
  <2> SUFFICES ASSUME slot(0) \in failed
               PROVE  NoFirstSlot'
    BY <1>1 DEF NoFirstSlot
  <2>1. cpc[c] \in {"slot", "unslot"} => c_n[c] # 0
    BY DEF SemConsumer, SemOfConsumer, Usable
  <2>2. cpc[c] = "ticket"
    BY <2>1 DEF StaleInv, NoFirstSlot
  <2>3. TakeTicket(c)
    BY <1>1, <2>2 DEF Consumer, CStep, LockConsSlot, Poll, CheckEnd, Leave,
                      UnlockCons, PrintLine, Clear, UnlockConsSlot
  <2>4. cons_arr_m = 1 /\ curr_N_c = 0 /\ \A d \in Consumers : cpc[d] = "ticket"
    BY <2>3 DEF StaleInv, NoFirstSlot, TakeTicket, Free
  <2> QED BY <1>1, <2>3, <2>4 DEF TakeTicket, CStep, NoFirstSlot, TypeOK
<1> QED BY <1>1, <1>2, <1>3, <1>4, <1>5 DEF StaleInv

(* The run cannot end while a needed semaphore is missing: some thread has *)
(* not returned.                                                           *)
LEMMA NotJoined ==
  ASSUME IInv, StaleInv, JoinConsumers, FileLines >= N
  PROVE  failed \cap NeededNames = {}
<1>1. /\ \A c \in Consumers : cpc[c] = "done"
      /\ \A p \in Producers : ppc[p] = "done"
  BY DEF JoinConsumers, IInv, EndInv
<1>2. PICK p \in Producers, c \in Consumers : TRUE
  BY ThreadsAssumption
<1>3. prod \notin failed
  BY <1>1, <1>2 DEF StaleInv, NoProd
<1>4. cons \notin failed
  BY <1>1, <1>2 DEF StaleInv, NoCons
<1>5. slot(0) \notin failed
  BY <1>1, <1>2 DEF StaleInv, NoFirstSlot
<1>6. ASSUME NEW i \in Slots, slotP(i) \in failed
      PROVE  FALSE
  <2>1. AtHand <= i
    BY <1>6 DEF StaleInv, NoPSlot
  <2>2. Scanning = {} /\ Cardinality(Scanning) = 0
    BY <1>1, FS_EmptySet DEF Scanning
  <2>3. lines_read < FileLines
    BY <2>1, <2>2, SlotFacts, FileAssumption
       DEF AtHand, Slots, IInv, TypeOK
  <2> QED BY <1>1, <1>2, <2>3 DEF IInv, ProdLockInv, BeforeEOF
<1> QED BY <1>3, <1>4, <1>5, <1>6 DEF NeededNames

LEMMA NextStale ==
  ASSUME IInv, FreshInv, StaleInv, [SemNext]_semvars
  PROVE  StaleInv'
<1>1. CASE Launch
  BY <1>1, LaunchInit, FreshFromInitPrimed, FreshIsStalePrimed
<1>2. CASE OpenSem
  <2>1. Fresh'
    BY <1>2 DEF OpenSem, vars, locks, shared, pvars, cvars, FreshInv, Fresh
  <2> QED BY <2>1, FreshIsStalePrimed
<1>3. CASE \E p \in Producers : SemProducer(p)
  BY <1>3, ProducerStale
<1>4. CASE \E c \in Consumers : SemConsumer(c)
  BY <1>4, ConsumerStale
<1>5. CASE SemMain
  <2>1. UNCHANGED <<cons_arr_m, curr_N_p, curr_N_c, lines_read, pvars, cvars,
                    failed>>
    BY <1>5 DEF SemMain, JoinProducers, SetEnd, JoinConsumers, vars, locks,
                shared
  <2>2. NoProd' /\ NoCons' /\ NoFirstSlot'
    BY <2>1 DEF StaleInv, NoProd, NoCons, NoFirstSlot, pvars, cvars
  <2>3. \A i \in Slots : NoPSlot(i) => NoPSlot(i)'
    BY <2>1 DEF NoPSlot, AtHand, Scanning, HasClaimed, pvars
  <2>4. main' = "exited" => main = "exited" \/ JoinConsumers
    BY <1>5 DEF SemMain, JoinProducers, SetEnd, JoinConsumers, vars
  <2> QED BY <2>1, <2>2, <2>3, <2>4, NotJoined DEF StaleInv
<1>6. CASE UNCHANGED <<vars, failed>>
  <2>1. NoProd' /\ NoCons' /\ NoFirstSlot'
    BY <1>6 DEF vars, locks, shared, pvars, cvars, StaleInv, NoProd, NoCons,
                NoFirstSlot
  <2>2. \A i \in Slots : NoPSlot(i) => NoPSlot(i)'
    BY <1>6 DEF vars, shared, pvars, NoPSlot, AtHand, Scanning, HasClaimed
  <2> QED BY <1>6, <2>1, <2>2 DEF vars, StaleInv
<1>7. \/ Fault \/ SemFinish \/ CleanSem \/ Kill \/ ParseArgs \/ Allocate
      \/ \E t \in Producers \cup Consumers : CreateThread(t)
      \/ UNCHANGED semvars
      => UNCHANGED <<vars, failed>>
  BY DEF Fault, SemFinish, CleanSem, Kill, ParseArgs, Allocate, CreateThread,
         semvars, svars
<1> QED BY <1>1, <1>2, <1>3, <1>4, <1>5, <1>6, <1>7 DEF SemNext, Idle

-----------------------------------------------------------------------------
(* The theorems.                                                           *)

(* SemInv holds in every reachable state, however many threads, slots,     *)
(* lines and launches there are.                                           *)
THEOREM SemInvariance == SemSpec => []SemInv
<1>1. SemInit => SemInv
  <2> SUFFICES ASSUME SemInit
               PROVE  SemInv
    OBVIOUS
  <2>1. FreshInv /\ FaultInv /\ StaleInv
    BY FreshFromInit, FreshIsStale DEF SemInit, FreshInv, FaultInv
  <2> QED BY <2>1, InitThreads, InitNames DEF SemInit, SemInv
<1>2. SemInv /\ [SemNext]_semvars => SemInv'
  <2> SUFFICES ASSUME SemInv, [SemNext]_semvars
               PROVE  SemInv'
    OBVIOUS
  <2>1. ThreadInv'
    BY LaunchInit, InitThreadsPrimed, SemNextIsNext, NextThreads DEF SemInv
  <2>2. SemTypeOK' /\ StepInv' /\ CleanInv'
    BY <2>1, NextNames DEF SemInv, ThreadInv, IInv
  <2>3. FreshInv' /\ FaultInv'
    BY NextFault DEF SemInv
  <2>4. StaleInv'
    BY NextStale DEF SemInv, ThreadInv
  <2> QED BY <2>1, <2>2, <2>3, <2>4 DEF SemInv
<1> QED BY <1>1, <1>2, PTL DEF SemSpec

(* The variables of the threads and of the process keep their types        *)
(* through all launches.                                                   *)
THEOREM SemTypeCorrectness == SemSpec => []SemTypeOK
<1>1. SemInv => SemTypeOK
  BY DEF SemInv
<1> QED BY <1>1, SemInvariance, PTL

(* A process whose threads existed and that got through clean_sem has left *)
(* no name behind, whoever created it: sem_unlink goes by the name         *)
(* (task.c:62-81).  One that was stopped before it knew N has at least     *)
(* removed the three names that do not depend on N.                        *)
THEOREM CleanupIsComplete == SemSpec => []ExitLeavesNoName
<1>1. ASSUME SemInv, phase = "exited"
      PROVE  names = {}
  <2>1. step = Len(CleanCalls) + 1 /\ names \subseteq SemNames
    BY <1>1 DEF SemInv, StepInv, SemTypeOK
  <2>2. \A j \in 1 .. Len(CleanCalls) :
           CleanCalls[j][1] = "unlink" => CleanCalls[j][2] \notin names
    BY <1>1, <2>1, CleanFacts, SlotFacts DEF SemInv, CleanInv
  <2> QED BY <2>1, <2>2, CleanFacts
<1>2. ASSUME SemInv, phase = "quit"
      PROVE  names \cap {prod, cons, file} = {}
  <2>1. \A j \in 1 .. 6 :
           CleanCalls[j][1] = "unlink" => CleanCalls[j][2] \notin names
    BY <1>2 DEF SemInv, StepInv, CleanInv
  <2>2. prod \notin names /\ cons \notin names /\ file \notin names
    BY <2>1, CleanFacts
  <2> QED BY <2>2
<1>3. SemInv => ExitLeavesNoName
  BY <1>1, <1>2 DEF ExitLeavesNoName
<1> QED BY <1>3, SemInvariance, PTL

(* While lines are left in the file, no thread touches a semaphore that is *)
(* not there, if all could be opened and nobody stops the program.         *)
THEOREM NoFaultBeforeEOF == SemSpec => []FaultOnlyAfterEOF
<1>1. SemInv => FaultOnlyAfterEOF
  BY DEF SemInv, FaultInv, FaultOnlyAfterEOF
<1> QED BY <1>1, SemInvariance, PTL

(* A name left behind by an earlier launch keeps the next from its end,    *)
(* and without prod_arr_m it reads nothing (task.c:241-254).               *)
THEOREM StaleNamesStop == SemSpec => []StaleNameStopsTheRun
<1>1. SemInv => StaleNameStopsTheRun
  BY DEF SemInv, StaleInv, NoProd, StaleNameStopsTheRun
<1> QED BY <1>1, SemInvariance, PTL

-----------------------------------------------------------------------------
(* The permits of prod_arr_m.                                              *)

InSection == {p \in Producers : InProdSection(p)}
Finished  == {p \in Producers : ppc[p] = "done"}

(* No permit is lost as long as the semaphore can count every producer,    *)
(* which a sem_t does (SEM_VALUE_MAX); the mutex of task1 cannot.          *)
LEMMA NextPermits ==
  ASSUME Cardinality(Producers) < LockMax, TypeOK, PermitCount,
         [SemNext]_semvars
  PROVE  PermitCount'
<1>1. /\ IsFiniteSet(InSection) /\ IsFiniteSet(Finished)
      /\ Cardinality(InSection) \in Nat /\ Cardinality(Finished) \in Nat
  <2>1. InSection \subseteq Producers /\ Finished \subseteq Producers
    BY DEF InSection, Finished
  <2> QED BY <2>1, ThreadsAssumption, FS_Subset, FS_CardinalityType
<1>2. prod_arr_m + Cardinality(InSection) = 1 + Cardinality(Finished)
  BY DEF PermitCount, InSection, Finished
<1>3. prod_arr_m \in Nat /\ LockMax \in Nat
  BY LockAssumption DEF TypeOK
<1>4. SUFFICES prod_arr_m' + Cardinality(InSection')
                  = 1 + Cardinality(Finished')
  BY DEF PermitCount, InSection, Finished, InProdSection
<1>5. CASE UNCHANGED <<prod_arr_m, ppc>>
  BY <1>2, <1>5 DEF InSection, Finished, InProdSection
<1>6. ASSUME NEW p \in Producers, SemProducer(p)
      PROVE  prod_arr_m' + Cardinality(InSection') = 1 + Cardinality(Finished')
  <2>1. p \notin Finished => Cardinality(Finished) < LockMax
    <3>1. p \notin Finished => Finished \subseteq Producers \ {p}
      BY DEF Finished
    <3>2. /\ IsFiniteSet(Producers \ {p})
          /\ Cardinality(Producers \ {p}) = Cardinality(Producers) - 1
          /\ Cardinality(Producers) \in Nat
      BY ThreadsAssumption, FS_RemoveElement, FS_CardinalityType
    <3>3. p \notin Finished
          => Cardinality(Finished) <= Cardinality(Producers \ {p})
      BY <3>1, <3>2, FS_Subset
    <3> QED BY <1>1, <1>3, <3>2, <3>3
  <2>2. CASE LockProd(p)
    <3>1. /\ prod_arr_m' = prod_arr_m - 1 /\ ppc[p] = "lock"
          /\ ppc' = [ppc EXCEPT ![p] = "claim"]
      BY <2>2 DEF LockProd, PStep
    <3>2. /\ InSection' = InSection \cup {p} /\ p \notin InSection
          /\ Finished' = Finished
      BY <3>1 DEF InSection, Finished, InProdSection, TypeOK
    <3>3. Cardinality(InSection') = Cardinality(InSection) + 1
      BY <1>1, <3>2, FS_AddElement
    <3> QED BY <1>1, <1>2, <1>3, <3>1, <3>2, <3>3
  <2>3. CASE UnlockProd(p)
    <3>1. /\ prod_arr_m' = Release(prod_arr_m) /\ ppc[p] = "unlock"
          /\ ppc' = [ppc EXCEPT ![p] = "scan"]
      BY <2>3 DEF UnlockProd, PStep
    <3>2. /\ InSection' = InSection \ {p} /\ p \in InSection
          /\ Finished' = Finished /\ p \notin Finished
      BY <3>1 DEF InSection, Finished, InProdSection, TypeOK
    <3>3. Cardinality(InSection') = Cardinality(InSection) - 1
      BY <1>1, <3>2, FS_RemoveElement
    <3>4. Cardinality(InSection) > 0
      BY <1>1, <3>2, FS_EmptySet
    <3> QED BY <1>1, <1>2, <1>3, <2>1, <3>1, <3>2, <3>3, <3>4 DEF Release
  <2>4. CASE UnlockProdAtEOF(p)
    <3>1. /\ prod_arr_m' = Release(prod_arr_m) /\ ppc[p] = "eof_prod"
          /\ ppc' = [ppc EXCEPT ![p] = "done"]
      BY <2>4 DEF UnlockProdAtEOF, PStep
    <3>2. /\ InSection' = InSection
          /\ Finished' = Finished \cup {p} /\ p \notin Finished
      BY <3>1 DEF InSection, Finished, InProdSection, TypeOK
    <3>3. Cardinality(Finished') = Cardinality(Finished) + 1
      BY <1>1, <3>2, FS_AddElement
    <3>4. prod_arr_m < LockMax
      <4>1. p \notin InSection
        BY <3>1 DEF InSection, InProdSection
      <4>2. InSection \cup Finished \subseteq Producers \ {p}
        BY <3>2, <4>1 DEF InSection, Finished
      <4>3. /\ IsFiniteSet(Producers \ {p})
            /\ Cardinality(Producers \ {p}) = Cardinality(Producers) - 1
            /\ Cardinality(Producers) \in Nat
        BY ThreadsAssumption, FS_RemoveElement, FS_CardinalityType
      <4>4. Cardinality(Finished) <= Cardinality(Producers) - 1
        BY <4>2, <4>3, FS_Subset
      <4> QED BY <1>1, <1>2, <1>3, <4>3, <4>4
    <3> QED BY <1>1, <1>2, <1>3, <3>1, <3>2, <3>3, <3>4 DEF Release
  <2>5. ~LockBeyondRing(p)
    BY <1>6 DEF SemProducer, SemOfProducer, Usable, SemNames, LockBeyondRing,
                PStep, slotP, slot, prod, cons, file
  <2>6. ASSUME ~LockProd(p), ~UnlockProd(p), ~UnlockProdAtEOF(p)
        PROVE  /\ prod_arr_m' = prod_arr_m /\ InSection' = InSection
               /\ Finished' = Finished
    BY <1>6, <2>5, <2>6
       DEF SemProducer, Producer, PStep, Claim, LoadNext, StoreNext,
           CheckWrap, Reset, LockSlot, ScanLine, ScanEOF, WaitEmpty, Put,
           UnlockSlot, UnlockSlotAtEOF, InSection, Finished, InProdSection,
           TypeOK
  <2> QED BY <1>2, <2>2, <2>3, <2>4, <2>6
<1>7. ASSUME Launch
      PROVE  prod_arr_m' + Cardinality(InSection') = 1 + Cardinality(Finished')
  <2>1. /\ prod_arr_m' = 1 /\ InSection' = {} /\ Finished' = {}
    BY <1>7 DEF Launch, InSection, Finished, InProdSection
  <2> QED BY <2>1, FS_EmptySet
<1>8. ASSUME [Next]_vars, ~ \E p \in Producers : SemProducer(p), ~Launch
      PROVE  UNCHANGED <<prod_arr_m, ppc>>
  BY <1>8, ConsumerFrame, MainFrame
     DEF SemNext, ParseArgs, Allocate, OpenSem, CreateThread, SemConsumer,
         Fault, SemMain, SemFinish, CleanSem, Kill, Idle, semvars, vars,
         locks, pvars, Main
<1> QED BY <1>5, <1>6, <1>7, <1>8, SemNextIsNext

(* The permits of prod_arr_m add up, in every launch, as long as it can    *)
(* count the producers.                                                    *)
THEOREM PermitsAddUp ==
  ASSUME Cardinality(Producers) < LockMax
  PROVE  SemSpec => []PermitCount
<1>1. SemInit => PermitCount
  <2> SUFFICES ASSUME SemInit
               PROVE  PermitCount
    OBVIOUS
  <2>1. /\ prod_arr_m = 1 /\ InSection = {} /\ Finished = {}
    BY DEF SemInit, Init, InSection, Finished, InProdSection
  <2> QED BY <2>1, FS_EmptySet DEF PermitCount, InSection, Finished
<1>2. SemTypeOK /\ PermitCount /\ [SemNext]_semvars => PermitCount'
  BY NextPermits DEF SemTypeOK
<1> QED BY <1>1, <1>2, SemTypeCorrectness, PTL DEF SemSpec

(* In every launch: one producer and one consumer lose a tail of the file. *)
THEOREM SemLosesATail == SemSpec => []LossIsATail
<1>1. ThreadInv => LossIsATail
  BY OneImpliesTail DEF ThreadInv
<1> QED BY <1>1, ThreadInvariance, PTL

(* In every launch: a line is in one place only.                           *)
THEOREM SemLineAccounting == SemSpec => []EachLineInOnePlace
<1>1. ThreadInv => EachLineInOnePlace
  BY DEF ThreadInv, IInv
<1> QED BY <1>1, ThreadInvariance, PTL

=============================================================================

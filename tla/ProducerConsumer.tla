-------------------------- MODULE ProducerConsumer --------------------------
(***************************************************************************)
(* The threads of "cw09 - mutexy/task1/src/task.c": producers read lines   *)
(* of one file into a ring of N slots, consumers take them out in ring     *)
(* order and print those whose length compares to L as s_mode asks.        *)
(*                                                                         *)
(* Grain.  Between two actions lies every access to a variable that        *)
(* another thread may touch at that moment.  curr_N_p gets one action per  *)
(* load and store, because the second unlock of prod_arr_m on end of file  *)
(* lets two producers into its section; curr_N_c is only ever touched      *)
(* under cons_arr_m, so a consumer locks and takes its ticket in one step. *)
(*                                                                         *)
(* A lock is the number of permits left in it.  Unlocking a mutex leaves 1 *)
(* permit whatever it held; LockMax is what a lock can count up to, so the *)
(* mutexes of task1 are LockMax = 1.                                       *)
(*                                                                         *)
(* A line is its number in the file.  freed is the set of the lines whose  *)
(* buffer was given back by free(); the program has no such variable.      *)
(***************************************************************************)
EXTENDS Naturals, Sequences, FiniteSets

CONSTANTS
    Producers,      \* the P producer threads
    Consumers,      \* the C consumer threads
    N,              \* slots of the ring
    FileLines,      \* lines fscanf("%[^\n]\n") finds in the file
    Strlen,         \* the length of each line
    L,              \* the length to compare with
    s_mode,         \* how to compare: "=", ">" or "<"
    LockMax,        \* the largest number of permits of a lock
    MayStop         \* TRUE if a run may be timed (nk > 0) or get a Ctrl-C

Slots == 0 .. N - 1
Lines == 1 .. FileLines
NULL  == 0

ASSUME ThreadsAssumption == /\ IsFiniteSet(Producers) /\ Producers # {}
                            /\ IsFiniteSet(Consumers) /\ Consumers # {}
ASSUME RingAssumption    == N \in Nat \ {0}
ASSUME FileAssumption    == /\ FileLines \in Nat
                            /\ Strlen \in [Lines -> Nat]
ASSUME ArgsAssumption    == /\ L \in Nat
                            /\ s_mode \in {"=", ">", "<"}
                            /\ MayStop \in BOOLEAN
ASSUME LockAssumption    == LockMax \in Nat \ {0}

VARIABLES
    prod_arr_m,     \* permits of the lock of curr_N_p
    cons_arr_m,     \* permits of the lock of curr_N_c
    arr_m_p,        \* permits of the producers' lock of each slot
    arr_m,          \* permits of the consumers' lock of each slot
    curr_N_p,       \* the slot of the next producer
    curr_N_c,       \* the slot of the next consumer
    work_arr,       \* the ring
    end_flag,       \* set by main when the producers have been joined
    lines_read,     \* how far the file has been read
    printed,        \* the lines printed, in order
    freed,          \* the lines freed
    ppc,            \* where each producer is
    p_n,            \* curr_n of each producer
    p_tmp,          \* the register of curr_N_p += 1
    line_buffer,    \* the line each producer has in hand, or NULL
    cpc,            \* where each consumer is
    c_n,            \* curr_n of each consumer
    main            \* where the main thread is

locks  == <<prod_arr_m, cons_arr_m, arr_m_p, arr_m>>
shared == <<curr_N_p, curr_N_c, work_arr, end_flag, lines_read>>
heap   == <<printed, freed>>
pvars  == <<ppc, p_n, p_tmp, line_buffer>>
cvars  == <<cpc, c_n>>
vars   == <<locks, shared, heap, pvars, cvars, main>>

ProducerPCs == {"lock", "claim", "load", "store", "check", "reset", "slot",
                "unlock", "scan", "spin", "put", "unslot",
                "eof_slot", "eof_prod", "done", "stuck"}
ConsumerPCs == {"ticket", "slot", "poll", "check", "leave", "done",
                "unlock", "print", "clear", "unslot"}
MainPCs     == {"join_producers", "set_end", "join_consumers", "sleep",
                "exited"}

TypeOK ==
    /\ prod_arr_m \in 0 .. LockMax /\ cons_arr_m \in 0 .. LockMax
    /\ arr_m_p \in [Slots -> 0 .. LockMax]
    /\ arr_m \in [Slots -> 0 .. LockMax]
    /\ curr_N_p \in Nat /\ curr_N_c \in Slots
    /\ work_arr \in [Slots -> Lines \cup {NULL}]
    /\ end_flag \in {0, 1}
    /\ lines_read \in 0 .. FileLines
    /\ printed \in Seq(Lines) /\ freed \subseteq Lines
    /\ ppc \in [Producers -> ProducerPCs]
    /\ p_n \in [Producers -> Nat] /\ p_tmp \in [Producers -> Nat]
    /\ line_buffer \in [Producers -> Lines \cup {NULL}]
    /\ cpc \in [Consumers -> ConsumerPCs] /\ c_n \in [Consumers -> Slots]
    /\ main \in MainPCs

(* With nk = 0 main joins the threads, otherwise it sleeps for nk seconds.  *)
StartOfMain ==
    {"join_producers"} \cup (IF MayStop THEN {"sleep"} ELSE {})

Init ==
    /\ prod_arr_m = 1 /\ cons_arr_m = 1
    /\ arr_m_p = [s \in Slots |-> 1] /\ arr_m = [s \in Slots |-> 1]
    /\ curr_N_p = 0 /\ curr_N_c = 0
    /\ work_arr = [s \in Slots |-> NULL]
    /\ end_flag = 0 /\ lines_read = 0
    /\ printed = <<>> /\ freed = {}
    /\ ppc = [p \in Producers |-> "lock"]
    /\ p_n = [p \in Producers |-> 0] /\ p_tmp = [p \in Producers |-> 0]
    /\ line_buffer = [p \in Producers |-> NULL]
    /\ cpc = [c \in Consumers |-> "ticket"] /\ c_n = [c \in Consumers |-> 0]
    /\ main \in StartOfMain

-----------------------------------------------------------------------------
(* Locks.                                                                  *)

Free(permits)    == permits > 0
Release(permits) == IF permits < LockMax THEN permits + 1 ELSE permits

-----------------------------------------------------------------------------
(* The producers.  PStep is what every step of producer p has in common:   *)
(* the process is alive, p moves from one place to the next, and all that  *)
(* no producer ever writes stays as it is.                                 *)

PStep(p, from, to) ==
    /\ main # "exited"
    /\ ppc[p] = from
    /\ ppc' = [ppc EXCEPT ![p] = to]
    /\ UNCHANGED <<cons_arr_m, arr_m, curr_N_c, end_flag, heap, cvars, main>>

ring == <<work_arr, lines_read, line_buffer>>

LockProd(p) ==
    /\ PStep(p, "lock", "claim")
    /\ Free(prod_arr_m)
    /\ prod_arr_m' = prod_arr_m - 1
    /\ UNCHANGED <<arr_m_p, curr_N_p, p_n, p_tmp, ring>>

Claim(p) ==
    /\ PStep(p, "claim", "load")
    /\ p_n' = [p_n EXCEPT ![p] = curr_N_p]
    /\ UNCHANGED <<prod_arr_m, arr_m_p, curr_N_p, p_tmp, ring>>

LoadNext(p) ==
    /\ PStep(p, "load", "store")
    /\ p_tmp' = [p_tmp EXCEPT ![p] = curr_N_p]
    /\ UNCHANGED <<prod_arr_m, arr_m_p, curr_N_p, p_n, ring>>

StoreNext(p) ==
    /\ PStep(p, "store", "check")
    /\ curr_N_p' = p_tmp[p] + 1
    /\ UNCHANGED <<prod_arr_m, arr_m_p, p_n, p_tmp, ring>>

(* Mutant: the wrap is tested with > instead of ==.                        *)
CheckWrapLate(p) ==
    /\ PStep(p, "check", IF curr_N_p > N THEN "reset" ELSE "slot")
    /\ UNCHANGED <<prod_arr_m, arr_m_p, curr_N_p, p_n, p_tmp, ring>>

CheckWrap(p) ==
    /\ PStep(p, "check", IF curr_N_p = N THEN "reset" ELSE "slot")
    /\ UNCHANGED <<prod_arr_m, arr_m_p, curr_N_p, p_n, p_tmp, ring>>

Reset(p) ==
    /\ PStep(p, "reset", "slot")
    /\ curr_N_p' = 0
    /\ UNCHANGED <<prod_arr_m, arr_m_p, p_n, p_tmp, ring>>

(* Mutant: the slot is taken although another producer holds it.           *)
LockSlotHeld(p) ==
    /\ PStep(p, "slot", "unlock")
    /\ p_n[p] \in Slots
    /\ UNCHANGED <<prod_arr_m, arr_m_p, curr_N_p, p_n, p_tmp, ring>>

LockSlot(p) ==
    /\ PStep(p, "slot", "unlock")
    /\ p_n[p] \in Slots
    /\ Free(arr_m_p[p_n[p]])
    /\ arr_m_p' = [arr_m_p EXCEPT ![p_n[p]] = @ - 1]
    /\ UNCHANGED <<prod_arr_m, curr_N_p, p_n, p_tmp, ring>>

(* The word behind the array is taken for a lock: it may look free, or     *)
(* held by a thread that will never release it.                            *)
LockBeyondRing(p) ==
    /\ \/ PStep(p, "slot", "unlock")
       \/ PStep(p, "slot", "stuck")
    /\ p_n[p] \notin Slots
    /\ UNCHANGED <<prod_arr_m, arr_m_p, curr_N_p, p_n, p_tmp, ring>>

UnlockProd(p) ==
    /\ PStep(p, "unlock", "scan")
    /\ prod_arr_m' = Release(prod_arr_m)
    /\ UNCHANGED <<arr_m_p, curr_N_p, p_n, p_tmp, ring>>

(* fscanf holds the lock of the FILE, so a line is read in one step.       *)
ScanLine(p) ==
    /\ PStep(p, "scan", "spin")
    /\ lines_read < FileLines
    /\ lines_read' = lines_read + 1
    /\ line_buffer' = [line_buffer EXCEPT ![p] = lines_read + 1]
    /\ UNCHANGED <<prod_arr_m, arr_m_p, curr_N_p, p_n, p_tmp, work_arr>>

ScanEOF(p) ==
    /\ PStep(p, "scan", "eof_slot")
    /\ lines_read = FileLines
    /\ UNCHANGED <<prod_arr_m, arr_m_p, curr_N_p, p_n, p_tmp, ring>>

(* Mutant: nobody waits for the slot to be empty.                          *)
WaitForNothing(p) ==
    /\ PStep(p, "spin", "put")
    /\ UNCHANGED <<prod_arr_m, arr_m_p, curr_N_p, p_n, p_tmp, ring>>

WaitEmpty(p) ==
    /\ PStep(p, "spin", "put")
    /\ work_arr[p_n[p]] = NULL
    /\ UNCHANGED <<prod_arr_m, arr_m_p, curr_N_p, p_n, p_tmp, ring>>

Put(p) ==
    /\ PStep(p, "put", "unslot")
    /\ work_arr' = [work_arr EXCEPT ![p_n[p]] = line_buffer[p]]
    /\ line_buffer' = [line_buffer EXCEPT ![p] = NULL]
    /\ UNCHANGED <<prod_arr_m, arr_m_p, curr_N_p, p_n, p_tmp, lines_read>>

ReleaseSlotOf(p) ==
    arr_m_p' = IF p_n[p] \in Slots
               THEN [arr_m_p EXCEPT ![p_n[p]] = Release(@)]
               ELSE arr_m_p

(* Mutant: the slot is never given back.                                   *)
KeepSlot(p) ==
    /\ PStep(p, "unslot", "lock")
    /\ UNCHANGED <<prod_arr_m, arr_m_p, curr_N_p, p_n, p_tmp, ring>>

UnlockSlot(p) ==
    /\ PStep(p, "unslot", "lock")
    /\ ReleaseSlotOf(p)
    /\ UNCHANGED <<prod_arr_m, curr_N_p, p_n, p_tmp, ring>>

UnlockSlotAtEOF(p) ==
    /\ PStep(p, "eof_slot", "eof_prod")
    /\ ReleaseSlotOf(p)
    /\ UNCHANGED <<prod_arr_m, curr_N_p, p_n, p_tmp, ring>>

(* Mutant: the permit of the second post is lost.                          *)
NoSecondUnlock(p) ==
    /\ PStep(p, "eof_prod", "done")
    /\ UNCHANGED <<prod_arr_m, arr_m_p, curr_N_p, p_n, p_tmp, ring>>

(* The second unlock of prod_arr_m, which this producer no longer holds.   *)
UnlockProdAtEOF(p) ==
    /\ PStep(p, "eof_prod", "done")
    /\ prod_arr_m' = Release(prod_arr_m)
    /\ UNCHANGED <<arr_m_p, curr_N_p, p_n, p_tmp, ring>>

Producer(p) ==
    \/ LockProd(p) \/ Claim(p) \/ LoadNext(p) \/ StoreNext(p)
    \/ CheckWrap(p) \/ Reset(p) \/ LockSlot(p) \/ LockBeyondRing(p)
    \/ UnlockProd(p) \/ ScanLine(p) \/ ScanEOF(p) \/ WaitEmpty(p)
    \/ Put(p) \/ UnlockSlot(p) \/ UnlockSlotAtEOF(p) \/ UnlockProdAtEOF(p)

-----------------------------------------------------------------------------
(* The consumers.                                                          *)

CStep(c, from, to) ==
    /\ main # "exited"
    /\ cpc[c] = from
    /\ cpc' = [cpc EXCEPT ![c] = to]
    /\ UNCHANGED <<prod_arr_m, arr_m_p, curr_N_p, end_flag, lines_read,
                   pvars, main>>

(* Mutant: the consumers' index is not reset at the end of the ring.       *)
TakeTicketNoWrap(c) ==
    /\ CStep(c, "ticket", "slot")
    /\ Free(cons_arr_m)
    /\ cons_arr_m' = cons_arr_m - 1
    /\ c_n' = [c_n EXCEPT ![c] = curr_N_c]
    /\ curr_N_c' = curr_N_c + 1
    /\ UNCHANGED <<arr_m, work_arr, heap>>

TakeTicket(c) ==
    /\ CStep(c, "ticket", "slot")
    /\ Free(cons_arr_m)
    /\ cons_arr_m' = cons_arr_m - 1
    /\ c_n' = [c_n EXCEPT ![c] = curr_N_c]
    /\ curr_N_c' = IF curr_N_c + 1 = N THEN 0 ELSE curr_N_c + 1
    /\ UNCHANGED <<arr_m, work_arr, heap>>

(* Mutant: the slot is taken although another consumer holds it.           *)
LockConsSlotHeld(c) ==
    /\ CStep(c, "slot", "poll")
    /\ UNCHANGED <<cons_arr_m, arr_m, curr_N_c, c_n, work_arr, heap>>

LockConsSlot(c) ==
    /\ CStep(c, "slot", "poll")
    /\ Free(arr_m[c_n[c]])
    /\ arr_m' = [arr_m EXCEPT ![c_n[c]] = @ - 1]
    /\ UNCHANGED <<cons_arr_m, curr_N_c, c_n, work_arr, heap>>

Poll(c) ==
    /\ CStep(c, "poll", IF work_arr[c_n[c]] = NULL THEN "check" ELSE "unlock")
    /\ UNCHANGED <<cons_arr_m, arr_m, curr_N_c, c_n, work_arr, heap>>

CheckEnd(c) ==
    /\ CStep(c, "check", IF end_flag = 1 THEN "leave" ELSE "poll")
    /\ UNCHANGED <<cons_arr_m, arr_m, curr_N_c, c_n, work_arr, heap>>

(* Mutant: the consumer that returns unlocks its slot.                     *)
LeaveUnlocked(c) ==
    /\ CStep(c, "leave", "done")
    /\ cons_arr_m' = Release(cons_arr_m)
    /\ arr_m' = [arr_m EXCEPT ![c_n[c]] = Release(@)]
    /\ UNCHANGED <<curr_N_c, c_n, work_arr, heap>>

(* The consumer returns; arr_m of its slot stays locked.                   *)
Leave(c) ==
    /\ CStep(c, "leave", "done")
    /\ cons_arr_m' = Release(cons_arr_m)
    /\ UNCHANGED <<arr_m, curr_N_c, c_n, work_arr, heap>>

UnlockCons(c) ==
    /\ CStep(c, "unlock", "print")
    /\ cons_arr_m' = Release(cons_arr_m)
    /\ UNCHANGED <<arr_m, curr_N_c, c_n, work_arr, heap>>

Matches(l) ==
    \/ s_mode = "=" /\ Strlen[l] = L
    \/ s_mode = ">" /\ Strlen[l] > L
    \/ s_mode = "<" /\ Strlen[l] < L

PrintLine(c) ==
    /\ CStep(c, "print", "clear")
    /\ printed' = IF Matches(work_arr[c_n[c]])
                  THEN Append(printed, work_arr[c_n[c]]) ELSE printed
    /\ UNCHANGED <<cons_arr_m, arr_m, curr_N_c, c_n, work_arr, freed>>

(* Mutant: the buffer is freed but stays in the slot.                      *)
FreeOnly(c) ==
    /\ CStep(c, "clear", "unslot")
    /\ freed' = freed \cup {work_arr[c_n[c]]}
    /\ UNCHANGED <<cons_arr_m, arr_m, curr_N_c, c_n, work_arr, printed>>

Clear(c) ==
    /\ CStep(c, "clear", "unslot")
    /\ freed' = freed \cup {work_arr[c_n[c]]}
    /\ work_arr' = [work_arr EXCEPT ![c_n[c]] = NULL]
    /\ UNCHANGED <<cons_arr_m, arr_m, curr_N_c, c_n, printed>>

(* Mutant: the consumer keeps its slot locked.                             *)
KeepConsSlot(c) ==
    /\ CStep(c, "unslot", "ticket")
    /\ UNCHANGED <<cons_arr_m, arr_m, curr_N_c, c_n, work_arr, heap>>

UnlockConsSlot(c) ==
    /\ CStep(c, "unslot", "ticket")
    /\ arr_m' = [arr_m EXCEPT ![c_n[c]] = Release(@)]
    /\ UNCHANGED <<cons_arr_m, curr_N_c, c_n, work_arr, heap>>

Consumer(c) ==
    \/ TakeTicket(c) \/ LockConsSlot(c) \/ Poll(c) \/ CheckEnd(c)
    \/ Leave(c) \/ UnlockCons(c) \/ PrintLine(c) \/ Clear(c)
    \/ UnlockConsSlot(c)

-----------------------------------------------------------------------------
(* The main thread.  Returning from main, or exit() in the handler of      *)
(* SIGINT, ends the process wherever its threads are.                      *)

(* Mutant: main sets end_flag without joining the producers first.         *)
JoinNobody ==
    /\ main = "join_producers"
    /\ main' = "set_end"
    /\ UNCHANGED <<locks, shared, heap, pvars, cvars>>

JoinProducers ==
    /\ main = "join_producers"
    /\ \A p \in Producers : ppc[p] = "done"
    /\ main' = "set_end"
    /\ UNCHANGED <<locks, shared, heap, pvars, cvars>>

SetEnd ==
    /\ main = "set_end"
    /\ end_flag' = 1
    /\ main' = "join_consumers"
    /\ UNCHANGED <<locks, curr_N_p, curr_N_c, work_arr, lines_read, heap,
                   pvars, cvars>>

JoinConsumers ==
    /\ main = "join_consumers"
    /\ \A c \in Consumers : cpc[c] = "done"
    /\ main' = "exited"
    /\ UNCHANGED <<locks, shared, heap, pvars, cvars>>

TimeUp ==
    /\ main = "sleep"
    /\ main' = "exited"
    /\ UNCHANGED <<locks, shared, heap, pvars, cvars>>

Finish ==
    /\ MayStop
    /\ main # "exited"
    /\ main' = "exited"
    /\ UNCHANGED <<locks, shared, heap, pvars, cvars>>

Main == JoinProducers \/ SetEnd \/ JoinConsumers \/ TimeUp

Exited == main = "exited" /\ UNCHANGED vars

Next ==
    \/ \E p \in Producers : Producer(p)
    \/ \E c \in Consumers : Consumer(c)
    \/ Main
    \/ Finish
    \/ Exited

Spec == Init /\ [][Next]_vars

(* The kernel runs every thread that can run, and main too; nothing makes  *)
(* the user press Ctrl-C.                                                  *)
Fairness ==
    /\ \A p \in Producers : WF_vars(Producer(p))
    /\ \A c \in Consumers : WF_vars(Consumer(c))
    /\ WF_vars(Main)

FairSpec == Spec /\ Fairness

-----------------------------------------------------------------------------
(* Properties.                                                             *)

(* No line is lost, stored over or delivered twice while the threads run:  *)
(* a line read so far is in the hand of one producer, or in one slot, or   *)
(* was freed by a consumer, and in one of these places only (the stores    *)
(* and clears of work_arr, task.c:83-95 and 144-145).                      *)
InHand(l) == \E p \in Producers : line_buffer[p] = l
InRing(l) == \E s \in Slots : work_arr[s] = l

EachLineSomewhere ==
    \A l \in Lines : l <= lines_read <=> InHand(l) \/ InRing(l) \/ l \in freed

NoLineTwice ==
    /\ \A p, q \in Producers :
           p # q /\ line_buffer[p] # NULL => line_buffer[p] # line_buffer[q]
    /\ \A s, t \in Slots :
           s # t /\ work_arr[s] # NULL => work_arr[s] # work_arr[t]
    /\ \A l \in Lines : /\ ~(InHand(l) /\ InRing(l))
                        /\ ~(InHand(l) /\ l \in freed)
                        /\ ~(InRing(l) /\ l \in freed)

EachLineInOnePlace == EachLineSomewhere /\ NoLineTwice

(* A slot is worked on by one producer and one consumer at a time, and a   *)
(* consumer that has returned still counts: it never unlocks arr_m of its  *)
(* slot (task.c:79-96 and 118-146).                                        *)
InSlotSection(p) ==
    ppc[p] \in {"unlock", "scan", "spin", "put", "unslot", "eof_slot"}
InConsSlotSection(c) ==
    cpc[c] \in {"poll", "check", "leave", "done",
                "unlock", "print", "clear", "unslot"}

SlotExclusion ==
    /\ \A p, q \in Producers :
           p # q /\ InSlotSection(p) /\ InSlotSection(q) /\ p_n[p] \in Slots
           => p_n[p] # p_n[q]
    /\ \A c, d \in Consumers :
           c # d /\ InConsSlotSection(c) /\ InConsSlotSection(d)
           => c_n[c] # c_n[d]

(* The second unlock on end of file can let producers run past the reset   *)
(* of curr_N_p and take a slot behind the ring, but only when the file is  *)
(* exhausted and never with a line in hand (task.c:74-88): the store into  *)
(* work_arr is always inside the array.                                    *)
StoresLine(p) == ppc[p] \in {"spin", "put", "unslot"}

OverrunOnlyAfterEOF ==
    /\ \A p \in Producers : StoresLine(p) => p_n[p] \in Slots
    /\ lines_read < FileLines =>
           /\ curr_N_p \in 0 .. N
           /\ \A p \in Producers : p_n[p] \in Slots

(* Every consumer returns with another slot locked, so at most N of them   *)
(* ever return (task.c:118-123): with more consumers than slots main waits *)
(* in pthread_join for ever (task.c:222-224).                              *)
Returned == {c \in Consumers : cpc[c] = "done"}

AtMostNConsumersReturn == Cardinality(Returned) <= N

(* A line is printed at most once, and only if it matches; a matching line *)
(* that was freed was printed, so it is not consumed in silence            *)
(* (task.c:128-145).                                                       *)
PrintedLines == {printed[i] : i \in 1 .. Len(printed)}

PrintedOnce ==
    /\ \A i, j \in 1 .. Len(printed) : i # j => printed[i] # printed[j]
    /\ \A l \in PrintedLines : Matches(l) /\ (l \in freed \/ InRing(l))
    /\ \A l \in freed : Matches(l) => l \in PrintedLines

(* One producer and one consumer print in file order, and what they lose   *)
(* at the end is the tail of the file: the lines freed are its first ones. *)
(* The loss itself is real: a consumer that found its slot empty and then  *)
(* sees end_flag returns although the last lines were stored in between    *)
(* (task.c:120-124 and 221).                                               *)
OneEach == Cardinality(Producers) = 1 /\ Cardinality(Consumers) = 1

LossIsATail ==
    OneEach => /\ \A i, j \in 1 .. Len(printed) :
                      i < j => printed[i] < printed[j]
               /\ \A l \in freed : \A k \in 1 .. l : k \in freed

(* Once main has set end_flag nothing is stored any more (task.c:216-221): *)
(* a consumer that sees the flag and then an empty slot gives up nothing.  *)
NothingStoredAfterEnd ==
    [][end_flag = 1 =>
        \A s \in Slots : work_arr'[s] \in {NULL, work_arr[s]}]_vars

(* Every step reads, stores or delivers one line, or none (see LineRelay). *)
HeldLines   == {line_buffer[p] : p \in Producers} \ {NULL}
RingLines   == {work_arr[s] : s \in Slots} \ {NULL}
UnreadLines == lines_read + 1 .. FileLines

Relay == INSTANCE LineRelay WITH
             Capacity <- N, unread <- UnreadLines, held <- HeldLines,
             buffer <- RingLines, delivered <- freed

RelayRefinement == Relay!RelaySpec

(* Every line of the file gets into the ring, however many producers and   *)
(* consumers there are, unless the run is cut short: no end-of-file race   *)
(* and no returned consumer keeps a producer that has a line from storing  *)
(* it (task.c:91-95).                                                      *)
CutShort == main = "exited" /\ end_flag = 0

EveryLineReachesTheRing == \A l \in Lines : <>(InRing(l) \/ CutShort)

(* With one consumer the program runs to its end, or a producer waits for  *)
(* ever for what lies behind the ring (task.c:79).  With more consumers it *)
(* hangs in other ways too; see the README.                                *)
OneConsumer == Cardinality(Consumers) = 1

Termination ==
    OneConsumer =>
        <>(main = "exited" \/ \E p \in Producers : ppc[p] = "stuck")

-----------------------------------------------------------------------------
(* The inductive invariant behind the safety properties above.  Up to the  *)
(* end of the file prod_arr_m is a proper lock; after it the invariant     *)
(* says nothing of curr_N_p and relies on the locks of the slots alone.    *)
InProdSection(p) ==
    ppc[p] \in {"claim", "load", "store", "check", "reset", "slot", "unlock"}

BeforeEOF == lines_read < FileLines

ProdLockInv ==
    BeforeEOF =>
        /\ prod_arr_m \in {0, 1}
        /\ \A p \in Producers : InProdSection(p) => prod_arr_m = 0
        /\ \A p, q \in Producers :
               InProdSection(p) /\ InProdSection(q) => p = q
        /\ \A p \in Producers :
               ppc[p] \notin {"eof_slot", "eof_prod", "done", "stuck"}

ProdIndexInv ==
    BeforeEOF =>
        /\ curr_N_p \in 0 .. N
        /\ \A p \in Producers :
               ppc[p] \in {"claim", "load", "store"} => curr_N_p < N
        /\ curr_N_p = N => \E p \in Producers : ppc[p] \in {"check", "reset"}
        /\ \A p \in Producers : ppc[p] = "store" => p_tmp[p] = curr_N_p
        /\ \A p \in Producers : p_n[p] \in Slots

SlotLockInv ==
    /\ \A s \in Slots : arr_m_p[s] \in {0, 1}
    /\ \A p \in Producers :
           InSlotSection(p) /\ p_n[p] \in Slots => arr_m_p[p_n[p]] = 0
    /\ \A p \in Producers : StoresLine(p) => p_n[p] \in Slots

ConsSlotLockInv ==
    /\ \A s \in Slots : arr_m[s] \in {0, 1}
    /\ \A c \in Consumers : InConsSlotSection(c) => arr_m[c_n[c]] = 0

HandInv ==
    /\ \A p \in Producers :
           ppc[p] \in {"spin", "put"} <=> line_buffer[p] # NULL
    /\ \A p \in Producers : ppc[p] = "put" => work_arr[p_n[p]] = NULL
    /\ \A c \in Consumers :
           cpc[c] \in {"unlock", "print", "clear"} => work_arr[c_n[c]] # NULL

EndInv ==
    end_flag = 1 \/ main \in {"set_end", "join_consumers"}
        => \A p \in Producers : ppc[p] = "done"

IInv ==
    /\ TypeOK
    /\ ProdLockInv
    /\ ProdIndexInv
    /\ SlotLockInv
    /\ ConsSlotLockInv
    /\ SlotExclusion
    /\ HandInv
    /\ EndInv
    /\ EachLineInOnePlace
=============================================================================

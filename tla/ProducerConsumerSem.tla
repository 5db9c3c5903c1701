------------------------ MODULE ProducerConsumerSem ------------------------
(***************************************************************************)
(* "cw09 - mutexy/task2/src/task.c": the threads of ProducerConsumer with  *)
(* named POSIX semaphores for locks.  Three things are new.                *)
(*   - A semaphore counts, so the second post on end of file is kept       *)
(*     (LockMax is out of reach here; a mutex forgets it).                 *)
(*   - arr_m_p holds pointers: a slot behind the ring is a fault, and so   *)
(*     is a semaphore that could not be opened or is already closed.       *)
(*   - The names outlive the process.  sem_open uses O_EXCL and fails when *)
(*     an earlier launch left its name behind.                             *)
(* The model follows MaxLaunches launches of the program, one at a time,   *)
(* from the moment it has set its handler of SIGINT (task.c:218).          *)
(***************************************************************************)
EXTENDS ProducerConsumer

CONSTANT MaxLaunches    \* bound on the number of launches

ASSUME LaunchesAssumption == MaxLaunches \in Nat
ASSUME SeparateAssumption == Producers \cap Consumers = {}

VARIABLES
    phase,      \* what the process of the current launch is doing
    step,       \* the next sem_open, or the next call of clean_sem
    names,      \* the names that exist in the kernel
    failed,     \* the semaphores this launch could not open
    closed,     \* the semaphores this launch has closed
    created,    \* the threads this launch has created
    launches    \* launches so far

svars   == <<phase, step, names, failed, closed, created, launches>>
semvars == <<vars, svars>>

(* main() on its way to the threads: N is still 0; then an array of        *)
(* threads is still NULL; then the semaphores; then the threads.           *)
StartPhases == {"args", "allocating", "opening", "creating"}

(* clean_sem(), called by main, and by finish() while the threads exist,   *)
(* before N is known, and before there are any arrays.                     *)
CleanPhases == {"cleaning", "finishing", "quitting", "crashing"}

(* "exited" got through all of clean_sem and "quit" through what it does   *)
(* while N is 0; "faulted" is a thread's fault, "killed" any other end.    *)
Dead == {"off", "exited", "quit", "killed", "faulted"}

Phases == Dead \cup StartPhases \cup {"running"} \cup CleanPhases

(* A name is a pair; the three single semaphores have index 0.             *)
prod    == <<"prod_arr_m", 0>>
cons    == <<"cons_arr_m", 0>>
file    == <<"file_m", 0>>
slot(i) == <<"arr_m", i>>
slotP(i) == <<"arr_m_p", i>>

SemNames == {prod, cons, file} \cup {slot(i) : i \in Slots}
                               \cup {slotP(i) : i \in Slots}

(* Mutant: the names are numbered from 1.                                  *)
SlotOpensFrom1 ==
    [k \in 1 .. 2 * N |-> IF k % 2 = 1 THEN slot((k + 1) \div 2)
                                       ELSE slotP(k \div 2)]

SlotOpens ==
    [k \in 1 .. 2 * N |-> IF k % 2 = 1 THEN slot((k - 1) \div 2)
                                       ELSE slotP((k - 1) \div 2)]

Opens == <<prod, cons, file>> \o SlotOpens

(* Mutant: arr_m_p is closed twice and never unlinked.                     *)
SlotCallNoUnlink(i, j) ==
    CASE j = 0 -> <<"close", slot(i)>>
      [] j = 1 -> <<"unlink", slot(i)>>
      [] j \in {2, 3} -> <<"close", slotP(i)>>

SlotCall(i, j) ==
    CASE j = 0 -> <<"close", slot(i)>>
      [] j = 1 -> <<"unlink", slot(i)>>
      [] j = 2 -> <<"close", slotP(i)>>
      [] j = 3 -> <<"unlink", slotP(i)>>

SlotCloses ==
    [k \in 1 .. 4 * N |-> SlotCall((k - 1) \div 4, (k - 1) % 4)]

CleanCalls ==
    <<<<"close", prod>>, <<"close", cons>>, <<"close", file>>,
      <<"unlink", prod>>, <<"unlink", cons>>, <<"unlink", file>>>>
    \o SlotCloses

SemTypeOK ==
    /\ TypeOK
    /\ phase \in Phases
    /\ step \in 1 .. Len(CleanCalls) + 1
    /\ names \subseteq SemNames
    /\ failed \subseteq SemNames /\ closed \subseteq SemNames
    /\ created \subseteq Producers \cup Consumers
    /\ launches \in 0 .. MaxLaunches

SemInit ==
    /\ Init
    /\ phase = "off" /\ step = 1
    /\ names = {} /\ failed = {} /\ closed = {} /\ created = {}
    /\ launches = 0

-----------------------------------------------------------------------------
(* A launch: a fresh address space, the arguments, the arrays, one         *)
(* sem_open after another and one thread after another.  A failed sem_open *)
(* is not looked at.                                                       *)

Launch ==
    /\ phase \in Dead
    /\ launches < MaxLaunches
    /\ launches' = launches + 1
    /\ phase' = "args" /\ step' = 1
    /\ failed' = {} /\ closed' = {} /\ created' = {}
    /\ UNCHANGED names
    /\ prod_arr_m' = 1 /\ cons_arr_m' = 1
    /\ arr_m_p' = [s \in Slots |-> 1] /\ arr_m' = [s \in Slots |-> 1]
    /\ curr_N_p' = 0 /\ curr_N_c' = 0
    /\ work_arr' = [s \in Slots |-> NULL]
    /\ end_flag' = 0 /\ lines_read' = 0
    /\ printed' = <<>> /\ freed' = {}
    /\ ppc' = [p \in Producers |-> "lock"]
    /\ p_n' = [p \in Producers |-> 0] /\ p_tmp' = [p \in Producers |-> 0]
    /\ line_buffer' = [p \in Producers |-> NULL]
    /\ cpc' = [c \in Consumers |-> "ticket"]
    /\ c_n' = [c \in Consumers |-> 0]
    /\ main' \in StartOfMain

ParseArgs ==
    /\ phase = "args" /\ phase' = "allocating"
    /\ UNCHANGED <<vars, step, names, failed, closed, created, launches>>

Allocate ==
    /\ phase = "allocating" /\ phase' = "opening"
    /\ UNCHANGED <<vars, step, names, failed, closed, created, launches>>

OpenSem ==
    /\ phase = "opening"
    /\ failed' = failed \cup ({Opens[step]} \cap names)
    /\ names' = names \cup {Opens[step]}
    /\ \/ step < Len(Opens) /\ step' = step + 1 /\ UNCHANGED phase
       \/ step = Len(Opens) /\ step' = 1 /\ phase' = "creating"
    /\ UNCHANGED <<vars, closed, created, launches>>

(* First the producers, then the consumers; each may run as soon as it is  *)
(* created.                                                                *)
CreateThread(t) ==
    /\ phase = "creating"
    /\ t \in (IF Producers \subseteq created THEN Consumers ELSE Producers)
    /\ t \notin created
    /\ created' = created \cup {t}
    /\ phase' = IF Producers \cup Consumers \subseteq created'
                THEN "running" ELSE "creating"
    /\ UNCHANGED <<vars, step, names, failed, closed, launches>>

-----------------------------------------------------------------------------
(* The threads.  A step that touches a semaphore needs it open.  Between   *)
(* pthread_cancel and the end of the process a thread dies where it would  *)
(* wait for a semaphore (a cancellation point) and runs on elsewhere.      *)

SemOfProducer(p) ==
    CASE ppc[p] \in {"lock", "unlock", "eof_prod"} -> {prod}
      [] ppc[p] \in {"slot", "unslot", "eof_slot"} -> {slotP(p_n[p])}
      [] OTHER -> {}

SemOfConsumer(c) ==
    CASE cpc[c] \in {"ticket", "unlock", "leave"} -> {cons}
      [] cpc[c] \in {"slot", "unslot"} -> {slot(c_n[c])}
      [] OTHER -> {}

(* Mutant: a semaphore that could not be opened is used all the same.      *)
UsableUnlessClosed == SemNames \ closed

Usable == SemNames \ (failed \cup closed)

(* The threads live until the process ends, through clean_sem too.         *)
Alive == phase \in {"creating", "running", "cleaning", "finishing"}

Cancelled == phase \in {"cleaning", "finishing"} /\ main # "exited"

SemProducer(p) ==
    /\ Alive /\ p \in created
    /\ SemOfProducer(p) \subseteq Usable
    /\ Cancelled => ppc[p] \notin {"lock", "slot"}
    /\ Producer(p)
    /\ UNCHANGED svars

SemConsumer(c) ==
    /\ Alive /\ c \in created
    /\ SemOfConsumer(c) \subseteq Usable
    /\ Cancelled => cpc[c] \notin {"ticket", "slot"}
    /\ Consumer(c)
    /\ UNCHANGED svars

(* SIGSEGV: a thread touches a semaphore that is not there.                *)
Fault ==
    /\ Alive /\ main # "exited"
    /\ \/ \E p \in Producers \cap created :
              ~(SemOfProducer(p) \subseteq Usable)
       \/ \E c \in Consumers \cap created :
              ~(SemOfConsumer(c) \subseteq Usable)
    /\ phase' = "faulted"
    /\ UNCHANGED <<vars, step, names, failed, closed, created, launches>>

-----------------------------------------------------------------------------
(* The main thread and the signals.                                        *)

SemMain ==
    /\ phase = "running"
    /\ \/ JoinProducers /\ UNCHANGED phase
       \/ SetEnd /\ UNCHANGED phase
       \/ JoinConsumers /\ phase' = "cleaning"
       \/ main = "sleep" /\ phase' = "cleaning" /\ UNCHANGED vars
    /\ UNCHANGED <<step, names, failed, closed, created, launches>>

(* SIGINT: finish() calls clean().  Until both arrays of threads are there *)
(* it cancels nobody and goes on to clean_sem, which has nothing open to   *)
(* close (calls 1 to 3).  From then on it cancels every thread of them: a  *)
(* pthread_t not yet filled in is 0, and pthread_cancel faults.  In main's *)
(* own clean_sem it starts over.                                           *)
SemFinish ==
    /\ MayStop
    /\ \/ phase = "args" /\ phase' = "quitting" /\ step' = 4
       \/ phase = "allocating" /\ phase' = "crashing" /\ step' = 4
       \/ phase \in {"opening", "creating"} /\ phase' = "killed"
                                            /\ UNCHANGED step
       \/ phase \in {"running", "cleaning"} /\ phase' = "finishing"
                                            /\ step' = 1
    /\ UNCHANGED <<vars, names, failed, closed, created, launches>>

(* The last call clean_sem gets through: with N = 0 it has no slots, and   *)
(* with N known but arr_m NULL it faults on the first of them.             *)
LastCall == IF phase \in {"quitting", "crashing"} THEN 6 ELSE Len(CleanCalls)

AfterClean == CASE phase = "quitting" -> "quit"
                [] phase = "crashing" -> "killed"
                [] OTHER -> "exited"

CleanSem ==
    /\ phase \in CleanPhases
    /\ LET call == CleanCalls[step] IN
           IF call[1] = "close"
           THEN closed' = closed \cup {call[2]} /\ UNCHANGED names
           ELSE names' = names \ {call[2]} /\ UNCHANGED closed
    /\ phase' = IF step = LastCall THEN AfterClean ELSE phase
    /\ step' = step + 1
    /\ UNCHANGED <<vars, failed, created, launches>>

(* SIGKILL, at any moment.                                                 *)
Kill ==
    /\ MayStop
    /\ phase \notin Dead
    /\ phase' = "killed"
    /\ UNCHANGED <<vars, step, names, failed, closed, created, launches>>

Idle == phase \in Dead /\ launches = MaxLaunches /\ UNCHANGED semvars

SemNext ==
    \/ Launch
    \/ ParseArgs
    \/ Allocate
    \/ OpenSem
    \/ \E t \in Producers \cup Consumers : CreateThread(t)
    \/ \E p \in Producers : SemProducer(p)
    \/ \E c \in Consumers : SemConsumer(c)
    \/ Fault
    \/ SemMain
    \/ SemFinish
    \/ CleanSem
    \/ Kill
    \/ Idle

SemSpec == SemInit /\ [][SemNext]_semvars

-----------------------------------------------------------------------------
(* Properties.                                                             *)

(* prod_arr_m and the producers in its section always add up to one permit *)
(* and one more for each producer that has met the end of the file         *)
(* (task.c:123-138): no permit is lost, and every stray post stays.        *)
PermitCount ==
    prod_arr_m + Cardinality({p \in Producers : InProdSection(p)})
        = 1 + Cardinality({p \in Producers : ppc[p] = "done"})

(* A launch that opened all its semaphores and is not being stopped faults *)
(* only when the whole file has been read: the surplus posts of            *)
(* task.c:138 then let two producers advance curr_N_p at once (123-127).   *)
FaultOnlyAfterEOF ==
    phase = "faulted" /\ names = SemNames /\ failed = {} /\ closed = {}
        => lines_read = FileLines

(* A process that got to the end of clean_sem after its threads existed    *)
(* leaves no name, not even one that an earlier launch left behind and it  *)
(* could not open (task.c:62-81 and 241-254).  A Ctrl-C before N is read   *)
(* (218-224) makes it exit with success all the same, but then only the    *)
(* three single names are sure to be gone.                                 *)
ExitLeavesNoName ==
    /\ phase = "exited" => names = {}
    /\ phase = "quit" => names \cap {prod, cons, file} = {}

(* A launch that could not open one of these semaphores never gets to the  *)
(* end of its own accord, and without prod_arr_m it does not even read a   *)
(* line: sem_open's result is not checked (task.c:241-254), so the first   *)
(* thread to use it faults and leaves the names for the launch after.      *)
NeededNames == {prod, cons, slot(0)} \cup {slotP(i) : i \in Slots}

StaleNameStopsTheRun ==
    /\ failed \cap NeededNames # {} /\ FileLines >= N => main # "exited"
    /\ prod \in failed => lines_read = 0
=============================================================================

------------------------- MODULE MessageServerPosix -------------------------
(***************************************************************************)
(* "cw06 - kolejki/task2/src": the server of MessageServer over POSIX      *)
(* queues.  They are files: the server has a descriptor for the queue of   *)
(* each client, and a name can be removed while its queue is still open.   *)
(* Everything a client sends is read in the order it came, and a client    *)
(* takes whatever comes as the answer to what it asked.                    *)
(*                                                                         *)
(* A client that is done asks the server by signal to close a descriptor,  *)
(* and sends the number that its queue has in the CLIENT: 4, after the     *)
(* standard ones and that of the server's queue.  In the server 4 is the   *)
(* queue of whoever registered first, or whatever was opened since.        *)
(*                                                                         *)
(* A message is from a client, for command n of its program, under a       *)
(* client number; 0 stands for the registration.  A second server stops at *)
(* once (O_EXCL), so there is one.                                         *)
(***************************************************************************)
EXTENDS Naturals, FiniteSets, Sequences

CONSTANTS
    Clients,
    Programs,       \* the command lines of clients: sequences of Commands
    QueueMax,       \* mq_maxmsg
    LastFd,         \* the highest descriptor the server can have
    MaySignal,      \* TRUE if Ctrl-C may come
    Nobody          \* not a client

(* What parse_args makes of a command line; the client of a command line   *)
(* it rejects ends before it does anything.                                *)
Commands == {"MIRROR", "CALC", "TIME", "END", "OTHER"}

ASSUME ProgramsAssumption == Programs \subseteq Seq(Commands)
ASSUME LimitsAssumption == QueueMax \in Nat \ {0} /\ LastFd \in Nat \ 0 .. 3
ASSUME SignalAssumption == MaySignal \in BOOLEAN

Free == "free"
Pipe == "pipe"          \* from popen, never closed

(* Behind number 127 the char in a message is negative.                    *)
ASSUME ClientsAssumption ==
    /\ IsFiniteSet(Clients) /\ Cardinality(Clients) <= 128
    /\ Clients \cap {Nobody, Free, Pipe} = {}

VARIABLES
    named,      \* the server's queue has its name
    box,        \* what is in it
    spc,        \* where the server is
    ended, empty, \* the locals of its main
    info,       \* client_info: pid and q_id, in the order of the numbers
    hand,       \* the message in msg_op_buffer
    fds,        \* what each descriptor of the server is
    signals,    \* the clients whose SIGRTMIN + 1 is pending
    cpc, program, at, client_id,    \* a client
    mail,       \* what is in its queue
    crowd,      \* history: a client was added while the queue of one was open
    astray      \* history: somebody else's descriptor was closed

server == <<named, spc, ended, empty, info, hand>>
client == <<cpc, program, at, client_id>>
history == <<crowd, astray>>
vars == <<server, box, fds, signals, client, mail, history>>

Descriptors == 4 .. LastFd
Failed == 0             \* mq_open's -1
PrivateQ == 4           \* private_q_id, in every client

Message(c, n, id) == [from |-> c, n |-> n, id |-> id]
NoMessage == Message(Nobody, 0, 0)

Init ==
    /\ named = FALSE /\ box = <<>>
    /\ spc = "off" /\ ended = FALSE /\ empty = FALSE
    /\ info = <<>> /\ hand = NoMessage
    /\ fds = [d \in Descriptors |-> Free]
    /\ signals = {}
    /\ cpc = [c \in Clients |-> "start"]
    /\ program \in [Clients -> Programs] /\ at = [c \in Clients |-> 1]
    /\ client_id = [c \in Clients |-> 0]
    /\ mail = [c \in Clients |-> <<>>]
    /\ crowd = FALSE /\ astray = FALSE

-----------------------------------------------------------------------------
(* The server.                                                             *)

Running == spc \notin {"off", "gone", "failed", "faulted"}

OpenQueue ==
    /\ spc = "off" /\ spc' = "opened"
    /\ named' = TRUE
    /\ UNCHANGED <<ended, empty, info, hand, box, fds, signals, client, mail,
                   history>>

(* msg_q_id is set: from here on clean removes the name.                   *)
KeepQueue ==
    /\ spc = "opened" /\ spc' = "loop"
    /\ UNCHANGED <<named, ended, empty, info, hand, box, fds, signals, client,
                   mail, history>>

Free2 == {d \in Descriptors : fds[d] = Free}
Lowest == CHOOSE d \in Free2 : \A e \in Free2 : d <= e

(* clean, and an exit.                                                     *)
Stop(how) == spc' = how /\ named' = FALSE

(* mq_receive, and empty is what it is set to by the end of the round.     *)
Take(to) ==
    /\ spc = "loop" /\ spc' = to
    /\ ~(ended /\ empty)
    /\ box # <<>> /\ box' = Tail(box)
    /\ empty' = FALSE
    /\ UNCHANGED <<named, info, signals, client, mail, history>>

TakeName ==
    /\ Take("add")
    /\ Head(box).n = 0
    /\ hand' = Head(box)
    /\ UNCHANGED <<ended, fds>>

Command(m) == program[m.from][m.n]

(* MIRROR and CALC.                                                        *)
Compute ==
    /\ Take("answer")
    /\ Head(box).n # 0 /\ Command(Head(box)) \in {"MIRROR", "CALC"}
    /\ hand' = Head(box)
    /\ UNCHANGED <<ended, fds>>

(* popen needs two descriptors for a moment and keeps one.  Without them   *)
(* it returns NULL, and fread faults.                                      *)
Date ==
    /\ \/ /\ Cardinality(Free2) >= 2
          /\ Take("answer")
          /\ fds' = [fds EXCEPT ![Lowest] = Pipe]
       \/ /\ Cardinality(Free2) < 2
          /\ Take("faulted")
          /\ UNCHANGED fds
    /\ Head(box).n # 0 /\ Command(Head(box)) = "TIME"
    /\ hand' = Head(box)
    /\ UNCHANGED ended

(* Mutant: without its continue, END is answered like the others.          *)
EndAnswered ==
    /\ Take("answer")
    /\ Head(box).n # 0 /\ Command(Head(box)) = "END"
    /\ ended' = TRUE
    /\ hand' = Head(box)
    /\ UNCHANGED fds

End ==
    /\ Take("loop")
    /\ Head(box).n # 0 /\ Command(Head(box)) = "END"
    /\ ended' = TRUE
    /\ UNCHANGED <<hand, fds>>

NothingToDo ==
    /\ spc = "loop" /\ ~(ended /\ empty)
    /\ box = <<>>
    /\ empty' = TRUE
    /\ UNCHANGED <<named, spc, ended, info, hand, box, fds, signals, client,
                   mail, history>>

Gone(c) == cpc[c] \in {"gone", "killed"}

(* add_client_info, up to mq_open, which fails when the client has removed *)
(* its queue or there is no descriptor left.                               *)
AddClient ==
    LET c == hand.from
        fd == IF Gone(c) \/ Free2 = {} THEN Failed ELSE Lowest
    IN  /\ spc = "add"
        /\ info' = Append(info, [pid |-> c, q_id |-> fd])
        /\ fds' = IF fd = Failed THEN fds ELSE [fds EXCEPT ![fd] = c]
        /\ spc' = IF fd = Failed THEN "loop" ELSE "greet"
        /\ crowd' = (crowd \/ \E d \in Descriptors : fds[d] \in Clients)
        /\ UNCHANGED <<named, ended, empty, hand, box, signals, client, mail,
                       astray>>

(* mq_send by the descriptor fd.  What is not a queue ends the server.     *)
Send(fd, m) ==
    \/ /\ fd # Failed /\ fds[fd] \in Clients
       /\ Len(mail[fds[fd]]) < QueueMax
       /\ mail' = [mail EXCEPT ![fds[fd]] = Append(@, m)]
       /\ spc' = "loop" /\ UNCHANGED named
    \/ /\ fd = Failed \/ fds[fd] \in {Free, Pipe}
       /\ Stop("failed")
       /\ UNCHANGED mail

Greet ==
    /\ spc = "greet"
    /\ Send(info[Len(info)].q_id, Message(hand.from, 0, Len(info) - 1))
    /\ hand' = NoMessage
    /\ UNCHANGED <<ended, empty, info, box, fds, signals, client, history>>

Answer ==
    /\ spc = "answer"
    /\ Send(info[hand.id + 1].q_id, hand)
    /\ hand' = NoMessage
    /\ UNCHANGED <<ended, empty, info, box, fds, signals, client, history>>

Clean ==
    /\ spc = "loop" /\ ended /\ empty
    /\ Stop("gone")
    /\ UNCHANGED <<ended, empty, info, hand, box, fds, signals, client, mail,
                   history>>

(* Mutant: the queue stays open.                                           *)
CloseNothing(d) == UNCHANGED fds

Close(d) == fds' = [fds EXCEPT ![d] = Free]

(* clean_client, the handler of SIGRTMIN + 1, wherever the server is.      *)
CleanClient ==
    /\ Running
    /\ \E c \in signals :
        /\ signals' = signals \ {c}
        /\ astray' = (astray \/ fds[PrivateQ] \notin {c, Free})
    /\ Close(PrivateQ)
    /\ UNCHANGED <<server, box, client, mail, crowd>>

(* finish, the handler of SIGINT.                                          *)
ServerInterrupted ==
    /\ MaySignal /\ Running
    /\ IF spc = "opened" THEN spc' = "gone" /\ UNCHANGED named ELSE Stop("gone")
    /\ UNCHANGED <<ended, empty, info, hand, box, fds, signals, client, mail,
                   history>>

Server ==
    \/ OpenQueue \/ KeepQueue \/ TakeName \/ Compute \/ Date \/ End
    \/ NothingToDo \/ AddClient \/ Greet \/ Answer \/ Clean \/ CleanClient

-----------------------------------------------------------------------------
(* The client.                                                             *)

Put(c, n) ==
    /\ Len(box) < QueueMax
    /\ box' = Append(box, Message(c, n, client_id[c]))

Connect(c) ==
    /\ cpc[c] = "start"
    /\ cpc' = [cpc EXCEPT ![c] = IF named THEN "register" ELSE "gone"]
    /\ UNCHANGED <<server, box, fds, signals, program, at, client_id, mail,
                   history>>

(* The private queue is made; nobody can know its name before it is sent.  *)
Register(c) ==
    /\ cpc[c] = "register"
    /\ Put(c, 0)
    /\ cpc' = [cpc EXCEPT ![c] = "awaitId"]
    /\ UNCHANGED <<server, fds, signals, program, at, client_id, mail,
                   history>>

(* read_msg_from_server: whatever comes first.                             *)
Receive(c, from, to) ==
    /\ cpc[c] = from /\ cpc' = [cpc EXCEPT ![c] = to]
    /\ mail[c] # <<>> /\ mail' = [mail EXCEPT ![c] = Tail(@)]
    /\ UNCHANGED <<server, box, fds, signals, program, history>>

AwaitId(c) ==
    /\ Receive(c, "awaitId", "ask")
    /\ client_id' = [client_id EXCEPT ![c] = Head(mail[c]).id]
    /\ UNCHANGED at

Done(c) == at[c] > Len(program[c])

Ask(c) ==
    /\ cpc[c] = "ask" /\ ~Done(c)
    /\ program[c][at[c]] \in {"MIRROR", "CALC", "TIME"}
    /\ Put(c, at[c])
    /\ cpc' = [cpc EXCEPT ![c] = "await"]
    /\ UNCHANGED <<server, fds, signals, program, at, client_id, mail,
                   history>>

(* END has no answer; an unknown command is not sent.                      *)
Skip(c) ==
    /\ cpc[c] = "ask" /\ ~Done(c)
    /\ \/ program[c][at[c]] = "END" /\ Put(c, at[c])
       \/ program[c][at[c]] = "OTHER" /\ UNCHANGED box
    /\ at' = [at EXCEPT ![c] = @ + 1]
    /\ UNCHANGED <<server, fds, signals, cpc, program, client_id, mail,
                   history>>

Await(c) ==
    /\ Receive(c, "await", "ask")
    /\ at' = [at EXCEPT ![c] = @ + 1]
    /\ UNCHANGED client_id

(* sigqueue, lost if the server is gone, and clean.                        *)
Finish(c) ==
    /\ cpc[c] = "ask" /\ Done(c)
    /\ cpc' = [cpc EXCEPT ![c] = "gone"]
    /\ signals' = IF Running THEN signals \cup {c} ELSE signals
    /\ UNCHANGED <<server, box, fds, program, at, client_id, mail, history>>

(* SIGINT: clean, without a word to the server.                            *)
ClientInterrupted(c) ==
    /\ MaySignal
    /\ cpc[c] # "start" /\ ~Gone(c)
    /\ cpc' = [cpc EXCEPT ![c] = "killed"]
    /\ UNCHANGED <<server, box, fds, signals, program, at, client_id, mail,
                   history>>

Client(c) ==
    \/ Connect(c) \/ Register(c) \/ AwaitId(c) \/ Ask(c) \/ Skip(c)
    \/ Await(c) \/ Finish(c)

Next == Server \/ ServerInterrupted
            \/ \E c \in Clients : Client(c) \/ ClientInterrupted(c)

Spec == Init /\ [][Next]_vars

-----------------------------------------------------------------------------
(* Properties.                                                             *)

Waiting(c) == cpc[c] \in {"awaitId", "await"}

(* The registration failed for want of descriptors.                        *)
Refused(c) == \E k \in DOMAIN info : info[k].pid = c /\ info[k].q_id = Failed

OnTheWay(c) ==
    Cardinality({i \in DOMAIN box :
                    box[i].from = c
                        /\ (box[i].n = 0 \/ Command(box[i]) # "END")})
        + (IF hand.from = c THEN 1 ELSE 0) + Len(mail[c])

(* As long as no signal has closed the descriptor of another, a waiting    *)
(* client has exactly one message on the way and nobody else any, what is  *)
(* in a queue is for its owner and for what it asks now, and the server    *)
(* never ends on a failed mq_send.  The client trusts in this: it looks at *)
(* neither the type of an answer nor whose it is (server.c:151-205,        *)
(* client.c:84-95 and 184-188).                                            *)
AnswersFindTheirClients ==
    ~astray /\ spc # "faulted" =>
        /\ spc # "failed"
        /\ \A c \in Clients :
            /\ Waiting(c) /\ Running /\ ~Refused(c) => OnTheWay(c) = 1
            /\ ~Gone(c) => \A i \in DOMAIN mail[c] :
                   /\ Waiting(c)
                   /\ mail[c][i].from = c
                   /\ mail[c][i].n = (IF cpc[c] = "await" THEN at[c] ELSE 0)

(* One client after the other, each added after the queue of the one       *)
(* before was closed, all is well: number 4 is the right one.  No pipe is  *)
(* in its place, nothing goes astray, and whoever has signed off, and was  *)
(* not ended by Ctrl-C, leaves nothing open (server.c:74-80, client.c:     *)
(* 192-194).                                                               *)
OneByOneIsSafe ==
    ~crowd =>
        /\ ~astray
        /\ \A c \in Clients :
            /\ cpc[c] \in {"ask", "await"} \/ c \in signals =>
                   fds[PrivateQ] = c \/ ~Running
            /\ cpc[c] = "gone" /\ c \notin signals /\ Running =>
                   \A d \in Descriptors : fds[d] # c
=============================================================================

--------------------------- MODULE MessageServer ---------------------------
(***************************************************************************)
(* "cw06 - kolejki/task1/src": a server and its clients over System V      *)
(* message queues.  The server has a queue under a key everybody knows; a  *)
(* client makes one of its own and sends its key (type 10), gets a number  *)
(* back (type 1), and then asks for one operation after another (types 2   *)
(* to 5) under that number.  END has no answer: the server goes on until a *)
(* round of its loop finds nothing, and removes its queue.                 *)
(*                                                                         *)
(* Servers and Clients are processes.  Servers may follow each other or    *)
(* overlap: msgget without IPC_EXCL takes up whatever queue it finds.      *)
(*                                                                         *)
(* A message is who sent it (from), for which operation of its program     *)
(* (n), under which number (id).  The texts and what the server makes of   *)
(* them are left out.  late is history: whether END was known by then.     *)
(***************************************************************************)
EXTENDS Naturals, FiniteSets, SequencesExt

CONSTANTS
    Servers, Clients,
    Programs,       \* the command lines of clients: sequences of Commands
    QueueMax,       \* messages that fit into one queue (msg_qbytes)
    FilesMax,       \* pipes of popen the server can have open
    MaySignal       \* TRUE if Ctrl-C may come

Commands == {"MIRROR", "CALC", "TIME", "END", "OTHER"}

ASSUME ProgramsAssumption == Programs \subseteq Seq(Commands)
ASSUME LimitsAssumption == QueueMax \in Nat \ {0} /\ FilesMax \in Nat
ASSUME SignalAssumption == MaySignal \in BOOLEAN

VARIABLES
    current,    \* the number of the queue under the common key, 0 if none
    made,       \* how many queues that key has had
    box,        \* what is in the current queue
    spc, q_id,  \* a server's place in the code, and its queue
    ended, empty, \* the locals of its main
    info,       \* client_info: the clients in the order of their numbers
    hand,       \* the message in msg_int_buffer or msg_op_buffer
    files,      \* pipes that were never closed
    cpc, server_q, \* a client's place in the code, and q_id of its main
    client_id,
    program, at, \* its commands, and the one it is at
    queues,     \* the clients whose private queue exists
    mail,       \* what is in these queues
    inherited   \* history: some server took up a queue it found

server == <<spc, q_id, ended, empty, info, hand, files>>
client == <<cpc, server_q, client_id, program, at>>
vars == <<current, made, box, server, client, queues, mail, inherited>>

Nobody    == "nobody"
ASSUME ProcessesAssumption ==
    IsFiniteSet(Servers) /\ Nobody \notin Clients /\ "server" \notin Clients

NoMessage == [type |-> 0, id |-> 0, from |-> Nobody, n |-> 0, late |-> FALSE]

TypeOf == [MIRROR |-> 2, CALC |-> 3, TIME |-> 4, END |-> 5]

Messages == [type : {1, 2, 3, 4, 5, 10}, id : Nat, from : Clients, n : Nat,
             late : BOOLEAN]

ServerPlaces == {"off", "opened", "loop", "add", "poll", "answer", "clean",
                 "gone", "faulted"}
ClientPlaces == {"start", "create", "created", "register", "awaitId",
                 "ask", "await", "gone"}

(* The variables keep their types; no queue holds more than it can.        *)
TypeOK ==
    /\ current \in 0 .. made /\ made \in 0 .. Cardinality(Servers)
    /\ box \in Seq(Messages) /\ Len(box) <= QueueMax
    /\ spc \in [Servers -> ServerPlaces] /\ q_id \in [Servers -> 0 .. made]
    /\ ended \in [Servers -> BOOLEAN] /\ empty \in [Servers -> BOOLEAN]
    /\ info \in [Servers -> Seq(Clients)]
    /\ hand \in [Servers -> Messages \cup {NoMessage}]
    /\ files \in [Servers -> 0 .. FilesMax]
    /\ cpc \in [Clients -> ClientPlaces]
    /\ server_q \in [Clients -> 0 .. made]
    /\ client_id \in [Clients -> Nat]
    /\ program \in [Clients -> Programs]
    /\ at \in [Clients -> Nat \ {0}]
    /\ queues \subseteq Clients
    /\ mail \in [Clients -> Seq(Messages)]
    /\ \A c \in Clients :
        Len(mail[c]) <= QueueMax /\ (c \notin queues => mail[c] = <<>>)
    /\ inherited \in BOOLEAN

Init ==
    /\ current = 0 /\ made = 0 /\ box = <<>>
    /\ spc = [s \in Servers |-> "off"] /\ q_id = [s \in Servers |-> 0]
    /\ ended = [s \in Servers |-> FALSE] /\ empty = [s \in Servers |-> FALSE]
    /\ info = [s \in Servers |-> <<>>]
    /\ hand = [s \in Servers |-> NoMessage]
    /\ files = [s \in Servers |-> 0]
    /\ cpc = [c \in Clients |-> "start"]
    /\ server_q = [c \in Clients |-> 0] /\ client_id = [c \in Clients |-> 0]
    /\ program \in [Clients -> Programs] /\ at = [c \in Clients |-> 1]
    /\ queues = {} /\ mail = [c \in Clients |-> <<>>]
    /\ inherited = FALSE

-----------------------------------------------------------------------------
(* Queues.                                                                 *)

Message(t, k, c, n) ==
    [type |-> t, id |-> k, from |-> c, n |-> n,
     late |-> \E s \in Servers : ended[s]]

(* What msgrcv of this server can see: nothing (EINVAL) when its queue has *)
(* been removed.                                                           *)
Inbox(s) == IF q_id[s] = current THEN box ELSE <<>>

(* The positions of the messages of a type.                                *)
OfType(q, t) == {i \in DOMAIN q : q[i].type = t}

(* msgrcv with type -6: the messages of the lowest type.                   *)
Requests(q) ==
    {i \in DOMAIN q :
        /\ q[i].type <= 6
        /\ \A j \in DOMAIN q : q[i].type <= q[j].type}

First(I) == CHOOSE i \in I : \A j \in I : i <= j

Send(m) == Len(box) < QueueMax /\ box' = Append(box, m)

(* Mutant: what is sent to a client that is gone is kept.                  *)
PostAnyway(c, m) ==
    Len(mail[c]) < QueueMax /\ mail' = [mail EXCEPT ![c] = Append(@, m)]

(* msgsnd to a private queue; without the queue it fails, unnoticed.       *)
Post(c, m) ==
    \/ /\ c \in queues
       /\ Len(mail[c]) < QueueMax
       /\ mail' = [mail EXCEPT ![c] = Append(@, m)]
    \/ c \notin queues /\ UNCHANGED mail

-----------------------------------------------------------------------------
(* The server.                                                             *)

OpenQueue(s) ==
    /\ spc[s] = "off"
    /\ spc' = [spc EXCEPT ![s] = "opened"]
    /\ \/ /\ current = 0
          /\ made' = made + 1 /\ current' = made + 1
          /\ q_id' = [q_id EXCEPT ![s] = made + 1]
          /\ UNCHANGED inherited
       \/ /\ current # 0
          /\ q_id' = [q_id EXCEPT ![s] = current]
          /\ inherited' = TRUE
          /\ UNCHANGED <<current, made>>
    /\ UNCHANGED <<box, ended, empty, info, hand, files, client, queues,
                   mail>>

(* msg_q_id is set: from here on clean removes the queue.                  *)
KeepQueue(s) ==
    /\ spc[s] = "opened"
    /\ spc' = [spc EXCEPT ![s] = "loop"]
    /\ UNCHANGED <<current, made, box, q_id, ended, empty, info, hand, files,
                   client, queues, mail, inherited>>

(* while(!ended || !empty)                                                 *)
Loop(e, m) == IF e /\ m THEN "clean" ELSE "loop"

(* Mutant: empty keeps its value from the round before.                    *)
NewRoundNoReset(s) == UNCHANGED empty

NewRound(s) == empty' = [empty EXCEPT ![s] = FALSE]

PollClient(s) ==
    LET regs == OfType(Inbox(s), 10)
    IN  /\ spc[s] = "loop"
        /\ NewRound(s)
        /\ \/ /\ regs # {}
              /\ hand' = [hand EXCEPT ![s] = box[First(regs)]]
              /\ box' = RemoveAt(box, First(regs))
              /\ spc' = [spc EXCEPT ![s] = "add"]
           \/ /\ regs = {}
              /\ spc' = [spc EXCEPT ![s] = "poll"]
              /\ UNCHANGED <<hand, box>>
        /\ UNCHANGED <<current, made, q_id, ended, info, files, client,
                       queues, mail, inherited>>

(* Mutant: the number is taken after actual_size has grown.                *)
NewNumberOffByOne(s) == Len(info[s]) + 1

NewNumber(s) == Len(info[s])

(* add_client_info: numbers are places in the table, and a client that     *)
(* cannot be reached any more has one too.                                 *)
AddClient(s) ==
    LET c == hand[s].from
    IN  /\ spc[s] = "add"
        /\ info' = [info EXCEPT ![s] = Append(@, c)]
        /\ Post(c, Message(1, NewNumber(s), c, 0))
        /\ hand' = [hand EXCEPT ![s] = NoMessage]
        /\ spc' = [spc EXCEPT ![s] = Loop(ended[s], empty[s])]
        /\ UNCHANGED <<current, made, box, q_id, ended, empty, files, client,
                       queues, inherited>>

TakeRequest(s) ==
    /\ spc[s] = "poll"
    /\ Requests(Inbox(s)) # {}
    /\ box' = RemoveAt(box, First(Requests(box)))

(* MIRROR and CALC.                                                        *)
Compute(s) ==
    /\ TakeRequest(s)
    /\ box[First(Requests(box))].type \in {2, 3}
    /\ hand' = [hand EXCEPT ![s] = box[First(Requests(box))]]
    /\ spc' = [spc EXCEPT ![s] = "answer"]
    /\ UNCHANGED <<current, made, q_id, ended, empty, info, files, client,
                   queues, mail, inherited>>

(* TIME: popen without pclose.  When no pipe is left popen returns NULL    *)
(* and fread faults.                                                       *)
Date(s) ==
    /\ TakeRequest(s)
    /\ box[First(Requests(box))].type = 4
    /\ hand' = [hand EXCEPT ![s] = box[First(Requests(box))]]
    /\ \/ /\ files[s] < FilesMax
          /\ files' = [files EXCEPT ![s] = @ + 1]
          /\ spc' = [spc EXCEPT ![s] = "answer"]
       \/ /\ files[s] = FilesMax
          /\ spc' = [spc EXCEPT ![s] = "faulted"]
          /\ UNCHANGED files
    /\ UNCHANGED <<current, made, q_id, ended, empty, info, client, queues,
                   mail, inherited>>

(* Mutant: without its continue, END is answered like the others.          *)
EndAnswered(s) ==
    /\ TakeRequest(s)
    /\ box[First(Requests(box))].type = 5
    /\ hand' = [hand EXCEPT ![s] = box[First(Requests(box))]]
    /\ ended' = [ended EXCEPT ![s] = TRUE]
    /\ spc' = [spc EXCEPT ![s] = "answer"]
    /\ UNCHANGED <<current, made, q_id, empty, info, files, client, queues,
                   mail, inherited>>

End(s) ==
    /\ TakeRequest(s)
    /\ box[First(Requests(box))].type = 5
    /\ ended' = [ended EXCEPT ![s] = TRUE]
    /\ spc' = [spc EXCEPT ![s] = Loop(TRUE, empty[s])]
    /\ UNCHANGED <<current, made, q_id, empty, info, hand, files, client,
                   queues, mail, inherited>>

(* Mutant: the branch that sets empty is missing.                          *)
NothingToDoNoFlag(s) ==
    /\ spc[s] = "poll"
    /\ Requests(Inbox(s)) = {}
    /\ spc' = [spc EXCEPT ![s] = Loop(ended[s], empty[s])]
    /\ UNCHANGED <<current, made, box, q_id, ended, empty, info, hand, files,
                   client, queues, mail, inherited>>

NothingToDo(s) ==
    /\ spc[s] = "poll"
    /\ Requests(Inbox(s)) = {}
    /\ empty' = [empty EXCEPT ![s] = TRUE]
    /\ spc' = [spc EXCEPT ![s] = Loop(ended[s], TRUE)]
    /\ UNCHANGED <<current, made, box, q_id, ended, info, hand, files,
                   client, queues, mail, inherited>>

(* Mutant: the type of the request is left in the answer.                  *)
ReplyOwnType(m) == m

Reply(m) == [m EXCEPT !.type = 2]

(* The queue of client number k.  Behind the end of the table is memory    *)
(* never written, which may hold the number of any queue or of none.       *)
Recipients(s, k) ==
    IF k < Len(info[s]) THEN {info[s][k + 1]}
                        ELSE Clients \cup {Nobody, "server"}

Answer(s) ==
    /\ spc[s] = "answer"
    /\ \E to \in Recipients(s, hand[s].id) :
        \/ /\ to \in Clients
           /\ Post(to, Reply(hand[s]))
           /\ UNCHANGED box
        \/ /\ to = "server" /\ current # 0
           /\ Send(Reply(hand[s]))
           /\ UNCHANGED mail
        \/ to = Nobody /\ UNCHANGED <<box, mail>>
    /\ hand' = [hand EXCEPT ![s] = NoMessage]
    /\ spc' = [spc EXCEPT ![s] = Loop(ended[s], empty[s])]
    /\ UNCHANGED <<current, made, q_id, ended, empty, info, files, client,
                   queues, inherited>>

RemoveQueue(s) ==
    IF q_id[s] = current THEN current' = 0 /\ box' = <<>>
                         ELSE UNCHANGED <<current, box>>

Clean(s) ==
    /\ spc[s] = "clean"
    /\ RemoveQueue(s)
    /\ spc' = [spc EXCEPT ![s] = "gone"]
    /\ UNCHANGED <<made, q_id, ended, empty, info, hand, files, client,
                   queues, mail, inherited>>

(* finish, the handler of SIGINT: clean, unless msg_q_id is not set yet.   *)
ServerInterrupted(s) ==
    /\ MaySignal
    /\ spc[s] \notin {"off", "gone", "faulted"}
    /\ IF spc[s] = "opened" THEN UNCHANGED <<current, box>>
                            ELSE RemoveQueue(s)
    /\ hand' = [hand EXCEPT ![s] = NoMessage]
    /\ spc' = [spc EXCEPT ![s] = "gone"]
    /\ UNCHANGED <<made, q_id, ended, empty, info, files, client, queues,
                   mail, inherited>>

Serve(s) ==
    \/ KeepQueue(s) \/ PollClient(s) \/ AddClient(s)
    \/ Compute(s) \/ Date(s) \/ End(s) \/ NothingToDo(s)
    \/ Answer(s) \/ Clean(s)

-----------------------------------------------------------------------------
(* The client.                                                             *)

(* The client ends: exit after clean, which removes the private queue.     *)
Leave(c) ==
    /\ cpc' = [cpc EXCEPT ![c] = "gone"]
    /\ queues' = queues \ {c}
    /\ mail' = [mail EXCEPT ![c] = <<>>]

Connect(c) ==
    /\ cpc[c] = "start"
    /\ \/ /\ current # 0
          /\ server_q' = [server_q EXCEPT ![c] = current]
          /\ cpc' = [cpc EXCEPT ![c] = "create"]
       \/ /\ current = 0
          /\ cpc' = [cpc EXCEPT ![c] = "gone"]
          /\ UNCHANGED server_q
    /\ UNCHANGED <<current, made, box, server, client_id, program, at,
                   queues, mail, inherited>>

CreatePrivate(c) ==
    /\ cpc[c] = "create"
    /\ queues' = queues \cup {c}
    /\ cpc' = [cpc EXCEPT ![c] = "created"]
    /\ UNCHANGED <<current, made, box, server, server_q, client_id, program,
                   at, mail, inherited>>

KeepPrivate(c) ==
    /\ cpc[c] = "created"
    /\ cpc' = [cpc EXCEPT ![c] = "register"]
    /\ UNCHANGED <<current, made, box, server, server_q, client_id, program,
                   at, queues, mail, inherited>>

Register(c) ==
    /\ cpc[c] = "register"
    /\ \/ /\ server_q[c] = current
          /\ Send(Message(10, 0, c, 0))
          /\ cpc' = [cpc EXCEPT ![c] = "awaitId"]
          /\ UNCHANGED <<queues, mail>>
       \/ server_q[c] # current /\ Leave(c) /\ UNCHANGED box
    /\ UNCHANGED <<current, made, server, server_q, client_id, program, at,
                   inherited>>

(* read_msg_from_server: msgrcv of one type until there is one.            *)
Receive(c, t) ==
    /\ OfType(mail[c], t) # {}
    /\ mail' = [mail EXCEPT ![c] = RemoveAt(@, First(OfType(@, t)))]

AwaitId(c) ==
    /\ cpc[c] = "awaitId"
    /\ Receive(c, 1)
    /\ client_id' =
        [client_id EXCEPT ![c] = mail[c][First(OfType(mail[c], 1))].id]
    /\ cpc' = [cpc EXCEPT ![c] = "ask"]
    /\ UNCHANGED <<current, made, box, server, server_q, program, at, queues,
                   inherited>>

Done(c) == at[c] > Len(program[c])

(* An operation the server is to answer, and msgsnd could send it.         *)
Ask(c) ==
    /\ cpc[c] = "ask" /\ ~Done(c)
    /\ program[c][at[c]] \in {"MIRROR", "CALC", "TIME"}
    /\ server_q[c] = current
    /\ Send(Message(TypeOf[program[c][at[c]]], client_id[c], c, at[c]))
    /\ cpc' = [cpc EXCEPT ![c] = "await"]
    /\ UNCHANGED <<current, made, server, server_q, client_id, program, at,
                   queues, mail, inherited>>

(* END, an unknown command, or a msgsnd that failed: on to the next one.   *)
Skip(c) ==
    /\ cpc[c] = "ask" /\ ~Done(c)
    /\ \/ /\ program[c][at[c]] = "OTHER"
          /\ UNCHANGED box
       \/ /\ program[c][at[c]] # "OTHER"
          /\ server_q[c] # current
          /\ UNCHANGED box
       \/ /\ program[c][at[c]] = "END"
          /\ server_q[c] = current
          /\ Send(Message(TypeOf["END"], client_id[c], c, at[c]))
    /\ at' = [at EXCEPT ![c] = @ + 1]
    /\ UNCHANGED <<current, made, server, cpc, server_q, client_id, program,
                   queues, mail, inherited>>

Await(c) ==
    /\ cpc[c] = "await"
    /\ Receive(c, 2)
    /\ at' = [at EXCEPT ![c] = @ + 1]
    /\ cpc' = [cpc EXCEPT ![c] = "ask"]
    /\ UNCHANGED <<current, made, box, server, server_q, client_id, program,
                   queues, inherited>>

Finish(c) ==
    /\ cpc[c] = "ask" /\ Done(c)
    /\ Leave(c)
    /\ UNCHANGED <<current, made, box, server, server_q, client_id, program,
                   at, inherited>>

(* SIGINT: between msgget and the assignment of msg_q_id the queue stays.  *)
ClientInterrupted(c) ==
    /\ MaySignal
    /\ cpc[c] \notin {"start", "gone"}
    /\ \/ cpc[c] # "created" /\ Leave(c)
       \/ /\ cpc[c] = "created"
          /\ cpc' = [cpc EXCEPT ![c] = "gone"]
          /\ UNCHANGED <<queues, mail>>
    /\ UNCHANGED <<current, made, box, server, server_q, client_id, program,
                   at, inherited>>

Run(c) ==
    \/ CreatePrivate(c) \/ KeepPrivate(c) \/ Register(c) \/ AwaitId(c)
    \/ Ask(c) \/ Skip(c) \/ Await(c) \/ Finish(c)

-----------------------------------------------------------------------------
Next ==
    \/ \E s \in Servers : OpenQueue(s) \/ Serve(s) \/ ServerInterrupted(s)
    \/ \E c \in Clients : Connect(c) \/ Run(c) \/ ClientInterrupted(c)

Spec == Init /\ [][Next]_vars

(* Nobody has to start a program, but a started one goes on: its loops     *)
(* poll and do not wait for each other.                                    *)
Fairness ==
    /\ \A s \in Servers : WF_vars(Serve(s))
    /\ \A c \in Clients : WF_vars(Run(c))

FairSpec == Spec /\ Fairness

-----------------------------------------------------------------------------
(* Properties.                                                             *)

Waiting(c) == cpc[c] \in {"awaitId", "await"}

(* A client only ever finds the answer to what it is asking now: numbers   *)
(* are never mixed up, and END leaves no answer behind.  It holds however  *)
(* servers are stopped by Ctrl-C and started again, as long as none takes  *)
(* up the queue of another (server.c:103).                                 *)
OwnAnswer ==
    ~inherited =>
        \A c \in Clients : \A i \in OfType(mail[c], 2) :
            /\ cpc[c] = "await"
            /\ mail[c][i].from = c /\ mail[c][i].n = at[c]

(* Where the message is that client c waits for, or its own request.       *)
InBox(c)  == {i \in DOMAIN box : box[i].from = c /\ box[i].type # 5}
InHand(c) == {s \in Servers : /\ spc[s] \in {"add", "answer"}
                              /\ hand[s].from = c}

(* While its server's queue is there, a waiting client has exactly one     *)
(* message on the way: its request, in the queue or in the server's hands, *)
(* or the answer.  So nobody waits in vain and nobody is answered twice    *)
(* (client.c:69, server.c:126).                                            *)
OneMessageOnTheWay ==
    (~inherited /\ \A s \in Servers : spc[s] # "faulted") =>
        \A c \in Clients :
            Waiting(c) /\ server_q[c] = current =>
                Cardinality(InBox(c)) + Cardinality(InHand(c))
                    + Len(mail[c]) = 1

(* When the server is about to remove its queue, everything in it was sent *)
(* after END had been read: the drain misses nothing else, although it     *)
(* looks for new clients and for requests one after the other              *)
(* (server.c:126-179).  Of two servers on one queue the other may put      *)
(* something old back into it.                                             *)
NothingEarlyIsLeft ==
    ~inherited =>
        \A s \in Servers :
            spc[s] = "clean" /\ q_id[s] = current =>
                \A i \in DOMAIN box : box[i].late

(* Whoever begins to wait before END is read gets its number or its        *)
(* answer, though END may come from another client in the meantime.        *)
EarlyIsServed ==
    \A c \in Clients :
        (Waiting(c) /\ \A s \in Servers : ~ended[s]) ~> ~Waiting(c)

(* Once the server has read END it stops.                                  *)
EndStopsTheServer ==
    \A s \in Servers : ended[s] ~> spc[s] = "gone"

=============================================================================

-------------------------- MODULE CalculatorStream --------------------------
(***************************************************************************)
(* "cw10 - sockety/task1": a server that hands out arithmetic operations   *)
(* to its clients over stream sockets, TCP ("ip") and local ("name").      *)
(* Four threads share the table of ClientRegistry: two accept clients,     *)
(* main dispatches operations, and run_answer_server collects answers with *)
(* an edge-triggered epoll.                                                *)
(*                                                                         *)
(* The server never closes a client's descriptor, so descriptors are not   *)
(* used again and a client stands for its own.  A message is the number of *)
(* the operation it asks for or answers, or one of those below.            *)
(***************************************************************************)
EXTENDS ClientRegistry

CONSTANTS
    MaxOps,         \* operations typed in
    MaxGone,        \* clients that may be interrupted
    Period          \* main's x is counted in divisions by it

ASSUME BoundsAssumption == MaxOps \in Nat /\ MaxGone \in Nat

(* A multiple of every number of rows, so that a row is what it would be   *)
(* if x were counted without end.                                          *)
ASSUME PeriodAssumption ==
    /\ Period \in Nat \ {0}
    /\ \A n \in 1 .. MAX_CLIENTS : Period % n = 0

(* What happens when there are more is in CalculatorDatagram.              *)
ASSUME RowsSuffice == Cardinality(Clients) <= MAX_CLIENTS

REGISTERED  == -10      \* msg_type 10
NAME_EXISTS == -11      \* msg_type 11
Nothing     == -1

VARIABLES
    server,         \* "up", or "sigpipe" when that has killed it
    cpc,            \* "silent", "named" or "closed", per client
    accepted,       \* clients that accept has returned
    up,             \* messages from each client not yet received
    down,           \* messages to each client not yet received
    reset,          \* TCP connections reset by the client's end
    ev,             \* the descriptor in each ev[i].data.fd
    watched,        \* epoll's: the data.fd given for each descriptor
    edge,           \* descriptors with something new to report
    epc, event,     \* where run_answer_server is, and its event's data.fd
    ebuf,           \* the operation in its message buffer
    mpc, op_number, \* where main is, the operations sent so far
    x,              \* rows skipped
    printed,        \* how often each answer was printed
    lost,           \* operations whose send failed or met a closed socket
    asked           \* operations sent to each client

clients == <<cpc, up, down, reset>>
epoll   == <<watched, edge>>
answers == <<epc, event, ebuf, printed>>
dispatch == <<mpc, op_number, x, asked>>
vars == <<registry, server, clients, accepted, ev, epoll, answers, dispatch,
          lost>>

Ops == 0 .. MaxOps - 1

Init ==
    /\ RegistryInit
    /\ server = "up"
    /\ cpc = [c \in Clients |-> "silent"] /\ accepted = {}
    /\ up = [c \in Clients |-> <<>>] /\ down = [c \in Clients |-> <<>>]
    /\ reset = {}
    /\ ev = [i \in Rows |-> Unset]
    /\ watched = [c \in Clients |-> NoClient] /\ edge = {}
    /\ epc = "wait" /\ event = NoClient /\ ebuf = Nothing
    /\ mpc = "input" /\ op_number = 0 /\ x = 0
    /\ printed = [k \in Ops |-> 0] /\ lost = {}
    /\ asked = [c \in Clients |-> 0]

Closed(c) == cpc[c] = "closed"
Local(c)  == Via[c] = "name"

(* Something happens at c's socket: epoll has it to report.                *)
Edge(c) == edge' = IF watched[c] # NoClient THEN edge \cup {c} ELSE edge

-----------------------------------------------------------------------------
(* The clients: run_client and run_client_name, which differ in the socket.*)

CUnchanged == UNCHANGED <<registry, server, accepted, ev, watched, answers,
                          dispatch, lost>>

SendName(c) ==
    /\ cpc[c] = "silent"
    /\ cpc' = [cpc EXCEPT ![c] = "named"]
    /\ up' = [up EXCEPT ![c] = <<Nothing>>]
    /\ UNCHANGED <<down, reset, edge>> /\ CUnchanged

(* clean: a TCP socket closed with unread messages resets the connection.  *)
Close(c, unread) ==
    /\ cpc' = [cpc EXCEPT ![c] = "closed"]
    /\ reset' = IF ~Local(c) /\ unread # <<>> THEN reset \cup {c} ELSE reset
    /\ Edge(c)

Compute(c) ==
    /\ cpc[c] = "named" /\ down[c] # <<>>
    /\ Head(down[c]) \in Ops
    /\ down' = [down EXCEPT ![c] = Tail(@)]
    /\ up' = [up EXCEPT ![c] = Append(@, Head(down[c]))]
    /\ Edge(c)
    /\ UNCHANGED <<cpc, reset>> /\ CUnchanged

ReadReply(c) ==
    /\ cpc[c] = "named" /\ down[c] # <<>>
    /\ Head(down[c]) \notin Ops
    /\ down' = [down EXCEPT ![c] = Tail(@)]
    /\ IF Head(down[c]) = NAME_EXISTS THEN Close(c, Tail(down[c]))
                                      ELSE UNCHANGED <<cpc, reset, edge>>
    /\ UNCHANGED up /\ CUnchanged

Interrupted(c) ==
    /\ cpc[c] \in {"silent", "named"}
    /\ Cardinality({d \in Clients : Closed(d)}) < MaxGone
    /\ Close(c, down[c])
    /\ UNCHANGED <<up, down>> /\ CUnchanged

Program(c) == SendName(c) \/ Compute(c) \/ ReadReply(c)

run_client(c)      == Via[c] = "ip" /\ Program(c)
run_client_name(c) == Via[c] = "name" /\ Program(c)

Client(c) == run_client(c) \/ run_client_name(c)

-----------------------------------------------------------------------------
(* send by the server.  A local socket whose other end is closed raises    *)
(* SIGPIPE, which nobody catches; a TCP socket takes the message, and the  *)
(* reset that answers it makes the next send raise SIGPIPE.                *)

Broken(c) == Closed(c) /\ (Local(c) \/ c \in reset)

SendTo(c, m) ==
    /\ server' = IF Broken(c) THEN "sigpipe" ELSE server
    /\ down' = IF Closed(c) THEN down ELSE [down EXCEPT ![c] = Append(@, m)]
    /\ IF Closed(c) /\ ~Broken(c)
       THEN reset' = reset \cup {c} /\ Edge(c)
       ELSE UNCHANGED <<reset, edge>>

-----------------------------------------------------------------------------
(* run_server_ip and run_server_name.                                      *)

AUnchanged == UNCHANGED <<cpc, watched, answers, dispatch, lost>>

Accept(a) ==
    /\ AStep(a, "wait", "recv")
    /\ \E c \in Clients \ accepted :
           /\ Via[c] = a
           /\ accepted' = accepted \cup {c}
           /\ peer' = [peer EXCEPT ![a] = c]
    /\ UNCHANGED <<table, buf, loaded, history, server, up, down, reset, ev,
                   edge>>
    /\ AUnchanged

RecvName(a) ==
    /\ apc[a] = "recv" /\ up[peer[a]] # <<>>
    /\ \E name \in Names : Hear(a, "recv", name)
    /\ up' = [up EXCEPT ![peer[a]] = Tail(@)]
    /\ UNCHANGED <<server, accepted, down, reset, ev, edge>> /\ AUnchanged

(* The client has closed without a word, and buf is what it was: the reply *)
(* to an earlier client, or, before there was one, memory from malloc,     *)
(* whose msg_type may read as 0.                                           *)
RecvNothing(a) ==
    /\ apc[a] = "recv" /\ up[peer[a]] = <<>> /\ Closed(peer[a])
    /\ \/ buf[a] = Unset /\ Hear(a, "recv", Unset)
       \/ /\ AStep(a, "recv", "wait")
          /\ UNCHANGED <<table, buf, peer, loaded, history>>
    /\ UNCHANGED <<server, accepted, up, down, reset, ev, edge>>
    /\ AUnchanged

(* The events and the descriptor, one step here.                           *)
StoreEv(a) ==
    /\ AStep(a, "extra", "watch")
    /\ ev' = [ev EXCEPT ![client_number] = peer[a]]
    /\ UNCHANGED <<table, buf, peer, loaded, history, server, accepted, up,
                   down, reset, edge>>
    /\ AUnchanged

(* epoll_ctl with &ev[client_number], whatever that row holds by now.      *)
Watch(a) ==
    /\ AStep(a, "watch", "load")
    /\ watched' = [watched EXCEPT ![peer[a]] = ev[client_number]]
    /\ edge' = IF up[peer[a]] # <<>> \/ Closed(peer[a])
               THEN edge \cup {peer[a]} ELSE edge
    /\ UNCHANGED <<table, buf, peer, loaded, history, server, clients,
                   accepted, ev, answers, dispatch, lost>>

Reply(a) ==
    /\ \/ AStep(a, "accept", "wait") /\ SendTo(peer[a], REGISTERED)
       \/ AStep(a, "reject", "wait") /\ SendTo(peer[a], NAME_EXISTS)
    /\ peer' = [peer EXCEPT ![a] = NoClient]
    /\ UNCHANGED <<table, buf, loaded, history, accepted, up, ev>>
    /\ AUnchanged

TableStep(a) ==
    /\ Register(a) \/ StoreFd(a, peer[a])
    /\ UNCHANGED <<server, up, down, reset, accepted, ev, edge>>
    /\ AUnchanged

AcceptLoop(a) ==
    /\ server = "up"
    /\ \/ Accept(a) \/ RecvName(a) \/ RecvNothing(a)
       \/ TableStep(a) \/ StoreEv(a) \/ Watch(a) \/ Reply(a)

run_server_ip   == AcceptLoop("ip")
run_server_name == AcceptLoop("name")

-----------------------------------------------------------------------------
(* run_answer_server: one event a time, one message an event.  A timeout   *)
(* changes nothing: what is done for the event that is still in event has  *)
(* been done.                                                              *)

EUnchanged == UNCHANGED <<client_number, client_name, acceptors, history,
                          server, cpc, down, reset, accepted, ev, dispatch,
                          lost>>

HangsUp(c) == Closed(c) /\ (Local(c) \/ c \in reset)

EpollWait ==
    /\ epc = "wait"
    /\ \E c \in edge :
           /\ edge' = edge \ {c}
           /\ IF watched[c] = Unset \/ (up[c] = <<>> /\ ~Closed(c))
              THEN UNCHANGED <<epc, event>>
              ELSE /\ event' = watched[c]
                   /\ epc' = IF HangsUp(c) THEN "hup" ELSE "recv"
    /\ UNCHANGED <<client_fd, up, watched, ebuf, printed>> /\ EUnchanged

(* recv's result is not looked at: at the end of the stream the answer in  *)
(* the buffer is printed again.                                            *)
Receive(fd) ==
    /\ up[fd] # <<>> \/ Closed(fd)
    /\ ebuf' = IF up[fd] # <<>> THEN Head(up[fd]) ELSE ebuf
    /\ up' = IF up[fd] # <<>> THEN [up EXCEPT ![fd] = Tail(@)] ELSE up
    /\ printed' = IF ebuf' \in Ops THEN [printed EXCEPT ![ebuf'] = @ + 1]
                                    ELSE printed
    /\ event' = NoClient

(* Mutant: MSG_PEEK, which task2 has, leaves the message in the socket.    *)
PeekAnswer ==
    /\ epc = "recv" /\ epc' = "wait"
    /\ up[event] # <<>>
    /\ ebuf' = Head(up[event])
    /\ printed' = [k \in Ops |-> printed[k] + (IF k = ebuf' THEN 1 ELSE 0)]
    /\ event' = NoClient
    /\ UNCHANGED <<client_fd, up, epoll>> /\ EUnchanged

RecvAnswer ==
    /\ epc = "recv" /\ epc' = "wait"
    /\ Receive(event)
    /\ UNCHANGED <<client_fd, epoll>> /\ EUnchanged

(* The client is taken out of epoll and out of the table; nobody else      *)
(* looks at what is received then.                                         *)
Hup ==
    /\ epc = "hup" /\ epc' = "wait"
    /\ watched' = [watched EXCEPT ![event] = NoClient]
    /\ edge' = edge \ {event}
    /\ client_fd' = [i \in Rows |-> IF client_fd[i] = event THEN NoClient
                                                           ELSE client_fd[i]]
    /\ Receive(event)
    /\ EUnchanged

run_answer_server == server = "up" /\ (EpollWait \/ Hup \/ RecvAnswer)

-----------------------------------------------------------------------------
(* main.  What is typed while there are no clients is dropped and changes  *)
(* nothing.                                                                *)

MUnchanged == UNCHANGED <<registry, cpc, up, accepted, ev, watched, answers>>

TypeOperation ==
    /\ mpc = "input" /\ mpc' = "find"
    /\ client_number # 0
    /\ op_number < MaxOps
    /\ UNCHANGED <<op_number, x, asked, server, down, reset, edge, lost>>
    /\ MUnchanged

(* x counts up without end; only what it leaves in a division by a number  *)
(* of rows matters.                                                        *)
Row == (op_number + x) % client_number

(* Mutant: every second row is looked at.                                  *)
SkipTwoRows ==
    /\ mpc = "find"
    /\ client_fd[Row] \in {NoClient, Unset}
    /\ x' = (x + 2) % Period
    /\ UNCHANGED <<mpc, op_number, asked, server, down, reset, edge, lost>>
    /\ MUnchanged

SkipRow ==
    /\ mpc = "find"
    /\ client_fd[Row] \in {NoClient, Unset}
    /\ x' = (x + 1) % Period
    /\ UNCHANGED <<mpc, op_number, asked, server, down, reset, edge, lost>>
    /\ MUnchanged

FindRow ==
    /\ mpc = "find" /\ mpc' = "send"
    /\ client_fd[Row] # NoClient
    /\ UNCHANGED <<op_number, x, asked, server, down, reset, edge, lost>>
    /\ MUnchanged

(* The row is computed and read again: client_number may have grown and    *)
(* the client hung up.  Descriptor 0 is no socket, and send fails.         *)
SendOperation ==
    /\ mpc = "send" /\ mpc' = "input"
    /\ op_number' = op_number + 1
    /\ LET c == client_fd[Row]
       IN  IF c \in Clients
           THEN /\ SendTo(c, op_number)
                /\ lost' = IF Closed(c) THEN lost \cup {op_number} ELSE lost
                /\ asked' = [asked EXCEPT ![c] = @ + 1]
           ELSE /\ lost' = lost \cup {op_number}
                /\ UNCHANGED <<server, down, reset, edge, asked>>
    /\ x' = 0
    /\ MUnchanged

main == server = "up" /\ (TypeOperation \/ SkipRow \/ FindRow \/ SendOperation)

Next ==
    \/ \E c \in Clients : Client(c) \/ Interrupted(c)
    \/ run_server_ip \/ run_server_name \/ run_answer_server \/ main

Spec == Init /\ [][Next]_vars

(* The threads are scheduled, and programs read what has come.             *)
Fairness ==
    /\ WF_vars(main /\ mpc # "input") /\ WF_vars(run_answer_server)
    /\ WF_vars(run_server_ip) /\ WF_vars(run_server_name)
    /\ \A c \in Clients : WF_vars(Compute(c) \/ ReadReply(c))

FairSpec == Spec /\ Fairness

-----------------------------------------------------------------------------
(* Properties.                                                             *)

(* An operation that main has sent is in one place: on its way to one      *)
(* client, answered and on its way back, printed, or lost; and it is lost  *)
(* only when a client has left, or two registrations overlapped (server.c: *)
(* 263-280).  An answer is printed again only for the end of a stream,     *)
(* which a client has at most twice, its end and its reset.                *)
PlacesOf(k) ==
    {<<"to", c>> : c \in {d \in Clients : k \in Range(down[d])}}
        \cup {<<"from", c>> : c \in {d \in Clients : k \in Range(up[d])}}
        \cup {<<"printed", NoClient>> : i \in 1 .. printed[k]}
        \cup {<<"lost", NoClient>> : i \in {k} \cap lost}

Leavers == {c \in Clients : Closed(c)}

OperationsInOnePlace ==
    /\ \A k \in 0 .. op_number - 1 : Cardinality(PlacesOf(k)) = 1
    /\ lost # {} /\ ~overlap => Leavers # {}
    /\ ~overlap => \A k \in Ops : printed[k] <= 1 + 2 * Cardinality(Leavers)

(* epoll is edge-triggered and one message is read for an edge, so an      *)
(* answer that comes on top of an unread one may stay unread.  The answer  *)
(* of a client that was asked once is always read (server.c:198-223).      *)
LoneAnswerIsRead ==
    \A c \in Clients :
        ~overlap /\ asked[c] = 1 /\ ~Closed(c) /\ cpc[c] = "named"
            /\ c \in registered /\ up[c] # <<>>
        => c \in edge \/ (event = c /\ epc # "wait")

AnswersAreRead == OperationsInOnePlace /\ LoneAnswerIsRead

(* main finds a client to send to, unless nobody is left in the table      *)
(* (server.c:274-276).                                                     *)
NobodyLeft == \A i \in 0 .. client_number - 1 : client_fd[i] \in {NoClient, Unset}

DispatchEnds == mpc = "find" ~> (mpc # "find" \/ NobodyLeft \/ server # "up")
=============================================================================

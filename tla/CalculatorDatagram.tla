------------------------- MODULE CalculatorDatagram -------------------------
(***************************************************************************)
(* "cw10 - sockety/task2": the calculator over datagram sockets.  There    *)
(* are no connections: everything a socket's clients send, names and       *)
(* answers, comes to the one thread that reads the socket, and what the    *)
(* table keeps of a client is the socket and a pointer to client_socket,   *)
(* the thread's local variable, which recvfrom fills with the address of   *)
(* each sender.  peer of ClientRegistry is that variable.                  *)
(***************************************************************************)
EXTENDS ClientRegistry

CONSTANTS
    MaxOps,         \* operations typed in
    MaxGone,        \* clients that may be interrupted
    MaxDropped      \* UDP datagrams that may be lost

ASSUME BoundsAssumption == MaxOps \in Nat /\ MaxGone \in Nat
                           /\ MaxDropped \in Nat

REGISTERED  == -10      \* msg_type 10
NAME_EXISTS == -11      \* msg_type 11
NAME        == -1       \* msg_type 0 from a client

VARIABLES
    server,         \* "up", or "fault" after a write behind the table
    client_adress,  \* whose client_socket each row points to
    sock,           \* datagrams in each of the server's sockets
    cpc,            \* "silent", "named" or "closed", per client
    down,           \* datagrams in each client's socket
    mpc, op_number, senttonum,      \* main
    printed,        \* how often each answer was printed
    lost,           \* operations that got lost on their way, or back
    dropped         \* UDP datagrams lost

sockets == <<sock, cpc, down>>
dispatch == <<mpc, op_number, senttonum>>
vars == <<registry, server, client_adress, sockets, dispatch, printed, lost,
          dropped>>

Ops == 0 .. MaxOps - 1

Init ==
    /\ RegistryInit
    /\ server = "up"
    /\ client_adress = [i \in Rows |-> Unset]
    /\ sock = [a \in Acceptors |-> <<>>]
    /\ cpc = [c \in Clients |-> "silent"]
    /\ down = [c \in Clients |-> <<>>]
    /\ mpc = "input" /\ op_number = 0 /\ senttonum = 0
    /\ printed = [k \in Ops |-> 0] /\ lost = {} /\ dropped = 0

Closed(c) == cpc[c] = "closed"

(* A datagram is lost when nobody has the address any more, and UDP may    *)
(* lose it anyway.                                                         *)
Drops(via) == via = "ip" /\ dropped < MaxDropped

LosesOp(k) == lost' = IF k \in Ops THEN lost \cup {k} ELSE lost

SendToServer(c, m) ==
    \/ /\ sock' = [sock EXCEPT ![Via[c]] = Append(@, [from |-> c, op |-> m])]
       /\ UNCHANGED <<lost, dropped>>
    \/ /\ Drops(Via[c])
       /\ dropped' = dropped + 1
       /\ LosesOp(m)
       /\ UNCHANGED sock

SendTo(c, m) ==
    \/ /\ ~Closed(c)
       /\ down' = [down EXCEPT ![c] = Append(@, m)]
       /\ UNCHANGED <<lost, dropped>>
    \/ /\ Closed(c)
       /\ LosesOp(m)
       /\ UNCHANGED <<down, dropped>>
    \/ /\ ~Closed(c) /\ Drops(Via[c])
       /\ dropped' = dropped + 1
       /\ LosesOp(m)
       /\ UNCHANGED down

-----------------------------------------------------------------------------
(* The clients.                                                            *)

CUnchanged == UNCHANGED <<registry, server, client_adress, dispatch, printed>>

SendName(c) ==
    /\ cpc[c] = "silent"
    /\ cpc' = [cpc EXCEPT ![c] = "named"]
    /\ SendToServer(c, NAME)
    /\ UNCHANGED down /\ CUnchanged

Compute(c) ==
    /\ cpc[c] = "named" /\ down[c] # <<>>
    /\ Head(down[c]) \in Ops
    /\ down' = [down EXCEPT ![c] = Tail(@)]
    /\ SendToServer(c, Head(down[c]))
    /\ UNCHANGED cpc /\ CUnchanged

ReadReply(c) ==
    /\ cpc[c] = "named" /\ down[c] # <<>>
    /\ Head(down[c]) \notin Ops
    /\ down' = [down EXCEPT ![c] = Tail(@)]
    /\ cpc' = IF Head(down[c]) = NAME_EXISTS
              THEN [cpc EXCEPT ![c] = "closed"] ELSE cpc
    /\ UNCHANGED <<sock, lost, dropped>> /\ CUnchanged

(* What is in the client's socket goes with it.                            *)
Interrupted(c) ==
    /\ cpc[c] \in {"silent", "named"}
    /\ Cardinality({d \in Clients : Closed(d)}) < MaxGone
    /\ cpc' = [cpc EXCEPT ![c] = "closed"]
    /\ down' = [down EXCEPT ![c] = <<>>]
    /\ lost' = lost \cup (Range(down[c]) \cap Ops)
    /\ UNCHANGED <<sock, dropped>> /\ CUnchanged

Program(c) == SendName(c) \/ Compute(c) \/ ReadReply(c)

run_client(c)      == Via[c] = "ip" /\ Program(c)
run_client_name(c) == Via[c] = "name" /\ Program(c)

Client(c) == run_client(c) \/ run_client_name(c)

-----------------------------------------------------------------------------
(* run_server_ip and run_server_name.                                      *)

AUnchanged == UNCHANGED <<server, cpc, dispatch>>

(* Mutant: MSG_PEEK, which run_answer_server has, leaves the answer there. *)
PeekAnswer(a) ==
    /\ sock[a] # <<>>
    /\ sock' = IF Head(sock[a]).op = NAME
               THEN [sock EXCEPT ![a] = Tail(@)] ELSE sock
    /\ LET m == Head(sock[a])
       IN  /\ peer' = [peer EXCEPT ![a] = m.from]
           /\ AStep(a, "wait", IF m.op = NAME THEN "scan" ELSE "wait")
           /\ printed' = IF m.op = NAME THEN printed
                         ELSE [printed EXCEPT ![m.op] = @ + 1]
    /\ UNCHANGED <<table, buf, loaded, history, client_adress, down, lost,
                   dropped>>
    /\ AUnchanged

RecvFrom(a) ==
    /\ sock[a] # <<>>
    /\ sock' = [sock EXCEPT ![a] = Tail(@)]
    /\ LET m == Head(sock[a])
       IN  /\ peer' = [peer EXCEPT ![a] = m.from]
           /\ AStep(a, "wait", IF m.op = NAME THEN "scan" ELSE "wait")
           /\ printed' = IF m.op = NAME THEN printed
                         ELSE [printed EXCEPT ![m.op] = @ + 1]
    /\ UNCHANGED <<table, buf, loaded, history, client_adress, down, lost,
                   dropped>>
    /\ AUnchanged

TableStep(a) ==
    /\ \/ \E name \in Names : Hear(a, "scan", name)
       \/ StoreName(a) \/ StoreFd(a, a) \/ LoadNumber(a) \/ StoreNumber(a)
    /\ UNCHANGED <<client_adress, sock, down, printed, lost, dropped>>
    /\ AUnchanged

(* The address and its length, one step here.                              *)
StoreAddress(a) ==
    /\ AStep(a, "extra", "load")
    /\ client_number < MAX_CLIENTS
    /\ client_adress' = [client_adress EXCEPT ![client_number] = a]
    /\ UNCHANGED <<table, buf, peer, loaded, history, sock, down, printed,
                   lost, dropped>>
    /\ AUnchanged

Reply(a) ==
    /\ \/ AStep(a, "accept", "wait") /\ SendTo(peer[a], REGISTERED)
       \/ AStep(a, "reject", "wait") /\ SendTo(peer[a], NAME_EXISTS)
    /\ UNCHANGED <<table, buf, peer, loaded, history, client_adress, sock,
                   printed>>
    /\ AUnchanged

RunOver(a) ==
    /\ Overrun(a)
    /\ server' = "fault"
    /\ UNCHANGED <<registry, client_adress, sockets, dispatch, printed, lost,
                   dropped>>

RecvLoop(a) ==
    /\ server = "up"
    /\ \/ RecvFrom(a) \/ TableStep(a) \/ StoreAddress(a) \/ Reply(a)
       \/ RunOver(a)

run_server_ip   == RecvLoop("ip")
run_server_name == RecvLoop("name")

-----------------------------------------------------------------------------
(* main.                                                                   *)

MUnchanged == UNCHANGED <<registry, server, client_adress, sock, cpc, printed>>

TypeOperation ==
    /\ mpc = "input" /\ mpc' = "send"
    /\ client_number # 0
    /\ op_number < MaxOps
    /\ senttonum' = op_number % client_number
    /\ UNCHANGED <<op_number, down, lost, dropped>> /\ MUnchanged

(* Mutant: the address is the registered client's own.                     *)
SendToOwner ==
    /\ mpc = "send" /\ mpc' = "input"
    /\ op_number' = op_number + 1
    /\ \E c \in registered : SendTo(c, op_number)
    /\ UNCHANGED senttonum /\ MUnchanged

(* The address is read from the thread's variable now.  A socket of one    *)
(* family with an address of the other, or with none, is an error, and so  *)
(* is what lies behind the table.                                          *)
SendOperation ==
    /\ mpc = "send" /\ mpc' = "input"
    /\ op_number' = op_number + 1
    /\ LET a == client_adress[senttonum]
       IN  IF senttonum \in Rows /\ a # Unset /\ a = client_fd[senttonum]
           THEN SendTo(peer[a], op_number)
           ELSE lost' = lost \cup {op_number} /\ UNCHANGED <<down, dropped>>
    /\ UNCHANGED senttonum /\ MUnchanged

main == server = "up" /\ (TypeOperation \/ SendOperation)

Next ==
    \/ \E c \in Clients : Client(c) \/ Interrupted(c)
    \/ run_server_ip \/ run_server_name \/ main

Spec == Init /\ [][Next]_vars

-----------------------------------------------------------------------------
(* Properties.                                                             *)

(* All clients of a socket share one address, that of its last sender, and *)
(* answering renews it: a registered client that has nothing to do and was *)
(* not the last to speak gets no operation ever again (server.c:104 and    *)
(* 270-272), whatever row main chooses.                                    *)
FallenSilent(c) ==
    /\ c \in registered /\ ~Closed(c)
    /\ down[c] = <<>> /\ peer[Via[c]] # c
    /\ \A i \in 1 .. Len(sock[Via[c]]) : sock[Via[c]][i].from # c

SilentStaysSilent ==
    [][\A c \in Clients : FallenSilent(c) => FallenSilent(c)' \/ Closed(c)']_vars

(* Nevertheless every operation is done by one client and printed once, or *)
(* lost: by UDP, with a client that has left, a rejected one among them,   *)
(* or by a row of two overlapping registrations (server.c:258-277).        *)
PlacesOf(k) ==
    {<<"to", c>> : c \in {d \in Clients : k \in Range(down[d])}}
        \cup {<<"from", a>> : a \in {b \in Acceptors :
                 \E i \in 1 .. Len(sock[b]) : sock[b][i].op = k}}
        \cup {<<"printed", i>> : i \in 1 .. printed[k]}
        \cup {<<"lost", k>> : i \in {k} \cap lost}

OperationsInOnePlace ==
    /\ \A k \in 0 .. op_number - 1 : Cardinality(PlacesOf(k)) = 1
    /\ lost # {} => \/ dropped > 0 \/ overlap
                    \/ \E c \in Clients : Closed(c)
=============================================================================

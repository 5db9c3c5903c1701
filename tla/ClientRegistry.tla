--------------------------- MODULE ClientRegistry ---------------------------
(***************************************************************************)
(* global_client_info of the calculator servers, "cw10 - sockety": the     *)
(* table of clients, filled by two accepting threads, one per socket,      *)
(* without a lock.  Every access reads client_number anew, so the parts of *)
(* one registration may go to different rows, two clients may share a row, *)
(* and client_number++, a load and a store, may lose one of two            *)
(* increments.                                                             *)
(*                                                                         *)
(* CalculatorStream and CalculatorDatagram, task1 and task2, extend this   *)
(* module with the sockets and the threads that use the table.  The scan   *)
(* for a name is one step.                                                 *)
(***************************************************************************)
EXTENDS Integers, Sequences, FiniteSets, Functions

CONSTANTS
    Clients,        \* the client programs, each its own descriptor here
    NoClient,       \* the descriptor 0
    Unset,          \* memory from malloc that was never written
    Names,          \* the names clients may have on their command lines
    Via,            \* "ip" or "name": the socket it uses
    MAX_CLIENTS     \* rows of the table

Acceptors == {"ip", "name"}
Rows == 0 .. MAX_CLIENTS - 1

ASSUME ClientsAssumption == /\ IsFiniteSet(Clients) /\ NoClient \notin Clients
                            /\ Unset \notin Clients \cup Acceptors \cup {NoClient}
                            /\ Via \in [Clients -> Acceptors]
ASSUME RowsAssumption    == MAX_CLIENTS \in Nat \ {0}

VARIABLES
    client_number, client_name, client_fd,
    apc,            \* where each accepting thread is
    buf,            \* the name in its message buffer
    peer,           \* clientfd, the client it serves
    loaded,         \* client_number, as read by client_number++, or 0
    overlap,        \* history: two registrations were made at once
    registered      \* history: the clients told that they are registered

table     == <<client_number, client_name, client_fd>>
acceptors == <<apc, buf, peer, loaded>>
history   == <<overlap, registered>>
registry  == <<table, acceptors, history>>

RegistryInit ==
    /\ client_number = 0
    /\ client_name = [i \in Rows |-> Unset]
    /\ client_fd = [i \in Rows |-> Unset]
    /\ apc = [a \in Acceptors |-> "wait"]
    /\ buf = [a \in Acceptors |-> Unset]
    /\ peer = [a \in Acceptors |-> NoClient]
    /\ loaded = [a \in Acceptors |-> 0]
    /\ overlap = FALSE /\ registered = {}

AStep(a, from, to) == apc[a] = from /\ apc' = [apc EXCEPT ![a] = to]

(* Between the look at the names and the new value of client_number.       *)
Registering == {a \in Acceptors :
                   apc[a] \in {"name", "fd", "extra", "watch", "load",
                               "store"}}

(* Mutant: the scan leaves out the last row.                               *)
NameTakenButLast(name) ==
    \E i \in Rows : i < client_number - 1 /\ client_name[i] = name

NameTaken(name) == \E i \in Rows : i < client_number /\ client_name[i] = name

(* A message of type 0 with a name, and the scan for it.                   *)
Hear(a, from, name) ==
    /\ AStep(a, from, IF NameTaken(name) THEN "reject" ELSE "name")
    /\ buf' = [buf EXCEPT ![a] = name]
    /\ overlap' = (overlap \/ Registering # {})
    /\ UNCHANGED <<table, peer, loaded, registered>>

StoreName(a) ==
    /\ AStep(a, "name", "fd")
    /\ client_number < MAX_CLIENTS
    /\ client_name' = [client_name EXCEPT ![client_number] = buf[a]]
    /\ UNCHANGED <<client_number, client_fd, buf, peer, loaded, history>>

StoreFd(a, fd) ==
    /\ AStep(a, "fd", "extra")
    /\ client_number < MAX_CLIENTS
    /\ client_fd' = [client_fd EXCEPT ![client_number] = fd]
    /\ UNCHANGED <<client_number, client_name, buf, peer, loaded, history>>

LoadNumber(a) ==
    /\ AStep(a, "load", "store")
    /\ loaded' = [loaded EXCEPT ![a] = client_number]
    /\ UNCHANGED <<table, buf, peer, history>>

StoreNumber(a) ==
    /\ AStep(a, "store", "accept")
    /\ client_number' = loaded[a] + 1
    /\ loaded' = [loaded EXCEPT ![a] = 0]
    /\ registered' = registered \cup {peer[a]}
    /\ UNCHANGED <<client_name, client_fd, buf, peer, overlap>>

Register(a) == StoreName(a) \/ LoadNumber(a) \/ StoreNumber(a)

(* The table is full, and the thread writes behind it; or client_number is *)
(* even behind its end, as two increments of a last row can leave it, and  *)
(* the scan follows what is no pointer to a name.                          *)
Overrun(a) ==
    /\ apc[a] \in {"scan", "name", "fd", "extra", "watch"}
    /\ client_number >= (IF apc[a] = "scan" THEN MAX_CLIENTS + 1
                                            ELSE MAX_CLIENTS)

-----------------------------------------------------------------------------
(* client_number never runs ahead of the registrations made, and as long   *)
(* as the two threads never registered at the same time every client has a *)
(* row of its own and no name is there twice (task1/src/server.c:91-107    *)
(* and 166-182).                                                           *)
RegistryIsSound ==
    /\ client_number <= Cardinality(registered)
    /\ ~overlap =>
        /\ client_number = Cardinality(registered)
        /\ \A i \in 0 .. client_number - 1 : client_fd[i] # Unset
        /\ \A i, j \in 0 .. client_number - 1 :
               client_name[i] = client_name[j] => i = j
=============================================================================

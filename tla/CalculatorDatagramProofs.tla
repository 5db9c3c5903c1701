---------------------- MODULE CalculatorDatagramProofs ----------------------
(***************************************************************************)
(* Proofs about CalculatorDatagram, for any clients, rows, names and       *)
(* operations, and any number of clients that leave and datagrams lost.    *)
(***************************************************************************)
EXTENDS CalculatorDatagram, ClientRegistryProofs, SequenceTheorems

-----------------------------------------------------------------------------
(* The inductive invariant.                                                *)

Replies  == {REGISTERED, NAME_EXISTS}
Datagram == [from : Clients, op : Ops \cup {NAME}]

DatagramType ==
    /\ server \in {"up", "fault"}
    /\ client_adress \in [Rows -> Acceptors \cup {Unset}]
    /\ sock \in [Acceptors -> Seq(Datagram)]
    /\ cpc \in [Clients -> {"silent", "named", "closed"}]
    /\ down \in [Clients -> Seq(Ops \cup Replies)]
    /\ mpc \in {"input", "send"}
    /\ op_number \in 0 .. MaxOps /\ senttonum \in Nat
    /\ mpc = "send" => op_number < MaxOps
    /\ printed \in [Ops -> Nat]
    /\ lost \in SUBSET Ops
    /\ dropped \in Nat

(* A client says its name once, to the thread of its socket.               *)
Hello(c) == [from |-> c, op |-> NAME]
Heard(c) == c \in registered \/ \E a \in Signing : peer[a] = c

NameInv ==
    /\ \A a \in Acceptors : \A m \in Range(sock[a]) : Via[m.from] = a
    /\ \A c \in Clients : \A a \in Acceptors :
           /\ Hello(c) \in Range(sock[a]) => ~Heard(c)
           /\ Once(sock[a], Hello(c))
    /\ \A c \in Clients : cpc[c] = "silent" =>
           /\ ~Heard(c)
           /\ \A a \in Acceptors : \A m \in Range(sock[a]) : m.from # c
    /\ \A a \in Acceptors : apc[a] # "wait" => peer[a] \in Clients
    /\ \A i \in Rows : client_adress[i] # Unset => peer[client_adress[i]] \in Clients

(* As long as registrations do not overlap, main finds an address of the   *)
(* right family in every row.                                              *)
AddressInv ==
    ~overlap =>
        /\ \A i \in 0 .. client_number - 1 :
               client_adress[i] = client_fd[i] /\ client_fd[i] \in Acceptors
        /\ \A a \in Acceptors :
               /\ apc[a] \in {"extra", "load", "store"} => client_fd[client_number] = a
               /\ apc[a] \in {"load", "store"} => client_adress[client_number] = a
        /\ mpc = "send" => senttonum < client_number

(* Each operation is in one place, and there only once.                    *)
Has(s, k)   == \E i \in DOMAIN s : s[i].op = k
OneOp(s, k) == \A i, j \in DOMAIN s : s[i].op = k /\ s[j].op = k => i = j

To(c, k)   == k \in Range(down[c])
From(a, k) == Has(sock[a], k)

OnceInv == /\ \A c \in Clients : \A k \in Ops : Once(down[c], k)
           /\ \A a \in Acceptors : \A k \in Ops : OneOp(sock[a], k)

PlaceInv ==
    /\ OnceInv
    /\ \A k \in 0 .. op_number - 1 : \E p : PlacesOf(k) = {p}
    /\ \A k \in Ops : k >= op_number => PlacesOf(k) = {}

LostInv == lost # {} => \/ dropped > 0 \/ overlap
                        \/ \E c \in Clients : Closed(c)

BaseInv == RegistryInv /\ DatagramType /\ NameInv

IInv == BaseInv /\ AddressInv /\ PlaceInv /\ LostInv

-----------------------------------------------------------------------------
(* Facts about datagrams in sockets.                                       *)

LEMMA CodesDiffer ==
  /\ NAME \notin Ops /\ Replies \cap Ops = {}
  /\ \A k \in Ops : k \in Nat /\ k < MaxOps
  /\ \A k \in Nat : k < MaxOps => k \in Ops
  BY BoundsAssumption DEF NAME, Replies, REGISTERED, NAME_EXISTS, Ops

LEMMA HasTail ==
  ASSUME NEW s \in Seq(Datagram), s # <<>>
  PROVE  /\ Head(s) \in Datagram /\ Tail(s) \in Seq(Datagram)
         /\ Head(s) \in Range(s) /\ Range(Tail(s)) \subseteq Range(s)
         /\ Has(s, Head(s).op)
         /\ \A k : k # Head(s).op => (Has(Tail(s), k) <=> Has(s, k))
         /\ \A k : OneOp(s, k) => OneOp(Tail(s), k)
         /\ OneOp(s, Head(s).op) => ~Has(Tail(s), Head(s).op)
<1>1. /\ Head(s) = s[1] /\ Head(s) \in Datagram /\ Tail(s) \in Seq(Datagram)
      /\ Len(s) > 0
      /\ DOMAIN s = 1 .. Len(s) /\ DOMAIN Tail(s) = 1 .. Len(s) - 1
      /\ \A i \in 1 .. Len(s) - 1 : Tail(s)[i] = s[i + 1]
  BY HeadTailProperties
<1>2. Len(s) \in Nat
  OBVIOUS
<1>3. \A i \in DOMAIN s : i = 1 \/ (i - 1 \in DOMAIN Tail(s) /\ Tail(s)[i - 1] = s[i])
  BY <1>1, <1>2
<1>4. \A i \in DOMAIN Tail(s) : i + 1 \in DOMAIN s /\ i + 1 # 1 /\ Tail(s)[i] = s[i + 1]
  BY <1>1, <1>2
<1>5. Head(s) \in Range(s) /\ Range(Tail(s)) \subseteq Range(s)
  BY <1>1, <1>2, <1>4 DEF Range
<1>6. Has(s, Head(s).op)
  BY <1>1, <1>2 DEF Has
<1>7. ASSUME NEW k, k # Head(s).op
      PROVE  Has(Tail(s), k) <=> Has(s, k)
  <2>1. Has(Tail(s), k) => Has(s, k)
    BY <1>4 DEF Has
  <2>2. ASSUME Has(s, k) PROVE Has(Tail(s), k)
    <3>1. PICK i \in DOMAIN s : s[i].op = k
      BY <2>2 DEF Has
    <3>2. i - 1 \in DOMAIN Tail(s) /\ Tail(s)[i - 1].op = k
      BY <1>1, <1>3, <1>7, <3>1
    <3> QED BY <3>2 DEF Has
  <2> QED BY <2>1, <2>2
<1>8. \A k : OneOp(s, k) => OneOp(Tail(s), k)
  BY <1>1, <1>2, <1>4 DEF OneOp
<1>9. OneOp(s, Head(s).op) => ~Has(Tail(s), Head(s).op)
  BY <1>1, <1>2, <1>4 DEF OneOp, Has
<1> QED BY <1>1, <1>5, <1>6, <1>7, <1>8, <1>9

LEMMA HasAppend ==
  ASSUME NEW s \in Seq(Datagram), NEW m \in Datagram
  PROVE  /\ Append(s, m) \in Seq(Datagram)
         /\ \A v : v \in Range(Append(s, m)) <=> v = m \/ v \in Range(s)
         /\ \A v : Once(s, v) /\ (v = m => v \notin Range(s)) => Once(Append(s, m), v)
         /\ \A k : Has(Append(s, m), k) <=> k = m.op \/ Has(s, k)
         /\ \A k : OneOp(s, k) /\ (k = m.op => ~Has(s, k)) => OneOp(Append(s, m), k)
<1>1. /\ Append(s, m) \in Seq(Datagram) /\ Len(s) \in Nat
      /\ DOMAIN s = 1 .. Len(s) /\ DOMAIN Append(s, m) = 1 .. Len(s) + 1
      /\ \A i \in 1 .. Len(s) : Append(s, m)[i] = s[i]
      /\ Append(s, m)[Len(s) + 1] = m
  OBVIOUS
<1>2. \A i \in DOMAIN Append(s, m) : i \in DOMAIN s \/ i = Len(s) + 1
  BY <1>1
<1>3. \A k : Has(Append(s, m), k) <=> k = m.op \/ Has(s, k)
  BY <1>1, <1>2 DEF Has
<1>4. \A k : OneOp(s, k) /\ (k = m.op => ~Has(s, k)) => OneOp(Append(s, m), k)
  BY <1>1, <1>2 DEF OneOp, Has
<1> QED BY <1>3, <1>4, AppendFacts

-----------------------------------------------------------------------------
(* Types, and who has said its name.                                       *)

LEMMA InitBase == Init => BaseInv
<1> SUFFICES ASSUME Init PROVE BaseInv OBVIOUS
<1>1. RegistryInv
  BY InitRegistry DEF Init
<1>2. DatagramType
  BY BoundsAssumption DEF DatagramType, Init, Ops
<1>3. NameInv
  BY DEF NameInv, Init, RegistryInit, Heard, Signing, Registering, Range, Once
<1> QED BY <1>1, <1>2, <1>3 DEF BaseInv

(* What a client sends goes to the thread of its socket, or is lost.       *)
LEMMA SendToServerFacts ==
  ASSUME BaseInv, NEW c \in Clients, NEW m \in Ops \cup {NAME},
         SendToServer(c, m),
         m = NAME => ~Heard(c) /\ Hello(c) \notin Range(sock[Via[c]])
  PROVE  /\ sock' \in [Acceptors -> Seq(Datagram)]
         /\ lost' \in SUBSET Ops /\ dropped' \in Nat
         /\ \A a \in Acceptors : \A v \in Range(sock'[a]) :
                v \in Range(sock[a]) \/ (v.from = c /\ v.op = m /\ a = Via[c])
         /\ \A d \in Clients : \A a \in Acceptors :
                /\ Hello(d) \in Range(sock'[a]) => ~Heard(d)
                /\ Once(sock'[a], Hello(d))
<1>1. /\ Via[c] \in Acceptors /\ sock \in [Acceptors -> Seq(Datagram)]
      /\ lost \in SUBSET Ops /\ dropped \in Nat
  BY ClientsAssumption DEF BaseInv, DatagramType
<1>2. /\ \A d \in Clients : \A a \in Acceptors :
             /\ Hello(d) \in Range(sock[a]) => ~Heard(d)
             /\ Once(sock[a], Hello(d))
  BY DEF BaseInv, NameInv
<1>3. CASE sock' = sock
  BY <1>1, <1>2, <1>3 DEF SendToServer, LosesOp
<1>4. CASE sock' # sock
  <2>1. PICK v \in Datagram : v = [from |-> c, op |-> m]
    BY DEF Datagram
  <2>2. /\ sock' = [sock EXCEPT ![Via[c]] = Append(@, v)]
        /\ lost' = lost /\ dropped' = dropped
    BY <1>4, <2>1 DEF SendToServer
  <2>3. /\ sock'[Via[c]] = Append(sock[Via[c]], v)
        /\ \A a \in Acceptors : a # Via[c] => sock'[a] = sock[a]
        /\ sock[Via[c]] \in Seq(Datagram)
    BY <1>1, <2>2
  <2>4. /\ Append(sock[Via[c]], v) \in Seq(Datagram)
        /\ \A w : w \in Range(Append(sock[Via[c]], v)) <=> w = v \/ w \in Range(sock[Via[c]])
        /\ \A w : Once(sock[Via[c]], w) /\ (w = v => w \notin Range(sock[Via[c]]))
                      => Once(Append(sock[Via[c]], v), w)
    BY <2>3, HasAppend
  <2>5. sock' \in [Acceptors -> Seq(Datagram)]
    BY <1>1, <2>2, <2>4
  <2>6. \A d \in Clients : Hello(d) = v => m = NAME /\ d = c
    BY <2>1 DEF Hello
  <2>7. \A d \in Clients :
            /\ Hello(d) \in Range(Append(sock[Via[c]], v)) => ~Heard(d)
            /\ Once(Append(sock[Via[c]], v), Hello(d))
    BY <1>1, <1>2, <2>4, <2>6
  <2>8. \A d \in Clients : \A a \in Acceptors :
            /\ Hello(d) \in Range(sock'[a]) => ~Heard(d)
            /\ Once(sock'[a], Hello(d))
    BY <1>2, <2>3, <2>7
  <2> QED BY <1>1, <2>1, <2>2, <2>3, <2>4, <2>5, <2>8
<1> QED BY <1>3, <1>4

LEMMA ClientFrame ==
  ASSUME NEW c \in Clients, Client(c) \/ Interrupted(c)
  PROVE  /\ UNCHANGED <<registry, server, client_adress, dispatch, printed>>
         /\ UNCHANGED <<client_number, client_fd, apc, peer, registered,
                        overlap, mpc, op_number, senttonum>>
         /\ \A d \in Clients : Heard(d)' = Heard(d)
<1>1. UNCHANGED <<registry, server, client_adress, dispatch, printed>>
  BY DEF Client, Interrupted, run_client, run_client_name, Program, SendName,
         Compute, ReadReply, CUnchanged
<1>2. UNCHANGED <<client_number, client_fd, apc, peer, registered, overlap,
                  mpc, op_number, senttonum>>
  BY <1>1 DEF registry, table, acceptors, history, dispatch
<1> QED BY <1>1, <1>2 DEF Heard, Signing, Registering

(* What clients send goes to the threads of their sockets.                 *)
LEMMA ClientSocks ==
  ASSUME BaseInv, NEW c \in Clients, Client(c) \/ Interrupted(c)
  PROVE  /\ sock' \in [Acceptors -> Seq(Datagram)]
         /\ lost' \in SUBSET Ops /\ dropped' \in Nat
         /\ \A a \in Acceptors : \A v \in Range(sock'[a]) :
                v \in Range(sock[a]) \/ (v.from = c /\ a = Via[c])
         /\ \A d \in Clients : \A a \in Acceptors :
                /\ Hello(d) \in Range(sock'[a]) => ~Heard(d)
                /\ Once(sock'[a], Hello(d))
<1>1. CASE SendName(c)
  <2>1. ~Heard(c) /\ \A a \in Acceptors : Hello(c) \notin Range(sock[a])
    BY <1>1 DEF SendName, BaseInv, NameInv, Hello
  <2>2. SendToServer(c, NAME)
    BY <1>1 DEF SendName
  <2>3. Hello(c) \notin Range(sock[Via[c]])
    BY <2>1, ClientsAssumption
  <2>4. PICK m \in Ops \cup {NAME} : m = NAME
    OBVIOUS
  <2>5. SendToServer(c, m)
    BY <2>2, <2>4
  <2> QED BY <2>1, <2>3, <2>5, SendToServerFacts
<1>2. CASE Compute(c)
  <2>1. PICK k \in Ops : SendToServer(c, k)
    BY <1>2 DEF Compute
  <2>2. k # NAME
    BY CodesDiffer
  <2> QED BY <2>1, <2>2, SendToServerFacts
<1>3. CASE ReadReply(c) \/ Interrupted(c)
  <2>1. sock' = sock /\ dropped' = dropped /\ lost' \in SUBSET Ops
    BY <1>3 DEF ReadReply, Interrupted, BaseInv, DatagramType
  <2> QED BY <2>1 DEF BaseInv, NameInv, DatagramType
<1> QED BY <1>1, <1>2, <1>3
        DEF Client, run_client, run_client_name, Program

LEMMA ClientBase ==
  ASSUME BaseInv, NEW c \in Clients, Client(c) \/ Interrupted(c)
  PROVE  BaseInv'
<1>1. /\ UNCHANGED <<registry, server, client_adress, dispatch, printed>>
      /\ UNCHANGED <<client_number, client_fd, apc, peer, registered, overlap,
                     mpc, op_number, senttonum>>
      /\ \A d \in Clients : Heard(d)' = Heard(d)
  BY ClientFrame
<1>2. RegistryInv'
  BY <1>1, StutterKeepsRegistry DEF BaseInv
<1>3. /\ cpc' \in [Clients -> {"silent", "named", "closed"}]
      /\ \A d \in Clients : cpc'[d] = "silent" => cpc[d] = "silent" /\ d # c
  BY DEF Client, Interrupted, run_client, run_client_name, Program, SendName,
         Compute, ReadReply, BaseInv, DatagramType
<1>4. down' \in [Clients -> Seq(Ops \cup Replies)]
  <2>1. down \in [Clients -> Seq(Ops \cup Replies)]
    BY DEF BaseInv, DatagramType
  <2>2. CASE Compute(c) \/ ReadReply(c)
    <3>1. down[c] # <<>> /\ down' = [down EXCEPT ![c] = Tail(@)]
      BY <2>2 DEF Compute, ReadReply
    <3>2. Tail(down[c]) \in Seq(Ops \cup Replies)
      BY <2>1, <3>1, TailFacts
    <3> QED BY <2>1, <3>1, <3>2
  <2>3. CASE SendName(c) \/ Interrupted(c)
    <3>1. down' = down \/ down' = [down EXCEPT ![c] = <<>>]
      BY <2>3 DEF SendName, Interrupted
    <3>2. <<>> \in Seq(Ops \cup Replies)
      OBVIOUS
    <3> QED BY <2>1, <3>1, <3>2
  <2> QED BY <2>2, <2>3
          DEF Client, run_client, run_client_name, Program
<1>5. /\ sock' \in [Acceptors -> Seq(Datagram)]
      /\ lost' \in SUBSET Ops /\ dropped' \in Nat
      /\ \A a \in Acceptors : \A v \in Range(sock'[a]) :
             v \in Range(sock[a]) \/ (v.from = c /\ a = Via[c])
      /\ \A d \in Clients : \A a \in Acceptors :
             /\ Hello(d) \in Range(sock'[a]) => ~Heard(d)
             /\ Once(sock'[a], Hello(d))
  BY ClientSocks
<1>6. DatagramType'
  BY <1>1, <1>3, <1>4, <1>5 DEF BaseInv, DatagramType
<1>7. NameInv'
  BY <1>1, <1>3, <1>5 DEF BaseInv, NameInv
<1> QED BY <1>2, <1>6, <1>7 DEF BaseInv

(* A name is looked at once, and an answer changes nothing of the table.   *)
LEMMA RecvFromBase ==
  ASSUME BaseInv, NEW a \in Acceptors, RecvFrom(a)
  PROVE  BaseInv'
<1>1. /\ sock[a] # <<>> /\ sock[a] \in Seq(Datagram)
      /\ sock \in [Acceptors -> Seq(Datagram)]
  BY DEF RecvFrom, BaseInv, DatagramType
<1>2. PICK v \in Datagram : v = Head(sock[a])
  BY <1>1, HasTail
<1>3. /\ apc[a] = "wait"
      /\ apc' = [apc EXCEPT ![a] = IF v.op = NAME THEN "scan" ELSE "wait"]
      /\ peer' = [peer EXCEPT ![a] = v.from]
      /\ sock' = [sock EXCEPT ![a] = Tail(@)]
      /\ printed' = IF v.op = NAME THEN printed
                                   ELSE [printed EXCEPT ![v.op] = @ + 1]
      /\ UNCHANGED <<table, buf, loaded, history, registered, client_adress,
                     down, lost, dropped, server, cpc, dispatch>>
  BY <1>2 DEF RecvFrom, AStep, AUnchanged, history
<1>4. /\ v \in Range(sock[a]) /\ Tail(sock[a]) \in Seq(Datagram)
      /\ Range(Tail(sock[a])) \subseteq Range(sock[a])
      /\ \A w : Once(sock[a], w) => Once(Tail(sock[a]), w)
      /\ Once(sock[a], v) => v \notin Range(Tail(sock[a]))
  BY <1>1, <1>2, HasTail, TailFacts
<1>5. /\ v.from \in Clients /\ v.op \in Ops \cup {NAME}
      /\ v.op = NAME => v = Hello(v.from)
      /\ Via[v.from] = a
  BY <1>4 DEF Datagram, Hello, BaseInv, NameInv
<1>6. v.op = NAME => ~Heard(v.from) /\ v.from \notin registered
  BY <1>4, <1>5 DEF BaseInv, NameInv, Heard
<1>7. RegistryInv'
  <2>1. PICK to \in {"wait", "scan"} :
            to = (IF v.op = NAME THEN "scan" ELSE "wait")
    OBVIOUS
  <2>2. apc' = [apc EXCEPT ![a] = to] /\ (to # "wait" => v.from \in Clients \ registered)
    BY <1>3, <1>5, <1>6, <2>1
  <2> QED BY <1>3, <1>5, <2>2, OutsideKeepsRegistry DEF BaseInv
<1>8. DatagramType'
  BY <1>1, <1>3, <1>4, <1>5 DEF BaseInv, DatagramType, dispatch
<1>9. /\ sock'[a] = Tail(sock[a])
      /\ \A b \in Acceptors : b # a => sock'[b] = sock[b]
      /\ peer'[a] = v.from /\ \A b \in Acceptors : b # a => peer'[b] = peer[b]
      /\ \A b \in Acceptors : b # a => apc'[b] = apc[b]
  BY <1>1, <1>3 DEF BaseInv, RegistryInv, RegistryType
<1>10. \A d \in Clients : Heard(d)' => Heard(d) \/ (v.op = NAME /\ d = v.from)
  <2>1. Signing' = IF v.op = NAME THEN Signing \cup {a} ELSE Signing
    BY <1>3 DEF Signing, Registering, BaseInv, RegistryInv, RegistryType
  <2>2. a \notin Signing
    BY <1>3 DEF Signing, Registering
  <2> QED BY <1>3, <1>9, <2>1, <2>2 DEF Heard
<1>11. \A d \in Clients : \A b \in Acceptors :
          /\ Hello(d) \in Range(sock'[b]) => ~Heard(d)'
          /\ Once(sock'[b], Hello(d))
  <2> SUFFICES ASSUME NEW d \in Clients, NEW b \in Acceptors
               PROVE  /\ Hello(d) \in Range(sock'[b]) => ~Heard(d)'
                      /\ Once(sock'[b], Hello(d))
    OBVIOUS
  <2>1. /\ Hello(d) \in Range(sock[b]) => ~Heard(d) /\ Via[d] = b
        /\ Once(sock[b], Hello(d))
    BY DEF BaseInv, NameInv, Hello
  <2>2. CASE b = a
    <3>1. v.op = NAME /\ d = v.from => Hello(d) \notin Range(Tail(sock[a]))
      BY <1>4, <1>5, <2>1, <2>2
    <3> QED BY <1>4, <1>9, <1>10, <2>1, <2>2, <3>1
  <2>3. CASE b # a
    BY <1>5, <1>9, <1>10, <2>1, <2>3
  <2> QED BY <2>2, <2>3
<1>12. \A d \in Clients : cpc'[d] = "silent" =>
           /\ ~Heard(d)'
           /\ \A b \in Acceptors : \A m \in Range(sock'[b]) : m.from # d
  BY <1>3, <1>4, <1>9, <1>10 DEF BaseInv, NameInv
<1>13. NameInv'
  BY <1>3, <1>4, <1>5, <1>9, <1>11, <1>12 DEF BaseInv, NameInv
<1> QED BY <1>7, <1>8, <1>13 DEF BaseInv

LEMMA TableStepBase ==
  ASSUME BaseInv, NEW a \in Acceptors, TableStep(a)
  PROVE  BaseInv'
<1>1. UNCHANGED <<server, cpc, dispatch, client_adress, sock, down, printed,
                  lost, dropped, peer>>
  BY DEF TableStep, AUnchanged, Hear, StoreName, StoreFd, LoadNumber,
         StoreNumber
<1>2. RegistryInv'
  BY HearKeepsRegistry, StoreNameKeepsRegistry, StoreFdKeepsRegistry,
     LoadNumberKeepsRegistry, StoreNumberKeepsRegistry DEF TableStep, BaseInv
<1>3. /\ apc[a] \in {"scan", "name", "fd", "load", "store"}
      /\ \A b \in Acceptors : b # a => apc'[b] = apc[b]
      /\ registered' \subseteq registered \cup {peer[a]}
      /\ registered \subseteq registered'
  BY DEF TableStep, Hear, StoreName, StoreFd, LoadNumber, StoreNumber, AStep,
         history, BaseInv, RegistryInv, RegistryType
<1>4. a \in Signing /\ Signing' \subseteq Signing
  BY <1>3 DEF Signing, Registering
<1>5. \A d \in Clients : Heard(d)' => Heard(d)
  BY <1>1, <1>3, <1>4 DEF Heard
<1>6. DatagramType'
  BY <1>1 DEF BaseInv, DatagramType, dispatch
<1>7. \A b \in Acceptors : apc'[b] # "wait" => apc[b] # "wait"
  BY <1>3
<1>8. NameInv'
  BY <1>1, <1>5, <1>7 DEF BaseInv, NameInv
<1> QED BY <1>2, <1>6, <1>8 DEF BaseInv

LEMMA StoreAddressBase ==
  ASSUME BaseInv, NEW a \in Acceptors, StoreAddress(a)
  PROVE  BaseInv'
<1>1. /\ apc[a] = "extra" /\ apc' = [apc EXCEPT ![a] = "load"]
      /\ client_adress' = [client_adress EXCEPT ![client_number] = a]
      /\ UNCHANGED <<table, buf, peer, loaded, history, registered, sock, down,
                     printed, lost, dropped, server, cpc, dispatch>>
  BY DEF StoreAddress, AStep, AUnchanged, history
<1>2. RegistryInv'
  BY <1>1, AdvanceKeepsRegistry DEF BaseInv
<1>3. DatagramType'
  BY <1>1 DEF BaseInv, DatagramType, dispatch
<1>4. \A d \in Clients : Heard(d)' = Heard(d)
  <2>1. Signing' = Signing
    BY <1>1 DEF Signing, Registering, BaseInv, RegistryInv, RegistryType
  <2> QED BY <1>1, <2>1 DEF Heard
<1>5. /\ \A b \in Acceptors : apc'[b] # "wait" => apc[b] # "wait"
      /\ \A i \in Rows : client_adress'[i] \in {client_adress[i], a}
  BY <1>1 DEF BaseInv, RegistryInv, RegistryType, DatagramType
<1>6. NameInv'
  BY <1>1, <1>4, <1>5 DEF BaseInv, NameInv
<1> QED BY <1>2, <1>3, <1>6 DEF BaseInv

(* What is sent to a client does not change the server.                    *)
LEMMA SendToFacts ==
  ASSUME BaseInv, NEW c \in Clients, NEW m \in Ops \cup Replies, SendTo(c, m)
  PROVE  /\ down' \in [Clients -> Seq(Ops \cup Replies)]
         /\ \A d \in Clients : d # c => down'[d] = down[d]
         /\ lost' \in SUBSET Ops /\ dropped' \in Nat
<1>1. /\ down \in [Clients -> Seq(Ops \cup Replies)]
      /\ lost \in SUBSET Ops /\ dropped \in Nat
  BY DEF BaseInv, DatagramType
<1>2. Append(down[c], m) \in Seq(Ops \cup Replies)
  BY <1>1, AppendFacts
<1>3. /\ down' \in [Clients -> Seq(Ops \cup Replies)]
      /\ \A d \in Clients : d # c => down'[d] = down[d]
  BY <1>1, <1>2 DEF SendTo
<1> QED BY <1>1, <1>3 DEF SendTo, LosesOp

LEMMA ReplyBase ==
  ASSUME BaseInv, NEW a \in Acceptors, Reply(a)
  PROVE  BaseInv'
<1>1. /\ apc[a] \in {"accept", "reject"} /\ apc' = [apc EXCEPT ![a] = "wait"]
      /\ \E m \in Replies : SendTo(peer[a], m)
      /\ UNCHANGED <<table, buf, peer, loaded, history, registered,
                     client_adress, sock, printed, server, cpc, dispatch>>
  BY DEF Reply, AStep, AUnchanged, history, Replies
<1>2. peer[a] \in Clients /\ Via[peer[a]] = a
  BY <1>1 DEF BaseInv, NameInv, RegistryInv, PeersInv
<1>3. /\ down' \in [Clients -> Seq(Ops \cup Replies)]
      /\ lost' \in SUBSET Ops /\ dropped' \in Nat
  BY <1>1, <1>2, SendToFacts
<1>4. RegistryInv'
  <2>1. peer' = [peer EXCEPT ![a] = peer[a]]
    BY <1>1 DEF BaseInv, RegistryInv, RegistryType
  <2> QED BY <1>1, <1>2, <2>1, OutsideKeepsRegistry DEF BaseInv
<1>5. DatagramType'
  BY <1>1, <1>3 DEF BaseInv, DatagramType, dispatch
<1>6. \A d \in Clients : Heard(d)' = Heard(d)
  <2>1. Signing' = Signing
    BY <1>1 DEF Signing, Registering, BaseInv, RegistryInv, RegistryType
  <2> QED BY <1>1, <2>1 DEF Heard
<1>7. \A b \in Acceptors : apc'[b] # "wait" => apc[b] # "wait"
  BY <1>1 DEF BaseInv, RegistryInv, RegistryType
<1>8. NameInv'
  BY <1>1, <1>6, <1>7 DEF BaseInv, NameInv
<1> QED BY <1>4, <1>5, <1>8 DEF BaseInv

LEMMA RunOverBase ==
  ASSUME BaseInv, NEW a \in Acceptors, RunOver(a)
  PROVE  BaseInv'
<1>1. /\ UNCHANGED <<registry, client_adress, sockets, dispatch, printed, lost,
                     dropped>>
      /\ server' = "fault"
  BY DEF RunOver
<1>2. RegistryInv'
  BY <1>1, StutterKeepsRegistry DEF BaseInv
<1>3. DatagramType'
  BY <1>1 DEF BaseInv, DatagramType, sockets, dispatch
<1>4. NameInv'
  BY <1>1 DEF BaseInv, NameInv, Heard, Signing, Registering, sockets,
         registry, acceptors, history
<1> QED BY <1>2, <1>3, <1>4 DEF BaseInv

LEMMA ReceiverBase ==
  ASSUME BaseInv, NEW a \in Acceptors, RecvLoop(a)
  PROVE  BaseInv'
  BY RecvFromBase, TableStepBase, StoreAddressBase, ReplyBase, RunOverBase
     DEF RecvLoop

(* Whom main sends to.                                                     *)
LEMMA Addressee ==
  ASSUME BaseInv, SendOperation
  PROVE  /\ op_number \in Ops /\ op_number < MaxOps
         /\ op_number' = op_number + 1
         /\ \/ \E a \in Acceptors : /\ peer[a] \in Clients /\ Via[peer[a]] = a
                                    /\ SendTo(peer[a], op_number)
            \/ /\ lost' = lost \cup {op_number} /\ UNCHANGED <<down, dropped>>
               /\ LET a == client_adress[senttonum]
                  IN  ~(senttonum \in Rows /\ a # Unset
                            /\ a = client_fd[senttonum])
<1>1. op_number \in Ops /\ op_number < MaxOps /\ op_number' = op_number + 1
  BY CodesDiffer DEF SendOperation, BaseInv, DatagramType
<1>2. CASE /\ senttonum \in Rows /\ client_adress[senttonum] # Unset
           /\ client_adress[senttonum] = client_fd[senttonum]
  <2>1. PICK a \in Acceptors : a = client_adress[senttonum]
    BY <1>2 DEF BaseInv, DatagramType
  <2>2. peer[a] \in Clients /\ Via[peer[a]] = a
    BY <1>2, <2>1 DEF BaseInv, NameInv, RegistryInv, PeersInv
  <2> QED BY <1>1, <1>2, <2>1, <2>2 DEF SendOperation
<1>3. CASE ~(/\ senttonum \in Rows /\ client_adress[senttonum] # Unset
             /\ client_adress[senttonum] = client_fd[senttonum])
  BY <1>1, <1>3 DEF SendOperation
<1> QED BY <1>2, <1>3

LEMMA MainBase ==
  ASSUME BaseInv, main
  PROVE  BaseInv'
<1>1. UNCHANGED <<registry, server, client_adress, sock, cpc, printed>>
  BY DEF main, TypeOperation, SendOperation, MUnchanged
<1>2. RegistryInv'
  BY <1>1, StutterKeepsRegistry DEF BaseInv
<1>3. NameInv'
  BY <1>1 DEF BaseInv, NameInv, Heard, Signing, Registering, registry,
         acceptors, history
<1>4. DatagramType'
  <2>1. CASE TypeOperation
    <3>1. op_number \in Nat /\ client_number \in Nat \ {0} /\ op_number < MaxOps
      BY <2>1, BoundsAssumption
         DEF TypeOperation, BaseInv, DatagramType, RegistryInv, RegistryType
    <3>2. op_number % client_number \in Nat
      BY <3>1
    <3> QED BY <1>1, <2>1, <3>1, <3>2
            DEF TypeOperation, BaseInv, DatagramType
  <2>2. CASE SendOperation
    <3>1. op_number \in Ops /\ op_number < MaxOps /\ op_number' = op_number + 1
      BY <2>2, Addressee
    <3>2. /\ down' \in [Clients -> Seq(Ops \cup Replies)]
          /\ lost' \in SUBSET Ops /\ dropped' \in Nat
      <4>1. CASE \E a \in Acceptors : /\ peer[a] \in Clients
                                      /\ SendTo(peer[a], op_number)
        BY <3>1, <4>1, SendToFacts
      <4>2. CASE lost' = lost \cup {op_number} /\ UNCHANGED <<down, dropped>>
        BY <3>1, <4>2 DEF BaseInv, DatagramType
      <4> QED BY <2>2, <4>1, <4>2, Addressee
    <3>3. op_number' \in 0 .. MaxOps
      BY <3>1, CodesDiffer, BoundsAssumption
    <3>4. mpc' = "input" /\ senttonum' = senttonum
      BY <2>2 DEF SendOperation
    <3> QED BY <1>1, <3>2, <3>3, <3>4 DEF BaseInv, DatagramType
  <2> QED BY <2>1, <2>2 DEF main
<1> QED BY <1>2, <1>3, <1>4 DEF BaseInv

LEMMA StutterBase ==
  ASSUME BaseInv, UNCHANGED vars
  PROVE  BaseInv'
<1>1. RegistryInv'
  BY StutterKeepsRegistry DEF BaseInv, vars
<1>2. DatagramType'
  BY DEF BaseInv, DatagramType, vars, sockets, dispatch
<1>3. NameInv'
  BY DEF BaseInv, NameInv, Heard, Signing, Registering, vars, sockets,
         registry, acceptors, history
<1> QED BY <1>1, <1>2, <1>3 DEF BaseInv

LEMMA NextBase == BaseInv /\ [Next]_vars => BaseInv'
  BY ClientBase, ReceiverBase, MainBase, StutterBase
     DEF Next, run_server_ip, run_server_name, Acceptors

-----------------------------------------------------------------------------
(* The silent clients.                                                     *)

Forgotten(c) ==
    /\ c \in registered /\ ~Closed(c)
    /\ down[c] = <<>> /\ peer[Via[c]] # c
    /\ \A m \in Range(sock[Via[c]]) : m.from # c

LEMMA SilentMeans == BaseInv => \A c \in Clients : FallenSilent(c) <=> Forgotten(c)
<1> SUFFICES ASSUME BaseInv, NEW c \in Clients
             PROVE  FallenSilent(c) <=> Forgotten(c)
  OBVIOUS
<1>1. PICK s \in Seq(Datagram) : s = sock[Via[c]]
  BY ClientsAssumption DEF BaseInv, DatagramType
<1>2. DOMAIN s = 1 .. Len(s)
  OBVIOUS
<1> QED BY <1>1, <1>2 DEF FallenSilent, Forgotten, Range

LEMMA SilentMeansPrimed ==
  BaseInv' => (\A c \in Clients : FallenSilent(c) <=> Forgotten(c))'
  BY SilentMeans, PTL

LEMMA ClientSilent ==
  ASSUME BaseInv, NEW c \in Clients, Forgotten(c), ~Closed(c)',
         NEW d \in Clients, Client(d) \/ Interrupted(d)
  PROVE  Forgotten(c)'
<1>1. UNCHANGED <<registered, peer>> /\ Via[c] \in Acceptors
  BY ClientFrame, ClientsAssumption
<1>2. d # c
  <2> SUFFICES ASSUME d = c PROVE FALSE
    OBVIOUS
  <2>1. cpc[c] # "silent" /\ down[c] = <<>>
    BY DEF Forgotten, BaseInv, NameInv, Heard
  <2>2. Interrupted(c)
    BY <2>1 DEF Client, run_client, run_client_name, Program, SendName,
       Compute, ReadReply
  <2> QED BY <2>2 DEF Interrupted, Closed, BaseInv, DatagramType
<1>3. down'[c] = down[c]
  BY <1>2 DEF Client, Interrupted, run_client, run_client_name, Program,
     SendName, Compute, ReadReply, BaseInv, DatagramType
<1>4. \A m \in Range(sock'[Via[c]]) : m.from # c
  BY <1>1, <1>2, ClientSocks DEF Forgotten
<1> QED BY <1>1, <1>3, <1>4 DEF Forgotten

LEMMA ReceiverSilent ==
  ASSUME BaseInv, NEW c \in Clients, Forgotten(c), ~Closed(c)',
         NEW a \in Acceptors, RecvLoop(a)
  PROVE  Forgotten(c)'
<1>1. CASE RecvFrom(a)
  <2>1. /\ UNCHANGED <<registered, down>> /\ Via[c] \in Acceptors
        /\ sock[a] # <<>> /\ sock[a] \in Seq(Datagram)
        /\ sock' = [sock EXCEPT ![a] = Tail(@)]
        /\ peer' = [peer EXCEPT ![a] = Head(sock[a]).from]
        /\ sock \in [Acceptors -> Seq(Datagram)]
        /\ peer \in [Acceptors -> Clients \cup {NoClient}]
    BY <1>1, ClientsAssumption
       DEF RecvFrom, history, BaseInv, DatagramType, RegistryInv, RegistryType
  <2>2. /\ Head(sock[a]) \in Range(sock[a])
        /\ Range(Tail(sock[a])) \subseteq Range(sock[a])
    BY <2>1, HasTail
  <2> QED BY <2>1, <2>2 DEF Forgotten
<1>2. CASE Reply(a)
  <2>1. /\ apc[a] \in {"accept", "reject"}
        /\ \E m \in Replies : SendTo(peer[a], m)
        /\ UNCHANGED <<registered, sock, peer>>
    BY <1>2 DEF Reply, AStep, history, Replies
  <2>2. peer[a] \in Clients /\ Via[peer[a]] = a
    BY <2>1 DEF BaseInv, NameInv, RegistryInv, PeersInv
  <2>3. down'[c] = down[c]
    BY <2>1, <2>2, SendToFacts DEF Forgotten
  <2> QED BY <2>1, <2>3 DEF Forgotten
<1>3. CASE TableStep(a)
  <2>1. UNCHANGED <<sock, down, peer>> /\ registered \subseteq registered'
    BY <1>3 DEF TableStep, Hear, StoreName, StoreFd, LoadNumber, StoreNumber,
       history
  <2> QED BY <2>1 DEF Forgotten
<1>4. CASE StoreAddress(a)
  BY <1>4 DEF StoreAddress, history, Forgotten
<1>5. CASE RunOver(a)
  BY <1>5 DEF RunOver, registry, acceptors, history, sockets, Forgotten
<1> QED BY <1>1, <1>2, <1>3, <1>4, <1>5 DEF RecvLoop

LEMMA MainSilent ==
  ASSUME BaseInv, NEW c \in Clients, Forgotten(c), ~Closed(c)', main
  PROVE  Forgotten(c)'
<1>1. UNCHANGED <<registered, sock, peer>>
  BY DEF main, TypeOperation, SendOperation, MUnchanged, registry, acceptors,
     history
<1>2. down'[c] = down[c]
  <2>1. CASE TypeOperation
    BY <2>1 DEF TypeOperation
  <2>2. CASE SendOperation
    <3>1. op_number \in Ops \cup Replies
      BY <2>2, Addressee
    <3>2. CASE \E a \in Acceptors : /\ peer[a] \in Clients /\ Via[peer[a]] = a
                                    /\ SendTo(peer[a], op_number)
      BY <3>1, <3>2, SendToFacts DEF Forgotten
    <3> QED BY <2>2, <3>2, Addressee
  <2> QED BY <2>1, <2>2 DEF main
<1> QED BY <1>1, <1>2 DEF Forgotten

(* All clients of a socket share one address: one that is registered, has  *)
(* nothing to do and was not the last to speak gets no operation ever      *)
(* again (server.c:104 and 270-272).                                       *)
THEOREM ForgottenForGood == Spec => SilentStaysSilent
<1>1. ASSUME BaseInv, [Next]_vars, NEW c \in Clients, Forgotten(c), ~Closed(c)'
      PROVE  Forgotten(c)'
  <2>1. CASE UNCHANGED vars
    BY <1>1, <2>1 DEF vars, registry, acceptors, history, sockets, Forgotten
  <2> QED BY <1>1, <2>1, ClientSilent, ReceiverSilent, MainSilent
          DEF Next, run_server_ip, run_server_name, Acceptors
<1>2. BaseInv /\ BaseInv' /\ [Next]_vars =>
        [\A c \in Clients : FallenSilent(c) => FallenSilent(c)' \/ Closed(c)']_vars
  <2> SUFFICES ASSUME BaseInv, BaseInv', [Next]_vars, NEW c \in Clients,
                      FallenSilent(c), ~Closed(c)'
               PROVE  FallenSilent(c)'
    OBVIOUS
  <2>1. Forgotten(c)'
    BY <1>1, SilentMeans
  <2> QED BY <2>1, SilentMeansPrimed
<1> QED BY <1>2, InitBase, NextBase, PTL DEF Spec, SilentStaysSilent

-----------------------------------------------------------------------------
(* Each operation in one place.                                            *)

PlaceFact(k) ==
    \A p : p \in PlacesOf(k) <=>
        \/ \E c \in Clients : To(c, k) /\ p = <<"to", c>>
        \/ \E a \in Acceptors : From(a, k) /\ p = <<"from", a>>
        \/ \E i \in 1 .. printed[k] : p = <<"printed", i>>
        \/ k \in lost /\ p = <<"lost", k>>

LEMMA PlaceFacts == BaseInv => \A k \in Ops : PlaceFact(k)
<1> SUFFICES ASSUME BaseInv, NEW k \in Ops
             PROVE  PlaceFact(k)
  OBVIOUS
<1>1. \A a \in Acceptors : DOMAIN sock[a] = 1 .. Len(sock[a])
  BY DEF BaseInv, DatagramType
<1>2. \A a \in Acceptors :
        (\E i \in 1 .. Len(sock[a]) : sock[a][i].op = k) <=> From(a, k)
  BY <1>1 DEF From, Has
<1>3. {a \in Acceptors : \E i \in 1 .. Len(sock[a]) : sock[a][i].op = k}
          = {a \in Acceptors : From(a, k)}
  BY <1>2
<1>4. \A i \in {k} \cap lost : i = k
  OBVIOUS
<1> QED BY <1>3, <1>4 DEF PlaceFact, PlacesOf, To

LEMMA PlaceFactsPrimed == BaseInv' => (\A k \in Ops : PlaceFact(k))'
  BY PlaceFacts, PTL

Nowhere(k) ==
    /\ \A c \in Clients : ~To(c, k)
    /\ \A a \in Acceptors : ~From(a, k)
    /\ printed[k] = 0 /\ k \notin lost

(* An operation that a client or a thread has is nowhere else.             *)
LEMMA SolePlace ==
  ASSUME BaseInv, PlaceInv, NEW k \in Ops
  PROVE  /\ \A c \in Clients : To(c, k) =>
               /\ \A d \in Clients : To(d, k) => d = c
               /\ \A a \in Acceptors : ~From(a, k)
               /\ printed[k] = 0 /\ k \notin lost /\ k < op_number
         /\ \A a \in Acceptors : From(a, k) =>
               /\ \A b \in Acceptors : From(b, k) => b = a
               /\ \A c \in Clients : ~To(c, k)
               /\ printed[k] = 0 /\ k \notin lost /\ k < op_number
         /\ k >= op_number => Nowhere(k)
<1>1. printed[k] \in Nat /\ op_number \in Nat /\ k \in Nat
  BY BoundsAssumption DEF BaseInv, DatagramType, Ops
<1>2. PlaceFact(k)
  BY PlaceFacts
<1>3. \A p, q : p \in PlacesOf(k) /\ q \in PlacesOf(k) => p = q
  <2>1. CASE k < op_number
    <3>1. k \in 0 .. op_number - 1
      BY <1>1, <2>1
    <3> QED BY <3>1 DEF PlaceInv
  <2>2. CASE k >= op_number
    BY <2>2 DEF PlaceInv
  <2> QED BY <1>1, <2>1, <2>2
<1>4. k >= op_number => \A p : p \notin PlacesOf(k)
  BY DEF PlaceInv
<1>5. \A c \in Clients : To(c, k) => <<"to", c>> \in PlacesOf(k)
  BY <1>2 DEF PlaceFact
<1>6. \A a \in Acceptors : From(a, k) => <<"from", a>> \in PlacesOf(k)
  BY <1>2 DEF PlaceFact
<1>7. printed[k] > 0 => <<"printed", 1>> \in PlacesOf(k)
  <2>1. printed[k] > 0 => 1 \in 1 .. printed[k]
    BY <1>1
  <2> QED BY <1>2, <2>1 DEF PlaceFact
<1>8. k \in lost => <<"lost", k>> \in PlacesOf(k)
  BY <1>2 DEF PlaceFact
<1>9. ASSUME NEW c \in Clients, To(c, k)
      PROVE  /\ \A d \in Clients : To(d, k) => d = c
             /\ \A a \in Acceptors : ~From(a, k)
             /\ printed[k] = 0 /\ k \notin lost /\ k < op_number
  <2>1. <<"to", c>> \in PlacesOf(k)
    BY <1>5, <1>9
  <2>2. \A q \in PlacesOf(k) : q = <<"to", c>>
    BY <2>1, <1>3
  <2>3. \A d \in Clients : To(d, k) => d = c
    BY <2>2, <1>5
  <2>4. \A a \in Acceptors : ~From(a, k)
    BY <2>2, <1>6
  <2>5. ~(printed[k] > 0) /\ k \notin lost
    BY <2>2, <1>7, <1>8
  <2>6. ~(k >= op_number)
    BY <2>1, <1>4
  <2> QED BY <1>1, <2>3, <2>4, <2>5, <2>6
<1>10. ASSUME NEW a \in Acceptors, From(a, k)
       PROVE  /\ \A b \in Acceptors : From(b, k) => b = a
              /\ \A c \in Clients : ~To(c, k)
              /\ printed[k] = 0 /\ k \notin lost /\ k < op_number
  <2>1. <<"from", a>> \in PlacesOf(k)
    BY <1>6, <1>10
  <2>2. \A q \in PlacesOf(k) : q = <<"from", a>>
    BY <2>1, <1>3
  <2>3. \A b \in Acceptors : From(b, k) => b = a
    BY <2>2, <1>6
  <2>4. \A c \in Clients : ~To(c, k)
    BY <2>2, <1>5
  <2>5. ~(printed[k] > 0) /\ k \notin lost
    BY <2>2, <1>7, <1>8
  <2>6. ~(k >= op_number)
    BY <2>1, <1>4
  <2> QED BY <1>1, <2>3, <2>4, <2>5, <2>6
<1>11. k >= op_number => Nowhere(k)
  <2> SUFFICES ASSUME k >= op_number PROVE Nowhere(k)
    OBVIOUS
  <2>1. \A p : p \notin PlacesOf(k)
    BY <1>4
  <2>2. ~(printed[k] > 0) /\ k \notin lost
    BY <2>1, <1>7, <1>8
  <2>3. (\A c \in Clients : ~To(c, k)) /\ (\A a \in Acceptors : ~From(a, k))
    BY <2>1, <1>5, <1>6
  <2> QED BY <1>1, <2>2, <2>3 DEF Nowhere
<1> QED BY <1>9, <1>10, <1>11

(* An operation that does not move, and one that comes to a place of its   *)
(* own.                                                                    *)
Stays(k) ==
    /\ \A c \in Clients : To(c, k)' <=> To(c, k)
    /\ \A a \in Acceptors : From(a, k)' <=> From(a, k)
    /\ printed'[k] = printed[k]
    /\ k \in lost' <=> k \in lost

OnlyTo(c, k) ==
    /\ \A d \in Clients : To(d, k) <=> d = c
    /\ \A a \in Acceptors : ~From(a, k)
    /\ printed[k] = 0 /\ k \notin lost

OnlyFrom(a, k) ==
    /\ \A c \in Clients : ~To(c, k)
    /\ \A b \in Acceptors : From(b, k) <=> b = a
    /\ printed[k] = 0 /\ k \notin lost

OnlyPrinted(k) ==
    /\ \A c \in Clients : ~To(c, k)
    /\ \A a \in Acceptors : ~From(a, k)
    /\ printed[k] = 1 /\ k \notin lost

OnlyLost(k) ==
    /\ \A c \in Clients : ~To(c, k)
    /\ \A a \in Acceptors : ~From(a, k)
    /\ printed[k] = 0 /\ k \in lost

Single(k) == \/ \E c \in Clients : OnlyTo(c, k)
             \/ \E a \in Acceptors : OnlyFrom(a, k)
             \/ OnlyPrinted(k) \/ OnlyLost(k)

LEMMA SinglePlace == BaseInv => \A k \in Ops : Single(k) => \E p : PlacesOf(k) = {p}
<1> SUFFICES ASSUME BaseInv, NEW k \in Ops, Single(k)
             PROVE  \E p : PlacesOf(k) = {p}
  OBVIOUS
<1>1. PlaceFact(k)
  BY PlaceFacts
<1>2. ASSUME NEW c \in Clients, OnlyTo(c, k) PROVE PlacesOf(k) = {<<"to", c>>}
  <2>1. \A p : p \in PlacesOf(k) <=> p = <<"to", c>>
    BY <1>1, <1>2 DEF PlaceFact, OnlyTo
  <2> QED BY <2>1
<1>3. ASSUME NEW a \in Acceptors, OnlyFrom(a, k) PROVE PlacesOf(k) = {<<"from", a>>}
  <2>1. \A p : p \in PlacesOf(k) <=> p = <<"from", a>>
    BY <1>1, <1>3 DEF PlaceFact, OnlyFrom
  <2> QED BY <2>1
<1>4. ASSUME OnlyPrinted(k) PROVE PlacesOf(k) = {<<"printed", 1>>}
  <2>1. \A p : p \in PlacesOf(k) <=> p = <<"printed", 1>>
    BY <1>1, <1>4 DEF PlaceFact, OnlyPrinted
  <2> QED BY <2>1
<1>5. ASSUME OnlyLost(k) PROVE PlacesOf(k) = {<<"lost", k>>}
  <2>1. \A p : p \in PlacesOf(k) <=> p = <<"lost", k>>
    BY <1>1, <1>5 DEF PlaceFact, OnlyLost
  <2> QED BY <2>1
<1> QED BY <1>2, <1>3, <1>4, <1>5 DEF Single

LEMMA SinglePlacePrimed ==
  BaseInv' => (\A k \in Ops : Single(k) => \E p : PlacesOf(k) = {p})'
  BY SinglePlace, PTL

LEMMA StaysPut ==
  ASSUME BaseInv, BaseInv', NEW k \in Ops, Stays(k)
  PROVE  PlacesOf(k)' = PlacesOf(k)
<1>1. PlaceFact(k) /\ PlaceFact(k)'
  BY PlaceFacts, PlaceFactsPrimed
<1>2. \A p : p \in PlacesOf(k)' <=> p \in PlacesOf(k)
  BY <1>1 DEF PlaceFact, Stays
<1> QED BY <1>2

LEMMA SentAreOps ==
  ASSUME NEW n \in 0 .. MaxOps
  PROVE  \A k \in 0 .. n - 1 : k \in Ops /\ k < n
  BY BoundsAssumption DEF Ops

(* What a step does to the places: each operation stays where it is, or    *)
(* comes to a place of its own.                                            *)
LEMMA PlacesKept ==
  ASSUME BaseInv, BaseInv', PlaceInv, OnceInv', op_number' >= op_number,
         \A k \in Ops : \/ Stays(k) /\ (k < op_number' => k < op_number)
                        \/ Single(k)' /\ k < op_number'
  PROVE  PlaceInv'
<1>1. /\ op_number \in Nat /\ op_number' \in Nat /\ op_number' <= MaxOps
      /\ MaxOps \in Nat
  BY BoundsAssumption DEF BaseInv, DatagramType
<1>2. \A k \in Ops : k \in Nat
  BY CodesDiffer
<1>3. ASSUME NEW k \in Ops, k < op_number' PROVE \E p : PlacesOf(k)' = {p}
  <2>1. CASE Stays(k) /\ k < op_number
    <3>1. PlacesOf(k)' = PlacesOf(k)
      BY <2>1, StaysPut
    <3>2. k \in 0 .. op_number - 1
      BY <1>1, <1>2, <2>1
    <3> QED BY <3>1, <3>2 DEF PlaceInv
  <2>2. CASE Single(k)'
    BY <2>2, SinglePlacePrimed
  <2> QED BY <1>3, <2>1, <2>2
<1>4. ASSUME NEW k \in Ops, k >= op_number' PROVE PlacesOf(k)' = {}
  <2>1. Stays(k) /\ k >= op_number
    BY <1>1, <1>2, <1>4
  <2> QED BY <2>1, StaysPut DEF PlaceInv
<1>5. \A k \in 0 .. op_number' - 1 : k \in Ops /\ k < op_number'
  <2>1. op_number' \in 0 .. MaxOps
    BY <1>1
  <2> QED BY <2>1, SentAreOps
<1>6. \A k \in 0 .. op_number' - 1 : \E p : PlacesOf(k)' = {p}
  BY <1>3, <1>5
<1> QED BY <1>4, <1>6 DEF PlaceInv

LEMMA SendToServerPlaces ==
  ASSUME BaseInv, OnceInv, NEW c \in Clients, NEW m \in Ops \cup {NAME},
         SendToServer(c, m),
         m \in Ops => \A a \in Acceptors : ~From(a, m)
  PROVE  /\ \A a \in Acceptors : \A k \in Ops : OneOp(sock'[a], k)
         /\ \A k \in Ops : k # m =>
                /\ \A a \in Acceptors : From(a, k)' <=> From(a, k)
                /\ k \in lost' <=> k \in lost
         /\ m \in Ops =>
                \/ /\ \A a \in Acceptors : From(a, m)' <=> a = Via[c]
                   /\ lost' = lost
                \/ /\ \A a \in Acceptors : ~From(a, m)'
                   /\ m \in lost'
<1>1. /\ Via[c] \in Acceptors /\ sock \in [Acceptors -> Seq(Datagram)]
      /\ \A a \in Acceptors : \A k \in Ops : OneOp(sock[a], k)
  BY ClientsAssumption DEF BaseInv, DatagramType, OnceInv
<1>2. CASE sock' = sock /\ lost' = (IF m \in Ops THEN lost \cup {m} ELSE lost)
  BY <1>1, <1>2 DEF From
<1>3. CASE /\ sock' = [sock EXCEPT ![Via[c]] = Append(@, [from |-> c, op |-> m])]
           /\ lost' = lost
  <2>1. PICK v \in Datagram : v = [from |-> c, op |-> m]
    BY DEF Datagram
  <2>2. v.op = m
    BY <2>1
  <2>3. /\ sock'[Via[c]] = Append(sock[Via[c]], v)
        /\ \A a \in Acceptors : a # Via[c] => sock'[a] = sock[a]
        /\ sock[Via[c]] \in Seq(Datagram)
    BY <1>1, <1>3, <2>1
  <2>4. /\ \A k : Has(Append(sock[Via[c]], v), k) <=> k = m \/ Has(sock[Via[c]], k)
        /\ \A k : OneOp(sock[Via[c]], k) /\ (k = m => ~Has(sock[Via[c]], k))
                      => OneOp(Append(sock[Via[c]], v), k)
    BY <2>2, <2>3, HasAppend
  <2>5. m \in Ops => ~Has(sock[Via[c]], m)
    BY <1>1 DEF From
  <2>6. \A k \in Ops : OneOp(Append(sock[Via[c]], v), k)
    BY <1>1, <2>4, <2>5
  <2>7. \A a \in Acceptors : \A k \in Ops : OneOp(sock'[a], k)
    BY <1>1, <2>3, <2>6
  <2>8. \A a \in Acceptors : \A k : From(a, k)' <=> (k = m /\ a = Via[c]) \/ From(a, k)
    BY <2>3, <2>4 DEF From
  <2> QED BY <1>1, <1>3, <2>7, <2>8
<1> QED BY <1>2, <1>3 DEF SendToServer, LosesOp

LEMMA SendToPlaces ==
  ASSUME BaseInv, OnceInv, NEW c \in Clients, NEW m \in Ops \cup Replies,
         SendTo(c, m),
         m \in Ops => \A d \in Clients : ~To(d, m)
  PROVE  /\ \A d \in Clients : \A k \in Ops : Once(down'[d], k)
         /\ \A k \in Ops : k # m =>
                /\ \A d \in Clients : To(d, k)' <=> To(d, k)
                /\ k \in lost' <=> k \in lost
         /\ m \in Ops =>
                \/ /\ \A d \in Clients : To(d, m)' <=> d = c
                   /\ lost' = lost
                \/ /\ \A d \in Clients : ~To(d, m)'
                   /\ m \in lost'
<1>1. /\ down \in [Clients -> Seq(Ops \cup Replies)]
      /\ \A d \in Clients : \A k \in Ops : Once(down[d], k)
  BY DEF BaseInv, DatagramType, OnceInv
<1>2. CASE down' = down /\ lost' = (IF m \in Ops THEN lost \cup {m} ELSE lost)
  BY <1>1, <1>2 DEF To
<1>3. CASE down' = [down EXCEPT ![c] = Append(@, m)] /\ lost' = lost
  <2>1. /\ down'[c] = Append(down[c], m)
        /\ \A d \in Clients : d # c => down'[d] = down[d]
    BY <1>1, <1>3
  <2>2. /\ \A k : k \in Range(Append(down[c], m)) <=> k = m \/ k \in Range(down[c])
        /\ \A k : Once(down[c], k) /\ (k = m => k \notin Range(down[c]))
                      => Once(Append(down[c], m), k)
    BY <1>1, AppendFacts
  <2>3. m \in Ops => m \notin Range(down[c])
    BY DEF To
  <2>4. \A k \in Ops : Once(Append(down[c], m), k)
    BY <1>1, <2>2, <2>3
  <2>5. \A d \in Clients : \A k \in Ops : Once(down'[d], k)
    BY <1>1, <2>1, <2>4
  <2>6. \A d \in Clients : \A k : To(d, k)' <=> (k = m /\ d = c) \/ To(d, k)
    BY <2>1, <2>2 DEF To
  <2> QED BY <1>3, <2>5, <2>6
<1> QED BY <1>2, <1>3 DEF SendTo, LosesOp

(* A step that takes no operation to another place.                        *)
LEMMA NothingMoves ==
  ASSUME BaseInv, BaseInv', PlaceInv, OnceInv',
         UNCHANGED <<op_number, printed>>,
         \A k \in Ops : /\ \A c \in Clients : To(c, k)' <=> To(c, k)
                        /\ \A a \in Acceptors : From(a, k)' <=> From(a, k)
                        /\ k \in lost' <=> k \in lost
  PROVE  PlaceInv'
<1>1. \A k \in Ops : Stays(k)
  BY DEF Stays
<1>2. op_number \in Nat
  BY DEF BaseInv, DatagramType
<1> QED BY <1>1, <1>2, PlacesKept

LEMMA ComputePlaces ==
  ASSUME BaseInv, BaseInv', PlaceInv, NEW c \in Clients, Compute(c)
  PROVE  PlaceInv'
<1>1. PICK k0 \in Ops : k0 = Head(down[c])
  BY DEF Compute
<1>2. /\ down[c] # <<>> /\ down' = [down EXCEPT ![c] = Tail(@)]
      /\ SendToServer(c, k0)
      /\ UNCHANGED <<op_number, printed>>
  BY <1>1 DEF Compute, CUnchanged, dispatch
<1>3. /\ down \in [Clients -> Seq(Ops \cup Replies)] /\ op_number \in Nat
      /\ \A d \in Clients : \A k \in Ops : Once(down[d], k)
      /\ OnceInv
  BY DEF BaseInv, DatagramType, PlaceInv, OnceInv
<1>4. /\ down'[c] = Tail(down[c])
      /\ \A d \in Clients : d # c => down'[d] = down[d]
  BY <1>2, <1>3
<1>5. /\ k0 \in Range(down[c])
      /\ \A k : k # k0 => (k \in Range(Tail(down[c])) <=> k \in Range(down[c]))
      /\ \A k \in Ops : Once(Tail(down[c]), k)
      /\ k0 \notin Range(Tail(down[c]))
  BY <1>1, <1>2, <1>3, TailFacts
<1>6. /\ \A d \in Clients : To(d, k0) => d = c
      /\ \A a \in Acceptors : ~From(a, k0)
      /\ printed[k0] = 0 /\ k0 \notin lost /\ k0 < op_number
  BY <1>5, SolePlace DEF To
<1>7. /\ \A a \in Acceptors : \A k \in Ops : OneOp(sock'[a], k)
      /\ \A k \in Ops : k # k0 =>
             /\ \A a \in Acceptors : From(a, k)' <=> From(a, k)
             /\ k \in lost' <=> k \in lost
      /\ \/ /\ \A a \in Acceptors : From(a, k0)' <=> a = Via[c]
            /\ lost' = lost
         \/ /\ \A a \in Acceptors : ~From(a, k0)'
            /\ k0 \in lost'
  BY <1>2, <1>3, <1>6, SendToServerPlaces
<1>8. OnceInv'
  BY <1>3, <1>4, <1>5, <1>7 DEF OnceInv
<1>9. /\ \A d \in Clients : ~To(d, k0)'
      /\ \A d \in Clients : \A k \in Ops : k # k0 => (To(d, k)' <=> To(d, k))
  BY <1>4, <1>5, <1>6 DEF To
<1>10. Single(k0)'
  BY <1>2, <1>6, <1>7, <1>9, ClientsAssumption
     DEF Single, OnlyFrom, OnlyLost
<1>11. \A k \in Ops : k # k0 => Stays(k)
  BY <1>2, <1>7, <1>9 DEF Stays
<1> QED BY <1>2, <1>3, <1>6, <1>8, <1>10, <1>11, PlacesKept

LEMMA ClientPlaces ==
  ASSUME BaseInv, BaseInv', PlaceInv, NEW c \in Clients,
         Client(c) \/ Interrupted(c)
  PROVE  PlaceInv'
<1>1. UNCHANGED <<op_number, printed>>
  BY ClientFrame
<1>2. /\ down \in [Clients -> Seq(Ops \cup Replies)] /\ op_number \in Nat
      /\ \A d \in Clients : \A k \in Ops : Once(down[d], k)
      /\ \A a \in Acceptors : \A k \in Ops : OneOp(sock[a], k)
      /\ OnceInv
  BY DEF BaseInv, DatagramType, PlaceInv, OnceInv
<1>3. CASE SendName(c)
  <2>1. down' = down /\ SendToServer(c, NAME)
    BY <1>3 DEF SendName
  <2>2. PICK m \in Ops \cup {NAME} : m = NAME /\ m \notin Ops
    BY CodesDiffer
  <2>3. /\ \A a \in Acceptors : \A k \in Ops : OneOp(sock'[a], k)
        /\ \A k \in Ops : /\ \A a \in Acceptors : From(a, k)' <=> From(a, k)
                          /\ k \in lost' <=> k \in lost
    BY <1>2, <2>1, <2>2, SendToServerPlaces
  <2>4. OnceInv'
    BY <1>2, <2>1, <2>3 DEF OnceInv
  <2>5. \A d \in Clients : \A k \in Ops : To(d, k)' <=> To(d, k)
    BY <2>1 DEF To
  <2> QED BY <1>1, <2>3, <2>4, <2>5, NothingMoves
<1>4. CASE ReadReply(c)
  <2>1. /\ down'[c] = Tail(down[c]) /\ UNCHANGED <<sock, lost>>
        /\ down[c] # <<>> /\ Head(down[c]) \notin Ops
        /\ \A d \in Clients : d # c => down'[d] = down[d]
    BY <1>2, <1>4 DEF ReadReply
  <2>2. \A k \in Ops : /\ k \in Range(Tail(down[c])) <=> k \in Range(down[c])
                       /\ Once(Tail(down[c]), k)
    BY <1>2, <2>1, TailFacts
  <2>3. OnceInv'
    BY <1>2, <2>1, <2>2 DEF OnceInv
  <2>4. \A k \in Ops : /\ \A d \in Clients : To(d, k)' <=> To(d, k)
                       /\ \A a \in Acceptors : From(a, k)' <=> From(a, k)
    BY <2>1, <2>2 DEF To, From
  <2> QED BY <1>1, <2>1, <2>3, <2>4, NothingMoves
<1>5. CASE Interrupted(c)
  <2>1. /\ down'[c] = <<>> /\ sock' = sock
        /\ lost' = lost \cup (Range(down[c]) \cap Ops)
        /\ \A d \in Clients : d # c => down'[d] = down[d]
    BY <1>2, <1>5 DEF Interrupted
  <2>2. \A k : k \notin Range(<<>>) /\ Once(<<>>, k)
    BY DEF Range, Once
  <2>3. OnceInv'
    BY <1>2, <2>1, <2>2 DEF OnceInv
  <2>4. \A k \in Ops : /\ \A a \in Acceptors : From(a, k)' <=> From(a, k)
                       /\ \A d \in Clients : To(d, k)' <=> d # c /\ To(d, k)
                       /\ k \in lost' <=> k \in lost \/ To(c, k)
    BY <2>1, <2>2 DEF To, From
  <2>5. \A k \in Ops : ~To(c, k) => Stays(k)
    BY <1>1, <2>4 DEF Stays
  <2>6. ASSUME NEW k \in Ops, To(c, k)
        PROVE  Single(k)' /\ k < op_number'
    <3>1. /\ \A d \in Clients : To(d, k) => d = c
          /\ \A a \in Acceptors : ~From(a, k)
          /\ printed[k] = 0 /\ k < op_number
      BY <2>6, SolePlace
    <3>2. OnlyLost(k)'
      BY <1>1, <2>4, <2>6, <3>1 DEF OnlyLost
    <3> QED BY <1>1, <3>1, <3>2 DEF Single
  <2> QED BY <1>1, <1>2, <2>3, <2>5, <2>6, PlacesKept
<1> QED BY <1>3, <1>4, <1>5, ComputePlaces
        DEF Client, run_client, run_client_name, Program

LEMMA RecvFromPlaces ==
  ASSUME BaseInv, BaseInv', PlaceInv, NEW a \in Acceptors, RecvFrom(a)
  PROVE  PlaceInv'
<1>1. /\ sock[a] # <<>> /\ sock[a] \in Seq(Datagram)
      /\ sock \in [Acceptors -> Seq(Datagram)]
      /\ printed \in [Ops -> Nat] /\ op_number \in Nat
      /\ \A d \in Clients : \A k \in Ops : Once(down[d], k)
      /\ \A b \in Acceptors : \A k \in Ops : OneOp(sock[b], k)
  BY DEF RecvFrom, BaseInv, DatagramType, PlaceInv, OnceInv
<1>2. PICK v \in Datagram : v = Head(sock[a])
  BY <1>1, HasTail
<1>3. /\ sock' = [sock EXCEPT ![a] = Tail(@)]
      /\ printed' = IF v.op = NAME THEN printed
                                   ELSE [printed EXCEPT ![v.op] = @ + 1]
      /\ UNCHANGED <<down, lost, op_number>>
  BY <1>2 DEF RecvFrom, AUnchanged, dispatch
<1>4. /\ sock'[a] = Tail(sock[a])
      /\ \A b \in Acceptors : b # a => sock'[b] = sock[b]
  BY <1>1, <1>3
<1>5. /\ Has(sock[a], v.op)
      /\ \A k : k # v.op => (Has(Tail(sock[a]), k) <=> Has(sock[a], k))
      /\ \A k : OneOp(sock[a], k) => OneOp(Tail(sock[a]), k)
      /\ OneOp(sock[a], v.op) => ~Has(Tail(sock[a]), v.op)
  BY <1>1, <1>2, HasTail
<1>6. OnceInv'
  BY <1>1, <1>3, <1>4, <1>5 DEF OnceInv
<1>7. \A k \in Ops : k # v.op =>
        /\ \A d \in Clients : To(d, k)' <=> To(d, k)
        /\ \A b \in Acceptors : From(b, k)' <=> From(b, k)
        /\ printed'[k] = printed[k]
  BY <1>1, <1>3, <1>4, <1>5 DEF To, From
<1>8. CASE v.op = NAME
  <2>1. \A k \in Ops : k # v.op
    BY <1>8, CodesDiffer
  <2> QED BY <1>3, <1>6, <1>7, <1>8, <2>1, NothingMoves
<1>9. CASE v.op # NAME
  <2>1. PICK k0 \in Ops : k0 = v.op
    BY <1>9 DEF Datagram
  <2>2. From(a, k0)
    BY <1>5, <2>1 DEF From
  <2>3. /\ \A b \in Acceptors : From(b, k0) => b = a
        /\ \A c \in Clients : ~To(c, k0)
        /\ printed[k0] = 0 /\ k0 \notin lost /\ k0 < op_number
    BY <2>2, SolePlace
  <2>4. printed'[k0] = 1
    BY <1>1, <1>3, <1>9, <2>1, <2>3
  <2>5. \A b \in Acceptors : ~From(b, k0)'
    BY <1>1, <1>4, <1>5, <2>1, <2>3 DEF From
  <2>6. OnlyPrinted(k0)'
    BY <1>3, <2>3, <2>4, <2>5 DEF OnlyPrinted, To
  <2>7. \A k \in Ops : k # k0 => Stays(k)
    BY <1>3, <1>7, <2>1 DEF Stays
  <2> QED BY <1>1, <1>3, <1>6, <2>3, <2>6, <2>7, PlacesKept DEF Single
<1> QED BY <1>8, <1>9

LEMMA ReceiverPlaces ==
  ASSUME BaseInv, BaseInv', PlaceInv, NEW a \in Acceptors, RecvLoop(a)
  PROVE  PlaceInv'
<1>1. CASE Reply(a)
  <2>1. PICK m \in Replies : SendTo(peer[a], m)
    BY <1>1 DEF Reply, Replies
  <2>2. /\ UNCHANGED <<op_number, printed, sock>>
        /\ apc[a] \in {"accept", "reject"}
    BY <1>1 DEF Reply, AStep, AUnchanged, dispatch
  <2>3. m \in Ops \cup Replies /\ m \notin Ops /\ peer[a] \in Clients /\ OnceInv
    BY <2>2, CodesDiffer DEF BaseInv, NameInv, PlaceInv
  <2>4. /\ \A d \in Clients : \A k \in Ops : Once(down'[d], k)
        /\ \A k \in Ops : /\ \A d \in Clients : To(d, k)' <=> To(d, k)
                          /\ k \in lost' <=> k \in lost
    BY <2>1, <2>3, SendToPlaces
  <2>5. OnceInv'
    BY <2>2, <2>3, <2>4 DEF OnceInv
  <2>6. \A k \in Ops : \A b \in Acceptors : From(b, k)' <=> From(b, k)
    BY <2>2 DEF From
  <2> QED BY <2>2, <2>4, <2>5, <2>6, NothingMoves
<1>2. CASE TableStep(a) \/ StoreAddress(a) \/ RunOver(a)
  <2>1. UNCHANGED <<op_number, printed, sock, down, lost>>
    BY <1>2 DEF TableStep, StoreAddress, RunOver, AUnchanged, dispatch, sockets
  <2>2. OnceInv'
    BY <2>1 DEF PlaceInv, OnceInv
  <2> QED BY <2>1, <2>2, NothingMoves DEF To, From
<1> QED BY <1>1, <1>2, RecvFromPlaces DEF RecvLoop

(* A new operation goes to one client, or gets lost.                       *)
LEMMA MainPlaces ==
  ASSUME BaseInv, BaseInv', PlaceInv, main
  PROVE  PlaceInv'
<1>1. UNCHANGED <<sock, printed>> /\ op_number \in Nat /\ OnceInv
  BY DEF main, TypeOperation, SendOperation, MUnchanged, BaseInv, DatagramType,
     PlaceInv
<1>2. CASE TypeOperation
  <2>1. UNCHANGED <<op_number, down, lost>>
    BY <1>2 DEF TypeOperation
  <2>2. OnceInv'
    BY <1>1, <2>1 DEF OnceInv
  <2> QED BY <1>1, <2>1, <2>2, NothingMoves DEF To, From
<1>3. CASE SendOperation
  <2>1. PICK k0 \in Ops : k0 = op_number /\ op_number' = k0 + 1
    BY <1>3, Addressee
  <2>2. /\ \A d \in Clients : ~To(d, k0)
        /\ \A a \in Acceptors : ~From(a, k0)
        /\ printed[k0] = 0 /\ k0 \notin lost
    BY <1>1, <2>1, SolePlace DEF Nowhere
  <2>3. /\ \A d \in Clients : \A k \in Ops : Once(down'[d], k)
        /\ \A k \in Ops : k # k0 =>
               /\ \A d \in Clients : To(d, k)' <=> To(d, k)
               /\ k \in lost' <=> k \in lost
        /\ \/ \E c \in Clients : /\ \A d \in Clients : To(d, k0)' <=> d = c
                                 /\ lost' = lost
           \/ /\ \A d \in Clients : ~To(d, k0)'
              /\ k0 \in lost'
    <3>1. CASE \E a \in Acceptors : /\ peer[a] \in Clients /\ Via[peer[a]] = a
                                    /\ SendTo(peer[a], op_number)
      <4>1. PICK c \in Clients : SendTo(c, k0)
        BY <2>1, <3>1
      <4>2. k0 \in Ops \cup Replies
        OBVIOUS
      <4> QED BY <1>1, <2>2, <4>1, <4>2, SendToPlaces
    <3>2. CASE lost' = lost \cup {op_number} /\ UNCHANGED <<down, dropped>>
      BY <1>1, <2>1, <2>2, <3>2 DEF OnceInv, To
    <3> QED BY <1>3, <3>1, <3>2, Addressee
  <2>4. OnceInv'
    BY <1>1, <2>3 DEF OnceInv
  <2>5. \A k \in Ops : \A a \in Acceptors : From(a, k)' <=> From(a, k)
    BY <1>1 DEF From
  <2>6. Single(k0)'
    BY <1>1, <2>2, <2>3, <2>5 DEF Single, OnlyTo, OnlyLost
  <2>7. \A k \in Ops : k # k0 => Stays(k) /\ (k < op_number' => k < op_number)
    <3>1. \A k \in Ops : k \in Nat
      BY CodesDiffer
    <3>2. \A k \in Ops : k # k0 => (k < op_number' => k < op_number)
      BY <1>1, <2>1, <3>1
    <3> QED BY <1>1, <2>3, <2>5, <3>2 DEF Stays
  <2>8. k0 < op_number' /\ op_number' >= op_number
    BY <1>1, <2>1
  <2> QED BY <2>4, <2>6, <2>7, <2>8, PlacesKept
<1> QED BY <1>2, <1>3 DEF main

-----------------------------------------------------------------------------
(* The addresses in the table, and why an operation is lost.               *)

(* A step that leaves the table, and the threads' places in it, alone.     *)
LEMMA AddressFrame ==
  ASSUME AddressInv,
         UNCHANGED <<client_number, client_fd, client_adress>>,
         overlap => overlap',
         \A a \in Acceptors :
             /\ apc'[a] \in {"extra", "load", "store"} => apc[a] \in {"extra", "load", "store"}
             /\ apc'[a] \in {"load", "store"} => apc[a] \in {"load", "store"},
         mpc' = "send" => senttonum' < client_number \/ (mpc = "send" /\ senttonum' = senttonum)
  PROVE  AddressInv'
  BY DEF AddressInv

(* A thread that registers a client while no other does fills one row.     *)
LEMMA TableStepAddress ==
  ASSUME BaseInv, AddressInv, NEW a \in Acceptors, TableStep(a)
  PROVE  AddressInv'
<1>1. /\ apc \in [Acceptors -> RegistryPCs] /\ client_number \in Nat
      /\ client_fd \in [Rows -> Clients \cup Acceptors \cup {NoClient, Unset}]
  BY DEF BaseInv, RegistryInv, RegistryType
<1>2. ~overlap => /\ \A b \in Registering : RowInv(b)
                  /\ \A b, d \in Registering : b = d
  BY DEF BaseInv, RegistryInv, AloneInv
<1>3. UNCHANGED <<client_adress, mpc, senttonum>>
  BY DEF TableStep, AUnchanged, dispatch
<1>4. CASE \/ \E name \in Names : Hear(a, "scan", name)
           \/ StoreName(a) \/ LoadNumber(a)
  <2>1. /\ UNCHANGED <<client_number, client_fd>>
        /\ overlap => overlap'
        /\ \/ \E to \in {"reject", "name", "fd"} : apc' = [apc EXCEPT ![a] = to]
           \/ apc[a] = "load" /\ apc' = [apc EXCEPT ![a] = "store"]
    <3>1. CASE \E name \in Names : Hear(a, "scan", name)
      <4>1. PICK name \in Names : Hear(a, "scan", name)
        BY <3>1
      <4>2. \E to \in {"reject", "name", "fd"} : apc' = [apc EXCEPT ![a] = to]
        BY <4>1 DEF Hear, AStep
      <4> QED BY <4>1, <4>2 DEF Hear, table
    <3>2. CASE StoreName(a)
      BY <3>2 DEF StoreName, AStep, history
    <3>3. CASE LoadNumber(a)
      BY <3>3 DEF LoadNumber, AStep, table, history
    <3> QED BY <1>4, <3>1, <3>2, <3>3
  <2>2. \A b \in Acceptors :
            /\ apc'[b] \in {"extra", "load", "store"} => apc[b] \in {"extra", "load", "store"}
            /\ apc'[b] \in {"load", "store"} => apc[b] \in {"load", "store"}
    BY <1>1, <2>1
  <2> QED BY <1>3, <2>1, <2>2, AddressFrame
<1>5. CASE StoreFd(a, a)
  <2>1. /\ apc[a] = "fd" /\ apc' = [apc EXCEPT ![a] = "extra"]
        /\ client_number < MAX_CLIENTS
        /\ client_fd' = [client_fd EXCEPT ![client_number] = a]
        /\ UNCHANGED <<client_number, overlap>>
    BY <1>5 DEF StoreFd, AStep, history
  <2>2. client_number \in Rows
    BY <1>1, <2>1, RowsAssumption DEF Rows
  <2>3. /\ client_fd'[client_number] = a
        /\ \A i \in 0 .. client_number - 1 : client_fd'[i] = client_fd[i]
    BY <1>1, <2>1, <2>2
  <2>4. ~overlap => \A b \in Acceptors : b # a => apc'[b] \notin {"extra", "load", "store"}
    BY <1>1, <1>2, <2>1 DEF Registering
  <2>5. apc'[a] = "extra"
    BY <1>1, <2>1
  <2> QED BY <1>3, <2>1, <2>3, <2>4, <2>5 DEF AddressInv
<1>6. CASE StoreNumber(a)
  <2>1. /\ apc[a] = "store" /\ apc' = [apc EXCEPT ![a] = "accept"]
        /\ client_number' = loaded[a] + 1
        /\ UNCHANGED <<client_fd, overlap>>
    BY <1>6 DEF StoreNumber, AStep
  <2> SUFFICES ASSUME ~overlap PROVE AddressInv'
    BY <2>1 DEF AddressInv
  <2>2. client_number' = client_number + 1
    BY <1>2, <2>1 DEF Registering, RowInv
  <2>3. client_adress[client_number] = a /\ client_fd[client_number] = a
    BY <2>1 DEF AddressInv
  <2>4. \A i \in 0 .. client_number' - 1 : i = client_number \/ i \in 0 .. client_number - 1
    BY <1>1, <2>2
  <2>5. \A b \in Acceptors : apc'[b] \notin {"extra", "load", "store"}
    BY <1>1, <1>2, <2>1 DEF Registering
  <2>6. mpc = "send" => senttonum < client_number'
    BY <1>1, <2>2 DEF AddressInv, BaseInv, DatagramType
  <2> QED BY <1>3, <2>1, <2>3, <2>4, <2>5, <2>6 DEF AddressInv
<1> QED BY <1>4, <1>5, <1>6 DEF TableStep

LEMMA StoreAddressAddress ==
  ASSUME BaseInv, AddressInv, NEW a \in Acceptors, StoreAddress(a)
  PROVE  AddressInv'
<1>1. /\ apc \in [Acceptors -> RegistryPCs] /\ client_number \in Nat
      /\ client_adress \in [Rows -> Acceptors \cup {Unset}]
  BY DEF BaseInv, RegistryInv, RegistryType, DatagramType
<1>2. ~overlap => \A b, d \in Registering : b = d
  BY DEF BaseInv, RegistryInv, AloneInv
<1>3. /\ apc[a] = "extra" /\ apc' = [apc EXCEPT ![a] = "load"]
      /\ client_number < MAX_CLIENTS
      /\ client_adress' = [client_adress EXCEPT ![client_number] = a]
      /\ UNCHANGED <<client_number, client_fd, overlap, mpc, senttonum>>
  BY DEF StoreAddress, AStep, AUnchanged, table, history, dispatch
<1>4. client_number \in Rows
  BY <1>1, <1>3, RowsAssumption DEF Rows
<1>5. /\ client_adress'[client_number] = a
      /\ \A i \in 0 .. client_number - 1 : client_adress'[i] = client_adress[i]
  BY <1>1, <1>3, <1>4
<1>6. ~overlap => \A b \in Acceptors : b # a => apc'[b] \notin {"extra", "load", "store"}
  BY <1>1, <1>2, <1>3 DEF Registering
<1> QED BY <1>3, <1>5, <1>6 DEF AddressInv

LEMMA AddressKept ==
  ASSUME BaseInv, AddressInv, [Next]_vars
  PROVE  AddressInv'
<1>1. /\ apc \in [Acceptors -> RegistryPCs] /\ client_number \in Nat
  BY DEF BaseInv, RegistryInv, RegistryType
<1>2. ASSUME UNCHANGED <<client_number, client_fd, client_adress, overlap, apc,
                         mpc, senttonum>>
      PROVE  AddressInv'
  BY <1>2 DEF AddressInv
<1>3. ASSUME NEW c \in Clients, Client(c) \/ Interrupted(c)
      PROVE  AddressInv'
  BY <1>2, <1>3, ClientFrame
<1>4. ASSUME NEW a \in Acceptors, RecvFrom(a) \/ Reply(a)
      PROVE  AddressInv'
  <2>1. /\ UNCHANGED <<client_number, client_fd, client_adress, overlap, mpc,
                       senttonum>>
        /\ \E to \in {"wait", "scan"} : apc' = [apc EXCEPT ![a] = to]
    BY <1>4 DEF RecvFrom, Reply, AStep, AUnchanged, table, history, dispatch
  <2> QED BY <1>1, <2>1, AddressFrame
<1>5. ASSUME NEW a \in Acceptors, RunOver(a)
      PROVE  AddressInv'
  BY <1>2, <1>5 DEF RunOver, registry, table, acceptors, history, dispatch
<1>6. ASSUME NEW a \in Acceptors, RecvLoop(a)
      PROVE  AddressInv'
  BY <1>4, <1>5, <1>6, TableStepAddress, StoreAddressAddress DEF RecvLoop
<1>7. CASE TypeOperation
  <2>1. /\ UNCHANGED <<client_number, client_fd, client_adress, overlap, apc>>
        /\ senttonum' = op_number % client_number /\ client_number # 0
    BY <1>7 DEF TypeOperation, MUnchanged, registry, table, acceptors, history
  <2>2. senttonum' < client_number
    BY <1>1, <2>1, BoundsAssumption DEF BaseInv, DatagramType
  <2> QED BY <2>1, <2>2, AddressFrame
<1>8. CASE SendOperation
  <2>1. /\ UNCHANGED <<client_number, client_fd, client_adress, overlap, apc>>
        /\ mpc' = "input"
    BY <1>8 DEF SendOperation, MUnchanged, registry, table, acceptors, history
  <2> QED BY <2>1 DEF AddressInv
<1>9. CASE UNCHANGED vars
  BY <1>2, <1>9 DEF vars, registry, table, acceptors, history, dispatch
<1> QED BY <1>3, <1>6, <1>7, <1>8, <1>9
        DEF Next, main, run_server_ip, run_server_name, Acceptors

(* Nothing of what may have lost an operation is undone.                   *)
LEMMA CausesStay ==
  ASSUME BaseInv, [Next]_vars
  PROVE  /\ dropped' >= dropped /\ (overlap => overlap')
         /\ \A c \in Clients : Closed(c) => Closed(c)'
<1>1. dropped \in Nat /\ cpc \in [Clients -> {"silent", "named", "closed"}]
  BY DEF BaseInv, DatagramType
<1>2. dropped' \in {dropped, dropped + 1}
  BY DEF Next, vars, Client, run_client, run_client_name, Program, SendName,
     Compute, ReadReply, Interrupted, SendToServer, run_server_ip,
     run_server_name, RecvLoop, RecvFrom, TableStep, StoreAddress, Reply,
     RunOver, SendTo, main, TypeOperation, SendOperation
<1>3. overlap => overlap'
  BY DEF Next, vars, Client, run_client, run_client_name, Program, SendName,
     Compute, ReadReply, Interrupted, CUnchanged, run_server_ip,
     run_server_name, RecvLoop, RecvFrom, TableStep, StoreAddress, Reply,
     RunOver, Hear, StoreName, StoreFd, LoadNumber, StoreNumber, main,
     TypeOperation, SendOperation, MUnchanged, registry, history
<1>4. \A c \in Clients : Closed(c) => Closed(c)'
  BY <1>1 DEF Closed, Next, vars, sockets, Client, run_client, run_client_name,
     Program, SendName, Compute, ReadReply, Interrupted, run_server_ip,
     run_server_name, RecvLoop, RecvFrom, TableStep, StoreAddress, Reply,
     RunOver, AUnchanged, main, TypeOperation, SendOperation, MUnchanged
<1> QED BY <1>1, <1>2, <1>3, <1>4

LEMMA LostKept ==
  ASSUME BaseInv, AddressInv, LostInv, [Next]_vars
  PROVE  LostInv'
<1>1. /\ dropped' >= dropped /\ (overlap => overlap')
      /\ \A c \in Clients : Closed(c) => Closed(c)'
      /\ dropped \in Nat
  BY CausesStay DEF BaseInv, DatagramType
<1>2. lost' = lost \/ dropped' = dropped + 1 \/ overlap \/ \E c \in Clients : Closed(c)'
  <2>1. ASSUME NEW c \in Clients, Client(c) \/ Interrupted(c)
        PROVE  lost' = lost \/ dropped' = dropped + 1 \/ Closed(c)'
    BY <2>1 DEF Client, run_client, run_client_name, Program, SendName, Compute,
       ReadReply, Interrupted, SendToServer, Closed, BaseInv, DatagramType
  <2>2. ASSUME NEW c \in Clients, NEW m, SendTo(c, m)
        PROVE  lost' = lost \/ dropped' = dropped + 1 \/ Closed(c)'
    BY <1>1, <2>2 DEF SendTo
  <2>3. ASSUME NEW a \in Acceptors, RecvLoop(a)
        PROVE  lost' = lost \/ dropped' = dropped + 1 \/ \E c \in Clients : Closed(c)'
    <3>1. CASE Reply(a)
      <4>1. peer[a] \in Clients
        BY <3>1 DEF Reply, AStep, BaseInv, NameInv
      <4> QED BY <2>2, <3>1, <4>1 DEF Reply
    <3> QED BY <2>3, <3>1
            DEF RecvLoop, RecvFrom, TableStep, StoreAddress, RunOver
  <2>4. CASE TypeOperation
    BY <2>4 DEF TypeOperation
  <2>5. CASE SendOperation
    <3>1. CASE \E a \in Acceptors : /\ peer[a] \in Clients
                                    /\ SendTo(peer[a], op_number)
      BY <2>2, <3>1
    <3>2. CASE LET a == client_adress[senttonum]
               IN  ~(senttonum \in Rows /\ a # Unset /\ a = client_fd[senttonum])
      <4> SUFFICES ASSUME ~overlap PROVE FALSE
        OBVIOUS
      <4>1. /\ mpc = "send" /\ senttonum \in Nat /\ client_number \in Nat
            /\ client_number <= MAX_CLIENTS
        BY <2>5 DEF SendOperation, BaseInv, DatagramType, RegistryInv,
           RegistryType, AloneInv
      <4>2. senttonum < client_number
        BY <4>1 DEF AddressInv
      <4>3. senttonum \in 0 .. client_number - 1 /\ senttonum \in Rows
        BY <4>1, <4>2, RowsAssumption DEF Rows
      <4> QED BY <3>2, <4>3, ClientsAssumption DEF AddressInv
    <3> QED BY <2>5, <3>1, <3>2, Addressee
  <2>6. CASE UNCHANGED vars
    BY <2>6 DEF vars
  <2> QED BY <2>1, <2>3, <2>4, <2>5, <2>6
          DEF Next, main, run_server_ip, run_server_name, Acceptors
<1>3. dropped' = dropped + 1 => dropped' > 0
  BY <1>1
<1>4. dropped > 0 => dropped' > 0
  BY <1>1, NextBase DEF BaseInv, DatagramType
<1> QED BY <1>1, <1>2, <1>3, <1>4 DEF LostInv

LEMMA PlacesStay ==
  ASSUME BaseInv, PlaceInv, [Next]_vars
  PROVE  PlaceInv'
<1>1. BaseInv'
  BY NextBase
<1>2. CASE UNCHANGED vars
  <2>1. UNCHANGED <<op_number, printed, sock, down, lost>>
    BY <1>2 DEF vars, dispatch, sockets
  <2>2. OnceInv'
    BY <2>1 DEF PlaceInv, OnceInv
  <2> QED BY <1>1, <2>1, <2>2, NothingMoves DEF To, From
<1> QED BY <1>1, <1>2, ClientPlaces, ReceiverPlaces, MainPlaces
        DEF Next, run_server_ip, run_server_name, Acceptors

LEMMA InitInv == Init => IInv
<1> SUFFICES ASSUME Init PROVE IInv OBVIOUS
<1>1. BaseInv
  BY InitBase
<1>2. AddressInv
  BY DEF AddressInv, Init, RegistryInit
<1>3. \A k : /\ k \notin Range(<<>>) /\ Once(<<>>, k)
             /\ ~Has(<<>>, k) /\ OneOp(<<>>, k)
  BY DEF Range, Once, Has, OneOp
<1>4. PlaceInv
  <2>1. OnceInv
    BY <1>3 DEF OnceInv, Init
  <2>2. op_number = 0
    BY DEF Init
  <2>3. \A k \in Ops : PlacesOf(k) = {}
    <3> SUFFICES ASSUME NEW k \in Ops PROVE PlacesOf(k) = {}
      OBVIOUS
    <3>1. printed[k] = 0 /\ k \notin lost
      BY DEF Init
    <3>2. (\A c \in Clients : ~To(c, k)) /\ (\A a \in Acceptors : ~From(a, k))
      BY <1>3 DEF Init, To, From
    <3>3. PlaceFact(k)
      BY <1>1, PlaceFacts
    <3>4. \A p : p \notin PlacesOf(k)
      BY <3>1, <3>2, <3>3 DEF PlaceFact
    <3> QED BY <3>4
  <2> QED BY <2>1, <2>2, <2>3 DEF PlaceInv
<1>5. LostInv
  BY DEF LostInv, Init
<1> QED BY <1>1, <1>2, <1>4, <1>5 DEF IInv

(* Whatever the threads and the clients do, and whatever UDP loses, the    *)
(* invariant holds.                                                        *)
THEOREM Invariance == Spec => []IInv
<1>1. IInv /\ [Next]_vars => IInv'
  BY NextBase, AddressKept, PlacesStay, LostKept DEF IInv
<1> QED BY <1>1, InitInv, PTL DEF Spec

(* The table of the datagram server: client_number never runs ahead of the *)
(* registrations, and as long as none overlapped every client registered   *)
(* has a row and a name of its own (server.c:91-115 and 160-184).          *)
THEOREM RegistryStaysSound == Spec => []RegistryIsSound
<1>1. IInv => RegistryIsSound
  BY SoundFromInv DEF IInv, BaseInv
<1> QED BY <1>1, Invariance, PTL

(* Each operation sent is with one client, on its way back, printed once,  *)
(* or lost, and only UDP, a client that has left or overlapping            *)
(* registrations lose one (server.c:258-277).                              *)
THEOREM EachInOnePlace == Spec => []OperationsInOnePlace
<1>1. IInv => OperationsInOnePlace
  <2> SUFFICES ASSUME IInv PROVE OperationsInOnePlace
    OBVIOUS
  <2>1. ASSUME NEW k \in 0 .. op_number - 1
        PROVE  Cardinality(PlacesOf(k)) = 1
    <3>1. PICK p : PlacesOf(k) = {p}
      BY DEF IInv, PlaceInv
    <3> QED BY <3>1, FS_Singleton
  <2>2. LostInv
    BY DEF IInv
  <2> QED BY <2>1, <2>2 DEF OperationsInOnePlace, LostInv
<1> QED BY <1>1, Invariance, PTL
=============================================================================

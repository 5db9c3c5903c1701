------------------------ MODULE ClientRegistryProofs ------------------------
(***************************************************************************)
(* Lemmas about ClientRegistry, whatever the sockets around it are: each   *)
(* step of an accepting thread preserves the invariant of the table.       *)
(***************************************************************************)
EXTENDS ClientRegistry, FiniteSetTheorems, SequenceTheorems, TLAPS

(* Facts about queues.                                                     *)
Once(s, k) == \A i, j \in DOMAIN s : s[i] = k /\ s[j] = k => i = j

LEMMA TailFacts ==
  ASSUME NEW S, NEW s \in Seq(S), s # <<>>
  PROVE  /\ Head(s) \in S /\ Tail(s) \in Seq(S)
         /\ Head(s) \in Range(s)
         /\ \A k : k # Head(s) => (k \in Range(Tail(s)) <=> k \in Range(s))
         /\ \A k : Once(s, k) => Once(Tail(s), k)
         /\ Once(s, Head(s)) => Head(s) \notin Range(Tail(s))
<1>1. /\ Head(s) = s[1] /\ Head(s) \in S /\ Tail(s) \in Seq(S) /\ Len(s) > 0
      /\ DOMAIN s = 1 .. Len(s) /\ DOMAIN Tail(s) = 1 .. Len(s) - 1
      /\ \A i \in 1 .. Len(s) - 1 : Tail(s)[i] = s[i + 1]
  BY HeadTailProperties
<1>2. Len(s) \in Nat
  OBVIOUS
<1>3. \A i \in DOMAIN s : i = 1 \/ (i - 1 \in DOMAIN Tail(s) /\ Tail(s)[i - 1] = s[i])
  BY <1>1, <1>2
<1>4. \A i \in DOMAIN Tail(s) : i + 1 \in DOMAIN s /\ i + 1 # 1 /\ Tail(s)[i] = s[i + 1]
  BY <1>1, <1>2
<1>5. Head(s) \in Range(s)
  BY <1>1, <1>2 DEF Range
<1>6. \A k : k # Head(s) => (k \in Range(Tail(s)) <=> k \in Range(s))
  <2> SUFFICES ASSUME NEW k, k # Head(s)
               PROVE  k \in Range(Tail(s)) <=> k \in Range(s)
    OBVIOUS
  <2>1. ASSUME k \in Range(Tail(s)) PROVE k \in Range(s)
    BY <2>1, <1>4 DEF Range
  <2>2. ASSUME k \in Range(s) PROVE k \in Range(Tail(s))
    <3>1. PICK i \in DOMAIN s : s[i] = k
      BY <2>2 DEF Range
    <3>2. i - 1 \in DOMAIN Tail(s) /\ Tail(s)[i - 1] = k
      BY <1>1, <1>3, <3>1
    <3> QED BY <3>2 DEF Range
  <2> QED BY <2>1, <2>2
<1>7. \A k : Once(s, k) => Once(Tail(s), k)
  BY <1>1, <1>2, <1>4 DEF Once
<1>8. Once(s, Head(s)) => Head(s) \notin Range(Tail(s))
  BY <1>1, <1>2, <1>4 DEF Once, Range
<1> QED BY <1>1, <1>5, <1>6, <1>7, <1>8

LEMMA AppendFacts ==
  ASSUME NEW S, NEW s \in Seq(S), NEW m \in S
  PROVE  /\ Append(s, m) \in Seq(S)
         /\ \A k : k \in Range(Append(s, m)) <=> k = m \/ k \in Range(s)
         /\ \A k : Once(s, k) /\ (k = m => k \notin Range(s))
                  => Once(Append(s, m), k)
<1>1. /\ Append(s, m) \in Seq(S) /\ Len(s) \in Nat
      /\ DOMAIN s = 1 .. Len(s) /\ DOMAIN Append(s, m) = 1 .. Len(s) + 1
      /\ \A i \in 1 .. Len(s) : Append(s, m)[i] = s[i]
      /\ Append(s, m)[Len(s) + 1] = m
  OBVIOUS
<1>2. \A i \in DOMAIN Append(s, m) : i \in DOMAIN s \/ i = Len(s) + 1
  BY <1>1
<1>3. \A k : k \in Range(Append(s, m)) <=> k = m \/ k \in Range(s)
  BY <1>1, <1>2 DEF Range
<1>4. \A k : Once(s, k) /\ (k = m => k \notin Range(s))
               => Once(Append(s, m), k)
  BY <1>1, <1>2 DEF Once, Range
<1> QED BY <1>1, <1>3, <1>4

(* The table.                                                              *)

RegistryPCs == {"wait", "recv", "scan", "reject", "name", "fd", "extra",
                "watch", "load", "store", "accept"}

RegistryType ==
    /\ client_number \in Nat
    /\ client_name \in [Rows -> Names \cup {Unset}]
    /\ client_fd \in [Rows -> Clients \cup Acceptors \cup {NoClient, Unset}]
    /\ apc \in [Acceptors -> RegistryPCs]
    /\ buf \in [Acceptors -> Names \cup {Unset}]
    /\ peer \in [Acceptors -> Clients \cup {NoClient}]
    /\ loaded \in [Acceptors -> Nat]
    /\ overlap \in BOOLEAN
    /\ registered \in SUBSET Clients

(* The threads that have a client who is not registered yet.  Each socket  *)
(* has clients of its own, so two threads never have the same.             *)
Signing == Registering \cup {a \in Acceptors : apc[a] \in {"recv", "scan"}}

PeersInv ==
    /\ \A a \in Signing : peer[a] \in Clients \ registered
    /\ \A a \in Acceptors : peer[a] \in Clients => Via[peer[a]] = a

(* What holds whatever the threads do to each other.                       *)
CountInv ==
    /\ client_number <= Cardinality(registered)
    /\ \A a \in Acceptors : loaded[a] <= Cardinality(registered)

(* The rows in use, and the row that a registration is filling.            *)
Filled(i) == client_fd[i] # Unset

RowInv(a) ==
    /\ \A i \in 0 .. client_number - 1 : client_name[i] # buf[a]
    /\ apc[a] # "name" => client_number \in Rows
                          /\ client_name[client_number] = buf[a]
    /\ apc[a] \notin {"name", "fd"} => Filled(client_number)
    /\ apc[a] = "store" => loaded[a] = client_number

AloneInv ==
    ~overlap =>
        /\ client_number = Cardinality(registered)
        /\ client_number <= MAX_CLIENTS
        /\ \A a, b \in Registering : a = b
        /\ \A a \in Registering : RowInv(a)
        /\ \A i \in 0 .. client_number - 1 : Filled(i)
        /\ \A i, j \in 0 .. client_number - 1 :
               client_name[i] = client_name[j] => i = j

RegistryInv == RegistryType /\ PeersInv /\ CountInv /\ AloneInv

LEMMA FiniteRegistered ==
  ASSUME RegistryType
  PROVE  IsFiniteSet(registered) /\ Cardinality(registered) \in Nat
  BY ClientsAssumption, FS_Subset, FS_CardinalityType DEF RegistryType

LEMMA InitRegistry == RegistryInit => RegistryInv
<1> SUFFICES ASSUME RegistryInit PROVE RegistryInv OBVIOUS
<1>1. RegistryType
  BY DEF RegistryType, RegistryInit, RegistryPCs
<1>2. PeersInv
  BY ClientsAssumption DEF PeersInv, RegistryInit, Signing, Registering
<1>3. Cardinality(registered) = 0
  BY FS_EmptySet DEF RegistryInit
<1>4. CountInv
  BY <1>3 DEF CountInv, RegistryInit
<1>5. AloneInv
  BY <1>3, RowsAssumption DEF AloneInv, RegistryInit, Registering
<1> QED BY <1>1, <1>2, <1>4, <1>5 DEF RegistryInv

(* The scan for a name.                                                    *)
LEMMA HearKeepsRegistry ==
  ASSUME RegistryInv, NEW a \in Acceptors, NEW name \in Names \cup {Unset},
         NEW from \in {"recv", "scan"}, Hear(a, from, name)
  PROVE  RegistryInv'
<1>1. /\ apc[a] = from
      /\ apc' = [apc EXCEPT ![a] = IF NameTaken(name) THEN "reject" ELSE "name"]
      /\ buf' = [buf EXCEPT ![a] = name]
      /\ overlap' = (overlap \/ Registering # {})
      /\ UNCHANGED <<client_number, client_name, client_fd, peer, loaded,
                     registered>>
  BY DEF Hear, AStep, table
<1>2. RegistryType'
  BY <1>1 DEF RegistryInv, RegistryType, RegistryPCs
<1>3. PeersInv'
  BY <1>1 DEF RegistryInv, RegistryType, PeersInv, Signing, Registering
<1>4. CountInv'
  BY <1>1 DEF RegistryInv, CountInv
<1>5. AloneInv'
  <2> SUFFICES ASSUME ~overlap'
               PROVE  AloneInv'
    BY DEF AloneInv
  <2>1. ~overlap /\ Registering = {}
    BY <1>1 DEF RegistryInv, RegistryType
  <2>2. Registering' \subseteq {a}
    BY <1>1, <2>1 DEF Registering, RegistryInv, RegistryType
  <2>3. a \in Registering' => apc'[a] = "name" /\ ~NameTaken(name)
    BY <1>1 DEF Registering, RegistryInv, RegistryType
  <2>4. buf'[a] = name
    BY <1>1 DEF RegistryInv, RegistryType
  <2>5. \A b \in Registering' : RowInv(b)'
    <3>1. client_number \in Nat /\ client_number <= MAX_CLIENTS
      BY <2>1 DEF RegistryInv, RegistryType, AloneInv
    <3>2. \A i \in 0 .. client_number - 1 : i \in Rows /\ i < client_number
      BY <3>1, RowsAssumption DEF Rows
    <3>3. a \in Registering' => \A i \in 0 .. client_number - 1 : client_name[i] # name
      BY <2>3, <3>2 DEF NameTaken
    <3> QED BY <1>1, <2>2, <2>3, <2>4, <3>3 DEF RowInv
  <2> QED BY <1>1, <2>1, <2>2, <2>5 DEF AloneInv, RegistryInv, Filled
<1> QED BY <1>2, <1>3, <1>4, <1>5 DEF RegistryInv

(* The name goes into the first free row.                                  *)
LEMMA StoreNameKeepsRegistry ==
  ASSUME RegistryInv, NEW a \in Acceptors, StoreName(a)
  PROVE  RegistryInv'
<1>1. /\ apc[a] = "name" /\ apc' = [apc EXCEPT ![a] = "fd"]
      /\ client_number \in Rows
      /\ client_name' = [client_name EXCEPT ![client_number] = buf[a]]
      /\ UNCHANGED <<client_number, client_fd, buf, peer, loaded, overlap,
                     registered>>
  BY RowsAssumption
     DEF StoreName, AStep, history, RegistryInv, RegistryType, Rows
<1>2. RegistryType'
  BY <1>1 DEF RegistryInv, RegistryType, RegistryPCs
<1>3. PeersInv'
  BY <1>1 DEF RegistryInv, RegistryType, PeersInv, Signing, Registering
<1>4. CountInv'
  BY <1>1 DEF RegistryInv, CountInv
<1>5. AloneInv'
  <2> SUFFICES ASSUME ~overlap
               PROVE  AloneInv'
    BY <1>1 DEF AloneInv
  <2>1. Registering = {a} /\ Registering' = {a}
    BY <1>1 DEF Registering, RegistryInv, RegistryType, AloneInv
  <2>2. RowInv(a)
    BY <2>1 DEF RegistryInv, AloneInv
  <2>3. client_name'[client_number] = buf[a] /\ apc'[a] = "fd"
    BY <1>1 DEF RegistryInv, RegistryType
  <2>4. \A i \in 0 .. client_number - 1 : client_name'[i] = client_name[i]
    BY <1>1 DEF RegistryInv, RegistryType, Rows
  <2>5. RowInv(a)'
    BY <1>1, <2>2, <2>3, <2>4 DEF RowInv
  <2> QED BY <1>1, <2>1, <2>4, <2>5 DEF AloneInv, RegistryInv, Filled
<1> QED BY <1>2, <1>3, <1>4, <1>5 DEF RegistryInv

(* The descriptor goes into the same row.                                  *)
LEMMA StoreFdKeepsRegistry ==
  ASSUME RegistryInv, NEW a \in Acceptors, NEW fd \in Clients \cup Acceptors,
         StoreFd(a, fd)
  PROVE  RegistryInv'
<1>1. /\ apc[a] = "fd" /\ apc' = [apc EXCEPT ![a] = "extra"]
      /\ client_number \in Rows
      /\ client_fd' = [client_fd EXCEPT ![client_number] = fd]
      /\ UNCHANGED <<client_number, client_name, buf, peer, loaded, overlap,
                     registered>>
  BY RowsAssumption
     DEF StoreFd, AStep, history, RegistryInv, RegistryType, Rows
<1>2. RegistryType'
  BY <1>1 DEF RegistryInv, RegistryType, RegistryPCs
<1>3. PeersInv'
  BY <1>1 DEF RegistryInv, RegistryType, PeersInv, Signing, Registering
<1>4. CountInv'
  BY <1>1 DEF RegistryInv, CountInv
<1>5. AloneInv'
  <2> SUFFICES ASSUME ~overlap
               PROVE  AloneInv'
    BY <1>1 DEF AloneInv
  <2>1. Registering = {a} /\ Registering' = {a}
    BY <1>1 DEF Registering, RegistryInv, RegistryType, AloneInv
  <2>2. RowInv(a)
    BY <2>1 DEF RegistryInv, AloneInv
  <2>3. \A i \in Rows : Filled(i) => Filled(i)'
    BY <1>1, ClientsAssumption DEF Filled, RegistryInv, RegistryType
  <2>4. Filled(client_number)' /\ apc'[a] = "extra"
    BY <1>1, ClientsAssumption DEF Filled, RegistryInv, RegistryType
  <2>5. RowInv(a)'
    BY <1>1, <2>2, <2>4 DEF RowInv
  <2>6. \A i \in 0 .. client_number - 1 : Filled(i)'
    <3>1. \A i \in 0 .. client_number - 1 : i \in Rows /\ Filled(i)
      BY <1>1, RowsAssumption DEF AloneInv, RegistryInv, RegistryType, Rows
    <3> QED BY <1>1, <2>3, <3>1
  <2> QED BY <1>1, <2>1, <2>5, <2>6 DEF AloneInv, RegistryInv
<1> QED BY <1>2, <1>3, <1>4, <1>5 DEF RegistryInv

(* The first half of client_number++.                                      *)
LEMMA LoadNumberKeepsRegistry ==
  ASSUME RegistryInv, NEW a \in Acceptors, LoadNumber(a)
  PROVE  RegistryInv'
<1>1. /\ apc[a] = "load" /\ apc' = [apc EXCEPT ![a] = "store"]
      /\ loaded' = [loaded EXCEPT ![a] = client_number]
      /\ UNCHANGED <<client_number, client_name, client_fd, buf, peer, overlap,
                     registered>>
  BY DEF LoadNumber, AStep, history, table
<1>2. RegistryType'
  BY <1>1 DEF RegistryInv, RegistryType, RegistryPCs
<1>3. PeersInv'
  BY <1>1 DEF RegistryInv, RegistryType, PeersInv, Signing, Registering
<1>4. CountInv'
  BY <1>1 DEF RegistryInv, RegistryType, CountInv
<1>5. AloneInv'
  <2> SUFFICES ASSUME ~overlap
               PROVE  AloneInv'
    BY <1>1 DEF AloneInv
  <2>1. Registering = {a} /\ Registering' = {a}
    BY <1>1 DEF Registering, RegistryInv, RegistryType, AloneInv
  <2>2. RowInv(a)
    BY <2>1 DEF RegistryInv, AloneInv
  <2>3. loaded'[a] = client_number
    BY <1>1 DEF RegistryInv, RegistryType
  <2>4. RowInv(a)'
    BY <1>1, <2>2, <2>3 DEF RowInv, Filled
  <2> QED BY <1>1, <2>1, <2>4 DEF AloneInv, RegistryInv, Filled
<1> QED BY <1>2, <1>3, <1>4, <1>5 DEF RegistryInv

(* The second half: the client counts as registered.                       *)
LEMMA StoreNumberKeepsRegistry ==
  ASSUME RegistryInv, NEW a \in Acceptors, StoreNumber(a)
  PROVE  RegistryInv'
<1>1. /\ apc[a] = "store" /\ apc' = [apc EXCEPT ![a] = "accept"]
      /\ client_number' = loaded[a] + 1
      /\ loaded' = [loaded EXCEPT ![a] = 0]
      /\ registered' = registered \cup {peer[a]}
      /\ UNCHANGED <<client_name, client_fd, buf, peer, overlap>>
  BY DEF StoreNumber, AStep
<1>2. /\ peer[a] \in Clients \ registered
      /\ \A b \in Signing : b # a => peer[b] # peer[a]
  BY <1>1 DEF RegistryInv, PeersInv, Signing, Registering
<1>3. RegistryType'
  BY <1>1, <1>2 DEF RegistryInv, RegistryType, RegistryPCs
<1>4. /\ Cardinality(registered) \in Nat
      /\ Cardinality(registered') = Cardinality(registered) + 1
  BY <1>1, <1>2, FiniteRegistered, FS_AddElement DEF RegistryInv
<1>5. PeersInv'
  <2>1. Signing' = Signing \ {a}
    BY <1>1 DEF Signing, Registering, RegistryInv, RegistryType
  <2> QED BY <1>1, <1>2, <2>1 DEF RegistryInv, PeersInv
<1>6. CountInv'
  BY <1>1, <1>4 DEF RegistryInv, RegistryType, CountInv
<1>7. AloneInv'
  <2> SUFFICES ASSUME ~overlap
               PROVE  AloneInv'
    BY <1>1 DEF AloneInv
  <2>1. Registering = {a} /\ Registering' = {}
    BY <1>1 DEF Registering, RegistryInv, RegistryType, AloneInv
  <2>2. /\ RowInv(a)
        /\ client_number = Cardinality(registered)
        /\ \A i \in 0 .. client_number - 1 : Filled(i)
        /\ \A i, j \in 0 .. client_number - 1 :
               client_name[i] = client_name[j] => i = j
    BY <2>1 DEF RegistryInv, AloneInv
  <2>3. /\ loaded[a] = client_number /\ Filled(client_number)
        /\ client_number \in Rows
        /\ \A i \in 0 .. client_number - 1 :
               client_name[i] # client_name[client_number]
    BY <1>1, <2>2 DEF RowInv
  <2>4. \A i \in 0 .. client_number' - 1 :
            i \in 0 .. client_number - 1 \/ i = client_number
    BY <1>1, <2>3 DEF RegistryInv, RegistryType
  <2>5. client_number' = Cardinality(registered')
    BY <1>1, <1>4, <2>2, <2>3
  <2>6. client_number' <= MAX_CLIENTS
    BY <1>1, <2>3, RowsAssumption DEF Rows
  <2>7. \A i \in 0 .. client_number' - 1 : Filled(i)'
    BY <1>1, <2>2, <2>3, <2>4 DEF Filled
  <2>8. \A i, j \in 0 .. client_number' - 1 :
            client_name'[i] = client_name'[j] => i = j
    BY <1>1, <2>2, <2>3, <2>4
  <2> QED BY <2>1, <2>5, <2>6, <2>7, <2>8 DEF AloneInv
<1> QED BY <1>3, <1>5, <1>6, <1>7 DEF RegistryInv

(* Between the descriptor and client_number++ a thread leaves the table    *)
(* alone.                                                                  *)
LEMMA AdvanceKeepsRegistry ==
  ASSUME RegistryInv, NEW a \in Acceptors,
         apc[a] \in {"extra", "watch"},
         apc' = [apc EXCEPT ![a] = "watch"] \/ apc' = [apc EXCEPT ![a] = "load"],
         UNCHANGED <<table, buf, peer, loaded, history>>
  PROVE  RegistryInv'
<1>1. RegistryType'
  BY DEF RegistryInv, RegistryType, RegistryPCs, table, history
<1>2. Signing' = Signing /\ Registering' = Registering
  BY DEF Signing, Registering, RegistryInv, RegistryType
<1>3. PeersInv' /\ CountInv'
  BY <1>2 DEF RegistryInv, PeersInv, CountInv, table, history
<1>4. \A b \in Registering : RowInv(b) => RowInv(b)'
  BY DEF Registering, RegistryInv, RegistryType, RowInv, Filled, table
<1>5. AloneInv'
  BY <1>2, <1>4 DEF RegistryInv, AloneInv, Filled, table, history
<1> QED BY <1>1, <1>3, <1>5 DEF RegistryInv

(* A thread that waits, takes the next client or answers one leaves the    *)
(* table alone too.                                                        *)
LEMMA OutsideKeepsRegistry ==
  ASSUME RegistryInv, NEW a \in Acceptors,
         apc[a] \in {"wait", "recv", "reject", "accept"},
         NEW to \in {"wait", "recv", "scan"}, apc' = [apc EXCEPT ![a] = to],
         NEW c \in Clients \cup {NoClient}, peer' = [peer EXCEPT ![a] = c],
         c \in Clients => Via[c] = a,
         to # "wait" => c \in Clients \ registered,
         UNCHANGED <<table, buf, loaded, history>>
  PROVE  RegistryInv'
<1>1. RegistryType'
  BY DEF RegistryInv, RegistryType, RegistryPCs, table, history
<1>2. Registering' = Registering /\ a \notin Registering
  BY DEF Registering, RegistryInv, RegistryType
<1>3. PeersInv'
  BY DEF Signing, Registering, RegistryInv, RegistryType, PeersInv, history
<1>4. CountInv'
  BY DEF RegistryInv, CountInv, table, history
<1>5. \A b \in Registering : RowInv(b) => RowInv(b)'
  BY <1>2 DEF Registering, RegistryInv, RegistryType, RowInv, Filled, table
<1>6. AloneInv'
  BY <1>2, <1>5 DEF RegistryInv, AloneInv, Filled, table, history
<1> QED BY <1>1, <1>3, <1>4, <1>6 DEF RegistryInv

(* Taking a client who hung up out of the table leaves a descriptor in     *)
(* each row that had one.                                                  *)
LEMMA HangUpKeepsRegistry ==
  ASSUME RegistryInv, NEW fd,
         client_fd' = [i \in Rows |-> IF client_fd[i] = fd THEN NoClient
                                                          ELSE client_fd[i]],
         UNCHANGED <<client_number, client_name, acceptors, history>>
  PROVE  RegistryInv'
<1>1. RegistryType'
  BY DEF RegistryInv, RegistryType, acceptors, history
<1>2. PeersInv' /\ CountInv'
  BY DEF RegistryInv, PeersInv, CountInv, Signing, Registering, acceptors,
         history
<1>3. \A i \in Rows : Filled(i) => Filled(i)'
  BY ClientsAssumption DEF Filled
<1>4. ASSUME ~overlap
      PROVE  AloneInv'
  <2>1. \A i \in 0 .. client_number - 1 : i \in Rows
    BY <1>4, RowsAssumption DEF RegistryInv, RegistryType, AloneInv, Rows
  <2>2. \A a \in Registering : RowInv(a) => RowInv(a)'
    BY <1>3 DEF Registering, RowInv, acceptors
  <2> QED BY <1>3, <1>4, <2>1, <2>2
          DEF RegistryInv, AloneInv, Registering, acceptors, history
<1>5. AloneInv'
  BY <1>4 DEF AloneInv, history
<1> QED BY <1>1, <1>2, <1>5 DEF RegistryInv

LEMMA StutterKeepsRegistry ==
  ASSUME RegistryInv, UNCHANGED registry
  PROVE  RegistryInv'
  BY DEF RegistryInv, RegistryType, PeersInv, CountInv, AloneInv, RowInv,
         Filled, Signing, Registering, registry, table, acceptors, history

LEMMA SoundFromInv == RegistryInv => RegistryIsSound
  BY DEF RegistryInv, CountInv, AloneInv, Filled, RegistryIsSound
=============================================================================

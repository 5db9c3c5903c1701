----------------------- MODULE CalculatorStreamProofs -----------------------
(***************************************************************************)
(* Proofs about CalculatorStream, for any clients, names and operations,   *)
(* and any number of clients that leave.                                   *)
(***************************************************************************)
EXTENDS CalculatorStream, ClientRegistryProofs, SequenceTheorems

-----------------------------------------------------------------------------
(* The inductive invariant.                                                *)

Replies == {REGISTERED, NAME_EXISTS}

StreamType ==
    /\ server \in {"up", "sigpipe"}
    /\ cpc \in [Clients -> {"silent", "named", "closed"}]
    /\ accepted \in SUBSET Clients
    /\ up \in [Clients -> Seq(Ops \cup {Nothing})]
    /\ down \in [Clients -> Seq(Ops \cup Replies)]
    /\ reset \in SUBSET Clients
    /\ ev \in [Rows -> Clients \cup {Unset}]
    /\ watched \in [Clients -> Clients \cup {NoClient, Unset}]
    /\ edge \in SUBSET Clients
    /\ epc \in {"wait", "recv", "hup"}
    /\ event \in IF epc = "wait" THEN {NoClient} ELSE Clients
    /\ ebuf \in Ops \cup {Nothing}
    /\ mpc \in {"input", "find", "send"}
    /\ op_number \in Nat /\ x \in Nat
    /\ mpc # "input" => op_number < MaxOps
    /\ printed \in [Ops -> Nat]
    /\ lost \in SUBSET Ops
    /\ asked \in [Clients -> Nat]

(* Nobody has looked at the client's name yet: it is nowhere in the        *)
(* server, and the only message there may be is that name.                 *)
Early(c) == c \notin accepted \/ \E a \in Acceptors : peer[a] = c /\ apc[a] = "recv"

Unknown(c) ==
    /\ \A i \in Rows : client_fd[i] # c /\ ev[i] # c
    /\ watched[c] = NoClient /\ \A d \in Clients : watched[d] # c
    /\ event # c /\ asked[c] = 0

StageInv ==
    /\ registered \subseteq accepted
    /\ \A a \in Acceptors : apc[a] # "wait" => peer[a] \in accepted
    /\ \A i \in Rows : client_fd[i] \in Clients \cup {NoClient, Unset}
    /\ mpc # "input" => client_number > 0
    /\ \A c \in edge : watched[c] # NoClient
    /\ \A c \in Clients :
        /\ cpc[c] = "silent" => Early(c) /\ up[c] = <<>>
        /\ Early(c) => /\ Unknown(c) /\ down[c] = <<>>
                       /\ up[c] \in {<<>>, <<Nothing>>}
        /\ ~Early(c) => up[c] \in Seq(Ops)

(* Each operation is in one place, and there only once.                    *)
To(c, k)   == k \in Range(down[c])
From(c, k) == k \in Range(up[c])
With(c, k) == To(c, k) \/ From(c, k)

PlaceInv ==
    /\ \A c \in Clients : \A k \in Ops : Once(down[c], k) /\ Once(up[c], k)
    /\ \A k \in 0 .. op_number - 1 : \E p : PlacesOf(k) = {p}
    /\ \A k \in Ops : k >= op_number => PlacesOf(k) = {}
    /\ op_number <= MaxOps
    /\ ebuf \in Ops => printed[ebuf] > 0

(* What a client has to do was sent to it.                                 *)
AskedInv ==
    \A c \in Clients : \A k \in Ops : With(c, k) =>
        /\ asked[c] > 0
        /\ asked[c] = 1 => \A l \in Ops : With(c, l) => k = l

(* As long as registrations do not overlap, epoll watches each client      *)
(* under its own descriptor, from before it is registered until it is gone.*)
Watched(c) == c \in registered \/ \E a \in Acceptors :
                                      peer[a] = c /\ apc[a] \in {"load", "store"}

(* The end of the stream, or a reset, is about to be read.                 *)
Dry(c) == event = c /\ up[c] = <<>>

WatchInv ==
    ~overlap =>
        /\ \A c \in Clients : watched[c] \in {c, NoClient}
        /\ \A a \in Acceptors : apc[a] = "watch" => ev[client_number] = peer[a]
        /\ \A a \in Acceptors : apc[a] \in {"extra", "watch", "load", "store"} =>
               client_fd[client_number] \in {peer[a], NoClient}
        /\ \A i \in 0 .. client_number - 1 :
               client_fd[i] \in registered \cup {NoClient}
        /\ \A c \in Clients : Watched(c) => watched[c] = c \/ Closed(c)
        /\ \A c \in Clients : watched[c] = c \/ event = c => Watched(c)
        /\ \A c \in Clients : asked[c] > 0 => c \in registered
        /\ epc = "hup" => Closed(event)
        /\ epc = "recv" => Closed(event) \/ up[event] # <<>>
        /\ \A i \in Rows : client_fd[i] = NoClient => Leavers # {}
        /\ \A c \in Leavers : c \in edge /\ Dry(c) => c \in reset

LostInv == lost # {} /\ ~overlap => Leavers # {}

(* What leavers may still print: one answer at the end of the stream, one  *)
(* after a reset.                                                          *)
Ends   == {c \in Leavers : ~Watched(c) \/ c \in edge \/ Dry(c)}
Resets == {c \in Leavers : c \notin reset \/ (c \in edge /\ Dry(c))}

Tokens == Cardinality(Ends) + Cardinality(Resets)

PrintInv ==
    ~overlap => \A k \in Ops :
                    printed[k] + Tokens <= 1 + 2 * Cardinality(Leavers)

IInv ==
    /\ RegistryInv /\ StreamType /\ StageInv /\ PlaceInv /\ AskedInv
    /\ WatchInv /\ LoneAnswerIsRead /\ LostInv /\ PrintInv

-----------------------------------------------------------------------------
(* Types, and who is where.                                                *)

BaseInv == RegistryInv /\ StreamType /\ StageInv

LEMMA InitBase == Init => BaseInv
<1> SUFFICES ASSUME Init PROVE BaseInv OBVIOUS
<1>1. RegistryInv
  BY InitRegistry DEF Init
<1>2. StreamType
  BY BoundsAssumption DEF StreamType, Init, Ops
<1>3. StageInv
  BY ClientsAssumption DEF StageInv, Init, RegistryInit, Early, Unknown
<1> QED BY <1>1, <1>2, <1>3 DEF BaseInv

(* A client's step leaves the table alone.                                 *)
LEMMA ClientFrame ==
  ASSUME NEW c \in Clients, Client(c) \/ Interrupted(c)
  PROVE  /\ UNCHANGED <<registry, server, accepted, ev, watched, answers,
                        dispatch, lost>>
         /\ \A d \in Clients : Early(d)' = Early(d)
         /\ \A d \in Clients : Unknown(d) => Unknown(d)'
<1>1. UNCHANGED <<registry, server, accepted, ev, watched, answers, dispatch,
                  lost>>
  BY DEF Client, Interrupted, run_client, run_client_name, Program, SendName,
         Compute, ReadReply, CUnchanged
<1> QED BY <1>1 DEF Early, Unknown, registry, table,
                    acceptors, answers, dispatch

LEMMA ClientBase ==
  ASSUME BaseInv, NEW c \in Clients, Client(c) \/ Interrupted(c)
  PROVE  BaseInv'
<1>1. /\ UNCHANGED <<registry, server, accepted, ev, watched, answers,
                     dispatch, lost>>
      /\ \A d \in Clients : Early(d)' = Early(d)
      /\ \A d \in Clients : Unknown(d) => Unknown(d)'
  BY ClientFrame
<1>2. RegistryInv'
  BY <1>1, StutterKeepsRegistry DEF BaseInv
<1>3. /\ edge' \in SUBSET Clients
      /\ \A d \in edge' : watched[d] # NoClient
      /\ reset' \in SUBSET Clients
  BY DEF Client, Interrupted, run_client, run_client_name, Program, SendName,
         Compute, ReadReply, Close, Edge, BaseInv, StageInv, StreamType
<1>4. /\ cpc' \in [Clients -> {"silent", "named", "closed"}]
      /\ \A d \in Clients : cpc'[d] = "silent" => cpc[d] = "silent" /\ d # c
  BY DEF Client, Interrupted, run_client, run_client_name, Program, SendName,
         Compute, ReadReply, Close, BaseInv, StreamType
<1>5. /\ up' \in [Clients -> Seq(Ops \cup {Nothing})]
      /\ down' \in [Clients -> Seq(Ops \cup Replies)]
      /\ \A d \in Clients : d # c => up'[d] = up[d] /\ down'[d] = down[d]
      /\ Early(c) => down'[c] = <<>> /\ up'[c] \in {<<>>, <<Nothing>>}
      /\ ~Early(c) => up'[c] \in Seq(Ops)
  <2>1. CASE SendName(c)
    BY <2>1 DEF SendName, BaseInv, StageInv, StreamType
  <2>2. CASE Compute(c)
    <3>1. /\ down[c] \in Seq(Ops \cup Replies) /\ down[c] # <<>>
          /\ Head(down[c]) \in Ops /\ ~Early(c) /\ up[c] \in Seq(Ops)
      BY <2>2 DEF Compute, BaseInv, StageInv, StreamType
    <3>2. /\ Tail(down[c]) \in Seq(Ops \cup Replies)
          /\ Append(up[c], Head(down[c])) \in Seq(Ops)
          /\ Append(up[c], Head(down[c])) \in Seq(Ops \cup {Nothing})
      BY <3>1, TailFacts
    <3> QED BY <2>2, <3>1, <3>2 DEF Compute, BaseInv, StreamType
  <2>3. CASE ReadReply(c)
    <3>1. /\ down[c] \in Seq(Ops \cup Replies) /\ down[c] # <<>> /\ ~Early(c)
      BY <2>3 DEF ReadReply, BaseInv, StageInv, StreamType
    <3>2. Tail(down[c]) \in Seq(Ops \cup Replies)
      BY <3>1, TailFacts
    <3> QED BY <2>3, <3>1, <3>2 DEF ReadReply, BaseInv, StreamType, StageInv
  <2>4. CASE Interrupted(c)
    BY <2>4 DEF Interrupted, BaseInv, StreamType, StageInv
  <2> QED BY <2>1, <2>2, <2>3, <2>4
          DEF Client, run_client, run_client_name, Program
<1>6. StreamType'
  BY <1>1, <1>3, <1>4, <1>5
     DEF BaseInv, StreamType, answers, dispatch
<1>7. StageInv'
  BY <1>1, <1>3, <1>4, <1>5
     DEF BaseInv, StageInv, registry, table, acceptors, history, dispatch
<1> QED BY <1>2, <1>6, <1>7 DEF BaseInv

(* There is a row for whoever registers.                                   *)
LEMMA RowIsFree ==
  ASSUME RegistryInv
  PROVE  /\ client_number \in 0 .. MAX_CLIENTS
         /\ Signing # {} => client_number \in Rows
<1>1. /\ IsFiniteSet(Clients) /\ Cardinality(Clients) \in Nat
      /\ Cardinality(Clients) <= MAX_CLIENTS /\ MAX_CLIENTS \in Nat
  BY ClientsAssumption, RowsSuffice, RowsAssumption, FS_CardinalityType
<1>2. /\ registered \subseteq Clients /\ client_number \in Nat
      /\ client_number <= Cardinality(registered)
  BY DEF RegistryInv, RegistryType, CountInv
<1>3. Cardinality(registered) \in Nat /\ Cardinality(registered) <= Cardinality(Clients)
  BY <1>1, <1>2, FS_Subset, FS_CardinalityType
<1>4. ASSUME NEW a \in Signing
      PROVE  Cardinality(registered) < Cardinality(Clients)
  <2>1. peer[a] \in Clients \ registered
    BY <1>4 DEF RegistryInv, PeersInv
  <2>2. registered # Clients
    BY <2>1
  <2> QED BY <1>1, <1>2, <1>3, <2>2, FS_Subset
<1> QED BY <1>1, <1>2, <1>3, <1>4 DEF Rows

(* Who is past recv is not early any more.                                 *)
LEMMA PeerIsKnown ==
  ASSUME BaseInv, NEW a \in Acceptors, apc[a] \notin {"wait", "recv"}
  PROVE  peer[a] \in Clients /\ peer[a] \in accepted /\ ~Early(peer[a])
<1>1. peer[a] \in accepted /\ accepted \subseteq Clients
  BY DEF BaseInv, StageInv, StreamType
<1>2. \A b \in Acceptors : peer[b] = peer[a] => b = a
  BY <1>1 DEF BaseInv, RegistryInv, PeersInv
<1> QED BY <1>1, <1>2 DEF Early

(* send changes the client's socket and nothing of the table.              *)
LEMMA SendToFrame ==
  ASSUME BaseInv, NEW c \in Clients, NEW m \in Ops \cup Replies, SendTo(c, m)
  PROVE  /\ server' \in {"up", "sigpipe"}
         /\ down' \in [Clients -> Seq(Ops \cup Replies)]
         /\ \A d \in Clients : d # c => down'[d] = down[d]
         /\ reset' \in SUBSET Clients /\ edge' \in SUBSET Clients
         /\ \A d \in edge' : watched[d] # NoClient
<1>1. down \in [Clients -> Seq(Ops \cup Replies)]
  BY DEF BaseInv, StreamType
<1>2. Append(down[c], m) \in Seq(Ops \cup Replies)
  BY <1>1, AppendFacts
<1>3. /\ down' \in [Clients -> Seq(Ops \cup Replies)]
      /\ \A d \in Clients : d # c => down'[d] = down[d]
  BY <1>1, <1>2 DEF SendTo
<1> QED BY <1>3 DEF SendTo, Edge, BaseInv, StageInv, StreamType

LEMMA AcceptBase ==
  ASSUME BaseInv, NEW a \in Acceptors, Accept(a)
  PROVE  BaseInv'
<1>1. PICK c \in Clients \ accepted :
        /\ apc[a] = "wait" /\ apc' = [apc EXCEPT ![a] = "recv"]
        /\ Via[c] = a /\ accepted' = accepted \cup {c}
        /\ peer' = [peer EXCEPT ![a] = c]
  BY DEF Accept, AStep
<1>2. UNCHANGED <<table, buf, loaded, history, server, cpc, up, down, reset,
                  ev, watched, edge, answers, dispatch, lost>>
  BY DEF Accept, AUnchanged
<1>3. RegistryInv'
  BY <1>1, <1>2, OutsideKeepsRegistry DEF BaseInv, StageInv
<1>4. StreamType'
  BY <1>1, <1>2 DEF BaseInv, StreamType, answers, dispatch
<1>5. \A d \in Clients : Early(d)' = Early(d)
  <2>1. /\ apc \in [Acceptors -> RegistryPCs]
        /\ peer \in [Acceptors -> Clients \cup {NoClient}]
    BY DEF BaseInv, RegistryInv, RegistryType
  <2> QED BY <1>1, <2>1 DEF Early
<1>6. StageInv'
  <2>1. \A b \in Acceptors : b # a => apc'[b] = apc[b] /\ peer'[b] = peer[b]
    BY <1>1 DEF BaseInv, RegistryInv, RegistryType
  <2>2. peer'[a] = c
    BY <1>1 DEF BaseInv, RegistryInv, RegistryType
  <2>3. \A d \in Clients : Unknown(d) => Unknown(d)'
    BY <1>2 DEF Unknown, table, answers, dispatch
  <2> QED BY <1>1, <1>2, <1>5, <2>1, <2>2, <2>3
          DEF BaseInv, StageInv, table, history, dispatch
<1> QED BY <1>3, <1>4, <1>6 DEF BaseInv

LEMMA RecvNameBase ==
  ASSUME BaseInv, NEW a \in Acceptors, RecvName(a)
  PROVE  BaseInv'
<1>1. PICK name \in Names : Hear(a, "recv", name)
  BY DEF RecvName
<1>2. /\ apc[a] = "recv" /\ up[peer[a]] # <<>>
      /\ apc'[a] \in {"name", "reject"}
      /\ \A b \in Acceptors : b # a => apc'[b] = apc[b]
      /\ up' = [up EXCEPT ![peer[a]] = Tail(@)]
  BY <1>1 DEF RecvName, Hear, AStep, BaseInv, RegistryInv, RegistryType
<1>3. UNCHANGED <<table, peer, loaded, registered, server, accepted, cpc, down,
                  reset, ev, edge, watched, answers, dispatch, lost>>
  BY <1>1 DEF RecvName, Hear, AUnchanged
<1>4. RegistryInv'
  BY <1>1, HearKeepsRegistry DEF BaseInv
<1>5. /\ peer[a] \in Clients /\ Early(peer[a]) /\ ~Early(peer[a])'
      /\ up[peer[a]] = <<Nothing>> /\ peer[a] \in accepted
      /\ cpc[peer[a]] # "silent"
  <2>1. a \in Signing
    BY <1>2 DEF Signing
  <2>2. peer[a] \in Clients /\ Early(peer[a]) /\ peer[a] \in accepted
    BY <1>2, <2>1 DEF BaseInv, RegistryInv, PeersInv, StageInv, Early
  <2>3. up[peer[a]] = <<Nothing>> /\ cpc[peer[a]] # "silent"
    BY <1>2, <2>2 DEF BaseInv, StageInv
  <2>4. \A b \in Acceptors : apc'[b] = "recv" => peer[b] # peer[a]
    BY <1>2, <2>1, <2>2 DEF BaseInv, RegistryInv, PeersInv
  <2> QED BY <1>3, <2>2, <2>3, <2>4 DEF Early
<1>6. up'[peer[a]] = <<>> /\ \A d \in Clients : d # peer[a] => up'[d] = up[d]
  BY <1>2, <1>5 DEF BaseInv, StreamType
<1>7. up' \in [Clients -> Seq(Ops \cup {Nothing})]
  BY <1>2, <1>5 DEF BaseInv, StreamType
<1>8. StreamType'
  BY <1>3, <1>7 DEF BaseInv, StreamType, answers, dispatch
<1>9. \A d \in Clients : d # peer[a] => Early(d)' = Early(d)
  BY <1>2, <1>3 DEF Early
<1>10. StageInv'
  <2>1. \A b \in Acceptors : apc'[b] # "wait" => apc[b] # "wait"
    BY <1>2
  <2>2. \A d \in Clients : Unknown(d) => Unknown(d)'
    BY <1>3 DEF Unknown, table, answers, dispatch
  <2>3. <<>> \in Seq(Ops)
    OBVIOUS
  <2>4. \A d \in Clients :
            /\ cpc[d] = "silent" => Early(d)' /\ up'[d] = <<>>
            /\ Early(d)' => /\ Unknown(d)' /\ down[d] = <<>>
                            /\ up'[d] \in {<<>>, <<Nothing>>}
            /\ ~Early(d)' => up'[d] \in Seq(Ops)
    <3> SUFFICES ASSUME NEW d \in Clients
                 PROVE  /\ cpc[d] = "silent" => Early(d)' /\ up'[d] = <<>>
                        /\ Early(d)' => /\ Unknown(d)' /\ down[d] = <<>>
                                        /\ up'[d] \in {<<>>, <<Nothing>>}
                        /\ ~Early(d)' => up'[d] \in Seq(Ops)
      OBVIOUS
    <3>1. CASE d = peer[a]
      <4>1. ~Early(d)'
        BY <3>1, <1>3, <1>5 DEF Early
      <4> QED BY <3>1, <4>1, <1>5, <1>6, <2>3
    <3>2. CASE d # peer[a]
      BY <3>2, <1>6, <1>9, <2>2 DEF BaseInv, StageInv
    <3> QED BY <3>1, <3>2
  <2> QED BY <1>3, <2>1, <2>4 DEF BaseInv, StageInv, table, dispatch
<1> QED BY <1>4, <1>8, <1>10 DEF BaseInv

LEMMA RecvNothingBase ==
  ASSUME BaseInv, NEW a \in Acceptors, RecvNothing(a)
  PROVE  BaseInv'
<1>1. /\ apc[a] = "recv" /\ up[peer[a]] = <<>> /\ cpc[peer[a]] = "closed"
      /\ apc'[a] \in {"name", "reject", "wait"}
      /\ \A b \in Acceptors : b # a => apc'[b] = apc[b]
      /\ UNCHANGED peer
  BY DEF RecvNothing, Closed, Hear, AStep, BaseInv, RegistryInv, RegistryType
<1>2. UNCHANGED <<table, loaded, registered, server, accepted, cpc, up, down,
                  reset, ev, edge, watched, answers, dispatch, lost>>
  BY DEF RecvNothing, Hear, AUnchanged, history
<1>3. a \in Signing
  BY <1>1 DEF Signing
<1>4. /\ peer[a] \in Clients /\ peer[a] \in accepted
      /\ Early(peer[a]) /\ Via[peer[a]] = a
  BY <1>1, <1>3 DEF BaseInv, RegistryInv, PeersInv, StageInv, Early
<1>5. RegistryInv'
  <2>1. CASE Hear(a, "recv", Unset)
    BY <2>1, HearKeepsRegistry DEF BaseInv
  <2>2. CASE /\ AStep(a, "recv", "wait")
             /\ UNCHANGED <<table, buf, peer, loaded, history>>
    <3>1. peer' = [peer EXCEPT ![a] = peer[a]]
      BY <2>2 DEF BaseInv, RegistryInv, RegistryType
    <3> QED BY <2>2, <3>1, <1>4, OutsideKeepsRegistry DEF AStep, BaseInv
  <2> QED BY <2>1, <2>2 DEF RecvNothing
<1>6. StreamType'
  BY <1>2 DEF BaseInv, StreamType, answers, dispatch
<1>7. ~Early(peer[a])' /\ \A d \in Clients : d # peer[a] => Early(d)' = Early(d)
  <2>1. \A b \in Acceptors : apc'[b] = "recv" => peer[b] # peer[a]
    BY <1>1, <1>4 DEF BaseInv, RegistryInv, PeersInv
  <2> QED BY <1>1, <1>2, <1>4, <2>1 DEF Early
<1>8. StageInv'
  <2>1. \A b \in Acceptors : apc'[b] # "wait" => apc[b] # "wait"
    BY <1>1
  <2>2. \A d \in Clients : Unknown(d) => Unknown(d)'
    BY <1>2 DEF Unknown, table, answers, dispatch
  <2>3. <<>> \in Seq(Ops)
    OBVIOUS
  <2> QED BY <1>1, <1>2, <1>4, <1>7, <2>1, <2>2, <2>3
          DEF BaseInv, StageInv, table, dispatch
<1> QED BY <1>5, <1>6, <1>8 DEF BaseInv

LEMMA TableStepBase ==
  ASSUME BaseInv, NEW a \in Acceptors, TableStep(a)
  PROVE  BaseInv'
<1>1. UNCHANGED <<server, accepted, cpc, up, down, reset, ev, edge, watched,
                  answers, dispatch, lost, peer>>
  BY DEF TableStep, AUnchanged, Register, StoreName, StoreFd, LoadNumber,
         StoreNumber
<1>2. /\ apc[a] \in {"name", "fd", "load", "store"}
      /\ apc'[a] \in {"fd", "extra", "store", "accept"}
      /\ \A b \in Acceptors : b # a => apc'[b] = apc[b]
      /\ a \in Signing
  BY DEF TableStep, Register, StoreName, StoreFd, LoadNumber, StoreNumber,
         AStep, Signing, Registering, BaseInv, RegistryInv, RegistryType
<1>3. peer[a] \in Clients /\ ~Early(peer[a]) /\ peer[a] \in accepted
  BY <1>2, PeerIsKnown
<1>4. RegistryInv'
  BY <1>3, StoreNameKeepsRegistry, LoadNumberKeepsRegistry,
     StoreNumberKeepsRegistry, StoreFdKeepsRegistry
     DEF TableStep, Register, BaseInv
<1>5. /\ registered' \subseteq registered \cup {peer[a]}
      /\ client_number' = client_number \/ client_number' > 0
      /\ client_fd' \in [Rows -> Clients \cup {NoClient, Unset}]
      /\ \A i \in Rows : client_fd'[i] \in {client_fd[i], peer[a]}
  BY <1>3 DEF TableStep, Register, StoreName, StoreFd, LoadNumber, StoreNumber,
         BaseInv, RegistryInv, RegistryType, StageInv, history, table
<1>6. StreamType'
  BY <1>1 DEF BaseInv, StreamType, answers, dispatch
<1>7. \A d \in Clients : Early(d)' = Early(d)
  BY <1>1, <1>2 DEF Early
<1>8. StageInv'
  <2>1. \A b \in Acceptors : apc'[b] # "wait" => apc[b] # "wait"
    BY <1>2
  <2>2. \A d \in Clients : Unknown(d) /\ d # peer[a] => Unknown(d)'
    BY <1>1, <1>5 DEF Unknown, answers, dispatch
  <2>3. client_number \in Nat
    BY DEF BaseInv, RegistryInv, RegistryType
  <2> QED BY <1>1, <1>3, <1>5, <1>7, <2>1, <2>2, <2>3
          DEF BaseInv, StageInv, dispatch
<1> QED BY <1>4, <1>6, <1>8 DEF BaseInv

LEMMA StoreEvBase ==
  ASSUME BaseInv, NEW a \in Acceptors, StoreEv(a)
  PROVE  BaseInv'
<1>1. /\ apc[a] = "extra" /\ apc' = [apc EXCEPT ![a] = "watch"]
      /\ ev' = [ev EXCEPT ![client_number] = peer[a]]
      /\ UNCHANGED <<table, buf, peer, loaded, history, server, accepted, cpc,
                     up, down, reset, edge, watched, answers, dispatch, lost>>
  BY DEF StoreEv, AStep, AUnchanged
<1>2. peer[a] \in Clients /\ ~Early(peer[a])
  BY <1>1, PeerIsKnown
<1>3. RegistryInv'
  BY <1>1, AdvanceKeepsRegistry DEF BaseInv
<1>4. StreamType' /\ \A i \in Rows : ev'[i] \in {ev[i], peer[a]}
  BY <1>1, <1>2 DEF BaseInv, StreamType, answers, dispatch
<1>5. \A d \in Clients : Early(d)' = Early(d)
  BY <1>1 DEF Early, BaseInv, RegistryInv, RegistryType
<1>6. StageInv'
  <2>1. \A b \in Acceptors : apc'[b] # "wait" => apc[b] # "wait"
    BY <1>1 DEF BaseInv, RegistryInv, RegistryType
  <2>2. \A d \in Clients : Unknown(d) /\ d # peer[a] => Unknown(d)'
    BY <1>1, <1>4 DEF Unknown, table, answers, dispatch
  <2> QED BY <1>1, <1>2, <1>5, <2>1, <2>2
          DEF BaseInv, StageInv, table, history, dispatch
<1> QED BY <1>3, <1>4, <1>6 DEF BaseInv

LEMMA WatchBase ==
  ASSUME BaseInv, NEW a \in Acceptors, Watch(a)
  PROVE  BaseInv'
<1>1. /\ apc[a] = "watch" /\ apc' = [apc EXCEPT ![a] = "load"]
      /\ watched' = [watched EXCEPT ![peer[a]] = ev[client_number]]
      /\ edge' \in {edge, edge \cup {peer[a]}}
      /\ UNCHANGED <<table, buf, peer, loaded, history, server, accepted, cpc,
                     up, down, reset, ev, answers, dispatch, lost>>
  BY DEF Watch, AStep, clients
<1>2. peer[a] \in Clients /\ ~Early(peer[a])
  BY <1>1, PeerIsKnown
<1>3. ev[client_number] \in Clients \cup {Unset}
  <2>1. a \in Signing
    BY <1>1 DEF Signing, Registering
  <2> QED BY <2>1, RowIsFree DEF BaseInv, StreamType
<1>4. RegistryInv'
  BY <1>1, AdvanceKeepsRegistry DEF BaseInv
<1>5. StreamType'
  BY <1>1, <1>2, <1>3 DEF BaseInv, StreamType, answers, dispatch
<1>6. \A d \in Clients : Early(d)' = Early(d)
  BY <1>1 DEF Early, BaseInv, RegistryInv, RegistryType
<1>7. StageInv'
  <2>1. \A b \in Acceptors : apc'[b] # "wait" => apc[b] # "wait"
    BY <1>1 DEF BaseInv, RegistryInv, RegistryType
  <2>2. \A d \in edge' : watched'[d] # NoClient
    BY <1>1, <1>2, <1>3, ClientsAssumption DEF BaseInv, StageInv, StreamType
  <2>3. ASSUME NEW d \in Clients, Early(d)
        PROVE  Unknown(d)'
    <3>1. Unknown(d) /\ d # peer[a]
      BY <1>2, <2>3 DEF BaseInv, StageInv
    <3>2. ev[client_number] # d
      <4>1. a \in Signing
        BY <1>1 DEF Signing, Registering
      <4> QED BY <3>1, <4>1, RowIsFree DEF Unknown, BaseInv
    <3> QED BY <1>1, <3>1, <3>2
            DEF Unknown, BaseInv, StreamType, table, answers, dispatch
  <2> QED BY <1>1, <1>6, <2>1, <2>2, <2>3
          DEF BaseInv, StageInv, table, history, dispatch
<1> QED BY <1>4, <1>5, <1>7 DEF BaseInv

LEMMA ReplyBase ==
  ASSUME BaseInv, NEW a \in Acceptors, Reply(a)
  PROVE  BaseInv'
<1>0. peer[a] \in Clients /\ ~Early(peer[a])
  BY PeerIsKnown DEF Reply, AStep
<1>1. /\ apc[a] \in {"accept", "reject"} /\ apc' = [apc EXCEPT ![a] = "wait"]
      /\ peer' = [peer EXCEPT ![a] = NoClient]
      /\ UNCHANGED <<table, buf, loaded, history, accepted, up, ev, cpc,
                     watched, answers, dispatch, lost>>
      /\ \E m \in Replies : SendTo(peer[a], m)
  BY DEF Reply, AStep, AUnchanged, Replies
<1>2. /\ server' \in {"up", "sigpipe"}
      /\ down' \in [Clients -> Seq(Ops \cup Replies)]
      /\ \A d \in Clients : d # peer[a] => down'[d] = down[d]
      /\ reset' \in SUBSET Clients /\ edge' \in SUBSET Clients
      /\ \A d \in edge' : watched[d] # NoClient
  BY <1>0, <1>1, SendToFrame
<1>3. RegistryInv'
  BY <1>1, ClientsAssumption, OutsideKeepsRegistry DEF BaseInv
<1>4. StreamType'
  BY <1>1, <1>2 DEF BaseInv, StreamType, answers, dispatch
<1>5. \A d \in Clients : Early(d)' = Early(d)
  BY <1>1, ClientsAssumption DEF Early, BaseInv, RegistryInv, RegistryType
<1>6. StageInv'
  <2>1. \A b \in Acceptors :
            apc'[b] # "wait" => apc[b] # "wait" /\ peer'[b] = peer[b]
    BY <1>1 DEF BaseInv, RegistryInv, RegistryType
  <2>2. \A d \in Clients : Unknown(d) => Unknown(d)'
    BY <1>1 DEF Unknown, table, answers, dispatch
  <2> QED BY <1>0, <1>1, <1>2, <1>5, <2>1, <2>2
          DEF BaseInv, StageInv, table, history, dispatch
<1> QED BY <1>3, <1>4, <1>6 DEF BaseInv

(* epoll reports clients, and none of them is early.                       *)
LEMMA EventIsKnown ==
  ASSUME BaseInv, epc # "wait"
  PROVE  event \in Clients /\ ~Early(event) /\ up[event] \in Seq(Ops)
  BY DEF BaseInv, StreamType, StageInv, Unknown

LEMMA EpollWaitBase ==
  ASSUME BaseInv, EpollWait
  PROVE  BaseInv'
<1>1. PICK c \in edge :
        /\ edge' = edge \ {c}
        /\ IF watched[c] = Unset \/ (up[c] = <<>> /\ ~Closed(c))
           THEN UNCHANGED <<epc, event>>
           ELSE /\ event' = watched[c]
                /\ epc' = IF HangsUp(c) THEN "hup" ELSE "recv"
  BY DEF EpollWait
<1>2. /\ epc = "wait"
      /\ UNCHANGED <<client_number, client_name, client_fd, acceptors, history,
                     server, cpc, up, down, reset, accepted, ev, watched, ebuf,
                     printed, dispatch, lost>>
  BY DEF EpollWait, EUnchanged
<1>3. c \in Clients /\ watched[c] \in Clients \cup {Unset}
  BY DEF BaseInv, StreamType, StageInv
<1>4. RegistryInv'
  BY <1>2, StutterKeepsRegistry DEF BaseInv, registry, table
<1>5. StreamType'
  BY <1>1, <1>2, <1>3 DEF BaseInv, StreamType, dispatch
<1>6. StageInv'
  <2>1. \A d \in Clients : Early(d)' = Early(d)
    BY <1>2 DEF Early, acceptors
  <2>2. \A d \in Clients : Unknown(d) => Unknown(d)'
    BY <1>1, <1>2, <1>3 DEF Unknown, dispatch
  <2> QED BY <1>1, <1>2, <2>1, <2>2
          DEF BaseInv, StageInv, acceptors, history, dispatch
<1> QED BY <1>4, <1>5, <1>6 DEF BaseInv

LEMMA ReceiveFacts ==
  ASSUME BaseInv, epc # "wait", Receive(event)
  PROVE  /\ up' \in [Clients -> Seq(Ops \cup {Nothing})]
         /\ \A d \in Clients : d # event => up'[d] = up[d]
         /\ up'[event] \in Seq(Ops)
         /\ up[event] # <<>> => /\ ebuf' = Head(up[event]) /\ ebuf' \in Ops
                                /\ up'[event] = Tail(up[event])
         /\ up[event] = <<>> => /\ ebuf' = ebuf /\ up' = up /\ Closed(event)
         /\ ebuf' \in Ops \cup {Nothing}
         /\ ebuf' \in Ops => printed' = [printed EXCEPT ![ebuf'] = @ + 1]
         /\ ebuf' \notin Ops => printed' = printed
         /\ printed' \in [Ops -> Nat]
         /\ event' = NoClient
<1>1. event \in Clients /\ up[event] \in Seq(Ops)
  BY EventIsKnown
<1>2. /\ up \in [Clients -> Seq(Ops \cup {Nothing})]
      /\ printed \in [Ops -> Nat] /\ ebuf \in Ops \cup {Nothing}
  BY DEF BaseInv, StreamType
<1>3. up[event] # <<>> => /\ Head(up[event]) \in Ops
                          /\ Tail(up[event]) \in Seq(Ops)
                          /\ Tail(up[event]) \in Seq(Ops \cup {Nothing})
  BY <1>1, <1>2, TailFacts
<1>4. CASE up[event] # <<>>
  BY <1>1, <1>2, <1>3, <1>4 DEF Receive
<1>5. CASE up[event] = <<>>
  <2>1. /\ ebuf' = ebuf /\ up' = up /\ Closed(event) /\ event' = NoClient
        /\ printed' = IF ebuf \in Ops THEN [printed EXCEPT ![ebuf] = @ + 1]
                                      ELSE printed
    BY <1>5 DEF Receive
  <2>2. printed' \in [Ops -> Nat]
    BY <1>2, <2>1
  <2> QED BY <1>1, <1>2, <1>5, <2>1, <2>2
<1> QED BY <1>4, <1>5

LEMMA AnswerBase ==
  ASSUME BaseInv, RecvAnswer \/ Hup
  PROVE  BaseInv'
<1>1. /\ epc # "wait" /\ epc' = "wait" /\ Receive(event)
      /\ UNCHANGED <<client_number, client_name, acceptors, history, server,
                     cpc, down, reset, accepted, ev, dispatch, lost>>
  BY DEF RecvAnswer, Hup, EUnchanged
<1>2. event \in Clients /\ ~Early(event) /\ up[event] \in Seq(Ops)
  BY <1>1, EventIsKnown
<1>3. /\ up' \in [Clients -> Seq(Ops \cup {Nothing})]
      /\ \A d \in Clients : d # event => up'[d] = up[d]
      /\ up'[event] \in Seq(Ops)
      /\ ebuf' \in Ops \cup {Nothing}
      /\ printed' \in [Ops -> Nat]
      /\ event' = NoClient
  BY <1>1, ReceiveFacts
<1>4. /\ watched' \in [Clients -> Clients \cup {NoClient, Unset}]
      /\ \A d \in Clients : watched'[d] \in {watched[d], NoClient}
      /\ edge' \in SUBSET Clients
      /\ \A d \in edge' : watched'[d] # NoClient
      /\ \A i \in Rows : client_fd'[i] \in {client_fd[i], NoClient}
  BY <1>2 DEF RecvAnswer, Hup, epoll, BaseInv, StreamType, StageInv
<1>5. RegistryInv'
  <2>1. CASE RecvAnswer
    BY <2>1, <1>1, StutterKeepsRegistry DEF RecvAnswer, BaseInv, registry, table
  <2>2. CASE Hup
    BY <2>2, <1>1, HangUpKeepsRegistry DEF Hup, BaseInv
  <2> QED BY <2>1, <2>2
<1>6. StreamType'
  BY <1>1, <1>3, <1>4 DEF BaseInv, StreamType, dispatch
<1>7. StageInv'
  <2>1. \A d \in Clients : Early(d)' = Early(d)
    BY <1>1 DEF Early, acceptors
  <2>2. \A d \in Clients : Unknown(d) => Unknown(d)'
    BY <1>1, <1>3, <1>4, ClientsAssumption DEF Unknown, dispatch
  <2>3. /\ registered' = registered /\ apc' = apc /\ peer' = peer
        /\ mpc' = mpc /\ client_number' = client_number
    BY <1>1 DEF acceptors, history, dispatch
  <2>4. \A i \in Rows : client_fd'[i] \in Clients \cup {NoClient, Unset}
    BY <1>4 DEF BaseInv, StageInv
  <2>5. \A d \in Clients :
            /\ cpc'[d] = "silent" => Early(d)' /\ up'[d] = <<>>
            /\ Early(d)' => /\ Unknown(d)' /\ down'[d] = <<>>
                            /\ up'[d] \in {<<>>, <<Nothing>>}
            /\ ~Early(d)' => up'[d] \in Seq(Ops)
    BY <1>1, <1>2, <1>3, <2>1, <2>2 DEF BaseInv, StageInv
  <2> QED BY <1>1, <1>4, <2>3, <2>4, <2>5 DEF BaseInv, StageInv
<1> QED BY <1>5, <1>6, <1>7 DEF BaseInv

(* The row main looks at is one of the table.                              *)
LEMMA RowIsInTable ==
  ASSUME BaseInv, mpc # "input"
  PROVE  Row \in 0 .. client_number - 1 /\ Row \in Rows
<1>1. /\ client_number \in 0 .. MAX_CLIENTS /\ client_number > 0
      /\ MAX_CLIENTS \in Nat
  BY RowIsFree, RowsAssumption DEF BaseInv, StageInv
<1>2. op_number \in Nat /\ x \in Nat
  BY DEF BaseInv, StreamType
<1>3. op_number + x \in Nat /\ client_number \in Nat \ {0}
  BY <1>1, <1>2
<1>4. (op_number + x) % client_number \in 0 .. client_number - 1
  BY <1>3
<1> QED BY <1>1, <1>4 DEF Row, Rows

LEMMA MainFrame ==
  ASSUME main
  PROVE  UNCHANGED <<registry, cpc, up, accepted, ev, watched, answers>>
  BY DEF main, TypeOperation, SkipRow, FindRow, SendOperation, MUnchanged

LEMMA SendOperationBase ==
  ASSUME BaseInv, SendOperation
  PROVE  /\ server' \in {"up", "sigpipe"}
         /\ down' \in [Clients -> Seq(Ops \cup Replies)]
         /\ reset' \in SUBSET Clients /\ edge' \in SUBSET Clients
         /\ \A d \in edge' : watched[d] # NoClient
         /\ \A d \in Clients : d # client_fd[Row] =>
                down'[d] = down[d] /\ asked'[d] = asked[d]
         /\ \A d \in Clients : d = client_fd[Row] => ~Early(d)
         /\ asked' \in [Clients -> Nat]
         /\ lost' \in SUBSET Ops
         /\ op_number \in Ops
<1>1. Row \in Rows
  BY RowIsInTable DEF SendOperation
<1>2. /\ op_number \in Ops /\ asked \in [Clients -> Nat] /\ lost \in SUBSET Ops
      /\ server \in {"up", "sigpipe"}
      /\ down \in [Clients -> Seq(Ops \cup Replies)]
      /\ reset \in SUBSET Clients /\ edge \in SUBSET Clients
      /\ \A d \in edge : watched[d] # NoClient
  BY BoundsAssumption DEF BaseInv, StreamType, StageInv, SendOperation, Ops
<1>3. \A d \in Clients : d = client_fd[Row] => ~Early(d)
  BY <1>1 DEF BaseInv, StageInv, Unknown
<1>4. CASE client_fd[Row] \in Clients
  <2>1. /\ SendTo(client_fd[Row], op_number)
        /\ lost' \in {lost, lost \cup {op_number}}
        /\ asked' = [asked EXCEPT ![client_fd[Row]] = @ + 1]
    BY <1>4 DEF SendOperation
  <2>2. /\ server' \in {"up", "sigpipe"}
        /\ down' \in [Clients -> Seq(Ops \cup Replies)]
        /\ \A d \in Clients : d # client_fd[Row] => down'[d] = down[d]
        /\ reset' \in SUBSET Clients /\ edge' \in SUBSET Clients
        /\ \A d \in edge' : watched[d] # NoClient
    BY <1>2, <1>4, <2>1, SendToFrame
  <2>3. /\ asked' \in [Clients -> Nat]
        /\ \A d \in Clients : d # client_fd[Row] => asked'[d] = asked[d]
    BY <1>2, <1>4, <2>1
  <2>4. lost' \in SUBSET Ops
    BY <1>2, <2>1
  <2> QED BY <1>2, <1>3, <2>2, <2>3, <2>4
<1>5. CASE client_fd[Row] \notin Clients
  BY <1>2, <1>3, <1>5 DEF SendOperation
<1> QED BY <1>4, <1>5

LEMMA MainBase ==
  ASSUME BaseInv, main
  PROVE  BaseInv'
<1>1. UNCHANGED <<registry, cpc, up, accepted, ev, watched, answers>>
  BY MainFrame
<1>2. RegistryInv'
  BY <1>1, StutterKeepsRegistry DEF BaseInv
<1>3. \A d \in Clients : Early(d)' = Early(d)
  BY <1>1 DEF Early, registry, acceptors
<1>4. CASE SendOperation
  <2>1. /\ server' \in {"up", "sigpipe"}
        /\ down' \in [Clients -> Seq(Ops \cup Replies)]
        /\ reset' \in SUBSET Clients /\ edge' \in SUBSET Clients
        /\ \A d \in edge' : watched[d] # NoClient
        /\ \A d \in Clients : Early(d) =>
                down'[d] = down[d] /\ asked'[d] = asked[d]
        /\ asked' \in [Clients -> Nat]
        /\ lost' \in SUBSET Ops
    BY <1>4, SendOperationBase
  <2>2. mpc' = "input" /\ op_number' = op_number + 1 /\ x' = 0
    BY <1>4 DEF SendOperation
  <2>3. StreamType'
    BY <1>1, <2>1, <2>2 DEF BaseInv, StreamType, answers
  <2>4. \A d \in Clients : Early(d) /\ Unknown(d) => Unknown(d)'
    BY <1>1, <2>1 DEF Unknown, registry, table, answers
  <2>5. StageInv'
    BY <1>1, <1>3, <2>1, <2>2, <2>4
       DEF BaseInv, StageInv, registry, table, acceptors, history
  <2> QED BY <1>2, <2>3, <2>5 DEF BaseInv
<1>5. CASE TypeOperation \/ SkipRow \/ FindRow
  <2>1. /\ UNCHANGED <<op_number, asked, server, down, reset, edge, lost>>
        /\ mpc' \in {"find", "send"} /\ op_number < MaxOps /\ client_number > 0
    BY <1>5 DEF TypeOperation, SkipRow, FindRow, BaseInv, StageInv, StreamType,
                RegistryInv, RegistryType
  <2>2. x' \in Nat
    <3>1. x \in Nat /\ Period \in Nat \ {0}
      BY PeriodAssumption DEF BaseInv, StreamType
    <3>2. (x + 1) % Period \in Nat
      BY <3>1
    <3> QED BY <1>5, <3>1, <3>2 DEF TypeOperation, SkipRow, FindRow
  <2>3. StreamType'
    BY <1>1, <2>1, <2>2 DEF BaseInv, StreamType, answers
  <2>4. \A d \in Clients : Unknown(d) => Unknown(d)'
    BY <1>1, <2>1 DEF Unknown, registry, table, answers
  <2>5. StageInv'
    BY <1>1, <1>3, <2>1, <2>4
       DEF BaseInv, StageInv, registry, table, acceptors, history
  <2> QED BY <1>2, <2>3, <2>5 DEF BaseInv
<1> QED BY <1>4, <1>5 DEF main

LEMMA AcceptorBase ==
  ASSUME BaseInv, NEW a \in Acceptors, AcceptLoop(a)
  PROVE  BaseInv'
  BY AcceptBase, RecvNameBase, RecvNothingBase, TableStepBase, StoreEvBase,
     WatchBase, ReplyBase DEF AcceptLoop

LEMMA StutterBase ==
  ASSUME BaseInv, UNCHANGED vars
  PROVE  BaseInv'
<1>1. RegistryInv'
  BY StutterKeepsRegistry DEF BaseInv, vars
<1>2. StreamType'
  BY DEF BaseInv, StreamType, vars, clients, epoll, answers, dispatch
<1>3. StageInv'
  BY DEF BaseInv, StageInv, Early, Unknown, vars, registry, table, acceptors,
         history, clients, epoll, answers, dispatch
<1> QED BY <1>1, <1>2, <1>3 DEF BaseInv

-----------------------------------------------------------------------------
(* Each operation in one place.                                            *)

PlaceFact(k) ==
    \A p : p \in PlacesOf(k) <=>
        \/ \E c \in Clients : To(c, k) /\ p = <<"to", c>>
        \/ \E c \in Clients : From(c, k) /\ p = <<"from", c>>
        \/ printed[k] > 0 /\ p = <<"printed", NoClient>>
        \/ k \in lost /\ p = <<"lost", NoClient>>

LEMMA PlaceFacts == BaseInv => \A k \in Ops : PlaceFact(k)
<1> SUFFICES ASSUME BaseInv, NEW k \in Ops
             PROVE  PlaceFact(k)
  OBVIOUS
<1>1. printed[k] \in Nat
  BY DEF BaseInv, StreamType
<1>2. (\E i \in 1 .. printed[k] : TRUE) <=> printed[k] > 0
  BY <1>1
<1> QED BY <1>2 DEF PlaceFact, PlacesOf, To, From

LEMMA PlaceFactsPrimed == BaseInv' => (\A k \in Ops : PlaceFact(k))'
  BY PlaceFacts, PTL

(* An operation that a client has is nowhere else.                         *)
Nowhere(k) ==
    /\ \A c \in Clients : ~To(c, k) /\ ~From(c, k)
    /\ printed[k] = 0 /\ k \notin lost

LEMMA SolePlace ==
  ASSUME BaseInv, PlaceInv, NEW k \in Ops
  PROVE  /\ \A c \in Clients : To(c, k) =>
               /\ \A d \in Clients : (To(d, k) => d = c) /\ ~From(d, k)
               /\ printed[k] = 0 /\ k \notin lost /\ k < op_number
         /\ \A c \in Clients : From(c, k) =>
               /\ \A d \in Clients : (From(d, k) => d = c) /\ ~To(d, k)
               /\ printed[k] = 0 /\ k \notin lost /\ k < op_number
         /\ k >= op_number => Nowhere(k)
<1>1. printed[k] \in Nat /\ op_number \in Nat /\ k \in Nat
  BY BoundsAssumption DEF BaseInv, StreamType, Ops
<1>2. PlaceFact(k)
  BY PlaceFacts
<1>3. \A p, q : p \in PlacesOf(k) /\ q \in PlacesOf(k) => p = q
  BY <1>1 DEF PlaceInv
<1>4. k >= op_number => \A p : p \notin PlacesOf(k)
  BY DEF PlaceInv
<1>5. \A c \in Clients : To(c, k) => <<"to", c>> \in PlacesOf(k)
  BY <1>2 DEF PlaceFact
<1>6. \A c \in Clients : From(c, k) => <<"from", c>> \in PlacesOf(k)
  BY <1>2 DEF PlaceFact
<1>7. printed[k] > 0 => <<"printed", NoClient>> \in PlacesOf(k)
  BY <1>2 DEF PlaceFact
<1>8. k \in lost => <<"lost", NoClient>> \in PlacesOf(k)
  BY <1>2 DEF PlaceFact
<1>12. ASSUME NEW c \in Clients, To(c, k)
       PROVE  /\ \A d \in Clients : (To(d, k) => d = c) /\ ~From(d, k)
              /\ printed[k] = 0 /\ k \notin lost /\ k < op_number
  <2>1. <<"to", c>> \in PlacesOf(k)
    BY <1>5, <1>12
  <2>2. \A q \in PlacesOf(k) : q = <<"to", c>>
    BY <2>1, <1>3
  <2>3. \A d \in Clients : To(d, k) => d = c
    BY <2>2, <1>5
  <2>4. \A d \in Clients : ~From(d, k)
    BY <2>2, <1>6
  <2>5. ~(printed[k] > 0) /\ k \notin lost
    BY <2>2, <1>7, <1>8
  <2>6. ~(k >= op_number)
    BY <2>1, <1>4
  <2> QED BY <1>1, <2>3, <2>4, <2>5, <2>6
<1>13. ASSUME NEW c \in Clients, From(c, k)
       PROVE  /\ \A d \in Clients : (From(d, k) => d = c) /\ ~To(d, k)
              /\ printed[k] = 0 /\ k \notin lost /\ k < op_number
  <2>1. <<"from", c>> \in PlacesOf(k)
    BY <1>6, <1>13
  <2>2. \A q \in PlacesOf(k) : q = <<"from", c>>
    BY <2>1, <1>3
  <2>3. \A d \in Clients : From(d, k) => d = c
    BY <2>2, <1>6
  <2>4. \A d \in Clients : ~To(d, k)
    BY <2>2, <1>5
  <2>5. ~(printed[k] > 0) /\ k \notin lost
    BY <2>2, <1>7, <1>8
  <2>6. ~(k >= op_number)
    BY <2>1, <1>4
  <2> QED BY <1>1, <2>3, <2>4, <2>5, <2>6
<1>14. k >= op_number => Nowhere(k)
  <2> SUFFICES ASSUME k >= op_number PROVE Nowhere(k)
    OBVIOUS
  <2>1. \A p : p \notin PlacesOf(k)
    BY <1>4
  <2>2. ~(printed[k] > 0)
    BY <2>1, <1>7
  <2>3. k \notin lost
    BY <2>1, <1>8
  <2>4. \A c \in Clients : ~To(c, k) /\ ~From(c, k)
    BY <2>1, <1>5, <1>6
  <2>5. printed[k] = 0
    BY <1>1, <2>2
  <2> QED BY <2>3, <2>4, <2>5 DEF Nowhere
<1> QED BY <1>12, <1>13, <1>14

(* An operation that does not move.                                        *)
Stays(k) ==
    /\ \A c \in Clients : (To(c, k)' <=> To(c, k)) /\ (From(c, k)' <=> From(c, k))
    /\ printed'[k] > 0 <=> printed[k] > 0
    /\ k \in lost' <=> k \in lost

OnceInv == \A c \in Clients : \A k \in Ops : Once(down[c], k) /\ Once(up[c], k)

LEMMA StaysPut ==
  ASSUME BaseInv, BaseInv', NEW k \in Ops, Stays(k)
  PROVE  PlacesOf(k)' = PlacesOf(k)
<1>1. PlaceFact(k) /\ PlaceFact(k)'
  BY PlaceFacts, PlaceFactsPrimed
<1>2. \A p : p \in PlacesOf(k)' <=> p \in PlacesOf(k)
  BY <1>1 DEF PlaceFact, Stays
<1> QED BY <1>2

(* A step moves at most one operation, to one place.                       *)
LEMMA PlacesKept ==
  ASSUME BaseInv, BaseInv', PlaceInv, OnceInv', op_number' = op_number,
         ebuf' \in Ops => printed'[ebuf'] > 0,
         \A k \in Ops : Stays(k) \/ (k < op_number /\ \E p : PlacesOf(k)' = {p})
  PROVE  PlaceInv'
<1>1. op_number \in Nat /\ op_number <= MaxOps
  BY DEF BaseInv, StreamType, PlaceInv
<1>2. \A k \in Ops : k \in Nat /\ (Stays(k) => PlacesOf(k)' = PlacesOf(k))
  BY BoundsAssumption, StaysPut DEF Ops
<1>3. ASSUME NEW k \in Ops, k < op_number
      PROVE  \E p : PlacesOf(k)' = {p}
  <2>1. CASE Stays(k)
    <3>1. PlacesOf(k)' = PlacesOf(k) /\ k \in 0 .. op_number - 1
      BY <1>1, <1>2, <1>3, <2>1
    <3>2. \E p : PlacesOf(k) = {p}
      BY <3>1 DEF PlaceInv
    <3> QED BY <3>1, <3>2
  <2>2. CASE ~Stays(k)
    BY <2>2
  <2> QED BY <2>1, <2>2
<1>5. \A k \in Ops : k >= op_number => PlacesOf(k)' = {}
  BY <1>1, <1>2 DEF PlaceInv
<1>4. \A k \in 0 .. op_number - 1 : k \in Ops /\ k < op_number
  BY <1>1, BoundsAssumption DEF Ops
<1> QED BY <1>1, <1>3, <1>4, <1>5 DEF PlaceInv, OnceInv

LEMMA AskedKept ==
  ASSUME AskedInv, asked' = asked,
         \A c \in Clients : \A k \in Ops : With(c, k)' => With(c, k)
  PROVE  AskedInv'
  BY DEF AskedInv

(* A step that takes no operation to another place.                        *)
LEMMA NothingMoves ==
  ASSUME BaseInv, BaseInv', PlaceInv, AskedInv, OnceInv',
         UNCHANGED <<op_number, ebuf, printed, lost, asked>>,
         \A c \in Clients : \A k \in Ops :
             (To(c, k)' <=> To(c, k)) /\ (From(c, k)' <=> From(c, k))
  PROVE  PlaceInv' /\ AskedInv'
<1>1. \A k \in Ops : Stays(k)
  BY DEF Stays
<1>2. ebuf' \in Ops => printed'[ebuf'] > 0
  BY DEF PlaceInv
<1>3. \A c \in Clients : \A k \in Ops : With(c, k)' => With(c, k)
  BY DEF With
<1> QED BY <1>1, <1>2, <1>3, PlacesKept, AskedKept

LEMMA ReplyIsNoOp == Nothing \notin Ops /\ Replies \cap Ops = {}
  BY BoundsAssumption DEF Nothing, Replies, REGISTERED, NAME_EXISTS, Ops

LEMMA ComputePlaces ==
  ASSUME BaseInv, BaseInv', PlaceInv, AskedInv, NEW c \in Clients, Compute(c)
  PROVE  PlaceInv' /\ AskedInv'
<1>0. PICK k0 \in Ops : k0 = Head(down[c])
  BY DEF Compute
<1>1. /\ down[c] # <<>> /\ k0 \in Ops
      /\ down' = [down EXCEPT ![c] = Tail(@)]
      /\ up' = [up EXCEPT ![c] = Append(@, k0)]
      /\ UNCHANGED <<op_number, ebuf, printed, lost, asked>>
  BY <1>0 DEF Compute, CUnchanged, answers, dispatch
<1>2. /\ down \in [Clients -> Seq(Ops \cup Replies)]
      /\ up \in [Clients -> Seq(Ops \cup {Nothing})]
  BY DEF BaseInv, StreamType
<1>3. /\ down'[c] = Tail(down[c]) /\ up'[c] = Append(up[c], k0)
      /\ \A d \in Clients : d # c => down'[d] = down[d] /\ up'[d] = up[d]
  BY <1>1, <1>2
<1>4. \A k \in Ops : Once(down[c], k) /\ Once(up[c], k)
  BY DEF PlaceInv
<1>5. /\ k0 \in Range(down[c])
      /\ \A k : k # k0 => (k \in Range(Tail(down[c])) <=> k \in Range(down[c]))
      /\ \A k \in Ops : Once(Tail(down[c]), k)
      /\ k0 \notin Range(Tail(down[c]))
  BY <1>0, <1>1, <1>2, <1>4, TailFacts
<1>6. /\ \A d \in Clients : (To(d, k0) => d = c) /\ ~From(d, k0)
      /\ printed[k0] = 0 /\ k0 \notin lost /\ k0 < op_number
  BY <1>1, <1>5, SolePlace DEF To
<1>7. /\ \A k : k \in Range(Append(up[c], k0)) <=> k = k0 \/ k \in Range(up[c])
      /\ \A k \in Ops : Once(Append(up[c], k0), k)
  <2>1. k0 \notin Range(up[c])
    BY <1>6 DEF From
  <2> QED BY <1>1, <1>2, <1>4, <2>1, AppendFacts
<1>8. OnceInv'
  BY <1>3, <1>5, <1>7 DEF PlaceInv, OnceInv
<1>9. \A d \in Clients : \A k \in Ops : k # k0 =>
        (To(d, k)' <=> To(d, k)) /\ (From(d, k)' <=> From(d, k))
  BY <1>0, <1>3, <1>5, <1>7 DEF To, From
<1>10. \A d \in Clients : ~To(d, k0)' /\ (From(d, k0)' <=> d = c)
  BY <1>0, <1>3, <1>5, <1>6, <1>7 DEF To, From
<1>11. k0 < op_number /\ \E p : PlacesOf(k0)' = {p}
  <2>1. PlaceFact(k0)'
    BY PlaceFactsPrimed
  <2>2. ~(printed'[k0] > 0) /\ k0 \notin lost'
    BY <1>1, <1>6
  <2>3. \A p : p \in PlacesOf(k0)' <=> p = <<"from", c>>
    BY <2>1, <2>2, <1>10 DEF PlaceFact
  <2>4. PlacesOf(k0)' = {<<"from", c>>}
    BY <2>3
  <2> QED BY <1>6, <2>4
<1>12. ebuf' \in Ops => printed'[ebuf'] > 0
  BY <1>1 DEF PlaceInv
<1>13. \A k \in Ops : k # k0 => Stays(k)
  BY <1>1, <1>9 DEF Stays
<1>14. PlaceInv'
  BY <1>1, <1>8, <1>11, <1>12, <1>13, PlacesKept
<1>15. \A d \in Clients : \A k \in Ops : With(d, k)' => With(d, k)
  BY <1>5, <1>9, <1>10 DEF With, To
<1> QED BY <1>1, <1>14, <1>15, AskedKept

LEMMA ClientPlaces ==
  ASSUME BaseInv, BaseInv', PlaceInv, AskedInv, NEW c \in Clients,
         Client(c) \/ Interrupted(c)
  PROVE  PlaceInv' /\ AskedInv'
<1>1. UNCHANGED <<op_number, ebuf, printed, lost, asked>>
  BY ClientFrame DEF answers, dispatch
<1>2. /\ down \in [Clients -> Seq(Ops \cup Replies)]
      /\ up \in [Clients -> Seq(Ops \cup {Nothing})]
      /\ \A d \in Clients : \A k \in Ops : Once(down[d], k) /\ Once(up[d], k)
  BY DEF BaseInv, StreamType, PlaceInv
<1>3. CASE SendName(c)
  <2>1. /\ down' = down /\ up'[c] = <<Nothing>> /\ up[c] = <<>>
        /\ \A d \in Clients : d # c => up'[d] = up[d]
    BY <1>2, <1>3 DEF SendName, BaseInv, StageInv
  <2>2. \A k \in Ops : /\ k \notin Range(<<Nothing>>) /\ k \notin Range(<<>>)
                       /\ Once(<<Nothing>>, k)
    BY ReplyIsNoOp DEF Range, Once
  <2>3. OnceInv'
    BY <1>2, <2>1, <2>2 DEF OnceInv
  <2>4. \A d \in Clients : \A k \in Ops :
             (To(d, k)' <=> To(d, k)) /\ (From(d, k)' <=> From(d, k))
    BY <2>1, <2>2 DEF To, From
  <2> QED BY <1>1, <2>3, <2>4, NothingMoves
<1>4. CASE ReadReply(c)
  <2>1. /\ down'[c] = Tail(down[c]) /\ up' = up
        /\ down[c] # <<>> /\ Head(down[c]) \notin Ops
        /\ \A d \in Clients : d # c => down'[d] = down[d]
    BY <1>2, <1>4 DEF ReadReply
  <2>2. \A k \in Ops : /\ k \in Range(Tail(down[c])) <=> k \in Range(down[c])
                       /\ Once(Tail(down[c]), k)
    BY <1>2, <2>1, TailFacts
  <2>3. OnceInv'
    BY <1>2, <2>1, <2>2 DEF OnceInv
  <2>4. \A d \in Clients : \A k \in Ops :
             (To(d, k)' <=> To(d, k)) /\ (From(d, k)' <=> From(d, k))
    BY <2>1, <2>2 DEF To, From
  <2> QED BY <1>1, <2>3, <2>4, NothingMoves
<1>5. CASE Interrupted(c)
  <2>1. down' = down /\ up' = up
    BY <1>5 DEF Interrupted
  <2> QED BY <1>1, <1>2, <2>1, NothingMoves DEF OnceInv, To, From
<1> QED BY <1>3, <1>4, <1>5, ComputePlaces
        DEF Client, run_client, run_client_name, Program

LEMMA AcceptorPlaces ==
  ASSUME BaseInv, BaseInv', PlaceInv, AskedInv, NEW a \in Acceptors,
         AcceptLoop(a)
  PROVE  PlaceInv' /\ AskedInv'
<1>1. UNCHANGED <<op_number, ebuf, printed, lost, asked>>
  BY DEF AcceptLoop, Accept, RecvName, RecvNothing, TableStep, StoreEv, Watch,
         Reply, AUnchanged, answers, dispatch
<1>2. /\ down \in [Clients -> Seq(Ops \cup Replies)]
      /\ up \in [Clients -> Seq(Ops \cup {Nothing})]
      /\ \A d \in Clients : \A k \in Ops : Once(down[d], k) /\ Once(up[d], k)
  BY DEF BaseInv, StreamType, PlaceInv
<1>3. CASE UNCHANGED <<up, down>>
  BY <1>1, <1>2, <1>3, NothingMoves DEF OnceInv, To, From
<1>4. CASE RecvName(a)
  <2>1. PICK c \in Clients : c = peer[a] /\ Early(c)
    BY <1>4 DEF RecvName, BaseInv, RegistryInv, PeersInv, Signing, Early
  <2>2. /\ up[c] = <<Nothing>> /\ up'[c] = <<>> /\ down' = down
        /\ \A d \in Clients : d # c => up'[d] = up[d]
    <3>1. /\ up[c] # <<>> /\ up' = [up EXCEPT ![c] = Tail(@)] /\ down' = down
      BY <1>4, <2>1 DEF RecvName, AUnchanged
    <3>2. up[c] = <<Nothing>>
      BY <2>1, <3>1 DEF BaseInv, StageInv
    <3>3. Tail(<<Nothing>>) = <<>>
      OBVIOUS
    <3> QED BY <1>2, <3>1, <3>2, <3>3
  <2>3. \A k \in Ops : /\ k \notin Range(<<Nothing>>) /\ k \notin Range(<<>>)
                       /\ Once(<<>>, k)
    BY ReplyIsNoOp DEF Range, Once
  <2>4. OnceInv'
    BY <1>2, <2>2, <2>3 DEF OnceInv
  <2>5. \A d \in Clients : \A k \in Ops :
             (To(d, k)' <=> To(d, k)) /\ (From(d, k)' <=> From(d, k))
    BY <2>2, <2>3 DEF To, From
  <2> QED BY <1>1, <2>4, <2>5, NothingMoves
<1>5. CASE Reply(a)
  <2>1. PICK c \in Clients : c = peer[a]
    BY <1>5, PeerIsKnown DEF Reply, AStep
  <2>2. PICK m \in Replies : SendTo(c, m)
    BY <1>5, <2>1 DEF Reply, Replies
  <2>3. up' = up
    BY <1>5 DEF Reply
  <2>4. \A k \in Ops :
            /\ k \in Range(Append(down[c], m)) <=> k \in Range(down[c])
            /\ Once(Append(down[c], m), k)
    BY <1>2, <2>2, AppendFacts, ReplyIsNoOp
  <2>5. /\ down'[c] \in {down[c], Append(down[c], m)}
        /\ \A d \in Clients : d # c => down'[d] = down[d]
    BY <1>2, <2>2 DEF SendTo
  <2>6. OnceInv'
    BY <1>2, <2>3, <2>4, <2>5 DEF OnceInv
  <2>7. \A d \in Clients : \A k \in Ops :
             (To(d, k)' <=> To(d, k)) /\ (From(d, k)' <=> From(d, k))
    BY <2>3, <2>4, <2>5 DEF To, From
  <2> QED BY <1>1, <2>6, <2>7, NothingMoves
<1> QED BY <1>3, <1>4, <1>5
        DEF AcceptLoop, Accept, RecvNothing, TableStep, StoreEv, Watch, clients

(* An answer is printed, or one is printed again.                          *)
LEMMA AnswerPlaces ==
  ASSUME BaseInv, BaseInv', PlaceInv, AskedInv, RecvAnswer \/ Hup
  PROVE  PlaceInv' /\ AskedInv'
<1>1. /\ epc # "wait" /\ Receive(event)
      /\ UNCHANGED <<op_number, down, lost, asked>>
  BY DEF RecvAnswer, Hup, EUnchanged, dispatch
<1>2. /\ up \in [Clients -> Seq(Ops \cup {Nothing})]
      /\ printed \in [Ops -> Nat]
      /\ \A d \in Clients : \A k \in Ops : Once(down[d], k) /\ Once(up[d], k)
  BY DEF BaseInv, StreamType, PlaceInv
<1>3. PICK c \in Clients : c = event /\ up[c] \in Seq(Ops)
  BY <1>1, EventIsKnown
<1>4. CASE up[event] = <<>>
  <2>1. ebuf' = ebuf /\ up' = up
    BY <1>1, <1>4, ReceiveFacts
  <2>2. /\ \A k \in Ops : printed'[k] > 0 <=> printed[k] > 0
        /\ ebuf' \in Ops => printed'[ebuf'] > 0
    <3>1. ebuf \in Ops => printed[ebuf] > 0
      BY DEF PlaceInv
    <3>2. CASE ebuf \in Ops
      <4>1. printed' = [printed EXCEPT ![ebuf] = @ + 1]
        BY <1>1, <2>1, <3>2, ReceiveFacts
      <4> QED BY <1>2, <2>1, <3>1, <3>2, <4>1
    <3>3. CASE ebuf \notin Ops
      <4>1. printed' = printed
        BY <1>1, <2>1, <3>3, ReceiveFacts
      <4> QED BY <2>1, <3>3, <4>1
    <3> QED BY <3>2, <3>3
  <2>3. \A k \in Ops : Stays(k)
    BY <1>1, <2>1, <2>2 DEF Stays, To, From
  <2>4. OnceInv'
    BY <1>1, <1>2, <2>1 DEF OnceInv
  <2>5. PlaceInv'
    BY <1>1, <2>2, <2>3, <2>4, PlacesKept
  <2> QED BY <1>1, <2>1, <2>5, AskedKept DEF With, To, From
<1>5. CASE up[event] # <<>>
  <2>1. PICK k0 \in Ops : k0 = Head(up[c]) /\ ebuf' = k0
    BY <1>1, <1>3, <1>5, ReceiveFacts
  <2>2. /\ up'[c] = Tail(up[c])
        /\ \A d \in Clients : d # c => up'[d] = up[d]
        /\ printed' = [printed EXCEPT ![k0] = @ + 1]
    BY <1>1, <1>3, <1>5, <2>1, ReceiveFacts
  <2>3. /\ k0 \in Range(up[c])
        /\ \A k : k # k0 => (k \in Range(Tail(up[c])) <=> k \in Range(up[c]))
        /\ \A k \in Ops : Once(Tail(up[c]), k)
        /\ k0 \notin Range(Tail(up[c]))
    BY <1>2, <1>3, <1>5, <2>1, TailFacts
  <2>4. /\ \A d \in Clients : (From(d, k0) => d = c) /\ ~To(d, k0)
        /\ printed[k0] = 0 /\ k0 \notin lost /\ k0 < op_number
    BY <2>3, SolePlace DEF From
  <2>5. OnceInv'
    BY <1>1, <1>2, <2>2, <2>3 DEF OnceInv
  <2>6. \A d \in Clients : \A k \in Ops : k # k0 =>
          (To(d, k)' <=> To(d, k)) /\ (From(d, k)' <=> From(d, k))
    BY <1>1, <2>2, <2>3 DEF To, From
  <2>7. \A d \in Clients : ~To(d, k0)' /\ ~From(d, k0)'
    BY <1>1, <2>2, <2>3, <2>4 DEF To, From
  <2>8. /\ printed'[k0] > 0
        /\ \A k \in Ops : k # k0 => printed'[k] = printed[k]
    BY <1>2, <2>2, <2>4
  <2>9. \E p : PlacesOf(k0)' = {p}
    <3>1. PlaceFact(k0)'
      BY PlaceFactsPrimed
    <3>2. \A p : p \in PlacesOf(k0)' <=> p = <<"printed", NoClient>>
      BY <1>1, <2>4, <2>7, <2>8, <3>1 DEF PlaceFact
    <3>3. PlacesOf(k0)' = {<<"printed", NoClient>>}
      BY <3>2
    <3> QED BY <3>3
  <2>10. \A k \in Ops : k # k0 => Stays(k)
    BY <1>1, <2>6, <2>8 DEF Stays
  <2>11. PlaceInv'
    BY <1>1, <2>1, <2>4, <2>5, <2>8, <2>9, <2>10, PlacesKept
  <2>12. \A d \in Clients : \A k \in Ops : With(d, k)' => With(d, k)
    BY <2>6, <2>7 DEF With
  <2> QED BY <1>1, <2>11, <2>12, AskedKept
<1> QED BY <1>4, <1>5

LEMMA EpollPlaces ==
  ASSUME BaseInv, BaseInv', PlaceInv, AskedInv, EpollWait
  PROVE  PlaceInv' /\ AskedInv'
<1>1. UNCHANGED <<op_number, ebuf, printed, lost, asked, up, down>>
  BY DEF EpollWait, EUnchanged, dispatch
<1> QED BY <1>1, NothingMoves DEF OnceInv, To, From, PlaceInv

(* A new operation goes to one client, or nowhere.                         *)
LEMMA SendOperationPlaces ==
  ASSUME BaseInv, BaseInv', PlaceInv, AskedInv, SendOperation
  PROVE  PlaceInv' /\ AskedInv'
<1>1. PICK k0 \in Ops : k0 = op_number
  BY SendOperationBase
<1>2. /\ op_number' = k0 + 1 /\ UNCHANGED <<up, ebuf, printed>>
      /\ op_number < MaxOps
  BY <1>1 DEF SendOperation, MUnchanged, answers, BaseInv, StreamType
<1>3. /\ \A d \in Clients : ~To(d, k0) /\ ~From(d, k0)
      /\ printed[k0] = 0 /\ k0 \notin lost
  <2>1. k0 >= op_number
    BY <1>1, BoundsAssumption DEF Ops
  <2> QED BY <2>1, SolePlace DEF Nowhere
<1>4. /\ down \in [Clients -> Seq(Ops \cup Replies)]
      /\ asked \in [Clients -> Nat]
      /\ \A d \in Clients : \A k \in Ops : Once(down[d], k) /\ Once(up[d], k)
  BY DEF BaseInv, StreamType, PlaceInv
<1>5. \A k \in Ops : k \in Nat
  BY BoundsAssumption DEF Ops
<1>6. ASSUME OnceInv', \A k \in Ops : k # k0 => Stays(k), \E p : PlacesOf(k0)' = {p}
      PROVE  PlaceInv'
  <2>1. \A k \in Ops : k # k0 => PlacesOf(k)' = PlacesOf(k)
    BY <1>6, StaysPut
  <2>2. \A k \in 0 .. op_number' - 1 : k \in Ops /\ (k = k0 \/ k \in 0 .. op_number - 1)
    BY <1>1, <1>2, BoundsAssumption DEF Ops
  <2>3. ASSUME NEW k \in 0 .. op_number' - 1
        PROVE  \E p : PlacesOf(k)' = {p}
    <3>1. CASE k = k0
      BY <1>6, <3>1
    <3>2. CASE k # k0
      <4>1. PlacesOf(k)' = PlacesOf(k) /\ k \in 0 .. op_number - 1
        BY <2>1, <2>2, <3>2
      <4>2. \E p : PlacesOf(k) = {p}
        BY <4>1 DEF PlaceInv
      <4> QED BY <4>1, <4>2
    <3> QED BY <3>1, <3>2
  <2>4. ASSUME NEW k \in Ops, k >= op_number'
        PROVE  PlacesOf(k)' = {}
    <3>1. k # k0 /\ k >= op_number
      BY <1>1, <1>2, <1>5, <2>4
    <3> QED BY <2>1, <3>1 DEF PlaceInv
  <2>5. op_number' <= MaxOps
    BY <1>1, <1>2, <1>5, BoundsAssumption
  <2>6. ebuf' \in Ops => printed'[ebuf'] > 0
    BY <1>2 DEF PlaceInv
  <2> QED BY <1>6, <2>3, <2>4, <2>5, <2>6 DEF PlaceInv, OnceInv
<1>7. CASE client_fd[Row] \in Clients /\ ~Closed(client_fd[Row])
  <2>1. PICK c \in Clients : c = client_fd[Row]
    BY <1>7
  <2>2. /\ down' = [down EXCEPT ![c] = Append(@, k0)]
        /\ lost' = lost
        /\ asked' = [asked EXCEPT ![c] = @ + 1]
    BY <1>1, <1>7, <2>1 DEF SendOperation, SendTo
  <2>3. /\ down'[c] = Append(down[c], k0)
        /\ \A d \in Clients : d # c => down'[d] = down[d]
        /\ asked'[c] = asked[c] + 1 /\ asked[c] \in Nat
        /\ \A d \in Clients : d # c => asked'[d] = asked[d]
    BY <1>4, <2>2
  <2>4. /\ \A k : k \in Range(Append(down[c], k0)) <=> k = k0 \/ k \in Range(down[c])
        /\ \A k \in Ops : Once(Append(down[c], k0), k)
    <3>1. k0 \notin Range(down[c])
      BY <1>3 DEF To
    <3>2. k0 \in Ops \cup Replies /\ down[c] \in Seq(Ops \cup Replies)
      BY <1>4
    <3>3. \A k : k \in Range(Append(down[c], k0)) <=> k = k0 \/ k \in Range(down[c])
      BY <3>2, AppendFacts
    <3>4. \A k \in Ops : Once(down[c], k) => Once(Append(down[c], k0), k)
      BY <3>1, <3>2, AppendFacts
    <3> QED BY <1>4, <3>3, <3>4
  <2>5. OnceInv'
    BY <1>2, <1>4, <2>3, <2>4 DEF OnceInv
  <2>6. \A d \in Clients : \A k \in Ops : k # k0 =>
          (To(d, k)' <=> To(d, k)) /\ (From(d, k)' <=> From(d, k))
    BY <1>2, <2>3, <2>4 DEF To, From
  <2>7. \A d \in Clients : (To(d, k0)' <=> d = c) /\ ~From(d, k0)'
    BY <1>2, <1>3, <2>3, <2>4 DEF To, From
  <2>8. \A k \in Ops : k # k0 => Stays(k)
    BY <1>2, <2>2, <2>6 DEF Stays
  <2>9. \E p : PlacesOf(k0)' = {p}
    <3>1. PlaceFact(k0)'
      BY PlaceFactsPrimed
    <3>2. \A p : p \in PlacesOf(k0)' <=> p = <<"to", c>>
      BY <1>2, <1>3, <2>2, <2>7, <3>1 DEF PlaceFact
    <3>3. PlacesOf(k0)' = {<<"to", c>>}
      BY <3>2
    <3> QED BY <3>3
  <2>10. AskedInv'
    <3>1. \A d \in Clients : \A k \in Ops : With(d, k)' <=> With(d, k) \/ (d = c /\ k = k0)
      BY <1>3, <2>6, <2>7 DEF With
    <3> QED BY <2>3, <3>1 DEF AskedInv
  <2> QED BY <1>6, <2>5, <2>8, <2>9, <2>10
<1>8. CASE ~(client_fd[Row] \in Clients /\ ~Closed(client_fd[Row]))
  <2>1. down' = down /\ lost' = lost \cup {k0}
    BY <1>1, <1>8 DEF SendOperation, SendTo
  <2>2. \A d \in Clients : asked'[d] \in {asked[d], asked[d] + 1}
    BY <1>4 DEF SendOperation
  <2>3. OnceInv'
    BY <1>2, <1>4, <2>1 DEF OnceInv
  <2>4. \A d \in Clients : \A k \in Ops :
          (To(d, k)' <=> To(d, k)) /\ (From(d, k)' <=> From(d, k))
    BY <1>2, <2>1 DEF To, From
  <2>5. \A k \in Ops : k # k0 => Stays(k)
    BY <1>2, <2>1, <2>4 DEF Stays
  <2>6. \E p : PlacesOf(k0)' = {p}
    <3>1. PlaceFact(k0)'
      BY PlaceFactsPrimed
    <3>2. \A p : p \in PlacesOf(k0)' <=> p = <<"lost", NoClient>>
      BY <1>2, <1>3, <2>1, <2>4, <3>1 DEF PlaceFact
    <3>3. PlacesOf(k0)' = {<<"lost", NoClient>>}
      BY <3>2
    <3> QED BY <3>3
  <2>7. AskedInv'
    <3>1. \A d \in Clients : \A k \in Ops : With(d, k)' <=> With(d, k)
      BY <2>4 DEF With
    <3> QED BY <1>4, <2>2, <3>1 DEF AskedInv
  <2> QED BY <1>6, <2>3, <2>5, <2>6, <2>7
<1> QED BY <1>7, <1>8

LEMMA MainPlaces ==
  ASSUME BaseInv, BaseInv', PlaceInv, AskedInv, main
  PROVE  PlaceInv' /\ AskedInv'
<1>1. CASE TypeOperation \/ SkipRow \/ FindRow
  <2>1. UNCHANGED <<op_number, ebuf, printed, lost, asked, up, down>>
    BY <1>1 DEF TypeOperation, SkipRow, FindRow, MUnchanged, answers
  <2> QED BY <2>1, NothingMoves DEF OnceInv, To, From, PlaceInv
<1> QED BY <1>1, SendOperationPlaces DEF main

-----------------------------------------------------------------------------
(* Registrations that do not overlap.                                      *)

LEMMA ClientWatch ==
  ASSUME BaseInv, WatchInv, NEW c \in Clients, Client(c) \/ Interrupted(c)
  PROVE  WatchInv'
<1>1. /\ UNCHANGED <<registry, accepted, ev, watched, answers, dispatch>>
      /\ UNCHANGED <<client_number, client_fd, apc, peer, registered, overlap,
                     event, epc, asked>>
  BY ClientFrame DEF registry, table, acceptors, history, answers, dispatch
<1>2. \A d \in Clients : Closed(d) => Closed(d)'
  BY DEF Client, Interrupted, run_client, run_client_name, Program, SendName,
         Compute, ReadReply, Close, Closed, BaseInv, StreamType
<1>3. \A d \in Clients : up[d] # <<>> => up'[d] # <<>>
  <2>1. CASE Compute(c)
    <3>1. /\ up[c] \in Seq(Ops \cup {Nothing}) /\ Head(down[c]) \in Ops
          /\ up \in [Clients -> Seq(Ops \cup {Nothing})]
      BY <2>1 DEF Compute, BaseInv, StreamType
    <3>2. Append(up[c], Head(down[c])) # <<>>
      BY <3>1
    <3> QED BY <2>1, <3>1, <3>2 DEF Compute
  <2>2. CASE SendName(c)
    <3>1. up \in [Clients -> Seq(Ops \cup {Nothing})]
      BY DEF BaseInv, StreamType
    <3>2. up' = [up EXCEPT ![c] = <<Nothing>>]
      BY <2>2 DEF SendName
    <3>3. <<Nothing>> # <<>>
      OBVIOUS
    <3> QED BY <3>1, <3>2, <3>3
  <2>3. CASE ReadReply(c) \/ Interrupted(c)
    <3>1. up' = up
      BY <2>3 DEF ReadReply, Interrupted
    <3> QED BY <3>1
  <2> QED BY <2>1, <2>2, <2>3 DEF Client, run_client, run_client_name, Program
<1>4. /\ reset \subseteq reset' /\ edge \subseteq edge'
      /\ \A d \in edge' : d \in edge \/ d = c
      /\ \A d \in Clients : d # c => cpc'[d] = cpc[d]
  BY DEF Client, Interrupted, run_client, run_client_name, Program, SendName,
         Compute, ReadReply, Close, Edge, BaseInv, StreamType
<1>5. \A d \in Clients : Watched(d)' <=> Watched(d)
  BY <1>1 DEF Watched
<1> SUFFICES ASSUME ~overlap
             PROVE  WatchInv'
  BY <1>1 DEF WatchInv
<1>6. Leavers # {} => Leavers' # {}
  BY <1>2 DEF Leavers
<1>7. \A d \in Leavers' : d \in edge' /\ Dry(d)' => d \in reset'
  <2>1. ASSUME NEW d \in Leavers', d \in edge', Dry(d)'
        PROVE  d \in reset'
    <3>1. d \in Clients /\ up[d] = <<>> /\ event = d
      BY <1>1, <1>3, <2>1 DEF Leavers, Dry
    <3>2. epc \in {"hup", "recv"}
      BY <3>1, ClientsAssumption DEF BaseInv, StreamType
    <3>3. Closed(d)
      BY <3>1, <3>2 DEF WatchInv
    <3>4. d # c
      BY <3>3, <3>1 DEF Closed, Client, Interrupted, run_client,
         run_client_name, Program, SendName, Compute, ReadReply
    <3> QED BY <1>4, <2>1, <3>1, <3>3, <3>4 DEF WatchInv, Leavers, Dry
  <2> QED BY <2>1
<1>8. epc \in {"hup", "recv"} => event \in Clients
  BY DEF BaseInv, StreamType
<1> QED BY <1>1, <1>2, <1>3, <1>5, <1>6, <1>7, <1>8 DEF WatchInv

LEMMA AloneFacts ==
  ASSUME BaseInv, ~overlap, NEW a \in Acceptors, a \in Registering
  PROVE  /\ \A b \in Acceptors : b # a =>
                apc[b] \notin {"extra", "watch", "load", "store"}
         /\ RowInv(a) /\ peer[a] \in Clients /\ peer[a] \notin registered
         /\ client_number \in Rows
         /\ \A b \in Acceptors : peer[b] = peer[a] => b = a
<1>1. a \in Signing /\ \A b \in Registering : b = a
  BY DEF Signing, BaseInv, RegistryInv, AloneInv
<1>2. \A b \in Acceptors : b # a =>
          apc[b] \notin {"extra", "watch", "load", "store"}
  BY <1>1 DEF Registering
<1>3. RowInv(a) /\ peer[a] \in Clients \ registered
  BY <1>1 DEF BaseInv, RegistryInv, AloneInv, PeersInv
<1>4. client_number \in Rows
  BY <1>1, RowIsFree DEF BaseInv
<1>5. \A b \in Acceptors : peer[b] = peer[a] => b = a
  BY <1>3 DEF BaseInv, RegistryInv, PeersInv
<1> QED BY <1>2, <1>3, <1>4, <1>5

(* Steps outside the registration.                                         *)
LEMMA OutsideWatch ==
  ASSUME BaseInv, WatchInv, NEW a \in Acceptors,
         Accept(a) \/ RecvName(a) \/ RecvNothing(a) \/ Reply(a)
  PROVE  WatchInv'
<1>1. /\ UNCHANGED <<table, registered, ev, watched, cpc, answers, dispatch>>
      /\ UNCHANGED <<client_number, client_fd, event, epc, asked>>
      /\ \A b \in Acceptors : b # a => apc'[b] = apc[b] /\ peer'[b] = peer[b]
      /\ apc[a] \in {"wait", "recv", "accept", "reject"}
      /\ apc'[a] \in {"recv", "name", "reject", "wait"}
      /\ overlap' \in {overlap, TRUE}
  BY DEF Accept, RecvName, RecvNothing, Reply, Hear, AStep, AUnchanged, table,
         history, answers, dispatch, BaseInv, RegistryInv, RegistryType
<1>2. \A d \in Clients : Watched(d)' <=> Watched(d)
  BY <1>1 DEF Watched
<1>3. \A d \in Clients : d = event => up'[d] = up[d]
  <2>1. CASE RecvName(a)
    <3>1. Early(peer[a]) /\ peer[a] \in Clients
      BY <2>1 DEF RecvName, Early, BaseInv, RegistryInv, PeersInv, Signing
    <3>2. peer[a] # event
      BY <3>1 DEF BaseInv, StageInv, Unknown
    <3> QED BY <2>1, <3>2 DEF RecvName, BaseInv, StreamType
  <2> QED BY <2>1 DEF Accept, RecvNothing, Reply
<1>4. /\ \A d \in Clients : d \in edge' => d \in edge \/ d \in reset'
      /\ reset \subseteq reset'
  BY DEF Accept, RecvName, RecvNothing, Reply, SendTo, Edge
<1>8. overlap' = FALSE => overlap = FALSE
  BY <1>1 DEF BaseInv, RegistryInv, RegistryType
<1> SUFFICES ASSUME ~overlap, ~overlap'
             PROVE  WatchInv'
  BY <1>8 DEF WatchInv
<1>5. Leavers' = Leavers /\ \A d \in Clients : Closed(d)' <=> Closed(d)
  BY <1>1 DEF Leavers, Closed
<1>6. \A d \in Leavers' : d \in edge' /\ Dry(d)' => d \in reset'
  BY <1>1, <1>3, <1>4, <1>5 DEF WatchInv, Leavers, Dry
<1>7. epc \in {"hup", "recv"} => event \in Clients
  BY DEF BaseInv, StreamType
<1> QED BY <1>1, <1>2, <1>3, <1>5, <1>6, <1>7 DEF WatchInv

(* Steps of a registration.                                                *)
LEMMA TableWatch ==
  ASSUME BaseInv, WatchInv, NEW a \in Acceptors, TableStep(a)
  PROVE  WatchInv'
<1>1. /\ UNCHANGED <<overlap, peer, cpc, up, ev, watched, edge, reset, event,
                     epc, asked>>
      /\ apc[a] \in {"name", "fd", "load", "store"}
      /\ apc'[a] \in {"fd", "extra", "store", "accept"}
      /\ apc[a] = "load" <=> apc'[a] = "store"
      /\ apc'[a] = "extra" => client_fd' = [client_fd EXCEPT ![client_number] = peer[a]]
      /\ apc'[a] # "extra" => client_fd' = client_fd
      /\ apc'[a] = "accept" => /\ apc[a] = "store"
                               /\ client_number' = loaded[a] + 1
                               /\ registered' = registered \cup {peer[a]}
      /\ apc'[a] # "accept" => /\ apc[a] # "store"
                               /\ client_number' = client_number
                               /\ registered' = registered
      /\ \A b \in Acceptors : b # a => apc'[b] = apc[b]
  BY DEF TableStep, Register, StoreName, StoreFd, LoadNumber, StoreNumber,
         AStep, AUnchanged, table, history, answers, dispatch, BaseInv,
         RegistryInv, RegistryType
<1> SUFFICES ASSUME ~overlap
             PROVE  WatchInv'
  BY <1>1 DEF WatchInv
<1>2. a \in Registering
  BY <1>1 DEF Registering
<1>3. /\ \A b \in Acceptors : b # a =>
             apc[b] \notin {"extra", "watch", "load", "store"}
      /\ RowInv(a) /\ peer[a] \in Clients /\ client_number \in Rows
      /\ client_number \in Nat
  BY <1>2, AloneFacts DEF BaseInv, RegistryInv, RegistryType
<1>4. apc'[a] = "accept" => client_number' = client_number + 1
  BY <1>1, <1>3 DEF RowInv
<1>5. \A d \in Clients : Watched(d)' <=> Watched(d)
  BY <1>1, <1>3 DEF Watched
<1>6. \A b \in Acceptors : apc'[b] \in {"extra", "watch", "load", "store"} =>
          b = a /\ apc'[b] \in {"extra", "store"}
  BY <1>1, <1>3
<1>7. /\ client_fd \in [Rows -> Clients \cup Acceptors \cup {NoClient, Unset}]
      /\ \A i \in Rows : client_fd'[i] = client_fd[i] \/
             (apc'[a] = "extra" /\ i = client_number /\ client_fd'[i] = peer[a])
      /\ apc'[a] = "extra" => client_fd'[client_number] = peer[a]
  BY <1>1, <1>3 DEF BaseInv, RegistryInv, RegistryType
<1>8. apc'[a] \in {"extra", "store"} =>
          client_fd'[client_number'] \in {peer[a], NoClient}
  BY <1>1, <1>3, <1>7 DEF WatchInv
<1>9. \A i \in 0 .. client_number' - 1 : client_fd'[i] \in registered' \cup {NoClient}
  <2>1. ASSUME NEW i \in 0 .. client_number' - 1
        PROVE  client_fd'[i] \in registered' \cup {NoClient}
    <3>1. CASE i \in 0 .. client_number - 1
      <4>1. i # client_number /\ i \in Rows
        BY <1>3, <3>1, RowsAssumption DEF Rows
      <4>2. client_fd'[i] = client_fd[i] /\ registered \subseteq registered'
        BY <1>1, <1>7, <4>1
      <4> QED BY <3>1, <4>2 DEF WatchInv
    <3>2. CASE i \notin 0 .. client_number - 1
      <4>1. apc'[a] = "accept" /\ i = client_number
        BY <1>1, <1>3, <1>4, <3>2, <2>1
      <4>2. client_fd[client_number] \in {peer[a], NoClient}
        BY <1>1, <4>1 DEF WatchInv
      <4> QED BY <1>1, <4>1, <4>2
    <3> QED BY <3>1, <3>2
  <2> QED BY <2>1
<1>10. \A i \in Rows : client_fd'[i] = NoClient => Leavers' # {}
  <2>1. Leavers' = Leavers
    BY <1>1 DEF Leavers, Closed
  <2> QED BY <1>3, <1>7, <2>1, ClientsAssumption DEF WatchInv
<1>11. \A d \in Clients : asked'[d] > 0 => d \in registered'
  BY <1>1 DEF WatchInv
<1>12. Leavers' = Leavers /\ \A d \in Clients : Closed(d)' <=> Closed(d)
  BY <1>1 DEF Leavers, Closed
<1>13. \A d \in Leavers' : d \in edge' /\ Dry(d)' => d \in reset'
  BY <1>1, <1>12 DEF WatchInv, Leavers, Dry
<1>14. epc \in {"hup", "recv"} => event \in Clients
  BY DEF BaseInv, StreamType
<1> QED BY <1>1, <1>5, <1>6, <1>8, <1>9, <1>10, <1>11, <1>12, <1>13, <1>14
        DEF WatchInv

LEMMA StoreEvWatch ==
  ASSUME BaseInv, WatchInv, NEW a \in Acceptors, StoreEv(a)
  PROVE  WatchInv'
<1>1. /\ UNCHANGED <<overlap, registered, client_number, client_fd, peer, cpc,
                     up, watched, edge, reset, event, epc, asked>>
      /\ apc[a] = "extra" /\ apc'[a] = "watch"
      /\ ev' = [ev EXCEPT ![client_number] = peer[a]]
      /\ \A b \in Acceptors : b # a => apc'[b] = apc[b]
  BY DEF StoreEv, AStep, AUnchanged, table, history, answers, dispatch,
         BaseInv, RegistryInv, RegistryType
<1> SUFFICES ASSUME ~overlap
             PROVE  WatchInv'
  BY <1>1 DEF WatchInv
<1>2. a \in Registering
  BY <1>1 DEF Registering
<1>3. /\ \A b \in Acceptors : b # a =>
             apc[b] \notin {"extra", "watch", "load", "store"}
      /\ client_number \in Rows
  BY <1>2, AloneFacts
<1>4. ev'[client_number] = peer[a]
  BY <1>1, <1>3 DEF BaseInv, StreamType
<1>5. \A d \in Clients : Watched(d)' <=> Watched(d)
  BY <1>1, <1>3 DEF Watched
<1>6. Leavers' = Leavers /\ \A d \in Clients : Closed(d)' <=> Closed(d)
  BY <1>1 DEF Leavers, Closed
<1>7. \A d \in Leavers' : d \in edge' /\ Dry(d)' => d \in reset'
  BY <1>1, <1>6 DEF WatchInv, Leavers, Dry
<1>8. epc \in {"hup", "recv"} => event \in Clients
  BY DEF BaseInv, StreamType
<1> QED BY <1>1, <1>3, <1>4, <1>5, <1>6, <1>7, <1>8 DEF WatchInv

LEMMA WatchWatch ==
  ASSUME BaseInv, WatchInv, NEW a \in Acceptors, Watch(a)
  PROVE  WatchInv'
<1>1. /\ UNCHANGED <<overlap, registered, client_number, client_fd, peer, cpc,
                     up, ev, reset, event, epc, asked>>
      /\ apc[a] = "watch" /\ apc'[a] = "load"
      /\ watched' = [watched EXCEPT ![peer[a]] = ev[client_number]]
      /\ edge' \in {edge, edge \cup {peer[a]}}
      /\ \A b \in Acceptors : b # a => apc'[b] = apc[b]
  BY DEF Watch, AStep, table, history, answers, clients, dispatch,
         BaseInv, RegistryInv, RegistryType
<1> SUFFICES ASSUME ~overlap
             PROVE  WatchInv'
  BY <1>1 DEF WatchInv
<1>2. a \in Registering
  BY <1>1 DEF Registering
<1>3. /\ \A b \in Acceptors : b # a =>
             apc[b] \notin {"extra", "watch", "load", "store"}
      /\ peer[a] \in Clients /\ peer[a] \notin registered
      /\ \A b \in Acceptors : peer[b] = peer[a] => b = a
  BY <1>2, AloneFacts
<1>4. PICK c \in Clients : c = peer[a]
  BY <1>3
<1>5. ev[client_number] = c
  BY <1>1, <1>4 DEF WatchInv
<1>6. watched'[c] = c /\ \A d \in Clients : d # c => watched'[d] = watched[d]
  BY <1>1, <1>4, <1>5 DEF BaseInv, StreamType
<1>7. /\ Watched(c)' /\ ~Watched(c)
      /\ \A d \in Clients : d # c => (Watched(d)' <=> Watched(d))
  BY <1>1, <1>3, <1>4 DEF Watched
<1>8. event # c
  BY <1>7 DEF WatchInv
<1>9. Leavers' = Leavers /\ \A d \in Clients : Closed(d)' <=> Closed(d)
  BY <1>1 DEF Leavers, Closed
<1>10. \A d \in Leavers' : d \in edge' /\ Dry(d)' => d \in reset'
  BY <1>1, <1>4, <1>8, <1>9 DEF WatchInv, Leavers, Dry
<1>11. epc \in {"hup", "recv"} => event \in Clients
  BY DEF BaseInv, StreamType
<1>12. \A b \in Acceptors : apc'[b] \in {"extra", "watch", "load", "store"} =>
           b = a
  BY <1>1, <1>3
<1>13. client_fd[client_number] \in {peer[a], NoClient}
  BY <1>1 DEF WatchInv
<1> QED BY <1>1, <1>6, <1>7, <1>8, <1>9, <1>10, <1>11, <1>12, <1>13
        DEF WatchInv

(* The answer server's steps, and main's.                                  *)
LEMMA EpollWatch ==
  ASSUME BaseInv, WatchInv, EpollWait
  PROVE  WatchInv'
<1>1. PICK c \in edge :
        /\ edge' = edge \ {c}
        /\ IF watched[c] = Unset \/ (up[c] = <<>> /\ ~Closed(c))
           THEN UNCHANGED <<epc, event>>
           ELSE /\ event' = watched[c]
                /\ epc' = IF HangsUp(c) THEN "hup" ELSE "recv"
  BY DEF EpollWait
<1>2. /\ epc = "wait"
      /\ UNCHANGED <<client_number, client_fd, apc, peer, overlap, registered,
                     cpc, up, reset, ev, watched, asked>>
  BY DEF EpollWait, EUnchanged, acceptors, history, dispatch
<1> SUFFICES ASSUME ~overlap
             PROVE  WatchInv'
  BY <1>2 DEF WatchInv
<1>3. c \in Clients /\ watched[c] = c /\ event = NoClient
  BY <1>2 DEF BaseInv, StreamType, StageInv, WatchInv
<1>4. \/ UNCHANGED <<epc, event>>
      \/ /\ event' = c
         /\ epc' = "hup" => Closed(c)
         /\ epc' = "recv" => Closed(c) \/ up[c] # <<>>
  BY <1>1, <1>3 DEF HangsUp
<1>5. \A d \in Clients : Watched(d)' <=> Watched(d)
  BY <1>2 DEF Watched
<1>6. Leavers' = Leavers /\ \A d \in Clients : Closed(d)' <=> Closed(d)
  BY <1>2 DEF Leavers, Closed
<1>7. Closed(c)' <=> Closed(c)
  BY <1>3, <1>6
<1>8. \A d \in Clients : event' = d => d = c /\ watched[d] = d
  BY <1>3, <1>4, ClientsAssumption
<1>9. \A d \in Leavers' : d \in edge' /\ Dry(d)' => d \in reset'
  BY <1>1, <1>8 DEF Leavers, Dry
<1>10. /\ epc' = "hup" => Closed(event)'
       /\ epc' = "recv" => Closed(event)' \/ up'[event'] # <<>>
  BY <1>2, <1>3, <1>4 DEF Closed
<1> QED BY <1>2, <1>5, <1>6, <1>8, <1>9, <1>10 DEF WatchInv

LEMMA AnswerWatch ==
  ASSUME BaseInv, WatchInv, RecvAnswer \/ Hup
  PROVE  WatchInv'
<1>1. /\ epc # "wait" /\ epc' = "wait" /\ event' = NoClient
      /\ UNCHANGED <<client_number, apc, peer, overlap, registered, cpc, ev,
                     reset, asked>>
  BY DEF RecvAnswer, Hup, Receive, EUnchanged, acceptors, history, dispatch
<1> SUFFICES ASSUME ~overlap
             PROVE  WatchInv'
  BY <1>1 DEF WatchInv
<1>2. PICK c \in Clients : c = event
  BY <1>1, EventIsKnown
<1>3. Leavers' = Leavers /\ \A d \in Clients : Closed(d)' <=> Closed(d)
  BY <1>1 DEF Leavers, Closed
<1>4. \A d \in Clients : Watched(d)' <=> Watched(d)
  BY <1>1 DEF Watched
<1>5. /\ \A d \in Clients : watched'[d] \in {watched[d], NoClient}
      /\ \A d \in Clients : watched'[d] = watched[d] \/ Closed(d)
      /\ \A i \in Rows : client_fd'[i] \in {client_fd[i], NoClient}
      /\ \A i \in Rows : client_fd'[i] = client_fd[i] \/ Leavers # {}
  <2>1. CASE RecvAnswer
    BY <2>1 DEF RecvAnswer, epoll
  <2>2. CASE Hup
    <3>1. /\ watched' = [watched EXCEPT ![c] = NoClient]
          /\ client_fd' = [i \in Rows |-> IF client_fd[i] = c THEN NoClient
                                                           ELSE client_fd[i]]
          /\ epc = "hup"
      BY <1>2, <2>2 DEF Hup
    <3>2. Closed(c) /\ c \in Leavers
      BY <1>2, <3>1 DEF WatchInv, Leavers
    <3> QED BY <3>1, <3>2 DEF BaseInv, StreamType
  <2> QED BY <2>1, <2>2
<1>6. \A i \in 0 .. client_number - 1 : i \in Rows
  BY RowIsFree, RowsAssumption DEF BaseInv, Rows
<1>7. \A i \in 0 .. client_number - 1 : client_fd'[i] \in registered \cup {NoClient}
  BY <1>5, <1>6 DEF WatchInv
<1>8. ASSUME NEW b \in Acceptors, apc[b] \in {"extra", "watch", "load", "store"}
      PROVE  client_fd'[client_number] \in {peer[b], NoClient}
  <2>1. b \in Registering
    BY <1>8 DEF Registering
  <2>2. client_number \in Rows
    BY <2>1, AloneFacts
  <2> QED BY <1>5, <1>8, <2>2 DEF WatchInv
<1>9. \A d \in Clients : event' # d
  BY <1>1, ClientsAssumption
<1>10. \A d \in Clients : watched'[d] \in {d, NoClient}
  BY <1>5 DEF WatchInv
<1>11. \A d \in Clients : watched'[d] = d => watched[d] = d
  BY <1>5, ClientsAssumption
<1>12. \A i \in Rows : client_fd'[i] = NoClient => Leavers' # {}
  BY <1>3, <1>5 DEF WatchInv
<1>13. \A d \in Clients : Watched(d)' => watched'[d] = d \/ Closed(d)'
  BY <1>3, <1>4, <1>5 DEF WatchInv
<1>14. \A d \in Leavers' : d \in edge' /\ Dry(d)' => d \in reset'
  BY <1>9 DEF Leavers, Dry
<1> QED BY <1>1, <1>4, <1>7, <1>8, <1>9, <1>10, <1>11, <1>12, <1>13, <1>14
        DEF WatchInv

(* What main sends.                                                        *)
LEMMA SendOperationFacts ==
  ASSUME BaseInv, SendOperation
  PROVE  /\ UNCHANGED <<registry, cpc, up, accepted, ev, watched, answers>>
         /\ reset \subseteq reset' /\ edge \subseteq edge'
         /\ \A d \in edge' : d \in edge \/ d \in reset'
         /\ \A d \in Clients : asked'[d] = asked[d]
                \/ (asked'[d] = asked[d] + 1 /\ d = client_fd[Row])
<1>1. asked \in [Clients -> Nat]
  BY DEF BaseInv, StreamType
<1> QED BY <1>1 DEF SendOperation, MUnchanged, SendTo, Edge

LEMMA MainWatch ==
  ASSUME BaseInv, WatchInv, main
  PROVE  WatchInv'
<1>1. /\ UNCHANGED <<client_number, client_fd, apc, peer, overlap, registered,
                     cpc, up, ev, watched, epc, event>>
  BY MainFrame DEF registry, table, acceptors, history, answers
<1> SUFFICES ASSUME ~overlap
             PROVE  WatchInv'
  BY <1>1 DEF WatchInv
<1>2. /\ reset \subseteq reset'
      /\ \A d \in edge' : d \in edge \/ d \in reset'
      /\ \A d \in Clients : asked'[d] > 0 => d \in registered
  <2>1. CASE SendOperation
    <3>1. client_fd[Row] \in registered \cup {NoClient}
      BY <2>1, RowIsInTable DEF WatchInv, SendOperation
    <3>2. /\ \A d \in Clients : asked'[d] = asked[d] \/ d = client_fd[Row]
          /\ reset \subseteq reset'
          /\ \A d \in edge' : d \in edge \/ d \in reset'
      BY <2>1, SendOperationFacts
    <3> QED BY <3>1, <3>2, ClientsAssumption DEF WatchInv
  <2>2. CASE TypeOperation \/ SkipRow \/ FindRow
    <3>1. UNCHANGED <<asked, reset, edge>>
      BY <2>2 DEF TypeOperation, SkipRow, FindRow
    <3> QED BY <3>1 DEF WatchInv
  <2> QED BY <2>1, <2>2 DEF main
<1>3. Leavers' = Leavers /\ \A d \in Clients : Closed(d)' <=> Closed(d)
  BY <1>1 DEF Leavers, Closed
<1>4. \A d \in Clients : Watched(d)' <=> Watched(d)
  BY <1>1 DEF Watched
<1>5. \A d \in Leavers' : d \in edge' /\ Dry(d)' => d \in reset'
  BY <1>1, <1>2, <1>3 DEF WatchInv, Leavers, Dry
<1>6. epc \in {"hup", "recv"} => event \in Clients
  BY DEF BaseInv, StreamType
<1> QED BY <1>1, <1>2, <1>3, <1>4, <1>5, <1>6 DEF WatchInv

LEMMA AcceptorWatch ==
  ASSUME BaseInv, WatchInv, NEW a \in Acceptors, AcceptLoop(a)
  PROVE  WatchInv'
  BY OutsideWatch, TableWatch, StoreEvWatch, WatchWatch DEF AcceptLoop

-----------------------------------------------------------------------------
(* Operations are lost to leavers only.                                    *)

LEMMA MonotoneFacts ==
  ASSUME BaseInv, [Next]_vars
  PROVE  /\ ~overlap' => ~overlap
         /\ Leavers \subseteq Leavers'
<1>1. ASSUME NEW c \in Clients, Client(c) \/ Interrupted(c)
      PROVE  /\ overlap' = overlap
             /\ Leavers \subseteq Leavers'
  <2>1. overlap' = overlap
    BY <1>1, ClientFrame DEF registry, history
  <2>2. \A d \in Clients : Closed(d) => Closed(d)'
    BY <1>1 DEF Client, Interrupted, run_client, run_client_name, Program,
       SendName, Compute, ReadReply, Close, Closed, BaseInv, StreamType
  <2> QED BY <2>1, <2>2 DEF Leavers
<1>2. ASSUME NEW a \in Acceptors, AcceptLoop(a)
      PROVE  (overlap' = overlap \/ overlap' = TRUE) /\ cpc' = cpc
  BY <1>2 DEF AcceptLoop, Accept, RecvName, RecvNothing, TableStep, Register,
     StoreName, StoreFd, LoadNumber, StoreNumber, StoreEv, Watch, Reply, Hear,
     AUnchanged, history, clients, BaseInv, RegistryInv, RegistryType
<1>3. ASSUME run_answer_server \/ main \/ UNCHANGED vars
      PROVE  overlap' = overlap /\ cpc' = cpc
  BY <1>3, MainFrame DEF run_answer_server, EpollWait, Hup, RecvAnswer,
     EUnchanged, vars, clients, registry, history
<1>4. /\ overlap' = overlap \/ overlap' = TRUE
      /\ Leavers \subseteq Leavers'
  BY <1>1, <1>2, <1>3
     DEF Next, run_server_ip, run_server_name, Acceptors, Leavers, Closed
<1>5. ~overlap' => overlap' = overlap
  BY <1>4
<1> QED BY <1>4, <1>5

LEMMA LostKept ==
  ASSUME BaseInv, WatchInv, LostInv, [Next]_vars
  PROVE  LostInv'
<1>1. (~overlap' => ~overlap) /\ Leavers \subseteq Leavers'
  BY MonotoneFacts
<1>2. CASE SendOperation
  <2>1. Row \in Rows /\ Row \in 0 .. client_number - 1
    BY <1>2, RowIsInTable DEF SendOperation
  <2>2. ASSUME ~overlap, lost' # lost
        PROVE  Leavers # {}
    <3>1. client_fd[Row] \in Clients \cup {NoClient}
      BY <2>1, <2>2 DEF WatchInv, BaseInv, RegistryInv, RegistryType
    <3>2. CASE client_fd[Row] = NoClient
      BY <2>1, <2>2, <3>2 DEF WatchInv
    <3>3. CASE client_fd[Row] \in Clients
      BY <1>2, <2>2, <3>3 DEF SendOperation, Leavers
    <3> QED BY <3>1, <3>2, <3>3
  <2> QED BY <1>1, <2>2 DEF LostInv
<1>3. CASE ~SendOperation
  <2>1. lost' = lost
    BY <1>3, ClientFrame DEF Next, run_server_ip, run_server_name, AcceptLoop,
       Accept, RecvName, RecvNothing, TableStep, StoreEv, Watch, Reply,
       AUnchanged, Acceptors, run_answer_server, EpollWait, Hup, RecvAnswer,
       EUnchanged, main, TypeOperation, SkipRow, FindRow, vars
  <2> QED BY <1>1, <2>1 DEF LostInv
<1> QED BY <1>2, <1>3

-----------------------------------------------------------------------------
(* A lone answer gets read.                                                *)

LEMMA RegisteredIsKnown ==
  ASSUME BaseInv, NEW c \in registered
  PROVE  c \in Clients /\ ~Early(c) /\ up[c] \in Seq(Ops) /\ cpc[c] # "silent"
<1>1. c \in Clients /\ c \in accepted
  BY DEF BaseInv, RegistryInv, RegistryType, StageInv
<1>2. \A a \in Acceptors : apc[a] = "recv" => peer[a] # c
  BY DEF BaseInv, RegistryInv, PeersInv, Signing
<1> QED BY <1>1, <1>2 DEF Early, BaseInv, StageInv

LEMMA LoneAnswerIsShort ==
  ASSUME BaseInv, PlaceInv, AskedInv, NEW c \in registered
  PROVE  /\ asked[c] = 1 /\ up[c] # <<>> => Tail(up[c]) = <<>>
         /\ asked[c] = 0 => up[c] = <<>>
<1>1. c \in Clients /\ up[c] \in Seq(Ops)
  BY RegisteredIsKnown
<1>2. \A i \in 1 .. Len(up[c]) : up[c][i] \in Ops /\ With(c, up[c][i])
  BY <1>1 DEF With, From, Range
<1>3. asked[c] = 1 => \A i, j \in 1 .. Len(up[c]) : i = j
  <2> SUFFICES ASSUME asked[c] = 1, NEW i \in 1 .. Len(up[c]),
                      NEW j \in 1 .. Len(up[c])
               PROVE  i = j
    OBVIOUS
  <2>1. up[c][i] = up[c][j] /\ up[c][i] \in Ops
    BY <1>1, <1>2 DEF AskedInv
  <2>2. Once(up[c], up[c][i])
    BY <1>1, <2>1 DEF PlaceInv
  <2> QED BY <1>1, <2>1, <2>2 DEF Once
<1>4. asked[c] = 0 => Len(up[c]) = 0
  <2> SUFFICES ASSUME asked[c] = 0, Len(up[c]) # 0
               PROVE  FALSE
    OBVIOUS
  <2>1. 1 \in 1 .. Len(up[c])
    BY <1>1
  <2>2. asked[c] > 0
    BY <1>1, <1>2, <2>1 DEF AskedInv
  <2> QED BY <2>2
<1>5. asked[c] = 1 => Len(up[c]) <= 1
  <2> SUFFICES ASSUME asked[c] = 1, Len(up[c]) > 1
               PROVE  FALSE
    BY <1>1
  <2>1. 1 \in 1 .. Len(up[c]) /\ 2 \in 1 .. Len(up[c])
    BY <1>1
  <2> QED BY <1>3, <2>1
<1>6. up[c] # <<>> => Len(Tail(up[c])) = Len(up[c]) - 1 /\ Tail(up[c]) \in Seq(Ops)
  BY <1>1
<1>7. up[c] # <<>> /\ Len(up[c]) <= 1 => Tail(up[c]) = <<>>
  BY <1>1, <1>6
<1> QED BY <1>1, <1>4, <1>5, <1>7

(* Who is registered was watched before, and was asked nothing before.     *)
LEMMA LoneAnswerKept ==
  ASSUME BaseInv, PlaceInv, AskedInv, WatchInv, LoneAnswerIsRead, [Next]_vars
  PROVE  LoneAnswerIsRead'
<1> SUFFICES ASSUME NEW c \in Clients, ~overlap', asked'[c] = 1, ~Closed(c)',
                    cpc'[c] = "named", c \in registered', up'[c] # <<>>
             PROVE  c \in edge' \/ (event' = c /\ epc' # "wait")
  BY DEF LoneAnswerIsRead
<1>1. ~overlap /\ Leavers \subseteq Leavers'
  BY MonotoneFacts
<1>2. ~Closed(c)
  BY <1>1 DEF Leavers, Closed
<1>3. asked[c] = 1 /\ cpc[c] = "named" /\ c \in registered /\ up[c] # <<>>
        => c \in edge \/ (event = c /\ epc # "wait")
  BY <1>1, <1>2 DEF LoneAnswerIsRead
<1>4. c \in registered => watched[c] = c /\ cpc[c] = "named"
  BY <1>1, <1>2, RegisteredIsKnown DEF WatchInv, Watched, Closed, BaseInv, StreamType
<1>5. asked[c] > 0 => c \in registered
  BY <1>1 DEF WatchInv
<1>6. CASE \E d \in Clients : Client(d) \/ Interrupted(d)
  <2>1. PICK d \in Clients : Client(d) \/ Interrupted(d)
    BY <1>6
  <2>2. UNCHANGED <<registered, asked, event, epc, watched>>
    BY <2>1, ClientFrame DEF registry, history, answers, dispatch
  <2>3. /\ c \in registered /\ watched[c] = c /\ cpc[c] = "named"
        /\ c # NoClient
    BY <1>4, <2>2, ClientsAssumption
  <2>4. CASE Compute(d) /\ d = c
    BY <2>3, <2>4 DEF Compute, Edge
  <2>5. CASE ~(Compute(d) /\ d = c)
    <3>1. up'[c] = up[c] /\ edge \subseteq edge'
      BY <2>1, <2>3, <2>5 DEF Client, Interrupted, run_client, run_client_name,
         Program, SendName, Compute, ReadReply, Close, Edge, BaseInv, StreamType
    <3> QED BY <1>3, <2>2, <2>3, <3>1
  <2> QED BY <2>4, <2>5
<1>7. CASE \E a \in Acceptors : AcceptLoop(a)
  <2>1. PICK a \in Acceptors : AcceptLoop(a)
    BY <1>7
  <2>2. UNCHANGED <<asked, event, epc, cpc>> /\ edge \subseteq edge'
    BY <2>1 DEF AcceptLoop, Accept, RecvName, RecvNothing, TableStep, StoreEv,
       Watch, Reply, SendTo, Edge, AUnchanged, answers, dispatch, clients
  <2>3. c \in registered
    BY <1>5, <2>2
  <2>4. up'[c] = up[c]
    <3>1. CASE RecvName(a)
      <4>1. Early(peer[a])
        BY <3>1 DEF RecvName, Early
      <4>2. peer[a] # c
        BY <2>3, <4>1, RegisteredIsKnown
      <4> QED BY <3>1, <4>2 DEF RecvName, BaseInv, StreamType
    <3>2. CASE ~RecvName(a)
      BY <2>1, <3>2 DEF AcceptLoop, Accept, RecvNothing, TableStep, StoreEv,
         Watch, Reply, clients
    <3> QED BY <3>1, <3>2
  <2> QED BY <1>3, <1>4, <2>2, <2>3, <2>4
<1>8. CASE EpollWait
  <2>1. PICK d \in edge :
        /\ edge' = edge \ {d}
        /\ IF watched[d] = Unset \/ (up[d] = <<>> /\ ~Closed(d))
           THEN UNCHANGED <<epc, event>>
           ELSE /\ event' = watched[d]
                /\ epc' = IF HangsUp(d) THEN "hup" ELSE "recv"
    BY <1>8 DEF EpollWait
  <2>2. epc = "wait" /\ UNCHANGED <<registered, asked, up, cpc>>
    BY <1>8 DEF EpollWait, EUnchanged, history, dispatch
  <2>3. c \in registered /\ watched[c] = c /\ c \in edge /\ c # Unset
    BY <1>3, <1>4, <2>2, ClientsAssumption
  <2> QED BY <2>1, <2>2, <2>3
<1>9. CASE RecvAnswer \/ Hup
  <2>1. /\ epc # "wait" /\ Receive(event)
        /\ UNCHANGED <<registered, asked, cpc>>
    BY <1>9 DEF RecvAnswer, Hup, EUnchanged, history, dispatch
  <2>2. c \in registered
    BY <2>1
  <2>3. CASE event = c
    <3>1. up[c] # <<>>
      BY <1>2, <2>1, <2>3, ReceiveFacts
    <3>2. up'[c] = Tail(up[c])
      BY <2>1, <2>3, <3>1, ReceiveFacts
    <3>3. Tail(up[c]) = <<>>
      BY <2>1, <2>2, <3>1, LoneAnswerIsShort
    <3> QED BY <3>2, <3>3
  <2>4. CASE event # c
    <3>1. up'[c] = up[c]
      BY <2>1, <2>4, ReceiveFacts
    <3>2. c \in edge
      BY <1>3, <1>4, <2>1, <2>2, <2>4, <3>1
    <3>3. edge' = edge \/ edge' = edge \ {event}
      BY <1>9 DEF RecvAnswer, Hup, epoll
    <3> QED BY <2>4, <3>2, <3>3
  <2> QED BY <2>3, <2>4
<1>10. CASE main
  <2>1. UNCHANGED <<registered, cpc, up, event, epc>>
    BY <1>10, MainFrame DEF registry, history, answers
  <2>2. edge \subseteq edge' /\ (asked'[c] = asked[c] \/ asked'[c] = asked[c] + 1)
    <3>1. CASE SendOperation
      BY <3>1, SendOperationFacts
    <3>2. CASE ~SendOperation
      BY <1>10, <3>2 DEF main, TypeOperation, SkipRow, FindRow
    <3> QED BY <3>1, <3>2
  <2>3. asked[c] \in Nat
    BY DEF BaseInv, StreamType
  <2>4. asked[c] = 0 => up[c] = <<>>
    BY <2>1, LoneAnswerIsShort
  <2>5. asked[c] = 1
    BY <2>1, <2>2, <2>3, <2>4
  <2> QED BY <1>3, <1>4, <2>1, <2>2, <2>5
<1>11. CASE UNCHANGED vars
  BY <1>3, <1>4, <1>11 DEF vars, registry, history, clients, epoll, answers,
     dispatch
<1> QED BY <1>6, <1>7, <1>8, <1>9, <1>10, <1>11
        DEF Next, run_server_ip, run_server_name, run_answer_server, Acceptors

-----------------------------------------------------------------------------
(* Answers are printed again for the ends of leavers only.                 *)

LeaverCounts ==
    /\ IsFiniteSet(Leavers) /\ IsFiniteSet(Ends) /\ IsFiniteSet(Resets)
    /\ Cardinality(Leavers) \in Nat
    /\ Cardinality(Ends) \in 0 .. Cardinality(Leavers)
    /\ Cardinality(Resets) \in 0 .. Cardinality(Leavers)

LEMMA LeaversAreFinite == LeaverCounts
<1>1. /\ IsFiniteSet(Clients)
      /\ Leavers \subseteq Clients /\ Ends \subseteq Leavers
      /\ Resets \subseteq Leavers
  BY ClientsAssumption DEF Leavers, Ends, Resets
<1>2. IsFiniteSet(Leavers)
  BY <1>1, FS_Subset
<1>3. /\ IsFiniteSet(Ends) /\ Cardinality(Ends) <= Cardinality(Leavers)
      /\ IsFiniteSet(Resets) /\ Cardinality(Resets) <= Cardinality(Leavers)
  BY <1>1, <1>2, FS_Subset
<1>4. /\ Cardinality(Leavers) \in Nat /\ Cardinality(Ends) \in Nat
      /\ Cardinality(Resets) \in Nat
  BY <1>2, <1>3, FS_CardinalityType
<1> QED BY <1>2, <1>3, <1>4 DEF LeaverCounts

LEMMA LeaversAreFinitePrimed == LeaverCounts'
  BY LeaversAreFinite, PTL

(* What a step may do to the leavers' ends and resets.                     *)
Shrink == Leavers' = Leavers /\ Ends' \subseteq Ends /\ Resets' \subseteq Resets

Leave(c) == /\ c \notin Leavers /\ Leavers' = Leavers \cup {c}
            /\ Ends' \subseteq Ends \cup {c}
            /\ Resets' \subseteq Resets \cup {c}

ResetIt(c) == /\ Leavers' = Leavers /\ c \in Resets
              /\ Ends' \subseteq Ends \cup {c}
              /\ Resets' \subseteq Resets \ {c}

UseUp(c) == /\ Leavers' = Leavers
            /\ \/ /\ c \in Ends /\ Ends' \subseteq Ends \ {c}
                  /\ Resets' \subseteq Resets
               \/ /\ c \in Resets /\ Resets' \subseteq Resets \ {c}
                  /\ Ends' \subseteq Ends

LEMMA SetCounts ==
  ASSUME NEW S, NEW T, NEW c, IsFiniteSet(S)
  PROVE  /\ Cardinality(S) \in Nat
         /\ T \subseteq S => Cardinality(T) <= Cardinality(S)
         /\ T \subseteq S \cup {c} => Cardinality(T) <= Cardinality(S) + 1
         /\ c \in S /\ T \subseteq S \ {c} => Cardinality(T) <= Cardinality(S) - 1
         /\ c \notin S => Cardinality(S \cup {c}) = Cardinality(S) + 1
<1>1. Cardinality(S) \in Nat
  BY FS_CardinalityType
<1>2. /\ IsFiniteSet(S \cup {c})
      /\ Cardinality(S \cup {c}) =
             IF c \in S THEN Cardinality(S) ELSE Cardinality(S) + 1
  BY FS_AddElement
<1>3. /\ IsFiniteSet(S \ {c})
      /\ Cardinality(S \ {c}) =
             IF c \in S THEN Cardinality(S) - 1 ELSE Cardinality(S)
  BY FS_RemoveElement
<1>4. T \subseteq S => Cardinality(T) <= Cardinality(S)
  BY FS_Subset
<1>5. ASSUME T \subseteq S \cup {c}
      PROVE  Cardinality(T) <= Cardinality(S) + 1
  <2>1. Cardinality(T) <= Cardinality(S \cup {c}) /\ IsFiniteSet(T)
    BY <1>2, <1>5, FS_Subset
  <2>2. Cardinality(T) \in Nat
    BY <2>1, FS_CardinalityType
  <2> QED BY <1>1, <1>2, <2>1, <2>2
<1>6. ASSUME c \in S, T \subseteq S \ {c}
      PROVE  Cardinality(T) <= Cardinality(S) - 1
  <2>1. Cardinality(T) <= Cardinality(S \ {c})
    BY <1>3, <1>6, FS_Subset
  <2> QED BY <1>1, <1>3, <1>6, <2>1
<1> QED BY <1>1, <1>2, <1>4, <1>5, <1>6

LEMMA CountTokens ==
  /\ Shrink => Tokens' <= Tokens /\ Cardinality(Leavers)' = Cardinality(Leavers)
  /\ \A c : Leave(c) => /\ Tokens' <= Tokens + 2
                        /\ Cardinality(Leavers)' = Cardinality(Leavers) + 1
  /\ \A c : ResetIt(c) => /\ Tokens' <= Tokens
                          /\ Cardinality(Leavers)' = Cardinality(Leavers)
  /\ \A c : UseUp(c) => /\ Tokens' <= Tokens - 1
                        /\ Cardinality(Leavers)' = Cardinality(Leavers)
  /\ Tokens \in Nat /\ Tokens' \in Nat
  /\ Tokens <= 2 * Cardinality(Leavers)
  /\ Tokens' <= 2 * Cardinality(Leavers)'
  /\ Cardinality(Leavers) \in Nat
<1>1. LeaverCounts /\ LeaverCounts'
  BY LeaversAreFinite, LeaversAreFinitePrimed
<1>2. /\ IsFiniteSet(Ends) /\ IsFiniteSet(Resets) /\ IsFiniteSet(Leavers)
      /\ Cardinality(Ends) \in Nat /\ Cardinality(Resets) \in Nat
      /\ Cardinality(Leavers) \in Nat /\ Cardinality(Leavers') \in Nat
      /\ Cardinality(Ends') \in Nat /\ Cardinality(Resets') \in Nat
  BY <1>1 DEF LeaverCounts
<1>3. /\ Leavers' = Leavers => Cardinality(Leavers') = Cardinality(Leavers)
      /\ Cardinality(Leavers)' = Cardinality(Leavers')
  OBVIOUS
<1>5. Shrink => Tokens' <= Tokens /\ Cardinality(Leavers)' = Cardinality(Leavers)
  <2>1. Shrink => /\ Cardinality(Ends') <= Cardinality(Ends)
                  /\ Cardinality(Resets') <= Cardinality(Resets)
    BY <1>2, SetCounts DEF Shrink
  <2> QED BY <1>2, <1>3, <2>1 DEF Shrink, Tokens
<1>6. ASSUME NEW c, Leave(c)
      PROVE  /\ Tokens' <= Tokens + 2
             /\ Cardinality(Leavers)' = Cardinality(Leavers) + 1
  <2>1. Cardinality(Ends') <= Cardinality(Ends) + 1
    BY <1>2, <1>6, SetCounts DEF Leave
  <2>2. Cardinality(Resets') <= Cardinality(Resets) + 1
    BY <1>2, <1>6, SetCounts DEF Leave
  <2>3. Cardinality(Leavers') = Cardinality(Leavers) + 1
    BY <1>2, <1>6, SetCounts DEF Leave
  <2> QED BY <1>2, <2>1, <2>2, <2>3 DEF Tokens
<1>7. ASSUME NEW c, ResetIt(c)
      PROVE  /\ Tokens' <= Tokens
             /\ Cardinality(Leavers)' = Cardinality(Leavers)
  <2>1. Cardinality(Ends') <= Cardinality(Ends) + 1
    BY <1>2, <1>7, SetCounts DEF ResetIt
  <2>2. Cardinality(Resets') <= Cardinality(Resets) - 1
    BY <1>2, <1>7, SetCounts DEF ResetIt
  <2> QED BY <1>2, <1>3, <1>7, <2>1, <2>2 DEF ResetIt, Tokens
<1>8. ASSUME NEW c, UseUp(c)
      PROVE  /\ Tokens' <= Tokens - 1
             /\ Cardinality(Leavers)' = Cardinality(Leavers)
  <2>1. CASE c \in Ends /\ Ends' \subseteq Ends \ {c} /\ Resets' \subseteq Resets
    <3>1. Cardinality(Ends') <= Cardinality(Ends) - 1
      BY <1>2, <2>1, SetCounts
    <3>2. Cardinality(Resets') <= Cardinality(Resets)
      BY <1>2, <2>1, SetCounts
    <3> QED BY <1>2, <1>3, <1>8, <3>1, <3>2 DEF UseUp, Tokens
  <2>2. CASE c \in Resets /\ Resets' \subseteq Resets \ {c} /\ Ends' \subseteq Ends
    <3>1. Cardinality(Resets') <= Cardinality(Resets) - 1
      BY <1>2, <2>2, SetCounts
    <3>2. Cardinality(Ends') <= Cardinality(Ends)
      BY <1>2, <2>2, SetCounts
    <3> QED BY <1>2, <1>3, <1>8, <3>1, <3>2 DEF UseUp, Tokens
  <2> QED BY <1>8, <2>1, <2>2 DEF UseUp
<1>9. /\ Tokens \in Nat /\ Tokens' \in Nat
      /\ Tokens <= 2 * Cardinality(Leavers)
      /\ Tokens' <= 2 * Cardinality(Leavers)'
  <2>1. /\ Cardinality(Ends) <= Cardinality(Leavers)
        /\ Cardinality(Resets) <= Cardinality(Leavers)
        /\ Cardinality(Ends') <= Cardinality(Leavers')
        /\ Cardinality(Resets') <= Cardinality(Leavers')
    BY <1>1 DEF LeaverCounts
  <2> QED BY <1>2, <2>1 DEF Tokens
<1> QED BY <1>2, <1>5, <1>6, <1>7, <1>8, <1>9

(* What is sent to one that has closed resets the connection, once.        *)
LEMMA SendToTokens ==
  ASSUME NEW c \in Clients, NEW m, SendTo(c, m), UNCHANGED <<cpc, up, event>>,
         \A d \in Clients : Watched(d)' <=> Watched(d)
  PROVE  Shrink \/ ResetIt(c)
<1>1. /\ Leavers' = Leavers
      /\ \A d \in Clients : Dry(d)' <=> Dry(d)
  BY DEF Leavers, Closed, Dry
<1>2. CASE reset' = reset /\ edge' = edge
  BY <1>1, <1>2 DEF Shrink, Ends, Resets, Leavers
<1>3. CASE Closed(c) /\ ~Broken(c)
  <2>1. /\ c \in Leavers /\ c \notin reset /\ reset' = reset \cup {c}
        /\ edge' \subseteq edge \cup {c}
    BY <1>3 DEF SendTo, Broken, Leavers, Edge
  <2>2. c \in Resets
    BY <2>1 DEF Resets
  <2>3. /\ Ends' \subseteq Ends \cup {c} /\ Resets' \subseteq Resets
        /\ ~Dry(c) => c \notin Resets'
        /\ Dry(c) => c \in Ends
    BY <1>1, <2>1, <2>2 DEF Ends, Resets, Leavers
  <2>4. CASE Dry(c)
    BY <1>1, <2>3, <2>4 DEF Shrink
  <2>5. CASE ~Dry(c)
    BY <1>1, <2>2, <2>3, <2>5 DEF ResetIt
  <2> QED BY <2>4, <2>5
<1> QED BY <1>2, <1>3 DEF SendTo

LEMMA ClientTokens ==
  ASSUME BaseInv, NEW c \in Clients, Client(c) \/ Interrupted(c)
  PROVE  Shrink \/ Leave(c)
<1>1. /\ UNCHANGED <<apc, peer, registered, event>>
      /\ cpc[c] # "closed"
      /\ reset \subseteq reset' /\ edge' \subseteq edge \cup {c}
      /\ \A d \in Clients : d # c => cpc'[d] = cpc[d] /\ up'[d] = up[d]
  BY ClientFrame DEF registry, acceptors, history, answers, Client, Interrupted,
     run_client, run_client_name, Program, SendName, Compute, ReadReply, Close,
     Edge, BaseInv, StreamType
<1>2. /\ \A d \in Clients : Watched(d)' <=> Watched(d)
      /\ \A d \in Clients : d # c => (Dry(d)' <=> Dry(d))
  BY <1>1 DEF Watched, Dry
<1>3. /\ \A d \in Clients : d # c => (d \in Leavers' <=> d \in Leavers)
      /\ c \notin Leavers
  BY <1>1 DEF Leavers, Closed
<1>4. Leavers \subseteq Clients /\ Leavers' \subseteq Clients
  BY DEF Leavers
<1>5. \A d \in Clients : d # c => /\ d \in Ends' => d \in Ends
                                  /\ d \in Resets' => d \in Resets
  BY <1>1, <1>2, <1>3 DEF Ends, Resets
<1>6. Ends' \subseteq Leavers' /\ Resets' \subseteq Leavers'
  BY DEF Ends, Resets
<1>7. CASE c \in Leavers'
  BY <1>3, <1>4, <1>5, <1>6, <1>7 DEF Leave
<1>8. CASE c \notin Leavers'
  BY <1>3, <1>4, <1>5, <1>6, <1>8 DEF Shrink
<1> QED BY <1>7, <1>8

LEMMA AcceptorTokens ==
  ASSUME BaseInv, WatchInv, ~overlap, NEW a \in Acceptors, AcceptLoop(a)
  PROVE  Shrink \/ \E c \in Clients : ResetIt(c)
<1>1. UNCHANGED <<cpc, event>>
  BY DEF AcceptLoop, Accept, RecvName, RecvNothing, TableStep, StoreEv, Watch,
     Reply, AUnchanged, clients, answers
<1>2. Leavers' = Leavers
  BY <1>1 DEF Leavers, Closed
<1>3. CASE TableStep(a) \/ StoreEv(a) \/ Watch(a)
  <2>1. a \in Registering
    BY <1>3 DEF TableStep, Register, StoreName, StoreFd, LoadNumber,
       StoreNumber, StoreEv, Watch, AStep, Registering
  <2>2. /\ \A b \in Acceptors : b # a =>
               apc[b] \notin {"extra", "watch", "load", "store"}
        /\ peer[a] \in Clients /\ peer[a] \notin registered
        /\ \A b \in Acceptors : peer[b] = peer[a] => b = a
    BY <2>1, AloneFacts
  <2>3. CASE TableStep(a) \/ StoreEv(a)
    <3>1. /\ UNCHANGED <<peer, up, reset, edge>>
          /\ apc'[a] \in {"fd", "extra", "watch", "store", "accept"}
          /\ apc[a] = "load" <=> apc'[a] = "store"
          /\ apc'[a] = "accept" => /\ apc[a] = "store"
                                   /\ registered' = registered \cup {peer[a]}
          /\ apc'[a] # "accept" => apc[a] # "store" /\ registered' = registered
          /\ \A b \in Acceptors : b # a => apc'[b] = apc[b]
      BY <2>3 DEF TableStep, Register, StoreName, StoreFd, LoadNumber,
         StoreNumber, StoreEv, AStep, history, BaseInv, RegistryInv,
         RegistryType
    <3>2. \A d \in Clients : Watched(d)' <=> Watched(d)
      BY <2>2, <3>1 DEF Watched
    <3> QED BY <1>1, <1>2, <3>1, <3>2 DEF Shrink, Ends, Resets, Dry, Leavers
  <2>4. CASE Watch(a)
    <3>1. /\ UNCHANGED <<peer, up, reset, registered>>
          /\ apc[a] = "watch" /\ apc'[a] = "load"
          /\ \A b \in Acceptors : b # a => apc'[b] = apc[b]
          /\ edge \subseteq edge' /\ edge' \subseteq edge \cup {peer[a]}
      BY <2>4 DEF Watch, AStep, clients, history, BaseInv, RegistryInv,
         RegistryType
    <3>2. ~Watched(peer[a]) /\ event # peer[a]
      BY <2>2, <3>1 DEF Watched, WatchInv
    <3>3. \A d \in Clients : Watched(d) => Watched(d)'
      BY <2>2, <3>1 DEF Watched
    <3>4. \A d \in Clients : d # peer[a] => (d \in edge' <=> d \in edge)
      BY <3>1
    <3>5. \A d \in Clients : Dry(d)' <=> Dry(d)
      BY <1>1, <3>1 DEF Dry
    <3>6. ~Dry(peer[a])
      BY <3>2 DEF Dry
    <3> QED BY <1>2, <3>1, <3>2, <3>3, <3>4, <3>5, <3>6
            DEF Shrink, Ends, Resets, Leavers
  <2> QED BY <1>3, <2>3, <2>4
<1>4. CASE Accept(a) \/ RecvName(a) \/ RecvNothing(a) \/ Reply(a)
  <2>1. /\ UNCHANGED registered
        /\ \A b \in Acceptors : b # a => apc'[b] = apc[b] /\ peer'[b] = peer[b]
        /\ apc[a] \in {"wait", "recv", "accept", "reject"}
        /\ apc'[a] \in {"recv", "name", "reject", "wait"}
    BY <1>4 DEF Accept, RecvName, RecvNothing, Reply, Hear, AStep, history,
       BaseInv, RegistryInv, RegistryType
  <2>2. \A d \in Clients : Watched(d)' <=> Watched(d)
    BY <2>1 DEF Watched
  <2>3. CASE Reply(a)
    <3>1. /\ UNCHANGED <<cpc, up, event>>
          /\ \E m \in Replies : SendTo(peer[a], m)
          /\ peer[a] \in Clients
      BY <1>1, <2>3, PeerIsKnown DEF Reply, AStep, Replies
    <3> QED BY <2>2, <3>1, SendToTokens
  <2>4. CASE Accept(a) \/ RecvName(a) \/ RecvNothing(a)
    <3>1. UNCHANGED <<edge, reset>>
      BY <2>4 DEF Accept, RecvName, RecvNothing
    <3>2. \A d \in Clients : d = event => up'[d] = up[d]
      <4>1. CASE RecvName(a)
        <5>1. Early(peer[a]) /\ peer[a] \in Clients
          BY <4>1 DEF RecvName, Early, BaseInv, RegistryInv, PeersInv, Signing
        <5>2. peer[a] # event
          BY <5>1 DEF BaseInv, StageInv, Unknown
        <5> QED BY <4>1, <5>2 DEF RecvName, BaseInv, StreamType
      <4>2. CASE Accept(a) \/ RecvNothing(a)
        BY <4>2 DEF Accept, RecvNothing
      <4> QED BY <2>4, <4>1, <4>2
    <3> QED BY <1>1, <1>2, <2>2, <3>1, <3>2
            DEF Shrink, Ends, Resets, Dry, Leavers
  <2> QED BY <1>4, <2>3, <2>4
<1> QED BY <1>3, <1>4 DEF AcceptLoop

LEMMA EpollTokens ==
  ASSUME BaseInv, WatchInv, ~overlap, EpollWait
  PROVE  Shrink
<1>1. PICK c \in edge :
        /\ edge' = edge \ {c}
        /\ IF watched[c] = Unset \/ (up[c] = <<>> /\ ~Closed(c))
           THEN UNCHANGED <<epc, event>>
           ELSE /\ event' = watched[c]
                /\ epc' = IF HangsUp(c) THEN "hup" ELSE "recv"
  BY DEF EpollWait
<1>2. /\ epc = "wait"
      /\ UNCHANGED <<apc, peer, registered, cpc, up, reset>>
  BY DEF EpollWait, EUnchanged, acceptors, history
<1>3. c \in Clients /\ watched[c] = c /\ event = NoClient /\ c # Unset
  BY <1>2, ClientsAssumption DEF BaseInv, StreamType, StageInv, WatchInv
<1>4. \A d \in Clients : Watched(d)' <=> Watched(d)
  BY <1>2 DEF Watched
<1>5. Leavers' = Leavers
  BY <1>2 DEF Leavers, Closed
<1>6. \A d \in Clients : ~Dry(d) /\ (Dry(d)' => d = c)
  BY <1>1, <1>3, ClientsAssumption DEF Dry
<1> QED BY <1>1, <1>2, <1>4, <1>5, <1>6 DEF Shrink, Ends, Resets, Leavers

(* Reading at the end of a stream uses the end up, or the reset.           *)
LEMMA AnswerTokens ==
  ASSUME BaseInv, WatchInv, ~overlap, RecvAnswer \/ Hup
  PROVE  IF up[event] = <<>> THEN UseUp(event) ELSE Shrink
<1>1. /\ epc # "wait" /\ Receive(event) /\ event' = NoClient
      /\ UNCHANGED <<apc, peer, registered, cpc, reset>>
  BY DEF RecvAnswer, Hup, Receive, EUnchanged, acceptors, history
<1>2. PICK c \in Clients : c = event
  BY <1>1, EventIsKnown
<1>3. /\ \A d \in Clients : Watched(d)' <=> Watched(d)
      /\ Leavers' = Leavers
      /\ \A d \in Clients : ~Dry(d)' /\ (Dry(d) => d = c)
      /\ edge' \subseteq edge
  BY <1>1, <1>2, ClientsAssumption
     DEF Watched, Leavers, Closed, Dry, RecvAnswer, Hup, epoll
<1>4. \A d \in Clients : d # c => (d \in edge' <=> d \in edge)
  BY <1>2 DEF RecvAnswer, Hup, epoll
<1>5. /\ \A d \in Clients : d # c => /\ d \in Ends' => d \in Ends
                                     /\ d \in Resets' => d \in Resets
      /\ c \in Ends' => c \in Ends
      /\ c \in Resets' => c \in Resets
  BY <1>1, <1>3, <1>4 DEF Ends, Resets, Leavers
<1>6. Ends' \subseteq Ends /\ Resets' \subseteq Resets
  BY <1>5 DEF Ends, Resets, Leavers
<1>7. CASE up[event] = <<>>
  <2>1. c \in Leavers /\ Dry(c) /\ Watched(c)
    BY <1>1, <1>2, <1>7, ReceiveFacts DEF Leavers, Dry, WatchInv
  <2>2. c \in Ends
    BY <2>1 DEF Ends
  <2>3. CASE c \in edge
    <3>1. c \in reset /\ c \in Resets
      BY <2>1, <2>3 DEF WatchInv, Resets
    <3>2. c \notin Resets'
      BY <1>1, <1>3, <3>1 DEF Resets
    <3> QED BY <1>2, <1>3, <1>6, <1>7, <3>1, <3>2 DEF UseUp
  <2>4. CASE c \notin edge
    <3>1. c \notin Ends'
      BY <1>3, <2>1, <2>4 DEF Ends
    <3> QED BY <1>2, <1>3, <1>6, <1>7, <2>2, <3>1 DEF UseUp
  <2> QED BY <2>3, <2>4
<1>8. CASE up[event] # <<>>
  BY <1>3, <1>6, <1>8 DEF Shrink
<1> QED BY <1>7, <1>8

LEMMA MainTokens ==
  ASSUME BaseInv, main
  PROVE  Shrink \/ \E c \in Clients : ResetIt(c)
<1>1. UNCHANGED <<apc, peer, registered, cpc, up, event>>
  BY MainFrame DEF registry, acceptors, history, answers
<1>2. \A d \in Clients : Watched(d)' <=> Watched(d)
  BY <1>1 DEF Watched
<1>3. CASE reset' = reset /\ edge' = edge
  BY <1>1, <1>2, <1>3 DEF Shrink, Ends, Resets, Dry, Leavers, Closed
<1>4. CASE SendOperation /\ client_fd[Row] \in Clients
  BY <1>1, <1>2, <1>4, SendToTokens DEF SendOperation
<1> QED BY <1>3, <1>4 DEF main, TypeOperation, SkipRow, FindRow, SendOperation

LEMMA PrintKept ==
  ASSUME BaseInv, PlaceInv, WatchInv, PrintInv, [Next]_vars
  PROVE  PrintInv'
<1> SUFFICES ASSUME ~overlap', NEW k \in Ops
             PROVE  (printed[k])' + Tokens' <= 1 + 2 * Cardinality(Leavers)'
  BY DEF PrintInv
<1>1. ~overlap
  BY MonotoneFacts
<1>2. /\ printed[k] + Tokens <= 1 + 2 * Cardinality(Leavers)
      /\ printed \in [Ops -> Nat] /\ printed[k] \in Nat
      /\ Tokens \in Nat /\ Tokens' \in Nat /\ Cardinality(Leavers) \in Nat
  BY <1>1, CountTokens DEF PrintInv, BaseInv, StreamType
<1>3. ASSUME Shrink \/ \E c \in Clients : Leave(c) \/ ResetIt(c)
      PROVE  printed[k] + Tokens' <= 1 + 2 * Cardinality(Leavers)'
  <2>1. CASE Shrink
    BY <1>2, <2>1, CountTokens
  <2>2. ASSUME NEW c \in Clients, Leave(c)
        PROVE  printed[k] + Tokens' <= 1 + 2 * Cardinality(Leavers)'
    <3>1. /\ Tokens' <= Tokens + 2
          /\ Cardinality(Leavers)' = Cardinality(Leavers) + 1
      BY <2>2, CountTokens
    <3> QED BY <1>2, <3>1
  <2>3. ASSUME NEW c \in Clients, ResetIt(c)
        PROVE  printed[k] + Tokens' <= 1 + 2 * Cardinality(Leavers)'
    <3>1. /\ Tokens' <= Tokens
          /\ Cardinality(Leavers)' = Cardinality(Leavers)
      BY <2>3, CountTokens
    <3> QED BY <1>2, <3>1
  <2> QED BY <1>3, <2>1, <2>2, <2>3
<1>4. ASSUME NEW c \in Clients, Client(c) \/ Interrupted(c)
      PROVE  (printed[k])' + Tokens' <= 1 + 2 * Cardinality(Leavers)'
  <2>1. printed' = printed
    BY <1>4, ClientFrame DEF answers
  <2> QED BY <1>3, <1>4, <2>1, ClientTokens
<1>5. ASSUME NEW a \in Acceptors, AcceptLoop(a)
      PROVE  (printed[k])' + Tokens' <= 1 + 2 * Cardinality(Leavers)'
  <2>1. printed' = printed
    BY <1>5 DEF AcceptLoop, Accept, RecvName, RecvNothing, TableStep, StoreEv,
       Watch, Reply, AUnchanged, answers
  <2> QED BY <1>1, <1>3, <1>5, <2>1, AcceptorTokens
<1>6. CASE EpollWait
  <2>1. printed' = printed
    BY <1>6 DEF EpollWait
  <2> QED BY <1>1, <1>3, <1>6, <2>1, EpollTokens
<1>7. CASE main
  <2>1. printed' = printed
    BY <1>7, MainFrame DEF answers
  <2> QED BY <1>3, <1>7, <2>1, MainTokens
<1>8. CASE UNCHANGED vars
  <2>1. printed' = printed /\ Shrink
    BY <1>8 DEF vars, registry, acceptors, history, clients, epoll, answers,
       Shrink, Ends, Resets, Leavers, Closed, Watched, Dry
  <2> QED BY <1>3, <2>1
<1>9. CASE RecvAnswer \/ Hup
  <2>1. epc # "wait" /\ Receive(event)
    BY <1>9 DEF RecvAnswer, Hup
  <2>2. PICK m : m = ebuf'
    OBVIOUS
  <2>3. /\ m \in Ops => printed' = [printed EXCEPT ![m] = @ + 1]
        /\ m \notin Ops => printed' = printed
    BY <2>1, <2>2, ReceiveFacts
  <2>4. printed'[k] \in {printed[k], printed[k] + 1} /\ (k # m => printed'[k] = printed[k])
    BY <1>2, <2>3
  <2>5. CASE up[event] = <<>>
    <3>1. /\ Tokens' <= Tokens - 1
          /\ Cardinality(Leavers)' = Cardinality(Leavers)
      BY <1>1, <1>9, <2>5, AnswerTokens, CountTokens
    <3>2. printed'[k] <= printed[k] + 1 /\ printed'[k] \in Nat
      BY <1>2, <2>4
    <3> QED BY <1>2, <3>1, <3>2
  <2>6. CASE up[event] # <<>>
    <3>1. /\ Tokens' <= Tokens /\ Tokens' <= 2 * Cardinality(Leavers)'
          /\ Cardinality(Leavers)' = Cardinality(Leavers)
      BY <1>1, <1>9, <2>6, AnswerTokens, CountTokens
    <3>2. CASE k # m
      BY <1>2, <2>4, <3>1, <3>2
    <3>3. CASE k = m
      <4>1. PICK c \in Clients : c = event /\ up[c] \in Seq(Ops)
        BY <2>1, EventIsKnown
      <4>2. k = Head(up[c])
        BY <2>1, <2>2, <2>6, <3>3, <4>1, ReceiveFacts
      <4>3. From(c, k)
        BY <2>6, <4>1, <4>2, TailFacts DEF From
      <4>4. printed[k] = 0
        BY <4>3, SolePlace
      <4>5. printed'[k] <= 1 /\ printed'[k] \in Nat
        BY <2>4, <4>4
      <4> QED BY <1>2, <3>1, <4>5
    <3> QED BY <3>2, <3>3
  <2> QED BY <2>5, <2>6
<1> QED BY <1>4, <1>5, <1>6, <1>7, <1>8, <1>9
        DEF Next, run_server_ip, run_server_name, run_answer_server, Acceptors

-----------------------------------------------------------------------------
(* The theorems.                                                           *)

LEMMA InitInv == Init => IInv
<1> SUFFICES ASSUME Init PROVE IInv OBVIOUS
<1>1. BaseInv
  BY InitBase
<1>2. /\ \A c \in Clients : up[c] = <<>> /\ down[c] = <<>> /\ ~Closed(c)
      /\ lost = {} /\ op_number = 0 /\ ebuf \notin Ops
      /\ \A k \in Ops : printed[k] = 0
      /\ op_number <= MaxOps
  BY ReplyIsNoOp, BoundsAssumption DEF Init, Closed
<1>3. \A c \in Clients : \A k \in Ops : /\ ~To(c, k) /\ ~From(c, k)
                                        /\ Once(down[c], k) /\ Once(up[c], k)
  BY <1>2 DEF To, From, Range, Once
<1>4. ASSUME NEW k \in Ops
      PROVE  PlacesOf(k) = {}
  <2>1. PlaceFact(k)
    BY <1>1, PlaceFacts
  <2> QED BY <1>2, <1>3, <2>1 DEF PlaceFact
<1>5. PlaceInv
  BY <1>2, <1>3, <1>4 DEF PlaceInv
<1>6. AskedInv
  BY <1>3 DEF AskedInv, With
<1>7. Leavers = {}
  BY <1>2 DEF Leavers
<1>8. WatchInv
  BY <1>7, ClientsAssumption
     DEF WatchInv, Init, RegistryInit, Watched, Dry
<1>9. LoneAnswerIsRead /\ LostInv
  BY <1>2 DEF LoneAnswerIsRead, LostInv
<1>10. PrintInv
  <2>1. Ends = {} /\ Resets = {}
    BY <1>7 DEF Ends, Resets
  <2>2. Tokens = 0 /\ Cardinality(Leavers) = 0
    BY <1>7, <2>1, FS_EmptySet DEF Tokens
  <2> QED BY <1>2, <2>2 DEF PrintInv
<1> QED BY <1>1, <1>5, <1>6, <1>8, <1>9, <1>10 DEF IInv, BaseInv

LEMMA NextInv == IInv /\ [Next]_vars => IInv'
<1> SUFFICES ASSUME IInv, [Next]_vars PROVE IInv' OBVIOUS
<1>1. /\ BaseInv /\ PlaceInv /\ AskedInv /\ WatchInv
      /\ LoneAnswerIsRead /\ LostInv /\ PrintInv
  BY DEF IInv, BaseInv
<1>2. BaseInv' /\ PlaceInv' /\ AskedInv' /\ WatchInv'
  <2>1. ASSUME NEW c \in Clients, Client(c) \/ Interrupted(c)
        PROVE  BaseInv' /\ PlaceInv' /\ AskedInv' /\ WatchInv'
    BY <1>1, <2>1, ClientBase, ClientPlaces, ClientWatch
  <2>2. ASSUME NEW a \in Acceptors, AcceptLoop(a)
        PROVE  BaseInv' /\ PlaceInv' /\ AskedInv' /\ WatchInv'
    BY <1>1, <2>2, AcceptorBase, AcceptorPlaces, AcceptorWatch
  <2>3. CASE EpollWait
    BY <1>1, <2>3, EpollWaitBase, EpollPlaces, EpollWatch
  <2>4. CASE RecvAnswer \/ Hup
    BY <1>1, <2>4, AnswerBase, AnswerPlaces, AnswerWatch
  <2>5. CASE main
    BY <1>1, <2>5, MainBase, MainPlaces, MainWatch
  <2>6. CASE UNCHANGED vars
    <3>1. BaseInv'
      BY <1>1, <2>6, StutterBase
    <3>2. UNCHANGED <<op_number, ebuf, printed, lost, asked, up, down>>
      BY <2>6 DEF vars, clients, answers, dispatch
    <3>3. PlaceInv' /\ AskedInv'
      BY <1>1, <3>1, <3>2, NothingMoves DEF OnceInv, To, From, PlaceInv
    <3>4. WatchInv'
      BY <1>1, <2>6 DEF WatchInv, Watched, Dry, Leavers, Closed, vars, registry,
         table, acceptors, history, clients, epoll, answers, dispatch
    <3> QED BY <3>1, <3>3, <3>4
  <2> QED BY <2>1, <2>2, <2>3, <2>4, <2>5, <2>6
          DEF Next, run_server_ip, run_server_name, run_answer_server, Acceptors
<1>3. LoneAnswerIsRead' /\ LostInv' /\ PrintInv'
  BY <1>1, LoneAnswerKept, LostKept, PrintKept
<1> QED BY <1>2, <1>3 DEF IInv, BaseInv

(* Whatever the threads and the clients do, the invariant holds.           *)
THEOREM Invariance == Spec => []IInv
  BY InitInv, NextInv, PTL DEF Spec

(* The table of the stream server: client_number never runs ahead of the   *)
(* registrations, and as long as none overlapped every client registered   *)
(* has a row of its own and a name of its own (server.c:91-107 and 166-182)*)
THEOREM RegistryStaysSound == Spec => []RegistryIsSound
<1>1. IInv => RegistryIsSound
  BY SoundFromInv DEF IInv
<1> QED BY <1>1, Invariance, PTL

(* Each operation that was sent is in one place, it is lost only when a    *)
(* client has left or registrations overlapped, an answer is printed again *)
(* at most twice for a leaver, and the answer of a client that was asked   *)
(* once is read (server.c:198-223 and 263-280).                            *)
THEOREM AnswersGetRead == Spec => []AnswersAreRead
<1>1. IInv => AnswersAreRead
  <2> SUFFICES ASSUME IInv PROVE AnswersAreRead
    OBVIOUS
  <2>1. ASSUME NEW k \in 0 .. op_number - 1
        PROVE  Cardinality(PlacesOf(k)) = 1
    <3>1. PICK p : PlacesOf(k) = {p}
      BY DEF IInv, PlaceInv
    <3> QED BY <3>1, FS_Singleton
  <2>2. lost # {} /\ ~overlap => Leavers # {}
    BY DEF IInv, LostInv
  <2>3. ASSUME ~overlap, NEW k \in Ops
        PROVE  printed[k] <= 1 + 2 * Cardinality(Leavers)
    <3>1. /\ printed[k] + Tokens <= 1 + 2 * Cardinality(Leavers)
          /\ printed[k] \in Nat
      BY <2>3 DEF IInv, PrintInv, StreamType
    <3>2. Tokens \in Nat /\ Cardinality(Leavers) \in Nat
      BY CountTokens
    <3> QED BY <3>1, <3>2
  <2>4. LoneAnswerIsRead
    BY DEF IInv
  <2> QED BY <2>1, <2>2, <2>3, <2>4 DEF AnswersAreRead, OperationsInOnePlace
<1> QED BY <1>1, Invariance, PTL
=============================================================================

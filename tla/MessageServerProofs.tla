------------------------ MODULE MessageServerProofs ------------------------
(***************************************************************************)
(* Proofs about MessageServer, for any number of servers that follow or    *)
(* overlap each other, any clients and command lines, any length of the    *)
(* queues and any number of pipes.                                         *)
(***************************************************************************)
EXTENDS MessageServer, FiniteSetTheorems, SequenceTheorems,
        WellFoundedInduction, TLAPS

-----------------------------------------------------------------------------
(* The inductive invariant.                                                *)

Active(s) == spc[s] \notin {"off", "gone"}
Holds(s)  == spc[s] \in {"add", "answer", "faulted"}

Type ==
    /\ TypeOK
    /\ \A s \in Servers :
        /\ Holds(s) => hand[s] \in Messages
        /\ q_id[s] = 0 <=> spc[s] = "off"
    /\ made <= Cardinality({s \in Servers : spc[s] # "off"})

(* At most one server is at work, and the queue that is there is its own.  *)
AloneInv ==
    /\ current = 0 => box = <<>>
    /\ \A s \in Servers : Active(s) => q_id[s] = current
    /\ \A s, t \in Servers : q_id[s] = q_id[t] /\ q_id[s] # 0 => s = t

(* Client c has the number id with the server of the current queue.        *)
Enlisted(c, id) ==
    \A s \in Servers : q_id[s] = current =>
        id + 1 \in DOMAIN info[s] /\ info[s][id + 1] = c

(* What client c may have sent, other than END, that has no answer yet.    *)
Fits(c, m) ==
    /\ server_q[c] = current
    /\ cpc[c] = "gone" => c \notin queues
    /\ \/ m.type = 10 /\ cpc[c] \in {"awaitId", "gone"}
       \/ /\ m.type \in {2, 3, 4} /\ cpc[c] \in {"await", "gone"}
          /\ m.n = at[c] /\ Enlisted(c, m.id)

(* What may be in the queue of client c: what it waits for.                *)
Suits(c, m) ==
    /\ m.from = c
    /\ \/ /\ cpc[c] = "awaitId" /\ m.type = 1
          /\ server_q[c] = current => Enlisted(c, m.id)
       \/ cpc[c] = "await" /\ m.type = 2 /\ m.n = at[c]

Held(c)   == \E s \in Servers : Holds(s) /\ hand[s].from = c
InMail(c) == mail[c] # <<>>

(* What a client is waiting for is in the server's queue, in its hand or   *)
(* in the client's own queue, and in one of these only.                    *)
Trail(c) ==
    /\ \A i, j \in InBox(c) : i = j
    /\ \A i \in InBox(c) : ~Held(c) /\ ~InMail(c) /\ Fits(c, box[i])
    /\ \A s \in Servers : Holds(s) /\ hand[s].from = c =>
           ~InMail(c) /\ Fits(c, hand[s])
    /\ InMail(c) => Len(mail[c]) = 1 /\ Suits(c, mail[c][1])
    /\ Waiting(c) /\ server_q[c] = current =>
           Held(c) \/ InMail(c) \/ InBox(c) # {}

Known(c) ==
    /\ cpc[c] \notin {"start", "gone"} => server_q[c] # 0
    /\ cpc[c] \in {"created", "register", "awaitId", "ask", "await"} =>
           c \in queues
    /\ cpc[c] \in {"ask", "await"} /\ server_q[c] = current =>
           Enlisted(c, client_id[c])

(* The rounds of the server's loop, and what END leaves in the queue.      *)
RoundInv ==
    \A s \in Servers :
        /\ spc[s] = "add" => hand[s].type = 10
        /\ spc[s] = "answer" => hand[s].type \in {2, 3, 4}
        /\ spc[s] \in {"add", "poll", "answer"} => ~empty[s]
        /\ spc[s] = "poll" /\ ended[s] =>
               \A i \in OfType(box, 10) : box[i].late
        /\ spc[s] = "clean" => ended[s] /\ \A i \in DOMAIN box : box[i].late

OrderInv == AloneInv /\ RoundInv /\ \A c \in Clients : Trail(c) /\ Known(c)

IInv == Type /\ (~inherited => OrderInv)
-----------------------------------------------------------------------------
(* Sequences and positions.                                                *)

(* Every nonempty set of naturals has a least element.                     *)
LEMMA LeastElement ==
  ASSUME NEW T \in SUBSET Nat, T # {}
  PROVE  \E m \in T : \A n \in T : m <= n
<1> DEFINE R == StrictSubsetOrdering(Nat)
           U == {0 .. n : n \in T}
<1>1. IsWellFoundedOn(R, FiniteSubsetsOf(Nat))
  BY FS_StrictSubsetOrderingWellFounded
<1>2. U \subseteq FiniteSubsetsOf(Nat) /\ U # {}
  <2>1. ASSUME NEW n \in T
        PROVE  IsFiniteSet(0 .. n) /\ 0 .. n \in SUBSET Nat
    BY FS_Interval
  <2> QED BY <2>1 DEF FiniteSubsetsOf
<1> HIDE DEF R
<1>3. \E x \in U : \A y \in U : ~ (<<y, x>> \in R)
  <2> HIDE DEF U
  <2> QED BY <1>1, <1>2, WFMin
<1>4. PICK m \in T : \A n \in T : <<0 .. n, 0 .. m>> \notin R
  BY <1>3
<1>5. ASSUME NEW n \in T, n < m
      PROVE  FALSE
  <2>1. 0 .. n \subseteq 0 .. m /\ 0 .. n # 0 .. m
    BY <1>5
  <2>2. 0 .. n \in SUBSET Nat /\ 0 .. m \in SUBSET Nat
    BY <1>5
  <2>3. <<0 .. n, 0 .. m>> \in R
    BY <2>1, <2>2 DEF R, StrictSubsetOrdering
  <2> QED BY <1>4, <2>3
<1> QED BY <1>5

LEMMA FirstFacts ==
  ASSUME NEW I \in SUBSET Nat, I # {}
  PROVE  First(I) \in I /\ \A j \in I : First(I) <= j
<1>1. \E i \in I : \A j \in I : i <= j
  BY LeastElement
<1> QED BY <1>1 DEF First

(* What follows the place k moves up by one.                               *)
LEMMA RemoveAtFacts ==
  ASSUME NEW S, NEW q \in Seq(S), NEW k \in DOMAIN q
  PROVE  /\ RemoveAt(q, k) \in Seq(S) /\ Len(RemoveAt(q, k)) = Len(q) - 1
         /\ \A i \in DOMAIN RemoveAt(q, k) :
                RemoveAt(q, k)[i] = q[IF i < k THEN i ELSE i + 1]
<1>1. /\ Len(q) \in Nat /\ k \in 1 .. Len(q) /\ DOMAIN q = 1 .. Len(q)
  OBVIOUS
<1> DEFINE a == SubSeq(q, 1, k - 1)
           b == SubSeq(q, k + 1, Len(q))
<1>2. /\ a \in Seq(S) /\ Len(a) = k - 1
      /\ \A i \in 1 .. k - 1 : a[i] = q[i]
  BY <1>1, SubSeqProperties
<1>3. /\ b \in Seq(S) /\ Len(b) = Len(q) - k
      /\ \A i \in 1 .. Len(q) - k : b[i] = q[i + k]
  BY <1>1, SubSeqProperties
<1> HIDE DEF a, b
<1>4. /\ a \o b \in Seq(S) /\ Len(a \o b) = Len(a) + Len(b)
      /\ \A i \in 1 .. Len(a) + Len(b) :
             (a \o b)[i] = IF i <= Len(a) THEN a[i] ELSE b[i - Len(a)]
  BY <1>2, <1>3, ConcatProperties
<1>5. Len(a) + Len(b) = Len(q) - 1
  BY <1>1, <1>2, <1>3
<1>6. ASSUME NEW i \in 1 .. Len(q) - 1
      PROVE  (a \o b)[i] = q[IF i < k THEN i ELSE i + 1]
  <2>1. (a \o b)[i] = IF i <= k - 1 THEN a[i] ELSE b[i - (k - 1)]
    BY <1>2, <1>4, <1>5
  <2>2. CASE i < k
    <3>1. i \in 1 .. k - 1
      BY <1>1, <2>2
    <3> QED BY <1>2, <2>1, <2>2, <3>1
  <2>3. CASE ~(i < k)
    <3>1. /\ i - (k - 1) \in 1 .. Len(q) - k /\ ~(i <= k - 1)
          /\ i - (k - 1) + k = i + 1
      BY <1>1, <2>3
    <3> QED BY <1>3, <2>1, <2>3, <3>1
  <2> QED BY <2>2, <2>3
<1>7. RemoveAt(q, k) = a \o b
  BY DEF RemoveAt, a, b
<1>8. DOMAIN RemoveAt(q, k) = 1 .. Len(q) - 1
  <2>1. PICK r \in Seq(S) : r = a \o b
    BY <1>4
  <2>2. DOMAIN r = 1 .. Len(r)
    OBVIOUS
  <2> QED BY <1>4, <1>5, <1>7, <2>1, <2>2
<1> QED BY <1>4, <1>5, <1>6, <1>7, <1>8

LEMMA AppendFacts ==
  ASSUME NEW S, NEW q \in Seq(S), NEW e \in S
  PROVE  /\ Append(q, e) \in Seq(S) /\ Len(Append(q, e)) = Len(q) + 1
         /\ Len(q) \in Nat /\ DOMAIN q = 1 .. Len(q)
         /\ DOMAIN Append(q, e) = 1 .. Len(q) + 1
         /\ \A i \in 1 .. Len(q) : Append(q, e)[i] = q[i]
         /\ Append(q, e)[Len(q) + 1] = e
  BY AppendProperties

(* The lowest type is among the requests if any type is at most 6.         *)
LEMMA RequestsFound ==
  ASSUME Type, NEW i \in DOMAIN box, box[i].type <= 6
  PROVE  Requests(box) # {}
<1> DEFINE U == {box[j].type : j \in DOMAIN box}
<1>1. \A j \in DOMAIN box : box[j].type \in Nat
  <2>1. \A j \in DOMAIN box : box[j] \in Messages
    BY DEF Type, TypeOK
  <2>2. \A m \in Messages : m.type \in Nat
    BY DEF Messages
  <2> QED BY <2>1, <2>2
<1>2. U \in SUBSET Nat /\ U # {}
  BY <1>1
<1>3. \E t \in U : \A u \in U : t <= u
  <2> HIDE DEF U
  <2> QED BY <1>2, LeastElement
<1>4. PICK j \in DOMAIN box : \A l \in DOMAIN box : box[j].type <= box[l].type
  BY <1>3
<1>5. box[j].type <= 6
  BY <1>1, <1>4
<1> QED BY <1>4, <1>5 DEF Requests

-----------------------------------------------------------------------------
(* Types.                                                                  *)

LEMMA NobodyWrites == NoMessage \notin Messages /\ NoMessage.from = Nobody
  BY ProcessesAssumption DEF NoMessage, Messages

LEMMA MessageType ==
  ASSUME NEW t \in {1, 2, 3, 4, 5, 10}, NEW k \in Nat, NEW c \in Clients,
         NEW n \in Nat
  PROVE  Message(t, k, c, n) \in Messages
<1>1. (\E s \in Servers : ended[s]) \in BOOLEAN
  OBVIOUS
<1> QED BY <1>1 DEF Message, Messages

LEMMA SendType ==
  ASSUME Type, NEW m \in Messages, Send(m)
  PROVE  box' \in Seq(Messages) /\ Len(box') <= QueueMax
<1>1. box \in Seq(Messages) /\ box' = Append(box, m) /\ Len(box) < QueueMax
  BY DEF Send, Type, TypeOK
<1>2. box' \in Seq(Messages) /\ Len(box') = Len(box) + 1 /\ Len(box) \in Nat
  BY <1>1, AppendFacts
<1> QED BY <1>1, <1>2, LimitsAssumption

LEMMA TakenType ==
  ASSUME Type, NEW k \in DOMAIN box, box' = RemoveAt(box, k)
  PROVE  /\ box[k] \in Messages
         /\ box' \in Seq(Messages) /\ Len(box') <= QueueMax
         /\ Len(box) \in Nat /\ Len(box') = Len(box) - 1
         /\ \A i \in DOMAIN box' :
                box'[i] = box[IF i < k THEN i ELSE i + 1]
<1>1. box \in Seq(Messages) /\ Len(box) <= QueueMax /\ Len(box) \in Nat
  BY DEF Type, TypeOK
<1>2. /\ box' \in Seq(Messages) /\ Len(box') = Len(box) - 1
      /\ \A i \in DOMAIN box' : box'[i] = box[IF i < k THEN i ELSE i + 1]
  BY <1>1, RemoveAtFacts
<1> QED BY <1>1, <1>2, LimitsAssumption

MailType ==
    /\ mail \in [Clients -> Seq(Messages)]
    /\ \A c \in Clients :
        Len(mail[c]) <= QueueMax /\ (c \notin queues => mail[c] = <<>>)

LEMMA PostType ==
  ASSUME Type, NEW c \in Clients, NEW m \in Messages, Post(c, m),
         queues' = queues
  PROVE  MailType'
<1>1. MailType
  BY DEF Type, TypeOK, MailType
<1>2. CASE c \notin queues /\ UNCHANGED mail
  BY <1>1, <1>2 DEF MailType
<1>3. CASE /\ c \in queues /\ Len(mail[c]) < QueueMax
           /\ mail' = [mail EXCEPT ![c] = Append(@, m)]
  <2>1. mail[c] \in Seq(Messages)
    BY <1>1 DEF MailType
  <2>2. /\ Append(mail[c], m) \in Seq(Messages)
        /\ Len(Append(mail[c], m)) = Len(mail[c]) + 1 /\ Len(mail[c]) \in Nat
    BY <2>1, AppendFacts
  <2>3. Len(Append(mail[c], m)) <= QueueMax
    BY <1>3, <2>2, LimitsAssumption
  <2> QED BY <1>1, <1>3, <2>2, <2>3 DEF MailType
<1> QED BY <1>2, <1>3 DEF Post

LEMMA ReceiveType ==
  ASSUME Type, NEW c \in Clients, NEW t, Receive(c, t), queues' = queues
  PROVE  /\ MailType'
         /\ First(OfType(mail[c], t)) \in OfType(mail[c], t)
         /\ mail[c][First(OfType(mail[c], t))] \in Messages
<1>1. MailType
  BY DEF Type, TypeOK, MailType
<1>2. PICK q \in Seq(Messages) : q = mail[c]
  BY <1>1 DEF MailType
<1>3. PICK k : k = First(OfType(q, t))
  OBVIOUS
<1>4. OfType(q, t) # {} /\ mail' = [mail EXCEPT ![c] = RemoveAt(q, k)]
  BY <1>1, <1>2, <1>3 DEF Receive, MailType
<1>5. OfType(q, t) \in SUBSET Nat
  BY DEF OfType
<1>6. k \in OfType(q, t) /\ k \in DOMAIN q
  BY <1>3, <1>4, <1>5, FirstFacts DEF OfType
<1>7. RemoveAt(q, k) \in Seq(Messages) /\ Len(RemoveAt(q, k)) = Len(q) - 1
  BY <1>6, RemoveAtFacts
<1>8. Len(RemoveAt(q, k)) <= QueueMax /\ Len(q) \in Nat /\ Len(q) # 0
  <2>1. Len(q) \in Nat /\ Len(q) <= QueueMax
    BY <1>1, <1>2 DEF MailType
  <2> QED BY <1>6, <1>7, <2>1, LimitsAssumption
<1>9. q # <<>>
  BY <1>8
<1>10. c \in queues
  BY <1>1, <1>2, <1>9 DEF MailType
<1> QED BY <1>1, <1>2, <1>3, <1>4, <1>6, <1>7, <1>8, <1>10 DEF MailType

LEMMA InitType == Init => Type
<1> SUFFICES ASSUME Init PROVE Type OBVIOUS
<1>1. \A S : <<>> \in Seq(S) /\ Len(<<>>) = 0
  OBVIOUS
<1>2. Cardinality(Servers) \in Nat
  BY ProcessesAssumption, FS_CardinalityType
<1>3. {s \in Servers : spc[s] # "off"} = {}
  BY DEF Init
<1>4. Cardinality({s \in Servers : spc[s] # "off"}) = 0
  BY <1>3, FS_EmptySet
<1>5. /\ mail \in [Clients -> Seq(Messages)] /\ box \in Seq(Messages)
      /\ Len(box) = 0 /\ info \in [Servers -> Seq(Clients)]
      /\ \A c \in Clients : mail[c] = <<>> /\ Len(mail[c]) = 0
  BY <1>1 DEF Init
<1>6. /\ spc \in [Servers -> ServerPlaces] /\ q_id \in [Servers -> 0 .. made]
      /\ cpc \in [Clients -> ClientPlaces] /\ server_q \in [Clients -> 0 .. made]
      /\ current \in 0 .. made /\ made \in 0 .. Cardinality(Servers)
  BY <1>2 DEF Init, ServerPlaces, ClientPlaces
<1>7. /\ ended \in [Servers -> BOOLEAN] /\ empty \in [Servers -> BOOLEAN]
      /\ client_id \in [Clients -> Nat] /\ program \in [Clients -> Programs]
      /\ at \in [Clients -> Nat \ {0}] /\ queues \subseteq Clients
      /\ inherited \in BOOLEAN
  <2>1. /\ client_id \in [Clients -> Nat] /\ at \in [Clients -> Nat \ {0}]
        /\ queues \subseteq Clients
    BY DEF Init
  <2>2. program \in [Clients -> Programs] /\ inherited \in BOOLEAN
    BY DEF Init
  <2>3. ended \in [Servers -> BOOLEAN] /\ empty \in [Servers -> BOOLEAN]
    BY DEF Init
  <2> QED BY <2>1, <2>2, <2>3
<1>8. 0 <= QueueMax /\ made = 0
  BY LimitsAssumption DEF Init
<1>9. /\ hand \in [Servers -> Messages \cup {NoMessage}]
      /\ files \in [Servers -> 0 .. FilesMax]
  <2>1. 0 \in 0 .. FilesMax
    BY LimitsAssumption
  <2>2. hand = [s \in Servers |-> NoMessage] /\ files = [s \in Servers |-> 0]
    BY DEF Init
  <2>3. hand \in [Servers -> Messages \cup {NoMessage}]
    BY <2>2
  <2> QED BY <2>1, <2>2, <2>3
<1>10. TypeOK
  BY <1>5, <1>6, <1>7, <1>8, <1>9 DEF TypeOK
<1>11. \A s \in Servers : spc[s] = "off" /\ q_id[s] = 0 /\ ~Holds(s)
  BY DEF Init, Holds
<1> QED BY <1>4, <1>8, <1>10, <1>11 DEF Type

(* A step of a server other than its msgget.                               *)
LEMMA ServerKeeps ==
  ASSUME Type, NEW s \in Servers, spc[s] # "off",
         NEW p \in ServerPlaces, p # "off", spc' = [spc EXCEPT ![s] = p],
         NEW h \in Messages \cup {NoMessage}, hand' = [hand EXCEPT ![s] = h],
         p \in {"add", "answer", "faulted"} => h \in Messages,
         current' \in {current, 0},
         box' \in Seq(Messages), Len(box') <= QueueMax, MailType',
         ended' \in [Servers -> BOOLEAN], empty' \in [Servers -> BOOLEAN],
         info' \in [Servers -> Seq(Clients)],
         files' \in [Servers -> 0 .. FilesMax],
         UNCHANGED <<made, q_id, client, queues, inherited>>
  PROVE  Type'
<1>1. {t \in Servers : spc'[t] # "off"} = {t \in Servers : spc[t] # "off"}
  BY DEF Type, TypeOK
<1>2. made' <= Cardinality({t \in Servers : spc'[t] # "off"})
  BY <1>1 DEF Type
<1>3. current' \in 0 .. made'
  BY DEF Type, TypeOK
<1>4. spc' \in [Servers -> ServerPlaces]
      /\ hand' \in [Servers -> Messages \cup {NoMessage}]
  BY DEF Type, TypeOK
<1>5. TypeOK'
  BY <1>3, <1>4 DEF Type, TypeOK, MailType, client
<1>6. \A t \in Servers : /\ Holds(t)' => hand'[t] \in Messages
                         /\ q_id'[t] = 0 <=> spc'[t] = "off"
  BY DEF Type, TypeOK, Holds
<1> QED BY <1>2, <1>5, <1>6 DEF Type

(* A step of a client.                                                     *)
LEMMA ClientKeeps ==
  ASSUME Type, UNCHANGED <<current, made, server, program, inherited>>,
         box' \in Seq(Messages), Len(box') <= QueueMax, MailType',
         cpc' \in [Clients -> ClientPlaces],
         server_q' \in [Clients -> 0 .. made],
         client_id' \in [Clients -> Nat], at' \in [Clients -> Nat \ {0}],
         queues' \subseteq Clients
  PROVE  Type'
<1>1. TypeOK'
  BY DEF Type, TypeOK, MailType, server
<1> QED BY <1>1 DEF Type, Holds, server

LEMMA MailSame ==
  ASSUME Type, UNCHANGED <<mail, queues>>
  PROVE  MailType'
  BY DEF Type, TypeOK, MailType

LEMMA LoopPlaces == \A e, m : Loop(e, m) \in {"loop", "clean"}
  BY DEF Loop

(* What msgrcv of a server takes is in the box, and the box its own.       *)
LEMMA RequestTaken ==
  ASSUME Type, NEW s \in Servers, TakeRequest(s)
  PROVE  /\ First(Requests(box)) \in DOMAIN box
         /\ box' = RemoveAt(box, First(Requests(box)))
         /\ q_id[s] = current /\ spc[s] = "poll"
<1>1. Requests(<<>>) = {}
  BY DEF Requests
<1>2. q_id[s] = current /\ Requests(box) # {}
  BY <1>1 DEF TakeRequest, Inbox
<1>3. Requests(box) \in SUBSET Nat
  <2>1. DOMAIN box = 1 .. Len(box)
    BY DEF Type, TypeOK
  <2> QED BY <2>1 DEF Requests
<1>4. First(Requests(box)) \in Requests(box)
  BY <1>2, <1>3, FirstFacts
<1> QED BY <1>2, <1>4 DEF TakeRequest, Requests

LEMMA ClientTaken ==
  ASSUME Type, NEW s \in Servers, OfType(Inbox(s), 10) # {}
  PROVE  /\ First(OfType(Inbox(s), 10)) \in DOMAIN box
         /\ box[First(OfType(Inbox(s), 10))].type = 10
         /\ q_id[s] = current
<1>1. OfType(<<>>, 10) = {}
  BY DEF OfType
<1>2. q_id[s] = current /\ Inbox(s) = box
  BY <1>1 DEF Inbox
<1>3. OfType(box, 10) \in SUBSET Nat
  <2>1. DOMAIN box = 1 .. Len(box)
    BY DEF Type, TypeOK
  <2> QED BY <2>1 DEF OfType
<1>4. First(OfType(box, 10)) \in OfType(box, 10)
  BY <1>2, <1>3, FirstFacts
<1> QED BY <1>2, <1>4 DEF OfType

LEMMA OpenType ==
  ASSUME Type, NEW s \in Servers, OpenQueue(s)
  PROVE  Type'
<1> DEFINE U == {t \in Servers : spc[t] # "off"}
<1>1. /\ IsFiniteSet(U) /\ IsFiniteSet(Servers) /\ s \notin U
      /\ Cardinality(U) \in Nat /\ Cardinality(U) + 1 <= Cardinality(Servers)
      /\ Cardinality(U \cup {s}) = Cardinality(U) + 1
  <2>1. IsFiniteSet(U) /\ U \cup {s} \subseteq Servers /\ s \notin U
    <3>1. U \subseteq Servers
      OBVIOUS
    <3> QED BY <3>1, ProcessesAssumption, FS_Subset DEF OpenQueue
  <2>2. Cardinality(U \cup {s}) = Cardinality(U) + 1
    BY <2>1, FS_AddElement
  <2>3. Cardinality(U \cup {s}) <= Cardinality(Servers)
    BY <2>1, ProcessesAssumption, FS_Subset
  <2> QED BY <2>1, <2>2, <2>3, ProcessesAssumption, FS_CardinalityType
<1>2. {t \in Servers : spc'[t] # "off"} = U \cup {s}
  BY DEF OpenQueue, Type, TypeOK
<1>3. /\ made \in Nat /\ made' \in {made, made + 1} /\ current \in 0 .. made
      /\ current' \in {current, made'} /\ made <= Cardinality(U)
      /\ \E q \in {current, made'} : q # 0 /\ q_id' = [q_id EXCEPT ![s] = q]
  BY <1>1 DEF OpenQueue, Type, TypeOK
<1> HIDE DEF U
<1>4. /\ made' \in 0 .. Cardinality(Servers) /\ made' <= Cardinality(U) + 1
      /\ current' \in 0 .. made'
      /\ \A x \in 0 .. made : x \in 0 .. made'
  <2>1. ASSUME NEW m \in Nat, NEW n \in {m, m + 1}, NEW x \in Nat, NEW y \in Nat,
               m <= x, x + 1 <= y
        PROVE  n \in 0 .. y /\ n <= x + 1 /\ \A z \in 0 .. m : z \in 0 .. n
    BY <2>1
  <2>2. Cardinality(Servers) \in Nat
    BY <1>1, FS_CardinalityType
  <2>3. \A z \in 0 .. made : z \in 0 .. made'
    BY <1>1, <1>3, <2>1, <2>2
  <2>4. made' \in 0 .. Cardinality(Servers) /\ made' <= Cardinality(U) + 1
    BY <1>1, <1>3, <2>1, <2>2
  <2>5. made' \in 0 .. made'
    BY <1>3
  <2> QED BY <1>3, <2>3, <2>4, <2>5
<1>5. /\ q_id' \in [Servers -> 0 .. made'] /\ spc' \in [Servers -> ServerPlaces]
      /\ server_q' \in [Clients -> 0 .. made'] /\ inherited' \in BOOLEAN
  <2>1. \E q \in 0 .. made' : q_id' = [q_id EXCEPT ![s] = q]
    <3>1. PICK q \in {current, made'} : q_id' = [q_id EXCEPT ![s] = q]
      BY <1>3
    <3>2. made' \in 0 .. made'
      BY <1>3
    <3> QED BY <1>3, <1>4, <3>1, <3>2
  <2>2. spc' = [spc EXCEPT ![s] = "opened"] /\ server_q' = server_q
    BY DEF OpenQueue, client
  <2>3. q_id \in [Servers -> 0 .. made] /\ server_q \in [Clients -> 0 .. made]
        /\ spc \in [Servers -> ServerPlaces]
    BY DEF Type, TypeOK
  <2>4. inherited' \in BOOLEAN
    BY DEF OpenQueue, Type, TypeOK
  <2> QED BY <1>4, <2>1, <2>2, <2>3, <2>4 DEF ServerPlaces
<1>6. TypeOK'
  BY <1>4, <1>5 DEF OpenQueue, Type, TypeOK, client
<1>7. \A t \in Servers : /\ Holds(t)' => hand'[t] \in Messages
                         /\ q_id'[t] = 0 <=> spc'[t] = "off"
  BY <1>3 DEF OpenQueue, Type, TypeOK, Holds
<1>8. made' <= Cardinality({t \in Servers : spc'[t] # "off"})
  BY <1>1, <1>2, <1>4
<1> QED BY <1>6, <1>7, <1>8 DEF Type

LEMMA TakeType ==
  ASSUME Type, NEW s \in Servers, TakeRequest(s),
         NEW p \in {"answer", "faulted", "loop", "clean"},
         spc' = [spc EXCEPT ![s] = p],
         NEW h \in {hand[s], box[First(Requests(box))]},
         hand' = [hand EXCEPT ![s] = h],
         p \in {"answer", "faulted"} => h = box[First(Requests(box))],
         ended' \in [Servers -> BOOLEAN], files' \in [Servers -> 0 .. FilesMax],
         UNCHANGED <<current, made, q_id, empty, info, client, queues, mail,
                     inherited>>
  PROVE  Type'
<1>1. /\ First(Requests(box)) \in DOMAIN box
      /\ box' = RemoveAt(box, First(Requests(box))) /\ spc[s] = "poll"
  BY RequestTaken
<1>2. PICK k \in DOMAIN box : k = First(Requests(box)) /\ box' = RemoveAt(box, k)
  BY <1>1
<1>3. box' \in Seq(Messages) /\ Len(box') <= QueueMax /\ box[k] \in Messages
  BY <1>2, TakenType
<1>4. h \in Messages \cup {NoMessage} /\ p \in ServerPlaces
      /\ (p \in {"answer", "faulted"} => h \in Messages)
  BY <1>2, <1>3 DEF Type, TypeOK, ServerPlaces
<1>5. empty' \in [Servers -> BOOLEAN] /\ info' \in [Servers -> Seq(Clients)]
      /\ current' = current
  BY DEF Type, TypeOK
<1> QED BY <1>1, <1>3, <1>4, <1>5, MailSame, ServerKeeps

LEMMA HandAsItIs ==
  ASSUME Type, NEW s \in Servers
  PROVE  /\ hand = [hand EXCEPT ![s] = hand[s]]
         /\ hand[s] \in Messages \cup {NoMessage}
         /\ ended = [ended EXCEPT ![s] = ended[s]]
  BY DEF Type, TypeOK

LEMMA PollClientType ==
  ASSUME Type, NEW s \in Servers, PollClient(s)
  PROVE  Type'
<1>1. /\ spc[s] = "loop" /\ empty' = [empty EXCEPT ![s] = FALSE]
      /\ UNCHANGED <<current, made, q_id, ended, info, files, client, queues,
                     mail, inherited>>
  BY DEF PollClient, NewRound
<1>2. /\ ended' \in [Servers -> BOOLEAN] /\ empty' \in [Servers -> BOOLEAN]
      /\ info' \in [Servers -> Seq(Clients)] /\ files' \in [Servers -> 0 .. FilesMax]
      /\ box \in Seq(Messages) /\ Len(box) <= QueueMax
  BY <1>1 DEF Type, TypeOK
<1>3. CASE OfType(Inbox(s), 10) # {}
  <2>1. PICK k \in DOMAIN box : k = First(OfType(Inbox(s), 10))
    BY <1>3, ClientTaken
  <2>2. /\ box' = RemoveAt(box, k) /\ hand' = [hand EXCEPT ![s] = box[k]]
        /\ spc' = [spc EXCEPT ![s] = "add"]
    BY <1>3, <2>1 DEF PollClient
  <2>3. box[k] \in Messages /\ box' \in Seq(Messages) /\ Len(box') <= QueueMax
    BY <2>2, TakenType
  <2> QED BY <1>1, <1>2, <2>2, <2>3, MailSame, ServerKeeps DEF ServerPlaces
<1>4. CASE OfType(Inbox(s), 10) = {}
  <2>1. UNCHANGED <<hand, box>> /\ spc' = [spc EXCEPT ![s] = "poll"]
    BY <1>4 DEF PollClient
  <2> QED BY <1>1, <1>2, <2>1, HandAsItIs, MailSame, ServerKeeps DEF ServerPlaces
<1> QED BY <1>3, <1>4

LEMMA AddClientType ==
  ASSUME Type, NEW s \in Servers, AddClient(s)
  PROVE  Type'
<1>1. PICK c \in Clients : c = hand[s].from
  BY DEF AddClient, Type, TypeOK, Holds, Messages
<1>2. info[s] \in Seq(Clients) /\ Len(info[s]) \in Nat
  BY DEF Type, TypeOK
<1>3. /\ spc[s] = "add" /\ info' = [info EXCEPT ![s] = Append(@, c)]
      /\ Post(c, Message(1, Len(info[s]), c, 0))
      /\ hand' = [hand EXCEPT ![s] = NoMessage]
      /\ UNCHANGED <<current, made, box, q_id, ended, empty, files, client,
                     queues, inherited>>
  BY <1>1 DEF AddClient, NewNumber
<1>4. MailType'
  BY <1>2, <1>3, MessageType, PostType
<1>5. Append(info[s], c) \in Seq(Clients)
  BY <1>2
<1>6. /\ ended' \in [Servers -> BOOLEAN] /\ empty' \in [Servers -> BOOLEAN]
      /\ info' \in [Servers -> Seq(Clients)] /\ files' \in [Servers -> 0 .. FilesMax]
      /\ box' \in Seq(Messages) /\ Len(box') <= QueueMax
  BY <1>3, <1>5 DEF Type, TypeOK
<1>7. PICK p \in {"loop", "clean"} : spc' = [spc EXCEPT ![s] = p]
  BY LoopPlaces DEF AddClient
<1> QED BY <1>3, <1>4, <1>6, <1>7, ServerKeeps DEF ServerPlaces

LEMMA AnswerType ==
  ASSUME Type, NEW s \in Servers, Answer(s)
  PROVE  Type'
<1>1. /\ spc[s] = "answer" /\ hand[s] \in Messages
      /\ hand' = [hand EXCEPT ![s] = NoMessage]
      /\ UNCHANGED <<current, made, q_id, ended, empty, info, files, client,
                     queues, inherited>>
  BY DEF Answer, Type, Holds
<1>2. Reply(hand[s]) \in Messages
  BY <1>1 DEF Reply, Messages
<1>3. MailType' /\ box' \in Seq(Messages) /\ Len(box') <= QueueMax
  <2>1. box \in Seq(Messages) /\ Len(box) <= QueueMax
    BY DEF Type, TypeOK
  <2>2. \/ \E to \in Clients : Post(to, Reply(hand[s])) /\ UNCHANGED box
        \/ Send(Reply(hand[s])) /\ UNCHANGED mail
        \/ UNCHANGED <<box, mail>>
    BY DEF Answer
  <2>3. CASE \E to \in Clients : Post(to, Reply(hand[s])) /\ UNCHANGED box
    BY <1>1, <1>2, <2>1, <2>3, PostType
  <2>4. CASE Send(Reply(hand[s])) /\ UNCHANGED mail
    BY <1>1, <1>2, <2>4, SendType, MailSame
  <2>5. CASE UNCHANGED <<box, mail>>
    BY <1>1, <2>1, <2>5, MailSame
  <2> QED BY <2>2, <2>3, <2>4, <2>5
<1>4. PICK p \in {"loop", "clean"} : spc' = [spc EXCEPT ![s] = p]
  BY LoopPlaces DEF Answer
<1>5. /\ ended' \in [Servers -> BOOLEAN] /\ empty' \in [Servers -> BOOLEAN]
      /\ info' \in [Servers -> Seq(Clients)] /\ files' \in [Servers -> 0 .. FilesMax]
  BY <1>1 DEF Type, TypeOK
<1> QED BY <1>1, <1>3, <1>4, <1>5, ServerKeeps DEF ServerPlaces

LEMMA ServerType ==
  ASSUME Type, NEW s \in Servers,
         OpenQueue(s) \/ Serve(s) \/ ServerInterrupted(s)
  PROVE  Type'
<1>1. /\ hand = [hand EXCEPT ![s] = hand[s]]
      /\ hand[s] \in Messages \cup {NoMessage}
  BY HandAsItIs
<1>2. /\ ended \in [Servers -> BOOLEAN] /\ empty \in [Servers -> BOOLEAN]
      /\ info \in [Servers -> Seq(Clients)] /\ files \in [Servers -> 0 .. FilesMax]
      /\ box \in Seq(Messages) /\ Len(box) <= QueueMax
      /\ <<>> \in Seq(Messages) /\ Len(<<>>) <= QueueMax
  BY LimitsAssumption DEF Type, TypeOK
<1>3. CASE Compute(s)
  <2>1. /\ TakeRequest(s) /\ spc' = [spc EXCEPT ![s] = "answer"]
        /\ hand' = [hand EXCEPT ![s] = box[First(Requests(box))]]
        /\ UNCHANGED <<current, made, q_id, ended, empty, info, files, client,
                       queues, mail, inherited>>
    BY <1>3 DEF Compute
  <2> QED BY <1>2, <2>1, TakeType
<1>4. CASE Date(s)
  <2>1. /\ TakeRequest(s)
        /\ hand' = [hand EXCEPT ![s] = box[First(Requests(box))]]
        /\ UNCHANGED <<current, made, q_id, ended, empty, info, client,
                       queues, mail, inherited>>
    BY <1>4 DEF Date
  <2>2. PICK p \in {"answer", "faulted"} : spc' = [spc EXCEPT ![s] = p]
    BY <1>4 DEF Date
  <2>3. files' \in [Servers -> 0 .. FilesMax]
    <3>1. \/ files[s] < FilesMax /\ files' = [files EXCEPT ![s] = @ + 1]
          \/ files' = files
      BY <1>4 DEF Date
    <3>2. files \in [Servers -> 0 .. FilesMax]
      BY <1>2
    <3>3. files[s] < FilesMax => files[s] + 1 \in 0 .. FilesMax
      BY <3>2, LimitsAssumption
    <3> QED BY <3>1, <3>2, <3>3
  <2> QED BY <1>2, <2>1, <2>2, <2>3, TakeType
<1>5. CASE End(s)
  <2>1. /\ TakeRequest(s) /\ ended' = [ended EXCEPT ![s] = TRUE]
        /\ UNCHANGED <<current, made, q_id, empty, info, hand, files, client,
                       queues, mail, inherited>>
    BY <1>5 DEF End
  <2>2. PICK p \in {"loop", "clean"} : spc' = [spc EXCEPT ![s] = p]
    BY <1>5, LoopPlaces DEF End
  <2>3. hand' = [hand EXCEPT ![s] = hand[s]]
    BY <1>1, <2>1
  <2> QED BY <1>2, <2>1, <2>2, <2>3, TakeType
<1>6. CASE NothingToDo(s)
  <2>1. /\ spc[s] = "poll" /\ empty' = [empty EXCEPT ![s] = TRUE]
        /\ UNCHANGED <<current, made, box, q_id, ended, info, hand, files,
                       client, queues, mail, inherited>>
    BY <1>6 DEF NothingToDo
  <2>2. PICK p \in {"loop", "clean"} : spc' = [spc EXCEPT ![s] = p]
    BY <1>6, LoopPlaces DEF NothingToDo
  <2>3. empty' \in [Servers -> BOOLEAN]
    BY <1>2, <2>1
  <2> QED BY <1>1, <1>2, <2>1, <2>2, <2>3, MailSame, ServerKeeps DEF ServerPlaces
<1>7. CASE KeepQueue(s)
  BY <1>1, <1>2, <1>7, MailSame, ServerKeeps DEF KeepQueue, ServerPlaces
<1>8. CASE Clean(s) \/ ServerInterrupted(s)
  <2>1. /\ spc[s] # "off" /\ spc' = [spc EXCEPT ![s] = "gone"]
        /\ current' \in {current, 0} /\ box' \in {box, <<>>}
        /\ hand' = hand \/ hand' = [hand EXCEPT ![s] = NoMessage]
        /\ UNCHANGED <<made, q_id, ended, empty, info, files, client, queues,
                       mail, inherited>>
    BY <1>8 DEF Clean, ServerInterrupted, RemoveQueue
  <2>2. PICK h \in Messages \cup {NoMessage} : hand' = [hand EXCEPT ![s] = h]
    BY <1>1, <2>1
  <2> QED BY <1>2, <2>1, <2>2, MailSame, ServerKeeps DEF ServerPlaces
<1> QED BY <1>3, <1>4, <1>5, <1>6, <1>7, <1>8, OpenType, PollClientType,
           AddClientType, AnswerType DEF Serve

LEMMA ClientType ==
  ASSUME Type, NEW c \in Clients, Connect(c) \/ Run(c) \/ ClientInterrupted(c)
  PROVE  Type'
<1>1. /\ box \in Seq(Messages) /\ Len(box) <= QueueMax
      /\ cpc \in [Clients -> ClientPlaces] /\ server_q \in [Clients -> 0 .. made]
      /\ client_id \in [Clients -> Nat] /\ at \in [Clients -> Nat \ {0}]
      /\ queues \subseteq Clients /\ current \in 0 .. made
      /\ MailType
      /\ client_id[c] \in Nat /\ at[c] \in Nat /\ at[c] + 1 \in Nat \ {0}
  BY DEF Type, TypeOK, MailType
<1>2. ASSUME Leave(c)
      PROVE  /\ MailType' /\ queues' \subseteq Clients
             /\ cpc' \in [Clients -> ClientPlaces]
  BY <1>1, <1>2, LimitsAssumption DEF Leave, MailType, ClientPlaces
<1>3. \A p \in ClientPlaces : [cpc EXCEPT ![c] = p] \in [Clients -> ClientPlaces]
  BY <1>1
<1>4. [at EXCEPT ![c] = @ + 1] \in [Clients -> Nat \ {0}]
  BY <1>1
<1>5. CASE Connect(c)
  <2>1. server_q' \in [Clients -> 0 .. made]
    BY <1>1, <1>5 DEF Connect
  <2> QED BY <1>1, <1>3, <1>5, <2>1, MailSame, ClientKeeps
          DEF Connect, ClientPlaces
<1>6. CASE CreatePrivate(c)
  <2>1. MailType' /\ queues' \subseteq Clients
    BY <1>1, <1>6 DEF CreatePrivate, MailType
  <2> QED BY <1>1, <1>3, <1>6, <2>1, ClientKeeps DEF CreatePrivate, ClientPlaces
<1>7. CASE KeepPrivate(c)
  BY <1>1, <1>3, <1>7, MailSame, ClientKeeps DEF KeepPrivate, ClientPlaces
<1>8. CASE Register(c)
  <2>1. CASE Send(Message(10, 0, c, 0)) /\ cpc' = [cpc EXCEPT ![c] = "awaitId"]
              /\ UNCHANGED <<queues, mail>>
    <3>1. box' \in Seq(Messages) /\ Len(box') <= QueueMax
      BY <2>1, MessageType, SendType
    <3> QED BY <1>1, <1>3, <1>8, <2>1, <3>1, MailSame, ClientKeeps
            DEF Register, ClientPlaces
  <2>2. CASE Leave(c) /\ UNCHANGED box
    BY <1>1, <1>2, <1>8, <2>2, ClientKeeps DEF Register
  <2> QED BY <1>8, <2>1, <2>2 DEF Register
<1>9. CASE AwaitId(c)
  <2>1. /\ MailType' /\ mail[c][First(OfType(mail[c], 1))] \in Messages
    BY <1>9, ReceiveType DEF AwaitId
  <2>2. mail[c][First(OfType(mail[c], 1))].id \in Nat
    BY <2>1 DEF Messages
  <2>3. client_id' \in [Clients -> Nat]
    BY <1>1, <1>9, <2>2 DEF AwaitId
  <2> QED BY <1>1, <1>3, <1>9, <2>1, <2>3, ClientKeeps DEF AwaitId, ClientPlaces
<1>10. CASE Ask(c)
  <2>1. TypeOf[program[c][at[c]]] \in {1, 2, 3, 4, 5, 10}
    BY <1>10 DEF Ask, TypeOf
  <2>2. box' \in Seq(Messages) /\ Len(box') <= QueueMax
    BY <1>1, <1>10, <2>1, MessageType, SendType DEF Ask
  <2> QED BY <1>1, <1>3, <1>10, <2>2, MailSame, ClientKeeps DEF Ask, ClientPlaces
<1>11. CASE Skip(c)
  <2>1. TypeOf["END"] \in {1, 2, 3, 4, 5, 10}
    BY DEF TypeOf
  <2>2. box' \in Seq(Messages) /\ Len(box') <= QueueMax
    BY <1>1, <1>11, <2>1, MessageType, SendType DEF Skip
  <2> QED BY <1>1, <1>4, <1>11, <2>2, MailSame, ClientKeeps DEF Skip
<1>12. CASE Await(c)
  <2>1. MailType'
    BY <1>12, ReceiveType DEF Await
  <2> QED BY <1>1, <1>3, <1>4, <1>12, <2>1, ClientKeeps DEF Await, ClientPlaces
<1>13. CASE Finish(c)
  BY <1>1, <1>2, <1>13, ClientKeeps DEF Finish
<1>14. CASE ClientInterrupted(c)
  <2>1. CASE Leave(c)
    BY <1>1, <1>2, <1>14, <2>1, ClientKeeps DEF ClientInterrupted
  <2>2. CASE cpc' = [cpc EXCEPT ![c] = "gone"] /\ UNCHANGED <<queues, mail>>
    BY <1>1, <1>3, <1>14, <2>2, MailSame, ClientKeeps
       DEF ClientInterrupted, ClientPlaces
  <2> QED BY <1>14, <2>1, <2>2 DEF ClientInterrupted
<1> QED BY <1>5, <1>6, <1>7, <1>8, <1>9, <1>10, <1>11, <1>12, <1>13, <1>14 DEF Run

LEMMA NextType == Type /\ [Next]_vars => Type'
<1>1. ASSUME Type, UNCHANGED vars PROVE Type'
  BY <1>1 DEF Type, TypeOK, Holds, vars, server, client
<1> QED BY <1>1, ServerType, ClientType DEF Next

(* The variables keep their types and no queue holds more than it can,     *)
(* however many servers come and whatever they share.                      *)
THEOREM TypeCorrectness == Spec => []TypeOK
<1>1. Type => TypeOK
  BY DEF Type
<1> QED BY <1>1, InitType, NextType, PTL DEF Spec

-----------------------------------------------------------------------------
(* What a step leaves alone of a client's messages.                        *)

BoxSame(c) ==
    /\ \A i \in InBox(c)' : \E j \in InBox(c) : box'[i] = box[j]
    /\ InBox(c) # {} => InBox(c)' # {}
    /\ (\A i, j \in InBox(c) : i = j) => \A i, j \in InBox(c)' : i = j

TableSame(c) ==
    current' = current /\ \A id \in Nat : Enlisted(c, id) => Enlisted(c, id)'

ClientSame(c) ==
    /\ cpc'[c] = cpc[c] /\ server_q'[c] = server_q[c]
    /\ client_id'[c] = client_id[c] /\ at'[c] = at[c] /\ mail'[c] = mail[c]
    /\ c \in queues' <=> c \in queues

HandSame(c) ==
    /\ Held(c) => Held(c)'
    /\ \A s \in Servers : Holds(s)' /\ hand'[s].from = c =>
           \E t \in Servers : Holds(t) /\ hand[t].from = c /\ hand'[s] = hand[t]

LEMMA FitsKept ==
  ASSUME NEW c \in Clients, NEW m \in Messages, Fits(c, m), TableSame(c),
         ClientSame(c)
  PROVE  Fits(c, m)'
<1>1. m.id \in Nat
  BY DEF Messages
<1> QED BY <1>1 DEF Fits, TableSame, ClientSame

LEMMA SuitsKept ==
  ASSUME NEW c \in Clients, NEW m \in Messages, Suits(c, m), TableSame(c),
         ClientSame(c)
  PROVE  Suits(c, m)'
<1>1. m.id \in Nat
  BY DEF Messages
<1> QED BY <1>1 DEF Suits, TableSame, ClientSame

LEMMA KnownKept ==
  ASSUME Type, NEW c \in Clients, Known(c), TableSame(c), ClientSame(c)
  PROVE  Known(c)'
<1>1. PICK id \in Nat : id = client_id[c]
  BY DEF Type, TypeOK
<1>2. Enlisted(c, id) => Enlisted(c, id)'
  BY DEF TableSame
<1>3. Enlisted(c, client_id[c]) => Enlisted(c, client_id[c])'
  BY <1>1, <1>2 DEF Enlisted, ClientSame
<1> QED BY <1>3 DEF Known, TableSame, ClientSame

(* Trail of the next state from what each message there is.                *)
LEMMA TrailFrom ==
  ASSUME NEW c \in Clients,
         \A i, j \in InBox(c)' : i = j,
         \A i \in InBox(c)' : /\ ~Held(c)' /\ ~InMail(c)'
                              /\ \E m : m = box'[i] /\ Fits(c, m)',
         \A s \in Servers : Holds(s)' /\ hand'[s].from = c =>
             ~InMail(c)' /\ \E m : m = hand'[s] /\ Fits(c, m)',
         InMail(c)' =>
             Len(mail'[c]) = 1 /\ \E m : m = mail'[c][1] /\ Suits(c, m)',
         Waiting(c)' /\ server_q'[c] = current' =>
             Held(c)' \/ InMail(c)' \/ InBox(c)' # {}
  PROVE  Trail(c)'
<1>1. \A i \in InBox(c)' : Fits(c, box[i])'
  BY DEF Fits, Enlisted
<1>2. \A s \in Servers : Holds(s)' /\ hand'[s].from = c => Fits(c, hand[s])'
  BY DEF Fits, Enlisted
<1>3. InMail(c)' => Suits(c, mail[c][1])'
  BY DEF Suits, Enlisted
<1> QED BY <1>1, <1>2, <1>3 DEF Trail

LEMMA Untouched ==
  ASSUME Type, NEW c \in Clients, Trail(c), Known(c),
         BoxSame(c), TableSame(c), ClientSame(c), HandSame(c)
  PROVE  Trail(c)' /\ Known(c)'
<1>1. /\ InMail(c)' <=> InMail(c)
      /\ Waiting(c)' <=> Waiting(c)
      /\ Held(c)' <=> Held(c)
  BY DEF ClientSame, HandSame, InMail, Waiting, Held
<1>2. \A i \in InBox(c)' : /\ ~Held(c)' /\ ~InMail(c)'
                           /\ \E m : m = box'[i] /\ Fits(c, m)'
  <2> TAKE i \in InBox(c)'
  <2>1. PICK j \in InBox(c) : box'[i] = box[j]
    BY DEF BoxSame
  <2>2. PICK m \in Messages : m = box[j]
    BY DEF InBox, Type, TypeOK
  <2>3. ~Held(c) /\ ~InMail(c) /\ Fits(c, m)
    BY <2>1, <2>2 DEF Trail
  <2>4. Fits(c, m)'
    BY <2>3, FitsKept
  <2> QED BY <1>1, <2>1, <2>2, <2>3, <2>4
<1>3. \A s \in Servers : Holds(s)' /\ hand'[s].from = c =>
          ~InMail(c)' /\ \E m : m = hand'[s] /\ Fits(c, m)'
  <2> SUFFICES ASSUME NEW s \in Servers, Holds(s)', hand'[s].from = c
               PROVE  ~InMail(c)' /\ \E m : m = hand'[s] /\ Fits(c, m)'
    OBVIOUS
  <2>1. PICK t \in Servers : Holds(t) /\ hand[t].from = c /\ hand'[s] = hand[t]
    BY DEF HandSame
  <2>2. PICK m \in Messages : m = hand[t]
    BY <2>1 DEF Type
  <2>3. ~InMail(c) /\ Fits(c, m)
    BY <2>1, <2>2 DEF Trail
  <2>4. Fits(c, m)'
    BY <2>3, FitsKept
  <2> QED BY <1>1, <2>1, <2>2, <2>3, <2>4
<1>4. InMail(c)' => Len(mail'[c]) = 1 /\ \E m : m = mail'[c][1] /\ Suits(c, m)'
  <2> SUFFICES ASSUME InMail(c)
               PROVE  Len(mail'[c]) = 1 /\ \E m : m = mail'[c][1] /\ Suits(c, m)'
    BY <1>1
  <2>1. Len(mail[c]) = 1 /\ Suits(c, mail[c][1]) /\ mail'[c] = mail[c]
    BY DEF Trail, ClientSame
  <2>2. PICK m \in Messages : m = mail[c][1]
    <3>1. PICK q \in Seq(Messages) : q = mail[c]
      BY DEF Type, TypeOK
    <3>2. q[1] \in Messages
      BY <2>1, <3>1
    <3> QED BY <3>1, <3>2
  <2>3. Suits(c, m)'
    BY <2>1, <2>2, SuitsKept
  <2> QED BY <2>1, <2>2, <2>3
<1>5. \A i, j \in InBox(c)' : i = j
  BY DEF Trail, BoxSame
<1>6. Waiting(c)' /\ server_q'[c] = current' =>
          Held(c)' \/ InMail(c)' \/ InBox(c)' # {}
  BY <1>1 DEF Trail, BoxSame, TableSame, ClientSame
<1>7. Trail(c)'
  BY <1>2, <1>3, <1>4, <1>5, <1>6, TrailFrom
<1> QED BY <1>7, KnownKept

(* A client that asks for nothing has no message anywhere.                 *)
Quiet(c) == InBox(c) = {} /\ ~Held(c) /\ ~InMail(c)

LEMMA NotAsking ==
  ASSUME NEW c \in Clients, Trail(c), cpc[c] \notin {"awaitId", "await", "gone"}
  PROVE  Quiet(c)
  BY DEF Trail, Quiet, Held, Fits, Suits

LEMMA QuietTrail ==
  ASSUME NEW c \in Clients, Quiet(c)', ~Waiting(c)'
  PROVE  Trail(c)'
  BY TrailFrom DEF Quiet, Held

(* The queue under the common key is another one, or none.                 *)
LEMMA Cut ==
  ASSUME Type, NEW c \in Clients, Trail(c), Known(c), ClientSame(c),
         box' = <<>>, ~Held(c)',
         cpc[c] \notin {"start", "gone"} => server_q[c] # current'
  PROVE  Trail(c)' /\ Known(c)'
<1>1. InBox(c)' = {}
  BY DEF InBox
<1>2. InMail(c)' => Len(mail'[c]) = 1 /\ \E m : m = mail'[c][1] /\ Suits(c, m)'
  <2> SUFFICES ASSUME InMail(c)'
               PROVE  Len(mail'[c]) = 1 /\ \E m : m = mail'[c][1] /\ Suits(c, m)'
    OBVIOUS
  <2>1. Len(mail[c]) = 1 /\ Suits(c, mail[c][1]) /\ mail'[c] = mail[c]
    BY DEF Trail, ClientSame, InMail
  <2>2. PICK m : m = mail[c][1]
    OBVIOUS
  <2>3. Suits(c, m)'
    BY <2>1, <2>2 DEF Suits, ClientSame
  <2> QED BY <2>1, <2>2, <2>3
<1>3. ~(Waiting(c)' /\ server_q'[c] = current')
  BY DEF Waiting, ClientSame
<1>4. Trail(c)'
  BY <1>1, <1>2, <1>3, TrailFrom DEF Held
<1>5. Known(c)'
  BY DEF Known, ClientSame
<1> QED BY <1>4, <1>5

LEMMA BoxKept ==
  ASSUME UNCHANGED box
  PROVE  \A c \in Clients : BoxSame(c) /\ InBox(c)' = InBox(c)
  BY DEF BoxSame, InBox

LEMMA TableKept ==
  ASSUME UNCHANGED <<current, q_id, info>>
  PROVE  \A c \in Clients : TableSame(c)
  BY DEF TableSame, Enlisted

LEMMA ClientKept ==
  ASSUME UNCHANGED <<client, queues, mail>>
  PROVE  \A c \in Clients : ClientSame(c)
  BY DEF ClientSame, client

(* The hands of the servers, but for one that has nothing in its own.      *)
LEMMA HandKept ==
  ASSUME NEW s \in Servers, ~Holds(s), ~Holds(s)',
         \A t \in Servers \ {s} : spc'[t] = spc[t] /\ hand'[t] = hand[t]
  PROVE  \A c \in Clients : HandSame(c)
<1>1. \A t \in Servers \ {s} : Holds(t)' <=> Holds(t)
  BY DEF Holds
<1> QED BY <1>1 DEF HandSame, Held

LEMMA BoxTaken ==
  ASSUME Type, NEW k \in DOMAIN box, box' = RemoveAt(box, k)
  PROVE  /\ \A i \in DOMAIN box' : \E j \in DOMAIN box : box'[i] = box[j]
         /\ \A c \in Clients :
                /\ box[k].from # c \/ box[k].type = 5 => BoxSame(c)
                /\ box[k].from = c /\ box[k].type # 5 =>
                       /\ k \in InBox(c)
                       /\ (\A i, j \in InBox(c) : i = j) => InBox(c)' = {}
<1> DEFINE src(i) == IF i < k THEN i ELSE i + 1
           dst(j) == IF j < k THEN j ELSE j - 1
<1>1. /\ Len(box) \in Nat /\ DOMAIN box = 1 .. Len(box)
      /\ DOMAIN box' = 1 .. Len(box) - 1
      /\ \A i \in DOMAIN box' : box'[i] = box[src(i)]
  BY TakenType DEF Type, TypeOK
<1>2. \A i \in DOMAIN box' : src(i) \in DOMAIN box /\ src(i) # k
  BY <1>1
<1>3. \A j \in DOMAIN box : j # k => dst(j) \in DOMAIN box' /\ src(dst(j)) = j
  BY <1>1
<1>4. \A i, j \in DOMAIN box' : src(i) = src(j) => i = j
  BY <1>1
<1> HIDE DEF src, dst
<1>5. \A i \in DOMAIN box' : \E j \in DOMAIN box : box'[i] = box[j]
  BY <1>1, <1>2
<1> SUFFICES ASSUME NEW c \in Clients
             PROVE  /\ box[k].from # c \/ box[k].type = 5 => BoxSame(c)
                    /\ box[k].from = c /\ box[k].type # 5 =>
                           /\ k \in InBox(c)
                           /\ (\A i, j \in InBox(c) : i = j) => InBox(c)' = {}
  BY <1>5
<1>6. \A i \in InBox(c)' : /\ i \in DOMAIN box' /\ src(i) \in InBox(c)
                           /\ box'[i] = box[src(i)] /\ src(i) # k
  BY <1>1, <1>2 DEF InBox
<1>7. \A j \in InBox(c) : j # k => dst(j) \in InBox(c)'
  <2> TAKE j \in InBox(c)
  <2> HAVE j # k
  <2>1. j \in DOMAIN box /\ box[j].from = c /\ box[j].type # 5
    BY DEF InBox
  <2>2. dst(j) \in DOMAIN box' /\ box'[dst(j)] = box[j]
    BY <1>1, <1>3, <2>1
  <2> QED BY <2>1, <2>2 DEF InBox
<1>8. ASSUME box[k].from # c \/ box[k].type = 5
      PROVE  BoxSame(c)
  <2>1. k \notin InBox(c)
    BY <1>8 DEF InBox
  <2> QED BY <1>4, <1>6, <1>7, <2>1 DEF BoxSame
<1>9. ASSUME box[k].from = c, box[k].type # 5
      PROVE  k \in InBox(c) /\ ((\A i, j \in InBox(c) : i = j) => InBox(c)' = {})
  <2>1. k \in InBox(c)
    BY <1>9 DEF InBox
  <2> QED BY <1>6, <2>1
<1> QED BY <1>8, <1>9

LEMMA BoxPut ==
  ASSUME Type, NEW m \in Messages, Send(m)
  PROVE  /\ \A i \in DOMAIN box' : box'[i] = m \/
                (i \in DOMAIN box /\ box'[i] = box[i])
         /\ \A c \in Clients :
                /\ m.from # c \/ m.type = 5 => BoxSame(c)
                /\ InBox(c) = {} =>
                       /\ \A i, j \in InBox(c)' : i = j
                       /\ \A i \in InBox(c)' : box'[i] = m
                       /\ m.from = c /\ m.type # 5 => InBox(c)' # {}
                       /\ m.from # c \/ m.type = 5 => InBox(c)' = {}
<1>1. box \in Seq(Messages) /\ box' = Append(box, m)
  BY DEF Send, Type, TypeOK
<1>2. /\ Len(box) \in Nat /\ DOMAIN box = 1 .. Len(box)
      /\ DOMAIN box' = 1 .. Len(box) + 1
      /\ \A i \in 1 .. Len(box) : box'[i] = box[i]
      /\ box'[Len(box) + 1] = m
  BY <1>1, AppendFacts
<1>3. \A i \in DOMAIN box' : i \in DOMAIN box \/ i = Len(box) + 1
  BY <1>2
<1>4. \A i \in DOMAIN box : i \in DOMAIN box' /\ box'[i] = box[i]
  BY <1>2
<1>5. Len(box) + 1 \in DOMAIN box' /\ Len(box) + 1 \notin DOMAIN box
  BY <1>2
<1>6. \A i \in DOMAIN box' : box'[i] = m \/ (i \in DOMAIN box /\ box'[i] = box[i])
  BY <1>2, <1>3, <1>4
<1> SUFFICES ASSUME NEW c \in Clients
             PROVE  /\ m.from # c \/ m.type = 5 => BoxSame(c)
                    /\ InBox(c) = {} =>
                        /\ \A i, j \in InBox(c)' : i = j
                        /\ \A i \in InBox(c)' : box'[i] = m
                        /\ m.from = c /\ m.type # 5 => InBox(c)' # {}
                        /\ m.from # c \/ m.type = 5 => InBox(c)' = {}
  BY <1>6
<1>7. \A i \in InBox(c) : i \in InBox(c)' /\ box'[i] = box[i]
  BY <1>4 DEF InBox
<1>8. \A i \in InBox(c)' : i \in InBox(c) \/
          (i = Len(box) + 1 /\ m.from = c /\ m.type # 5 /\ box'[i] = m)
  BY <1>2, <1>3, <1>4 DEF InBox
<1>9. m.from = c /\ m.type # 5 => Len(box) + 1 \in InBox(c)'
  BY <1>2, <1>5 DEF InBox
<1>10. m.from # c \/ m.type = 5 => BoxSame(c)
  BY <1>7, <1>8 DEF BoxSame
<1>11. ASSUME InBox(c) = {}
       PROVE  /\ \A i, j \in InBox(c)' : i = j
              /\ \A i \in InBox(c)' : box'[i] = m
              /\ m.from = c /\ m.type # 5 => InBox(c)' # {}
              /\ m.from # c \/ m.type = 5 => InBox(c)' = {}
  <2>1. \A i \in InBox(c)' : i = Len(box) + 1 /\ box'[i] = m
                                 /\ m.from = c /\ m.type # 5
    BY <1>8, <1>11
  <2>2. \A i, j \in InBox(c)' : i = j
    BY <2>1
  <2>3. m.from # c \/ m.type = 5 => InBox(c)' = {}
    BY <2>1
  <2> QED BY <1>9, <2>1, <2>2, <2>3
<1> QED BY <1>10, <1>11

-----------------------------------------------------------------------------
(* The steps of a server.                                                  *)

LEMMA OnlyOne ==
  ASSUME Type, AloneInv, NEW s \in Servers, Active(s)
  PROVE  /\ q_id[s] = current /\ current # 0
         /\ \A t \in Servers : Active(t) => t = s
         /\ \A t \in Servers : Holds(t) => t = s
         /\ \A t \in Servers : q_id[t] = current => t = s
<1>1. q_id[s] = current /\ current # 0
  BY DEF AloneInv, Active, Type
<1>2. \A t \in Servers : q_id[t] = current => t = s
  BY <1>1 DEF AloneInv
<1>3. \A t \in Servers : Holds(t) => Active(t)
  BY DEF Holds, Active
<1> QED BY <1>1, <1>2, <1>3 DEF AloneInv

(* A message goes from the queue into the hand of the server.              *)
LEMMA TakeOrder ==
  ASSUME Type, OrderInv, NEW s \in Servers, Active(s), ~Holds(s),
         NEW k \in DOMAIN box, box[k].type # 5, box' = RemoveAt(box, k),
         hand' = [hand EXCEPT ![s] = box[k]],
         NEW p \in {"add", "answer", "faulted"}, spc' = [spc EXCEPT ![s] = p],
         UNCHANGED <<current, q_id, info, client, queues, mail>>
  PROVE  \A c \in Clients : Trail(c)' /\ Known(c)'
<1> TAKE c \in Clients
<1>1. TableSame(c) /\ ClientSame(c) /\ Trail(c) /\ Known(c)
  BY TableKept, ClientKept DEF OrderInv
<1>2. /\ Holds(s)' /\ hand'[s] = box[k]
      /\ \A t \in Servers : t # s =>
             hand'[t] = hand[t] /\ (Holds(t)' <=> Holds(t)) /\ ~Holds(t)
  BY OnlyOne DEF Holds, Type, TypeOK, OrderInv
<1>3. CASE box[k].from # c
  <2>1. BoxSame(c)
    BY <1>3, BoxTaken
  <2>2. HandSame(c)
    BY <1>2, <1>3 DEF HandSame, Held
  <2> QED BY <1>1, <2>1, <2>2, Untouched
<1>4. CASE box[k].from = c
  <2>1. PICK m \in Messages : m = box[k]
    BY TakenType
  <2>2. k \in InBox(c)
    BY <1>4, BoxTaken
  <2>3. ~Held(c) /\ ~InMail(c) /\ Fits(c, m) /\ InBox(c)' = {}
    BY <1>1, <1>4, <2>1, <2>2, BoxTaken DEF Trail
  <2>4. Fits(c, m)' /\ ~InMail(c)'
    BY <1>1, <2>3, FitsKept DEF ClientSame, InMail
  <2>5. Held(c)'
    BY <1>2, <1>4 DEF Held
  <2>6. \A t \in Servers : Holds(t)' /\ hand'[t].from = c => hand'[t] = m
    BY <1>2, <2>1
  <2>7. Trail(c)'
    BY <2>3, <2>4, <2>5, <2>6, TrailFrom
  <2> QED BY <1>1, <2>7, KnownKept
<1> QED BY <1>3, <1>4

(* The server leaves every client's messages where they are.               *)
LEMMA IdleOrder ==
  ASSUME Type, OrderInv, NEW s \in Servers, ~Holds(s), ~Holds(s)',
         \A t \in Servers \ {s} : spc'[t] = spc[t] /\ hand'[t] = hand[t],
         UNCHANGED <<current, q_id, info, client, queues, mail>>,
         \A c \in Clients : BoxSame(c)
  PROVE  \A c \in Clients : Trail(c)' /\ Known(c)'
<1> TAKE c \in Clients
<1>1. TableSame(c) /\ ClientSame(c) /\ HandSame(c) /\ BoxSame(c)
  BY TableKept, ClientKept, HandKept
<1> QED BY <1>1, Untouched DEF OrderInv

(* The answer goes from the hand of the server to its client.              *)
LEMMA DeliverOrder ==
  ASSUME Type, OrderInv, NEW s \in Servers, Holds(s),
         NEW a \in Clients, a = hand[s].from,
         NEW m \in Messages, Post(a, m), a \in queues => Suits(a, m)',
         hand' = [hand EXCEPT ![s] = NoMessage],
         NEW p \in {"loop", "clean"}, spc' = [spc EXCEPT ![s] = p],
         UNCHANGED <<current, q_id, box, client, queues>>,
         \A c \in Clients : TableSame(c)
  PROVE  \A c \in Clients : Trail(c)' /\ Known(c)'
<1> TAKE c \in Clients
<1>1. TableSame(c) /\ Trail(c) /\ Known(c)
  BY DEF OrderInv
<1>2. Active(s)
  BY DEF Active, Holds
<1>3. \A t \in Servers : ~Holds(t)' /\ (Holds(t) => t = s)
  BY <1>2, OnlyOne DEF Holds, Type, TypeOK, OrderInv
<1>4. /\ cpc'[c] = cpc[c] /\ server_q'[c] = server_q[c]
      /\ client_id'[c] = client_id[c] /\ at'[c] = at[c]
      /\ c \in queues' <=> c \in queues
  BY DEF client
<1>5. CASE c # a
  <2>1. mail'[c] = mail[c]
    BY <1>5 DEF Post, Type, TypeOK
  <2>2. ClientSame(c)
    BY <1>4, <2>1 DEF ClientSame
  <2>3. HandSame(c)
    BY <1>3, <1>5 DEF HandSame, Held
  <2> QED BY <1>1, <2>2, <2>3, BoxKept, Untouched
<1>6. CASE c = a
  <2>1. Held(c) /\ ~InMail(c) /\ mail[c] = <<>>
    BY <1>1, <1>6 DEF Held, Trail, InMail
  <2>2. InBox(c) = {} /\ InBox(c)' = {}
    BY <1>1, <2>1, BoxKept DEF Trail
  <2>3. CASE c \in queues
    <3>1. mail'[c] = Append(<<>>, m)
      BY <1>6, <2>1, <2>3 DEF Post, Type, TypeOK
    <3>2. Len(mail'[c]) = 1 /\ mail'[c][1] = m
      BY <3>1
    <3>3. mail'[c] # <<>>
      BY <3>2
    <3>4. InMail(c)' /\ Suits(c, m)'
      BY <1>6, <2>3, <3>3 DEF InMail
    <3>5. Trail(c)'
      BY <1>3, <2>2, <3>2, <3>4, TrailFrom
    <3>6. ASSUME cpc[c] \in {"ask", "await"}, server_q[c] = current
          PROVE  Enlisted(c, client_id[c])'
      <4>1. PICK id \in Nat : id = client_id[c]
        BY DEF Type, TypeOK
      <4>2. Enlisted(c, id)'
        BY <1>1, <3>6, <4>1 DEF Known, TableSame
      <4> QED BY <1>4, <4>1, <4>2 DEF Enlisted
    <3>7. Known(c)'
      BY <1>1, <1>4, <3>6 DEF Known, TableSame
    <3> QED BY <3>5, <3>7
  <2>4. CASE c \notin queues
    <3>1. mail' = mail
      BY <1>6, <2>4 DEF Post
    <3>2. ClientSame(c)
      BY <1>4, <3>1 DEF ClientSame
    <3>3. Quiet(c)' /\ ~Waiting(c)'
      BY <1>1, <1>3, <1>4, <2>1, <2>2, <2>4, <3>1
         DEF Quiet, Held, InMail, Waiting, Known
    <3> QED BY <1>1, <3>2, <3>3, QuietTrail, KnownKept
  <2> QED BY <2>3, <2>4
<1> QED BY <1>5, <1>6

(* The queue is removed, or another is made.                               *)
LEMMA CutOrder ==
  ASSUME Type, OrderInv, box' = <<>>,
         \A t \in Servers : ~Holds(t)',
         UNCHANGED <<client, queues, mail>>,
         \A c \in Clients : cpc[c] \notin {"start", "gone"} =>
                                server_q[c] # current'
  PROVE  \A c \in Clients : Trail(c)' /\ Known(c)'
<1> TAKE c \in Clients
<1>1. ClientSame(c) /\ ~Held(c)' /\ Trail(c) /\ Known(c)
  BY ClientKept DEF OrderInv, Held
<1> QED BY <1>1, Cut

(* One server at work keeps the books of its own.                          *)
LEMMA RoundFor ==
  ASSUME Type, AloneInv, NEW s \in Servers, Active(s),
         \A t \in Servers \ {s} : spc'[t] = spc[t],
         /\ spc'[s] = "add" => hand'[s].type = 10
         /\ spc'[s] = "answer" => hand'[s].type \in {2, 3, 4}
         /\ spc'[s] \in {"add", "poll", "answer"} => ~empty'[s]
         /\ spc'[s] = "poll" /\ ended'[s] =>
                \A i \in OfType(box, 10)' : box'[i].late
         /\ spc'[s] = "clean" =>
                ended'[s] /\ \A i \in DOMAIN box' : box'[i].late
  PROVE  RoundInv'
<1>1. \A t \in Servers \ {s} : spc'[t] \in {"off", "gone"}
  BY OnlyOne DEF Active
<1> QED BY <1>1 DEF RoundInv

LEMMA AloneKept ==
  ASSUME Type, AloneInv, UNCHANGED <<current, q_id>>,
         \A t \in Servers : Active(t)' => Active(t),
         current # 0 \/ box' = box
  PROVE  AloneInv'
  BY DEF AloneInv

LEMMA PollClientOrder ==
  ASSUME Type, OrderInv, NEW s \in Servers, PollClient(s)
  PROVE  OrderInv'
<1>1. /\ spc[s] = "loop" /\ empty' = [empty EXCEPT ![s] = FALSE]
      /\ UNCHANGED <<current, made, q_id, ended, info, files, client, queues,
                     mail, inherited>>
  BY DEF PollClient, NewRound
<1>2. Active(s) /\ ~Holds(s) /\ empty'[s] = FALSE
  BY <1>1 DEF Active, Holds, Type, TypeOK
<1>3. q_id[s] = current /\ current # 0 /\ Inbox(s) = box
  BY <1>2, OnlyOne DEF OrderInv, Inbox
<1>4. CASE OfType(box, 10) # {}
  <2>1. PICK k \in DOMAIN box : k = First(OfType(box, 10)) /\ box[k].type = 10
    BY <1>3, <1>4, ClientTaken
  <2>2. /\ box' = RemoveAt(box, k) /\ hand' = [hand EXCEPT ![s] = box[k]]
        /\ spc' = [spc EXCEPT ![s] = "add"]
    BY <1>3, <1>4, <2>1 DEF PollClient
  <2>3. \A c \in Clients : Trail(c)' /\ Known(c)'
    <3>1. box[k].type # 5
      BY <2>1
    <3> QED BY <1>1, <1>2, <2>2, <3>1, TakeOrder
  <2>4. /\ spc'[s] = "add" /\ hand'[s].type = 10
        /\ \A t \in Servers \ {s} : spc'[t] = spc[t]
    BY <2>1, <2>2 DEF Type, TypeOK
  <2>5. RoundInv'
    BY <1>2, <2>4, RoundFor DEF OrderInv
  <2>6. AloneInv'
    BY <1>1, <1>2, <1>3, <2>4, AloneKept DEF Active, OrderInv
  <2> QED BY <2>3, <2>5, <2>6 DEF OrderInv
<1>5. CASE OfType(box, 10) = {}
  <2>1. UNCHANGED <<hand, box>> /\ spc' = [spc EXCEPT ![s] = "poll"]
    BY <1>3, <1>5 DEF PollClient
  <2>2. /\ spc'[s] = "poll" /\ ~Holds(s)' /\ OfType(box, 10)' = {}
        /\ \A t \in Servers \ {s} : spc'[t] = spc[t] /\ hand'[t] = hand[t]
    BY <1>5, <2>1 DEF Holds, Type, TypeOK, OfType
  <2>3. \A c \in Clients : Trail(c)' /\ Known(c)'
    BY <1>1, <1>2, <2>1, <2>2, BoxKept, IdleOrder
  <2>4. RoundInv'
    BY <1>2, <2>2, RoundFor DEF OrderInv
  <2>5. AloneInv'
    BY <1>1, <1>2, <1>3, <2>2, AloneKept DEF Active, OrderInv
  <2> QED BY <2>3, <2>4, <2>5 DEF OrderInv
<1> QED BY <1>4, <1>5

LEMMA ComputeDateOrder ==
  ASSUME Type, OrderInv, NEW s \in Servers, Compute(s) \/ Date(s)
  PROVE  OrderInv'
<1>1. /\ TakeRequest(s) /\ box[First(Requests(box))].type \in {2, 3, 4}
      /\ hand' = [hand EXCEPT ![s] = box[First(Requests(box))]]
      /\ UNCHANGED <<current, made, q_id, ended, empty, info, client, queues,
                     mail, inherited>>
  BY DEF Compute, Date
<1>2. PICK p \in {"answer", "faulted"} : spc' = [spc EXCEPT ![s] = p]
  BY DEF Compute, Date
<1>3. PICK k \in DOMAIN box : /\ k = First(Requests(box))
                              /\ box' = RemoveAt(box, k)
  BY <1>1, RequestTaken
<1>4. /\ spc[s] = "poll" /\ Active(s) /\ ~Holds(s) /\ ~empty[s]
  BY <1>1, RequestTaken DEF Active, Holds, OrderInv, RoundInv
<1>5. \A c \in Clients : Trail(c)' /\ Known(c)'
  <2>1. box[k].type # 5 /\ hand' = [hand EXCEPT ![s] = box[k]]
    BY <1>1, <1>3
  <2> QED BY <1>1, <1>2, <1>3, <1>4, <2>1, TakeOrder
<1>6. /\ spc'[s] \in {"answer", "faulted"} /\ hand'[s].type \in {2, 3, 4}
      /\ \A t \in Servers \ {s} : spc'[t] = spc[t]
      /\ ~empty'[s]
  BY <1>1, <1>2, <1>4 DEF Type, TypeOK
<1>7. RoundInv'
  BY <1>4, <1>6, RoundFor DEF OrderInv
<1>8. AloneInv'
  BY <1>1, <1>4, <1>6, OnlyOne, AloneKept DEF Active, OrderInv
<1> QED BY <1>5, <1>7, <1>8 DEF OrderInv

LEMMA EndOrder ==
  ASSUME Type, OrderInv, NEW s \in Servers, End(s)
  PROVE  OrderInv'
<1>1. /\ TakeRequest(s) /\ box[First(Requests(box))].type = 5
      /\ UNCHANGED <<current, made, q_id, empty, info, hand, files, client,
                     queues, mail, inherited>>
  BY DEF End
<1>2. PICK k \in DOMAIN box : /\ k = First(Requests(box)) /\ box[k].type = 5
                              /\ box' = RemoveAt(box, k)
  BY <1>1, RequestTaken
<1>3. /\ spc[s] = "poll" /\ Active(s) /\ ~Holds(s) /\ ~empty[s]
  BY <1>1, RequestTaken DEF Active, Holds, OrderInv, RoundInv
<1>4. spc' = [spc EXCEPT ![s] = "loop"]
  BY <1>3 DEF End, Loop
<1>5. /\ spc'[s] = "loop" /\ ~Holds(s)'
      /\ \A t \in Servers \ {s} : spc'[t] = spc[t] /\ hand'[t] = hand[t]
  BY <1>1, <1>4 DEF Holds, Type, TypeOK
<1>6. \A c \in Clients : Trail(c)' /\ Known(c)'
  BY <1>1, <1>2, <1>3, <1>5, BoxTaken, IdleOrder
<1>7. RoundInv'
  BY <1>3, <1>5, RoundFor DEF OrderInv
<1>8. AloneInv'
  BY <1>1, <1>3, <1>5, OnlyOne, AloneKept DEF Active, OrderInv
<1> QED BY <1>6, <1>7, <1>8 DEF OrderInv

(* If END has been read, there were no clients that registered before when *)
(* the server looked for them, and there are no requests now.              *)
LEMMA NothingToDoOrder ==
  ASSUME Type, OrderInv, NEW s \in Servers, NothingToDo(s)
  PROVE  OrderInv'
<1>1. /\ spc[s] = "poll" /\ Requests(Inbox(s)) = {}
      /\ spc' = [spc EXCEPT ![s] = Loop(ended[s], TRUE)]
      /\ UNCHANGED <<current, made, box, q_id, ended, info, hand, files,
                     client, queues, mail, inherited>>
  BY DEF NothingToDo
<1>2. Active(s) /\ ~Holds(s)
  BY <1>1 DEF Active, Holds
<1>3. q_id[s] = current /\ Requests(box) = {}
  BY <1>1, <1>2, OnlyOne DEF OrderInv, Inbox
<1>4. \A i \in DOMAIN box : i \in OfType(box, 10)
  <2> TAKE i \in DOMAIN box
  <2>1. ~(box[i].type <= 6)
    BY <1>3, RequestsFound
  <2>2. box[i].type \in {1, 2, 3, 4, 5, 10}
    <3>1. box[i] \in Messages
      BY DEF Type, TypeOK
    <3> QED BY <3>1 DEF Messages
  <2> QED BY <2>1, <2>2 DEF OfType
<1>5. /\ spc'[s] \in {"loop", "clean"} /\ ~Holds(s)'
      /\ spc'[s] = "clean" => ended[s]
      /\ \A t \in Servers \ {s} : spc'[t] = spc[t] /\ hand'[t] = hand[t]
  BY <1>1 DEF Loop, Holds, Type, TypeOK
<1>6. ended[s] => \A i \in DOMAIN box : box[i].late
  BY <1>1, <1>4 DEF OrderInv, RoundInv
<1>7. \A c \in Clients : Trail(c)' /\ Known(c)'
  BY <1>1, <1>2, <1>5, BoxKept, IdleOrder
<1>8. RoundInv'
  BY <1>1, <1>2, <1>5, <1>6, RoundFor DEF OrderInv
<1>9. AloneInv'
  BY <1>1, <1>2, <1>5, AloneKept DEF Active, OrderInv
<1> QED BY <1>7, <1>8, <1>9 DEF OrderInv

LEMMA KeepQueueOrder ==
  ASSUME Type, OrderInv, NEW s \in Servers, KeepQueue(s)
  PROVE  OrderInv'
<1>1. /\ spc[s] = "opened" /\ spc' = [spc EXCEPT ![s] = "loop"]
      /\ UNCHANGED <<current, made, box, q_id, ended, empty, info, hand,
                     files, client, queues, mail, inherited>>
  BY DEF KeepQueue
<1>2. /\ spc'[s] = "loop" /\ Active(s) /\ ~Holds(s) /\ ~Holds(s)'
      /\ \A t \in Servers \ {s} : spc'[t] = spc[t] /\ hand'[t] = hand[t]
  BY <1>1 DEF Active, Holds, Type, TypeOK
<1>3. \A c \in Clients : Trail(c)' /\ Known(c)'
  BY <1>1, <1>2, BoxKept, IdleOrder
<1>4. RoundInv'
  BY <1>2, RoundFor DEF OrderInv
<1>5. AloneInv'
  BY <1>1, <1>2, AloneKept DEF Active, OrderInv
<1> QED BY <1>3, <1>4, <1>5 DEF OrderInv

LEMMA AddClientOrder ==
  ASSUME Type, OrderInv, NEW s \in Servers, AddClient(s)
  PROVE  OrderInv'
<1>1. spc[s] = "add" /\ Holds(s) /\ Active(s) /\ hand[s].type = 10 /\ ~empty[s]
  BY DEF AddClient, Holds, Active, OrderInv, RoundInv
<1>2. /\ q_id[s] = current /\ current # 0
      /\ \A t \in Servers : q_id[t] = current => t = s
  BY <1>1, OnlyOne DEF OrderInv
<1>3. PICK a \in Clients : a = hand[s].from
  BY <1>1 DEF Type, Messages
<1>4. PICK q \in Seq(Clients) : q = info[s]
  BY DEF Type, TypeOK
<1>5. PICK m \in Messages : m = Message(1, Len(q), a, 0)
  BY <1>4, MessageType
<1>6. /\ Post(a, m) /\ info' = [info EXCEPT ![s] = Append(q, a)]
      /\ hand' = [hand EXCEPT ![s] = NoMessage]
      /\ spc' = [spc EXCEPT ![s] = "loop"]
      /\ UNCHANGED <<current, made, box, q_id, ended, empty, files, client,
                     queues, inherited>>
  BY <1>1, <1>3, <1>4, <1>5 DEF AddClient, NewNumber, Loop
<1>7. /\ Len(q) \in Nat /\ DOMAIN q = 1 .. Len(q)
      /\ DOMAIN Append(q, a) = 1 .. Len(q) + 1
      /\ \A i \in 1 .. Len(q) : Append(q, a)[i] = q[i]
      /\ Append(q, a)[Len(q) + 1] = a
  BY AppendFacts
<1>8. info'[s] = Append(q, a) /\ \A t \in Servers : t # s => info'[t] = info[t]
  BY <1>6 DEF Type, TypeOK
<1>9. ASSUME NEW c \in Clients
      PROVE  TableSame(c)
  <2>1. ASSUME NEW id \in Nat, Enlisted(c, id)
        PROVE  Enlisted(c, id)'
    <3>1. id + 1 \in DOMAIN q /\ q[id + 1] = c
      BY <1>2, <1>4, <2>1 DEF Enlisted
    <3>2. id + 1 \in DOMAIN Append(q, a) /\ Append(q, a)[id + 1] = c
      BY <1>7, <3>1
    <3> QED BY <1>2, <1>6, <1>8, <3>2 DEF Enlisted
  <2> QED BY <1>6, <2>1 DEF TableSame
<1>10. ASSUME a \in queues
       PROVE  Suits(a, m)'
  <2>1. Fits(a, hand[s])
    BY <1>1, <1>3 DEF OrderInv, Trail
  <2>2. cpc[a] = "awaitId"
    BY <1>1, <1>10, <2>1 DEF Fits
  <2>3. m.from = a /\ m.type = 1 /\ m.id = Len(q)
    BY <1>5 DEF Message
  <2>4. Enlisted(a, m.id)'
    <3>1. m.id + 1 \in DOMAIN Append(q, a) /\ Append(q, a)[m.id + 1] = a
      BY <1>7, <2>3
    <3> QED BY <1>2, <1>6, <1>8, <3>1 DEF Enlisted
  <2> QED BY <1>6, <2>2, <2>3, <2>4 DEF Suits, client
<1>11. \A c \in Clients : Trail(c)' /\ Known(c)'
  BY <1>1, <1>3, <1>6, <1>9, <1>10, DeliverOrder
<1>12. spc'[s] = "loop" /\ \A t \in Servers \ {s} : spc'[t] = spc[t]
  BY <1>6 DEF Type, TypeOK
<1>13. RoundInv'
  BY <1>1, <1>12, RoundFor DEF OrderInv
<1>14. AloneInv'
  BY <1>1, <1>6, <1>12, AloneKept DEF Active, OrderInv
<1> QED BY <1>11, <1>13, <1>14 DEF OrderInv

LEMMA AnswerOrder ==
  ASSUME Type, OrderInv, NEW s \in Servers, Answer(s)
  PROVE  OrderInv'
<1>1. /\ spc[s] = "answer" /\ Holds(s) /\ Active(s)
      /\ hand[s].type \in {2, 3, 4} /\ ~empty[s]
  BY DEF Answer, Holds, Active, OrderInv, RoundInv
<1>2. q_id[s] = current /\ current # 0
  BY <1>1, OnlyOne DEF OrderInv
<1>3. PICK h \in Messages : h = hand[s]
  BY <1>1 DEF Type
<1>4. PICK a \in Clients : a = h.from
  BY DEF Messages
<1>5. Fits(a, h) /\ h.type # 10
  BY <1>1, <1>3, <1>4 DEF OrderInv, Trail
<1>6. /\ cpc[a] \in {"await", "gone"} /\ h.n = at[a] /\ Enlisted(a, h.id)
      /\ cpc[a] = "gone" => a \notin queues
  BY <1>5 DEF Fits
<1>7. h.id + 1 \in DOMAIN info[s] /\ info[s][h.id + 1] = a
  BY <1>2, <1>6 DEF Enlisted
<1>8. Recipients(s, h.id) = {a}
  <2>1. info[s] \in Seq(Clients) /\ h.id \in Nat
    BY DEF Type, TypeOK, Messages
  <2>2. h.id < Len(info[s])
    BY <1>7, <2>1
  <2> QED BY <1>7, <2>2 DEF Recipients
<1>9. PICK m \in Messages : m = Reply(h)
  <2>1. Reply(h) \in Messages
    BY DEF Reply, Messages
  <2> QED BY <2>1
<1>10. /\ Post(a, m) /\ UNCHANGED box
       /\ hand' = [hand EXCEPT ![s] = NoMessage]
       /\ spc' = [spc EXCEPT ![s] = "loop"]
       /\ UNCHANGED <<current, made, q_id, ended, empty, info, files, client,
                      queues, inherited>>
  <2>1. a # "server" /\ a # Nobody
    BY ProcessesAssumption
  <2>2. Post(a, m) /\ UNCHANGED box
    BY <1>3, <1>8, <1>9, <2>1 DEF Answer
  <2> QED BY <1>1, <2>2 DEF Answer, Loop
<1>11. ASSUME a \in queues
       PROVE  Suits(a, m)'
  <2>1. m.from = a /\ m.type = 2 /\ m.n = at[a]
    BY <1>4, <1>6, <1>9 DEF Reply, Messages
  <2> QED BY <1>6, <1>10, <1>11, <2>1 DEF Suits, client
<1>12. \A c \in Clients : Trail(c)' /\ Known(c)'
  BY <1>1, <1>3, <1>4, <1>10, <1>11, TableKept, DeliverOrder
<1>13. spc'[s] = "loop" /\ \A t \in Servers \ {s} : spc'[t] = spc[t]
  BY <1>10 DEF Type, TypeOK
<1>14. RoundInv'
  BY <1>1, <1>13, RoundFor DEF OrderInv
<1>15. AloneInv'
  BY <1>1, <1>10, <1>13, AloneKept DEF Active, OrderInv
<1> QED BY <1>12, <1>14, <1>15 DEF OrderInv

(* A server stops, with its queue or before it has noted its number.       *)
LEMMA StopOrder ==
  ASSUME Type, OrderInv, NEW s \in Servers, Clean(s) \/ ServerInterrupted(s)
  PROVE  OrderInv'
<1>1. /\ Active(s) /\ spc[s] # "faulted"
      /\ spc' = [spc EXCEPT ![s] = "gone"]
      /\ hand' = hand \/ hand' = [hand EXCEPT ![s] = NoMessage]
      /\ UNCHANGED <<made, q_id, ended, empty, info, files, client, queues,
                     mail, inherited>>
  BY DEF Clean, ServerInterrupted, Active
<1>2. /\ q_id[s] = current /\ current # 0
      /\ \A t \in Servers : Active(t) => t = s
      /\ \A t \in Servers : Holds(t) => t = s
  BY <1>1, OnlyOne DEF OrderInv
<1>3. /\ spc'[s] = "gone"
      /\ \A t \in Servers \ {s} : spc'[t] = spc[t] /\ hand'[t] = hand[t]
  BY <1>1 DEF Type, TypeOK
<1>4. \A t \in Servers : ~Holds(t)' /\ ~Active(t)'
  BY <1>2, <1>3 DEF Holds, Active
<1>5. RoundInv'
  BY <1>1, <1>3, RoundFor DEF OrderInv
<1>6. CASE current' = 0 /\ box' = <<>>
  <2>1. \A c \in Clients : cpc[c] \notin {"start", "gone"} => server_q[c] # current'
    BY <1>6 DEF OrderInv, Known
  <2>2. \A c \in Clients : Trail(c)' /\ Known(c)'
    BY <1>1, <1>4, <1>6, <2>1, CutOrder
  <2>3. AloneInv'
    BY <1>1, <1>4, <1>6 DEF OrderInv, AloneInv
  <2> QED BY <1>5, <2>2, <2>3 DEF OrderInv
<1>7. CASE spc[s] = "opened" /\ UNCHANGED <<current, box>>
  <2>1. ~Holds(s)
    BY <1>7 DEF Holds
  <2>2. \A c \in Clients : Trail(c)' /\ Known(c)'
    BY <1>1, <1>3, <1>4, <1>7, <2>1, BoxKept, IdleOrder
  <2>3. AloneInv'
    BY <1>1, <1>4, <1>7, AloneKept DEF OrderInv
  <2> QED BY <1>5, <2>2, <2>3 DEF OrderInv
<1> QED BY <1>2, <1>6, <1>7 DEF Clean, ServerInterrupted, RemoveQueue

LEMMA OpenOrder ==
  ASSUME Type, OrderInv, NEW s \in Servers, OpenQueue(s), ~inherited'
  PROVE  OrderInv'
<1>1. /\ spc[s] = "off" /\ spc' = [spc EXCEPT ![s] = "opened"]
      /\ current = 0 /\ current' = made + 1
      /\ q_id' = [q_id EXCEPT ![s] = made + 1]
      /\ UNCHANGED <<box, ended, empty, info, hand, files, client, queues, mail>>
  BY DEF OpenQueue
<1>2. /\ made \in Nat /\ made + 1 # 0
      /\ \A t \in Servers : q_id[t] \in 0 .. made /\ q_id[t] # made + 1
      /\ \A c \in Clients : server_q[c] \in 0 .. made /\ server_q[c] # made + 1
  BY DEF Type, TypeOK
<1>3. \A t \in Servers : ~Active(t)
  BY <1>1 DEF OrderInv, AloneInv, Type, Active
<1>4. /\ spc'[s] = "opened" /\ q_id'[s] = made + 1
      /\ \A t \in Servers \ {s} : spc'[t] = spc[t] /\ q_id'[t] = q_id[t]
  BY <1>1 DEF Type, TypeOK
<1>5. \A t \in Servers : (Active(t)' => t = s) /\ ~Holds(t)'
  BY <1>3, <1>4 DEF Active, Holds
<1>6. box' = <<>>
  BY <1>1 DEF OrderInv, AloneInv
<1>7. \A c \in Clients : Trail(c)' /\ Known(c)'
  BY <1>1, <1>2, <1>5, <1>6, CutOrder
<1>8. AloneInv'
  BY <1>1, <1>2, <1>4, <1>5 DEF OrderInv, AloneInv
<1>9. RoundInv'
  BY <1>3, <1>4 DEF RoundInv, Active
<1> QED BY <1>7, <1>8, <1>9 DEF OrderInv

LEMMA ServerOrder ==
  ASSUME Type, OrderInv, NEW s \in Servers,
         OpenQueue(s) \/ Serve(s) \/ ServerInterrupted(s), ~inherited'
  PROVE  OrderInv'
  BY OpenOrder, KeepQueueOrder, PollClientOrder, AddClientOrder,
     ComputeDateOrder, EndOrder, NothingToDoOrder, AnswerOrder, StopOrder
     DEF Serve

-----------------------------------------------------------------------------
(* The steps of a client.                                                  *)

(* The servers' books when a client puts something in the queue, or not.   *)
LEMMA ClientBooks ==
  ASSUME Type, OrderInv, NEW a \in Clients, Known(a),
         UNCHANGED <<current, server>>,
         \/ UNCHANGED box
         \/ /\ server_q[a] = current /\ cpc[a] \notin {"start", "gone"}
            /\ \E m \in Messages :
                   Send(m) /\ m.late = (\E s \in Servers : ended[s])
  PROVE  AloneInv' /\ RoundInv'
<1>1. UNCHANGED <<spc, q_id, ended, empty, hand>>
  BY DEF server
<1>2. current # 0 \/ box' = box
  BY DEF Known
<1>3. AloneInv'
  BY <1>1, <1>2, AloneKept DEF Active, OrderInv
<1>4. ASSUME NEW t \in Servers, ended[t], NEW i \in DOMAIN box', ~box'[i].late
      PROVE  i \in DOMAIN box /\ box'[i] = box[i]
  <2>1. CASE UNCHANGED box
    BY <1>4, <2>1
  <2>2. ASSUME NEW m \in Messages, Send(m), m.late = (\E s \in Servers : ended[s])
        PROVE  i \in DOMAIN box /\ box'[i] = box[i]
    <3>1. m.late
      BY <1>4, <2>2
    <3> QED BY <1>4, <2>2, <3>1, BoxPut
  <2> QED BY <2>1, <2>2
<1>5. ASSUME NEW t \in Servers
      PROVE  /\ spc[t] = "poll" /\ ended[t] =>
                    \A i \in OfType(box, 10)' : box'[i].late
             /\ spc[t] = "clean" => \A i \in DOMAIN box' : box'[i].late
  <2>1. ASSUME spc[t] = "poll", ended[t], NEW i \in OfType(box, 10)', ~box'[i].late
        PROVE  FALSE
    <3>1. i \in DOMAIN box' /\ box'[i].type = 10
      BY <2>1 DEF OfType
    <3>2. i \in DOMAIN box /\ box'[i] = box[i]
      BY <1>4, <2>1, <3>1
    <3>3. i \in OfType(box, 10)
      BY <3>1, <3>2 DEF OfType
    <3> QED BY <2>1, <3>2, <3>3 DEF OrderInv, RoundInv
  <2>2. ASSUME spc[t] = "clean", NEW i \in DOMAIN box', ~box'[i].late
        PROVE  FALSE
    <3>1. ended[t]
      BY <2>2 DEF OrderInv, RoundInv
    <3>2. i \in DOMAIN box /\ box'[i] = box[i]
      BY <1>4, <2>2, <3>1
    <3> QED BY <2>2, <3>2 DEF OrderInv, RoundInv
  <2> QED BY <2>1, <2>2
<1>6. RoundInv'
  BY <1>1, <1>5 DEF OrderInv, RoundInv
<1> QED BY <1>3, <1>6

(* The other clients.                                                      *)
LEMMA OthersOrder ==
  ASSUME Type, OrderInv, NEW a \in Clients,
         UNCHANGED <<current, server>>,
         \A c \in Clients \ {a} : ClientSame(c) /\ BoxSame(c)
  PROVE  \A c \in Clients \ {a} : Trail(c)' /\ Known(c)'
<1> TAKE c \in Clients \ {a}
<1>1. TableSame(c)
  BY TableKept DEF server
<1>2. HandSame(c)
  BY DEF HandSame, Held, Holds, server
<1> QED BY <1>1, <1>2, Untouched DEF OrderInv

LEMMA Composed ==
  ASSUME NEW a \in Clients, AloneInv', RoundInv', Trail(a)', Known(a)',
         \A c \in Clients \ {a} : Trail(c)' /\ Known(c)'
  PROVE  OrderInv'
  BY DEF OrderInv

LEMMA OtherClients ==
  ASSUME Type, NEW a \in Clients, Connect(a) \/ Run(a) \/ ClientInterrupted(a)
  PROVE  /\ UNCHANGED <<current, server, inherited>>
         /\ \A c \in Clients \ {a} : ClientSame(c)
<1>1. UNCHANGED <<current, server, inherited>>
  BY DEF Run, Connect, CreatePrivate, KeepPrivate, Register, AwaitId, Ask, Skip,
     Await, Finish, ClientInterrupted
<1> SUFFICES ASSUME NEW c \in Clients, c # a PROVE ClientSame(c)
  BY <1>1
<1>2. /\ cpc \in [Clients -> ClientPlaces] /\ server_q \in [Clients -> 0 .. made]
      /\ client_id \in [Clients -> Nat] /\ at \in [Clients -> Nat \ {0}]
      /\ mail \in [Clients -> Seq(Messages)]
  BY DEF Type, TypeOK
<1>3. cpc' = cpc \/ \E p : cpc' = [cpc EXCEPT ![a] = p]
  BY DEF Run, Connect, CreatePrivate, KeepPrivate, Register, AwaitId, Ask, Skip,
     Await, Finish, ClientInterrupted, Leave
<1>4. server_q' = server_q \/ \E p : server_q' = [server_q EXCEPT ![a] = p]
  BY DEF Run, Connect, CreatePrivate, KeepPrivate, Register, AwaitId, Ask, Skip,
     Await, Finish, ClientInterrupted
<1>5. client_id' = client_id \/ \E p : client_id' = [client_id EXCEPT ![a] = p]
  BY DEF Run, Connect, CreatePrivate, KeepPrivate, Register, AwaitId, Ask, Skip,
     Await, Finish, ClientInterrupted
<1>6. at' = at \/ \E p : at' = [at EXCEPT ![a] = p]
  BY DEF Run, Connect, CreatePrivate, KeepPrivate, Register, AwaitId, Ask, Skip,
     Await, Finish, ClientInterrupted
<1>7. mail' = mail \/ \E p : mail' = [mail EXCEPT ![a] = p]
  BY DEF Run, Connect, CreatePrivate, KeepPrivate, Register, AwaitId, Ask, Skip,
     Await, Finish, ClientInterrupted, Leave, Receive
<1>8. queues' \in {queues, queues \cup {a}, queues \ {a}}
  BY DEF Run, Connect, CreatePrivate, KeepPrivate, Register, AwaitId, Ask, Skip,
     Await, Finish, ClientInterrupted, Leave
<1>9. c \in queues' <=> c \in queues
  BY <1>8
<1>10. cpc'[c] = cpc[c] /\ server_q'[c] = server_q[c]
  BY <1>2, <1>3, <1>4
<1>11. client_id'[c] = client_id[c] /\ at'[c] = at[c] /\ mail'[c] = mail[c]
  BY <1>2, <1>5, <1>6, <1>7
<1> QED BY <1>9, <1>10, <1>11 DEF ClientSame

(* What a client puts in the queue, if it puts something in.               *)
Puts(a, m) ==
    /\ server_q[a] = current /\ cpc[a] \notin {"start", "gone"}
    /\ m.from = a /\ Send(m)
    /\ m.late = (\E s \in Servers : ended[s])

LEMMA ClientStep ==
  ASSUME Type, OrderInv, NEW a \in Clients,
         Connect(a) \/ Run(a) \/ ClientInterrupted(a),
         UNCHANGED box \/ \E m \in Messages : Puts(a, m),
         Trail(a)', Known(a)'
  PROVE  OrderInv'
<1>1. /\ UNCHANGED <<current, server>>
      /\ \A c \in Clients \ {a} : ClientSame(c)
  BY OtherClients
<1>2. AloneInv' /\ RoundInv'
  BY <1>1, ClientBooks DEF Puts, OrderInv
<1>3. \A c \in Clients \ {a} : BoxSame(c)
  BY BoxKept, BoxPut DEF Puts
<1>4. \A c \in Clients \ {a} : Trail(c)' /\ Known(c)'
  BY <1>1, <1>3, OthersOrder
<1> QED BY <1>2, <1>4, Composed

LEMMA HandStays ==
  ASSUME UNCHANGED server
  PROVE  \A c : /\ Held(c)' <=> Held(c)
                /\ \A s \in Servers : (Holds(s)' <=> Holds(s)) /\ hand'[s] = hand[s]
  BY DEF Held, Holds, server

LEMMA EnlistedStays ==
  ASSUME UNCHANGED <<current, server>>
  PROVE  \A c, id : Enlisted(c, id)' <=> Enlisted(c, id)
  BY DEF Enlisted, server

LEMMA MailEmpty ==
  ASSUME NEW a \in Clients, ~InMail(a), UNCHANGED mail
  PROVE  ~InMail(a)'
  BY DEF InMail

LEMMA ConnectOrder ==
  ASSUME Type, OrderInv, NEW a \in Clients, Connect(a)
  PROVE  OrderInv'
<1>1. cpc[a] = "start" /\ UNCHANGED <<current, box, server, mail>>
  BY DEF Connect
<1>2. Quiet(a)
  BY <1>1, NotAsking DEF OrderInv
<1>3. Quiet(a)'
  BY <1>1, <1>2, HandStays, BoxKept, MailEmpty DEF Quiet
<1>4. \/ cpc'[a] = "gone"
      \/ cpc'[a] = "create" /\ server_q'[a] # 0
  BY DEF Connect, Type, TypeOK
<1>5. Trail(a)'
  BY <1>3, <1>4, QuietTrail DEF Waiting
<1>6. Known(a)'
  BY <1>4 DEF Known
<1> QED BY <1>1, <1>5, <1>6, ClientStep

LEMMA CreateOrder ==
  ASSUME Type, OrderInv, NEW a \in Clients, CreatePrivate(a) \/ KeepPrivate(a)
  PROVE  OrderInv'
<1>1. /\ cpc[a] \in {"create", "created"}
      /\ UNCHANGED <<current, box, server, server_q, mail>>
  BY DEF CreatePrivate, KeepPrivate
<1>2. Quiet(a)
  BY <1>1, NotAsking DEF OrderInv
<1>3. Quiet(a)'
  BY <1>1, <1>2, HandStays, BoxKept, MailEmpty DEF Quiet
<1>4. cpc'[a] \in {"created", "register"} /\ a \in queues' /\ server_q'[a] # 0
  BY <1>1 DEF CreatePrivate, KeepPrivate, Type, TypeOK, OrderInv, Known
<1>5. Trail(a)'
  BY <1>3, <1>4, QuietTrail DEF Waiting
<1>6. Known(a)'
  BY <1>4 DEF Known
<1> QED BY <1>1, <1>5, <1>6, ClientStep DEF Run

(* Something is put in the queue by a client that had nothing there.       *)
LEMMA PutTrail ==
  ASSUME Type, NEW a \in Clients, Quiet(a), NEW m \in Messages, Puts(a, m),
         m.type # 5, Fits(a, m)', UNCHANGED <<server, mail>>
  PROVE  Trail(a)'
<1>1. /\ \A i, j \in InBox(a)' : i = j
      /\ \A i \in InBox(a)' : box'[i] = m
      /\ InBox(a)' # {}
  BY BoxPut DEF Puts, Quiet
<1>2. ~Held(a)' /\ ~InMail(a)'
  BY HandStays, MailEmpty DEF Quiet
<1> QED BY <1>1, <1>2, TrailFrom DEF Held

(* A client leaves; what it sent may still be in the queue.                *)
LEMMA LeaveOrder ==
  ASSUME Type, OrderInv, NEW a \in Clients,
         Run(a) \/ ClientInterrupted(a), Leave(a),
         cpc[a] \notin {"start", "gone"},
         UNCHANGED <<box, server_q, at>>
  PROVE  OrderInv'
<1>1. UNCHANGED <<current, server>>
  BY OtherClients
<1>2. cpc'[a] = "gone" /\ a \notin queues' /\ mail'[a] = <<>>
  BY DEF Leave, Type, TypeOK
<1>3. ~InMail(a)' /\ ~Waiting(a)'
  BY <1>2 DEF InMail, Waiting
<1>4. \A m : Fits(a, m) => Fits(a, m)'
  BY <1>1, <1>2, EnlistedStays DEF Fits
<1>5. \A i \in InBox(a)' : ~Held(a)' /\ \E m : m = box'[i] /\ Fits(a, m)'
  BY <1>1, <1>4, BoxKept, HandStays DEF OrderInv, Trail
<1>6. \A s \in Servers : Holds(s)' /\ hand'[s].from = a =>
          \E m : m = hand'[s] /\ Fits(a, m)'
  BY <1>1, <1>4, HandStays DEF OrderInv, Trail
<1>7. \A i, j \in InBox(a)' : i = j
  BY BoxKept DEF OrderInv, Trail
<1>8. Trail(a)'
  BY <1>3, <1>5, <1>6, <1>7, TrailFrom
<1>9. Known(a)'
  BY <1>2 DEF Known
<1> QED BY <1>8, <1>9, ClientStep

LEMMA RegisterOrder ==
  ASSUME Type, OrderInv, NEW a \in Clients, Register(a)
  PROVE  OrderInv'
<1>1. cpc[a] = "register" /\ UNCHANGED <<current, server, server_q, at>>
  BY DEF Register
<1>2. CASE Leave(a) /\ UNCHANGED box
  BY <1>1, <1>2, LeaveOrder DEF Run
<1>3. CASE ~(Leave(a) /\ UNCHANGED box)
  <2>1. /\ server_q[a] = current /\ Send(Message(10, 0, a, 0))
        /\ cpc' = [cpc EXCEPT ![a] = "awaitId"]
        /\ UNCHANGED <<queues, mail>>
    BY <1>3 DEF Register
  <2>2. PICK m \in Messages : m = Message(10, 0, a, 0)
    BY MessageType
  <2>3. /\ m.from = a /\ m.type = 10 /\ m.type # 5
        /\ m.late = (\E s \in Servers : ended[s])
    BY <2>2 DEF Message
  <2>4. Puts(a, m)
    BY <1>1, <2>1, <2>2, <2>3 DEF Puts
  <2>5. cpc'[a] = "awaitId"
    BY <2>1 DEF Type, TypeOK
  <2>6. Fits(a, m)'
    BY <1>1, <2>1, <2>3, <2>5 DEF Fits
  <2>7. Quiet(a)
    BY <1>1, NotAsking DEF OrderInv
  <2>8. Trail(a)'
    BY <1>1, <2>1, <2>3, <2>4, <2>6, <2>7, PutTrail
  <2>9. Known(a)'
    BY <1>1, <2>1, <2>5 DEF OrderInv, Known
  <2> QED BY <2>4, <2>8, <2>9, ClientStep DEF Run
<1> QED BY <1>2, <1>3

(* A client finds the one message in its queue.                            *)
LEMMA Received ==
  ASSUME Type, OrderInv, NEW a \in Clients, NEW t, Receive(a, t),
         UNCHANGED <<current, box, server, queues>>
  PROVE  /\ InBox(a)' = {} /\ ~Held(a)' /\ ~InMail(a)'
         /\ First(OfType(mail[a], t)) = 1 /\ Suits(a, mail[a][1])
<1>1. PICK q \in Seq(Messages) : q = mail[a]
  BY DEF Type, TypeOK
<1>2. First(OfType(q, t)) \in DOMAIN q
  <2>1. First(OfType(q, t)) \in OfType(q, t)
    BY <1>1, ReceiveType
  <2>2. OfType(q, t) \subseteq DOMAIN q
    BY DEF OfType
  <2> QED BY <2>1, <2>2
<1>3. q # <<>> /\ DOMAIN q = 1 .. Len(q)
  BY <1>2
<1>4. InMail(a)
  BY <1>1, <1>3 DEF InMail
<1>5. Len(q) = 1 /\ Suits(a, mail[a][1])
  BY <1>1, <1>4 DEF OrderInv, Trail
<1>6. First(OfType(q, t)) = 1 /\ 1 \in DOMAIN q
  BY <1>2, <1>3, <1>5
<1>7. RemoveAt(q, 1) \in Seq(Messages) /\ Len(RemoveAt(q, 1)) = 0
  BY <1>5, <1>6, RemoveAtFacts
<1>8. RemoveAt(q, 1) = <<>>
  BY <1>7, EmptySeq
<1>9. mail'[a] = <<>>
  BY <1>1, <1>6, <1>8 DEF Receive, Type, TypeOK
<1>10. ~InMail(a)'
  BY <1>9 DEF InMail
<1>11. InBox(a) = {} /\ ~Held(a)
  BY <1>4 DEF OrderInv, Trail, Held
<1>12. InBox(a)' = {} /\ ~Held(a)'
  BY <1>11, BoxKept, HandStays
<1> QED BY <1>1, <1>5, <1>6, <1>10, <1>12

LEMMA AwaitIdOrder ==
  ASSUME Type, OrderInv, NEW a \in Clients, AwaitId(a)
  PROVE  OrderInv'
<1>1. /\ cpc[a] = "awaitId" /\ Receive(a, 1)
      /\ cpc' = [cpc EXCEPT ![a] = "ask"]
      /\ UNCHANGED <<current, box, server, server_q, queues>>
  BY DEF AwaitId
<1>2. /\ Quiet(a)' /\ First(OfType(mail[a], 1)) = 1 /\ Suits(a, mail[a][1])
  BY <1>1, Received DEF Quiet
<1>3. cpc'[a] = "ask" /\ client_id'[a] = mail[a][1].id
  BY <1>1, <1>2 DEF AwaitId, Type, TypeOK
<1>4. server_q[a] = current => Enlisted(a, mail[a][1].id)
  BY <1>1, <1>2 DEF Suits
<1>5. Trail(a)'
  BY <1>2, <1>3, QuietTrail DEF Waiting
<1>6. PICK id : id = mail[a][1].id
  OBVIOUS
<1>7. server_q[a] = current => Enlisted(a, client_id[a])'
  BY <1>1, <1>3, <1>4, <1>6 DEF Enlisted, server
<1>8. Known(a)'
  BY <1>1, <1>3, <1>7 DEF OrderInv, Known
<1> QED BY <1>1, <1>5, <1>8, ClientStep DEF Run

LEMMA AskingKnown ==
  ASSUME NEW a \in Clients, Known(a), cpc[a] \in {"ask", "await"},
         cpc'[a] \in {"ask", "await"},
         UNCHANGED <<current, server, server_q, client_id, queues>>
  PROVE  Known(a)'
<1>1. Enlisted(a, client_id[a])' <=> Enlisted(a, client_id[a])
  BY DEF Enlisted, server
<1> QED BY <1>1 DEF Known

LEMMA AwaitOrder ==
  ASSUME Type, OrderInv, NEW a \in Clients, Await(a)
  PROVE  OrderInv'
<1>1. /\ cpc[a] = "await" /\ Receive(a, 2)
      /\ cpc' = [cpc EXCEPT ![a] = "ask"]
      /\ UNCHANGED <<current, box, server, server_q, client_id, queues>>
  BY DEF Await
<1>2. Quiet(a)'
  BY <1>1, Received DEF Quiet
<1>3. cpc'[a] = "ask"
  BY <1>1 DEF Type, TypeOK
<1>4. Trail(a)'
  BY <1>2, <1>3, QuietTrail DEF Waiting
<1>5. Known(a)'
  BY <1>1, <1>3, AskingKnown DEF OrderInv
<1> QED BY <1>1, <1>4, <1>5, ClientStep DEF Run

LEMMA AskOrder ==
  ASSUME Type, OrderInv, NEW a \in Clients, Ask(a)
  PROVE  OrderInv'
<1>1. /\ cpc[a] = "ask" /\ server_q[a] = current
      /\ cpc' = [cpc EXCEPT ![a] = "await"]
      /\ UNCHANGED <<current, server, server_q, client_id, at, queues, mail>>
  BY DEF Ask
<1>2. PICK t \in {2, 3, 4} : /\ t = TypeOf[program[a][at[a]]]
                             /\ Send(Message(t, client_id[a], a, at[a]))
  BY DEF Ask, TypeOf
<1>3. PICK m \in Messages : m = Message(t, client_id[a], a, at[a])
  <2>1. client_id[a] \in Nat /\ at[a] \in Nat
    BY DEF Type, TypeOK
  <2> QED BY <2>1, MessageType
<1>4. /\ m.from = a /\ m.type = t /\ m.id = client_id[a] /\ m.n = at[a]
      /\ m.late = (\E s \in Servers : ended[s])
  BY <1>3 DEF Message
<1>5. Puts(a, m) /\ m.type # 5
  BY <1>1, <1>2, <1>3, <1>4 DEF Puts
<1>6. cpc'[a] = "await"
  BY <1>1 DEF Type, TypeOK
<1>7. Enlisted(a, m.id)
  BY <1>1, <1>4 DEF OrderInv, Known
<1>8. Enlisted(a, m.id)'
  BY <1>1, <1>7, EnlistedStays
<1>9. Fits(a, m)'
  BY <1>1, <1>4, <1>6, <1>8 DEF Fits
<1>10. Quiet(a)
  BY <1>1, NotAsking DEF OrderInv
<1>11. Trail(a)'
  BY <1>1, <1>5, <1>9, <1>10, PutTrail
<1>12. Known(a)'
  BY <1>1, <1>6, AskingKnown DEF OrderInv
<1> QED BY <1>5, <1>11, <1>12, ClientStep DEF Run

LEMMA SkipOrder ==
  ASSUME Type, OrderInv, NEW a \in Clients, Skip(a)
  PROVE  OrderInv'
<1>1. /\ cpc[a] = "ask"
      /\ UNCHANGED <<current, server, cpc, server_q, client_id, queues, mail>>
  BY DEF Skip
<1>2. Quiet(a)
  BY <1>1, NotAsking DEF OrderInv
<1>3. UNCHANGED box \/ \E m \in Messages : Puts(a, m) /\ m.type = 5
  <2>1. \/ UNCHANGED box
        \/ server_q[a] = current /\ Send(Message(TypeOf["END"], client_id[a], a, at[a]))
    BY DEF Skip
  <2>2. PICK m \in Messages : m = Message(TypeOf["END"], client_id[a], a, at[a])
    <3>1. client_id[a] \in Nat /\ at[a] \in Nat
      BY DEF Type, TypeOK
    <3>2. TypeOf["END"] \in {1, 2, 3, 4, 5, 10}
      BY DEF TypeOf
    <3> QED BY <3>1, <3>2, MessageType
  <2>3. /\ m.from = a /\ m.type = 5
        /\ m.late = (\E s \in Servers : ended[s])
    BY <2>2 DEF Message, TypeOf
  <2> QED BY <1>1, <2>1, <2>2, <2>3 DEF Puts
<1>4. InBox(a)' = {}
  BY <1>2, <1>3, BoxKept, BoxPut DEF Quiet, Puts
<1>5. Quiet(a)' /\ ~Waiting(a)'
  BY <1>1, <1>2, <1>4, HandStays, MailEmpty DEF Quiet, Waiting
<1>6. Known(a)'
  BY <1>1, AskingKnown DEF OrderInv
<1> QED BY <1>3, <1>5, <1>6, QuietTrail, ClientStep DEF Run

LEMMA InterruptedOrder ==
  ASSUME Type, OrderInv, NEW a \in Clients, ClientInterrupted(a)
  PROVE  OrderInv'
<1>1. /\ cpc[a] \notin {"start", "gone"}
      /\ UNCHANGED <<current, box, server, server_q, at>>
  BY DEF ClientInterrupted
<1>2. CASE Leave(a)
  BY <1>1, <1>2, LeaveOrder
<1>3. CASE /\ cpc[a] = "created" /\ cpc' = [cpc EXCEPT ![a] = "gone"]
           /\ UNCHANGED <<queues, mail>>
  <2>1. Quiet(a)
    BY <1>3, NotAsking DEF OrderInv
  <2>2. cpc'[a] = "gone"
    BY <1>3 DEF Type, TypeOK
  <2>3. Quiet(a)' /\ ~Waiting(a)' /\ Known(a)'
    BY <1>1, <1>3, <2>1, <2>2, HandStays, BoxKept, MailEmpty
       DEF Quiet, Waiting, Known
  <2> QED BY <1>1, <2>3, QuietTrail, ClientStep
<1> QED BY <1>2, <1>3 DEF ClientInterrupted

LEMMA ClientOrder ==
  ASSUME Type, OrderInv, NEW a \in Clients,
         Connect(a) \/ Run(a) \/ ClientInterrupted(a)
  PROVE  OrderInv'
<1>1. CASE Finish(a)
  <2>1. /\ cpc[a] \notin {"start", "gone"} /\ Leave(a)
        /\ UNCHANGED <<box, server_q, at>>
    BY <1>1 DEF Finish
  <2> QED BY <1>1, <2>1, LeaveOrder DEF Run
<1> QED BY <1>1, ConnectOrder, CreateOrder, RegisterOrder, AwaitIdOrder,
           AskOrder, SkipOrder, AwaitOrder, InterruptedOrder DEF Run

-----------------------------------------------------------------------------
(* The theorems.                                                           *)

LEMMA InitIInv == Init => IInv
<1> SUFFICES ASSUME Init PROVE IInv OBVIOUS
<1>1. /\ box = <<>> /\ current = 0
      /\ \A s \in Servers : spc[s] = "off" /\ q_id[s] = 0
      /\ \A c \in Clients : cpc[c] = "start" /\ mail[c] = <<>>
  BY DEF Init
<1>2. AloneInv
  BY <1>1 DEF AloneInv, Active
<1>3. RoundInv
  BY <1>1 DEF RoundInv
<1>4. \A c \in Clients : Trail(c) /\ Known(c)
  BY <1>1 DEF Trail, Known, InBox, Held, Holds, InMail, Waiting
<1> QED BY <1>2, <1>3, <1>4, InitType DEF IInv, OrderInv

LEMMA IInvStep == IInv /\ [Next]_vars => IInv'
<1> SUFFICES ASSUME IInv, [Next]_vars PROVE IInv'
  OBVIOUS
<1>1. Type /\ Type'
  BY NextType DEF IInv
<1>2. CASE UNCHANGED vars
  <2>1. UNCHANGED <<current, box, server, client, queues, mail, inherited>>
    BY <1>2 DEF vars
  <2>2. OrderInv => OrderInv'
    BY <2>1 DEF OrderInv, AloneInv, RoundInv, Trail, Known, InBox, Held, Holds,
       Active, InMail, Waiting, Fits, Suits, Enlisted, OfType, server, client
  <2> QED BY <1>1, <2>1, <2>2 DEF IInv
<1>3. ASSUME NEW s \in Servers,
             OpenQueue(s) \/ Serve(s) \/ ServerInterrupted(s), ~inherited'
      PROVE  OrderInv'
  <2>1. ~inherited
    BY <1>3 DEF OpenQueue, Serve, KeepQueue, PollClient, AddClient, Compute,
       Date, End, NothingToDo, Answer, Clean, ServerInterrupted
  <2> QED BY <1>1, <1>3, <2>1, ServerOrder DEF IInv
<1>4. ASSUME NEW a \in Clients,
             Connect(a) \/ Run(a) \/ ClientInterrupted(a), ~inherited'
      PROVE  OrderInv'
  <2>1. ~inherited
    BY <1>1, <1>4, OtherClients
  <2> QED BY <1>1, <1>4, <2>1, ClientOrder DEF IInv
<1> QED BY <1>1, <1>2, <1>3, <1>4 DEF IInv, Next

(* The inductive invariant holds throughout, and says something of the     *)
(* messages as long as every server has a queue of its own.                *)
THEOREM Invariance == Spec => []IInv
<1>1. Init => IInv
  BY InitIInv
<1>2. IInv /\ [Next]_vars => IInv'
  BY IInvStep
<1> QED BY <1>1, <1>2, PTL DEF Spec

(* As long as no server takes up the queue of another, a client only ever  *)
(* finds the answer to what it is asking now, however servers and clients  *)
(* are interrupted and started again (client.c:84-95, server.c:103).       *)
THEOREM AnswersAreTheirs == Spec => []OwnAnswer
<1>1. IInv => OwnAnswer
  <2> SUFFICES ASSUME IInv, ~inherited, NEW c \in Clients,
                      NEW i \in OfType(mail[c], 2)
               PROVE  /\ cpc[c] = "await"
                      /\ mail[c][i].from = c /\ mail[c][i].n = at[c]
    BY DEF OwnAnswer
  <2>1. PICK q \in Seq(Messages) : q = mail[c]
    BY DEF IInv, Type, TypeOK
  <2>2. i \in 1 .. Len(q) /\ q[i].type = 2
    BY <2>1 DEF OfType
  <2>3. q # <<>>
    BY <2>2
  <2>4. Len(q) = 1 /\ Suits(c, q[1])
    BY <2>1, <2>3 DEF IInv, OrderInv, Trail, InMail
  <2>5. i = 1
    BY <2>2, <2>4
  <2> QED BY <2>1, <2>2, <2>4, <2>5 DEF Suits
<1> QED BY <1>1, Invariance, PTL

(* As long as no server takes up the queue of another and none faults, a   *)
(* client that waits has exactly one message on the way while the queue it *)
(* registered in is there (client.c:69, server.c:126).                     *)
THEOREM OneOnTheWay == Spec => []OneMessageOnTheWay
<1>1. IInv => OneMessageOnTheWay
  <2> SUFFICES ASSUME IInv, ~inherited, \A s \in Servers : spc[s] # "faulted",
                      NEW c \in Clients, Waiting(c), server_q[c] = current
               PROVE  Cardinality(InBox(c)) + Cardinality(InHand(c))
                          + Len(mail[c]) = 1
    BY DEF OneMessageOnTheWay
  <2>1. Trail(c) /\ Type /\ AloneInv
    BY DEF IInv, OrderInv
  <2>2. Len(mail[c]) = IF InMail(c) THEN 1 ELSE 0
    BY <2>1 DEF Trail, InMail
  <2>3. Cardinality(InBox(c)) = IF InBox(c) = {} THEN 0 ELSE 1
    <3>1. CASE InBox(c) = {}
      BY <3>1, FS_EmptySet
    <3>2. CASE InBox(c) # {}
      <4>1. PICK i : i \in InBox(c)
        BY <3>2
      <4>2. InBox(c) = {i}
        BY <2>1, <4>1 DEF Trail
      <4> QED BY <4>2, FS_Singleton
    <3> QED BY <3>1, <3>2
  <2>4. Cardinality(InHand(c)) = IF Held(c) THEN 1 ELSE 0
    <3>1. InHand(c) = {s \in Servers : Holds(s) /\ hand[s].from = c}
      BY DEF InHand, Holds
    <3>2. CASE ~Held(c)
      <4>1. InHand(c) = {}
        BY <3>1, <3>2 DEF Held
      <4> QED BY <3>2, <4>1, FS_EmptySet
    <3>3. CASE Held(c)
      <4>1. PICK s \in Servers : s \in InHand(c) /\ Holds(s)
        BY <3>1, <3>3 DEF Held
      <4>2. \A t \in Servers : Holds(t) => t = s
        <5>1. Active(s)
          BY <4>1 DEF Holds, Active
        <5> QED BY <2>1, <5>1, OnlyOne
      <4>3. InHand(c) = {s}
        BY <3>1, <4>1, <4>2
      <4> QED BY <3>3, <4>3, FS_Singleton
    <3> QED BY <3>2, <3>3
  <2>5. Held(c) \/ InMail(c) \/ InBox(c) # {}
    BY <2>1 DEF Trail
  <2>6. /\ InBox(c) # {} => ~Held(c) /\ ~InMail(c)
        /\ Held(c) => ~InMail(c)
    BY <2>1 DEF Trail, Held
  <2> QED BY <2>2, <2>3, <2>4, <2>5, <2>6
<1> QED BY <1>1, Invariance, PTL

(* A server that is about to remove its queue leaves in it only what was   *)
(* sent after END had been read, although it looks for new clients and for *)
(* requests one after the other (server.c:126-179).                        *)
THEOREM DrainMissesNothing == Spec => []NothingEarlyIsLeft
<1>1. IInv => NothingEarlyIsLeft
  BY DEF IInv, OrderInv, RoundInv, NothingEarlyIsLeft
<1> QED BY <1>1, Invariance, PTL
=============================================================================

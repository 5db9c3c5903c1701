---------------------- MODULE MessageServerPosixProofs ----------------------
(***************************************************************************)
(* Proofs about MessageServerPosix, for any clients and command lines, any *)
(* length of the queues and any number of descriptors.                     *)
(***************************************************************************)
EXTENDS MessageServerPosix, FiniteSetTheorems, SequenceTheorems,
        WellFoundedInduction, TLAPS

-----------------------------------------------------------------------------
(* The inductive invariant.                                                *)

Letter == [from : Clients, n : Nat, id : Nat]
Entry  == [pid : Clients, q_id : {Failed} \cup Descriptors]

Type ==
    /\ named \in BOOLEAN /\ ended \in BOOLEAN /\ empty \in BOOLEAN
    /\ box \in Seq(Letter)
    /\ spc \in {"off", "opened", "loop", "add", "greet", "answer", "gone",
                "failed", "faulted"}
    /\ info \in Seq(Entry)
    /\ hand \in Letter \cup {NoMessage}
    /\ spc \in {"add", "greet", "answer"} => hand \in Letter
    /\ spc = "greet" => info # <<>>
    /\ fds \in [Descriptors -> Clients \cup {Free, Pipe}]
    /\ signals \in SUBSET Clients
    /\ cpc \in [Clients -> {"start", "register", "awaitId", "ask", "await",
                            "gone", "killed"}]
    /\ program \in [Clients -> Seq(Commands)]
    /\ at \in [Clients -> Nat \ {0}]
    /\ client_id \in [Clients -> Nat]
    /\ mail \in [Clients -> Seq(Letter)]
    /\ crowd \in BOOLEAN /\ astray \in BOOLEAN

(* What a client is waiting for is in the server's queue, in its hand or   *)
(* in the client's own queue, and in one of these only.                    *)
Wants(m)    == m.n = 0 \/ Command(m) # "END"
Boxed(c, m) == \E i \in DOMAIN box : box[i] = m /\ m.from = c /\ Wants(m)
InHand(c)   == hand.from = c
InMail(c)   == mail[c] # <<>>

Once(c) == \A i, j \in DOMAIN box :
               /\ box[i].from = c /\ Wants(box[i])
               /\ box[j].from = c /\ Wants(box[j])
               => i = j

(* What the server knows of a client, and what it may read of one.         *)
Fresh(c) == \A k \in DOMAIN info : info[k].pid # c

Enlisted(c, id) ==
    /\ id + 1 \in DOMAIN info
    /\ info[id + 1].pid = c /\ info[id + 1].q_id \in Descriptors
    /\ fds[info[id + 1].q_id] = c

Asks(c) == cpc[c] \in {"awaitId", "await", "killed"}

Fits(c, m) ==
    IF m.n = 0 THEN cpc[c] \in {"awaitId", "killed"}
    ELSE /\ cpc[c] \in {"await", "killed"}
         /\ m.n = at[c] /\ Enlisted(c, m.id)

Trail(c) ==
    /\ Once(c)
    /\ \A m \in Letter : Boxed(c, m) =>
           /\ ~InHand(c) /\ ~InMail(c)
           /\ Fits(c, m) /\ (m.n = 0 => Fresh(c))
    /\ InHand(c) =>
           /\ ~InMail(c) /\ Asks(c)
           /\ spc \in {"off", "opened", "loop"} => Refused(c)
    /\ InMail(c) =>
           /\ Asks(c) /\ Len(mail[c]) = 1
           /\ ~Gone(c) =>
                  /\ mail[c][1].from = c
                  /\ mail[c][1].n = (IF cpc[c] = "await" THEN at[c] ELSE 0)
                  /\ cpc[c] = "awaitId" => Enlisted(c, mail[c][1].id)
    /\ Waiting(c) =>
           InHand(c) \/ InMail(c) \/ Refused(c) \/ \E m \in Letter : Boxed(c, m)

Known(c) ==
    /\ cpc[c] \in {"start", "register"} => Fresh(c)
    /\ cpc[c] \in {"ask", "await"} => Enlisted(c, client_id[c])
    /\ c \in signals => cpc[c] = "gone"
    /\ Fresh(c) => \A d \in Descriptors : fds[d] # c

HandInv ==
    /\ spc = "add" => hand.n = 0 /\ Fits(hand.from, hand) /\ Fresh(hand.from)
    /\ spc = "greet" => hand.n = 0 /\ Fits(hand.from, hand)
                            /\ Enlisted(hand.from, Len(info) - 1)
    /\ spc = "answer" => hand.n # 0 /\ Fits(hand.from, hand)

OrderInv ==
    /\ spc # "failed" /\ HandInv
    /\ \A c \in Clients : Trail(c) /\ Known(c)

(* As long as the clients come one after the other only number 4 is ever a *)
(* client's, and a pipe never is there.                                    *)
Stopped == spc \in {"gone", "failed", "faulted"}

AloneInv ==
    /\ ~astray
    /\ \A d \in Descriptors : fds[d] \in Clients => d = PrivateQ
    /\ spc = "off" => \A d \in Descriptors : fds[d] = Free
    /\ fds[PrivateQ] = Pipe => Stopped
    /\ \A c \in Clients : ~Stopped =>
           /\ c \in signals => fds[PrivateQ] = c
           /\ cpc[c] = "gone" /\ c \notin signals =>
                  \A d \in Descriptors : fds[d] # c

IInv ==
    /\ Type
    /\ ~astray /\ spc # "faulted" => OrderInv
    /\ ~crowd => AloneInv

-----------------------------------------------------------------------------
(* Types.                                                                  *)

LEMMA NobodyWrites == NoMessage \notin Letter /\ NoMessage.from = Nobody
  BY ClientsAssumption DEF NoMessage, Message, Letter

LEMMA DescriptorFacts ==
  /\ PrivateQ \in Descriptors /\ Failed \notin Descriptors
  /\ Descriptors \subseteq Nat
  BY LimitsAssumption DEF PrivateQ, Descriptors, Failed

LEMMA HeadFacts ==
  ASSUME NEW S, NEW s \in Seq(S), s # <<>>
  PROVE  /\ Head(s) \in S /\ Tail(s) \in Seq(S) /\ Head(s) = s[1]
         /\ Len(s) \in Nat \ {0} /\ Len(Tail(s)) = Len(s) - 1
         /\ DOMAIN s = 1 .. Len(s) /\ DOMAIN Tail(s) = 1 .. Len(s) - 1
         /\ \A i \in 1 .. Len(s) - 1 : Tail(s)[i] = s[i + 1]
  BY HeadTailProperties

(* Every nonempty set of naturals has a least element.                     *)
LEMMA LeastElement ==
  ASSUME NEW T \in SUBSET Nat, T # {}
  PROVE  \E m \in T : \A n \in T : m <= n
<1> DEFINE R == StrictSubsetOrdering(Nat)
           U == {0 .. n : n \in T}
<1>1. IsWellFoundedOn(R, FiniteSubsetsOf(Nat))
  BY FS_StrictSubsetOrderingWellFounded
<1>2. U \subseteq FiniteSubsetsOf(Nat) /\ U # {}
  <2>1. ASSUME NEW n \in T
        PROVE  IsFiniteSet(0 .. n) /\ 0 .. n \in SUBSET Nat
    BY FS_Interval
  <2> QED BY <2>1 DEF FiniteSubsetsOf
<1> HIDE DEF R
<1>3. \E x \in U : \A y \in U : ~ (<<y, x>> \in R)
  <2> HIDE DEF U
  <2> QED BY <1>1, <1>2, WFMin
<1>4. PICK m \in T : \A n \in T : <<0 .. n, 0 .. m>> \notin R
  BY <1>3
<1>5. ASSUME NEW n \in T, n < m
      PROVE  FALSE
  <2>1. 0 .. n \subseteq 0 .. m /\ 0 .. n # 0 .. m
    BY <1>5
  <2>2. 0 .. n \in SUBSET Nat /\ 0 .. m \in SUBSET Nat
    BY <1>5
  <2>3. <<0 .. n, 0 .. m>> \in R
    BY <2>1, <2>2 DEF R, StrictSubsetOrdering
  <2> QED BY <1>4, <2>3
<1> QED BY <1>5

LEMMA LowestIsFree ==
  ASSUME Type, Free2 # {}
  PROVE  Lowest \in Descriptors /\ fds[Lowest] = Free
                 /\ \A d \in Descriptors : fds[d] = Free => Lowest <= d
<1>1. Free2 \in SUBSET Nat
  BY DescriptorFacts DEF Free2
<1>2. \E d \in Free2 : \A e \in Free2 : d <= e
  BY <1>1, LeastElement
<1>3. Lowest \in Free2 /\ \A e \in Free2 : Lowest <= e
  BY <1>2 DEF Lowest
<1> QED BY <1>3 DEF Free2

LEMMA InitType == Init => Type
<1> SUFFICES ASSUME Init PROVE Type OBVIOUS
<1>1. program \in [Clients -> Seq(Commands)]
  BY ProgramsAssumption DEF Init
<1>2. \A S : <<>> \in Seq(S)
  OBVIOUS
<1>3. fds \in [Descriptors -> Clients \cup {Free, Pipe}]
  BY DEF Init
<1>4. /\ mail \in [Clients -> Seq(Letter)] /\ box \in Seq(Letter)
      /\ info \in Seq(Entry)
  BY <1>2 DEF Init
<1>5. at \in [Clients -> Nat \ {0}] /\ client_id \in [Clients -> Nat]
  BY DEF Init
<1>6. signals \in SUBSET Clients
  BY DEF Init
<1> QED BY <1>1, <1>3, <1>4, <1>5, <1>6 DEF Init, Type

LEMMA TakeType ==
  ASSUME Type, NEW to \in {"loop", "add", "answer", "faulted"}, Take(to),
         hand' = Head(box) \/ (hand' = hand /\ to = "loop"),
         ended' \in BOOLEAN,
         fds' \in [Descriptors -> Clients \cup {Free, Pipe}]
  PROVE  Type'
<1>1. /\ box # <<>> /\ box \in Seq(Letter) /\ box' = Tail(box) /\ spc' = to
      /\ empty' = FALSE
      /\ UNCHANGED <<named, info, signals, client, mail, history>>
  BY DEF Take, Type
<1>2. Head(box) \in Letter /\ Tail(box) \in Seq(Letter)
  BY <1>1
<1> QED BY <1>1, <1>2 DEF Type, client, history

LEMMA ServerType ==
  ASSUME Type, Server \/ ServerInterrupted
  PROVE  Type'
<1>1. CASE TakeName \/ Compute \/ End
  BY <1>1, TakeType DEF TakeName, Compute, End, Type
<1>2. CASE Date
  <2>1. fds' \in [Descriptors -> Clients \cup {Free, Pipe}]
    <3>1. CASE Cardinality(Free2) >= 2
      <4>1. Free2 # {}
        BY <3>1, FS_EmptySet
      <4> QED BY <1>2, <4>1, LowestIsFree DEF Date, Type
    <3>2. CASE ~(Cardinality(Free2) >= 2)
      BY <1>2, <3>2 DEF Date, Type
    <3> QED BY <3>1, <3>2
  <2> QED BY <1>2, <2>1, TakeType DEF Date, Type
<1>3. CASE AddClient
  <2>1. PICK fd \in {Failed} \cup Descriptors :
            fd = (IF Gone(hand.from) \/ Free2 = {} THEN Failed ELSE Lowest)
    BY LowestIsFree
  <2>2. /\ spc = "add" /\ hand \in Letter /\ info \in Seq(Entry)
        /\ info' = Append(info, [pid |-> hand.from, q_id |-> fd])
        /\ fds' = IF fd = Failed THEN fds ELSE [fds EXCEPT ![fd] = hand.from]
        /\ spc' = IF fd = Failed THEN "loop" ELSE "greet"
        /\ crowd' \in BOOLEAN
        /\ UNCHANGED <<named, ended, empty, hand, box, signals, client, mail,
                       astray>>
    BY <1>3, <2>1 DEF AddClient, Type
  <2>3. hand.from \in Clients /\ [pid |-> hand.from, q_id |-> fd] \in Entry
    BY <2>1, <2>2 DEF Letter, Entry
  <2>4. info' \in Seq(Entry) /\ info' # <<>>
    BY <2>2, <2>3
  <2>5. fds' \in [Descriptors -> Clients \cup {Free, Pipe}]
    BY <2>1, <2>2, <2>3 DEF Type
  <2> QED BY <2>2, <2>4, <2>5 DEF Type, client
<1>4. ASSUME NEW fd, NEW m \in Letter, Send(fd, m), hand' = NoMessage,
             UNCHANGED <<ended, empty, info, box, fds, signals, client, history>>
      PROVE  Type'
  <2>1. mail' \in [Clients -> Seq(Letter)]
    <3>1. mail' = mail \/ \E c \in Clients : mail' = [mail EXCEPT ![c] = Append(@, m)]
      BY <1>4 DEF Send
    <3>2. \A c \in Clients : Append(mail[c], m) \in Seq(Letter)
      BY DEF Type
    <3> QED BY <3>1, <3>2 DEF Type
  <2>2. spc' \in {"loop", "failed"} /\ named' \in BOOLEAN
    BY <1>4 DEF Send, Stop, Type
  <2> QED BY <1>4, <2>1, <2>2 DEF Type, client, history
<1>5. CASE Greet
  <2>1. Message(hand.from, 0, Len(info) - 1) \in Letter
    <3>1. hand \in Letter /\ info \in Seq(Entry) /\ info # <<>>
      BY <1>5 DEF Greet, Type
    <3>2. Len(info) - 1 \in Nat
      BY <3>1
    <3> QED BY <3>1, <3>2 DEF Message, Letter
  <2> QED BY <1>4, <1>5, <2>1 DEF Greet
<1>6. CASE Answer
  <2>1. hand \in Letter
    BY <1>6 DEF Answer, Type
  <2> QED BY <1>4, <1>6, <2>1 DEF Answer
<1>7. CASE CleanClient
  <2>1. fds' \in [Descriptors -> Clients \cup {Free, Pipe}]
    BY <1>7 DEF CleanClient, Close, Type
  <2>2. signals' \in SUBSET Clients /\ astray' \in BOOLEAN
    BY <1>7 DEF CleanClient, Type
  <2> QED BY <1>7, <2>1, <2>2 DEF CleanClient, Type, server, client
<1>8. CASE OpenQueue \/ KeepQueue \/ NothingToDo \/ Clean \/ ServerInterrupted
  BY <1>8 DEF OpenQueue, KeepQueue, NothingToDo, Clean, ServerInterrupted, Stop,
     Type, client, history
<1> QED BY <1>1, <1>2, <1>3, <1>5, <1>6, <1>7, <1>8 DEF Server

LEMMA PutType ==
  ASSUME Type, NEW c \in Clients, NEW n \in Nat, Put(c, n)
  PROVE  box' \in Seq(Letter)
<1>1. Message(c, n, client_id[c]) \in Letter
  BY DEF Message, Letter, Type
<1> QED BY <1>1 DEF Put, Type

LEMMA ClientType ==
  ASSUME Type, NEW c \in Clients, Client(c) \/ ClientInterrupted(c)
  PROVE  Type'
<1>1. at[c] \in Nat \ {0} /\ at \in [Clients -> Nat \ {0}]
  BY DEF Type
<1>2. CASE Connect(c) \/ ClientInterrupted(c)
  BY <1>2 DEF Connect, ClientInterrupted, Type, server, history
<1>3. CASE Register(c)
  BY <1>3, PutType DEF Register, Type, server, history
<1>4. CASE Ask(c)
  <2>1. box' \in Seq(Letter)
    BY <1>1, <1>4, PutType DEF Ask
  <2> QED BY <1>4, <2>1 DEF Ask, Type, server, history
<1>5. CASE Skip(c)
  <2>1. box' \in Seq(Letter)
    BY <1>1, <1>5, PutType DEF Skip, Type
  <2>2. at' \in [Clients -> Nat \ {0}]
    BY <1>1, <1>5 DEF Skip
  <2> QED BY <1>5, <2>1, <2>2 DEF Skip, Type, server, history
<1>6. CASE AwaitId(c) \/ Await(c)
  <2>1. /\ mail[c] # <<>> /\ mail' = [mail EXCEPT ![c] = Tail(@)]
        /\ UNCHANGED <<server, box, fds, signals, program, history>>
        /\ cpc' = [cpc EXCEPT ![c] = "ask"]
    BY <1>6 DEF AwaitId, Await, Receive
  <2>2. Head(mail[c]) \in Letter /\ Tail(mail[c]) \in Seq(Letter)
    BY <2>1 DEF Type
  <2>3. mail' \in [Clients -> Seq(Letter)]
    BY <2>1, <2>2 DEF Type
  <2>4. Head(mail[c]).id \in Nat
    BY <2>2 DEF Letter
  <2>5. client_id' \in [Clients -> Nat]
    BY <1>6, <2>4 DEF AwaitId, Await, Type
  <2>6. at' \in [Clients -> Nat \ {0}]
    <3>1. at[c] + 1 \in Nat \ {0}
      BY <1>1
    <3> QED BY <1>1, <1>6, <3>1 DEF AwaitId, Await
  <2> QED BY <2>1, <2>3, <2>5, <2>6 DEF Type, server, history
<1>7. CASE Finish(c)
  BY <1>7 DEF Finish, Type, server, history
<1> QED BY <1>2, <1>3, <1>4, <1>5, <1>6, <1>7 DEF Client

LEMMA NextType == Type /\ [Next]_vars => Type'
<1>1. ASSUME Type, UNCHANGED vars PROVE Type'
  BY <1>1 DEF Type, vars, server, client, history
<1> QED BY <1>1, ServerType, ClientType DEF Next

-----------------------------------------------------------------------------
(* What a step leaves alone of a client's messages.                        *)

BoxSame(c) == /\ Once(c) => Once(c)'
              /\ \A m \in Letter : Boxed(c, m)' <=> Boxed(c, m)

TableSame(c) ==
    /\ Fresh(c)' <=> Fresh(c)
    /\ Refused(c) => Refused(c)'
    /\ \A d \in Descriptors : fds'[d] = c => fds[d] = c
    /\ \A id \in Nat : Enlisted(c, id) => Enlisted(c, id)'

ClientSame(c) ==
    /\ cpc'[c] = cpc[c] /\ at'[c] = at[c] /\ client_id'[c] = client_id[c]
    /\ mail'[c] = mail[c]
    /\ c \in signals' => c \in signals

HandSame(c) ==
    /\ InHand(c)' => InHand(c)
    /\ InHand(c) => InHand(c)' \/ Refused(c)
    /\ InHand(c)' /\ spc' \in {"off", "opened", "loop"} =>
           spc \in {"off", "opened", "loop"}

LEMMA FitsKept ==
  ASSUME Type, NEW c \in Clients, NEW m \in Letter, TableSame(c), Fits(c, m),
         cpc'[c] \in {cpc[c], "killed"}, at'[c] = at[c]
  PROVE  Fits(c, m)'
<1>1. m.id \in Nat
  BY DEF Letter
<1> QED BY <1>1 DEF Fits, TableSame

LEMMA KnownKept ==
  ASSUME Type, NEW c \in Clients, Known(c), TableSame(c), ClientSame(c)
  PROVE  Known(c)'
<1>1. PICK id \in Nat : id = client_id[c]
  BY DEF Type
<1>2. cpc[c] \in {"ask", "await"} => Enlisted(c, id)'
  BY <1>1 DEF Known, TableSame
<1>3. cpc'[c] \in {"ask", "await"} => Enlisted(c, client_id[c])'
  BY <1>1, <1>2 DEF ClientSame, Enlisted
<1>4. Fresh(c)' => \A d \in Descriptors : fds'[d] # c
  BY DEF Known, TableSame
<1> QED BY <1>3, <1>4 DEF Known, ClientSame, TableSame

LEMMA Untouched ==
  ASSUME Type, NEW c \in Clients, Trail(c), Known(c),
         BoxSame(c), TableSame(c), ClientSame(c), HandSame(c)
  PROVE  Trail(c)' /\ Known(c)'
<1>1. /\ client_id[c] \in Nat /\ mail[c] \in Seq(Letter)
      /\ \A m \in Letter : m.id \in Nat
  BY DEF Type, Letter
<1>2. InMail(c) /\ Len(mail[c]) = 1 => mail[c][1].id \in Nat
  BY <1>1
<1>3. /\ InMail(c)' <=> InMail(c)
      /\ Waiting(c)' <=> Waiting(c)
      /\ Gone(c)' <=> Gone(c)
      /\ Asks(c)' <=> Asks(c)
  BY DEF ClientSame, InMail, Waiting, Gone, Asks
<1>4. \A m \in Letter : Fits(c, m) => Fits(c, m)'
  BY FitsKept DEF ClientSame
<1>5. Once(c)'
  BY DEF BoxSame, Trail
<1>6. \A m \in Letter : Boxed(c, m)' =>
          /\ ~InHand(c)' /\ ~InMail(c)'
          /\ Fits(c, m)' /\ (m.n = 0 => Fresh(c)')
  BY <1>3, <1>4 DEF BoxSame, HandSame, TableSame, Trail
<1>7. InHand(c)' =>
          /\ ~InMail(c)' /\ Asks(c)'
          /\ spc' \in {"off", "opened", "loop"} => Refused(c)'
  BY <1>3 DEF HandSame, TableSame, Trail
<1>8. InMail(c)' =>
          /\ Asks(c)' /\ Len(mail'[c]) = 1
          /\ ~Gone(c)' =>
                 /\ mail'[c][1].from = c
                 /\ mail'[c][1].n = (IF cpc'[c] = "await" THEN at'[c] ELSE 0)
                 /\ cpc'[c] = "awaitId" => Enlisted(c, mail[c][1].id)'
  BY <1>2, <1>3 DEF ClientSame, TableSame, Trail
<1>9. Waiting(c)' =>
          InHand(c)' \/ InMail(c)' \/ Refused(c)' \/ \E m \in Letter : Boxed(c, m)'
  BY <1>3 DEF BoxSame, HandSame, TableSame, Trail
<1>10. Known(c)'
  BY KnownKept
<1> QED BY <1>5, <1>6, <1>7, <1>8, <1>9, <1>10
        DEF Trail, ClientSame, Enlisted

(* A client that asks for nothing has no message anywhere.                 *)
Quiet(c) == ~InHand(c) /\ ~InMail(c) /\ \A m \in Letter : ~Boxed(c, m)

LEMMA NotAsking ==
  ASSUME NEW c \in Clients, Trail(c), ~Asks(c)
  PROVE  Quiet(c)
  BY DEF Trail, Asks, Quiet, Fits

LEMMA QuietTrail ==
  ASSUME NEW c \in Clients, Trail(c), \A m \in Letter : ~Boxed(c, m),
         BoxSame(c), ~InHand(c)', ~InMail(c)', ~Waiting(c)'
  PROVE  Trail(c)'
  BY DEF Trail, BoxSame

LEMMA TableUnchanged ==
  ASSUME UNCHANGED <<info, fds>>
  PROVE  \A c \in Clients : TableSame(c)
  BY DEF TableSame, Fresh, Refused, Enlisted

LEMMA BoxUnchanged ==
  ASSUME UNCHANGED <<box, program>>
  PROVE  \A c \in Clients : BoxSame(c)
  BY DEF BoxSame, Once, Boxed, Wants, Command

LEMMA BoxTaken ==
  ASSUME Type, box # <<>>, box' = Tail(box), program' = program
  PROVE  /\ Head(box) \in Letter
         /\ \A c \in Clients :
                /\ Once(c) => Once(c)'
                /\ Head(box).from # c \/ ~Wants(Head(box)) => BoxSame(c)
                /\ Head(box).from = c /\ Wants(Head(box)) =>
                       /\ Boxed(c, Head(box))
                       /\ Once(c) => \A m \in Letter : ~Boxed(c, m)'
<1>1. /\ Head(box) \in Letter /\ Head(box) = box[1]
      /\ Len(box) \in Nat \ {0}
      /\ DOMAIN box = 1 .. Len(box) /\ DOMAIN box' = 1 .. Len(box) - 1
      /\ \A i \in 1 .. Len(box) - 1 : box'[i] = box[i + 1]
  BY HeadFacts DEF Type
<1>2. \A i \in DOMAIN box' : i + 1 \in DOMAIN box /\ i + 1 # 1 /\ box'[i] = box[i + 1]
  BY <1>1
<1>3. \A i \in DOMAIN box : i = 1 \/ (i - 1 \in DOMAIN box' /\ box'[i - 1] = box[i])
  BY <1>1
<1>4. \A m : Wants(m)' <=> Wants(m)
  BY DEF Wants, Command
<1>5. \A i, j \in DOMAIN box' : i + 1 = j + 1 => i = j
  BY <1>1
<1>6. 1 \in DOMAIN box
  BY <1>1
<1> SUFFICES ASSUME NEW c \in Clients
             PROVE  /\ Once(c) => Once(c)'
                    /\ Head(box).from # c \/ ~Wants(Head(box)) => BoxSame(c)
                    /\ Head(box).from = c /\ Wants(Head(box)) =>
                           /\ Boxed(c, Head(box))
                           /\ Once(c) => \A m \in Letter : ~Boxed(c, m)'
  BY <1>1
<1>7. Once(c) => Once(c)'
  BY <1>2, <1>4, <1>5 DEF Once
<1>8. \A m : Boxed(c, m)' => Boxed(c, m)
  BY <1>2, <1>4 DEF Boxed
<1>9. \A m : Boxed(c, m) => Boxed(c, m)' \/ m = Head(box)
  BY <1>1, <1>3, <1>4 DEF Boxed
<1>10. Head(box).from # c \/ ~Wants(Head(box)) => ~Boxed(c, Head(box))
  BY DEF Boxed
<1>11. Head(box).from = c /\ Wants(Head(box)) => Boxed(c, Head(box))
  BY <1>1, <1>6 DEF Boxed
<1>12. ASSUME Head(box).from = c, Wants(Head(box)), Once(c), NEW m, Boxed(c, m)'
       PROVE  FALSE
  <2>1. PICK i \in DOMAIN box' : box'[i] = m /\ m.from = c /\ Wants(m)
    BY <1>4, <1>12 DEF Boxed
  <2>2. i + 1 \in DOMAIN box /\ i + 1 # 1 /\ box[i + 1] = m
    BY <1>2, <2>1
  <2> QED BY <1>1, <1>6, <1>12, <2>1, <2>2 DEF Once
<1> QED BY <1>7, <1>8, <1>9, <1>10, <1>11, <1>12 DEF BoxSame

LEMMA BoxPut ==
  ASSUME Type, NEW m \in Letter, box' = Append(box, m), program' = program
  PROVE  \A c \in Clients :
             /\ m.from # c \/ ~Wants(m) => BoxSame(c)
             /\ m.from = c /\ Wants(m) =>
                    /\ \A v \in Letter : Boxed(c, v)' <=> v = m \/ Boxed(c, v)
                    /\ Once(c) /\ (\A v \in Letter : ~Boxed(c, v)) => Once(c)'
<1>1. /\ box \in Seq(Letter) /\ Len(box) \in Nat
      /\ DOMAIN box = 1 .. Len(box) /\ DOMAIN box' = 1 .. Len(box) + 1
      /\ \A i \in 1 .. Len(box) : box'[i] = box[i]
      /\ box'[Len(box) + 1] = m
  BY DEF Type
<1>2. \A i \in DOMAIN box' : i \in DOMAIN box \/ i = Len(box) + 1
  BY <1>1
<1>3. \A i \in DOMAIN box : i \in DOMAIN box' /\ box'[i] = box[i] /\ box[i] \in Letter
  BY <1>1
<1>4. Len(box) + 1 \in DOMAIN box'
  BY <1>1
<1>5. \A v : Wants(v)' <=> Wants(v)
  BY DEF Wants, Command
<1> SUFFICES ASSUME NEW c \in Clients
             PROVE  /\ m.from # c \/ ~Wants(m) => BoxSame(c)
                    /\ m.from = c /\ Wants(m) =>
                        /\ \A v \in Letter : Boxed(c, v)' <=> v = m \/ Boxed(c, v)
                        /\ Once(c) /\ (\A v \in Letter : ~Boxed(c, v)) => Once(c)'
  OBVIOUS
<1>6. \A v : Boxed(c, v) => Boxed(c, v)'
  BY <1>3, <1>5 DEF Boxed
<1>7. \A v : Boxed(c, v)' => Boxed(c, v) \/ v = m
  BY <1>1, <1>2, <1>3, <1>5 DEF Boxed
<1>8. m.from # c \/ ~Wants(m) => ~Boxed(c, m)' /\ (Once(c) => Once(c)')
  BY <1>1, <1>2, <1>3, <1>5 DEF Boxed, Once
<1>9. m.from = c /\ Wants(m) => Boxed(c, m)'
  BY <1>1, <1>4, <1>5 DEF Boxed
<1>10. ASSUME Once(c), \A v \in Letter : ~Boxed(c, v)
       PROVE  Once(c)'
  <2>1. \A i \in DOMAIN box : ~(box[i].from = c /\ Wants(box[i]))
    BY <1>3, <1>10 DEF Boxed
  <2> QED BY <1>2, <1>3, <1>5, <2>1 DEF Once
<1> QED BY <1>6, <1>7, <1>8, <1>9, <1>10 DEF BoxSame

(* What the server has in hand stays right.                                *)
LEMMA HandKept ==
  ASSUME Type, HandInv, spc' = spc, hand' = hand, info' = info,
         spc \in {"add", "greet", "answer"} =>
             /\ TableSame(hand.from) /\ at'[hand.from] = at[hand.from]
             /\ cpc'[hand.from] \in {cpc[hand.from], "killed"}
  PROVE  HandInv'
<1>1. spc \in {"add", "greet", "answer"} =>
          hand \in Letter /\ hand.from \in Clients
  BY DEF Type, Letter
<1>2. spc = "greet" => Len(info) - 1 \in Nat
  BY DEF Type
<1>3. spc \in {"add", "greet", "answer"} =>
          Fits(hand.from, hand)'
  <2> SUFFICES ASSUME spc \in {"add", "greet", "answer"}
               PROVE  Fits(hand.from, hand)'
    OBVIOUS
  <2>1. PICK m \in Letter : m = hand
    BY <1>1
  <2>2. PICK c \in Clients : c = hand.from
    BY <1>1
  <2>3. Fits(c, m)
    BY <2>1, <2>2 DEF HandInv
  <2>4. Fits(c, m)'
    BY <2>2, <2>3, FitsKept
  <2> QED BY <2>1, <2>2, <2>4 DEF Fits, Enlisted
<1>4. spc = "greet" => Enlisted(hand.from, Len(info) - 1)'
  <2> SUFFICES ASSUME spc = "greet" PROVE Enlisted(hand.from, Len(info) - 1)'
    OBVIOUS
  <2>1. PICK id \in Nat : id = Len(info) - 1
    BY <1>2
  <2>2. PICK c \in Clients : c = hand.from
    BY <1>1
  <2>3. Enlisted(c, id)'
    BY <2>1, <2>2 DEF HandInv, TableSame
  <2> QED BY <2>1, <2>2, <2>3 DEF Enlisted
<1>5. spc = "add" => Fresh(hand.from)'
  BY <1>1 DEF HandInv, TableSame, Fresh
<1> QED BY <1>3, <1>4, <1>5 DEF HandInv

(* A step that takes no message and changes no table.                      *)
LEMMA IdleOrder ==
  ASSUME Type, OrderInv,
         OpenQueue \/ KeepQueue \/ NothingToDo \/ Clean \/ ServerInterrupted
  PROVE  OrderInv'
<1>1. /\ UNCHANGED <<info, hand, box, fds, signals, client, mail>>
      /\ spc' \in {"opened", "loop", "gone"}
      /\ spc' \in {"opened", "loop"} => spc \in {"off", "opened", "loop"}
  BY DEF OpenQueue, KeepQueue, NothingToDo, Clean, ServerInterrupted, Stop
<1>2. \A c \in Clients : BoxSame(c) /\ TableSame(c)
  BY <1>1, BoxUnchanged, TableUnchanged DEF client
<1>3. \A c \in Clients : ClientSame(c) /\ HandSame(c)
  BY <1>1 DEF ClientSame, HandSame, InHand, client
<1>4. \A c \in Clients : Trail(c)' /\ Known(c)'
  BY <1>2, <1>3, Untouched DEF OrderInv
<1> QED BY <1>1, <1>4 DEF OrderInv, HandInv

LEMMA EndOrder ==
  ASSUME Type, OrderInv, End
  PROVE  OrderInv'
<1>1. /\ box # <<>> /\ box' = Tail(box) /\ spc = "loop" /\ spc' = "loop"
      /\ UNCHANGED <<info, hand, fds, signals, client, mail>>
      /\ ~Wants(Head(box))
  BY DEF End, Take, Wants
<1>2. \A c \in Clients : BoxSame(c) /\ TableSame(c)
  BY <1>1, BoxTaken, TableUnchanged DEF client
<1>3. \A c \in Clients : ClientSame(c) /\ HandSame(c)
  BY <1>1 DEF ClientSame, HandSame, InHand, client
<1>4. \A c \in Clients : Trail(c)' /\ Known(c)'
  BY <1>2, <1>3, Untouched DEF OrderInv
<1> QED BY <1>1, <1>4 DEF OrderInv, HandInv

(* A request passes from the queue into the hand.                          *)
LEMMA TakeOrder ==
  ASSUME Type, OrderInv, NEW to \in {"add", "answer"}, Take(to),
         hand' = Head(box), Head(box).n = 0 <=> to = "add",
         Wants(Head(box)), \A c \in Clients : TableSame(c)
  PROVE  OrderInv'
<1>1. /\ box # <<>> /\ box' = Tail(box) /\ spc = "loop" /\ spc' = to
      /\ UNCHANGED <<info, signals, client, mail>>
  BY DEF Take
<1>2. PICK h \in Letter : h = Head(box)
  BY <1>1, BoxTaken DEF client
<1>3. PICK a \in Clients : a = h.from
  BY DEF Letter
<1>4. \A c \in Clients : ClientSame(c)
  BY <1>1 DEF ClientSame, client
<1>5. \A c \in Clients \ {a} : Trail(c)' /\ Known(c)'
  <2> TAKE c \in Clients \ {a}
  <2>1. BoxSame(c)
    BY <1>1, <1>2, <1>3, BoxTaken DEF client
  <2>2. HandSame(c)
    BY <1>1, <1>2, <1>3 DEF HandSame, InHand, OrderInv, Trail
  <2> QED BY <1>4, <2>1, <2>2, Untouched DEF OrderInv
<1>6. /\ Boxed(a, h) /\ Once(a) /\ Once(a)'
      /\ \A m \in Letter : ~Boxed(a, m)'
  BY <1>1, <1>2, <1>3, BoxTaken DEF OrderInv, Trail, client
<1>7. ~InMail(a) /\ Fits(a, h) /\ (h.n = 0 => Fresh(a))
  BY <1>6 DEF OrderInv, Trail
<1>8. Asks(a)' /\ ~InMail(a)' /\ InHand(a)'
  BY <1>1, <1>2, <1>3, <1>7 DEF Fits, Asks, InMail, InHand, client
<1>9. Trail(a)'
  BY <1>1, <1>6, <1>8 DEF Trail
<1>10. Known(a)'
  BY <1>4, KnownKept DEF OrderInv
<1>11. Fits(a, h)' /\ (h.n = 0 => Fresh(a)')
  BY <1>4, <1>7, FitsKept DEF TableSame, ClientSame
<1>12. HandInv'
  <2>1. spc' \in {"add", "answer"} /\ (hand'.n = 0 <=> spc' = "add")
    BY <1>1
  <2>2. Fits(hand.from, hand)'
    BY <1>2, <1>3, <1>11 DEF Fits, Enlisted
  <2>3. hand'.n = 0 => Fresh(hand.from)'
    BY <1>2, <1>3, <1>11 DEF Fresh
  <2> QED BY <2>1, <2>2, <2>3 DEF HandInv
<1> QED BY <1>1, <1>5, <1>9, <1>10, <1>12 DEF OrderInv

(* The pipe of popen comes where nothing was.                              *)
LEMMA PipeOpened ==
  ASSUME Type, Free2 # {}, info' = info, fds' = [fds EXCEPT ![Lowest] = Pipe]
  PROVE  \A c \in Clients : TableSame(c)
<1> TAKE c \in Clients
<1>1. c # Free /\ c # Pipe
  BY ClientsAssumption
<1>2. Lowest \in Descriptors /\ fds[Lowest] = Free
  BY LowestIsFree
<1>3. \A d \in Descriptors : fds'[d] = c <=> fds[d] = c
  BY <1>1, <1>2 DEF Type
<1> QED BY <1>3 DEF TableSame, Fresh, Refused, Enlisted

LEMMA TakenOrder ==
  ASSUME Type, OrderInv, TakeName \/ Compute \/ Date, spc' # "faulted"
  PROVE  OrderInv'
<1>1. \A c \in Clients : TableSame(c)
  <2>1. CASE TakeName \/ Compute
    BY <2>1, TableUnchanged DEF TakeName, Compute, Take
  <2>2. CASE Date
    <3>1. /\ Cardinality(Free2) >= 2 /\ info' = info
          /\ fds' = [fds EXCEPT ![Lowest] = Pipe]
      BY <2>2 DEF Date, Take
    <3>2. Free2 # {}
      BY <3>1, FS_EmptySet
    <3> QED BY <3>1, <3>2, PipeOpened
  <2> QED BY <2>1, <2>2
<1>2. /\ Take("add") \/ Take("answer")
      /\ Take("add") <=> Head(box).n = 0
      /\ hand' = Head(box) /\ Wants(Head(box))
  BY DEF TakeName, Compute, Date, Take, Wants
<1> QED BY <1>1, <1>2, TakeOrder

(* A registration is written into client_info, with a descriptor or not.   *)
LEMMA AddOrder ==
  ASSUME Type, OrderInv, AddClient
  PROVE  OrderInv'
<1>1. PICK a \in Clients : a = hand.from
  BY DEF AddClient, Type, Letter
<1>2. PICK fd \in {Failed} \cup Descriptors :
          /\ fd = (IF Gone(a) \/ Free2 = {} THEN Failed ELSE Lowest)
          /\ fd # Failed => fd \in Descriptors /\ fds[fd] = Free
  BY LowestIsFree
<1>3. /\ spc = "add" /\ info \in Seq(Entry)
      /\ info' = Append(info, [pid |-> a, q_id |-> fd])
      /\ fds' = IF fd = Failed THEN fds ELSE [fds EXCEPT ![fd] = a]
      /\ spc' = IF fd = Failed THEN "loop" ELSE "greet"
      /\ UNCHANGED <<hand, box, signals, client, mail>>
  BY <1>1, <1>2 DEF AddClient, Type
<1>4. /\ Len(info) \in Nat
      /\ DOMAIN info = 1 .. Len(info) /\ DOMAIN info' = 1 .. Len(info) + 1
      /\ \A k \in 1 .. Len(info) : info'[k] = info[k]
      /\ info'[Len(info) + 1] = [pid |-> a, q_id |-> fd]
      /\ Len(info') - 1 = Len(info)
  BY <1>3
<1>5. /\ \A k \in DOMAIN info : k \in DOMAIN info' /\ info'[k] = info[k]
      /\ \A k \in DOMAIN info' : k \in DOMAIN info \/ k = Len(info) + 1
      /\ Len(info) + 1 \in DOMAIN info'
      /\ info'[Len(info) + 1].pid = a /\ info'[Len(info) + 1].q_id = fd
  BY <1>4
<1>6. \A c \in Clients : BoxSame(c) /\ ClientSame(c)
  BY <1>3, BoxUnchanged DEF ClientSame, client
<1>7. /\ InHand(a) /\ InHand(a)' /\ ~InMail(a) /\ Asks(a)
      /\ \A m \in Letter : ~Boxed(a, m)
      /\ hand.n = 0 /\ Fits(a, hand) /\ Once(a)
  BY <1>1, <1>3 DEF OrderInv, HandInv, InHand, Trail
<1>8. \A c \in Clients \ {a} : Trail(c)' /\ Known(c)'
  <2> TAKE c \in Clients \ {a}
  <2>1. TableSame(c)
    <3>1. c # Free
      BY ClientsAssumption
    <3>2. \A d \in Descriptors : fds'[d] = c <=> fds[d] = c
      BY <1>2, <1>3, <3>1 DEF Type
    <3>3. (Fresh(c)' <=> Fresh(c)) /\ (Refused(c) => Refused(c)')
      BY <1>5 DEF Fresh, Refused
    <3>4. \A id \in Nat : Enlisted(c, id) => Enlisted(c, id)'
      BY <1>5, <3>2 DEF Enlisted
    <3> QED BY <3>2, <3>3, <3>4 DEF TableSame
  <2>2. HandSame(c)
    BY <1>1, <1>3 DEF HandSame, InHand
  <2> QED BY <1>6, <2>1, <2>2, Untouched DEF OrderInv
<1>9. cpc[a] \in {"awaitId", "killed"} /\ cpc' = cpc
  BY <1>3, <1>7 DEF Fits, client
<1>10. Known(a)'
  <2>1. ~Fresh(a)'
    BY <1>5 DEF Fresh
  <2>2. a \notin signals
    BY <1>9 DEF OrderInv, Known
  <2> QED BY <1>3, <1>9, <2>1, <2>2 DEF Known
<1>11. Trail(a)'
  <2>1. /\ Once(a)' /\ ~InMail(a)' /\ Asks(a)'
        /\ \A m \in Letter : ~Boxed(a, m)'
    BY <1>3, <1>6, <1>7 DEF BoxSame, InMail, Asks, client
  <2>2. spc' \in {"off", "opened", "loop"} => Refused(a)'
    BY <1>3, <1>5 DEF Refused
  <2> QED BY <1>7, <2>1, <2>2 DEF Trail
<1>12. HandInv'
  <2>1. CASE fd = Failed
    BY <1>3, <2>1 DEF HandInv
  <2>2. CASE fd # Failed
    <3>1. fd \in Descriptors /\ fds'[fd] = a /\ spc' = "greet"
      BY <1>2, <1>3, <2>2 DEF Type
    <3>2. Enlisted(hand.from, Len(info) - 1)'
      BY <1>1, <1>3, <1>4, <1>5, <3>1 DEF Enlisted
    <3>3. Fits(hand.from, hand)'
      BY <1>1, <1>3, <1>7, <1>9 DEF Fits
    <3> QED BY <1>3, <1>7, <3>1, <3>2, <3>3 DEF HandInv
  <2> QED BY <2>1, <2>2
<1> QED BY <1>3, <1>8, <1>10, <1>11, <1>12 DEF OrderInv

(* What the server sends by the descriptor of whom it answers arrives      *)
(* there.                                                                  *)
LEMMA SendOrder ==
  ASSUME Type, OrderInv, NEW a \in Clients, InHand(a),
         NEW m \in Letter, m.from = a,
         ~Gone(a) => m.n = IF cpc[a] = "await" THEN at[a] ELSE 0,
         cpc[a] = "awaitId" => Enlisted(a, m.id),
         NEW fd \in Descriptors, fds[fd] = a, Send(fd, m),
         hand' = NoMessage, UNCHANGED <<info, box, fds, signals, client>>
  PROVE  OrderInv'
<1>1. fd # Failed /\ a \notin {Free, Pipe}
  BY DescriptorFacts, ClientsAssumption
<1>2. spc' = "loop" /\ mail' = [mail EXCEPT ![a] = Append(@, m)]
  BY <1>1 DEF Send
<1>3. /\ ~InMail(a) /\ Asks(a) /\ Once(a)
      /\ \A v \in Letter : ~Boxed(a, v)
  BY DEF OrderInv, Trail
<1>4. mail[a] = <<>> /\ mail'[a] = Append(<<>>, m)
  BY <1>2, <1>3 DEF InMail, Type
<1>5. mail'[a] # <<>> /\ Len(mail'[a]) = 1 /\ mail'[a][1] = m
  BY <1>4
<1>6. \A c \in Clients : BoxSame(c) /\ TableSame(c) /\ ~InHand(c)'
  BY BoxUnchanged, TableUnchanged, NobodyWrites, ClientsAssumption
     DEF client, InHand
<1>7. \A c \in Clients \ {a} : Trail(c)' /\ Known(c)'
  <2> TAKE c \in Clients \ {a}
  <2>1. ClientSame(c)
    BY <1>2 DEF ClientSame, client, Type
  <2>2. HandSame(c)
    BY <1>6 DEF HandSame, InHand
  <2> QED BY <1>6, <2>1, <2>2, Untouched DEF OrderInv
<1>8. Known(a)'
  <2>1. Known(a) /\ (Fresh(a)' <=> Fresh(a))
    BY <1>6 DEF OrderInv, TableSame
  <2> QED BY <2>1 DEF Known, Enlisted, client
<1>9. Trail(a)'
  <2>1. Once(a)' /\ ~InHand(a)' /\ \A v \in Letter : ~Boxed(a, v)'
    BY <1>3, <1>6 DEF BoxSame
  <2>2. InMail(a)' /\ Asks(a)'
    BY <1>3, <1>5 DEF InMail, Asks, client
  <2>3. cpc'[a] = "awaitId" => Enlisted(a, mail[a][1].id)'
    BY <1>5 DEF Enlisted, client
  <2>4. ~Gone(a)' =>
            /\ mail'[a][1].from = a
            /\ mail'[a][1].n = (IF cpc'[a] = "await" THEN at'[a] ELSE 0)
    BY <1>5 DEF Gone, client
  <2> QED BY <1>5, <2>1, <2>2, <2>3, <2>4 DEF Trail
<1> QED BY <1>2, <1>7, <1>8, <1>9 DEF OrderInv, HandInv

LEMMA GreetOrder ==
  ASSUME Type, OrderInv, Greet
  PROVE  OrderInv'
<1>1. PICK a \in Clients : a = hand.from
  BY DEF Greet, Type, Letter
<1>2. /\ hand.n = 0 /\ Fits(a, hand) /\ Enlisted(a, Len(info) - 1)
      /\ info # <<>> /\ info \in Seq(Entry)
  BY <1>1 DEF Greet, OrderInv, HandInv, Type
<1>3. Len(info) \in Nat \ {0} /\ Len(info) - 1 \in Nat /\ Len(info) - 1 + 1 = Len(info)
  BY <1>2
<1>4. PICK m \in Letter : m = Message(hand.from, 0, Len(info) - 1)
  BY <1>1, <1>3 DEF Message, Letter
<1>5. m.from = a /\ m.n = 0 /\ m.id = Len(info) - 1
  BY <1>1, <1>4 DEF Message
<1>6. PICK fd \in Descriptors : fd = info[Len(info)].q_id /\ fds[fd] = a
  BY <1>2, <1>3 DEF Enlisted
<1>7. cpc[a] \in {"awaitId", "killed"}
  BY <1>2 DEF Fits
<1>8. InHand(a) /\ Enlisted(a, m.id)
  BY <1>1, <1>2, <1>5 DEF InHand
<1>9. /\ Send(fd, m) /\ hand' = NoMessage
      /\ UNCHANGED <<info, box, fds, signals, client>>
  BY <1>4, <1>6 DEF Greet
<1> QED BY <1>5, <1>6, <1>7, <1>8, <1>9, SendOrder DEF Gone

LEMMA AnswerOrder ==
  ASSUME Type, OrderInv, Answer
  PROVE  OrderInv'
<1>1. PICK a \in Clients : a = hand.from
  BY DEF Answer, Type, Letter
<1>2. PICK m \in Letter : m = hand
  BY DEF Answer, Type
<1>3. m.n # 0 /\ Fits(a, m) /\ InHand(a) /\ m.from = a
  BY <1>1, <1>2 DEF Answer, OrderInv, HandInv, InHand
<1>4. cpc[a] \in {"await", "killed"} /\ m.n = at[a] /\ Enlisted(a, m.id)
  BY <1>3 DEF Fits
<1>5. PICK fd \in Descriptors : fd = info[m.id + 1].q_id /\ fds[fd] = a
  BY <1>4 DEF Enlisted
<1>6. /\ Send(fd, m) /\ hand' = NoMessage
      /\ UNCHANGED <<info, box, fds, signals, client>>
  BY <1>2, <1>5 DEF Answer
<1> QED BY <1>3, <1>4, <1>5, <1>6, SendOrder DEF Gone

(* The descriptor that a signal closes was of whom the signal is from.     *)
LEMMA CleanOrder ==
  ASSUME Type, OrderInv, CleanClient, ~astray'
  PROVE  OrderInv'
<1>1. PICK a \in signals :
          signals' = signals \ {a} /\ fds[PrivateQ] \in {a, Free}
  BY DEF CleanClient
<1>2. /\ fds' = [fds EXCEPT ![PrivateQ] = Free]
      /\ UNCHANGED <<server, box, client, mail>>
  BY DEF CleanClient, Close
<1>3. a \in Clients /\ PrivateQ \in Descriptors
  BY DescriptorFacts DEF Type
<1>4. cpc[a] = "gone" /\ ~Asks(a)
  BY <1>3 DEF OrderInv, Known, Asks
<1>5. Quiet(a)
  BY <1>3, <1>4, NotAsking DEF OrderInv
<1>6. \A c \in Clients : BoxSame(c)
  BY <1>2, BoxUnchanged DEF client
<1>7. \A c \in Clients \ {a} : TableSame(c)
  <2> TAKE c \in Clients \ {a}
  <2>1. c # Free
    BY ClientsAssumption
  <2>2. \A d \in Descriptors : fds'[d] = c <=> fds[d] = c
    BY <1>1, <1>2, <1>3, <2>1 DEF Type
  <2> QED BY <1>2, <2>2 DEF TableSame, Fresh, Refused, Enlisted, server
<1>8. \A c \in Clients \ {a} : Trail(c)' /\ Known(c)'
  <2> TAKE c \in Clients \ {a}
  <2>1. ClientSame(c) /\ HandSame(c)
    BY <1>1, <1>2 DEF ClientSame, HandSame, InHand, client, server
  <2> QED BY <1>6, <1>7, <2>1, Untouched DEF OrderInv
<1>9. Trail(a)'
  <2>1. ~InHand(a)' /\ ~InMail(a)' /\ ~Waiting(a)'
    BY <1>2, <1>4, <1>5 DEF Quiet, InHand, InMail, Waiting, client, server
  <2> QED BY <1>3, <1>5, <1>6, <2>1, QuietTrail DEF OrderInv, Quiet
<1>10. Known(a)'
  <2>1. cpc'[a] = "gone" /\ (Fresh(a)' <=> Fresh(a))
    BY <1>2, <1>4 DEF client, server, Fresh
  <2>2. Fresh(a) => \A d \in Descriptors : fds'[d] # a
    <3>1. a # Free
      BY <1>3, ClientsAssumption
    <3> QED BY <1>2, <1>3, <3>1 DEF OrderInv, Known, Type
  <2> QED BY <2>1, <2>2 DEF Known
<1>11. HandInv'
  <2>1. spc \in {"add", "greet", "answer"} =>
            hand.from \in Clients /\ hand.from # a
    <3>1. spc \in {"add", "greet", "answer"} => hand.from \in Clients
      BY DEF Type, Letter
    <3> QED BY <1>5, <3>1 DEF Quiet, InHand
  <2> QED BY <1>2, <1>7, <2>1, HandKept DEF OrderInv, client, server
<1> QED BY <1>2, <1>8, <1>9, <1>10, <1>11 DEF OrderInv, server

LEMMA ServerOrder ==
  ASSUME Type, OrderInv, Server \/ ServerInterrupted,
         ~astray', spc' # "faulted"
  PROVE  OrderInv'
  BY IdleOrder, EndOrder, TakenOrder, AddOrder, GreetOrder, AnswerOrder,
     CleanOrder DEF Server

(* A step of a client leaves the others and the server alone.              *)
LEMMA ClientOrder ==
  ASSUME Type, OrderInv, NEW a \in Clients,
         UNCHANGED <<server, fds, program, history>>,
         \A c \in Clients \ {a} : BoxSame(c) /\ ClientSame(c),
         InHand(a) => cpc'[a] \in {cpc[a], "killed"} /\ at'[a] = at[a],
         Trail(a)', Known(a)'
  PROVE  OrderInv'
<1>1. /\ UNCHANGED <<spc, info, hand, fds>>
      /\ \A c \in Clients : TableSame(c)
  BY TableUnchanged DEF server
<1>2. \A c \in Clients \ {a} : Trail(c)' /\ Known(c)'
  <2> TAKE c \in Clients \ {a}
  <2>1. HandSame(c)
    BY <1>1 DEF HandSame, InHand
  <2> QED BY <1>1, <2>1, Untouched DEF OrderInv
<1>3. HandInv'
  <2>1. spc \in {"add", "greet", "answer"} => hand.from \in Clients
    BY DEF Type, Letter
  <2>2. hand.from \in Clients => /\ at'[hand.from] = at[hand.from]
                                 /\ cpc'[hand.from] \in {cpc[hand.from], "killed"}
    BY DEF ClientSame, InHand
  <2> QED BY <1>1, <2>1, <2>2, HandKept DEF OrderInv
<1> QED BY <1>1, <1>2, <1>3 DEF OrderInv

LEMMA ConnectOrder ==
  ASSUME Type, OrderInv, NEW a \in Clients, Connect(a)
  PROVE  OrderInv'
<1>1. /\ cpc[a] = "start" /\ cpc'[a] \in {"register", "gone"}
      /\ UNCHANGED <<server, box, fds, signals, program, at, client_id, mail, history>>
      /\ \A c \in Clients \ {a} : cpc'[c] = cpc[c]
  BY DEF Connect, Type
<1>2. Quiet(a)
  BY <1>1, NotAsking DEF OrderInv, Asks
<1>3. \A c \in Clients : BoxSame(c)
  BY <1>1, BoxUnchanged
<1>4. \A c \in Clients \ {a} : ClientSame(c)
  BY <1>1 DEF ClientSame
<1>5. Trail(a)'
  <2>1. ~InHand(a)' /\ ~InMail(a)' /\ ~Waiting(a)'
    BY <1>1, <1>2 DEF Quiet, InHand, InMail, Waiting, server
  <2> QED BY <1>2, <1>3, <2>1, QuietTrail DEF OrderInv, Quiet
<1>6. Known(a)'
  BY <1>1 DEF OrderInv, Known, Fresh, server
<1> QED BY <1>1, <1>2, <1>3, <1>4, <1>5, <1>6, ClientOrder DEF Quiet

LEMMA RegisterOrder ==
  ASSUME Type, OrderInv, NEW a \in Clients, Register(a)
  PROVE  OrderInv'
<1>1. /\ cpc[a] = "register" /\ cpc'[a] = "awaitId"
      /\ box' = Append(box, Message(a, 0, client_id[a]))
      /\ UNCHANGED <<server, fds, signals, program, at, client_id, mail, history>>
      /\ \A c \in Clients \ {a} : cpc'[c] = cpc[c]
  BY DEF Register, Put, Type
<1>2. PICK m \in Letter : m = Message(a, 0, client_id[a])
  BY DEF Type, Message, Letter
<1>3. m.from = a /\ m.n = 0 /\ Wants(m)
  BY <1>2 DEF Message, Wants
<1>4. Quiet(a)
  BY <1>1, NotAsking DEF OrderInv, Asks
<1>5. \A c \in Clients \ {a} : BoxSame(c) /\ ClientSame(c)
  BY <1>1, <1>2, <1>3, BoxPut DEF ClientSame
<1>6. Once(a)' /\ \A v \in Letter : Boxed(a, v)' <=> v = m
  BY <1>1, <1>2, <1>3, <1>4, BoxPut DEF Quiet, OrderInv, Trail
<1>7. Fresh(a) /\ Fresh(a)' /\ a \notin signals'
  BY <1>1 DEF OrderInv, Known, Fresh, server
<1>8. Trail(a)'
  <2>1. ~InHand(a)' /\ ~InMail(a)'
    BY <1>1, <1>4 DEF Quiet, InHand, InMail, server
  <2>2. Fits(a, m)'
    BY <1>1, <1>3 DEF Fits
  <2> QED BY <1>6, <1>7, <2>1, <2>2 DEF Trail
<1>9. Known(a)'
  BY <1>1, <1>7 DEF OrderInv, Known
<1> QED BY <1>1, <1>4, <1>5, <1>8, <1>9, ClientOrder DEF Quiet

LEMMA AskOrder ==
  ASSUME Type, OrderInv, NEW a \in Clients, Ask(a)
  PROVE  OrderInv'
<1>1. /\ cpc[a] = "ask" /\ cpc'[a] = "await"
      /\ program[a][at[a]] # "END"
      /\ box' = Append(box, Message(a, at[a], client_id[a]))
      /\ UNCHANGED <<server, fds, signals, program, at, client_id, mail, history>>
      /\ \A c \in Clients \ {a} : cpc'[c] = cpc[c]
  BY DEF Ask, Put, Type
<1>2. PICK m \in Letter : m = Message(a, at[a], client_id[a])
  BY DEF Type, Message, Letter
<1>3. m.from = a /\ m.n = at[a] /\ m.n # 0 /\ m.id = client_id[a] /\ Wants(m)
  BY <1>1, <1>2 DEF Message, Wants, Command, Type
<1>4. Quiet(a)
  BY <1>1, NotAsking DEF OrderInv, Asks
<1>5. \A c \in Clients \ {a} : BoxSame(c) /\ ClientSame(c)
  BY <1>1, <1>2, <1>3, BoxPut DEF ClientSame
<1>6. Once(a)' /\ \A v \in Letter : Boxed(a, v)' <=> v = m
  BY <1>1, <1>2, <1>3, <1>4, BoxPut DEF Quiet, OrderInv, Trail
<1>7. Enlisted(a, client_id[a]) /\ Enlisted(a, client_id[a])' /\ Enlisted(a, m.id)'
  BY <1>1, <1>3 DEF OrderInv, Known, Enlisted, server
<1>8. Trail(a)'
  <2>1. ~InHand(a)' /\ ~InMail(a)'
    BY <1>1, <1>4 DEF Quiet, InHand, InMail, server
  <2>2. Fits(a, m)'
    BY <1>1, <1>3, <1>7 DEF Fits
  <2> QED BY <1>3, <1>6, <2>1, <2>2 DEF Trail
<1>9. Known(a)'
  BY <1>1, <1>7 DEF OrderInv, Known, Fresh, server
<1> QED BY <1>1, <1>4, <1>5, <1>8, <1>9, ClientOrder DEF Quiet

LEMMA SkipOrder ==
  ASSUME Type, OrderInv, NEW a \in Clients, Skip(a)
  PROVE  OrderInv'
<1>1. /\ cpc[a] = "ask"
      /\ UNCHANGED <<server, fds, signals, cpc, program, client_id, mail, history>>
      /\ \A c \in Clients \ {a} : at'[c] = at[c]
  BY DEF Skip, Type
<1>2. \A c \in Clients : BoxSame(c)
  <2>1. CASE program[a][at[a]] = "END" /\ Put(a, at[a])
    <3>1. PICK m \in Letter : m = Message(a, at[a], client_id[a])
      BY DEF Type, Message, Letter
    <3>2. m.from = a /\ m.n = at[a] /\ m.n # 0 /\ ~Wants(m)
      BY <2>1, <3>1 DEF Message, Wants, Command, Type
    <3> QED BY <1>1, <2>1, <3>1, <3>2, BoxPut DEF Put
  <2>2. CASE box' = box
    BY <1>1, <2>2, BoxUnchanged
  <2> QED BY <2>1, <2>2 DEF Skip
<1>3. Quiet(a)
  BY <1>1, NotAsking DEF OrderInv, Asks
<1>4. \A c \in Clients \ {a} : ClientSame(c)
  BY <1>1 DEF ClientSame
<1>5. Trail(a)'
  <2>1. ~InHand(a)' /\ ~InMail(a)' /\ ~Waiting(a)'
    BY <1>1, <1>3 DEF Quiet, InHand, InMail, Waiting, server
  <2> QED BY <1>2, <1>3, <2>1, QuietTrail DEF OrderInv, Quiet
<1>6. Known(a)'
  BY <1>1 DEF OrderInv, Known, Fresh, Enlisted, server
<1> QED BY <1>1, <1>2, <1>3, <1>4, <1>5, <1>6, ClientOrder DEF Quiet

LEMMA ReceiveOrder ==
  ASSUME Type, OrderInv, NEW a \in Clients, AwaitId(a) \/ Await(a)
  PROVE  OrderInv'
<1>1. /\ cpc[a] \in {"awaitId", "await"} /\ cpc'[a] = "ask"
      /\ mail[a] # <<>> /\ mail'[a] = Tail(mail[a])
      /\ UNCHANGED <<server, box, fds, signals, program, history>>
      /\ \A c \in Clients \ {a} :
             /\ cpc'[c] = cpc[c] /\ mail'[c] = mail[c]
             /\ at'[c] = at[c] /\ client_id'[c] = client_id[c]
  BY DEF AwaitId, Await, Receive, Type
<1>2. /\ InMail(a) /\ ~InHand(a) /\ Once(a)
      /\ \A m \in Letter : ~Boxed(a, m)
      /\ Len(mail[a]) = 1 /\ mail[a] \in Seq(Letter)
      /\ cpc[a] = "awaitId" => Enlisted(a, mail[a][1].id)
  BY <1>1 DEF OrderInv, Trail, InMail, Gone, Type
<1>3. mail'[a] = <<>> /\ Head(mail[a]) = mail[a][1]
  <2>1. PICK q \in Seq(Letter) : q = mail[a]
    BY <1>2
  <2>2. q # <<>> /\ Len(q) = 1
    BY <1>1, <1>2, <2>1
  <2>3. Tail(q) \in Seq(Letter) /\ Len(Tail(q)) = 0 /\ Head(q) = q[1]
    BY <2>2, HeadFacts
  <2>4. Tail(q) = <<>>
    BY <2>3, EmptySeq
  <2> QED BY <1>1, <2>1, <2>3, <2>4
<1>4. Enlisted(a, client_id[a])'
  <2>1. CASE AwaitId(a)
    <3>1. client_id'[a] = mail[a][1].id /\ cpc[a] = "awaitId"
      BY <1>3, <2>1 DEF AwaitId, Receive, Type
    <3> QED BY <1>1, <1>2, <3>1 DEF Enlisted, server
  <2>2. CASE Await(a)
    <3>1. client_id'[a] = client_id[a] /\ cpc[a] = "await"
      BY <2>2 DEF Await, Receive
    <3> QED BY <1>1, <3>1 DEF OrderInv, Known, Enlisted, server
  <2> QED BY <2>1, <2>2
<1>5. \A c \in Clients : BoxSame(c)
  BY <1>1, BoxUnchanged
<1>6. \A c \in Clients \ {a} : ClientSame(c)
  BY <1>1 DEF ClientSame
<1>7. Trail(a)'
  <2>1. ~InHand(a)' /\ ~InMail(a)' /\ ~Waiting(a)'
    BY <1>1, <1>2, <1>3 DEF InHand, InMail, Waiting, server
  <2> QED BY <1>2, <1>5, <2>1, QuietTrail DEF OrderInv
<1>8. Known(a)'
  BY <1>1, <1>4 DEF OrderInv, Known, Fresh, server
<1> QED BY <1>1, <1>2, <1>5, <1>6, <1>7, <1>8, ClientOrder

LEMMA FinishOrder ==
  ASSUME Type, OrderInv, NEW a \in Clients, Finish(a)
  PROVE  OrderInv'
<1>1. /\ cpc[a] = "ask" /\ cpc'[a] = "gone"
      /\ UNCHANGED <<server, box, fds, program, at, client_id, mail, history>>
      /\ \A c \in Clients \ {a} : cpc'[c] = cpc[c] /\ (c \in signals' => c \in signals)
  BY DEF Finish, Type
<1>2. Quiet(a)
  BY <1>1, NotAsking DEF OrderInv, Asks
<1>3. \A c \in Clients : BoxSame(c)
  BY <1>1, BoxUnchanged
<1>4. \A c \in Clients \ {a} : ClientSame(c)
  BY <1>1 DEF ClientSame
<1>5. Trail(a)'
  <2>1. ~InHand(a)' /\ ~InMail(a)' /\ ~Waiting(a)'
    BY <1>1, <1>2 DEF Quiet, InHand, InMail, Waiting, server
  <2> QED BY <1>2, <1>3, <2>1, QuietTrail DEF OrderInv, Quiet
<1>6. Known(a)'
  BY <1>1 DEF OrderInv, Known, Fresh, server
<1> QED BY <1>1, <1>2, <1>3, <1>4, <1>5, <1>6, ClientOrder DEF Quiet

LEMMA InterruptedOrder ==
  ASSUME Type, OrderInv, NEW a \in Clients, ClientInterrupted(a)
  PROVE  OrderInv'
<1>1. /\ ~Gone(a) /\ cpc'[a] = "killed"
      /\ UNCHANGED <<server, box, fds, signals, program, at, client_id, mail, history>>
      /\ \A c \in Clients \ {a} : cpc'[c] = cpc[c]
  BY DEF ClientInterrupted, Type
<1>2. \A c \in Clients : BoxSame(c) /\ TableSame(c)
  BY <1>1, BoxUnchanged, TableUnchanged DEF server
<1>3. \A c \in Clients \ {a} : ClientSame(c)
  BY <1>1 DEF ClientSame
<1>4. Trail(a) /\ Known(a)
  BY DEF OrderInv
<1>5. Trail(a)'
  <2>1. /\ Gone(a)' /\ Asks(a)' /\ ~Waiting(a)' /\ spc' = spc
        /\ InHand(a)' <=> InHand(a)
        /\ InMail(a)' <=> InMail(a)
    BY <1>1 DEF Gone, Asks, Waiting, InHand, InMail, server
  <2>2. \A m \in Letter : Fits(a, m) => Fits(a, m)'
    BY <1>1, <1>2, FitsKept
  <2>3. Once(a)' /\ \A m \in Letter : Boxed(a, m)' <=> Boxed(a, m)
    BY <1>2, <1>4 DEF BoxSame, Trail
  <2>4. \A m \in Letter : Boxed(a, m)' =>
            /\ ~InHand(a)' /\ ~InMail(a)'
            /\ Fits(a, m)' /\ (m.n = 0 => Fresh(a)')
    BY <1>2, <1>4, <2>1, <2>2, <2>3 DEF TableSame, Trail
  <2>5. InHand(a)' => /\ ~InMail(a)' /\ Asks(a)'
                      /\ spc' \in {"off", "opened", "loop"} => Refused(a)'
    BY <1>2, <1>4, <2>1 DEF TableSame, Trail
  <2>6. InMail(a)' => Asks(a)' /\ Len(mail'[a]) = 1
    BY <1>1, <1>4, <2>1 DEF Trail
  <2> QED BY <2>1, <2>3, <2>4, <2>5, <2>6 DEF Trail
<1>6. Known(a)'
  BY <1>1, <1>2, <1>4 DEF Known, TableSame, Gone
<1> QED BY <1>1, <1>2, <1>3, <1>5, <1>6, ClientOrder

LEMMA ClientsOrder ==
  ASSUME Type, OrderInv, NEW a \in Clients, Client(a) \/ ClientInterrupted(a)
  PROVE  OrderInv'
  BY ConnectOrder, RegisterOrder, AskOrder, SkipOrder, ReceiveOrder, FinishOrder,
     InterruptedOrder DEF Client

-----------------------------------------------------------------------------
(* One client after the other.                                             *)

(* Nothing can go wrong any more behind the end of the server: nobody      *)
(* touches its descriptors.                                                *)
LEMMA ClientAlone ==
  ASSUME Type, AloneInv, spc # "faulted" => OrderInv,
         NEW a \in Clients, Client(a) \/ ClientInterrupted(a)
  PROVE  AloneInv'
<1>1. UNCHANGED <<server, fds, history>>
  BY DEF Client, ClientInterrupted, Connect, Register, AwaitId, Ask, Skip, Await,
     Receive, Finish
<1>2. \A c \in Clients : ~Stopped /\ c \in signals' => fds[PrivateQ] = c
  <2> SUFFICES ASSUME NEW c \in Clients, ~Stopped, c \in signals', c \notin signals
               PROVE  fds[PrivateQ] = c
    BY DEF AloneInv
  <2>1. Finish(a) /\ c = a /\ Running
    BY DEF Client, ClientInterrupted, Connect, Register, AwaitId, Ask, Skip,
       Await, Receive, Finish
  <2>2. Enlisted(a, client_id[a])
    BY <2>1 DEF Finish, OrderInv, Known, Stopped
  <2> QED BY <2>1, <2>2 DEF Enlisted, AloneInv
<1>3. \A c \in Clients : ~Stopped /\ cpc'[c] = "gone" /\ c \notin signals' =>
                             \A d \in Descriptors : fds[d] # c
  <2> SUFFICES ASSUME NEW c \in Clients, ~Stopped, cpc'[c] = "gone", c \notin signals'
               PROVE  \A d \in Descriptors : fds[d] # c
    OBVIOUS
  <2>1. c \notin signals
    BY DEF Client, ClientInterrupted, Connect, Register, AwaitId, Ask, Skip,
       Await, Receive, Finish
  <2>2. CASE cpc[c] = "gone"
    BY <2>1, <2>2 DEF AloneInv
  <2>3. CASE cpc[c] # "gone"
    <3>1. (Connect(a) \/ Finish(a)) /\ c = a
      BY <2>3 DEF Client, ClientInterrupted, Connect, Register, AwaitId, Ask, Skip,
         Await, Receive, Finish, Type
    <3>2. CASE Connect(a)
      BY <3>1, <3>2 DEF Connect, OrderInv, Known, Stopped
    <3>3. CASE Finish(a)
      <4>1. ~Running /\ spc = "off"
        BY <3>1, <3>3 DEF Finish, Running, Stopped
      <4> QED BY <4>1, ClientsAssumption DEF AloneInv
    <3> QED BY <3>1, <3>2, <3>3
  <2> QED BY <2>2, <2>3
<1> QED BY <1>1, <1>2, <1>3 DEF AloneInv, Stopped, server, history

LEMMA AloneKept ==
  ASSUME AloneInv, UNCHANGED <<fds, signals, cpc, astray>>, spc' # "off",
         Stopped => Stopped'
  PROVE  AloneInv'
  BY DEF AloneInv, Stopped

LEMMA DateAlone ==
  ASSUME Type, OrderInv, AloneInv, Date
  PROVE  AloneInv'
<1>1. /\ spc = "loop" /\ box # <<>> /\ box' = Tail(box)
      /\ UNCHANGED <<signals, client, astray, crowd>> /\ spc' \in {"answer", "faulted"}
  BY DEF Date, Take, history
<1>2. CASE Cardinality(Free2) < 2
  <2>1. UNCHANGED fds /\ spc' = "faulted"
    <3>1. ~(Cardinality(Free2) >= 2)
      <4>1. IsFiniteSet(Free2)
        <5>1. IsFiniteSet(Descriptors)
          BY LimitsAssumption, FS_Interval DEF Descriptors
        <5> QED BY <5>1, FS_Subset DEF Free2
      <4>2. Cardinality(Free2) \in Nat
        BY <4>1, FS_CardinalityType
      <4> QED BY <1>2, <4>2
    <3> QED BY <3>1 DEF Date, Take
  <2> QED BY <1>1, <2>1, AloneKept DEF Stopped, client
<1>3. CASE ~(Cardinality(Free2) < 2)
  <2>1. /\ Cardinality(Free2) >= 2
        /\ fds' = [fds EXCEPT ![Lowest] = Pipe] /\ spc' = "answer"
    BY <1>3 DEF Date, Take
  <2>2. Free2 # {}
    BY <2>1, FS_EmptySet
  <2>3. Lowest \in Descriptors /\ fds[Lowest] = Free
    BY <2>2, LowestIsFree
  <2>4. PICK h \in Letter : h = Head(box)
    BY <1>1, BoxTaken DEF client
  <2>5. PICK a \in Clients : a = h.from
    BY DEF Letter
  <2>6. h.n # 0 /\ Wants(h)
    BY <2>4 DEF Date, Wants
  <2>7. Boxed(a, h)
    BY <1>1, <2>4, <2>5, <2>6, BoxTaken DEF client
  <2>8. Enlisted(a, h.id)
    BY <2>6, <2>7 DEF OrderInv, Trail, Fits
  <2>9. fds[PrivateQ] = a
    BY <2>8 DEF Enlisted, AloneInv
  <2>10. \A c \in Clients : c # Free /\ c # Pipe
    BY ClientsAssumption
  <2>11. Lowest # PrivateQ
    BY <2>3, <2>5, <2>9, <2>10
  <2>12. /\ fds'[PrivateQ] = fds[PrivateQ]
         /\ \A d \in Descriptors : fds'[d] = fds[d] \/ fds'[d] = Pipe
    BY <2>1, <2>3, <2>11, DescriptorFacts DEF Type
  <2>13. Pipe \notin Clients /\ fds'[PrivateQ] # Pipe
    BY <2>5, <2>9, <2>10, <2>12
  <2>14. /\ ~Stopped /\ spc' # "off"
         /\ UNCHANGED <<signals, cpc, astray>>
    BY <1>1, <2>1 DEF Stopped, client
  <2>15. \A d \in Descriptors : fds'[d] \in Clients => d = PrivateQ
    BY <2>12, <2>13 DEF AloneInv
  <2>16. \A c \in Clients :
             /\ c \in signals => fds'[PrivateQ] = c
             /\ cpc[c] = "gone" /\ c \notin signals =>
                    \A d \in Descriptors : fds'[d] # c
    BY <2>10, <2>12, <2>14 DEF AloneInv
  <2> QED BY <2>13, <2>14, <2>15, <2>16 DEF AloneInv
<1> QED BY <1>2, <1>3

(* A client that nobody was before gets number 4.                          *)
LEMMA AddAlone ==
  ASSUME Type, OrderInv, AloneInv, AddClient, ~crowd'
  PROVE  AloneInv'
<1>1. PICK a \in Clients : a = hand.from
  BY DEF AddClient, Type, Letter
<1>2. /\ spc = "add" /\ spc' \in {"loop", "greet"}
      /\ \A d \in Descriptors : fds[d] \notin Clients
      /\ UNCHANGED <<signals, client, astray>>
  BY DEF AddClient
<1>3. CASE fds' = fds
  BY <1>2, <1>3, AloneKept DEF Stopped, client
<1>4. CASE fds' # fds
  <2>1. Free2 # {} /\ fds' = [fds EXCEPT ![Lowest] = a]
    BY <1>1, <1>4 DEF AddClient
  <2>2. /\ Lowest \in Descriptors /\ fds[Lowest] = Free
        /\ \A d \in Descriptors : fds[d] = Free => Lowest <= d
    BY <2>1, LowestIsFree
  <2>3. PrivateQ \in Descriptors /\ fds[PrivateQ] = Free
    BY <1>2, DescriptorFacts DEF AloneInv, Stopped, Type
  <2>4. Lowest = PrivateQ
    BY <2>2, <2>3, LimitsAssumption DEF Descriptors, PrivateQ
  <2>5. \A d \in Descriptors : fds'[d] = IF d = PrivateQ THEN a ELSE fds[d]
    BY <2>1, <2>2, <2>4 DEF Type
  <2>6. a # Pipe
    BY ClientsAssumption
  <2>7. signals = {}
    BY <1>2, <2>3, ClientsAssumption DEF AloneInv, Stopped, Type
  <2>8. cpc[a] # "gone"
    BY <1>1, <1>2 DEF OrderInv, HandInv, Fits
  <2>9. ~astray' /\ fds'[PrivateQ] # Pipe /\ spc' # "off"
    BY <1>2, <2>3, <2>5, <2>6 DEF AloneInv
  <2>10. \A d \in Descriptors : fds'[d] \in Clients => d = PrivateQ
    BY <1>2, <2>5
  <2>11. \A c \in Clients : cpc[c] = "gone" => \A d \in Descriptors : fds'[d] # c
    BY <1>2, <2>5, <2>8
  <2> QED BY <1>2, <2>7, <2>9, <2>10, <2>11 DEF AloneInv, client
<1> QED BY <1>3, <1>4

LEMMA CleanAlone ==
  ASSUME Type, AloneInv, CleanClient
  PROVE  AloneInv'
<1>1. PICK a \in signals :
          /\ signals' = signals \ {a}
          /\ astray' = (astray \/ fds[PrivateQ] \notin {a, Free})
  BY DEF CleanClient
<1>2. /\ Running /\ fds' = [fds EXCEPT ![PrivateQ] = Free]
      /\ UNCHANGED <<spc, cpc>>
  BY DEF CleanClient, Close, server, client
<1>3. spc # "off" /\ ~Stopped
  BY <1>2 DEF Running, Stopped
<1>4. a \in Clients /\ fds[PrivateQ] = a /\ ~astray'
  BY <1>1, <1>3 DEF AloneInv, Type
<1>5. signals' = {}
  BY <1>1, <1>3, <1>4 DEF AloneInv, Type
<1>6. \A d \in Descriptors : fds'[d] = IF d = PrivateQ THEN Free ELSE fds[d]
  BY <1>2 DEF Type
<1>7. \A d \in Descriptors : fds'[d] \notin Clients
  BY <1>6, ClientsAssumption DEF AloneInv
<1>8. Free # Pipe
  BY DEF Free, Pipe
<1>9. fds'[PrivateQ] # Pipe
  BY <1>6, <1>8, DescriptorFacts
<1> QED BY <1>2, <1>3, <1>4, <1>5, <1>7, <1>9 DEF AloneInv

LEMMA ServerAlone ==
  ASSUME Type, OrderInv, AloneInv, Server \/ ServerInterrupted, ~crowd'
  PROVE  AloneInv'
<1>1. CASE Date \/ AddClient \/ CleanClient
  BY <1>1, DateAlone, AddAlone, CleanAlone
<1>2. CASE OpenQueue \/ KeepQueue \/ TakeName \/ Compute \/ End \/ NothingToDo
               \/ Greet \/ Answer \/ Clean \/ ServerInterrupted
  <2>1. UNCHANGED <<fds, signals, cpc, astray>> /\ spc' # "off" /\ ~Stopped
    BY <1>2 DEF OpenQueue, KeepQueue, TakeName, Compute, End, Take, NothingToDo,
       Greet, Answer, Send, Clean, ServerInterrupted, Stop, Running, Stopped,
       client, history
  <2> QED BY <2>1, AloneKept
<1> QED BY <1>1, <1>2 DEF Server

-----------------------------------------------------------------------------
(* The invariant.                                                          *)

LEMMA InitIInv == Init => IInv
<1> SUFFICES ASSUME Init PROVE IInv OBVIOUS
<1>1. Type
  BY InitType
<1>2. /\ box = <<>> /\ DOMAIN box = {} /\ info = <<>> /\ DOMAIN info = {}
      /\ spc = "off" /\ signals = {} /\ hand.from = Nobody
      /\ \A c \in Clients : cpc[c] = "start" /\ mail[c] = <<>>
      /\ \A d \in Descriptors : fds[d] = Free
  BY NobodyWrites DEF Init
<1>3. Free \notin Clients /\ Nobody \notin Clients /\ Free # Pipe
  BY ClientsAssumption DEF Free, Pipe
<1>4. \A c \in Clients : Trail(c)
  BY <1>2, <1>3 DEF Trail, Once, Boxed, InHand, InMail, Waiting
<1>5. \A c \in Clients : Known(c)
  BY <1>2, <1>3 DEF Known, Fresh
<1>6. OrderInv
  BY <1>2, <1>4, <1>5 DEF OrderInv, HandInv
<1>7. AloneInv
  BY <1>2, <1>3, DescriptorFacts DEF Init, AloneInv
<1> QED BY <1>1, <1>6, <1>7 DEF IInv

LEMMA IInvStep == IInv /\ [Next]_vars => IInv'
<1> SUFFICES ASSUME IInv, [Next]_vars PROVE IInv'
  OBVIOUS
<1>1. Type /\ Type'
  BY NextType DEF IInv
<1>2. CASE UNCHANGED vars
  <2>1. UNCHANGED <<server, box, fds, signals, client, mail, history>>
    BY <1>2 DEF vars
  <2>2. OrderInv => OrderInv'
    BY <2>1 DEF OrderInv, HandInv, Trail, Known, Once, Boxed, Wants, Command,
       InHand, InMail, Fits, Fresh, Enlisted, Asks, Gone, Refused, Waiting,
       server, client
  <2>3. AloneInv => AloneInv'
    BY <2>1 DEF AloneInv, Stopped, server, client, history
  <2> QED BY <1>1, <2>1, <2>2, <2>3 DEF IInv, server, history
<1>3. CASE \E a \in Clients : Client(a) \/ ClientInterrupted(a)
  <2>1. PICK a \in Clients : Client(a) \/ ClientInterrupted(a)
    BY <1>3
  <2>2. UNCHANGED <<spc, crowd, astray>>
    BY <2>1 DEF Client, ClientInterrupted, Connect, Register, AwaitId, Ask, Skip,
       Await, Receive, Finish, server, history
  <2>3. ~astray' /\ spc' # "faulted" => OrderInv'
    BY <1>1, <2>1, <2>2, ClientsOrder DEF IInv
  <2>4. ~crowd' => AloneInv'
    BY <1>1, <2>1, <2>2, ClientAlone DEF IInv, AloneInv
  <2> QED BY <1>1, <2>3, <2>4 DEF IInv
<1>4. CASE Server \/ ServerInterrupted
  <2>1. spc # "faulted" /\ (astray => astray') /\ (crowd => crowd')
    <3>1. CASE CleanClient
      BY <3>1 DEF CleanClient, Running
    <3>2. CASE AddClient
      BY <3>2 DEF AddClient
    <3>3. CASE OpenQueue \/ KeepQueue \/ TakeName \/ Compute \/ Date \/ End
                  \/ NothingToDo \/ Greet \/ Answer \/ Clean \/ ServerInterrupted
      BY <3>3 DEF OpenQueue, KeepQueue, TakeName, Compute, Date, End, Take,
         NothingToDo, Greet, Answer, Clean, ServerInterrupted, Running, history
    <3> QED BY <1>4, <3>1, <3>2, <3>3 DEF Server
  <2>2. ~astray' /\ spc' # "faulted" => OrderInv'
    BY <1>1, <1>4, <2>1, ServerOrder DEF IInv
  <2>3. ~crowd' => AloneInv'
    BY <1>1, <1>4, <2>1, ServerAlone DEF IInv, AloneInv
  <2> QED BY <1>1, <2>2, <2>3 DEF IInv
<1> QED BY <1>2, <1>3, <1>4 DEF Next

(* The inductive invariant holds throughout.                               *)
THEOREM Invariance == Spec => []IInv
<1>1. Init => IInv
  BY InitIInv
<1>2. IInv /\ [Next]_vars => IInv'
  BY IInvStep
<1> QED BY <1>1, <1>2, PTL DEF Spec

(* If no client is added while the queue of another is open, number 4 is   *)
(* always the queue of the client that signs off, no descriptor of another *)
(* is closed and nothing stays open (server.c:74-80, client.c:192-194).    *)
THEOREM OneByOne == Spec => []OneByOneIsSafe
<1>1. IInv => OneByOneIsSafe
  <2> SUFFICES ASSUME IInv, ~crowd PROVE OneByOneIsSafe
    BY DEF OneByOneIsSafe
  <2>1. AloneInv
    BY DEF IInv
  <2>2. ASSUME Running PROVE ~Stopped /\ OrderInv
    BY <2>1, <2>2 DEF Running, Stopped, IInv, AloneInv
  <2>3. ASSUME NEW c \in Clients, cpc[c] \in {"ask", "await"}, Running
        PROVE  fds[PrivateQ] = c
    BY <2>1, <2>2, <2>3 DEF OrderInv, Known, Enlisted, AloneInv
  <2>4. ASSUME NEW c \in Clients, c \in signals, Running
        PROVE  fds[PrivateQ] = c
    BY <2>1, <2>2, <2>4 DEF AloneInv
  <2>5. ASSUME NEW c \in Clients, cpc[c] = "gone", c \notin signals, Running
        PROVE  \A d \in Descriptors : fds[d] # c
    BY <2>1, <2>2, <2>5 DEF AloneInv
  <2>6. ~astray
    BY <2>1 DEF AloneInv
  <2> QED BY <2>3, <2>4, <2>5, <2>6 DEF OneByOneIsSafe
<1> QED BY <1>1, Invariance, PTL

-----------------------------------------------------------------------------
(* What is on the way to a client.                                         *)

LEMMA NothingInTheBox ==
  ASSUME NEW c, {i \in DOMAIN box : box[i].from = c /\ Wants(box[i])} = {}
  PROVE  Cardinality({i \in DOMAIN box :
                        box[i].from = c
                            /\ (box[i].n = 0 \/ Command(box[i]) # "END")}) = 0
<1>1. {i \in DOMAIN box : box[i].from = c
                            /\ (box[i].n = 0 \/ Command(box[i]) # "END")} = {}
  BY DEF Wants
<1> QED BY <1>1, FS_EmptySet

LEMMA OneInTheBox ==
  ASSUME NEW c, NEW k \in DOMAIN box,
         {i \in DOMAIN box : box[i].from = c /\ Wants(box[i])} = {k}
  PROVE  Cardinality({i \in DOMAIN box :
                        box[i].from = c
                            /\ (box[i].n = 0 \/ Command(box[i]) # "END")}) = 1
<1>1. {i \in DOMAIN box : box[i].from = c
                            /\ (box[i].n = 0 \/ Command(box[i]) # "END")} = {k}
  BY DEF Wants
<1> QED BY <1>1, FS_Singleton

LEMMA OneOnTheWay ==
  ASSUME Type, NEW c \in Clients, Trail(c), Waiting(c), Running, ~Refused(c)
  PROVE  OnTheWay(c) = 1
<1> DEFINE S == {i \in DOMAIN box : box[i].from = c /\ Wants(box[i])}
<1>1. \A i \in DOMAIN box : box[i] \in Letter
  BY DEF Type
<1>2. \A i \in S : Boxed(c, box[i])
  BY DEF Boxed
<1>3. Len(mail[c]) = IF InMail(c) THEN 1 ELSE 0
  BY DEF Trail, InMail
<1>4. (IF hand.from = c THEN 1 ELSE 0) = IF InHand(c) THEN 1 ELSE 0
  BY DEF InHand
<1>5. CASE S = {}
  <2>1. \A m \in Letter : ~Boxed(c, m)
    BY <1>5 DEF Boxed
  <2>2. (InHand(c) \/ InMail(c)) /\ ~(InHand(c) /\ InMail(c))
    BY <2>1 DEF Trail
  <2>3. Cardinality({i \in DOMAIN box :
                        box[i].from = c
                            /\ (box[i].n = 0 \/ Command(box[i]) # "END")}) = 0
    BY <1>5, NothingInTheBox
  <2> QED BY <1>3, <1>4, <2>2, <2>3 DEF OnTheWay
<1>6. CASE S # {}
  <2>1. PICK k \in DOMAIN box : k \in S
    BY <1>6
  <2>2. S = {k}
    BY <2>1 DEF Trail, Once
  <2>3. ~InHand(c) /\ ~InMail(c)
    BY <1>1, <1>2, <2>1 DEF Trail
  <2>4. Cardinality({i \in DOMAIN box :
                        box[i].from = c
                            /\ (box[i].n = 0 \/ Command(box[i]) # "END")}) = 1
    BY <2>2, OneInTheBox
  <2> HIDE DEF S
  <2> QED BY <1>3, <1>4, <2>3, <2>4 DEF OnTheWay
<1> QED BY <1>5, <1>6

(* As long as no signal has closed the descriptor of another, a waiting    *)
(* client has exactly one message on the way, what is in a client's queue  *)
(* is the answer to what it asks now, and no mq_send fails (server.c:151-  *)
(* 205, client.c:84-95 and 184-188).                                       *)
THEOREM AnswersArrive == Spec => []AnswersFindTheirClients
<1>1. IInv => AnswersFindTheirClients
  <2> SUFFICES ASSUME IInv, ~astray, spc # "faulted" PROVE AnswersFindTheirClients
    BY DEF AnswersFindTheirClients
  <2>1. Type /\ OrderInv
    BY DEF IInv
  <2>2. ASSUME NEW c \in Clients, Waiting(c), Running, ~Refused(c)
        PROVE  OnTheWay(c) = 1
    BY <2>1, <2>2, OneOnTheWay DEF OrderInv
  <2>3. ASSUME NEW c \in Clients, ~Gone(c), NEW i \in DOMAIN mail[c]
        PROVE  /\ Waiting(c) /\ mail[c][i].from = c
               /\ mail[c][i].n = (IF cpc[c] = "await" THEN at[c] ELSE 0)
    <3>1. mail[c] \in Seq(Letter) /\ DOMAIN mail[c] = 1 .. Len(mail[c])
      BY <2>1 DEF Type
    <3>2. InMail(c)
      BY <2>3, <3>1 DEF InMail
    <3>3. /\ Asks(c) /\ Len(mail[c]) = 1
          /\ mail[c][1].from = c
          /\ mail[c][1].n = (IF cpc[c] = "await" THEN at[c] ELSE 0)
      BY <2>1, <2>3, <3>2 DEF OrderInv, Trail
    <3>4. i = 1
      BY <3>1, <3>3
    <3> QED BY <2>3, <3>3, <3>4 DEF Asks, Waiting, Gone
  <2>4. spc # "failed"
    BY <2>1 DEF OrderInv
  <2> QED BY <2>2, <2>3, <2>4 DEF AnswersFindTheirClients
<1> QED BY <1>1, Invariance, PTL
=============================================================================

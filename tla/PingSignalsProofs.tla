------------------------- MODULE PingSignalsProofs -------------------------
(***************************************************************************)
(* Proofs about PingSignals, for any number of pings, with and without     *)
(* Ctrl-C.                                                                 *)
(***************************************************************************)
EXTENDS PingSignals, TLAPS

-----------------------------------------------------------------------------
(* The inductive invariant behind PingsAreCounted.                         *)

TypeOK ==
    /\ type \in 1 .. 3
    /\ ppc \in {"forked", "set", "suspended", "send", "rally", "wait",
                "interrupted", "killed", "exited"}
    /\ cpc \in {"forked", "setup", "loop", "pinged", "exited"}
    /\ i \in Nat /\ pending \in Nat
    /\ pings \in [{"parent", "child"} -> Nat]
    /\ toParent \in BOOLEAN /\ sigint \in BOOLEAN /\ pressed \in BOOLEAN
    /\ ending \in BOOLEAN

(* Nobody pings before the child is ready, and the parent leaves only      *)
(* after the child, or before it has sent a ping.                          *)
OrderInv ==
    /\ i = 0 => /\ pending = 0 /\ cpc # "pinged"
                /\ pings["parent"] = 0 /\ pings["child"] = 0
    /\ i > 0 => cpc \notin {"forked", "setup"}
    /\ cpc \in {"forked", "setup"} => ppc \notin {"send", "rally"} /\ ~toParent
    /\ ppc \in {"forked", "set", "suspended", "killed"} => i = 0
    /\ ppc = "send" /\ i = 0 => ~toParent
    /\ ppc = "exited" => ~ChildLives

(* In the rally the counts differ by the ping that is on its way back.     *)
RallyInv ==
    type = 2 =>
        /\ ppc = "send" => i = 0
        /\ ppc = "wait" => pings["parent"] >= L
        /\ i > 0 =>
            /\ toParent \/ cpc = "pinged" =>
                   pings["child"] = pings["parent"] + 1
            /\ pending > 0 => pings["child"] = pings["parent"]

(* Only Ctrl-C takes the parent away from its loop.                        *)
InterruptInv == sigint \/ ppc = "interrupted" => pressed

IInv == TypeOK /\ OrderInv /\ RallyInv /\ InterruptInv /\ PingsAreCounted

-----------------------------------------------------------------------------
LEMMA InitInv == Init => IInv
<1> SUFFICES ASSUME Init PROVE IInv OBVIOUS
<1>1. TypeOK BY DEF Init, TypeOK
<1>2. OrderInv /\ RallyInv /\ InterruptInv
  BY DEF Init, OrderInv, RallyInv, InterruptInv
<1>3. PingsAreCounted BY DEF Init, PingsAreCounted
<1> QED BY <1>1, <1>2, <1>3 DEF IInv

(* A step of the parent preserves the invariant.                           *)
LEMMA ParentInv ==
    ASSUME IInv, Parent
    PROVE  IInv'
<1> USE PingsAssumption
        DEF IInv, TypeOK, OrderInv, RallyInv, InterruptInv, PingsAreCounted,
            InPlay, ChildLives, ParentLives, KillChild, Count, PUnchanged
<1>1. CASE SetSigint BY <1>1 DEF SetSigint
<1>2. CASE Suspend BY <1>2 DEF Suspend
<1>3. CASE Ready
  <2> USE <1>3 DEF Ready
  <2>1. TypeOK' OBVIOUS
  <2>2. OrderInv' OBVIOUS
  <2>3. RallyInv' /\ InterruptInv' OBVIOUS
  <2>4. PingsAreCounted' OBVIOUS
  <2> QED BY <2>1, <2>2, <2>3, <2>4
<1>4. CASE Pinged
  <2> USE <1>4 DEF Pinged, parent
  <2>1. TypeOK'
    <3>1. pings' \in [{"parent", "child"} -> Nat] OBVIOUS
    <3>2. pending' \in Nat OBVIOUS
    <3> QED BY <3>1, <3>2
  <2>2. OrderInv' OBVIOUS
  <2>3. RallyInv' /\ InterruptInv' OBVIOUS
  <2>4. PingsAreCounted' OBVIOUS
  <2> QED BY <2>1, <2>2, <2>3, <2>4
<1>5. CASE SendPing BY <1>5 DEF SendPing
<1>6. CASE EndChild BY <1>6 DEF EndChild
<1>7. CASE Interrupt BY <1>7 DEF Interrupt
<1>8. CASE Reap BY <1>8 DEF Reap
<1> QED BY <1>1, <1>2, <1>3, <1>4, <1>5, <1>6, <1>7, <1>8 DEF Parent

(* A step of the child preserves it.                                       *)
LEMMA ChildInv ==
    ASSUME IInv, Child
    PROVE  IInv'
<1> USE PingsAssumption
        DEF IInv, TypeOK, OrderInv, RallyInv, InterruptInv, PingsAreCounted,
            InPlay, ChildLives, ParentLives, KillParent, Count, CUnchanged,
            parent
<1>1. CASE IgnoreSigint BY <1>1 DEF IgnoreSigint
<1>2. CASE SetUp BY <1>2 DEF SetUp
<1>3. CASE BeginPing BY <1>3 DEF BeginPing
<1>4. CASE EndPing
  <2> USE <1>4 DEF EndPing
  <2>1. TypeOK' OBVIOUS
  <2>2. OrderInv' OBVIOUS
  <2>3. RallyInv' /\ InterruptInv' OBVIOUS
  <2>4. PingsAreCounted'
    <3>1. CASE type = 2 /\ i > 0
      <4>1. pings["child"] = pings["parent"] + 1 BY <3>1
      <4>2. pending = 0 /\ toParent = FALSE BY <3>1
      <4>3. ppc \notin {"killed", "exited"} /\ toParent' = TRUE BY <3>1
      <4>4. cpc' = "loop" /\ UNCHANGED <<ppc, pings, pending, type, i>>
        OBVIOUS
      <4> HIDE DEF EndPing, CUnchanged
      <4> QED BY <3>1, <4>1, <4>2, <4>3, <4>4
    <3>2. CASE type # 2 BY <3>2
    <3>3. CASE i = 0 BY <3>3
    <3> QED BY <3>1, <3>2, <3>3
  <2> QED BY <2>1, <2>2, <2>3, <2>4
<1>5. CASE Exit BY <1>5 DEF Exit
<1> QED BY <1>1, <1>2, <1>3, <1>4, <1>5 DEF Child

LEMMA NextInv == IInv /\ [Next]_vars => IInv'
<1> SUFFICES ASSUME IInv, [Next]_vars PROVE IInv' OBVIOUS
<1> USE DEF IInv, TypeOK, OrderInv, RallyInv, InterruptInv, PingsAreCounted,
            InPlay, ChildLives, ParentLives
<1>1. CASE Parent BY <1>1, ParentInv
<1>2. CASE Child BY <1>2, ChildInv
<1>3. CASE CtrlC BY <1>3 DEF CtrlC
<1>4. CASE UNCHANGED vars BY <1>4 DEF vars, parent, child
<1> QED BY <1>1, <1>2, <1>3, <1>4 DEF Next

THEOREM Invariance == Spec => []IInv
<1>1. Init => IInv BY InitInv
<1>2. IInv /\ [Next]_vars => IInv' BY NextInv
<1> QED BY <1>1, <1>2, PTL DEF Spec

(* Pings are neither invented nor, in the rally and in type 3, lost        *)
(* (task.c:60-80, 172-208).                                                *)
THEOREM PingsCounted == Spec => []PingsAreCounted
BY Invariance, PTL DEF IInv
=============================================================================

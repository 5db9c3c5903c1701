---------------------------- MODULE PingSignals ----------------------------
(***************************************************************************)
(* "task3" of cw04: a parent pings its child L times by signals and the    *)
(* child pings back.  In type 1 the signal is SIGUSR1, of which no second  *)
(* one is kept pending; type 2 is a rally in which each ping answers the   *)
(* last; in type 3 it is a real-time signal, which is queued.  The child   *)
(* is ended by SIGUSR2, or SIGRTMIN + 2 in type 3, or when it has counted  *)
(* L pings.  Before, it tells the parent by SIGUSR1 that its handlers are  *)
(* set up, and the parent waits for that in sigsuspend.                    *)
(*                                                                         *)
(* It begins after fork.  A sleep takes any time, as signals cut it short. *)
(* The loops over pings are busy and look again sooner or later: Surplus   *)
(* is how many pings one of them may miss before it does.                  *)
(***************************************************************************)
EXTENDS Naturals

CONSTANTS
    L,              \* pings, the first argument
    Surplus,        \* pings that may come before a loop sees it has L
    MaySignal       \* TRUE if Ctrl-C may come

ASSUME PingsAssumption ==
    L \in Nat \ {0} /\ Surplus \in Nat /\ MaySignal \in BOOLEAN

VARIABLES
    type,           \* the second argument
    ppc,            \* where the parent is; "killed": by SIGINT
    pings,          \* pings, in each process
    i,              \* pings sent by the parent's loop
    toParent,       \* SIGUSR1, or the ping of type 3, is pending
    sigint,         \* SIGINT is pending in the parent
    cpc,            \* where the child is
    pending,        \* pings pending in the child
    ending,         \* the signal that ends the child is pending
    pressed,        \* Ctrl-C has come
    missed,         \* history: the child was ready too early
    cut             \* history: SIGINT came before its handler was set

parent == <<ppc, i, sigint>>
child  == <<cpc, ending>>
vars == <<type, parent, pings, toParent, child, pending, pressed, missed,
          cut>>

Init ==
    /\ type \in 1 .. 3
    /\ ppc = "forked" /\ i = 0 /\ sigint = FALSE
    /\ pings = [p \in {"parent", "child"} |-> 0]
    /\ toParent = FALSE
    /\ cpc = "forked" /\ pending = 0 /\ ending = FALSE
    /\ pressed = FALSE /\ missed = FALSE /\ cut = FALSE

ParentLives == ppc \notin {"killed", "exited"}
ChildLives  == cpc # "exited"

(* kill(pid, ...): a real-time signal is queued, SIGUSR1 is not.           *)
KillChild ==
    pending' = IF ~ChildLives THEN pending
               ELSE IF type = 3 THEN pending + 1 ELSE 1

(* Nobody is pinged once the parent is gone.                               *)
KillParent == toParent' = ParentLives

Count(p) == pings' = [pings EXCEPT ![p] = @ + 1]

-----------------------------------------------------------------------------
(* The parent.                                                             *)

PUnchanged == UNCHANGED <<type, cpc, pressed, cut>>

(* signal(SIGINT, sigINT), and then sigsuspend.                            *)
SetSigint ==
    /\ ppc = "forked" /\ ppc' = "set"
    /\ UNCHANGED <<i, sigint, pings, toParent, pending, ending, missed>>
    /\ PUnchanged

Suspend ==
    /\ ppc = "set" /\ ppc' = "suspended"
    /\ UNCHANGED <<i, sigint, pings, toParent, pending, ending, missed>>
    /\ PUnchanged

(* doNothing, which ends sigsuspend, or comes before it.                   *)
Ready ==
    /\ toParent /\ toParent' = FALSE
    /\ \/ ppc = "suspended" /\ ppc' = "send" /\ UNCHANGED missed
       \/ ppc \in {"forked", "set"} /\ missed' = TRUE /\ UNCHANGED ppc
    /\ UNCHANGED <<i, sigint, pings, pending, ending>> /\ PUnchanged

(* printPingInfo, or dealWithPingParent in type 2; doNothing if sigINT has *)
(* come before sigsuspend.                                                 *)
Pinged ==
    /\ toParent /\ toParent' = FALSE
    /\ ppc \in {"send", "rally", "wait", "interrupted"}
    /\ IF type = 2 /\ i > 0 THEN Count("parent") /\ KillChild
                            ELSE UNCHANGED <<pings, pending>>
    /\ UNCHANGED <<parent, ending, missed>> /\ PUnchanged

SendPing ==
    /\ ppc = "send"
    /\ i < (IF type = 2 THEN 1 ELSE L)
    /\ i' = i + 1
    /\ KillChild
    /\ ppc' = IF type = 2 THEN "rally" ELSE "send"
    /\ UNCHANGED <<sigint, pings, toParent, ending, missed>> /\ PUnchanged

(* Mutant: the rally is over as soon as it has begun.                      *)
EndChildAtOnce ==
    /\ ppc \in {"send", "rally"} /\ i >= 1
    /\ ending' = TRUE
    /\ ppc' = "wait"
    /\ UNCHANGED <<i, sigint, pings, toParent, pending, missed>> /\ PUnchanged

EndChild ==
    /\ \/ ppc = "send" /\ i = L
       \/ ppc = "rally" /\ pings["parent"] >= L
    /\ ending' = TRUE
    /\ ppc' = "wait"
    /\ UNCHANGED <<i, sigint, pings, toParent, pending, missed>> /\ PUnchanged

(* sigINT, with kill(0, SIGUSR2), in whatever the parent does; sigsuspend  *)
(* keeps it pending.  Before the handler is set SIGINT kills.              *)
Interrupt ==
    /\ sigint /\ sigint' = FALSE
    /\ \/ /\ ppc = "forked" /\ ppc' = "killed"
          /\ cut' = TRUE
          /\ UNCHANGED ending
       \/ /\ ppc \in {"set", "send", "rally", "wait"} /\ ppc' = "interrupted"
          /\ ending' = TRUE
          /\ UNCHANGED cut
    /\ UNCHANGED <<type, i, pings, toParent, cpc, pending, pressed, missed>>

(* wait until there is no child any more.                                  *)
Reap ==
    /\ ppc \in {"wait", "interrupted"} /\ ~ChildLives
    /\ ppc' = "exited"
    /\ UNCHANGED <<i, sigint, pings, toParent, pending, ending, missed>>
    /\ PUnchanged

Parent == SetSigint \/ Suspend \/ Ready \/ Pinged \/ SendPing \/ EndChild
              \/ Interrupt \/ Reap

-----------------------------------------------------------------------------
(* The child.                                                              *)

CUnchanged == UNCHANGED <<type, parent, pressed, missed, cut>>

IgnoreSigint ==
    /\ cpc = "forked" /\ cpc' = "setup"
    /\ UNCHANGED <<pings, toParent, pending, ending>> /\ CUnchanged

(* Mutant: the parent is not told.                                         *)
SetUpSilently ==
    /\ cpc = "setup" /\ cpc' = "loop"
    /\ UNCHANGED <<pings, toParent, pending, ending>> /\ CUnchanged

(* The handlers are set, and kill(getppid(), SIGUSR1).                     *)
SetUp ==
    /\ cpc = "setup" /\ cpc' = "loop"
    /\ KillParent
    /\ UNCHANGED <<pings, pending, ending>> /\ CUnchanged

(* dealWithPing, during which its signal is blocked.                       *)
BeginPing ==
    /\ cpc = "loop" /\ cpc' = "pinged"
    /\ pending > 0 /\ pending' = pending - 1
    /\ pings["child"] < L + Surplus
    /\ Count("child")
    /\ UNCHANGED <<toParent, ending>> /\ CUnchanged

EndPing ==
    /\ cpc = "pinged" /\ cpc' = "loop"
    /\ KillParent
    /\ UNCHANGED <<pings, pending, ending>> /\ CUnchanged

(* exitChild, or the signal's default before it is set, in the middle of   *)
(* dealWithPing too; or the loop is over, and there is nobody to wait for. *)
Exit ==
    /\ \/ ending
       \/ cpc = "loop" /\ pings["child"] >= L
    /\ ChildLives /\ cpc' = "exited"
    /\ UNCHANGED <<pings, toParent, pending, ending>> /\ CUnchanged

Child == IgnoreSigint \/ SetUp \/ BeginPing \/ EndPing \/ Exit

-----------------------------------------------------------------------------
(* Ctrl-C goes to both.  The child ignores it as soon as it can.           *)
CtrlC ==
    /\ MaySignal /\ ~pressed /\ pressed' = TRUE
    /\ sigint' = ParentLives
    /\ \/ /\ cpc = "forked" /\ cpc' = "exited"
          /\ cut' = TRUE
       \/ cpc # "forked" /\ UNCHANGED <<cpc, cut>>
    /\ UNCHANGED <<type, ppc, i, pings, toParent, pending, ending, missed>>

Next == Parent \/ Child \/ CtrlC

(* The kernel runs both and delivers what is pending.                      *)
Spec == Init /\ [][Next]_vars /\ WF_vars(Parent) /\ WF_vars(Child)

-----------------------------------------------------------------------------
(* Properties.                                                             *)

(* Both processes end, in all three types and whenever Ctrl-C comes, but   *)
(* for two cases: the child was ready before the parent was in sigsuspend, *)
(* which then waits for ever and keeps even SIGINT out, or SIGINT came     *)
(* before its handlers were set (task.c:105-161).                          *)
Ended == ~ParentLives /\ ~ChildLives

EndsUnlessMissed == <>(Ended \/ missed \/ cut)

(* In the rally one ping is in play and the counts are one apart at most,  *)
(* so it is never merged with another, and without Ctrl-C both reach L.    *)
(* Queued pings are counted or pending, each of them, while the child      *)
(* lives.  With SIGUSR1 some may be merged, but none is invented           *)
(* (task.c:60-80, 172-208).                                                *)
InPlay == pending + (IF cpc = "pinged" THEN 1 ELSE 0)
              + (IF toParent /\ i > 0 THEN 1 ELSE 0)

PingsAreCounted ==
    /\ type = 2 /\ i > 0 =>
        /\ InPlay <= 1 /\ (ChildLives => InPlay = 1)
        /\ pings["child"] - pings["parent"] \in {0, 1}
        /\ ppc = "exited" /\ ~pressed =>
               pings["parent"] >= L /\ pings["child"] >= L
    /\ type = 3 /\ ChildLives => pings["child"] + pending = i
    /\ type = 1 => pings["child"] + pending <= i
=============================================================================

------------------------------ MODULE LineRelay ------------------------------
(***************************************************************************)
(* What the producers and the consumers of cw09 promise together, without  *)
(* threads, locks or a ring: a line of the file is first unread, then held *)
(* by a producer, then in a buffer of bounded capacity, then delivered. It *)
(* takes these steps in this order and once.  Nothing says that the        *)
(* program delivers every line: it does not.                               *)
(***************************************************************************)
EXTENDS Naturals, FiniteSets

CONSTANTS FileLines, Capacity

VARIABLES
    unread,         \* the lines still in the file
    held,           \* the lines read but not stored
    buffer,         \* the lines stored but not delivered
    delivered       \* the lines taken out of the buffer

rvars == <<unread, held, buffer, delivered>>

RelayInit ==
    /\ unread = 1 .. FileLines
    /\ held = {} /\ buffer = {} /\ delivered = {}

(* Lines are read in file order.                                           *)
Read(l) ==
    /\ l \in unread
    /\ \A k \in unread : l <= k
    /\ unread' = unread \ {l}
    /\ held' = held \cup {l}
    /\ UNCHANGED <<buffer, delivered>>

Store(l) ==
    /\ l \in held
    /\ Cardinality(buffer) < Capacity
    /\ held' = held \ {l}
    /\ buffer' = buffer \cup {l}
    /\ UNCHANGED <<unread, delivered>>

Deliver(l) ==
    /\ l \in buffer
    /\ buffer' = buffer \ {l}
    /\ delivered' = delivered \cup {l}
    /\ UNCHANGED <<unread, held>>

RelayNext == \E l \in 1 .. FileLines : Read(l) \/ Store(l) \/ Deliver(l)

RelaySpec == RelayInit /\ [][RelayNext]_rvars
=============================================================================

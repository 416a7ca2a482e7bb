-------------------------- MODULE MC_OrderFlowRaces --------------------------
(***************************************************************************)
(* OrderFlow for TLC with two handler slots.  Every order of the two       *)
(* handlers' statements is explored, for every pair of handlers and from   *)
(* every state in which the pair can meet; the number of times in one      *)
(* behaviour that a handler begins while another one is in flight is       *)
(* bounded by MaxOverlaps.                                                 *)
(***************************************************************************)
EXTENDS OrderFlow, TLC

CONSTANTS
    t1, t2, d1, d2,  \* model values: slots and drivers
    MaxOverlaps      \* bound on the overlaps of one behaviour

VARIABLE overlaps    \* overlaps so far

\* Slots and drivers are interchangeable.
Symm == Permutations(Tasks) \cup Permutations(Drivers)

InFlight(f) == Cardinality({t \in Tasks : f[t] # Idle})

MCInit == Init /\ overlaps = 0
MCNext ==
    /\ Next
    /\ overlaps' = overlaps +
         IF InFlight(task) > 0 /\ InFlight(task') > InFlight(task) THEN 1 ELSE 0
    /\ overlaps' <= MaxOverlaps
MCSpec == MCInit /\ [][MCNext]_<<vars, overlaps>>
=============================================================================

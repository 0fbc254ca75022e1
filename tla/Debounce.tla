------------------------------ MODULE Debounce ------------------------------
(***************************************************************************)
(* What the ntfy plugin promises of its notifications, whatever the order  *)
(* in which its handlers get there: for each key (session, event) at most  *)
(* one notification waits; the next one to get there takes its place; one  *)
(* that waits is passed on once, under its own key; after closing nothing  *)
(* waits and nothing is passed on.                                         *)
(***************************************************************************)
CONSTANTS
    Key,
    Id,     \* what tells the notifications of a key apart
    Empty   \* nothing waits

VARIABLES
    pend,    \* the id that waits under each key, or Empty
    out,     \* the notifications passed on: <<key, id>>
    closed

dvars == <<pend, out, closed>>

Init ==
    /\ pend = [k \in Key |-> Empty]
    /\ out = {}
    /\ closed = FALSE

Fresh(k, i) == <<k, i>> \notin out /\ pend[k] # i

Arm(k, i) ==
    /\ ~closed
    /\ Fresh(k, i)
    /\ pend' = [pend EXCEPT ![k] = i]
    /\ UNCHANGED <<out, closed>>

\* A key without a delay.
PassAtOnce(k, i) ==
    /\ ~closed
    /\ Fresh(k, i)
    /\ pend' = [pend EXCEPT ![k] = Empty]
    /\ out' = out \cup {<<k, i>>}
    /\ UNCHANGED closed

Fire(k) ==
    /\ pend[k] # Empty
    /\ pend' = [pend EXCEPT ![k] = Empty]
    /\ out' = out \cup {<<k, pend[k]>>}
    /\ UNCHANGED closed

Close ==
    /\ closed' = TRUE
    /\ pend' = [k \in Key |-> Empty]
    /\ UNCHANGED out

Next ==
    \/ \E k \in Key, i \in Id : Arm(k, i) \/ PassAtOnce(k, i)
    \/ \E k \in Key : Fire(k)
    \/ Close

Safety == Init /\ [][Next]_dvars

Spec == Safety /\ \A k \in Key : WF_dvars(Fire(k))
=============================================================================

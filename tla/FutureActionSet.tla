-------------------------- MODULE FutureActionSet --------------------------
(***************************************************************************)
(* What the simulation expects of its list of future actions ("ActionList  *)
(* is the Future Action Set", ActionList.hpp): entries are added at the    *)
(* time being simulated or later, and time advances by taking all entries  *)
(* of the earliest time point at once, in the order they were added.       *)
(***************************************************************************)
EXTENDS Integers, Sequences, FiniteSets

CONSTANTS
    Times,     \* time points, a set of integers
    Never      \* less than every time point

VARIABLES
    now,       \* time being simulated
    pending,   \* the entries to come: [time, nth]
    added,     \* number of entries ever added
    due        \* the entries of the last time point taken, in order

vars == <<now, pending, added, due>>

Entry(t, n) == [time |-> t, nth |-> n]

Init ==
    /\ now = 0
    /\ pending = {}
    /\ added = 0
    /\ due = <<>>

Add(t) ==
    /\ now # Never
    /\ t >= now
    /\ added' = added + 1
    /\ pending' = pending \cup {Entry(t, added')}
    /\ UNCHANGED <<now, due>>

Earliest == { e \in pending : \A f \in pending : e.time <= f.time }

InOrder(s) == \A i, j \in DOMAIN s : i < j => s[i].nth < s[j].nth

Advance ==
    /\ \E e \in Earliest : now' = e.time
    /\ pending' = pending \ Earliest
    /\ due' \in [1..Cardinality(Earliest) -> Earliest]
    /\ InOrder(due')
    /\ UNCHANGED added

Finish ==
    /\ pending = {}
    /\ now' = Never
    /\ due' = <<>>
    /\ UNCHANGED <<pending, added>>

Next == Advance \/ Finish \/ \E t \in Times : Add(t)

Spec == Init /\ [][Next]_vars
=============================================================================

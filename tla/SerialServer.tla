---------------------------- MODULE SerialServer ----------------------------
(***************************************************************************)
(* What an object of the simulation promises to whoever sends it actions:  *)
(* ObjectActionManager.hpp, "This class manages the Actions of each object *)
(* to avoid concurrent execution of one object".  Every object serves its  *)
(* jobs one at a time and in the order they arrive, and lets a job go only *)
(* when its computation is over.  Time, the event list and the numbering   *)
(* of actions are not part of the promise.                                 *)
(***************************************************************************)
EXTENDS Naturals, Sequences

CONSTANTS
    Objects,   \* the servers
    Jobs,
    Target,    \* Target[j]: the server of job j, in [Jobs -> Objects]
    Nobody     \* no job: not a member of Jobs

VARIABLES
    arrived,   \* the jobs that have reached their server
    serving,   \* the job each server computes
    waiting,   \* the jobs behind it, oldest first
    computed,  \* the computation of the job being served is over
    gone       \* the servers that were removed

vars == <<arrived, serving, waiting, computed, gone>>

Init ==
    /\ arrived = {}
    /\ serving = [o \in Objects |-> Nobody]
    /\ waiting = [o \in Objects |-> <<>>]
    /\ computed = [o \in Objects |-> FALSE]
    /\ gone = {}

Arrive(j) ==
    /\ j \notin arrived
    /\ arrived' = arrived \cup {j}

Serve(j) ==
    /\ Arrive(j)
    /\ Target[j] \notin gone
    /\ serving[Target[j]] = Nobody
    /\ serving' = [serving EXCEPT ![Target[j]] = j]
    /\ computed' = [computed EXCEPT ![Target[j]] = FALSE]
    /\ UNCHANGED <<waiting, gone>>

\* A job that is over as soon as it begins: it finds the server free and
\* leaves it free.
ServeAtOnce(j) ==
    /\ Arrive(j)
    /\ Target[j] \notin gone
    /\ serving[Target[j]] = Nobody
    /\ UNCHANGED <<serving, waiting, computed, gone>>

Queue(j) ==
    /\ Arrive(j)
    /\ Target[j] \notin gone
    /\ serving[Target[j]] # Nobody
    /\ waiting' = [waiting EXCEPT ![Target[j]] = Append(@, j)]
    /\ UNCHANGED <<serving, computed, gone>>

\* The server is no longer there: the job is lost.
Lose(j) ==
    /\ Arrive(j)
    /\ Target[j] \in gone
    /\ UNCHANGED <<serving, waiting, computed, gone>>

Compute(o) ==
    /\ serving[o] # Nobody
    /\ ~computed[o]
    /\ computed' = [computed EXCEPT ![o] = TRUE]
    /\ UNCHANGED <<arrived, serving, waiting, gone>>

\* A served job leaves and the oldest waiting one is next; what the job
\* computed may remove other servers.
Leave(o) ==
    /\ o \notin gone
    /\ serving[o] # Nobody
    /\ computed[o]
    /\ computed' = [computed EXCEPT ![o] = FALSE]
    /\ IF waiting[o] = <<>>
       THEN /\ serving' = [serving EXCEPT ![o] = Nobody]
            /\ UNCHANGED waiting
       ELSE /\ serving' = [serving EXCEPT ![o] = Head(waiting[o])]
            /\ waiting' = [waiting EXCEPT ![o] = Tail(@)]
    /\ \E removed \in SUBSET (Objects \ ({o} \cup gone)) : gone' = gone \cup removed
    /\ UNCHANGED arrived

Next ==
    \/ \E j \in Jobs : Serve(j) \/ ServeAtOnce(j) \/ Queue(j) \/ Lose(j)
    \/ \E o \in Objects : Compute(o) \/ Leave(o)

\* Every computation comes to its end and every served job leaves.
Fairness == \A o \in Objects : WF_vars(Compute(o)) /\ WF_vars(Leave(o))

Spec == Init /\ [][Next]_vars /\ Fairness
=============================================================================

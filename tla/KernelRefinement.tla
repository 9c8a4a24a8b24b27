-------------------------- MODULE KernelRefinement --------------------------
(***************************************************************************)
(* Kernel implements SerialServer: the event list, the two handlers of an  *)
(* action and the delayed queues together serve each object's actions one  *)
(* at a time and in order of arrival.                                      *)
(***************************************************************************)
EXTENDS Kernel

\* An action has arrived when it was scheduled and its start (or init)
\* handler is no longer in the list.
arrivedActions ==
    { a \in Actions : mActionId[a] # 0 /\ \A h \in Pending : h.action = a => h.kind = "end" }

\* The fiber's result is there and not yet taken.
computedFor == [o \in Objects |-> mFuture[o] # None /\ ready[o]]

removedObjects == { o \in Objects : container[o] = "removed" }

Server == INSTANCE SerialServer WITH
    Jobs <- Actions,
    Target <- Affected,
    Nobody <- None,
    arrived <- arrivedActions,
    serving <- mActiveAction,
    waiting <- mDelayedQueue,
    computed <- computedFor,
    gone <- removedObjects

\* Every behaviour of the kernel is a behaviour of the serial servers:
\* mutual exclusion, first come first served, no action served twice, and
\* each computation eventually handed over (BaseObject::startExecutionBase,
\* endExecutionBase, initObjectBase).
ServesSerially == Server!Spec
=============================================================================

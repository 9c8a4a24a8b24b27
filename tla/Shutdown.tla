------------------------------ MODULE Shutdown ------------------------------
(***************************************************************************)
(* The threads of the program and its end.  Core::setup starts workers,    *)
(* which lend themselves to the scheduler of fibers while they wait for    *)
(* mIsFinished; the fibers they run, like those the main thread runs while *)
(* it waits for one, record timings (SqliteBackend).  When the list of     *)
(* actions is empty the main thread tells the workers and joins them, and  *)
(* at exit the backend is destroyed.                                       *)
(*                                                                         *)
(* mFiberMutex is held only inside one action here, but for a worker that  *)
(* has found mIsFinished false and is not yet in the condition's queue.    *)
(***************************************************************************)
EXTENDS SqliteBackend, Integers

CONSTANT Cores   \* std::thread::hardware_concurrency

Main == 0
Workers == 1..(IF Cores - 2 < 30 THEN Cores - 2 ELSE 30)

\* One core would make the number of workers -1, which the loop of setup
\* compares as 2^32 - 1: such machines are excluded.
ASSUME CoresAssumption == Cores \in Nat /\ Cores >= 2
ASSUME ProducersAssumption == Producers = {Main} \cup Workers

VARIABLES
    mIsFinished,
    worker,       \* "test", "tested", "waiting" or "done"
    main          \* "loop", "notify", "join" or "exit"

shutdownVars == <<mIsFinished, worker, main>>
vars == <<backendVars, shutdownVars>>

-----------------------------------------------------------------------------
(* Timings.                                                                *)

\* A thread runs fibers while it waits: a worker for the end, the main
\* thread for the future of an action.
RunsFibers(p) == IF p = Main THEN main = "loop" ELSE worker[p] = "waiting"

Record(p) ==
    /\ RunsFibers(p)
    /\ RecordTiming(p)
    /\ UNCHANGED shutdownVars

-----------------------------------------------------------------------------
(* The workers: startThread.                                               *)

\* Faulty variant: the flag is set without the mutex.
Unlocked == TRUE

FiberMutexFree == \A w \in Workers : worker[w] # "tested"

\* The predicate of the wait.  A fiber that records does not yield, so the
\* worker is not in the middle of that.
TestFinished(w) ==
    /\ worker[w] = "test"
    /\ producer[w] = "run"
    /\ FiberMutexFree
    /\ worker' = [worker EXCEPT ![w] = IF mIsFinished THEN "done" ELSE "tested"]
    /\ UNCHANGED <<backendVars, mIsFinished, main>>

\* The worker enters the queue of mConditionClose and gives up the mutex.
Wait(w) ==
    /\ worker[w] = "tested"
    /\ worker' = [worker EXCEPT ![w] = "waiting"]
    /\ UNCHANGED <<backendVars, mIsFinished, main>>

-----------------------------------------------------------------------------
(* The main thread: finishSimulation.                                      *)

SetFinished ==
    /\ main = "loop"
    /\ producer[Main] = "run"
    /\ FiberMutexFree
    /\ mIsFinished' = TRUE
    /\ main' = "notify"
    /\ UNCHANGED <<backendVars, worker>>

NotifyAll ==
    /\ main = "notify"
    /\ worker' = [w \in Workers |-> IF worker[w] = "waiting" THEN "test" ELSE worker[w]]
    /\ main' = "join"
    /\ UNCHANGED <<backendVars, mIsFinished>>

JoinWorkers ==
    /\ main = "join"
    /\ \A w \in Workers : worker[w] = "done"
    /\ main' = "exit"
    /\ UNCHANGED <<backendVars, mIsFinished, worker>>

\* The static backend is destroyed when main has returned.
Destroy ==
    /\ main = "exit"
    /\ StopConsumer
    /\ UNCHANGED shutdownVars

Exited ==
    /\ destructor = "joined"
    /\ UNCHANGED vars

-----------------------------------------------------------------------------
Init ==
    /\ BackendInit
    /\ mIsFinished = FALSE
    /\ worker = [w \in Workers |-> "test"]
    /\ main = "loop"

Consumer ==
    /\ CheckRunning \/ Swap \/ FindNothing \/ Block \/ Commit
    /\ UNCHANGED shutdownVars

Notify(p) == NotifyFlush(p) /\ UNCHANGED shutdownVars
Woken == SpuriousWakeup /\ UNCHANGED shutdownVars
Destructor == (NotifyStop \/ Join) /\ UNCHANGED shutdownVars

Next ==
    \/ \E p \in Producers : Record(p) \/ Notify(p)
    \/ Consumer
    \/ Woken
    \/ \E w \in Workers : TestFinished(w) \/ Wait(w)
    \/ SetFinished
    \/ NotifyAll
    \/ JoinWorkers
    \/ Destroy
    \/ Destructor
    \/ Exited

\* The threads are scheduled.  Nothing says that a probe is ever hit, that
\* the simulation finishes, or that a wait ends by itself.
Fairness ==
    /\ WF_vars(Consumer)
    /\ WF_vars(NotifyAll)
    /\ WF_vars(JoinWorkers)
    /\ WF_vars(Destructor)
    /\ \A p \in Producers : WF_vars(Notify(p))
    /\ \A w \in Workers : WF_vars(TestFinished(w)) /\ WF_vars(Wait(w))

Spec == Init /\ [][Next]_vars /\ Fairness
-----------------------------------------------------------------------------
\* Every variable has its type.
TypeOK ==
    /\ BackendTypeOK
    /\ mIsFinished \in BOOLEAN
    /\ worker \in [Workers -> {"test", "tested", "waiting", "done"}]
    /\ main \in {"loop", "notify", "join", "exit"}

\* The table, the batch being written and the queue hold every record once
\* and in the order it was made, whenever the vectors are swapped
\* (SqliteBackend::runConsumer).
EveryRecordOnce ==
    LET all == written \o queue \o mQueue
    IN  all = [i \in 1..Len(all) |-> i]

MoreThanHalfFull == 2 * Len(mQueue) > mCapacity

\* A queue more than half full is taken by the consumer, or the program ends.
FullQueueIsTaken ==
    MoreThanHalfFull ~> (mQueue = <<>> \/ ~mConsumerRunning)

\* A destructor whose notification finds the consumer anywhere but between
\* its test and its sleep ends the thread (SqliteBackend::~SqliteBackend).
StopReachesConsumer == (destructor = "notify" /\ consumer # "block") ~> destructor = "joined"

\* When the simulation is finished every worker learns it and is joined, at
\* whatever point of its start or wait the end meets it
\* (Core::finishSimulation, Core::startThread).
WorkersJoined == mIsFinished ~> main = "exit"
=============================================================================

--------------------------- MODULE SqliteBackend ---------------------------
(***************************************************************************)
(* The recorder of timing probes: fibers append records to a shared queue, *)
(* one consumer thread swaps the queue against an empty one and writes the *)
(* batch in a transaction, and the destructor stops the consumer.          *)
(*                                                                         *)
(* mQueueMutex is held only inside one action here, but for the consumer   *)
(* that has found the wait predicate false and has not yet blocked.  The   *)
(* destructor stores mConsumerRunning and notifies without the mutex.      *)
(* Records are numbered in the order they are queued.  Module Shutdown     *)
(* adds the threads that make records, and the end of the program.         *)
(***************************************************************************)
EXTENDS Naturals, Sequences

CONSTANTS
    Producers,     \* threads that run fibers with a TimingScope: see Shutdown
    Reserve,       \* capacity both vectors start with (1024 in the code)
    MaxRecords     \* BOUND: records made in a behaviour

ASSUME BackendAssumption == Reserve \in Nat \ {0} /\ MaxRecords \in Nat

VARIABLES
    mQueue,            \* the shared vector
    mCapacity,         \* its capacity
    mConsumerRunning,
    queue,             \* the consumer's own vector
    capacity,          \* its capacity
    consumer,          \* where the consumer thread is
    producer,          \* "run", or "notify": queued a record and left the mutex
    destructor,        \* where ~SqliteBackend is
    written            \* the rows of table timing

backendVars == <<mQueue, mCapacity, mConsumerRunning, queue, capacity, consumer,
                 producer, destructor, written>>

Recorded == Len(written) + Len(queue) + Len(mQueue)

MutexFree == consumer # "block"

-----------------------------------------------------------------------------
(* Fibers: recordTiming.                                                   *)

Flush(n, cap) == n > cap \div 2

\* A full vector doubles its capacity.
Grown(n, cap) == IF n = cap THEN 2 * cap ELSE cap

RecordTiming(p) ==
    /\ destructor = "alive"
    /\ producer[p] = "run"
    /\ Recorded < MaxRecords
    /\ MutexFree
    /\ mCapacity' = Grown(Len(mQueue), mCapacity)
    /\ mQueue' = Append(mQueue, Recorded + 1)
    /\ producer' = [producer EXCEPT ![p] =
                      IF Flush(Len(mQueue'), mCapacity') THEN "notify" ELSE "run"]
    /\ UNCHANGED <<mConsumerRunning, queue, capacity, consumer, destructor, written>>

\* notify_one and notify_all: there is one thread to wake, and a
\* notification nobody waits for is lost.
Notified == IF consumer = "waiting" THEN "enter" ELSE consumer

NotifyFlush(p) ==
    /\ producer[p] = "notify"
    /\ producer' = [producer EXCEPT ![p] = "run"]
    /\ consumer' = Notified
    /\ UNCHANGED <<mQueue, mCapacity, mConsumerRunning, queue, capacity,
                   destructor, written>>

-----------------------------------------------------------------------------
(* The consumer thread: runConsumer.                                       *)

KeepConsuming == mConsumerRunning

CheckRunning ==
    /\ consumer = "while"
    /\ consumer' = IF KeepConsuming THEN "enter" ELSE "done"
    /\ UNCHANGED <<mQueue, mCapacity, mConsumerRunning, queue, capacity,
                   producer, destructor, written>>

\* Faulty variant: only records end the wait.
AnyRecord == mQueue # <<>>

\* Faulty variant: records do not end the wait.
OnlyStop == ~mConsumerRunning

WaitPredicate == mQueue # <<>> \/ ~mConsumerRunning

\* Lock, find the predicate true, swap the vectors and unlock.
Swap ==
    /\ consumer = "enter"
    /\ WaitPredicate
    /\ queue' = mQueue
    /\ mQueue' = queue
    /\ capacity' = mCapacity
    /\ mCapacity' = capacity
    /\ consumer' = "write"
    /\ UNCHANGED <<mConsumerRunning, producer, destructor, written>>

\* Lock and find the predicate false: the mutex is kept until the thread
\* blocks on the condition variable.
FindNothing ==
    /\ consumer = "enter"
    /\ ~WaitPredicate
    /\ consumer' = "block"
    /\ UNCHANGED <<mQueue, mCapacity, mConsumerRunning, queue, capacity,
                   producer, destructor, written>>

Block ==
    /\ consumer = "block"
    /\ consumer' = "waiting"
    /\ UNCHANGED <<mQueue, mCapacity, mConsumerRunning, queue, capacity,
                   producer, destructor, written>>

SpuriousWakeup ==
    /\ consumer = "waiting"
    /\ consumer' = "enter"
    /\ UNCHANGED <<mQueue, mCapacity, mConsumerRunning, queue, capacity,
                   producer, destructor, written>>

\* Faulty variant: the batch is not cleared.
KeepBatch == queue

Cleared == <<>>

\* The transaction with a row for every record of the batch, and clear().
Commit ==
    /\ consumer = "write"
    /\ written' = written \o queue
    /\ queue' = Cleared
    /\ consumer' = "while"
    /\ UNCHANGED <<mQueue, mCapacity, mConsumerRunning, capacity, producer, destructor>>

-----------------------------------------------------------------------------
(* ~SqliteBackend, run at exit.                                            *)

StopConsumer ==
    /\ destructor = "alive"
    /\ mConsumerRunning' = FALSE
    /\ destructor' = "notify"
    /\ UNCHANGED <<mQueue, mCapacity, queue, capacity, consumer, producer, written>>

NotifyStop ==
    /\ destructor = "notify"
    /\ consumer' = Notified
    /\ destructor' = "join"
    /\ UNCHANGED <<mQueue, mCapacity, mConsumerRunning, queue, capacity,
                   producer, written>>

Join ==
    /\ destructor = "join"
    /\ consumer = "done"
    /\ destructor' = "joined"
    /\ UNCHANGED <<mQueue, mCapacity, mConsumerRunning, queue, capacity,
                   consumer, producer, written>>

-----------------------------------------------------------------------------
BackendInit ==
    /\ mQueue = <<>>
    /\ mCapacity = Reserve
    /\ mConsumerRunning = TRUE
    /\ queue = <<>>
    /\ capacity = Reserve
    /\ consumer = "while"
    /\ producer = [p \in Producers |-> "run"]
    /\ destructor = "alive"
    /\ written = <<>>

-----------------------------------------------------------------------------
Records == Seq(Nat)

\* A vector never holds more than its capacity.
BackendTypeOK ==
    /\ mQueue \in Records /\ queue \in Records /\ written \in Records
    /\ mCapacity \in Nat /\ capacity \in Nat
    /\ Len(mQueue) <= mCapacity /\ Len(queue) <= capacity
    /\ mConsumerRunning \in BOOLEAN
    /\ consumer \in {"while", "enter", "block", "waiting", "write", "done"}
    /\ producer \in [Producers -> {"run", "notify"}]
    /\ destructor \in {"alive", "notify", "join", "joined"}
=============================================================================

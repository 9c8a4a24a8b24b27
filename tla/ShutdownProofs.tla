--------------------------- MODULE ShutdownProofs ---------------------------
(***************************************************************************)
(* Proofs about Shutdown and the SqliteBackend it extends, for every       *)
(* number of cores, initial capacity and bound on the records.             *)
(*                                                                         *)
(* EveryRecordOnce is inductive together with the types and BatchWritten:  *)
(* the swap reverses the order of records unless the consumer's own vector *)
(* is empty when it enters the wait.                                       *)
(***************************************************************************)
EXTENDS Shutdown, SequenceTheorems, TLAPS

\* The consumer has written its batch whenever it is not in a transaction.
BatchWritten == consumer # "write" => queue = <<>>

\* Both vectors can grow.
CapacityPositive == mCapacity > 0 /\ capacity > 0

BackendInv ==
    /\ BackendTypeOK
    /\ BatchWritten
    /\ CapacityPositive
    /\ EveryRecordOnce

-----------------------------------------------------------------------------
(* Sequences.                                                              *)

\* The sequence 1, 2, ... continued by its next number.
LEMMA AppendNext ==
    ASSUME NEW s \in Seq(Nat), NEW n, n = Len(s), s = [i \in 1..n |-> i]
    PROVE  Append(s, n + 1) = [i \in 1..Len(Append(s, n + 1)) |-> i]
<1> DEFINE t == Append(s, n + 1)
<1>1. n \in Nat /\ t \in Seq(Nat) /\ Len(t) = n + 1
  OBVIOUS
<1>2. \A i \in 1..(n + 1) : t[i] = i
  OBVIOUS
<1>3. t = [i \in 1..Len(t) |-> t[i]]
  BY <1>1
<1> QED
  BY <1>1, <1>2, <1>3

\* Concatenation with the empty sequence, and with an appended one.
LEMMA ConcatFacts ==
    ASSUME NEW a \in Seq(Nat), NEW b \in Seq(Nat), NEW e \in Nat
    PROVE  /\ a \o <<>> = a
           /\ <<>> \o a = a
           /\ a \o b \in Seq(Nat)
           /\ Len(a \o b) = Len(a) + Len(b)
           /\ a \o Append(b, e) = Append(a \o b, e)
  OBVIOUS

-----------------------------------------------------------------------------
(* The recorder.                                                           *)

\* The vectors are empty at first.
LEMMA InitBackendInv == BackendInit => BackendInv
<1> SUFFICES ASSUME BackendInit PROVE BackendInv
  OBVIOUS
<1>1. BackendTypeOK
  BY BackendAssumption DEF BackendInit, BackendTypeOK, Records
<1>2. EveryRecordOnce
  <2>1. written \o queue \o mQueue = <<>>
    BY DEF BackendInit
  <2> QED
    BY <2>1 DEF EveryRecordOnce
<1> QED
  BY <1>1, <1>2, BackendAssumption DEF BackendInit, BackendInv, BatchWritten, CapacityPositive

\* A record is appended with the next number.
LEMMA RecordTimingInv ==
    ASSUME BackendInv, NEW p \in Producers, RecordTiming(p) PROVE BackendInv'
<1> DEFINE before == written \o queue
<1>1. /\ mQueue \in Seq(Nat) /\ queue \in Seq(Nat) /\ written \in Seq(Nat)
      /\ mCapacity \in Nat /\ Len(mQueue) <= mCapacity /\ mCapacity > 0
  BY DEF BackendInv, BackendTypeOK, Records, CapacityPositive
<1>2. Recorded \in Nat /\ mQueue' = Append(mQueue, Recorded + 1)
  BY <1>1 DEF RecordTiming, Recorded
<1>3. BackendTypeOK' /\ CapacityPositive'
  <2>1. mQueue' \in Seq(Nat) /\ Len(mQueue') = Len(mQueue) + 1
    BY <1>1, <1>2
  <2>2. mCapacity' \in Nat /\ mCapacity' > 0 /\ Len(mQueue') <= mCapacity'
    BY <1>1, <2>1 DEF RecordTiming, Grown
  <2>3. producer' \in [Producers -> {"run", "notify"}]
    BY DEF RecordTiming, BackendInv, BackendTypeOK
  <2> QED
    BY <2>1, <2>2, <2>3
    DEF RecordTiming, BackendInv, BackendTypeOK, Records, CapacityPositive
<1>4. EveryRecordOnce'
  <2>1. before \in Seq(Nat) /\ Len(before) = Len(written) + Len(queue)
    BY <1>1, ConcatFacts
  <2>2. PICK all \in Seq(Nat) : all = before \o mQueue
    BY <1>1, <2>1, ConcatFacts
  <2>3. Len(all) = Recorded
    BY <1>1, <2>1, <2>2, ConcatFacts DEF Recorded
  <2>4. all = [i \in 1..Recorded |-> i]
    BY <2>2, <2>3 DEF BackendInv, EveryRecordOnce
  <2>5. written' \o queue' \o mQueue' = Append(all, Recorded + 1)
    <3>1. Recorded + 1 \in Nat
      BY <1>2
    <3>2. before \o Append(mQueue, Recorded + 1) = Append(before \o mQueue, Recorded + 1)
      BY <1>1, <2>1, <3>1, ConcatFacts
    <3>3. written' = written /\ queue' = queue
      BY DEF RecordTiming
    <3> QED
      BY <1>2, <2>2, <3>2, <3>3
  <2>6. Append(all, Recorded + 1) = [i \in 1..Len(Append(all, Recorded + 1)) |-> i]
    BY <2>3, <2>4, AppendNext
  <2> QED
    BY <2>5, <2>6 DEF EveryRecordOnce
<1> QED
  BY <1>3, <1>4 DEF BackendInv, BatchWritten, RecordTiming

\* The vectors are exchanged when the consumer's is empty.
LEMMA SwapInv == ASSUME BackendInv, Swap PROVE BackendInv'
<1>1. BackendTypeOK' /\ CapacityPositive' /\ BatchWritten'
  BY DEF Swap, BackendInv, BackendTypeOK, CapacityPositive, BatchWritten
<1>2. queue = <<>> /\ mQueue \in Seq(Nat) /\ written \in Seq(Nat)
  BY DEF Swap, BackendInv, BackendTypeOK, BatchWritten, Records
<1>3. written' \o queue' \o mQueue' = written \o queue \o mQueue
  <2>1. written \o mQueue \in Seq(Nat)
    BY <1>2, ConcatFacts
  <2>2. written \o <<>> = written /\ (written \o mQueue) \o <<>> = written \o mQueue
    BY <1>2, <2>1, ConcatFacts
  <2> QED
    BY <1>2, <2>2 DEF Swap
<1> QED
  BY <1>1, <1>3 DEF BackendInv, EveryRecordOnce

\* The batch moves to the end of the table.
LEMMA CommitInv == ASSUME BackendInv, Commit PROVE BackendInv'
<1>1. queue \in Seq(Nat) /\ written \in Seq(Nat)
  BY DEF BackendInv, BackendTypeOK, Records
<1>2. written' = written \o queue /\ queue' = <<>> /\ mQueue' = mQueue
  BY DEF Commit, Cleared
<1>3. written' \in Seq(Nat)
  BY <1>1, <1>2, ConcatFacts
<1>4. Len(queue') = 0 /\ queue' \in Seq(Nat)
  BY <1>2
<1>5. BackendTypeOK' /\ CapacityPositive' /\ BatchWritten'
  BY <1>2, <1>3, <1>4 DEF Commit, BackendInv, BackendTypeOK, CapacityPositive, BatchWritten, Records
<1>6. written' \o queue' \o mQueue' = written \o queue \o mQueue
  BY <1>1, <1>2, <1>3, ConcatFacts
<1> QED
  BY <1>5, <1>6 DEF BackendInv, EveryRecordOnce

\* The other steps move no record.
LEMMA OtherBackendInv ==
    ASSUME BackendInv,
           \/ \E p \in Producers : NotifyFlush(p)
           \/ CheckRunning \/ FindNothing \/ Block \/ SpuriousWakeup
           \/ StopConsumer \/ NotifyStop \/ Join
           \/ UNCHANGED backendVars
    PROVE  BackendInv'
<1>1. UNCHANGED <<mQueue, mCapacity, queue, capacity, written>>
  BY DEF NotifyFlush, CheckRunning, FindNothing, Block, SpuriousWakeup, StopConsumer,
         NotifyStop, Join, backendVars
<1>2. BackendTypeOK'
  BY DEF BackendInv, BackendTypeOK, NotifyFlush, Notified, CheckRunning, FindNothing, Block,
         SpuriousWakeup, StopConsumer, NotifyStop, Join, backendVars
<1>3. BatchWritten'
  BY <1>1 DEF BackendInv, BatchWritten, NotifyFlush, Notified, CheckRunning, FindNothing, Block,
              SpuriousWakeup, StopConsumer, NotifyStop, Join, backendVars
<1> QED
  BY <1>1, <1>2, <1>3 DEF BackendInv, CapacityPositive, EveryRecordOnce

-----------------------------------------------------------------------------
(* The end of the program.                                                 *)

\* No worker is left in the condition's queue once the main thread has
\* notified it: this is what the mutex around the store to mIsFinished is
\* for (Core::finishSimulation, Core::startThread).
NobodyLeftWaiting ==
    main \in {"join", "exit"} => \A w \in Workers : worker[w] \in {"test", "done"}

\* No worker is between its test and its wait when the notification is sent.
NobodyTested == main # "loop" => mIsFinished /\ \A w \in Workers : worker[w] # "tested"

\* The recorder is alive as long as a fiber may record.
AliveWhileRunning == main # "exit" => destructor = "alive"

ShutdownInv ==
    /\ BackendInv
    /\ TypeOK
    /\ NobodyTested
    /\ NobodyLeftWaiting
    /\ AliveWhileRunning

\* No worker waits at first.
LEMMA InitShutdownInv == Init => ShutdownInv
<1> SUFFICES ASSUME Init PROVE ShutdownInv
  OBVIOUS
<1>1. BackendInv
  BY InitBackendInv DEF Init
<1> QED
  BY <1>1 DEF Init, BackendInit, BackendInv, ShutdownInv, TypeOK, NobodyTested,
              NobodyLeftWaiting, AliveWhileRunning

\* A step that leaves the threads alone, while there is a recorder to use.
LEMMA SameThreads ==
    ASSUME ShutdownInv, BackendInv', UNCHANGED shutdownVars,
           main # "exit" => UNCHANGED destructor
    PROVE  ShutdownInv'
  BY DEF ShutdownInv, BackendInv, TypeOK, NobodyTested, NobodyLeftWaiting,
         AliveWhileRunning, shutdownVars

\* No step breaks the invariant.
LEMMA NextShutdownInv == ShutdownInv /\ [Next]_vars => ShutdownInv'
<1> SUFFICES ASSUME ShutdownInv, [Next]_vars PROVE ShutdownInv'
  OBVIOUS
<1>0. BackendInv /\ BackendTypeOK
  BY DEF ShutdownInv, BackendInv
<1>1. ASSUME NEW p \in Producers, Record(p) PROVE ShutdownInv'
  <2>1. BackendInv'
    BY <1>0, <1>1, RecordTimingInv DEF Record
  <2> QED
    BY <1>1, <2>1, SameThreads DEF Record, RecordTiming
<1>2. ASSUME NEW p \in Producers, Notify(p) PROVE ShutdownInv'
  <2>1. BackendInv'
    BY <1>0, <1>2, OtherBackendInv DEF Notify
  <2> QED
    BY <1>2, <2>1, SameThreads DEF Notify, NotifyFlush
<1>3. CASE Consumer
  <2>1. BackendInv'
    BY <1>0, <1>3, SwapInv, CommitInv, OtherBackendInv DEF Consumer
  <2>2. UNCHANGED destructor
    BY <1>3 DEF Consumer, CheckRunning, Swap, FindNothing, Block, Commit
  <2> QED
    BY <1>3, <2>1, <2>2, SameThreads DEF Consumer
<1>4. CASE Woken
  <2>1. BackendInv'
    BY <1>0, <1>4, OtherBackendInv DEF Woken
  <2> QED
    BY <1>4, <2>1, SameThreads DEF Woken, SpuriousWakeup
<1>5. ASSUME NEW w \in Workers, TestFinished(w) PROVE ShutdownInv'
  <2>1. BackendInv'
    BY <1>0, <1>5, OtherBackendInv DEF TestFinished
  <2> QED
    BY <1>5, <2>1 DEF TestFinished, ShutdownInv, BackendInv, TypeOK, NobodyTested,
                      NobodyLeftWaiting, AliveWhileRunning, backendVars
<1>6. ASSUME NEW w \in Workers, Wait(w) PROVE ShutdownInv'
  <2>1. BackendInv'
    BY <1>0, <1>6, OtherBackendInv DEF Wait
  <2> QED
    BY <1>6, <2>1 DEF Wait, ShutdownInv, BackendInv, TypeOK, NobodyTested,
                      NobodyLeftWaiting, AliveWhileRunning, backendVars
<1>7. CASE SetFinished \/ NotifyAll \/ JoinWorkers
  <2>1. BackendInv'
    BY <1>0, <1>7, OtherBackendInv DEF SetFinished, NotifyAll, JoinWorkers
  <2>2. CASE SetFinished
    BY <2>1, <2>2 DEF SetFinished, FiberMutexFree, ShutdownInv, BackendInv, TypeOK,
                      NobodyTested, NobodyLeftWaiting, AliveWhileRunning, backendVars
  <2>3. CASE NotifyAll
    BY <2>1, <2>3 DEF NotifyAll, ShutdownInv, BackendInv, TypeOK, NobodyTested,
                      NobodyLeftWaiting, AliveWhileRunning, backendVars
  <2>4. CASE JoinWorkers
    BY <2>1, <2>4 DEF JoinWorkers, ShutdownInv, BackendInv, TypeOK, NobodyTested,
                      NobodyLeftWaiting, AliveWhileRunning, backendVars
  <2> QED
    BY <1>7, <2>2, <2>3, <2>4
<1>8. CASE Destroy
  <2>1. BackendInv'
    BY <1>0, <1>8, OtherBackendInv DEF Destroy
  <2> QED
    BY <1>8, <2>1, SameThreads DEF Destroy
<1>9. CASE Destructor
  <2>1. BackendInv'
    BY <1>0, <1>9, OtherBackendInv DEF Destructor
  <2>2. main = "exit"
    BY <1>9 DEF Destructor, NotifyStop, Join, ShutdownInv, AliveWhileRunning
  <2> QED
    BY <1>9, <2>1, <2>2, SameThreads DEF Destructor
<1>10. CASE UNCHANGED vars
  <2>1. BackendInv'
    BY <1>0, <1>10, OtherBackendInv DEF vars
  <2> QED
    BY <1>10, <2>1, SameThreads DEF vars, backendVars
<1> QED
  BY <1>1, <1>2, <1>3, <1>4, <1>5, <1>6, <1>7, <1>8, <1>9, <1>10 DEF Next, Exited

-----------------------------------------------------------------------------
(* The theorems.                                                           *)

\* The timing log loses and doubles nothing, and no worker waits for a
\* notification that was already sent.
THEOREM ShutdownInvariant == Spec => []ShutdownInv
  BY InitShutdownInv, NextShutdownInv, PTL DEF Spec

\* Every variable keeps its type, and no vector of records holds more than
\* its capacity (SqliteBackend, Core).
THEOREM ShutdownTypeCorrect == Spec => []TypeOK
<1>1. ShutdownInv => TypeOK
  BY DEF ShutdownInv
<1> QED
  BY <1>1, ShutdownInvariant, PTL

\* Whatever the fibers, the consumer thread and the destructor do, the table,
\* the batch and the queue hold every record once, in the order the records
\* were made (SqliteBackend::recordTiming, SqliteBackend::runConsumer).
THEOREM RecordsKeptInOrder == Spec => []EveryRecordOnce
<1>1. ShutdownInv => EveryRecordOnce
  BY DEF ShutdownInv, BackendInv
<1> QED
  BY <1>1, ShutdownInvariant, PTL

\* The safety half of WorkersJoined: after the notification every worker has
\* left the wait, so none sleeps through the end of the simulation
\* (Core::finishSimulation, Core::startThread).
THEOREM NoWorkerMissesTheEnd == Spec => []NobodyLeftWaiting
<1>1. ShutdownInv => NobodyLeftWaiting
  BY DEF ShutdownInv
<1> QED
  BY <1>1, ShutdownInvariant, PTL
=============================================================================

-------------------------- MODULE ThreadPoolProofs --------------------------
(* Proofs about ThreadPool for every number of workers and of jobs.        *)
EXTENDS ThreadPool, FiniteSetTheorems, TLAPS

\* The effect on the set of busy workers of moving one worker to a program
\* point that is not busy, or from one that is not to "run" (Task).
LEMMA BusyMoves ==
    ASSUME TypeOK, NEW t \in Workers, NEW l \in WorkerPC, Goto(t, l)
    PROVE  /\ Cardinality(Busy) \in Nat
           /\ pc[t] \in {"run", "count"} => Cardinality(Busy) > 0
           /\ l \in {"run", "count"} <=> pc[t] \in {"run", "count"}
                => Busy' = Busy
           /\ l = "run" /\ pc[t] \notin {"run", "count"}
                => Cardinality(Busy') = Cardinality(Busy) + 1
           /\ l = "notify" /\ pc[t] \in {"run", "count"}
                => Cardinality(Busy') = Cardinality(Busy) - 1
<1>1. IsFiniteSet(Busy) /\ Cardinality(Busy) \in Nat
  BY FS_Subset, FS_CardinalityType, WorkersAssumption, Zenon DEF Busy
<1>2. pc' \in [Workers -> WorkerPC] /\ pc'[t] = l
      /\ \A u \in Workers : u # t => pc'[u] = pc[u]
  BY Zenon DEF Goto, TypeOK
<1>3. pc[t] \in {"run", "count"} => Cardinality(Busy) > 0
  <2>1. pc[t] \in {"run", "count"} => Busy # {}
    BY Zenon DEF Busy
  <2>2. QED  BY <1>1, <2>1, FS_EmptySet
<1>4. (l \in {"run", "count"} <=> pc[t] \in {"run", "count"}) => Busy' = Busy
  BY <1>2, Zenon DEF Busy
<1>5. ASSUME l = "run", pc[t] \notin {"run", "count"}
      PROVE  Cardinality(Busy') = Cardinality(Busy) + 1
  <2>1. Busy' = Busy \cup {t} /\ t \notin Busy
    BY <1>2, <1>5, Zenon DEF Busy
  <2>2. QED  BY <1>1, <2>1, FS_AddElement, Zenon
<1>6. ASSUME l = "notify", pc[t] \in {"run", "count"}
      PROVE  Cardinality(Busy') = Cardinality(Busy) - 1
  <2>1. Busy' = Busy \ {t} /\ t \in Busy
    BY <1>2, <1>6, Zenon DEF Busy
  <2>2. QED  BY <1>1, <2>1, FS_RemoveElement, Zenon
<1>7. QED  BY <1>1, <1>3, <1>4, <1>5, <1>6, Zenon

\* The parts of the invariant that do not count jobs.
Control == TypeOK /\ MutexHeld /\ TakeSafe /\ OwnerCalled

LEMMA ControlStep == IInv /\ [Next]_vars => Control'
<1> SUFFICES ASSUME IInv, [Next]_vars PROVE Control'
  BY Zenon
<1> USE WorkersAssumption, MaxJobsAssumption
    DEF IInv, Control, TypeOK, MutexHeld, TakeSafe, OwnerCalled, WorkerPC,
        OwnerPC, Calls, Jobs
<1>1. ASSUME NEW t \in Workers, TaskWhile(t) PROVE Control'
  BY <1>1, Zenon DEF TaskWhile, Goto
<1>2. ASSUME NEW t \in Workers, NextJobLock(t) PROVE Control'
  BY <1>2, ZenonT(60) DEF NextJobLock, Goto
<1>3. ASSUME NEW t \in Workers, NextJobTest(t) PROVE Control'
  BY <1>3, Zenon DEF NextJobTest, Goto
<1>4. ASSUME NEW t \in Workers, NextJobBlock(t) PROVE Control'
  BY <1>4, Zenon DEF NextJobBlock, Goto
<1>5. ASSUME NEW t \in Workers, SpuriousWakeup(t) PROVE Control'
  BY <1>5, Zenon DEF SpuriousWakeup, Goto
<1>6. ASSUME NEW t \in Workers, NextJobTake(t) PROVE Control'
  <2>1. queue \in Seq(Jobs) /\ holder = t /\ (queue # << >> \/ bailout)
    BY <1>6, Zenon DEF NextJobTake
  <2>2. CASE ~bailout
    <3>1. Head(queue) \in 0..MaxJobs /\ Tail(queue) \in Seq(Jobs)
      BY <2>1, <2>2
    <3>2. QED  BY <1>6, <2>1, <2>2, <3>1, ZenonT(30) DEF NextJobTake, Goto
  <2>3. CASE bailout
    BY <1>6, <2>1, <2>3, SMTT(40) DEF NextJobTake, Goto
  <2>4. QED  BY <2>2, <2>3, SMTT(40)
<1>7. ASSUME NEW t \in Workers, TaskRun(t) PROVE Control'
  <2>1. job[t] \in 0..MaxJobs /\ (job[t] # 0 => job[t] \in Jobs)
    OBVIOUS
  <2>2. done' \subseteq Jobs
    BY <1>7, <2>1, Zenon DEF TaskRun
  <2>3. QED  BY <1>7, <2>2, Zenon DEF TaskRun, Goto
<1>8. ASSUME NEW t \in Workers, TaskCount(t) PROVE Control'
  <2>1. Cardinality(Busy) \in Nat /\ Cardinality(Busy) > 0
    BY <1>8, BusyMoves, Zenon DEF TaskCount
  <2>2. jobs_left - 1 \in Nat
    BY <2>1 DEF JobsLeftExact
  <2>3. QED  BY <1>8, <2>2, Zenon DEF TaskCount, Goto
<1>9. ASSUME NEW t \in Workers, TaskNotify(t) PROVE Control'
  BY <1>9, Zenon DEF TaskNotify, Goto
<1>10. CASE WaitAllCheck
  BY <1>10, Zenon DEF WaitAllCheck, OwnerStep, AfterWait
<1>11. CASE WaitAllTest
  BY <1>11, Zenon DEF WaitAllTest, OwnerStep, AfterWait
<1>12. CASE WaitAllBlock
  BY <1>12, Zenon DEF WaitAllBlock, OwnerStep
<1>13. CASE SpuriousOwnerWakeup
  BY <1>13, Zenon DEF SpuriousOwnerWakeup, OwnerStep
<1>14. CASE JoinAllBail
  BY <1>14, Zenon DEF JoinAllBail, OwnerStep
<1>15. CASE JoinAllNotify
  BY <1>15, Zenon DEF JoinAllNotify, OwnerStep
<1>16. CASE JoinAllJoin
  BY <1>16, Zenon DEF JoinAllJoin, OwnerStep
<1>17. CASE AddJob
  BY <1>17, SMTT(30) DEF AddJob, NotifyOneWorker, Goto
<1>18. ASSUME NEW c \in Calls \ {"none"}, Call(c) PROVE Control'
  BY <1>18, Zenon DEF Call, OwnerStep
<1>19. CASE UNCHANGED vars
  BY <1>19, Zenon DEF vars
<1>20. Next \/ UNCHANGED vars
  BY Zenon
<1>21. CASE Next
  <2>1. ASSUME NEW t \in Workers, WorkerStep(t) \/ SpuriousWakeup(t)
        PROVE  Control'
    BY <2>1, <1>1, <1>2, <1>3, <1>4, <1>5, <1>6, <1>7, <1>8, <1>9, Zenon
       DEF WorkerStep
  <2>2. CASE OwnerNext \/ SpuriousOwnerWakeup
    BY <2>2, <1>10, <1>11, <1>12, <1>13, <1>14, <1>15, <1>16, Zenon
       DEF OwnerNext
  <2>3. QED
    BY <1>17, <1>18, <1>19, <1>21, <2>1, <2>2, Zenon DEF Next, Over
<1>22. QED  BY <1>19, <1>20, <1>21, Zenon

\* Every step keeps jobs_left equal to the queued and the running jobs.
LEMMA CountStep == IInv /\ [Next]_vars => JobsLeftExact'
<1> SUFFICES ASSUME IInv, [Next]_vars PROVE JobsLeftExact'
  BY Zenon
<1>1. TypeOK /\ JobsLeftExact /\ TakeSafe /\ Len(queue) \in Nat
  BY DEF IInv, TypeOK
<1>2. ASSUME NEW t \in Workers, WorkerStep(t) \/ SpuriousWakeup(t)
      PROVE  JobsLeftExact'
  <2>1. ASSUME NEW l \in WorkerPC, Goto(t, l), UNCHANGED <<queue, jobs_left>>,
               pc[t] \in {"run", "count"} <=> l \in {"run", "count"}
        PROVE  JobsLeftExact'
    <3>1. Busy' = Busy
      BY <1>1, <2>1, BusyMoves, Zenon
    <3>2. QED  BY <1>1, <2>1, <3>1, Zenon DEF JobsLeftExact
  <2>2. CASE TaskWhile(t)
    BY <2>1, <2>2, Zenon DEF TaskWhile, WorkerPC
  <2>3. CASE NextJobLock(t)
    BY <2>1, <2>3, Zenon DEF NextJobLock, WorkerPC
  <2>4. CASE NextJobTest(t)
    BY <2>1, <2>4, Zenon DEF NextJobTest, WorkerPC
  <2>5. CASE NextJobBlock(t)
    BY <2>1, <2>5, Zenon DEF NextJobBlock, WorkerPC
  <2>6. CASE SpuriousWakeup(t)
    BY <2>1, <2>6, Zenon DEF SpuriousWakeup, WorkerPC
  <2>7. CASE NextJobTake(t)
    <3>1. Cardinality(Busy) \in Nat
          /\ Cardinality(Busy') = Cardinality(Busy) + 1
      BY <1>1, <2>7, BusyMoves, Zenon DEF NextJobTake, WorkerPC
    <3>2. CASE bailout
      BY <1>1, <2>7, <3>1, <3>2 DEF NextJobTake, JobsLeftExact, TypeOK
    <3>3. CASE ~bailout
      <4>1. queue \in Seq(Jobs) /\ queue # << >> /\ queue' = Tail(queue)
        BY <1>1, <2>7, <3>3, Zenon DEF NextJobTake, TypeOK, TakeSafe
      <4>2. Len(queue') = Len(queue) - 1
        BY <4>1
      <4>3. QED
        BY <1>1, <2>7, <3>1, <3>3, <4>2 DEF NextJobTake, JobsLeftExact, TypeOK
    <3>4. QED  BY <3>2, <3>3, Zenon
  <2>8. CASE TaskRun(t)
    BY <2>1, <2>8, Zenon DEF TaskRun, WorkerPC
  <2>9. CASE TaskCount(t)
    <3>1. Cardinality(Busy) \in Nat
          /\ Cardinality(Busy') = Cardinality(Busy) - 1
      BY <1>1, <2>9, BusyMoves, Zenon DEF TaskCount, WorkerPC
    <3>2. QED  BY <1>1, <2>9, <3>1 DEF TaskCount, JobsLeftExact, TypeOK
  <2>10. CASE TaskNotify(t)
    BY <2>1, <2>10, Zenon DEF TaskNotify, WorkerPC
  <2>11. QED
    BY <1>2, <2>2, <2>3, <2>4, <2>5, <2>6, <2>7, <2>8, <2>9, <2>10, Zenon
       DEF WorkerStep
<1>3. CASE AddJob
  <2>1. Busy' = Busy
    <3>1. CASE UNCHANGED pc
      BY <3>1, Zenon DEF Busy
    <3>2. ASSUME NEW t \in Workers, pc[t] = "waiting", Goto(t, "lock")
          PROVE  Busy' = Busy
      BY <1>1, <3>2, BusyMoves, Zenon DEF WorkerPC
    <3>3. QED  BY <1>3, <3>1, <3>2, Zenon DEF AddJob, NotifyOneWorker
  <2>2. Len(queue') = Len(queue) + 1
    BY <1>1, <1>3 DEF AddJob, TypeOK
  <2>3. IsFiniteSet(Busy) /\ Cardinality(Busy) \in Nat
    BY FS_Subset, FS_CardinalityType, WorkersAssumption, Zenon DEF Busy
  <2>4. QED  BY <1>1, <1>3, <2>1, <2>2, <2>3 DEF AddJob, JobsLeftExact, TypeOK
<1>4. ASSUME UNCHANGED <<queue, jobs_left, pc>> PROVE JobsLeftExact'
  BY <1>1, <1>4, Zenon DEF JobsLeftExact, Busy
<1>5. CASE JoinAllNotify
  <2>1. Busy' = Busy
    BY <1>1, <1>5, Zenon DEF JoinAllNotify, Busy, TypeOK
  <2>2. QED  BY <1>1, <1>5, <2>1, Zenon DEF JoinAllNotify, OwnerStep, JobsLeftExact
<1>6. ASSUME OwnerNext \/ SpuriousOwnerWakeup, ~JoinAllNotify
      PROVE  JobsLeftExact'
  BY <1>4, <1>6, Zenon DEF OwnerNext, WaitAllCheck, WaitAllTest, WaitAllBlock,
     SpuriousOwnerWakeup, JoinAllBail, JoinAllJoin, OwnerStep
<1>7. ASSUME NEW c \in Calls, Call(c) PROVE JobsLeftExact'
  BY <1>4, <1>7, Zenon DEF Call, OwnerStep
<1>8. CASE UNCHANGED vars
  BY <1>4, <1>8, Zenon DEF vars
<1>9. QED
  BY <1>2, <1>3, <1>5, <1>6, <1>7, <1>8, Zenon DEF Next, Over

\* No step loses an accepted job: it stays queued, running or done.
LEMMA AccountedStep == IInv /\ [Next]_vars => JobsAccounted'
<1> SUFFICES ASSUME IInv, [Next]_vars PROVE JobsAccounted'
  BY Zenon
<1>1. TypeOK /\ TakeSafe /\ JobsAccounted /\ Len(queue) \in Nat
      /\ added \in Nat
  BY MaxJobsAssumption DEF IInv, TypeOK
<1>2. ASSUME NEW t \in Workers, NEW l \in WorkerPC, Goto(t, l),
             UNCHANGED <<queue, job, added, done>>,
             pc[t] # "run", l # "run"
      PROVE  JobsAccounted'
  BY <1>1, <1>2, SMTT(40) DEF JobsAccounted, Goto, TypeOK
<1>3. ASSUME NEW t \in Workers, NextJobTake(t) PROVE JobsAccounted'
  <2>1. pc'[t] = "run" /\ job' = [job EXCEPT ![t] = job'[t]]
        /\ UNCHANGED <<added, done>>
        /\ \A u \in Workers : u # t => pc'[u] = pc[u] /\ job'[u] = job[u]
    BY <1>1, <1>3, Zenon DEF NextJobTake, Goto, TypeOK
  <2>2. CASE bailout
    <3>1. queue' = queue /\ job'[t] = 0 /\ pc[t] # "run"
      BY <1>1, <1>3, <2>2, Zenon DEF NextJobTake, TypeOK
    <3>2. \A j \in 1..added :
            (\E u \in Workers : pc[u] = "run" /\ job[u] = j)
              => \E u \in Workers : pc'[u] = "run" /\ job'[u] = j
      BY <2>1, <3>1, Zenon
    <3>3. \A u \in Workers : job'[u] \in 0..added
      BY <1>1, <2>1, <3>1 DEF JobsAccounted
    <3>4. QED  BY <1>1, <2>1, <3>1, <3>2, <3>3, Zenon DEF JobsAccounted
  <2>3. CASE ~bailout
    <3>1. /\ queue \in Seq(Jobs) /\ queue # << >>
          /\ queue' = Tail(queue) /\ job'[t] = Head(queue)
      BY <1>1, <1>3, <2>3, Zenon DEF NextJobTake, TypeOK, TakeSafe
    <3>2. /\ Len(queue') = Len(queue) - 1 /\ job'[t] = queue[1]
          /\ Len(queue) > 0
          /\ \A i \in 1..Len(queue') : queue'[i] = queue[i + 1]
      BY <3>1
    <3>3. \A i \in 1..Len(queue) :
            i = 1 \/ (i - 1 \in 1..Len(queue') /\ queue'[i - 1] = queue[i])
      BY <1>1, <3>2
    <3>4. ASSUME NEW j \in 1..added'
          PROVE  \/ \E i \in 1..Len(queue') : queue'[i] = j
                 \/ \E u \in Workers : pc'[u] = "run" /\ job'[u] = j
                 \/ j \in done'
      <4>1. CASE \E i \in 1..Len(queue) : queue[i] = j
        BY <2>1, <3>2, <3>3, <4>1
      <4>2. CASE \E u \in Workers : pc[u] = "run" /\ job[u] = j
        BY <1>3, <2>1, <4>2, Zenon DEF NextJobTake
      <4>3. QED  BY <1>1, <2>1, <4>1, <4>2, Zenon DEF JobsAccounted
    <3>5. \A i \in 1..Len(queue') : queue'[i] \in 1..added'
      BY <1>1, <2>1, <3>2 DEF JobsAccounted
    <3>6. \A u \in Workers : job'[u] \in 0..added'
      BY <1>1, <2>1, <3>2 DEF JobsAccounted
    <3>7. QED  BY <1>1, <2>1, <3>4, <3>5, <3>6, Zenon DEF JobsAccounted
  <2>4. QED  BY <2>2, <2>3, Zenon
<1>4. ASSUME NEW t \in Workers, TaskRun(t) PROVE JobsAccounted'
  <2>1. /\ UNCHANGED <<queue, job, added>>
        /\ done' = done \cup ({job[t]} \ {0})
        /\ \A u \in Workers : u # t => pc'[u] = pc[u]
    BY <1>1, <1>4, Zenon DEF TaskRun, Goto, TypeOK
  <2>2. job[t] \in 0..added /\ (job[t] # 0 => job[t] \in 1..added)
    BY <1>1 DEF JobsAccounted
  <2>3. done' \subseteq 1..added
    BY <1>1, <2>1, <2>2, Zenon DEF JobsAccounted
  <2>4. ASSUME NEW j \in 1..added, NEW u \in Workers,
               pc[u] = "run", job[u] = j
        PROVE  j \in done' \/ (pc'[u] = "run" /\ job'[u] = j)
    BY <2>1, <2>4
  <2>5. QED  BY <1>1, <2>1, <2>3, <2>4, Zenon DEF JobsAccounted
<1>5. CASE AddJob
  <2>1. /\ queue' = Append(queue, added + 1) /\ queue \in Seq(Jobs)
        /\ added' = added + 1 /\ UNCHANGED <<job, done>>
    BY <1>1, <1>5, Zenon DEF AddJob, TypeOK
  <2>2. /\ Len(queue') = Len(queue) + 1 /\ queue'[Len(queue')] = added + 1
        /\ \A i \in 1..Len(queue) : queue'[i] = queue[i]
    BY <2>1
  <2>3. \A t \in Workers : pc[t] = "run" => pc'[t] = "run"
    BY <1>1, <1>5, Zenon DEF AddJob, NotifyOneWorker, Goto, TypeOK
  <2>4. ASSUME NEW j \in 1..added'
        PROVE  \/ \E i \in 1..Len(queue') : queue'[i] = j
               \/ \E u \in Workers : pc'[u] = "run" /\ job'[u] = j
               \/ j \in done'
    <3>1. CASE j = added + 1  BY <2>1, <2>2, <3>1
    <3>2. CASE j \in 1..added
      <4>1. CASE \E i \in 1..Len(queue) : queue[i] = j  BY <2>1, <2>2, <4>1
      <4>2. CASE \E u \in Workers : pc[u] = "run" /\ job[u] = j  BY <2>1, <2>3, <4>2, Zenon
      <4>3. QED  BY <1>1, <2>1, <3>2, <4>1, <4>2, SMTT(30) DEF JobsAccounted
    <3>3. QED  BY <1>1, <2>1, <3>1, <3>2 DEF TypeOK
  <2>5. \A i \in 1..Len(queue') : queue'[i] \in 1..added'
    BY <1>1, <2>1, <2>2 DEF JobsAccounted, TypeOK
  <2>6. (\A t \in Workers : job'[t] \in 0..added') /\ done' \subseteq 1..added'
    BY <1>1, <2>1 DEF JobsAccounted, TypeOK
  <2>7. QED  BY <2>4, <2>5, <2>6, Zenon DEF JobsAccounted
<1>6. ASSUME UNCHANGED <<queue, job, added, done>>,
             \A t \in Workers : pc'[t] = "run" <=> pc[t] = "run"
      PROVE  JobsAccounted'
  BY <1>1, <1>6, Zenon DEF JobsAccounted
<1>7. ASSUME NEW t \in Workers, WorkerStep(t) \/ SpuriousWakeup(t)
      PROVE  JobsAccounted'
  BY <1>2, <1>3, <1>4, <1>7, Zenon DEF WorkerStep, WorkerPC, TaskWhile, NextJobLock,
     NextJobTest, NextJobBlock, SpuriousWakeup, TaskCount, TaskNotify
<1>8. CASE OwnerNext \/ SpuriousOwnerWakeup
  BY <1>1, <1>6, <1>8, Zenon DEF OwnerNext, WaitAllCheck, WaitAllTest, WaitAllBlock,
     SpuriousOwnerWakeup, JoinAllBail, JoinAllNotify, JoinAllJoin, OwnerStep,
     TypeOK
<1>9. ASSUME NEW c \in Calls, Call(c) PROVE JobsAccounted'
  BY <1>6, <1>9, Zenon DEF Call, OwnerStep
<1>10. CASE UNCHANGED vars
  BY <1>6, <1>10, Zenon DEF vars
<1>11. QED  BY <1>5, <1>7, <1>8, <1>9, <1>10, Zenon DEF Next, Over

\* WaitAll lets JoinAll(true) go on only when jobs_left is 0, and then the
\* accounting leaves no accepted job but the ones that are done.
LEMMA DropsNothingStep ==
    IInv /\ [Next]_vars /\ JobsAccounted' => JoinAllDropsNothing'
<1> SUFFICES ASSUME IInv, [Next]_vars, JobsAccounted',
                    call' = "JoinAll",
                    owner' \in {"bail", "notifyAll", "join", "returned"}
             PROVE  queue' = << >> /\ done' = 1..added'
  BY Zenon DEF JoinAllDropsNothing
<1>1. /\ TypeOK /\ JobsLeftExact /\ JobsAccounted /\ JoinAllDropsNothing
      /\ OwnerCalled /\ TakeSafe /\ Len(queue) \in Nat
  BY DEF IInv, TypeOK
<1>2. CASE jobs_left = 0 /\ UNCHANGED <<queue, added, done>>
  <2>1. IsFiniteSet(Busy) /\ Cardinality(Busy) \in Nat
    BY FS_Subset, FS_CardinalityType, WorkersAssumption, Zenon DEF Busy
  <2>2. Len(queue) = 0 /\ Busy = {}
    BY <1>1, <1>2, <2>1, FS_EmptySet DEF JobsLeftExact
  <2>3. queue = << >> /\ \A t \in Workers : pc[t] # "run"
    BY <1>1, <2>2 DEF Busy, TypeOK
  <2>4. 1..Len(queue) = {}
    BY <2>2
  <2>5. \A j \in 1..added : j \in done
    BY <1>1, <2>3, <2>4, Zenon DEF JobsAccounted
  <2>6. done = 1..added
    BY <1>1, <2>5, Zenon DEF JobsAccounted
  <2>7. QED  BY <1>2, <2>3, <2>6, Zenon
<1>3. ASSUME call = "JoinAll",
             owner \in {"bail", "notifyAll", "join", "returned"}
      PROVE  queue' = << >> /\ done' = 1..added'
  <2>1. queue = << >> /\ done = 1..added /\ call \notin {"none", "WaitAll"}
    BY <1>1, <1>3, Zenon DEF JoinAllDropsNothing
  <2>2. ASSUME NEW t \in Workers, WorkerStep(t) \/ SpuriousWakeup(t)
        PROVE  queue' = queue /\ added' = added /\ done \subseteq done'
    BY <1>1, <2>1, <2>2, Zenon DEF WorkerStep, TaskWhile, NextJobLock, NextJobTest,
       NextJobBlock, NextJobTake, TaskRun, TaskCount, TaskNotify,
       SpuriousWakeup, TakeSafe
  <2>3. CASE OwnerNext \/ SpuriousOwnerWakeup \/ UNCHANGED vars
    BY <2>1, <2>3, Zenon DEF OwnerNext, WaitAllCheck, WaitAllTest, WaitAllBlock,
       SpuriousOwnerWakeup, JoinAllBail, JoinAllNotify, JoinAllJoin,
       OwnerStep, vars
  <2>4. ~AddJob /\ \A c \in Calls : ~Call(c)
    BY <1>3, <2>1, Zenon DEF AddJob, Call, OwnerStep
  <2>5. done' \subseteq 1..added'
    BY Zenon DEF JobsAccounted
  <2>6. QED  BY <2>1, <2>2, <2>3, <2>4, <2>5, Zenon DEF Next, Over
<1>4. ASSUME ~(call = "JoinAll"
               /\ owner \in {"bail", "notifyAll", "join", "returned"})
      PROVE  jobs_left = 0 /\ UNCHANGED <<queue, added, done>>
  <2>1. ASSUME NEW t \in Workers, WorkerStep(t) \/ SpuriousWakeup(t)
        PROVE  FALSE
    BY <1>4, <2>1, Zenon DEF WorkerStep, TaskWhile, NextJobLock, NextJobTest,
       NextJobBlock, NextJobTake, TaskRun, TaskCount, TaskNotify,
       SpuriousWakeup
  <2>2. ~AddJob /\ ~UNCHANGED vars
    BY <1>4, Zenon DEF AddJob, vars
  <2>3. \A c \in Calls \ {"none"} : ~Call(c)
    BY Zenon DEF Call, OwnerStep
  <2>4. CASE OwnerNext \/ SpuriousOwnerWakeup
    BY <1>1, <1>4, <2>4 DEF OwnerNext, WaitAllCheck, WaitAllTest,
       WaitAllBlock, SpuriousOwnerWakeup, JoinAllBail, JoinAllNotify,
       JoinAllJoin, OwnerStep, AfterWait, TypeOK, OwnerCalled
  <2>5. QED  BY <2>1, <2>2, <2>3, <2>4, Zenon DEF Next, Over
<1>5. QED  BY <1>2, <1>3, <1>4, Zenon

\* The inductive invariant of the pool.
THEOREM Inductive == Spec => []IInv
<1>1. Init => IInv
  <2> SUFFICES ASSUME Init PROVE IInv
    BY Zenon
  <2>1. TypeOK
    <3>1. << >> \in Seq(Jobs) /\ 0 \in 0..MaxJobs
      BY MaxJobsAssumption
    <3>2. QED  BY <3>1, Zenon DEF Init, TypeOK, WorkerPC, OwnerPC, Calls
  <2>2. JobsLeftExact
    <3>1. Busy = {} /\ Len(queue) = 0
      BY Zenon DEF Init, Busy
    <3>2. QED  BY <3>1, FS_EmptySet DEF Init, JobsLeftExact
  <2>3. MutexHeld /\ TakeSafe /\ OwnerCalled /\ JobsAccounted
        /\ JoinAllDropsNothing
    BY WorkersAssumption DEF Init, MutexHeld, TakeSafe, OwnerCalled,
       JobsAccounted, JoinAllDropsNothing
  <2>4. QED  BY <2>1, <2>2, <2>3, Zenon DEF IInv
<1>2. IInv /\ [Next]_vars => IInv'
  BY ControlStep, CountStep, AccountedStep, DropsNothingStep, Zenon DEF IInv, Control
<1>3. QED  BY <1>1, <1>2, PTL DEF Spec

\* jobs_left is exact in every reachable state, for any number of workers and
\* of jobs: what WaitAll waits for is that nothing is queued or running.
THEOREM CounterExact == Spec => []JobsLeftExact
<1>1. IInv => JobsLeftExact
  BY Zenon DEF IInv
<1>2. QED  BY <1>1, Inductive, PTL

\* Destroying the pool drops no accepted job: every job has been run when the
\* destructor's JoinAll(true) tells the workers to bail out.
THEOREM ShutdownDropsNothing == Spec => []JoinAllDropsNothing
<1>1. IInv => JoinAllDropsNothing
  BY Zenon DEF IInv
<1>2. QED  BY <1>1, Inductive, PTL
=============================================================================

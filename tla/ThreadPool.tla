----------------------------- MODULE ThreadPool -----------------------------
(***************************************************************************)
(* The worker pool of the cloudland daemon (src/src/threadpool.hpp).       *)
(* FrontBack::ExecuteAsync queues one job per callback to the web tier.    *)
(* Every worker runs Task(): it takes a job under queue_mutex, runs it,    *)
(* decrements jobs_left and notifies wait_var.  One owner thread calls     *)
(* WaitAll or JoinAll (the destructor calls JoinAll(true)).                *)
(*                                                                         *)
(* A condition variable is modelled by the threads blocked on it.  The     *)
(* test of the predicate and the blocking are two steps: wait() releases   *)
(* the mutex atomically with blocking, but neither bailout nor jobs_left   *)
(* is written under the mutex the waiter holds.                            *)
(***************************************************************************)
EXTENDS Naturals, Sequences, FiniteSets

CONSTANTS Workers,   \* the threads of the pool (ThreadCount of them)
          MaxJobs    \* bound: number of AddJob calls

ASSUME WorkersAssumption == IsFiniteSet(Workers) /\ Workers # {} /\ "free" \notin Workers
ASSUME MaxJobsAssumption == MaxJobs \in Nat

VARIABLES queue,      \* queued jobs, numbered in the order of AddJob
          jobs_left,  \* atomic counter of queued and running jobs
          bailout,    \* set by JoinAll
          finished,   \* JoinAll has joined every thread
          holder,     \* owner of queue_mutex, or "free"
          pc,         \* where each worker is in Task/next_job
          job,        \* job a worker took, 0 is the injected empty job
          added,      \* number of AddJob calls so far
          done,       \* jobs that were run
          owner,      \* where the owner thread is in WaitAll/JoinAll
          call        \* the call the owner thread made

vars == <<queue, jobs_left, bailout, finished, holder, pc, job, added, done,
          owner, call>>

Calls == {"none", "WaitAll", "JoinAll", "JoinNow"}
WorkerPC == {"while", "lock", "test", "block", "waiting", "take", "run",
             "count", "notify", "exit"}
OwnerPC == {"idle", "check", "test", "block", "waiting", "bail", "notifyAll",
            "join", "returned"}
Jobs == 1..MaxJobs

Init ==
    /\ queue = << >> /\ jobs_left = 0 /\ bailout = FALSE /\ finished = FALSE
    /\ holder = "free"
    /\ pc = [t \in Workers |-> "while"]
    /\ job = [t \in Workers |-> 0]
    /\ added = 0 /\ done = {}
    /\ owner = "idle" /\ call = "none"

Goto(t, l) == pc' = [pc EXCEPT ![t] = l]

\* notify_one on job_available_var: some blocked worker, if there is one.
NotifyOneWorker ==
    IF \E t \in Workers : pc[t] = "waiting"
    THEN \E t \in Workers : pc[t] = "waiting" /\ Goto(t, "lock")
    ELSE UNCHANGED pc

-----------------------------------------------------------------------------
(* The pool's users.  The pool must not be used once JoinAll was called.   *)

\* Mutant of AddJob: the job is queued and nobody is notified.
AddJobQuiet ==
    /\ call \in {"none", "WaitAll"} /\ added < MaxJobs
    /\ holder = "free"
    /\ queue' = Append(queue, added + 1)
    /\ added' = added + 1
    /\ jobs_left' = jobs_left + 1
    /\ UNCHANGED <<pc, bailout, finished, holder, job, done, owner, call>>

AddJob ==
    /\ call \in {"none", "WaitAll"} /\ added < MaxJobs
    /\ holder = "free"
    /\ queue' = Append(queue, added + 1)
    /\ added' = added + 1
    /\ jobs_left' = jobs_left + 1
    /\ NotifyOneWorker
    /\ UNCHANGED <<bailout, finished, holder, job, done, owner, call>>

-----------------------------------------------------------------------------
(* A worker: Task and next_job.                                            *)

TaskWhile(t) ==
    /\ pc[t] = "while"
    /\ Goto(t, IF bailout THEN "exit" ELSE "lock")
    /\ UNCHANGED <<queue, jobs_left, bailout, finished, holder, job, added,
                   done, owner, call>>

NextJobLock(t) ==
    /\ pc[t] = "lock" /\ holder = "free"
    /\ holder' = t
    /\ Goto(t, "test")
    /\ UNCHANGED <<queue, jobs_left, bailout, finished, job, added, done,
                   owner, call>>

NextJobTest(t) ==
    /\ pc[t] = "test"
    /\ Goto(t, IF queue # << >> \/ bailout THEN "take" ELSE "block")
    /\ UNCHANGED <<queue, jobs_left, bailout, finished, holder, job, added,
                   done, owner, call>>

NextJobBlock(t) ==
    /\ pc[t] = "block"
    /\ holder' = "free"
    /\ Goto(t, "waiting")
    /\ UNCHANGED <<queue, jobs_left, bailout, finished, job, added, done,
                   owner, call>>

\* A condition variable may wake a waiter without a notification.
SpuriousWakeup(t) ==
    /\ pc[t] = "waiting"
    /\ Goto(t, "lock")
    /\ UNCHANGED <<queue, jobs_left, bailout, finished, holder, job, added,
                   done, owner, call>>

\* Mutant of NextJobTake: the injected empty job is not counted.
NextJobTakeUncounted(t) ==
    /\ pc[t] = "take"
    /\ IF bailout
       THEN job' = [job EXCEPT ![t] = 0] /\ UNCHANGED queue
       ELSE job' = [job EXCEPT ![t] = Head(queue)] /\ queue' = Tail(queue)
    /\ holder' = "free"
    /\ Goto(t, "run")
    /\ UNCHANGED <<jobs_left, bailout, finished, added, done, owner, call>>

NextJobTake(t) ==
    /\ pc[t] = "take"
    /\ \/ /\ ~bailout
          /\ job' = [job EXCEPT ![t] = Head(queue)]
          /\ queue' = Tail(queue)
          /\ UNCHANGED jobs_left
       \/ /\ bailout
          /\ job' = [job EXCEPT ![t] = 0]
          /\ jobs_left' = jobs_left + 1
          /\ UNCHANGED queue
    /\ holder' = "free"
    /\ Goto(t, "run")
    /\ UNCHANGED <<bailout, finished, added, done, owner, call>>

TaskRun(t) ==
    /\ pc[t] = "run"
    /\ done' = done \cup ({job[t]} \ {0})
    /\ Goto(t, "count")
    /\ UNCHANGED <<queue, jobs_left, bailout, finished, holder, job, added,
                   owner, call>>

\* Mutant of TaskCount: the job is counted down twice.
TaskCountTwice(t) ==
    /\ pc[t] = "count"
    /\ jobs_left' = jobs_left - 2
    /\ Goto(t, "notify")
    /\ UNCHANGED <<queue, bailout, finished, holder, job, added, done, owner,
                   call>>

TaskCount(t) ==
    /\ pc[t] = "count"
    /\ jobs_left' = jobs_left - 1
    /\ Goto(t, "notify")
    /\ UNCHANGED <<queue, bailout, finished, holder, job, added, done, owner,
                   call>>

\* notify_one on wait_var reaches the owner only when it is blocked.
TaskNotify(t) ==
    /\ pc[t] = "notify"
    /\ owner' = IF owner = "waiting" THEN "test" ELSE owner
    /\ Goto(t, "while")
    /\ UNCHANGED <<queue, jobs_left, bailout, finished, holder, job, added,
                   done, call>>

-----------------------------------------------------------------------------
(* The owner thread: WaitAll and JoinAll(WaitForAll).                      *)

OwnerStep(from, to) ==
    /\ owner = from /\ owner' = to
    /\ UNCHANGED <<queue, jobs_left, holder, job, added, done>>

Call(c) ==
    /\ ~finished
    /\ OwnerStep("idle", IF c = "JoinNow" THEN "bail" ELSE "check")
    /\ call' = c
    /\ UNCHANGED <<bailout, finished, pc>>

\* Where WaitAll returns to: its caller, or the rest of JoinAll.
AfterWait == IF call = "WaitAll" THEN "idle" ELSE "bail"

WaitAllCheck ==
    /\ OwnerStep("check", IF jobs_left > 0 THEN "test" ELSE AfterWait)
    /\ call' = IF owner' = "idle" THEN "none" ELSE call
    /\ UNCHANGED <<bailout, finished, pc>>

\* Mutant of WaitAllTest: WaitAll waits for an empty queue, not for jobs_left.
WaitAllTestQueue ==
    /\ OwnerStep("test", IF queue = << >> THEN AfterWait ELSE "block")
    /\ call' = IF owner' = "idle" THEN "none" ELSE call
    /\ UNCHANGED <<bailout, finished, pc>>

WaitAllTest ==
    /\ OwnerStep("test", IF jobs_left = 0 THEN AfterWait ELSE "block")
    /\ call' = IF owner' = "idle" THEN "none" ELSE call
    /\ UNCHANGED <<bailout, finished, pc>>

WaitAllBlock ==
    /\ OwnerStep("block", "waiting")
    /\ UNCHANGED <<call, bailout, finished, pc>>

SpuriousOwnerWakeup ==
    /\ OwnerStep("waiting", "test")
    /\ UNCHANGED <<call, bailout, finished, pc>>

JoinAllBail ==
    /\ OwnerStep("bail", "notifyAll")
    /\ bailout' = TRUE
    /\ UNCHANGED <<call, finished, pc>>

JoinAllNotify ==
    /\ OwnerStep("notifyAll", "join")
    /\ pc' = [t \in Workers |-> IF pc[t] = "waiting" THEN "lock" ELSE pc[t]]
    /\ UNCHANGED <<call, bailout, finished>>

JoinAllJoin ==
    /\ \A t \in Workers : pc[t] = "exit"
    /\ OwnerStep("join", "returned")
    /\ finished' = TRUE
    /\ UNCHANGED <<call, bailout, pc>>

-----------------------------------------------------------------------------
WorkerStep(t) ==
    \/ TaskWhile(t) \/ NextJobLock(t) \/ NextJobTest(t) \/ NextJobBlock(t)
    \/ NextJobTake(t) \/ TaskRun(t) \/ TaskCount(t) \/ TaskNotify(t)

OwnerNext ==
    \/ WaitAllCheck \/ WaitAllTest \/ WaitAllBlock
    \/ JoinAllBail \/ JoinAllNotify \/ JoinAllJoin

\* The pool is over once JoinAll has returned.
Over == finished /\ UNCHANGED vars

Next ==
    \/ AddJob
    \/ \E t \in Workers : WorkerStep(t) \/ SpuriousWakeup(t)
    \/ \E c \in Calls \ {"none"} : Call(c)
    \/ OwnerNext \/ SpuriousOwnerWakeup
    \/ Over

Spec == Init /\ [][Next]_vars

\* Threads that can run do run; nobody is promised a spurious wakeup and
\* nobody is obliged to call AddJob, WaitAll or JoinAll.
FairSpec == Spec /\ (\A t \in Workers : WF_vars(WorkerStep(t)))
                 /\ WF_vars(OwnerNext)

-----------------------------------------------------------------------------
(* Properties.                                                             *)

TypeOK ==
    /\ queue \in Seq(Jobs)
    /\ jobs_left \in Nat
    /\ bailout \in BOOLEAN /\ finished \in BOOLEAN
    /\ holder \in Workers \cup {"free"}
    /\ pc \in [Workers -> WorkerPC]
    /\ job \in [Workers -> 0..MaxJobs]
    /\ added \in 0..MaxJobs /\ done \subseteq Jobs
    /\ owner \in OwnerPC /\ call \in Calls

\* The workers between taking a job and decrementing jobs_left.
Busy == {t \in Workers : pc[t] \in {"run", "count"}}

\* jobs_left counts exactly the queued jobs and the jobs being run, also while
\* the threads bail out: the injected empty jobs "keep jobs_left accurate"
\* (next_job), so WaitAll never returns early and never waits for nothing.
JobsLeftExact == jobs_left = Len(queue) + Cardinality(Busy)

\* Once JoinAll(true), the call the destructor makes, gives up waiting, every
\* job that was ever accepted has been run: no callback to the web tier is
\* dropped by a shutdown.
JoinAllDropsNothing ==
    call = "JoinAll" /\ owner \in {"bail", "notifyAll", "join", "returned"}
        => queue = << >> /\ done = 1..added

\* Strengthening of the two invariants above: next_job works under queue_mutex,
\* a worker that is to take a job has a job or is bailing out, the calls of the
\* owner thread are where they say they are, and no accepted job is lost.
MutexHeld ==
    \A t \in Workers : pc[t] \in {"test", "block", "take"} <=> holder = t
TakeSafe == \A t \in Workers : pc[t] = "take" => queue # << >> \/ bailout
OwnerCalled ==
    /\ owner = "idle" => call = "none"
    /\ owner \in {"check", "test", "block", "waiting"}
            => call \in {"WaitAll", "JoinAll"}
    /\ owner \in {"bail", "notifyAll", "join", "returned"}
            => call \in {"JoinAll", "JoinNow"}
    /\ bailout => owner \in {"notifyAll", "join", "returned"}
JobsAccounted ==
    /\ \A j \in 1..added :
         \/ \E i \in 1..Len(queue) : queue[i] = j
         \/ \E t \in Workers : pc[t] = "run" /\ job[t] = j
         \/ j \in done
    /\ \A i \in 1..Len(queue) : queue[i] \in 1..added
    /\ \A t \in Workers : job[t] \in 0..added
    /\ done \subseteq 1..added
IInv == /\ TypeOK /\ MutexHeld /\ TakeSafe /\ OwnerCalled /\ JobsLeftExact
        /\ JobsAccounted /\ JoinAllDropsNothing

\* Every job that AddJob accepts is run, unless the owner calls JoinAll(false),
\* whatever the workers are doing when it arrives: AddJob's notification
\* cannot be lost, because it is sent under the mutex of the waiters.
EveryJobRuns ==
    \A j \in Jobs : (j <= added) ~> (j \in done \/ call = "JoinNow")

\* The comment on JoinAll: it notes that it is done, "and wake[s] up any thread
\* that's waiting for a new job", so the join terminates.
JoinAllReturns == (owner = "bail") ~> finished
=============================================================================

----------------------------- MODULE ThreadPool -----------------------------
(***************************************************************************)
(* compress/utils/threadpool.c: a linked list of jobs, a mutex, two        *)
(* condition variables, NumThreads workers, and the one thread that owns   *)
(* the pool and calls Create, AddJob, Wait and Destroy.                    *)
(*                                                                         *)
(* A critical section (from lock to unlock, or to the pthread_cond_wait    *)
(* that releases the mutex) is one action: nothing in the code touches the *)
(* queue without the mutex, so no other thread sees it half-done.  A       *)
(* thread that returns from pthread_cond_wait re-enters at the loop test.  *)
(***************************************************************************)
EXTENDS Naturals, Sequences, FiniteSets

CONSTANTS Job,         \* Job nodes: one per call of threadPoolAddJob
          NumThreads,  \* pool->num_threads
          NULL

ASSUME NumThreadsAssumption == NumThreads \in Nat \ {0}
ASSUME NULLAssumption == NULL \notin Job

VARIABLES
  (* JobQueue *)
  head, tail,   \* first and last node of the list, or NULL
  next,         \* Job.next of every node
  count,        \* nodes in the list
  working,      \* jobs taken off the list and not yet accounted as done
  shutdown,     \* set by threadPoolDestroy
  (* threads *)
  pc,           \* pc[w]: where worker w is
  cur,          \* cur[w]: its local variable job while it runs one
  client,       \* where the owner of the pool is
  created,      \* loop index of threadPoolCreate
  joined,       \* loop index of the joins of threadPoolDestroy
  (* history of the calls, which no line of the code stores *)
  accepted, refused, started, runs

queueVars   == <<head, tail, next, count, working, shutdown>>
threadVars  == <<pc, cur, client, created, joined>>
historyVars == <<accepted, refused, started, runs>>
vars == <<queueVars, threadVars, historyVars>>

Worker == 1 .. NumThreads

WorkerState == {"absent", "ready", "asleep", "run", "ran", "exit"}

ClientState == {"create", "open", "wait", "waitsleep", "unwind", "join",
                "free", "done", "crashed"}

Elements(s) == {s[i] : i \in 1 .. Len(s)}

InState(p, S) == {w \in Worker : p[w] \in S}

Init ==
  /\ head = NULL /\ tail = NULL
  /\ next = [j \in Job |-> NULL]
  /\ count = 0 /\ working = 0
  /\ shutdown = FALSE
  /\ pc = [w \in Worker |-> "absent"]
  /\ cur = [w \in Worker |-> NULL]
  /\ client = "create"
  /\ created = 0 /\ joined = 0
  /\ accepted = <<>> /\ refused = {} /\ started = <<>>
  /\ runs = [j \in Job |-> 0]

-----------------------------------------------------------------------------
(* Condition variables. *)

\* Variant: a signal only when the list was empty before the append.
WakeOneWorkerIfWasEmpty ==
  IF head # NULL \/ InState(pc, {"asleep"}) = {}
  THEN pc' = pc
  ELSE \E w \in InState(pc, {"asleep"}) : pc' = [pc EXCEPT ![w] = "ready"]

\* pthread_cond_signal(&notify) wakes one sleeping worker, if there is one.
WakeOneWorker ==
  IF InState(pc, {"asleep"}) = {}
  THEN pc' = pc
  ELSE \E w \in InState(pc, {"asleep"}) : pc' = [pc EXCEPT ![w] = "ready"]

\* Variant: a signal in place of the broadcast.
WakeFirstWorker ==
  IF InState(pc, {"asleep"}) = {}
  THEN pc' = pc
  ELSE \E w \in InState(pc, {"asleep"}) : pc' = [pc EXCEPT ![w] = "ready"]

\* pthread_cond_broadcast(&notify)
WakeAllWorkers ==
  pc' = [w \in Worker |-> IF pc[w] = "asleep" THEN "ready" ELSE pc[w]]

\* pthread_cond_signal(&work_done): only the owner ever waits on it.
WakeClient ==
  client' = IF client = "waitsleep" THEN "wait" ELSE client

-----------------------------------------------------------------------------
(* threadPoolCreate. *)

AfterCreate == IF created + 1 = NumThreads THEN "open" ELSE "create"

CreateThread ==
  /\ client = "create"
  /\ created' = created + 1
  /\ pc' = [pc EXCEPT ![created + 1] = "ready"]
  /\ client' = AfterCreate
  /\ UNCHANGED <<queueVars, cur, joined, historyVars>>

\* Variant: the failure is reported but the pool is returned all the same.
CreateThreadFailsUnnoticed ==
  /\ client = "create"
  /\ client' = "open"
  /\ UNCHANGED <<queueVars, pc, cur, created, joined, historyVars>>

\* pthread_create fails: the pool is taken down by threadPoolDestroy.
CreateThreadFails ==
  /\ client = "create"
  /\ client' = "unwind"
  /\ UNCHANGED <<queueVars, pc, cur, created, joined, historyVars>>

\* One of the two mallocs fails before there is anything to take down.
CreateOutOfMemory ==
  /\ client = "create"
  /\ created = 0
  /\ client' = "done"
  /\ UNCHANGED <<queueVars, pc, cur, created, joined, historyVars>>

-----------------------------------------------------------------------------
(* threadPoolAddJob. *)

\* Variant: the job is put in front of the others.
LinkAtHead(j) == next' = [next EXCEPT ![j] = head] /\ head' = j

LinkAtTail(j) ==
  IF tail # NULL
  THEN next' = [next EXCEPT ![tail] = j, ![j] = NULL] /\ UNCHANGED head
  ELSE next' = [next EXCEPT ![j] = NULL] /\ head' = j

AddJob(j) ==
  /\ client = "open"
  /\ j \notin Elements(accepted) \union refused
  /\ LinkAtTail(j)
  /\ tail' = j
  /\ count' = count + 1
  /\ WakeOneWorker
  /\ accepted' = Append(accepted, j)
  /\ UNCHANGED <<working, shutdown, cur, client, created, joined>>
  /\ UNCHANGED <<refused, started, runs>>

\* malloc of the node fails: -1, and nothing is queued.
AddJobFails(j) ==
  /\ client = "open"
  /\ j \notin Elements(accepted) \union refused
  /\ refused' = refused \union {j}
  /\ UNCHANGED <<queueVars, threadVars, accepted, started, runs>>

-----------------------------------------------------------------------------
(* threadPoolWait. *)

\* Variant: waiting for the queue alone.
QueuedOutstanding == count > 0

Outstanding == count > 0 \/ working > 0

CallWait ==
  /\ client = "open"
  /\ client' = "wait"
  /\ UNCHANGED <<queueVars, pc, cur, created, joined, historyVars>>

WaitSleeps ==
  /\ client = "wait"
  /\ Outstanding
  /\ client' = "waitsleep"
  /\ UNCHANGED <<queueVars, pc, cur, created, joined, historyVars>>

WaitReturns ==
  /\ client = "wait"
  /\ ~Outstanding
  /\ client' = "open"
  /\ UNCHANGED <<queueVars, pc, cur, created, joined, historyVars>>

\* POSIX allows pthread_cond_wait to return without a signal.
WaitWakesSpuriously ==
  /\ client = "waitsleep"
  /\ client' = "wait"
  /\ UNCHANGED <<queueVars, pc, cur, created, joined, historyVars>>

-----------------------------------------------------------------------------
(* threadPoolDestroy, also called by a failing threadPoolCreate. *)

Shutdown ==
  /\ client \in {"open", "unwind"}
  /\ shutdown' = TRUE
  /\ WakeAllWorkers
  /\ client' = "join"
  /\ UNCHANGED <<head, tail, next, count, working, cur, created, joined>>
  /\ UNCHANGED historyVars

AfterJoin == IF joined + 1 = NumThreads THEN "free" ELSE "join"

JoinWorker ==
  /\ client = "join"
  /\ joined + 1 <= created
  /\ pc[joined + 1] = "exit"
  /\ joined' = joined + 1
  /\ client' = AfterJoin
  /\ UNCHANGED <<queueVars, pc, cur, created, historyVars>>

\* The loop runs to num_threads, also over the entries of pool->threads that
\* no pthread_create has filled: undefined, so it fails harmlessly or crashes.
JoinUninitialised ==
  /\ client = "join"
  /\ joined + 1 > created
  /\ \/ joined' = joined + 1 /\ client' = AfterJoin
     \/ joined' = joined /\ client' = "crashed"
  /\ UNCHANGED <<queueVars, pc, cur, created, historyVars>>

\* Frees whatever is still linked, then the pool itself.
FreePool ==
  /\ client = "free"
  /\ head' = NULL
  /\ client' = "done"
  /\ UNCHANGED <<tail, next, count, working, shutdown>>
  /\ UNCHANGED <<pc, cur, created, joined, historyVars>>

-----------------------------------------------------------------------------
(* workerThread. *)

\* Variant: the tail pointer is left at the last node taken.
TailKept == tail

TailAfterTake == IF next[head] = NULL THEN NULL ELSE tail

Take(w) ==
  /\ pc[w] = "ready"
  /\ head # NULL
  /\ cur' = [cur EXCEPT ![w] = head]
  /\ head' = next[head]
  /\ tail' = TailAfterTake
  /\ count' = count - 1
  /\ working' = working + 1
  /\ pc' = [pc EXCEPT ![w] = "run"]
  /\ started' = Append(started, head)
  /\ UNCHANGED <<next, shutdown, client, created, joined>>
  /\ UNCHANGED <<accepted, refused, runs>>

Sleep(w) ==
  /\ pc[w] = "ready"
  /\ head = NULL
  /\ ~shutdown
  /\ pc' = [pc EXCEPT ![w] = "asleep"]
  /\ UNCHANGED <<queueVars, cur, client, created, joined, historyVars>>

WakeSpuriously(w) ==
  /\ pc[w] = "asleep"
  /\ pc' = [pc EXCEPT ![w] = "ready"]
  /\ UNCHANGED <<queueVars, cur, client, created, joined, historyVars>>

\* Variant: leaving without draining the queue.
MayExitOnShutdown == shutdown

MayExit == shutdown /\ head = NULL

Exit(w) ==
  /\ pc[w] = "ready"
  /\ MayExit
  /\ pc' = [pc EXCEPT ![w] = "exit"]
  /\ UNCHANGED <<queueVars, cur, client, created, joined, historyVars>>

\* job->function(job->arg); free(job); outside the mutex.
RunJob(w) ==
  /\ pc[w] = "run"
  /\ runs' = [runs EXCEPT ![cur[w]] = @ + 1]
  /\ cur' = [cur EXCEPT ![w] = NULL]
  /\ pc' = [pc EXCEPT ![w] = "ran"]
  /\ UNCHANGED <<queueVars, client, created, joined>>
  /\ UNCHANGED <<accepted, refused, started>>

\* Variant: the test made before working is decremented.
LastJobTestedEarly == count = 0 /\ working = 0

LastJobDone == count = 0 /\ working - 1 = 0

\* working-- under the mutex, and the signal that ends threadPoolWait.
AccountJob(w) ==
  /\ pc[w] = "ran"
  /\ working' = working - 1
  /\ IF LastJobDone THEN WakeClient ELSE UNCHANGED client
  /\ pc' = [pc EXCEPT ![w] = "ready"]
  /\ UNCHANGED <<head, tail, next, count, shutdown, cur, created, joined>>
  /\ UNCHANGED historyVars

-----------------------------------------------------------------------------
WorkerStep(w) == Take(w) \/ Sleep(w) \/ Exit(w) \/ RunJob(w) \/ AccountJob(w)

\* Steps of the owner inside one of the four calls.
ClientStep ==
  \/ CreateThread \/ CreateThreadFails \/ CreateOutOfMemory
  \/ WaitSleeps \/ WaitReturns
  \/ (client = "unwind" /\ Shutdown)
  \/ JoinWorker \/ JoinUninitialised \/ FreePool

Terminated ==
  /\ client \in {"done", "crashed"}
  /\ UNCHANGED vars

Next ==
  \/ CreateThread \/ CreateThreadFails \/ CreateOutOfMemory
  \/ \E j \in Job : AddJob(j) \/ AddJobFails(j)
  \/ CallWait \/ WaitSleeps \/ WaitReturns \/ WaitWakesSpuriously
  \/ Shutdown \/ JoinWorker \/ JoinUninitialised \/ FreePool
  \/ \E w \in Worker : WorkerStep(w) \/ WakeSpuriously(w)
  \/ Terminated

Spec == Init /\ [][Next]_vars

\* A thread that can run is eventually scheduled and job functions return;
\* the owner is not obliged to make calls, and nobody is woken spuriously.
Fairness ==
  /\ \A w \in Worker : WF_vars(WorkerStep(w))
  /\ WF_vars(ClientStep)

FairSpec == Spec /\ Fairness
=============================================================================

--------------------------- MODULE ThreadPoolInv ---------------------------
(***************************************************************************)
(* What is claimed about compress/utils/threadpool.c: invariants, the      *)
(* refinement of JobPool, and the progress of its calls.                   *)
(***************************************************************************)
EXTENDS ThreadPool

-----------------------------------------------------------------------------
(* Type invariant of the queue, the threads and the history.               *)
TypeOK ==
  /\ head \in Job \union {NULL} /\ tail \in Job \union {NULL}
  /\ next \in [Job -> Job \union {NULL}]
  /\ count \in Nat /\ working \in Nat
  /\ shutdown \in BOOLEAN
  /\ pc \in [Worker -> WorkerState]
  /\ cur \in [Worker -> Job \union {NULL}]
  /\ client \in ClientState
  /\ created \in 0 .. NumThreads /\ joined \in 0 .. NumThreads
  /\ accepted \in Seq(Job) /\ started \in Seq(Job)
  /\ refused \in SUBSET Job
  /\ runs \in [Job -> Nat]

-----------------------------------------------------------------------------
(* Safety. *)

Busy == InState(pc, {"run", "ran"})

\* The owner never sleeps in threadPoolWait with nothing left that would
\* signal work_done: a queued job or one in progress is still to be accounted.
NoLostCompletion ==
  client = "waitsleep" => count > 0 \/ working > 0

\* While a worker sleeps, every queued job has an awake worker about to take
\* it: one signal per threadPoolAddJob is enough to use all the threads.
NoIdleBacklog ==
  InState(pc, {"asleep"}) # {} =>
    count <= Cardinality(InState(pc, {"ready"}))

\* head and tail never point to a node that a worker has run and freed, so
\* threadPoolAddJob never links a job behind freed memory.
NoDanglingNode ==
  /\ head # NULL => runs[head] = 0
  /\ tail # NULL => runs[tail] = 0

\* When threadPoolDestroy has joined the workers, every accepted job has run
\* and the loop that frees leftover nodes finds none.
DrainedAtFree ==
  client = "free" => head = NULL /\ \A j \in Elements(accepted) : runs[j] = 1

\* The process can only crash in the join loop of a pool whose creation
\* failed half-way; a pool that was returned to its caller never gets there.
CrashOnlyAfterFailedCreate ==
  client = "crashed" => created < NumThreads /\ accepted = <<>>

-----------------------------------------------------------------------------
(* The inductive invariant, in named parts. *)

\* started is a prefix of accepted; no call is recorded twice.
HistoryInv ==
  /\ Len(started) <= Len(accepted)
  /\ \A i \in 1 .. Len(started) : started[i] = accepted[i]
  /\ \A i, k \in 1 .. Len(accepted) : accepted[i] = accepted[k] => i = k
  /\ \A i \in 1 .. Len(accepted) : accepted[i] \notin refused

\* The linked list holds exactly the accepted jobs not yet started, in order.
ListInv ==
  /\ count = Len(accepted) - Len(started)
  /\ IF count = 0
     THEN head = NULL /\ tail = NULL
     ELSE /\ head = accepted[Len(started) + 1]
          /\ tail = accepted[Len(accepted)]
          /\ next[tail] = NULL
  /\ \A i \in Len(started) + 1 .. Len(accepted) - 1 :
       next[accepted[i]] = accepted[i + 1]

\* A job has run once iff it was started and no worker still has to run it.
RunInv ==
  /\ \A j \in Job : runs[j] \in {0, 1}
  /\ \A j \in Job : runs[j] = 1 => j \in Elements(started)
  /\ \A w \in Worker :
       pc[w] = "run" => cur[w] \in Elements(started) /\ runs[cur[w]] = 0
  /\ \A v, w \in Worker :
       pc[v] = "run" /\ pc[w] = "run" /\ cur[v] = cur[w] => v = w
  /\ \A j \in Elements(started) :
       runs[j] = 0 => \E w \in Worker : pc[w] = "run" /\ cur[w] = j

WorkInv == working = Cardinality(Busy)

\* Which phases of the pool allow which states of its threads.
PhaseInv ==
  /\ \A w \in Worker : pc[w] = "absent" <=> w > created
  /\ client \in {"create", "unwind"} => created < NumThreads
  /\ created < NumThreads =>
       accepted = <<>> /\ client \notin {"open", "wait", "waitsleep"}
  /\ shutdown <=> \/ client \in {"join", "free", "crashed"}
                  \/ client = "done" /\ joined = NumThreads
  /\ ~shutdown => joined = 0
  /\ shutdown => InState(pc, {"asleep"}) = {}
  /\ \A w \in Worker : pc[w] = "exit" => shutdown /\ head = NULL
  /\ \A w \in Worker : w <= joined /\ w <= created => pc[w] = "exit"
  /\ client = "join" => joined < NumThreads
  /\ client = "free" => joined = NumThreads
  /\ client = "done" => joined = NumThreads \/ created = 0
  /\ client = "crashed" => created < NumThreads

IInv ==
  /\ TypeOK /\ HistoryInv /\ ListInv /\ RunInv /\ WorkInv /\ PhaseInv
  /\ NoLostCompletion /\ NoIdleBacklog

-----------------------------------------------------------------------------
(* Refinement. *)

PoolPhase ==
  CASE client = "create" -> "new"
    [] client = "open" -> "open"
    [] client \in {"wait", "waitsleep"} -> "waiting"
    [] client = "unwind" -> "unwinding"
    [] client \in {"join", "free"} ->
         IF created < NumThreads THEN "unwinding" ELSE "closing"
    [] client = "done" -> "closed"
    [] client = "crashed" -> "aborted"

Pool == INSTANCE JobPool WITH Width <- NumThreads, phase <- PoolPhase

\* threadpool.c is a job pool: first in first out hand-over, every accepted
\* job run exactly once, at most NumThreads at a time, and threadPoolWait and
\* threadPoolDestroy return only when every accepted job has run.
ImplementsJobPool == Pool!Spec

-----------------------------------------------------------------------------
(* Progress, under Fairness. *)

\* Every job accepted by threadPoolAddJob is eventually executed, whether the
\* owner then waits, destroys the pool or does nothing.
AcceptedJobsRun ==
  \A j \in Job : (j \in Elements(accepted)) ~> (runs[j] = 1)

\* threadPoolWait returns; so does threadPoolDestroy: every worker sees the
\* shutdown and is joined.
OwnerCallsReturn ==
  /\ (client \in {"wait", "waitsleep"}) ~> (client = "open")
  /\ (client = "join") ~> (client \in {"done", "crashed"})
=============================================================================

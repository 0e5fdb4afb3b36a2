------------------------------ MODULE JobPool ------------------------------
(***************************************************************************)
(* What the callers of compress/utils/threadpool.h rely on: a pool that    *)
(* accepts jobs, starts them in the order in which it accepted them, runs  *)
(* each one exactly once, at most Width at a time, and whose Wait and      *)
(* Destroy calls return only when every accepted job has run.              *)
(*                                                                         *)
(* ThreadPool implements this specification; CreateArchive is built on it. *)
(***************************************************************************)
EXTENDS Naturals, Sequences, FiniteSets

CONSTANTS Job,      \* the threadPoolAddJob calls the client may make
          Width     \* how many jobs may be in progress at once

VARIABLES phase,    \* where the owner of the pool is
          accepted, \* jobs for which threadPoolAddJob returned 0, in call order
          refused,  \* jobs for which it returned -1
          started,  \* jobs handed to a worker, in hand-over order
          runs      \* how often each job's function has been executed

poolVars == <<phase, accepted, refused, started, runs>>

Phase == {"new", "open", "waiting", "closing", "unwinding", "closed", "aborted"}

Elements(s) == {s[i] : i \in 1 .. Len(s)}

\* Jobs handed to a worker whose function has not yet completed.
InProgress == {j \in Elements(started) : runs[j] = 0}

AllRun == \A j \in Elements(accepted) : runs[j] = 1

Init ==
  /\ phase = "new"
  /\ accepted = <<>>
  /\ refused = {}
  /\ started = <<>>
  /\ runs = [j \in Job |-> 0]

Moves(from, to) ==
  /\ phase = from
  /\ phase' = to
  /\ UNCHANGED <<accepted, refused, started, runs>>

\* threadPoolCreate returns the pool, returns NULL before any thread exists,
\* or fails half-way and starts taking down what it has built.
Open       == Moves("new", "open")
OpenFails  == Moves("new", "closed")
OpenUnwind == Moves("new", "unwinding")

\* Taking down a half-built pool joins threads that were never created,
\* which POSIX leaves undefined: it may end the process.
Unwound    == Moves("unwinding", "closed")
Abort      == Moves("unwinding", "aborted")

Accept(j) ==
  /\ phase = "open"
  /\ j \notin Elements(accepted) \union refused
  /\ accepted' = Append(accepted, j)
  /\ UNCHANGED <<phase, refused, started, runs>>

Refuse(j) ==
  /\ phase = "open"
  /\ j \notin Elements(accepted) \union refused
  /\ refused' = refused \union {j}
  /\ UNCHANGED <<phase, accepted, started, runs>>

\* The next job in acceptance order is handed to a free worker.
Start ==
  /\ Len(started) < Len(accepted)
  /\ Cardinality(InProgress) < Width
  /\ started' = Append(started, accepted[Len(started) + 1])
  /\ UNCHANGED <<phase, accepted, refused, runs>>

Run(j) ==
  /\ j \in InProgress
  /\ runs' = [runs EXCEPT ![j] = 1]
  /\ UNCHANGED <<phase, accepted, refused, started>>

Wait        == Moves("open", "waiting")
WaitReturns == AllRun /\ Moves("waiting", "open")

Close        == Moves("open", "closing")
CloseReturns == AllRun /\ Moves("closing", "closed")

Next ==
  \/ Open \/ OpenFails \/ OpenUnwind \/ Unwound \/ Abort
  \/ \E j \in Job : Accept(j) \/ Refuse(j) \/ Run(j)
  \/ Start
  \/ Wait \/ WaitReturns \/ Close \/ CloseReturns

Spec == Init /\ [][Next]_poolVars

\* Accepted jobs are started and run; calls of the owner return.
Fairness ==
  /\ WF_poolVars(Start)
  /\ \A j \in Job : WF_poolVars(Run(j))
  /\ WF_poolVars(WaitReturns)
  /\ WF_poolVars(CloseReturns)

FairSpec == Spec /\ Fairness
=============================================================================

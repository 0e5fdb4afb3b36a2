--------------------------- MODULE JobPool_proof ---------------------------
(***************************************************************************)
(* What a caller of threadpool.h may rely on at any moment, for every set  *)
(* of jobs and every number of threads: the inductive invariant of JobPool. *)
(* The proofs about the callers take their facts about the pool from here. *)
(***************************************************************************)
EXTENDS JobPool, TLAPS

-----------------------------------------------------------------------------
(* The inductive invariant, in named parts. *)

PoolTypes ==
  /\ phase \in Phase
  /\ accepted \in Seq(Job) /\ started \in Seq(Job)
  /\ refused \in SUBSET Job
  /\ runs \in [Job -> {0, 1}]

\* started is a prefix of accepted; no call is recorded twice.
InOrder ==
  /\ Len(started) <= Len(accepted)
  /\ \A k \in 1 .. Len(started) : started[k] = accepted[k]
  /\ \A k, m \in 1 .. Len(accepted) : accepted[k] = accepted[m] => k = m
  /\ \A k \in 1 .. Len(accepted) : accepted[k] \notin refused

\* Only what was handed to a worker has been run.
RunWasStarted == \A j \in Job : runs[j] = 1 => j \in Elements(started)

\* A pool that is closed has run all it accepted; one that was never open has
\* accepted nothing.
PhaseInv ==
  /\ phase = "closed" => AllRun
  /\ phase \in {"new", "unwinding", "aborted"} => accepted = <<>> /\ refused = {}

PoolInv == PoolTypes /\ InOrder /\ RunWasStarted /\ PhaseInv

-----------------------------------------------------------------------------
(* Sequences of jobs. *)

\* The elements of a sequence that one job is appended to.
LEMMA ElementsAppend ==
  ASSUME NEW s \in Seq(Job), NEW j \in Job
  PROVE  /\ Append(s, j) \in Seq(Job)
         /\ Len(Append(s, j)) = Len(s) + 1
         /\ \A k \in 1 .. Len(s) : Append(s, j)[k] = s[k]
         /\ Append(s, j)[Len(s) + 1] = j
         /\ Elements(Append(s, j)) = Elements(s) \union {j}
<1>1. /\ Append(s, j) \in Seq(Job)
      /\ Len(Append(s, j)) = Len(s) + 1
      /\ \A k \in 1 .. Len(s) : Append(s, j)[k] = s[k]
      /\ Append(s, j)[Len(s) + 1] = j
  OBVIOUS
<1>2. 1 .. Len(s) + 1 = (1 .. Len(s)) \union {Len(s) + 1}
  OBVIOUS
<1> QED BY <1>1, <1>2 DEF Elements

\* Nothing is handed over that was not accepted.
LEMMA StartedWasAccepted ==
  ASSUME PoolInv
  PROVE  Elements(started) \subseteq Elements(accepted)
BY DEF PoolInv, PoolTypes, InOrder, Elements

\* Once every accepted job has run, none is waiting and none is in progress.
LEMMA NothingLeft ==
  ASSUME PoolInv, AllRun
  PROVE  InProgress = {} /\ Len(started) = Len(accepted)
<1>1. InProgress = {}
  BY StartedWasAccepted DEF AllRun, InProgress
<1>2. ASSUME Len(started) < Len(accepted)
      PROVE  FALSE
  <2> DEFINE next == accepted[Len(started) + 1]
  <2>1. Len(started) + 1 \in 1 .. Len(accepted)
    BY <1>2 DEF PoolInv, PoolTypes
  <2>2. next \in Job /\ runs[next] = 1
    BY <2>1 DEF PoolInv, PoolTypes, AllRun, Elements
  <2>3. PICK k \in 1 .. Len(started) : started[k] = next
    BY <2>2 DEF PoolInv, RunWasStarted, Elements
  <2>4. k \in 1 .. Len(accepted) /\ accepted[k] = next /\ k # Len(started) + 1
    BY <2>3, <1>2 DEF PoolInv, PoolTypes, InOrder
  <2> QED BY <2>1, <2>4 DEF PoolInv, InOrder
<1> QED BY <1>1, <1>2 DEF PoolInv, PoolTypes, InOrder

-----------------------------------------------------------------------------
(* Inductiveness. *)

\* The owner moves from one phase to another.
LEMMA MovesStep ==
  ASSUME PoolInv, NEW from, NEW to \in Phase, Moves(from, to),
         from = "new" \/ to # "unwinding",
         to \notin {"new"},
         to = "aborted" => from = "unwinding",
         to = "closed" => AllRun
  PROVE  PoolInv'
<1>1. UNCHANGED <<accepted, refused, started, runs>> /\ phase = from /\ phase' = to
  BY DEF Moves
<1>2. PoolTypes' /\ InOrder' /\ RunWasStarted'
  BY <1>1 DEF PoolInv, PoolTypes, InOrder, RunWasStarted, Elements
<1>3. AllRun => AllRun'
  BY <1>1 DEF AllRun, Elements
<1>4. PhaseInv'
  BY <1>1, <1>3 DEF PoolInv, PhaseInv
<1> QED BY <1>2, <1>4 DEF PoolInv

\* threadPoolAddJob queues a job.
LEMMA AcceptStep ==
  ASSUME PoolInv, NEW j \in Job, Accept(j)
  PROVE  PoolInv'
<1>1. /\ UNCHANGED <<phase, refused, started, runs>> /\ phase = "open"
      /\ accepted' = Append(accepted, j) /\ j \notin Elements(accepted) /\ j \notin refused
  BY DEF Accept
<1>2. accepted \in Seq(Job)
  BY DEF PoolInv, PoolTypes
<1>3. /\ accepted' \in Seq(Job) /\ Len(accepted') = Len(accepted) + 1
      /\ \A k \in 1 .. Len(accepted) : accepted'[k] = accepted[k]
      /\ accepted'[Len(accepted) + 1] = j
  BY <1>1, <1>2, ElementsAppend
<1>4. PoolTypes' /\ RunWasStarted' /\ PhaseInv'
  BY <1>1, <1>3 DEF PoolInv, PoolTypes, RunWasStarted, PhaseInv, Elements
<1>5. \A k \in 1 .. Len(accepted) : accepted[k] # j
  BY <1>1 DEF Elements
<1>6. InOrder'
  BY <1>1, <1>2, <1>3, <1>5 DEF PoolInv, PoolTypes, InOrder
<1> QED BY <1>4, <1>6 DEF PoolInv

\* threadPoolAddJob returns -1.
LEMMA RefuseStep ==
  ASSUME PoolInv, NEW j \in Job, Refuse(j)
  PROVE  PoolInv'
<1>1. /\ UNCHANGED <<phase, accepted, started, runs>> /\ phase = "open"
      /\ refused' = refused \union {j} /\ j \notin Elements(accepted)
  BY DEF Refuse
<1>2. PoolTypes' /\ RunWasStarted' /\ PhaseInv'
  BY <1>1 DEF PoolInv, PoolTypes, RunWasStarted, PhaseInv, Elements
<1>3. InOrder'
  BY <1>1 DEF PoolInv, PoolTypes, InOrder, Elements
<1> QED BY <1>2, <1>3 DEF PoolInv

\* A worker takes the next job.
LEMMA StartStep ==
  ASSUME PoolInv, Start
  PROVE  PoolInv'
<1> DEFINE j == accepted[Len(started) + 1]
<1>1. /\ UNCHANGED <<phase, accepted, refused, runs>>
      /\ started' = Append(started, j) /\ Len(started) < Len(accepted)
  BY DEF Start
<1>2. /\ started \in Seq(Job) /\ accepted \in Seq(Job)
      /\ Len(started) \in Nat /\ Len(accepted) \in Nat
  BY DEF PoolInv, PoolTypes
<1>3. j \in Job
  BY <1>1, <1>2
<1>4. /\ started' \in Seq(Job) /\ Len(started') = Len(started) + 1
      /\ \A k \in 1 .. Len(started) : started'[k] = started[k]
      /\ started'[Len(started) + 1] = j
      /\ Elements(started') = Elements(started) \union {j}
  BY <1>1, <1>2, <1>3, ElementsAppend
<1>5. PoolTypes' /\ RunWasStarted'
  BY <1>1, <1>4 DEF PoolInv, PoolTypes, RunWasStarted, Elements
<1>6. InOrder'
  BY <1>1, <1>2, <1>4 DEF PoolInv, InOrder
<1>7. PhaseInv'
  BY <1>1 DEF PoolInv, PhaseInv, AllRun, Elements
<1> QED BY <1>5, <1>6, <1>7 DEF PoolInv

\* A worker has executed a job.
LEMMA RunStep ==
  ASSUME PoolInv, NEW j \in Job, Run(j)
  PROVE  PoolInv'
<1>1. /\ UNCHANGED <<phase, accepted, refused, started>>
      /\ j \in Elements(started) /\ runs' = [runs EXCEPT ![j] = 1]
  BY DEF Run, InProgress
<1>2. /\ PoolTypes'
      /\ \A i \in Job : runs[i] = 1 => runs'[i] = 1
      /\ \A i \in Job : runs'[i] = 1 => runs[i] = 1 \/ i = j
  BY <1>1 DEF PoolInv, PoolTypes
<1>3. InOrder' /\ RunWasStarted'
  BY <1>1, <1>2 DEF PoolInv, InOrder, RunWasStarted, Elements
<1>4. Elements(accepted) \subseteq Job
  BY DEF PoolInv, PoolTypes, Elements
<1>5. AllRun => AllRun'
  BY <1>1, <1>2, <1>4 DEF AllRun, Elements
<1>6. PhaseInv'
  BY <1>1, <1>5 DEF PoolInv, PhaseInv
<1> QED BY <1>2, <1>3, <1>6 DEF PoolInv

\* The invariant holds before the pool is created.
LEMMA InitPool == Init => PoolInv
BY DEF Init, PoolInv, PoolTypes, InOrder, RunWasStarted, PhaseInv, AllRun, Elements, Phase

\* Every step of the owner, of a worker or of the job keeps it.
LEMMA NextPool ==
  ASSUME PoolInv, [Next]_poolVars
  PROVE  PoolInv'
<1>1. CASE Open
  BY <1>1, MovesStep DEF Open, Phase
<1>2. CASE OpenFails
  <2>1. AllRun
    BY <1>2 DEF OpenFails, Moves, PoolInv, PhaseInv, AllRun, Elements
  <2> QED BY <1>2, <2>1, MovesStep DEF OpenFails, Phase
<1>3. CASE OpenUnwind
  BY <1>3, MovesStep DEF OpenUnwind, Phase
<1>4. CASE Unwound
  <2>1. AllRun
    BY <1>4 DEF Unwound, Moves, PoolInv, PhaseInv, AllRun, Elements
  <2> QED BY <1>4, <2>1, MovesStep DEF Unwound, Phase
<1>5. CASE Abort
  BY <1>5, MovesStep DEF Abort, Phase
<1>6. ASSUME NEW j \in Job, Accept(j) \/ Refuse(j) \/ Run(j)
      PROVE  PoolInv'
  BY <1>6, AcceptStep, RefuseStep, RunStep
<1>7. CASE Start
  BY <1>7, StartStep
<1>8. CASE Wait
  BY <1>8, MovesStep DEF Wait, Phase
<1>9. CASE WaitReturns
  BY <1>9, MovesStep DEF WaitReturns, Phase
<1>10. CASE Close
  BY <1>10, MovesStep DEF Close, Phase
<1>11. CASE CloseReturns
  BY <1>11, MovesStep DEF CloseReturns, Phase
<1>12. CASE UNCHANGED poolVars
  BY <1>12 DEF poolVars, PoolInv, PoolTypes, InOrder, RunWasStarted, PhaseInv, AllRun, Elements
<1> QED BY <1>1, <1>2, <1>3, <1>4, <1>5, <1>6, <1>7, <1>8, <1>9, <1>10, <1>11, <1>12 DEF Next

\* Jobs are handed over in the order in which they were accepted and run at most
\* once each, whoever refuses what and however the pool is taken down; a closed
\* pool has run them all.
THEOREM PoolInvariant == Spec => []PoolInv
<1>1. Init => PoolInv
  BY InitPool
<1>2. PoolInv /\ [Next]_poolVars => PoolInv'
  BY NextPool
<1> QED BY <1>1, <1>2, PTL DEF Spec
=============================================================================

-------------------------- MODULE ThreadPool_proof --------------------------
(***************************************************************************)
(* Proofs, for every NumThreads and every set of jobs, that threadpool.c   *)
(* satisfies the safety properties of ThreadPoolInv and implements JobPool *)
(* (without its fairness).  The inductive invariant is IInv.               *)
(***************************************************************************)
EXTENDS ThreadPoolInv, FiniteSetTheorems, TLAPS

USE NumThreadsAssumption, NULLAssumption

-----------------------------------------------------------------------------
(* Lemmas about the operators of the model. *)

\* What appending a job does to a sequence of jobs and to its elements.
LEMMA AppendJob ==
  ASSUME NEW s \in Seq(Job), NEW j \in Job
  PROVE  /\ Append(s, j) \in Seq(Job)
         /\ Len(s) \in Nat /\ Len(Append(s, j)) = Len(s) + 1
         /\ \A i \in 1 .. Len(s) : Append(s, j)[i] = s[i]
         /\ Append(s, j)[Len(s) + 1] = j
         /\ Elements(Append(s, j)) = Elements(s) \union {j}
<1>1. /\ Append(s, j) \in Seq(Job)
      /\ Len(s) \in Nat /\ Len(Append(s, j)) = Len(s) + 1
      /\ \A i \in 1 .. Len(s) : Append(s, j)[i] = s[i]
      /\ Append(s, j)[Len(s) + 1] = j
  OBVIOUS
<1>2. \A i : i \in 1 .. Len(s) + 1 <=> i \in 1 .. Len(s) \/ i = Len(s) + 1
  BY <1>1
<1>3. \A x : x \in Elements(Append(s, j)) <=> x \in Elements(s) \/ x = j
  BY <1>1, <1>2, Zenon DEF Elements
<1> QED BY <1>1, <1>3

\* The workers in any set of states are finitely many, at most NumThreads.
LEMMA WorkersFinite ==
  \A p, S : /\ IsFiniteSet(InState(p, S))
            /\ Cardinality(InState(p, S)) \in Nat
            /\ Cardinality(InState(p, S)) <= NumThreads
<1>1. IsFiniteSet(Worker) /\ Cardinality(Worker) = NumThreads
  BY FS_Interval DEF Worker
<1> SUFFICES ASSUME NEW p, NEW S
             PROVE  /\ IsFiniteSet(InState(p, S))
                    /\ Cardinality(InState(p, S)) \in Nat
                    /\ Cardinality(InState(p, S)) <= NumThreads
  OBVIOUS
<1>2. InState(p, S) \in SUBSET Worker
  BY DEF InState
<1>3. IsFiniteSet(InState(p, S)) /\ Cardinality(InState(p, S)) <= NumThreads
  BY <1>1, <1>2, FS_Subset
<1> QED BY <1>3, FS_CardinalityType

\* A worker that enters a set of states: one worker more in it.
LEMMA CountEnters ==
  ASSUME NEW p, NEW q, NEW S, NEW w \in Worker, p[w] \notin S, q[w] \in S,
         \A v \in Worker : v # w => q[v] = p[v]
  PROVE  Cardinality(InState(q, S)) = Cardinality(InState(p, S)) + 1
<1>1. InState(q, S) = InState(p, S) \union {w} /\ w \notin InState(p, S)
  BY DEF InState
<1>2. IsFiniteSet(InState(p, S))
  BY WorkersFinite
<1> QED BY <1>1, <1>2, FS_AddElement

\* A worker that leaves a set of states: one worker less in it.
LEMMA CountLeaves ==
  ASSUME NEW p, NEW q, NEW S, NEW w \in Worker, p[w] \in S, q[w] \notin S,
         \A v \in Worker : v # w => q[v] = p[v]
  PROVE  /\ Cardinality(InState(q, S)) = Cardinality(InState(p, S)) - 1
         /\ Cardinality(InState(p, S)) > 0
<1>1. Cardinality(InState(p, S)) = Cardinality(InState(q, S)) + 1
  BY CountEnters
<1>2. Cardinality(InState(q, S)) \in Nat
  BY WorkersFinite
<1> QED BY <1>1, <1>2

\* A worker that moves within or outside a set of states: the same workers in it.
LEMMA CountStays ==
  ASSUME NEW p, NEW q, NEW S, \A v \in Worker : q[v] \in S <=> p[v] \in S
  PROVE  InState(q, S) = InState(p, S)
BY DEF InState

\* A signal on notify changes nothing but a sleeping worker into a ready one.
LEMMA WakeOne ==
  ASSUME TypeOK, WakeOneWorker
  PROVE  /\ pc' \in [Worker -> WorkerState]
         /\ \A w \in Worker :
              pc'[w] = pc[w] \/ (pc[w] = "asleep" /\ pc'[w] = "ready")
         /\ InState(pc, {"asleep"}) # {} =>
              Cardinality(InState(pc', {"ready"}))
                = Cardinality(InState(pc, {"ready"})) + 1
         /\ InState(pc, {"asleep"}) = {} => InState(pc', {"asleep"}) = {}
         /\ InState(pc', {"run", "ran"}) = InState(pc, {"run", "ran"})
<1>1. CASE InState(pc, {"asleep"}) = {}
  BY <1>1 DEF WakeOneWorker, TypeOK
<1>2. ASSUME NEW w \in Worker, pc[w] = "asleep",
             pc' = [pc EXCEPT ![w] = "ready"]
      PROVE  /\ pc' \in [Worker -> WorkerState]
             /\ \A v \in Worker :
                  pc'[v] = pc[v] \/ (pc[v] = "asleep" /\ pc'[v] = "ready")
             /\ Cardinality(InState(pc', {"ready"}))
                  = Cardinality(InState(pc, {"ready"})) + 1
             /\ InState(pc', {"run", "ran"}) = InState(pc, {"run", "ran"})
  <2>1. "ready" \in WorkerState
    BY DEF WorkerState
  <2>2. Cardinality(InState(pc', {"ready"}))
          = Cardinality(InState(pc, {"ready"})) + 1
    <3>1. pc[w] \notin {"ready"} /\ pc'[w] \in {"ready"}
      BY <1>2, <2>1 DEF TypeOK
    <3>2. \A v \in Worker : v # w => pc'[v] = pc[v]
      BY <1>2, <2>1 DEF TypeOK
    <3> QED BY <3>1, <3>2, CountEnters, Zenon
  <2>3. InState(pc', {"run", "ran"}) = InState(pc, {"run", "ran"})
    BY <1>2, <2>1 DEF InState, TypeOK
  <2> QED BY <1>2, <2>1, <2>2, <2>3 DEF TypeOK
<1> QED BY <1>1, <1>2 DEF WakeOneWorker, InState

\* A step that leaves the queue, the history and the running workers alone
\* preserves the parts of the invariant about them.
LEMMA QueueKept ==
  ASSUME IInv, UNCHANGED <<head, tail, next, count, working, cur, historyVars>>,
         \A w \in Worker : /\ pc'[w] = "run" <=> pc[w] = "run"
                           /\ pc'[w] = "ran" <=> pc[w] = "ran"
  PROVE  HistoryInv' /\ ListInv' /\ RunInv' /\ WorkInv'
<1>1. /\ UNCHANGED <<head, tail, next, count, working, cur>>
      /\ UNCHANGED <<accepted, refused, started, runs>>
  BY DEF historyVars
<1>2. HistoryInv'
  BY <1>1 DEF IInv, HistoryInv
<1>3. ListInv'
  BY <1>1 DEF IInv, ListInv
<1>4. RunInv'
  BY <1>1 DEF IInv, RunInv
<1>5. InState(pc', {"run", "ran"}) = InState(pc, {"run", "ran"})
  BY DEF InState
<1>6. WorkInv'
  BY <1>1, <1>5 DEF IInv, WorkInv, Busy
<1> QED BY <1>2, <1>3, <1>4, <1>6

-----------------------------------------------------------------------------
(* threadPoolAddJob. *)

\* Queueing a job preserves the invariant.
LEMMA AddJobStep ==
  ASSUME IInv, NEW j \in Job, AddJob(j)
  PROVE  IInv'
<1> USE DEF IInv
<1> DEFINE n == Len(accepted)
           m == Len(started)
<1>a. /\ client = "open" /\ j \notin Elements(accepted) /\ j \notin refused
      /\ LinkAtTail(j) /\ tail' = j /\ count' = count + 1 /\ WakeOneWorker
      /\ accepted' = Append(accepted, j)
      /\ UNCHANGED <<working, shutdown, cur, client, created, joined,
                     refused, started, runs>>
  BY DEF AddJob
<1>1. /\ accepted' \in Seq(Job)
      /\ Len(accepted') = n + 1
      /\ \A i \in 1 .. n : accepted'[i] = accepted[i]
      /\ accepted'[n + 1] = j
      /\ n \in Nat /\ m \in Nat
      /\ Elements(accepted') = Elements(accepted) \union {j}
  BY <1>a, AppendJob DEF TypeOK
<1>2. \A i \in 1 .. n : accepted[i] \in Job /\ accepted[i] # j
  <2>1. \A i \in 1 .. n : accepted[i] \in Elements(accepted)
    BY DEF Elements
  <2> QED BY <1>a, <2>1, <1>1 DEF TypeOK
<1>3. /\ pc' \in [Worker -> WorkerState]
      /\ \A w \in Worker :
           pc'[w] = pc[w] \/ (pc[w] = "asleep" /\ pc'[w] = "ready")
      /\ InState(pc', {"run", "ran"}) = InState(pc, {"run", "ran"})
  BY <1>a, WakeOne
<1>4. TypeOK'
  <2>1. head' \in Job \union {NULL} /\ next' \in [Job -> Job \union {NULL}]
    BY <1>a DEF LinkAtTail, TypeOK
  <2> QED BY <1>a, <1>1, <1>3, <2>1 DEF TypeOK
<1>5. HistoryInv'
  BY <1>a, <1>1, <1>2 DEF HistoryInv
<1>6. ListInv'
  <2>1. CASE count = 0
    <3>1. n = m /\ tail = NULL
      BY <1>1, <2>1 DEF ListInv, HistoryInv
    <3>2. head' = j /\ next'[j] = NULL
      BY <1>a, <3>1 DEF LinkAtTail, TypeOK
    <3> QED BY <1>a, <1>1, <2>1, <3>1, <3>2 DEF ListInv
  <2>2. CASE count # 0
    <3>1. /\ count = n - m /\ m < n /\ tail = accepted[n]
          /\ tail # NULL /\ tail \in Job /\ tail # j
          /\ head = accepted[m + 1]
      BY <1>1, <1>2, <2>2 DEF ListInv, HistoryInv
    <3>2. next' = [next EXCEPT ![tail] = j, ![j] = NULL] /\ head' = head
      BY <1>a, <3>1 DEF LinkAtTail
    <3>3. /\ next'[j] = NULL /\ next'[tail] = j
          /\ \A x \in Job : x # j /\ x # tail => next'[x] = next[x]
      BY <3>1, <3>2 DEF TypeOK
    <3>4. \A i \in m + 1 .. n - 1 : accepted[i] # tail
      BY <1>1, <3>1 DEF HistoryInv
    <3>5. \A i \in m + 1 .. n - 1 :
            /\ i \in 1 .. n /\ i + 1 \in 1 .. n
            /\ next[accepted[i]] = accepted[i + 1]
      BY <1>1, <3>1 DEF ListInv
    <3>6. \A i \in m + 1 .. n : next'[accepted'[i]] = accepted'[i + 1]
      <4> TAKE i \in m + 1 .. n
      <4>1. CASE i = n
        BY <1>1, <3>1, <3>3, <4>1
      <4>2. CASE i # n
        <5>1. i \in m + 1 .. n - 1
          BY <1>1, <4>2
        <5> QED BY <1>1, <1>2, <3>3, <3>4, <3>5, <5>1
      <4> QED BY <4>1, <4>2
    <3>7. count' = (n + 1) - m /\ count' # 0
      BY <1>a, <1>1, <3>1
    <3>8. head' = accepted'[m + 1] /\ m' = m /\ n' = n + 1
      BY <1>a, <1>1, <3>1, <3>2
    <3>9. tail' = accepted'[Len(accepted')] /\ next'[tail'] = NULL
      BY <1>a, <1>1, <3>3
    <3>10. \A i \in Len(started') + 1 .. Len(accepted') - 1 :
             next'[accepted'[i]] = accepted'[i + 1]
      BY <1>1, <3>6, <3>8
    <3> QED BY <1>1, <3>7, <3>8, <3>9, <3>10 DEF ListInv
  <2> QED BY <2>1, <2>2
<1>7. RunInv'
  <2>1. \A w \in Worker : pc'[w] = "run" <=> pc[w] = "run"
    BY <1>3
  <2> QED BY <1>a, <2>1 DEF RunInv
<1>8. WorkInv'
  BY <1>a, <1>3 DEF WorkInv, Busy
<1>9. PhaseInv'
  <2>1. created = NumThreads /\ ~ shutdown
    BY <1>a DEF PhaseInv, TypeOK
  <2>2. \A w \in Worker : /\ pc'[w] = "absent" <=> pc[w] = "absent"
                          /\ pc'[w] = "exit" <=> pc[w] = "exit"
    BY <1>3
  <2> QED BY <1>a, <2>1, <2>2 DEF PhaseInv
<1>10. NoLostCompletion'
  BY <1>a DEF NoLostCompletion
<1>11. NoIdleBacklog'
  <2>1. CASE InState(pc, {"asleep"}) = {}
    BY <1>a, <2>1, WakeOne DEF NoIdleBacklog
  <2>2. CASE InState(pc, {"asleep"}) # {}
    <3>1. Cardinality(InState(pc', {"ready"}))
            = Cardinality(InState(pc, {"ready"})) + 1
      BY <1>a, <2>2, WakeOne
    <3>2. Cardinality(InState(pc, {"ready"})) \in Nat /\ count \in Nat
      BY WorkersFinite DEF TypeOK
    <3> QED BY <1>a, <2>2, <3>1, <3>2 DEF NoIdleBacklog
  <2> QED BY <2>1, <2>2
<1> QED BY <1>4, <1>5, <1>6, <1>7, <1>8, <1>9, <1>10, <1>11

-----------------------------------------------------------------------------
(* workerThread. *)

\* Taking the head of the list preserves the invariant.
LEMMA TakeStep ==
  ASSUME IInv, NEW w \in Worker, Take(w)
  PROVE  IInv'
<1> USE DEF IInv
<1> DEFINE n == Len(accepted)
           m == Len(started)
<1>a. /\ pc[w] = "ready" /\ head # NULL
      /\ cur' = [cur EXCEPT ![w] = head] /\ head' = next[head]
      /\ tail' = TailAfterTake /\ count' = count - 1 /\ working' = working + 1
      /\ pc' = [pc EXCEPT ![w] = "run"] /\ started' = Append(started, head)
      /\ UNCHANGED <<next, shutdown, client, created, joined,
                     accepted, refused, runs>>
  BY DEF Take
<1>b. /\ "run" \in WorkerState /\ pc \in [Worker -> WorkerState]
      /\ pc'[w] = "run" /\ \A v \in Worker : v # w => pc'[v] = pc[v]
  BY <1>a DEF WorkerState, TypeOK
<1>1. /\ count # 0 /\ count = n - m
      /\ m \in Nat /\ n \in Nat /\ m < n
      /\ head = accepted[m + 1] /\ head \in Job
      /\ tail = accepted[n] /\ next[tail] = NULL
  BY <1>a DEF ListInv, HistoryInv, TypeOK
<1>2. /\ started' \in Seq(Job)
      /\ Len(started') = m + 1
      /\ \A i \in 1 .. m : started'[i] = started[i]
      /\ started'[m + 1] = head
      /\ Elements(started') = Elements(started) \union {head}
  BY <1>a, <1>1, AppendJob DEF TypeOK
<1>3. head \notin Elements(started)
  BY <1>1 DEF HistoryInv, Elements
<1>4. runs[head] = 0
  BY <1>1, <1>3 DEF RunInv
<1>5. TypeOK'
  <2>1. tail' \in Job \union {NULL} /\ head' \in Job \union {NULL}
    BY <1>a, <1>1 DEF TypeOK, TailAfterTake
  <2>2. count' \in Nat /\ working' \in Nat
    BY <1>a, <1>1 DEF TypeOK
  <2>3. /\ pc' \in [Worker -> WorkerState]
        /\ cur' \in [Worker -> Job \union {NULL}]
    BY <1>a, <1>b, <1>1 DEF TypeOK
  <2> QED BY <1>a, <1>2, <2>1, <2>2, <2>3 DEF TypeOK
<1>6. HistoryInv'
  <2>1. /\ Len(started') <= n
        /\ \A i \in 1 .. Len(started') : started'[i] = accepted[i]
    BY <1>1, <1>2 DEF HistoryInv
  <2> QED BY <1>a, <2>1 DEF HistoryInv
<1>7. ListInv'
  <2>1. count' = n - (m + 1) /\ m' = m + 1 /\ n' = n
    BY <1>a, <1>1, <1>2
  <2>2. \A i \in m + 1 .. n - 1 : next[accepted[i]] = accepted[i + 1]
    BY DEF ListInv
  <2>3. CASE count = 1
    <3>1. m + 1 = n /\ head = tail
      BY <1>1, <2>3
    <3>2. head' = NULL /\ tail' = NULL
      BY <1>a, <1>1, <3>1 DEF TailAfterTake
    <3> QED BY <1>a, <1>1, <2>1, <2>2, <2>3, <3>1, <3>2 DEF ListInv
  <2>4. CASE count # 1
    <3>1. m + 1 < n
      BY <1>1, <2>4
    <3>2. next[head] = accepted[m + 2]
      BY <1>1, <2>2, <3>1
    <3>3. accepted[m + 2] \in Job
      BY <1>1, <3>1 DEF TypeOK
    <3>4. head' = accepted[m + 2] /\ tail' = tail
      BY <1>a, <3>2, <3>3 DEF TailAfterTake
    <3>5. count' # 0
      BY <1>1, <2>1, <3>1
    <3>6. head' = accepted'[Len(started') + 1]
      BY <1>a, <1>1, <1>2, <3>4
    <3>7. \A i \in Len(started') + 1 .. Len(accepted') - 1 :
            next'[accepted'[i]] = accepted'[i + 1]
      BY <1>a, <1>1, <1>2, <2>2
    <3> QED BY <1>a, <1>1, <1>2, <2>1, <3>4, <3>5, <3>6, <3>7 DEF ListInv
  <2> QED BY <2>3, <2>4
<1>8. RunInv'
  <2>1. /\ pc'[w] = "run" /\ cur'[w] = head
        /\ \A v \in Worker : v # w => pc'[v] = pc[v] /\ cur'[v] = cur[v]
    BY <1>a, <1>b DEF TypeOK
  <2>2. \A v \in Worker : v # w /\ pc'[v] = "run" => cur'[v] # head
    BY <1>3, <2>1 DEF RunInv
  <2>3. \A v \in Worker :
         pc'[v] = "run" => cur'[v] \in Elements(started') /\ runs[cur'[v]] = 0
    BY <1>2, <1>4, <2>1 DEF RunInv
  <2>4. \A u, v \in Worker :
         pc'[u] = "run" /\ pc'[v] = "run" /\ cur'[u] = cur'[v] => u = v
    BY <2>1, <2>2 DEF RunInv
  <2>5. \A j \in Elements(started') :
         runs[j] = 0 => \E v \in Worker : pc'[v] = "run" /\ cur'[v] = j
    <3> TAKE j \in Elements(started')
    <3> HAVE runs[j] = 0
    <3>1. CASE j = head
      BY <2>1, <3>1
    <3>2. CASE j # head
      <4>1. PICK v \in Worker : pc[v] = "run" /\ cur[v] = j
        BY <1>2, <3>2 DEF RunInv
      <4>2. v # w
        BY <1>a, <4>1
      <4> QED BY <2>1, <4>1, <4>2
    <3> QED BY <3>1, <3>2
  <2>6. \A j \in Job : runs[j] = 1 => j \in Elements(started')
    BY <1>2 DEF RunInv
  <2> QED BY <1>a, <2>3, <2>4, <2>5, <2>6 DEF RunInv
<1>9. WorkInv'
  <2>1. Cardinality(InState(pc', {"run", "ran"}))
          = Cardinality(InState(pc, {"run", "ran"})) + 1
    <3>1. pc[w] \notin {"run", "ran"} /\ pc'[w] \in {"run", "ran"}
      BY <1>a, <1>b
    <3> QED BY <1>b, <3>1, CountEnters, Zenon
  <2> QED BY <1>a, <2>1 DEF WorkInv, Busy
<1>10. PhaseInv'
  <2>1. \A v \in Worker : /\ pc'[v] = "absent" <=> pc[v] = "absent"
                          /\ pc'[v] = "exit" <=> pc[v] = "exit"
    BY <1>a, <1>b
  <2>2. InState(pc', {"asleep"}) = InState(pc, {"asleep"})
    BY <1>a, <1>b, CountStays
  <2>3. \A v \in Worker : pc[v] # "exit"
    BY <1>a DEF PhaseInv
  <2> QED BY <1>a, <2>1, <2>2, <2>3 DEF PhaseInv
<1>11. NoLostCompletion'
  BY <1>a DEF NoLostCompletion, TypeOK
<1>12. NoIdleBacklog'
  <2>1. Cardinality(InState(pc', {"ready"}))
          = Cardinality(InState(pc, {"ready"})) - 1
    <3>1. pc[w] \in {"ready"} /\ pc'[w] \notin {"ready"}
      BY <1>a, <1>b
    <3> QED BY <1>b, <3>1, CountLeaves, Zenon
  <2>2. InState(pc', {"asleep"}) = InState(pc, {"asleep"})
    BY <1>a, <1>b, CountStays
  <2>3. Cardinality(InState(pc, {"ready"})) \in Nat /\ count \in Nat
    BY WorkersFinite DEF TypeOK
  <2>4. InState(pc, {"asleep"}) # {} =>
          count <= Cardinality(InState(pc, {"ready"}))
    BY DEF NoIdleBacklog
  <2>5. InState(pc', {"asleep"}) # {} =>
          count' <= Cardinality(InState(pc', {"ready"}))
    <3>1. count' = count - 1
      BY <1>a
    <3> QED BY <3>1, <2>1, <2>2, <2>3, <2>4
  <2> QED BY <2>5 DEF NoIdleBacklog
<1> QED BY <1>5, <1>6, <1>7, <1>8, <1>9, <1>10, <1>11, <1>12

\* A worker that goes to sleep, wakes up or exits preserves the invariant.
LEMMA IdleStep ==
  ASSUME IInv, NEW w \in Worker, Sleep(w) \/ WakeSpuriously(w) \/ Exit(w)
  PROVE  IInv'
<1>a. /\ UNCHANGED <<head, tail, next, count, working, shutdown, cur, client,
                     created, joined, accepted, refused, started, runs>>
      /\ \/ pc[w] = "ready" /\ head = NULL /\ ~ shutdown
            /\ pc' = [pc EXCEPT ![w] = "asleep"]
         \/ pc[w] = "asleep" /\ pc' = [pc EXCEPT ![w] = "ready"]
         \/ pc[w] = "ready" /\ head = NULL /\ shutdown
            /\ pc' = [pc EXCEPT ![w] = "exit"]
  BY DEF Sleep, WakeSpuriously, Exit, MayExit, queueVars, historyVars
<1>b. /\ pc' \in [Worker -> WorkerState]
      /\ \A v \in Worker : v # w => pc'[v] = pc[v]
      /\ \/ pc[w] = "ready" /\ head = NULL /\ ~ shutdown /\ pc'[w] = "asleep"
         \/ pc[w] = "asleep" /\ pc'[w] = "ready"
         \/ pc[w] = "ready" /\ head = NULL /\ shutdown /\ pc'[w] = "exit"
  BY <1>a DEF IInv, TypeOK, WorkerState
<1>1. TypeOK'
  BY <1>a, <1>b DEF IInv, TypeOK
<1>2. HistoryInv' /\ ListInv' /\ RunInv' /\ WorkInv'
  BY <1>a, <1>b, QueueKept DEF historyVars
<1>3. PhaseInv'
  <2>1. \A v \in Worker : pc'[v] = "absent" <=> pc[v] = "absent"
    BY <1>b
  <2>2. shutdown => InState(pc', {"asleep"}) = {}
    BY <1>b DEF IInv, PhaseInv, InState
  <2>3. \A v \in Worker : pc'[v] = "exit" => shutdown /\ head = NULL
    BY <1>b DEF IInv, PhaseInv
  <2>4. \A v \in Worker : v <= joined /\ v <= created => pc'[v] = "exit"
    BY <1>b DEF IInv, PhaseInv
  <2> QED BY <1>a, <2>1, <2>2, <2>3, <2>4 DEF IInv, PhaseInv
<1>4. NoLostCompletion'
  BY <1>a DEF IInv, NoLostCompletion
<1>5. NoIdleBacklog'
  <2>1. CASE head = NULL
    <3>1. count' = 0
      BY <1>a, <2>1 DEF IInv, ListInv, HistoryInv, TypeOK
    <3>2. Cardinality(InState(pc', {"ready"})) >= 0
      BY WorkersFinite
    <3> QED BY <3>1, <3>2 DEF NoIdleBacklog
  <2>2. CASE head # NULL
    <3>1. pc[w] = "asleep" /\ pc'[w] = "ready"
      BY <1>b, <2>2
    <3>2. pc[w] \notin {"ready"} /\ pc'[w] \in {"ready"}
      BY <3>1
    <3>3. Cardinality(InState(pc', {"ready"}))
            = Cardinality(InState(pc, {"ready"})) + 1
      BY <1>b, <3>2, CountEnters, Zenon
    <3>4. InState(pc, {"asleep"}) # {}
      BY <3>1 DEF InState
    <3>5. count <= Cardinality(InState(pc, {"ready"}))
      BY <3>4 DEF IInv, NoIdleBacklog
    <3>6. count' = count /\ count \in Nat
      BY <1>a DEF IInv, TypeOK
    <3>7. Cardinality(InState(pc, {"ready"})) \in Nat
      BY WorkersFinite
    <3>8. count' <= Cardinality(InState(pc', {"ready"}))
      BY <3>3, <3>5, <3>6, <3>7
    <3> QED BY <3>8 DEF NoIdleBacklog
  <2> QED BY <2>1, <2>2
<1> QED BY <1>1, <1>2, <1>3, <1>4, <1>5 DEF IInv

\* Running a job preserves the invariant.
LEMMA RunJobStep ==
  ASSUME IInv, NEW w \in Worker, RunJob(w)
  PROVE  IInv'
<1>a. /\ UNCHANGED <<head, tail, next, count, working, shutdown, client,
                     created, joined, accepted, refused, started>>
      /\ pc[w] = "run"
      /\ runs' = [runs EXCEPT ![cur[w]] = @ + 1]
      /\ cur' = [cur EXCEPT ![w] = NULL]
      /\ pc' = [pc EXCEPT ![w] = "ran"]
  BY DEF RunJob, queueVars
<1>b. /\ pc' \in [Worker -> WorkerState] /\ pc'[w] = "ran"
      /\ cur' \in [Worker -> Job \union {NULL}]
      /\ \A v \in Worker : v # w => pc'[v] = pc[v] /\ cur'[v] = cur[v]
  BY <1>a DEF IInv, TypeOK, WorkerState
<1>c. /\ cur[w] \in Elements(started) /\ runs[cur[w]] = 0
      /\ Elements(started) \subseteq Job
  BY <1>a DEF IInv, RunInv, TypeOK, Elements
<1>d. /\ runs' \in [Job -> Nat] /\ runs'[cur[w]] = 1
      /\ \A j \in Job : j # cur[w] => runs'[j] = runs[j]
  BY <1>a, <1>c DEF IInv, TypeOK
<1>1. TypeOK'
  BY <1>a, <1>b, <1>d DEF IInv, TypeOK
<1>2. HistoryInv' /\ ListInv'
  BY <1>a DEF IInv, HistoryInv, ListInv
<1>3. RunInv'
  <2>1. \A j \in Job : runs'[j] \in {0, 1}
    BY <1>c, <1>d DEF IInv, RunInv
  <2>2. \A j \in Job : runs'[j] = 1 => j \in Elements(started)
    BY <1>c, <1>d DEF IInv, RunInv
  <2>3. \A v \in Worker : pc'[v] = "run" => v # w /\ cur'[v] # cur[w]
    BY <1>a, <1>b DEF IInv, RunInv
  <2>4. \A v \in Worker :
         pc'[v] = "run" => cur'[v] \in Elements(started) /\ runs'[cur'[v]] = 0
    BY <1>b, <1>c, <1>d, <2>3 DEF IInv, RunInv
  <2>5. \A u, v \in Worker :
         pc'[u] = "run" /\ pc'[v] = "run" /\ cur'[u] = cur'[v] => u = v
    BY <1>b, <2>3 DEF IInv, RunInv
  <2>6. \A j \in Elements(started) :
         runs'[j] = 0 => \E v \in Worker : pc'[v] = "run" /\ cur'[v] = j
    <3> TAKE j \in Elements(started)
    <3> HAVE runs'[j] = 0
    <3>1. j # cur[w] /\ runs[j] = 0
      BY <1>c, <1>d
    <3>2. PICK v \in Worker : pc[v] = "run" /\ cur[v] = j
      BY <3>1 DEF IInv, RunInv
    <3> QED BY <1>b, <3>1, <3>2
  <2>7. started' = started
    BY <1>a
  <2> QED BY <2>1, <2>2, <2>4, <2>5, <2>6, <2>7 DEF RunInv
<1>4. WorkInv'
  <2>1. InState(pc', {"run", "ran"}) = InState(pc, {"run", "ran"})
    BY <1>a, <1>b DEF InState
  <2> QED BY <1>a, <2>1 DEF IInv, WorkInv, Busy
<1>5. InState(pc', {"asleep"}) = InState(pc, {"asleep"})
  BY <1>a, <1>b DEF InState
<1>6. PhaseInv'
  <2>1. \A v \in Worker : /\ pc'[v] = "absent" <=> pc[v] = "absent"
                          /\ pc'[v] = "exit" <=> pc[v] = "exit"
    BY <1>a, <1>b
  <2> QED BY <1>a, <1>5, <2>1 DEF IInv, PhaseInv
<1>7. NoLostCompletion'
  BY <1>a DEF IInv, NoLostCompletion
<1>8. NoIdleBacklog'
  <2>1. InState(pc', {"ready"}) = InState(pc, {"ready"})
    BY <1>a, <1>b DEF InState
  <2> QED BY <1>a, <1>5, <2>1 DEF IInv, NoIdleBacklog
<1> QED BY <1>1, <1>2, <1>3, <1>4, <1>6, <1>7, <1>8 DEF IInv

\* Accounting for a finished job preserves the invariant; in particular the
\* owner is woken by the one that finishes last.
LEMMA AccountJobStep ==
  ASSUME IInv, NEW w \in Worker, AccountJob(w)
  PROVE  IInv'
<1>a. /\ UNCHANGED <<head, tail, next, count, shutdown, cur,
                     created, joined, accepted, refused, started, runs>>
      /\ pc[w] = "ran" /\ working' = working - 1
      /\ pc' = [pc EXCEPT ![w] = "ready"]
      /\ IF LastJobDone THEN WakeClient ELSE UNCHANGED client
  BY DEF AccountJob, historyVars
<1>b. /\ pc' \in [Worker -> WorkerState] /\ pc'[w] = "ready"
      /\ \A v \in Worker : v # w => pc'[v] = pc[v]
  BY <1>a DEF IInv, TypeOK, WorkerState
<1>c. /\ Cardinality(InState(pc', {"run", "ran"}))
           = Cardinality(InState(pc, {"run", "ran"})) - 1
      /\ Cardinality(InState(pc, {"run", "ran"})) > 0
  <2>1. pc[w] \in {"run", "ran"} /\ pc'[w] \notin {"run", "ran"}
    BY <1>a, <1>b
  <2> QED BY <1>b, <2>1, CountLeaves, Zenon
<1>d. working = Cardinality(InState(pc, {"run", "ran"})) /\ working > 0
  BY <1>c DEF IInv, WorkInv, Busy
<1>e. client' = client \/ (client = "waitsleep" /\ client' = "wait")
  <2>1. (client' = IF client = "waitsleep" THEN "wait" ELSE client)
          \/ client' = client
    BY Zenon DEF AccountJob, WakeClient
  <2> QED BY <2>1
<1>1. TypeOK'
  <2>1. working' \in Nat
    BY <1>a, <1>d DEF IInv, TypeOK
  <2>2. client' \in ClientState
    BY <1>e DEF IInv, TypeOK, ClientState
  <2> QED BY <1>a, <1>b, <2>1, <2>2 DEF IInv, TypeOK
<1>2. HistoryInv' /\ ListInv'
  BY <1>a DEF IInv, HistoryInv, ListInv
<1>3. RunInv'
  <2>1. \A v \in Worker : pc'[v] = "run" <=> pc[v] = "run"
    BY <1>a, <1>b
  <2> QED BY <1>a, <2>1 DEF IInv, RunInv
<1>4. WorkInv'
  <2>1. working' = working - 1
    BY <1>a
  <2> QED BY <1>c, <1>d, <2>1 DEF WorkInv, Busy
<1>5. InState(pc', {"asleep"}) = InState(pc, {"asleep"})
  BY <1>a, <1>b DEF InState
<1>6. PhaseInv'
  <2>1. \A v \in Worker : /\ pc'[v] = "absent" <=> pc[v] = "absent"
                          /\ pc'[v] = "exit" <=> pc[v] = "exit"
    BY <1>a, <1>b
  <2>2. \A c \in {"create", "open", "unwind", "join", "free", "done", "crashed"} :
          client' = c <=> client = c
    BY <1>e
  <2>3. created < NumThreads => client' \notin {"open", "wait", "waitsleep"}
    BY <1>e DEF IInv, PhaseInv
  <2> QED BY <1>a, <1>5, <2>1, <2>2, <2>3 DEF IInv, PhaseInv
<1>7. NoLostCompletion'
  <2>1. CASE LastJobDone
    BY <1>a, <2>1 DEF WakeClient, NoLostCompletion
  <2>2. CASE ~ LastJobDone
    <3>1. count' = count /\ working' = working - 1 /\ client' = client
      BY <1>a, <2>2
    <3>2. count > 0 \/ working - 1 > 0
      BY <1>d, <2>2 DEF LastJobDone, IInv, TypeOK
    <3> QED BY <3>1, <3>2 DEF NoLostCompletion
  <2> QED BY <2>1, <2>2
<1>8. NoIdleBacklog'
  <2>1. pc[w] \notin {"ready"} /\ pc'[w] \in {"ready"}
    BY <1>a, <1>b
  <2>2. Cardinality(InState(pc', {"ready"}))
          = Cardinality(InState(pc, {"ready"})) + 1
    BY <1>b, <2>1, CountEnters, Zenon
  <2>3. Cardinality(InState(pc, {"ready"})) \in Nat /\ count \in Nat
    BY WorkersFinite DEF IInv, TypeOK
  <2>4. count' = count
    BY <1>a
  <2> QED BY <1>5, <2>2, <2>3, <2>4 DEF IInv, NoIdleBacklog
<1> QED BY <1>1, <1>2, <1>3, <1>4, <1>6, <1>7, <1>8 DEF IInv

-----------------------------------------------------------------------------
(* threadPoolCreate, threadPoolWait and threadPoolDestroy. *)

\* Starting one more worker preserves the invariant.
LEMMA CreateThreadStep ==
  ASSUME IInv, CreateThread
  PROVE  IInv'
<1> DEFINE w == created + 1
<1>a. /\ UNCHANGED <<head, tail, next, count, working, shutdown, cur, joined,
                     accepted, refused, started, runs>>
      /\ client = "create" /\ created' = w /\ pc' = [pc EXCEPT ![w] = "ready"]
      /\ client' = IF w = NumThreads THEN "open" ELSE "create"
  BY DEF CreateThread, AfterCreate, queueVars, historyVars
<1>b. created \in Nat /\ created < NumThreads /\ w \in Worker
  BY <1>a DEF IInv, TypeOK, PhaseInv, Worker
<1>c. /\ pc' \in [Worker -> WorkerState] /\ pc'[w] = "ready"
      /\ \A v \in Worker : v # w => pc'[v] = pc[v]
  BY <1>a, <1>b DEF IInv, TypeOK, WorkerState
<1>d. pc[w] = "absent"
  BY <1>b DEF IInv, PhaseInv, Worker
<1>e. accepted = <<>> /\ count = 0 /\ ~ shutdown /\ joined = 0
  <2>1. accepted = <<>>
    BY <1>b DEF IInv, PhaseInv
  <2>2. ~ shutdown /\ joined = 0
    BY <1>a DEF IInv, PhaseInv
  <2> QED BY <2>1, <2>2 DEF IInv, ListInv, HistoryInv, TypeOK
<1>1. TypeOK'
  BY <1>a, <1>b, <1>c DEF IInv, TypeOK, ClientState
<1>2. HistoryInv' /\ ListInv' /\ RunInv' /\ WorkInv'
  BY <1>a, <1>c, <1>d, QueueKept DEF historyVars
<1>3. PhaseInv'
  <2>1. \A v \in Worker : pc'[v] = "absent" <=> v > created'
    BY <1>a, <1>b, <1>c DEF IInv, PhaseInv, Worker
  <2>2. created' < NumThreads =>
          accepted' = <<>> /\ client' \notin {"open", "wait", "waitsleep"}
    BY <1>a, <1>b, <1>e
  <2>3. client' = "create" => created' < NumThreads
    BY <1>a, <1>b
  <2>4. \A v \in Worker : pc'[v] # "exit"
    BY <1>c, <1>e DEF IInv, PhaseInv
  <2>5. \A v \in Worker : ~ (v <= joined /\ v <= created')
    BY <1>e DEF IInv, PhaseInv, Worker
  <2>6. client' \in {"open", "create"}
    BY <1>a
  <2> QED BY <1>a, <1>e, <2>1, <2>2, <2>3, <2>4, <2>5, <2>6 DEF PhaseInv
<1>4. NoLostCompletion'
  BY <1>a DEF NoLostCompletion
<1>5. NoIdleBacklog'
  BY <1>a, <1>e, WorkersFinite DEF NoIdleBacklog
<1> QED BY <1>1, <1>2, <1>3, <1>4, <1>5 DEF IInv

\* The steps that only move the owner preserve the invariant.
LEMMA OwnerStep ==
  ASSUME IInv,
         \/ CreateThreadFails \/ CreateOutOfMemory
         \/ CallWait \/ WaitSleeps \/ WaitReturns \/ WaitWakesSpuriously
         \/ JoinWorker \/ JoinUninitialised
  PROVE  IInv'
<1>a. UNCHANGED <<head, tail, next, count, working, shutdown, pc, cur, created,
                  accepted, refused, started, runs>>
  BY DEF CreateThreadFails, CreateOutOfMemory, CallWait, WaitSleeps,
         WaitReturns, WaitWakesSpuriously, JoinWorker, JoinUninitialised,
         queueVars, historyVars
<1>b. \/ joined' = joined
         /\ \/ client = "create" /\ client' = "unwind"
            \/ client = "create" /\ client' = "done" /\ created = 0
            \/ client \in {"open", "waitsleep"} /\ client' = "wait"
            \/ client = "wait" /\ client' = "waitsleep" /\ Outstanding
            \/ client = "wait" /\ client' = "open"
            \/ client = "join" /\ client' = "crashed" /\ joined + 1 > created
      \/ /\ client = "join" /\ joined' = joined + 1 /\ client' = AfterJoin
         /\ joined + 1 > created \/ pc[joined + 1] = "exit"
  BY DEF CreateThreadFails, CreateOutOfMemory, CallWait, WaitSleeps,
         WaitReturns, WaitWakesSpuriously, JoinWorker, JoinUninitialised
<1>c. client = "join" => joined < NumThreads /\ joined \in Nat
  BY DEF IInv, PhaseInv, TypeOK
<1>1. TypeOK'
  <2>1. joined' \in 0 .. NumThreads
    BY <1>b, <1>c DEF IInv, TypeOK
  <2>2. client' \in ClientState
    BY <1>b DEF ClientState, AfterJoin
  <2> QED BY <1>a, <2>1, <2>2 DEF IInv, TypeOK
<1>2. HistoryInv' /\ ListInv' /\ RunInv' /\ WorkInv'
  BY <1>a, QueueKept DEF historyVars
<1>3. PhaseInv'
  <2>1. CASE joined' = joined
    <3>1. created < NumThreads => client' \notin {"open", "wait", "waitsleep"}
      BY <1>b, <2>1, <1>c DEF IInv, PhaseInv, AfterJoin
    <3>2. shutdown <=> \/ client' \in {"join", "free", "crashed"}
                       \/ client' = "done" /\ joined' = NumThreads
      BY <1>b, <2>1, <1>c DEF IInv, PhaseInv, AfterJoin, TypeOK
    <3>3. client' \notin {"create", "free"} \/ client' = client
      BY <1>b, <2>1, <1>c
    <3>4. /\ client' = "join" => joined' < NumThreads
          /\ client' = "done" => joined' = NumThreads \/ created = 0
      BY <1>b, <2>1, <1>c
    <3>5. client' = "crashed" => created < NumThreads
      BY <1>b, <2>1, <1>c DEF IInv, TypeOK
    <3>6. client' = "unwind" => created < NumThreads
      BY <1>b, <2>1, <1>c DEF IInv, PhaseInv
    <3> QED BY <1>a, <2>1, <3>1, <3>2, <3>3, <3>4, <3>5, <3>6
               DEF IInv, PhaseInv
  <2>2. CASE joined' # joined
    <3>1. /\ client = "join" /\ joined' = joined + 1
          /\ client' = IF joined' = NumThreads THEN "free" ELSE "join"
          /\ joined' > created \/ pc[joined'] = "exit"
          /\ joined \in Nat /\ joined < NumThreads
      BY <1>b, <1>c, <2>2 DEF AfterJoin
    <3>2. shutdown
      BY <3>1 DEF IInv, PhaseInv
    <3>3. \A v \in Worker : v <= joined' /\ v <= created => pc[v] = "exit"
      <4> TAKE v \in Worker
      <4>1. CASE v <= joined
        BY <4>1 DEF IInv, PhaseInv
      <4>2. CASE ~ (v <= joined)
        <5>1. v \in Nat /\ joined \in Nat
          BY <3>1 DEF Worker
        <5>2. v <= joined' => v = joined'
          BY <3>1, <4>2, <5>1
        <5>3. joined' > created /\ created \in Nat => ~ (joined' <= created)
          BY <3>1
        <5> QED BY <3>1, <5>2, <5>3 DEF IInv, TypeOK
      <4> QED BY <4>1, <4>2
    <3> QED BY <1>a, <3>1, <3>2, <3>3 DEF IInv, PhaseInv
  <2> QED BY <2>1, <2>2
<1>4. NoLostCompletion'
  <2>1. client' = "waitsleep" => Outstanding
    BY <1>b, <1>c DEF AfterJoin
  <2> QED BY <1>a, <2>1 DEF NoLostCompletion, Outstanding
<1>5. NoIdleBacklog'
  BY <1>a DEF IInv, NoIdleBacklog
<1> QED BY <1>1, <1>2, <1>3, <1>4, <1>5 DEF IInv

\* Setting shutdown and waking every sleeping worker preserves the invariant.
LEMMA ShutdownStep ==
  ASSUME IInv, Shutdown
  PROVE  IInv'
<1>a. /\ UNCHANGED <<head, tail, next, count, working, cur, created, joined,
                     accepted, refused, started, runs>>
      /\ client \in {"open", "unwind"} /\ shutdown' = TRUE /\ client' = "join"
      /\ pc' = [v \in Worker |-> IF pc[v] = "asleep" THEN "ready" ELSE pc[v]]
  BY DEF Shutdown, WakeAllWorkers, historyVars
<1>b. /\ pc' \in [Worker -> WorkerState]
      /\ \A v \in Worker :
           /\ pc'[v] # "asleep"
           /\ \A x \in WorkerState \ {"asleep", "ready"} : pc'[v] = x <=> pc[v] = x
  BY <1>a DEF IInv, TypeOK, WorkerState
<1>c. \A v \in Worker : /\ pc'[v] = "run" <=> pc[v] = "run"
                        /\ pc'[v] = "ran" <=> pc[v] = "ran"
                        /\ pc'[v] = "absent" <=> pc[v] = "absent"
                        /\ pc[v] # "exit" /\ pc'[v] # "exit"
  <2>1. ~ shutdown
    BY <1>a DEF IInv, PhaseInv
  <2>2. \A v \in Worker : pc[v] # "exit"
    BY <2>1 DEF IInv, PhaseInv
  <2> QED BY <1>b, <2>2 DEF WorkerState
<1>d. joined = 0
  BY <1>a DEF IInv, PhaseInv
<1>e. InState(pc', {"asleep"}) = {}
  BY <1>b DEF InState
<1>1. TypeOK'
  BY <1>a, <1>b DEF IInv, TypeOK, ClientState
<1>2. HistoryInv' /\ ListInv' /\ RunInv' /\ WorkInv'
  BY <1>a, <1>c, QueueKept DEF historyVars
<1>3. PhaseInv'
  <2>1. \A v \in Worker : ~ (v <= joined)
    BY <1>d DEF Worker
  <2> QED BY <1>a, <1>c, <1>d, <1>e, <2>1 DEF IInv, PhaseInv
<1>4. NoLostCompletion'
  BY <1>a DEF NoLostCompletion
<1>5. NoIdleBacklog'
  BY <1>e DEF NoIdleBacklog
<1> QED BY <1>1, <1>2, <1>3, <1>4, <1>5 DEF IInv

\* When the workers have been joined the list is empty.
LEMMA EmptyAtFree ==
  ASSUME IInv, client = "free"
  PROVE  head = NULL /\ count = 0
<1>1. joined = NumThreads
  BY DEF IInv, PhaseInv
<1>2. CASE created < NumThreads
  <2>1. accepted = <<>>
    BY <1>2 DEF IInv, PhaseInv
  <2> QED BY <2>1 DEF IInv, ListInv, HistoryInv, TypeOK
<1>3. CASE created >= NumThreads
  <2>1. 1 \in Worker /\ 1 <= joined /\ 1 <= created
    BY <1>1, <1>3 DEF Worker, IInv, TypeOK
  <2>2. pc[1] = "exit"
    BY <2>1 DEF IInv, PhaseInv
  <2>3. head = NULL
    BY <2>1, <2>2 DEF IInv, PhaseInv
  <2>4. count = 0
    <3>1. ASSUME count # 0 PROVE FALSE
      <4>1. Len(started) + 1 \in 1 .. Len(accepted)
        BY <3>1 DEF IInv, ListInv, HistoryInv, TypeOK
      <4>2. accepted[Len(started) + 1] \in Job
        BY <4>1 DEF IInv, TypeOK
      <4> QED BY <2>3, <3>1, <4>2 DEF IInv, ListInv
    <3> QED BY <3>1
  <2> QED BY <2>3, <2>4
<1> QED BY <1>2, <1>3 DEF IInv, TypeOK

\* Freeing the pool preserves the invariant.
LEMMA FreePoolStep ==
  ASSUME IInv, FreePool
  PROVE  IInv'
<1>a. /\ client = "free" /\ client' = "done" /\ head' = NULL
      /\ UNCHANGED <<tail, next, count, working, shutdown, pc, cur, created,
                     joined, accepted, refused, started, runs>>
  BY DEF FreePool, historyVars
<1>1. head' = head
  BY <1>a, EmptyAtFree
<1>2. HistoryInv' /\ ListInv' /\ RunInv' /\ WorkInv'
  BY <1>a, <1>1, QueueKept DEF historyVars
<1>3. TypeOK'
  BY <1>a, <1>1 DEF IInv, TypeOK, ClientState
<1>4. PhaseInv'
  BY <1>a, <1>1 DEF IInv, PhaseInv
<1>5. NoLostCompletion' /\ NoIdleBacklog'
  BY <1>a DEF IInv, NoLostCompletion, NoIdleBacklog
<1> QED BY <1>2, <1>3, <1>4, <1>5 DEF IInv

-----------------------------------------------------------------------------
(* The theorems. *)

\* The pool starts in a state of the invariant: no thread, no job.
LEMMA InitIInv == Init => IInv
<1> SUFFICES ASSUME Init PROVE IInv
  OBVIOUS
<1>1. /\ head = NULL /\ tail = NULL /\ next = [j \in Job |-> NULL]
      /\ count = 0 /\ working = 0 /\ shutdown = FALSE
      /\ pc = [w \in Worker |-> "absent"] /\ cur = [w \in Worker |-> NULL]
      /\ client = "create" /\ created = 0 /\ joined = 0
      /\ accepted = <<>> /\ refused = {} /\ started = <<>>
      /\ runs = [j \in Job |-> 0]
  BY DEF Init
<1>2. TypeOK
  <2>1. <<>> \in Seq(Job)
    OBVIOUS
  <2>2. /\ next \in [Job -> Job \union {NULL}]
        /\ cur \in [Worker -> Job \union {NULL}]
        /\ runs \in [Job -> Nat]
    BY <1>1
  <2>3. pc \in [Worker -> WorkerState]
    BY <1>1 DEF WorkerState
  <2>4. client \in ClientState
    BY <1>1 DEF ClientState
  <2>5. created \in 0 .. NumThreads /\ joined \in 0 .. NumThreads
    BY <1>1
  <2> QED BY <1>1, <2>1, <2>2, <2>3, <2>4, <2>5 DEF TypeOK
<1>3. HistoryInv /\ ListInv
  BY <1>1 DEF HistoryInv, ListInv
<1>4. RunInv
  BY <1>1 DEF RunInv, Elements
<1>5. WorkInv
  <2>1. InState(pc, {"run", "ran"}) = {}
    BY <1>1 DEF InState
  <2>2. Cardinality({}) = 0
    BY FS_EmptySet
  <2> QED BY <1>1, <2>1, <2>2 DEF WorkInv, Busy
<1>6. PhaseInv
  BY <1>1 DEF PhaseInv, Worker, InState
<1>7. NoLostCompletion
  BY <1>1 DEF NoLostCompletion
<1>8. NoIdleBacklog
  <2>1. InState(pc, {"asleep"}) = {}
    BY <1>1 DEF InState
  <2> QED BY <2>1 DEF NoIdleBacklog
<1> QED BY <1>2, <1>3, <1>4, <1>5, <1>6, <1>7, <1>8 DEF IInv

\* The invariant is inductive: every step of every thread preserves it.
LEMMA NextIInv == IInv /\ [Next]_vars => IInv'
<1> SUFFICES ASSUME IInv, [Next]_vars PROVE IInv'
  OBVIOUS
<1>1. CASE UNCHANGED vars
  BY <1>1 DEF vars, queueVars, threadVars, historyVars, IInv, TypeOK,
     HistoryInv, ListInv, RunInv, WorkInv, Busy, PhaseInv, NoLostCompletion,
     NoIdleBacklog
<1>2. CASE CreateThread
  BY <1>2, CreateThreadStep
<1>3. CASE \E j \in Job : AddJob(j)
  BY <1>3, AddJobStep
<1>4. CASE \E j \in Job : AddJobFails(j)
  <2>1. PICK j \in Job : AddJobFails(j)
    BY <1>4
  <2>2. /\ UNCHANGED <<head, tail, next, count, working, shutdown, pc, cur,
                       client, created, joined, accepted, started, runs>>
        /\ j \notin Elements(accepted) /\ refused' = refused \union {j}
    BY <2>1 DEF AddJobFails, queueVars, threadVars
  <2>3. TypeOK'
    BY <2>2 DEF IInv, TypeOK
  <2>4. HistoryInv'
    BY <2>2 DEF IInv, HistoryInv, Elements
  <2>5. ListInv' /\ RunInv' /\ WorkInv'
    BY <2>2 DEF IInv, ListInv, RunInv, WorkInv, Busy
  <2>6. PhaseInv' /\ NoLostCompletion' /\ NoIdleBacklog'
    BY <2>2 DEF IInv, PhaseInv, NoLostCompletion, NoIdleBacklog
  <2> QED BY <2>3, <2>4, <2>5, <2>6 DEF IInv
<1>5. CASE \/ CreateThreadFails \/ CreateOutOfMemory
           \/ CallWait \/ WaitSleeps \/ WaitReturns \/ WaitWakesSpuriously
           \/ JoinWorker \/ JoinUninitialised
  BY <1>5, OwnerStep
<1>6. CASE Shutdown
  BY <1>6, ShutdownStep
<1>7. CASE FreePool
  BY <1>7, FreePoolStep
<1>8. ASSUME NEW w \in Worker, WorkerStep(w) \/ WakeSpuriously(w)
      PROVE  IInv'
  BY <1>8, TakeStep, IdleStep, RunJobStep, AccountJobStep DEF WorkerStep
<1>9. CASE Terminated
  BY <1>1, <1>9 DEF Terminated
<1> QED BY <1>1, <1>2, <1>3, <1>4, <1>5, <1>6, <1>7, <1>8, <1>9 DEF Next

\* Every reachable state of threadpool.c satisfies the inductive invariant.
THEOREM Invariant == Spec => []IInv
<1>1. Init => IInv
  BY InitIInv
<1>2. IInv /\ [Next]_vars => IInv'
  BY NextIInv
<1> QED BY <1>1, <1>2, PTL DEF Spec

\* Type correctness of the queue, the threads and the history.
THEOREM TypeCorrect == Spec => []TypeOK
<1>1. IInv => TypeOK
  BY DEF IInv
<1> QED BY <1>1, Invariant, PTL

\* The owner never sleeps in threadPoolWait with nobody left to wake it.
THEOREM CompletionNotLost == Spec => []NoLostCompletion
<1>1. IInv => NoLostCompletion
  BY DEF IInv
<1> QED BY <1>1, Invariant, PTL

\* No worker sleeps while a job is queued that no awake worker is about to take.
THEOREM BacklogNotIdle == Spec => []NoIdleBacklog
<1>1. IInv => NoIdleBacklog
  BY DEF IInv
<1> QED BY <1>1, Invariant, PTL

\* The list never reaches a node that has been run and freed.
THEOREM NodesLive == Spec => []NoDanglingNode
<1>1. IInv => NoDanglingNode
  <2> SUFFICES ASSUME IInv PROVE NoDanglingNode
    OBVIOUS
  <2>1. CASE count = 0
    BY <2>1 DEF IInv, ListInv, NoDanglingNode
  <2>2. CASE count # 0
    <3>1. /\ head = accepted[Len(started) + 1] /\ tail = accepted[Len(accepted)]
          /\ Len(started) \in Nat /\ Len(accepted) \in Nat
          /\ Len(started) < Len(accepted)
      BY <2>2 DEF IInv, ListInv, HistoryInv, TypeOK
    <3>2. \A i \in Len(started) + 1 .. Len(accepted) :
            accepted[i] \in Job /\ accepted[i] \notin Elements(started)
      <4> TAKE i \in Len(started) + 1 .. Len(accepted)
      <4>1. /\ accepted \in Seq(Job)
            /\ \A k \in 1 .. Len(started) : started[k] = accepted[k]
            /\ \A k, l \in 1 .. Len(accepted) : accepted[k] = accepted[l] => k = l
        BY DEF IInv, HistoryInv, TypeOK
      <4>2. /\ i \in 1 .. Len(accepted) /\ i > Len(started)
            /\ \A k \in 1 .. Len(started) : k \in 1 .. Len(accepted) /\ k # i
        BY <3>1
      <4>3. accepted[i] \in Job
        BY <4>1, <4>2
      <4>4. \A k \in 1 .. Len(started) : started[k] # accepted[i]
        BY <4>1, <4>2
      <4> QED BY <4>3, <4>4 DEF Elements
    <3>3. \A i \in Len(started) + 1 .. Len(accepted) : runs[accepted[i]] = 0
      BY <3>2 DEF IInv, RunInv
    <3> QED BY <3>1, <3>3 DEF NoDanglingNode
  <2> QED BY <2>1, <2>2
<1> QED BY <1>1, Invariant, PTL

\* When the workers have exited, every started job has run.
LEMMA AllStartedRun ==
  ASSUME IInv, \A w \in Worker : pc[w] # "run"
  PROVE  \A j \in Elements(started) : runs[j] = 1
<1>1. \A j \in Elements(started) : j \in Job
  BY DEF IInv, TypeOK, Elements
<1> QED BY <1>1 DEF IInv, RunInv

\* With an empty queue, the accepted jobs are the started ones.
LEMMA AllStarted ==
  ASSUME IInv, count = 0
  PROVE  Elements(accepted) = Elements(started)
<1>1. Len(accepted) = Len(started)
  BY DEF IInv, ListInv, HistoryInv, TypeOK
<1> QED BY <1>1 DEF IInv, HistoryInv, Elements

\* After the joins no worker runs a job.
LEMMA AllExited ==
  ASSUME IInv, client = "free"
  PROVE  \A w \in Worker : pc[w] # "run"
<1>1. joined = NumThreads /\ created \in Nat
  BY DEF IInv, PhaseInv, TypeOK
<1>2. \A w \in Worker : w <= joined
  BY <1>1 DEF Worker
<1>3. \A w \in Worker : w <= created \/ w > created
  BY <1>1 DEF Worker
<1> QED BY <1>1, <1>2, <1>3 DEF IInv, PhaseInv

\* threadPoolDestroy frees the pool only when every accepted job has run.
THEOREM DestroyDrains == Spec => []DrainedAtFree
<1>1. IInv => DrainedAtFree
  BY EmptyAtFree, AllExited, AllStartedRun, AllStarted DEF DrainedAtFree
<1> QED BY <1>1, Invariant, PTL

\* Only a pool whose creation failed half-way can end the process.
THEOREM CrashConfined == Spec => []CrashOnlyAfterFailedCreate
<1>1. IInv => CrashOnlyAfterFailedCreate
  BY DEF IInv, PhaseInv, CrashOnlyAfterFailedCreate
<1> QED BY <1>1, Invariant, PTL

-----------------------------------------------------------------------------
(* threadpool.c implements JobPool. *)

\* The instance counts as FiniteSets does.
LEMMA PoolCardinality == \A S : Pool!Cardinality(S) = Cardinality(S)
BY DEF Pool!Cardinality, Cardinality

\* A worker that runs no job leaves at most NumThreads - 1 jobs in progress.
LEMMA InProgressBound ==
  ASSUME IInv, NEW w \in Worker, pc[w] # "run"
  PROVE  Cardinality(Pool!InProgress) < NumThreads
<1> DEFINE S == {v \in Worker : pc[v] = "run"}
           f == [v \in S |-> cur[v]]
<1>1. IsFiniteSet(Worker) /\ Cardinality(Worker) = NumThreads
  BY FS_Interval DEF Worker
<1>2. S \in SUBSET Worker /\ S # Worker
  OBVIOUS
<1>3. IsFiniteSet(S) /\ Cardinality(S) <= NumThreads /\ Cardinality(S) # NumThreads
  BY <1>1, <1>2, FS_Subset
<1>4. f \in Surjection(S, Pool!InProgress)
  <2>1. \A v \in S : cur[v] \in Pool!InProgress
    BY DEF IInv, RunInv, Pool!InProgress, Pool!Elements, Elements
  <2>2. \A j \in Pool!InProgress : \E v \in S : cur[v] = j
    BY DEF IInv, RunInv, Pool!InProgress, Pool!Elements, Elements
  <2> QED BY <2>1, <2>2 DEF Surjection
<1>5. Cardinality(Pool!InProgress) <= Cardinality(S) /\ IsFiniteSet(Pool!InProgress)
  BY <1>3, <1>4, FS_Surjection
<1>6. Cardinality(S) \in Nat /\ Cardinality(Pool!InProgress) \in Nat
  BY <1>3, <1>5, FS_CardinalityType
<1> QED BY <1>3, <1>5, <1>6

\* When nothing is outstanding every accepted job has run.
LEMMA NothingOutstanding ==
  ASSUME IInv, ~ Outstanding
  PROVE  Pool!AllRun
<1>1. count = 0 /\ working = 0
  BY DEF Outstanding, IInv, TypeOK
<1>2. \A w \in Worker : pc[w] # "run"
  <2> SUFFICES ASSUME NEW w \in Worker, pc[w] = "run" PROVE FALSE
    OBVIOUS
  <2>1. w \in InState(pc, {"run", "ran"})
    BY DEF InState
  <2>2. Cardinality(InState(pc, {"run", "ran"})) = 0
    BY <1>1 DEF IInv, WorkInv, Busy
  <2>3. IsFiniteSet(InState(pc, {"run", "ran"}))
    BY WorkersFinite
  <2> QED BY <2>1, <2>2, <2>3, FS_EmptySet
<1> QED BY <1>1, <1>2, AllStartedRun, AllStarted DEF Pool!AllRun, Pool!Elements, Elements

\* The initial states of threadpool.c are initial states of the job pool.
LEMMA InitRefines == Init => Pool!Init
BY DEF Init, Pool!Init, PoolPhase

\* Every step of threadpool.c is a step of the job pool or leaves it alone.
LEMMA NextRefines == IInv /\ [Next]_vars => [Pool!Next]_(Pool!poolVars)
<1> SUFFICES ASSUME IInv, [Next]_vars PROVE [Pool!Next]_(Pool!poolVars)
  OBVIOUS
<1> USE DEF Pool!poolVars
<1>1. CASE UNCHANGED vars
  BY <1>1 DEF vars, queueVars, threadVars, historyVars, PoolPhase
<1>2. CASE CreateThread
  <2>1. Pool!Open \/ UNCHANGED Pool!poolVars
    BY <1>2 DEF CreateThread, AfterCreate, historyVars, PoolPhase, Pool!Open,
       Pool!Moves
  <2> QED BY <2>1 DEF Pool!Next
<1>3. CASE CreateThreadFails
  <2>1. Pool!OpenUnwind
    BY <1>3 DEF CreateThreadFails, historyVars, PoolPhase, Pool!OpenUnwind,
       Pool!Moves
  <2> QED BY <2>1 DEF Pool!Next
<1>4. CASE CreateOutOfMemory
  <2>1. Pool!OpenFails
    BY <1>4 DEF CreateOutOfMemory, historyVars, PoolPhase, Pool!OpenFails,
       Pool!Moves
  <2> QED BY <2>1 DEF Pool!Next
<1>5. ASSUME NEW j \in Job, AddJob(j)
      PROVE  Pool!Next
  <2>1. Pool!Accept(j)
    BY <1>5 DEF AddJob, PoolPhase, Pool!Accept, Pool!Elements, Elements
  <2> QED BY <2>1 DEF Pool!Next
<1>6. ASSUME NEW j \in Job, AddJobFails(j)
      PROVE  Pool!Next
  <2>1. Pool!Refuse(j)
    BY <1>6 DEF AddJobFails, threadVars, PoolPhase, Pool!Refuse, Pool!Elements,
       Elements
  <2> QED BY <2>1 DEF Pool!Next
<1>7. CASE CallWait
  <2>1. Pool!Wait
    BY <1>7 DEF CallWait, historyVars, PoolPhase, Pool!Wait, Pool!Moves
  <2> QED BY <2>1 DEF Pool!Next
<1>8. CASE WaitSleeps \/ WaitWakesSpuriously
  BY <1>8 DEF WaitSleeps, WaitWakesSpuriously, historyVars, PoolPhase
<1>9. CASE WaitReturns
  <2>1. Pool!AllRun
    BY <1>9, NothingOutstanding DEF WaitReturns
  <2>2. Pool!WaitReturns
    BY <1>9, <2>1 DEF WaitReturns, historyVars, PoolPhase, Pool!WaitReturns,
       Pool!Moves
  <2> QED BY <2>2 DEF Pool!Next
<1>10. CASE Shutdown
  <2>1. client = "unwind" => created < NumThreads
    BY DEF IInv, PhaseInv
  <2>2. client = "open" => ~ (created < NumThreads)
    BY DEF IInv, PhaseInv
  <2>3. Pool!Close \/ UNCHANGED Pool!poolVars
    BY <1>10, <2>1, <2>2 DEF Shutdown, historyVars, PoolPhase, Pool!Close,
       Pool!Moves
  <2> QED BY <2>3 DEF Pool!Next
<1>11. CASE JoinWorker
  BY <1>11 DEF JoinWorker, AfterJoin, historyVars, PoolPhase
<1>12. CASE JoinUninitialised
  <2>1. created < NumThreads
    BY <1>12 DEF JoinUninitialised, IInv, PhaseInv, TypeOK
  <2>2. Pool!Abort \/ UNCHANGED Pool!poolVars
    BY <1>12, <2>1 DEF JoinUninitialised, AfterJoin, historyVars, PoolPhase,
       Pool!Abort, Pool!Moves
  <2> QED BY <2>2 DEF Pool!Next
<1>13. CASE FreePool
  <2>1. client = "free"
    BY <1>13 DEF FreePool
  <2>2. Pool!AllRun
    BY <2>1, EmptyAtFree, AllExited, AllStartedRun, AllStarted
       DEF Pool!AllRun, Pool!Elements, Elements
  <2>3. Pool!Unwound \/ Pool!CloseReturns
    BY <1>13, <2>2 DEF FreePool, historyVars, PoolPhase, Pool!Unwound,
       Pool!CloseReturns, Pool!Moves
  <2> QED BY <2>3 DEF Pool!Next
<1>14. ASSUME NEW w \in Worker, Take(w)
       PROVE  Pool!Next
  <2>1. Cardinality(Pool!InProgress) < NumThreads
    BY <1>14, InProgressBound DEF Take
  <2>2. Len(started) < Len(accepted) /\ head = accepted[Len(started) + 1]
    BY <1>14 DEF Take, IInv, ListInv, HistoryInv, TypeOK
  <2>3. PoolPhase' = PoolPhase
    BY <1>14 DEF Take, PoolPhase
  <2>4. /\ started' = Append(started, accepted[Len(started) + 1])
        /\ UNCHANGED <<accepted, refused, runs>>
    BY <1>14, <2>2 DEF Take
  <2>5. Pool!Start
    BY <2>1, <2>2, <2>3, <2>4, PoolCardinality DEF Pool!Start
  <2> QED BY <2>5 DEF Pool!Next
<1>15. ASSUME NEW w \in Worker, Sleep(w) \/ WakeSpuriously(w) \/ Exit(w)
       PROVE  UNCHANGED Pool!poolVars
  BY <1>15 DEF Sleep, WakeSpuriously, Exit, historyVars, PoolPhase
<1>16. ASSUME NEW w \in Worker, RunJob(w)
       PROVE  Pool!Next
  <2>1. cur[w] \in Elements(started) /\ runs[cur[w]] = 0 /\ cur[w] \in Job
    BY <1>16 DEF RunJob, IInv, RunInv, TypeOK, Elements
  <2>2. PoolPhase' = PoolPhase
    BY <1>16 DEF RunJob, PoolPhase
  <2>3. runs' = [runs EXCEPT ![cur[w]] = 1] /\ UNCHANGED <<accepted, refused, started>>
    BY <1>16, <2>1 DEF RunJob, IInv, TypeOK
  <2>4. Pool!Run(cur[w])
    BY <2>1, <2>2, <2>3 DEF Pool!Run, Pool!InProgress, Pool!Elements, Elements
  <2> QED BY <2>1, <2>4 DEF Pool!Next
<1>17. ASSUME NEW w \in Worker, AccountJob(w)
       PROVE  UNCHANGED Pool!poolVars
  <2>1. client' = client \/ (client = "waitsleep" /\ client' = "wait")
    <3>1. (client' = IF client = "waitsleep" THEN "wait" ELSE client)
            \/ client' = client
      BY <1>17, Zenon DEF AccountJob, WakeClient
    <3> QED BY <3>1
  <2> QED BY <1>17, <2>1 DEF AccountJob, historyVars, PoolPhase
<1>18. CASE Terminated
  BY <1>1, <1>18 DEF Terminated
<1> QED BY <1>1, <1>2, <1>3, <1>4, <1>5, <1>6, <1>7, <1>8, <1>9, <1>10, <1>11,
           <1>12, <1>13, <1>14, <1>15, <1>16, <1>17, <1>18 DEF Next, WorkerStep

\* threadpool.c implements the job pool for any number of jobs and threads.
THEOREM Refinement == Spec => ImplementsJobPool
<1>1. Init => Pool!Init
  BY InitRefines
<1>2. IInv /\ [Next]_vars => [Pool!Next]_(Pool!poolVars)
  BY NextRefines
<1> QED BY <1>1, <1>2, Invariant, PTL DEF Spec, ImplementsJobPool, Pool!Spec
=============================================================================

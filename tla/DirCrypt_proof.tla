--------------------------- MODULE DirCrypt_proof ---------------------------
(***************************************************************************)
(* Proofs about process_directory, for every set of names, every directory *)
(* and every number of threads.                                            *)
(***************************************************************************)
EXTENDS DirCryptInv, FiniteSetTheorems, SequenceTheorems, TLAPS

PoolFacts == INSTANCE JobPool_proof WITH Job <- Name, Width <- NumThreads

-----------------------------------------------------------------------------
(* The inductive invariant, in named parts. *)

Stage == {"none", "open", "read", "create", "store", "ok", "failed"}

Types ==
  /\ pc \in {"opendir", "pool", "readdir", "inline", "wait", "destroy"} \union Ended
  /\ plan \in Seq({"encrypt", "decrypt"}) /\ plan # <<>>
  /\ DOMAIN dir \subseteq Name /\ DOMAIN before \subseteq DOMAIN dir
  /\ seen \subseteq DOMAIN dir /\ skipped \subseteq seen
  /\ stage \in [Name -> Stage] /\ DOMAIN saw = Name /\ DOMAIN data = Name
  /\ inline \in Name \union {NoFile}

\* Where the main thread is, the pool is; it works on a file itself only there.
OwnerInv ==
  /\ pc \in {"opendir", "failed"} => phase = "new"
  /\ pc = "pool" => phase \in {"new", "unwinding"}
  /\ pc \in {"readdir", "inline"} => phase \in {"open", "closed"}
  /\ pc = "wait" => phase = "waiting"
  /\ pc = "destroy" => phase \in {"open", "closing"}
  /\ pc = "done" => phase = "closed"
  /\ pc # "crashed" => (inline # NoFile <=> pc = "inline")
  /\ pc \in {"opendir", "pool"} => seen = {}
  /\ pc \in {"wait", "destroy", "done"} => DOMAIN before \subseteq seen

\* Every file for which stat succeeded has a task; a task that has not ended is the
\* main thread's, or a job that the pool has still to run.
TaskInv ==
  /\ \A n \in Name : stage[n] = "none" <=> n \notin Returned
  /\ \A n \in Returned :
       \/ stage[n] \in {"ok", "failed"}
       \/ n = inline
       \/ n \in Pool!Elements(accepted) /\ runs[n] = 0

Failed == {n \in Returned : stage[n] = "failed"}

CountInv == IsFiniteSet(Failed) /\ error_counter = Cardinality(Failed)

\* The task of a file whose name fills the buffer has begun to write over it.
WroteItself(n) == Target(n) = n /\ stage[n] \in {"store", "ok", "failed"}

\* A file is what it was unless another task writes it, or its own does; a new file
\* is written by the task of another one.
FilesInv ==
  /\ \A n \in DOMAIN before : Written(n) \/ WroteItself(n) \/ dir[n] = before[n]
  /\ \A n \in Name : stage[n] = "read" => Written(n) \/ saw[n] = dir[n]
  /\ \A n \in DOMAIN dir \ DOMAIN before : Written(n)

ImagesOf(n) == Images(before[n])

\* The way of an undisturbed file to its image.
ImageInv ==
  /\ \A n \in Name : stage[n] \in {"store", "ok"} => Target(n) \in DOMAIN dir
  /\ \A n \in Returned \intersect DOMAIN before : ~Disturbed(n) =>
       /\ stage[n] \in {"create", "store"} => data[n] \in ImagesOf(n)
       /\ stage[n] = "store" => dir[Target(n)] = Empty
       /\ stage[n] = "ok" /\ ~cut => dir[Target(n)] \in ImagesOf(n)

IInv ==
  /\ Types /\ OwnerInv /\ TaskInv /\ CountInv /\ FilesInv /\ ImageInv
  /\ CrashHasACause
  /\ PoolFacts!PoolInv

-----------------------------------------------------------------------------
(* Names. *)

\* A directory entry has a name, and what its task writes has one.
LEMMA TaskNames ==
  ASSUME NEW n \in Name, plan \in Seq({"encrypt", "decrypt"}), plan # <<>>
  PROVE  n # NoFile /\ Target(n) \in Name
<1>1. n # <<>>
  BY DirAssumption
<1>2. mode \in {"encrypt", "decrypt"}
  BY DEF mode
<1> QED BY <1>1, <1>2, DirAssumption DEF Target, NoFile

\* What the mode alone determines stays as long as the call does.
LEMMA SameMode ==
  ASSUME UNCHANGED <<plan, before>>
  PROVE  /\ mode' = mode
         /\ \A m : Target(m)' = Target(m) /\ ImagesOf(m)' = ImagesOf(m)
         /\ \A c : BeyondBuffer(c)' = BeyondBuffer(c)
BY DEF mode, Target, ImagesOf, Images, BeyondBuffer, Crypt

\* What tasks write grows with the files that have one.
LEMMA WrittenGrows ==
  ASSUME UNCHANGED plan, Returned \subseteq Returned'
  PROVE  /\ \A n : Written(n) => Written(n)'
         /\ \A n : Disturbed(n) => Disturbed(n)'
BY DEF Written, Disturbed, mode, Target

-----------------------------------------------------------------------------
(* The pool. *)

\* Both instances of JobPool mean the same pool.
LEMMA SamePool ==
  /\ \A s : Pool!Elements(s) = PoolFacts!Elements(s)
  /\ Pool!AllRun <=> PoolFacts!AllRun
  /\ Pool!InProgress = PoolFacts!InProgress
  /\ \A S : Pool!Cardinality(S) = PoolFacts!Cardinality(S)
BY DEF Pool!Cardinality, PoolFacts!Cardinality, Pool!Elements, PoolFacts!Elements,
       Pool!AllRun, PoolFacts!AllRun, Pool!InProgress, PoolFacts!InProgress

\* What a step of the call does to the pool is a step of the pool.
LEMMA PoolStep ==
  ASSUME PoolFacts!PoolInv, [Pool!Next]_poolVars
  PROVE  PoolFacts!PoolInv'
<1>1. [PoolFacts!Next]_(PoolFacts!poolVars)
  BY SamePool
  DEF poolVars, PoolFacts!poolVars, Pool!Next, PoolFacts!Next,
      Pool!Moves, PoolFacts!Moves, Pool!Open, PoolFacts!Open,
      Pool!OpenFails, PoolFacts!OpenFails, Pool!OpenUnwind, PoolFacts!OpenUnwind,
      Pool!Unwound, PoolFacts!Unwound, Pool!Abort, PoolFacts!Abort,
      Pool!Accept, PoolFacts!Accept, Pool!Refuse, PoolFacts!Refuse,
      Pool!Start, PoolFacts!Start, Pool!Run, PoolFacts!Run,
      Pool!Wait, PoolFacts!Wait, Pool!WaitReturns, PoolFacts!WaitReturns,
      Pool!Close, PoolFacts!Close, Pool!CloseReturns, PoolFacts!CloseReturns
<1> QED BY <1>1, PoolFacts!NextPool

\* A job that has run was accepted; a closed pool has run them all.
LEMMA PoolState ==
  ASSUME PoolFacts!PoolInv
  PROVE  /\ accepted \in Seq(Name) /\ runs \in [Name -> {0, 1}]
         /\ \A n \in Name : n \notin Pool!Elements(accepted) => runs[n] = 0
         /\ phase = "closed" => Pool!AllRun
         /\ Working \subseteq Name
<1>1. PoolFacts!Elements(started) \subseteq PoolFacts!Elements(accepted)
  BY PoolFacts!StartedWasAccepted
<1>2. Working \subseteq Name
  BY DEF PoolFacts!PoolInv, PoolFacts!PoolTypes, Working, Pool!InProgress, Pool!Elements
<1> QED BY <1>1, <1>2, SamePool DEF PoolFacts!PoolInv, PoolFacts!PoolTypes,
                                  PoolFacts!RunWasStarted, PoolFacts!PhaseInv

-----------------------------------------------------------------------------
(* Steps of the main thread. *)

\* The main thread moves on, or a worker takes a job: no task and no file changes.
LEMMA OwnerStep ==
  ASSUME IInv, [Pool!Next]_poolVars,
         UNCHANGED <<dir, callVars, seen, skipped, inline, taskVars, accepted, runs>>,
         pc' \in {"opendir", "pool", "readdir", "inline", "wait", "destroy"} \union Ended,
         OwnerInv', CrashHasACause'
  PROVE  IInv'
<1>1. PoolFacts!PoolInv'
  BY PoolStep DEF IInv
<1>2. Types' /\ CountInv'
  BY DEF IInv, Types, CountInv, Failed, Returned, callVars, taskVars
<1>3. TaskInv'
  BY DEF IInv, TaskInv, Returned, taskVars, Pool!Elements
<1>4. FilesInv'
  BY SameMode DEF IInv, FilesInv, WroteItself, Written, Returned, callVars, taskVars
<1>5. ImageInv'
  BY SameMode DEF IInv, ImageInv, Disturbed, Written, Returned, callVars, taskVars
<1> QED BY <1>1, <1>2, <1>3, <1>4, <1>5 DEF IInv

\* Each move of the main thread keeps it in line with the pool.
LEMMA MainMoves ==
  ASSUME IInv, OpenDir \/ MakePool \/ EndOfDirectory \/ WaitReturns \/ DestroyPool \/ StartTask
  PROVE  IInv'
<1> USE DEF callVars, loopVars, taskVars, poolVars, Goto
<1>1. CASE OpenDir
  <2>1. OwnerInv' /\ CrashHasACause'
    BY <1>1 DEF OpenDir, IInv, OwnerInv, CrashHasACause
  <2> QED BY <1>1, <2>1, OwnerStep DEF OpenDir, Ended
<1>2. CASE MakePool
  <2>1. Pool!Next /\ UNCHANGED <<accepted, runs>>
    BY <1>2 DEF MakePool, Pool!Next, Pool!Open, Pool!OpenFails, Pool!OpenUnwind, Pool!Unwound,
                Pool!Abort, Pool!Moves
  <2>2. OwnerInv' /\ CrashHasACause'
    BY <1>2 DEF MakePool, Pool!Open, Pool!OpenFails, Pool!OpenUnwind, Pool!Unwound,
                Pool!Abort, Pool!Moves, IInv, OwnerInv, CrashHasACause
  <2>3. pc' \in {"pool", "readdir", "crashed"}
    BY <1>2 DEF MakePool
  <2> QED BY <1>2, <2>1, <2>2, <2>3, OwnerStep DEF MakePool, Ended
<1>3. CASE EndOfDirectory
  <2>1. [Pool!Next]_poolVars /\ UNCHANGED <<accepted, runs>>
    BY <1>3 DEF EndOfDirectory, Pool!Next, Pool!Wait, Pool!Moves
  <2>2. OwnerInv' /\ CrashHasACause'
    BY <1>3 DEF EndOfDirectory, HasPool, Pool!Wait, Pool!Moves, IInv, OwnerInv, CrashHasACause
  <2>3. pc' \in {"wait", "done"}
    BY <1>3 DEF EndOfDirectory
  <2> QED BY <1>3, <2>1, <2>2, <2>3, OwnerStep DEF EndOfDirectory, Ended
<1>4. CASE WaitReturns
  <2>1. Pool!Next /\ UNCHANGED <<accepted, runs>>
    BY <1>4 DEF WaitReturns, Pool!Next, Pool!WaitReturns, Pool!Moves
  <2>2. OwnerInv' /\ CrashHasACause'
    BY <1>4 DEF WaitReturns, Pool!WaitReturns, Pool!Moves, IInv, OwnerInv, CrashHasACause
  <2> QED BY <1>4, <2>1, <2>2, OwnerStep DEF WaitReturns, Ended
<1>5. CASE DestroyPool
  <2>1. Pool!Next /\ UNCHANGED <<accepted, runs>>
    BY <1>5 DEF DestroyPool, Pool!Next, Pool!Close, Pool!CloseReturns, Pool!Moves
  <2>2. OwnerInv' /\ CrashHasACause'
    BY <1>5 DEF DestroyPool, Pool!Close, Pool!CloseReturns, Pool!Moves, IInv, OwnerInv,
                CrashHasACause
  <2>3. pc' \in {"destroy", "done"}
    BY <1>5 DEF DestroyPool
  <2> QED BY <1>5, <2>1, <2>2, <2>3, OwnerStep DEF DestroyPool, Ended
<1>6. CASE StartTask
  <2>1. Pool!Next /\ UNCHANGED <<phase, accepted, runs>>
    BY <1>6 DEF StartTask, Pool!Next, Pool!Start
  <2>2. OwnerInv' /\ CrashHasACause'
    BY <1>6, <2>1 DEF StartTask, IInv, OwnerInv, CrashHasACause, Ended
  <2>3. pc' = pc /\ pc \in {"opendir", "pool", "readdir", "inline", "wait", "destroy"} \union Ended
    BY <1>6 DEF StartTask, IInv, Types
  <2> QED BY <1>6, <2>1, <2>2, <2>3, OwnerStep DEF StartTask
<1> QED BY <1>1, <1>2, <1>3, <1>4, <1>5, <1>6

\* readdir returns a name: it is passed over, or it gets a task, which the pool
\* has accepted or the main thread runs.
LEMMA EntryStep ==
  ASSUME IInv, NEW n \in Name, EntryRead(n), [Pool!Next]_poolVars,
         UNCHANGED <<saw, data, runs>>,
         Pool!Elements(accepted) \subseteq Pool!Elements(accepted)',
         phase' = phase, pc' \in {"readdir", "inline"},
         \/ skipped' = skipped \union {n} /\ stage' = stage /\ UNCHANGED <<pc, inline>>
         \/ /\ skipped' = skipped /\ stage' = [stage EXCEPT ![n] = "open"]
            /\ \/ UNCHANGED <<pc, inline>> /\ n \in Pool!Elements(accepted)' /\ runs[n] = 0
               \/ pc' = "inline" /\ inline' = n
  PROVE  IInv'
<1> USE DEF callVars
<1>1. /\ pc = "readdir" /\ n \in DOMAIN dir /\ n \notin seen /\ seen' = seen \union {n}
      /\ UNCHANGED <<dir, plan, before, origin, error_counter, cut>>
  BY DEF EntryRead, Unread
<1>2. PoolFacts!PoolInv'
  BY PoolStep DEF IInv
<1>3. n # NoFile /\ inline = NoFile
  BY <1>1, TaskNames DEF IInv, Types, OwnerInv
<1>4. n \notin Returned /\ stage[n] = "none" /\ Returned' \in {Returned, Returned \union {n}}
  BY <1>1 DEF IInv, Types, TaskInv, Returned
<1>5. /\ Returned \subseteq Returned'
      /\ \A m \in Name \ {n} : stage'[m] = stage[m] /\ (m \in Returned' <=> m \in Returned)
      /\ stage'[n] \in {"none", "open"}
  BY <1>4 DEF IInv, Types
<1>6. Types'
  BY <1>1 DEF IInv, Types, Stage, Ended
<1>7. OwnerInv'
  BY <1>1, <1>3 DEF IInv, OwnerInv
<1>8. TaskInv'
  <2>1. \A m \in Name : stage'[m] = "none" <=> m \notin Returned'
    BY <1>1, <1>4 DEF IInv, Types, TaskInv, Returned
  <2>3. ASSUME NEW m \in Returned'
        PROVE  \/ stage'[m] \in {"ok", "failed"}
               \/ m = inline'
               \/ m \in Pool!Elements(accepted)' /\ runs'[m] = 0
    <3>1. CASE m = n
      BY <3>1, <2>3, <1>1, <1>4 DEF Returned
    <3>2. CASE m # n
      <4>1. m \in Name /\ m \in Returned /\ stage'[m] = stage[m]
        BY <3>2, <2>3, <1>4, <1>5, <1>6 DEF Types, Returned
      <4>2. m # inline
        BY <4>1, <1>3, TaskNames DEF IInv, Types
      <4> QED BY <4>1, <4>2 DEF IInv, TaskInv
    <3> QED BY <3>1, <3>2
  <2> QED BY <2>1, <2>3 DEF TaskInv
<1>9. Failed' = Failed
  BY <1>4, <1>5, <1>6 DEF Failed, IInv, Types, Returned
<1>10. CountInv'
  BY <1>1, <1>9 DEF IInv, CountInv
<1>11. FilesInv'
  BY <1>1, <1>4, <1>5, WrittenGrows, SameMode DEF IInv, Types, FilesInv, WroteItself
<1>12. ImageInv'
  <2>1. \A m : Target(m)' = Target(m) /\ ImagesOf(m)' = ImagesOf(m)
    BY <1>1, SameMode
  <2>2. \A m \in Name : stage'[m] \in {"store", "ok"} => Target(m)' \in DOMAIN dir'
    BY <1>1, <1>5, <2>1 DEF IInv, ImageInv
  <2>3. ASSUME NEW m \in Returned' \intersect DOMAIN before', ~Disturbed(m)'
        PROVE  /\ stage'[m] \in {"create", "store"} => data'[m] \in ImagesOf(m)'
               /\ stage'[m] = "store" => dir'[Target(m)'] = Empty
               /\ stage'[m] = "ok" /\ ~cut' => dir'[Target(m)'] \in ImagesOf(m)'
    <3>1. CASE m = n
      BY <3>1, <1>5
    <3>2. CASE m # n
      <4>1. m \in Name /\ m \in Returned /\ m \in DOMAIN before /\ ~Disturbed(m)
        BY <3>2, <2>3, <1>1, <1>5, <1>6, WrittenGrows DEF Types
      <4> QED BY <3>2, <4>1, <1>1, <1>5, <2>1 DEF IInv, ImageInv
    <3> QED BY <3>1, <3>2
  <2> QED BY <2>2, <2>3 DEF ImageInv
<1>13. CrashHasACause'
  BY DEF CrashHasACause
<1> QED BY <1>2, <1>6, <1>7, <1>8, <1>10, <1>11, <1>12, <1>13 DEF IInv

\* Every way to treat the name is such a step.
LEMMA EntryMoves ==
  ASSUME IInv, NEW n \in Name, SkipEntry(n) \/ SubmitEntry(n) \/ ProcessEntry(n)
  PROVE  IInv'
<1> USE DEF poolVars, Goto
<1>1. pc = "readdir"
  BY DEF SkipEntry, SubmitEntry, ProcessEntry, EntryRead
<1>2. CASE SkipEntry(n)
  BY <1>1, <1>2, EntryStep DEF SkipEntry, Pool!Elements
<1>3. CASE SubmitEntry(n)
  <2>1. Pool!Accept(n) /\ Pool!Next
    BY <1>3 DEF SubmitEntry, Pool!Next
  <2>2. /\ n \notin Pool!Elements(accepted) /\ accepted' = Append(accepted, n)
        /\ UNCHANGED <<phase, runs>>
    BY <2>1 DEF Pool!Accept
  <2>3. accepted \in Seq(Name) /\ runs[n] = 0
    BY <2>2, PoolState DEF IInv
  <2>4. Pool!Elements(accepted)' = Pool!Elements(accepted) \union {n}
    <3>1. PoolFacts!Elements(Append(accepted, n)) = PoolFacts!Elements(accepted) \union {n}
      BY <2>3, PoolFacts!ElementsAppend
    <3> QED BY <2>2, <3>1, SamePool
  <2> QED BY <1>1, <1>3, <2>1, <2>2, <2>3, <2>4, EntryStep DEF SubmitEntry
<1>4. CASE ProcessEntry(n)
  <2>1. [Pool!Next]_poolVars /\ UNCHANGED <<phase, accepted, runs>>
    BY <1>4 DEF ProcessEntry, Pool!Next, Pool!Refuse
  <2> QED BY <1>4, <2>1, EntryStep DEF ProcessEntry, Pool!Elements
<1> QED BY <1>2, <1>3, <1>4

-----------------------------------------------------------------------------
(* Steps of the tasks. *)

\* A task that works has a file that was returned.
LEMMA AtTask ==
  ASSUME IInv, NEW n \in Name, NEW label \in Stage \ {"none"}, At(n, label)
  PROVE  /\ n \in Returned /\ n \in DOMAIN dir /\ stage[n] = label
         /\ pc # "crashed" /\ n # NoFile /\ Target(n) \in Name
<1>1. stage[n] = label /\ pc # "crashed" /\ n \in Returned
  BY DEF At, IInv, TaskInv
<1> QED BY <1>1, TaskNames DEF IInv, Types, Returned

\* What a task writes does not become part of another file of the directory,
\* unless that file is written by a task.
LEMMA PutOther ==
  ASSUME Types, NEW n \in Returned, n \in Name, NEW c, Put(Target(n), c)
  PROVE  /\ DOMAIN dir' = DOMAIN dir \union {Target(n)} /\ DOMAIN dir' \subseteq Name
         /\ dir'[Target(n)] = c
         /\ \A m \in DOMAIN dir : m # n /\ ~Written(m) => dir'[m] = dir[m]
         /\ n \in DOMAIN dir /\ Target(n) # n => dir'[n] = dir[n]
         /\ \A m \in DOMAIN dir' \ DOMAIN dir : n \in DOMAIN dir => Written(m)
         /\ \A m \in Returned \ {n} : Target(m) \in DOMAIN dir =>
              Disturbed(m) \/ dir'[Target(m)] = dir[Target(m)]
<1>1. Target(n) \in Name
  BY TaskNames DEF Types
<1>2. /\ DOMAIN dir' = DOMAIN dir \union {Target(n)}
      /\ dir'[Target(n)] = c
      /\ \A m \in DOMAIN dir : m # Target(n) => dir'[m] = dir[m]
  BY DEF Put
<1>3. \A m : m = Target(n) => m = n \/ Written(m)
  BY DEF Written
<1>4. \A m \in Returned \ {n} : Target(m) = Target(n) => Disturbed(m)
  BY DEF Disturbed
<1> QED BY <1>1, <1>2, <1>3, <1>4 DEF Types

\* A task goes on: who works on what does not change.
LEMMA ContinueStep ==
  ASSUME IInv, NEW n \in Name, NEW from \in {"open", "read", "create"}, At(n, from),
         NEW label \in {"read", "create", "store"}, Continue(n, label), UNCHANGED cut,
         DOMAIN saw' = Name, DOMAIN data' = Name,
         DOMAIN dir \subseteq DOMAIN dir', DOMAIN dir' \subseteq Name
  PROVE  /\ Types' /\ OwnerInv' /\ TaskInv' /\ CountInv' /\ CrashHasACause'
         /\ PoolFacts!PoolInv'
         /\ Returned' = Returned /\ UNCHANGED <<plan, before>>
         /\ \A m : Written(m)' <=> Written(m)
         /\ \A m : Disturbed(m)' <=> Disturbed(m)
         /\ \A m : Target(m)' = Target(m) /\ ImagesOf(m)' = ImagesOf(m)
         /\ stage'[n] = label /\ \A m \in Name \ {n} : stage'[m] = stage[m]
<1>1. /\ stage' = [stage EXCEPT ![n] = label]
      /\ UNCHANGED <<pc, plan, before, origin, seen, skipped, inline, pool_active,
                     error_counter, cut>>
      /\ UNCHANGED <<phase, accepted, refused, started, runs>>
  BY DEF Continue, callVars, loopVars, poolVars
<1>2. /\ n \in Returned /\ stage[n] = from /\ pc # "crashed"
      /\ stage[n] \notin {"none", "ok", "failed"}
  BY AtTask DEF Stage, At
<1>3. Returned' = Returned
  BY <1>1 DEF Returned
<1>4. /\ \A m : Written(m)' <=> Written(m)
      /\ \A m : Disturbed(m)' <=> Disturbed(m)
      /\ \A m : Target(m)' = Target(m) /\ ImagesOf(m)' = ImagesOf(m)
  BY <1>1, <1>3, SameMode DEF Written, Disturbed
<1>5. stage'[n] = label /\ \A m \in Name \ {n} : stage'[m] = stage[m]
  BY <1>1 DEF IInv, Types
<1>6. Types'
  BY <1>1 DEF IInv, Types, Stage
<1>7. OwnerInv' /\ CrashHasACause'
  BY <1>1, <1>2 DEF IInv, OwnerInv, CrashHasACause
<1>8. TaskInv'
  <2>1. n = inline \/ (n \in Pool!Elements(accepted) /\ runs[n] = 0)
    BY <1>2 DEF IInv, TaskInv
  <2>2. Pool!Elements(accepted)' = Pool!Elements(accepted)
    BY <1>1 DEF Pool!Elements
  <2>3. Returned \subseteq Name
    BY DEF IInv, Types, Returned
  <2> QED BY <1>1, <1>2, <1>3, <1>5, <2>1, <2>2, <2>3 DEF IInv, TaskInv
<1>9. Failed' = Failed
  BY <1>2, <1>3, <1>5 DEF Failed, IInv, Types, Returned
<1>10. CountInv'
  BY <1>1, <1>9 DEF IInv, CountInv
<1>11. PoolFacts!PoolInv'
  <2>1. UNCHANGED poolVars
    BY <1>1 DEF poolVars
  <2> QED BY <2>1, PoolStep DEF IInv
<1> QED BY <1>1, <1>3, <1>4, <1>5, <1>6, <1>7, <1>8, <1>10, <1>11

\* fstat.
LEMMA OpenInputStep ==
  ASSUME IInv, NEW n \in Name, OpenInput(n)
  PROVE  IInv'
<1>1. /\ At(n, "open") /\ Continue(n, "read") /\ UNCHANGED <<dir, data, cut>>
      /\ saw' = [saw EXCEPT ![n] = dir[n]]
  BY DEF OpenInput, SizeOf
<1>2. saw'[n] = dir[n] /\ DOMAIN saw' = Name /\ \A m \in Name \ {n} : saw'[m] = saw[m]
  BY <1>1 DEF IInv, Types
<1>3. /\ Types' /\ OwnerInv' /\ TaskInv' /\ CountInv' /\ CrashHasACause'
      /\ PoolFacts!PoolInv'
      /\ Returned' = Returned /\ UNCHANGED <<plan, before>>
      /\ \A m : Written(m)' <=> Written(m)
      /\ \A m : Disturbed(m)' <=> Disturbed(m)
      /\ \A m : Target(m)' = Target(m) /\ ImagesOf(m)' = ImagesOf(m)
      /\ stage'[n] = "read" /\ \A m \in Name \ {n} : stage'[m] = stage[m]
  BY <1>1, <1>2, ContinueStep DEF IInv, Types
<1>4. FilesInv'
  <2>1. \A m \in Name : WroteItself(m) => WroteItself(m)'
    BY <1>1, <1>3 DEF WroteItself, At
  <2> QED BY <1>1, <1>2, <1>3, <2>1 DEF IInv, Types, FilesInv
<1>5. ImageInv'
  BY <1>1, <1>3 DEF IInv, Types, Returned, ImageInv
<1> QED BY <1>3, <1>4, <1>5 DEF IInv

\* A file that no other task writes is read as it is.
LEMMA ReadsItsFile ==
  ASSUME IInv, NEW n \in Name, stage[n] = "read", ~Written(n)
  PROVE  Readable(n) = {dir[n]} /\ saw[n] = dir[n]
<1>1. \A m \in Writers(n) : m \in Returned /\ m # n /\ Target(m) = n
  BY PoolState DEF Writers, IInv, TaskInv
<1>2. Writers(n) = {}
  BY <1>1 DEF Written
<1> QED BY <1>2 DEF Readable, IInv, FilesInv

\* The file is read and transformed.
LEMMA ReadInputStep ==
  ASSUME IInv, NEW n \in Name, ReadInput(n)
  PROVE  IInv'
<1>1. /\ At(n, "read") /\ Continue(n, "create") /\ UNCHANGED <<dir, cut>>
      /\ saw' = [saw EXCEPT ![n] = Empty]
  BY DEF ReadInput
<1>2. PICK c \in Readable(n) :
        \E image \in Images(c) : data' = [data EXCEPT ![n] = image]
  BY DEF ReadInput
<1>3. /\ DOMAIN saw' = Name /\ \A m \in Name \ {n} : saw'[m] = saw[m]
      /\ DOMAIN data' = Name /\ \A m \in Name \ {n} : data'[m] = data[m]
      /\ data'[n] \in Images(c)
  BY <1>1, <1>2 DEF IInv, Types
<1>4. /\ Types' /\ OwnerInv' /\ TaskInv' /\ CountInv' /\ CrashHasACause'
      /\ PoolFacts!PoolInv'
      /\ Returned' = Returned /\ UNCHANGED <<plan, before>>
      /\ \A m : Written(m)' <=> Written(m)
      /\ \A m : Disturbed(m)' <=> Disturbed(m)
      /\ \A m : Target(m)' = Target(m) /\ ImagesOf(m)' = ImagesOf(m)
      /\ stage'[n] = "create" /\ \A m \in Name \ {n} : stage'[m] = stage[m]
  BY <1>1, <1>3, ContinueStep DEF IInv, Types
<1>5. FilesInv'
  BY <1>1, <1>3, <1>4 DEF IInv, Types, FilesInv, WroteItself, At
<1>6. n \in DOMAIN before /\ ~Disturbed(n) => data'[n] \in ImagesOf(n)
  <2> SUFFICES ASSUME n \in DOMAIN before, ~Disturbed(n)
               PROVE  data'[n] \in ImagesOf(n)
    OBVIOUS
  <2>1. ~Written(n) /\ stage[n] = "read"
    BY <1>1 DEF Disturbed, At
  <2>2. c = dir[n] /\ dir[n] = before[n]
    BY <2>1, ReadsItsFile DEF IInv, FilesInv, WroteItself
  <2> QED BY <1>2, <1>3, <2>2 DEF ImagesOf
<1>7. ImageInv'
  <2>1. \A m \in Name : stage'[m] \in {"store", "ok"} => Target(m)' \in DOMAIN dir'
    BY <1>1, <1>4 DEF IInv, ImageInv
  <2>2. ASSUME NEW m \in Returned' \intersect DOMAIN before', ~Disturbed(m)'
        PROVE  /\ stage'[m] \in {"create", "store"} => data'[m] \in ImagesOf(m)'
               /\ stage'[m] = "store" => dir'[Target(m)'] = Empty
               /\ stage'[m] = "ok" /\ ~cut' => dir'[Target(m)'] \in ImagesOf(m)'
    <3>1. CASE m = n
      BY <3>1, <2>2, <1>4, <1>6
    <3>2. CASE m # n
      <4>1. m \in Name /\ m \in Returned /\ m \in DOMAIN before /\ ~Disturbed(m)
        BY <2>2, <1>4 DEF IInv, Types
      <4> QED BY <3>2, <4>1, <1>1, <1>3, <1>4 DEF IInv, ImageInv
    <3> QED BY <3>1, <3>2
  <2> QED BY <2>1, <2>2 DEF ImageInv
<1> QED BY <1>4, <1>5, <1>7 DEF IInv

\* The process dies in a task: what was read is not what the task began with, or it
\* is a content that may end the process by itself.
LEMMA TaskCrashesStep ==
  ASSUME IInv, NEW n \in Name, ReadOverruns(n) \/ BlockOverruns(n) \/ BlockPoolAborts(n)
  PROVE  IInv'
<1>1. TaskCrashes(n)
  BY DEF ReadOverruns, BlockOverruns, BlockPoolAborts
<1>2. /\ At(n, "read") /\ pc' = "crashed"
      /\ UNCHANGED <<dir, callVars, loopVars, taskVars, poolVars>>
  BY <1>1 DEF TaskCrashes, Goto
<1>3. n \in Returned /\ n \in DOMAIN dir /\ stage[n] = "read"
  BY <1>2, AtTask DEF Stage
<1>4. Written(n) \/ IsLarge(before[n]) \/ BeyondBuffer(before[n])
  <2> SUFFICES ASSUME ~Written(n)
               PROVE  IsLarge(before[n]) \/ BeyondBuffer(before[n])
    OBVIOUS
  <2>1. Readable(n) = {dir[n]} /\ saw[n] = dir[n]
    BY <1>3, ReadsItsFile
  <2>2. dir[n] = before[n]
    BY <1>3 DEF IInv, FilesInv, WroteItself
  <2> QED BY <2>1, <2>2 DEF ReadOverruns, BlockOverruns, BlockPoolAborts
<1>5. CrashHasACause'
  BY <1>2, <1>3, <1>4, SameMode
  DEF CrashHasACause, Returned, Written, callVars, loopVars, taskVars
<1>6. OwnerInv'
  BY <1>2 DEF OwnerInv
<1> QED BY <1>2, <1>5, <1>6, OwnerStep DEF loopVars, poolVars, Ended

\* The output is created, and empty.
LEMMA CreateOutputStep ==
  ASSUME IInv, NEW n \in Name, CreateOutput(n)
  PROVE  IInv'
<1>1. /\ At(n, "create") /\ Continue(n, "store") /\ UNCHANGED <<saw, data, cut>>
      /\ Put(Target(n), Empty)
  BY DEF CreateOutput
<1>2. n \in Returned /\ n \in DOMAIN dir /\ stage[n] = "create"
  BY <1>1, AtTask DEF Stage
<1>3. /\ DOMAIN dir' = DOMAIN dir \union {Target(n)} /\ DOMAIN dir' \subseteq Name
      /\ dir'[Target(n)] = Empty
      /\ \A m \in DOMAIN dir : m # n /\ ~Written(m) => dir'[m] = dir[m]
      /\ Target(n) # n => dir'[n] = dir[n]
      /\ \A m \in DOMAIN dir' \ DOMAIN dir : Written(m)
      /\ \A m \in Returned \ {n} : Target(m) \in DOMAIN dir =>
           Disturbed(m) \/ dir'[Target(m)] = dir[Target(m)]
  BY <1>1, <1>2, PutOther DEF IInv
<1>4. /\ Types' /\ OwnerInv' /\ TaskInv' /\ CountInv' /\ CrashHasACause'
      /\ PoolFacts!PoolInv'
      /\ Returned' = Returned /\ UNCHANGED <<plan, before>>
      /\ \A m : Written(m)' <=> Written(m)
      /\ \A m : Disturbed(m)' <=> Disturbed(m)
      /\ \A m : Target(m)' = Target(m) /\ ImagesOf(m)' = ImagesOf(m)
      /\ stage'[n] = "store" /\ \A m \in Name \ {n} : stage'[m] = stage[m]
  BY <1>1, <1>3, ContinueStep DEF IInv, Types
<1>5. FilesInv'
  <2>1. \A m \in DOMAIN before' : Written(m)' \/ WroteItself(m)' \/ dir'[m] = before'[m]
    BY <1>2, <1>3, <1>4 DEF IInv, Types, FilesInv, WroteItself
  <2>2. \A m \in Name : stage'[m] = "read" => m # n /\ m \in DOMAIN dir
    BY <1>4 DEF IInv, TaskInv, Types, Returned
  <2> QED BY <1>1, <1>3, <1>4, <2>1, <2>2 DEF IInv, FilesInv
<1>6. ImageInv'
  <2>1. \A m \in Name : stage'[m] \in {"store", "ok"} => Target(m)' \in DOMAIN dir'
    BY <1>3, <1>4 DEF IInv, ImageInv
  <2>2. ASSUME NEW m \in Returned' \intersect DOMAIN before', ~Disturbed(m)'
        PROVE  /\ stage'[m] \in {"create", "store"} => data'[m] \in ImagesOf(m)'
               /\ stage'[m] = "store" => dir'[Target(m)'] = Empty
               /\ stage'[m] = "ok" /\ ~cut' => dir'[Target(m)'] \in ImagesOf(m)'
    <3>1. m \in Name /\ m \in Returned /\ m \in DOMAIN before /\ ~Disturbed(m)
      BY <2>2, <1>4 DEF IInv, Types
    <3>2. CASE m = n
      BY <3>1, <3>2, <1>1, <1>2, <1>3, <1>4 DEF IInv, ImageInv
    <3>3. CASE m # n
      BY <3>1, <3>3, <1>1, <1>3, <1>4 DEF IInv, ImageInv
    <3> QED BY <3>2, <3>3
  <2> QED BY <2>1, <2>2 DEF ImageInv
<1> QED BY <1>4, <1>5, <1>6 DEF IInv

\* A task ends, in a thread of the pool or in the main thread.
LEMMA EndsStep ==
  ASSUME IInv, NEW n \in Name, NEW from \in {"read", "create", "store"}, At(n, from),
         NEW result \in {"ok", "failed"}, TaskEnds(n, result),
         DOMAIN dir \subseteq DOMAIN dir', DOMAIN dir' \subseteq Name
  PROVE  /\ Types' /\ OwnerInv' /\ TaskInv' /\ CountInv' /\ CrashHasACause'
         /\ PoolFacts!PoolInv'
         /\ Returned' = Returned /\ UNCHANGED <<plan, before>>
         /\ \A m : Written(m)' <=> Written(m)
         /\ \A m : Disturbed(m)' <=> Disturbed(m)
         /\ \A m : Target(m)' = Target(m) /\ ImagesOf(m)' = ImagesOf(m)
         /\ stage'[n] = result
         /\ \A m \in Name \ {n} : stage'[m] = stage[m] /\ saw'[m] = saw[m] /\ data'[m] = data[m]
<1>1. /\ stage' = [stage EXCEPT ![n] = result]
      /\ error_counter' = IF result = "failed" THEN error_counter + 1 ELSE error_counter
      /\ saw' = [saw EXCEPT ![n] = Empty] /\ data' = [data EXCEPT ![n] = Empty]
      /\ UNCHANGED <<plan, before, origin, seen, skipped, pool_active>>
  BY DEF TaskEnds, Counted, callVars
<1>2. \/ n = inline /\ inline' = NoFile /\ pc' = "readdir" /\ UNCHANGED poolVars
      \/ n # inline /\ Pool!Run(n) /\ UNCHANGED <<pc, inline>>
  BY DEF TaskEnds, Goto
<1>3. /\ n \in Returned /\ stage[n] = from /\ pc # "crashed" /\ n # NoFile
      /\ stage[n] \notin {"none", "ok", "failed"}
  BY AtTask DEF Stage, At
<1>4. Returned' = Returned
  BY <1>1 DEF Returned
<1>5. /\ \A m : Written(m)' <=> Written(m)
      /\ \A m : Disturbed(m)' <=> Disturbed(m)
      /\ \A m : Target(m)' = Target(m) /\ ImagesOf(m)' = ImagesOf(m)
  BY <1>1, <1>4, SameMode DEF Written, Disturbed
<1>6. /\ stage'[n] = result
      /\ \A m \in Name \ {n} : stage'[m] = stage[m] /\ saw'[m] = saw[m] /\ data'[m] = data[m]
  BY <1>1 DEF IInv, Types
<1>7. Types'
  BY <1>1, <1>2 DEF IInv, Types, Stage
<1>8. [Pool!Next]_poolVars /\ UNCHANGED <<phase, accepted>>
  BY <1>2 DEF Pool!Next, Pool!Run, poolVars
<1>9. PoolFacts!PoolInv'
  BY <1>8, PoolStep DEF IInv
<1>10. n = inline => pc = "inline"
  BY <1>3 DEF IInv, OwnerInv
<1>11. OwnerInv' /\ CrashHasACause'
  BY <1>1, <1>2, <1>3, <1>8, <1>10 DEF IInv, OwnerInv, CrashHasACause
<1>12. TaskInv'
  <2>1. runs \in [Name -> {0, 1}] /\ Returned \subseteq Name
    BY PoolState DEF IInv, Types, Returned
  <2>2. \A m \in Name \ {n} : runs'[m] = runs[m]
    BY <1>2, <2>1 DEF Pool!Run, poolVars
  <2>3. Pool!Elements(accepted)' = Pool!Elements(accepted)
    BY <1>8 DEF Pool!Elements
  <2>4. \A m \in Name : stage'[m] = "none" <=> m \notin Returned'
    BY <1>3, <1>4, <1>6 DEF IInv, TaskInv
  <2>5. \A m \in Name \ {n} : m = inline => m = inline'
    BY <1>2
  <2>6. ASSUME NEW m \in Returned', m # n
        PROVE  \/ stage'[m] \in {"ok", "failed"}
               \/ m = inline'
               \/ m \in Pool!Elements(accepted)' /\ runs'[m] = 0
    BY <2>1, <2>2, <2>3, <2>5, <2>6, <1>4, <1>6 DEF IInv, TaskInv
  <2> QED BY <2>4, <2>6, <1>6 DEF TaskInv
<1>13. CountInv'
  <2>1. IsFiniteSet(Failed) /\ error_counter = Cardinality(Failed) /\ n \notin Failed
    BY <1>3 DEF IInv, CountInv, Failed
  <2>2. Returned \subseteq Name
    BY DEF IInv, Types, Returned
  <2>3. CASE result = "failed"
    <3>1. Failed' = Failed \union {n}
      BY <2>2, <2>3, <1>3, <1>4, <1>6 DEF Failed
    <3> QED BY <2>1, <2>3, <3>1, <1>1, FS_AddElement DEF CountInv
  <2>4. CASE result = "ok"
    <3>1. Failed' = Failed
      BY <2>2, <2>4, <1>3, <1>4, <1>6 DEF Failed
    <3> QED BY <2>1, <2>4, <3>1, <1>1 DEF CountInv
  <2> QED BY <2>3, <2>4
<1> QED BY <1>1, <1>4, <1>5, <1>6, <1>7, <1>9, <1>11, <1>12, <1>13

\* A task fails: its output is what it was, or empty.
LEMMA TaskFailsStep ==
  ASSUME IInv, NEW n \in Name, TaskFails(n)
  PROVE  IInv'
<1>1. PICK from \in {"read", "create", "store"} : At(n, from)
  BY DEF TaskFails
<1>2. TaskEnds(n, "failed") /\ UNCHANGED <<dir, cut>>
  BY DEF TaskFails
<1>3. /\ Types' /\ OwnerInv' /\ TaskInv' /\ CountInv' /\ CrashHasACause'
      /\ PoolFacts!PoolInv'
      /\ Returned' = Returned /\ UNCHANGED <<plan, before>>
      /\ \A m : Written(m)' <=> Written(m)
      /\ \A m : Disturbed(m)' <=> Disturbed(m)
      /\ \A m : Target(m)' = Target(m) /\ ImagesOf(m)' = ImagesOf(m)
      /\ stage'[n] = "failed"
      /\ \A m \in Name \ {n} : stage'[m] = stage[m] /\ saw'[m] = saw[m] /\ data'[m] = data[m]
  BY <1>1, <1>2, EndsStep DEF IInv, Types
<1>4. FilesInv'
  <2>1. \A m \in Name : WroteItself(m) => WroteItself(m)'
    BY <1>3 DEF WroteItself
  <2> QED BY <1>2, <1>3, <2>1 DEF IInv, Types, FilesInv
<1>5. ImageInv'
  <2>1. \A m \in Name : stage'[m] \in {"store", "ok"} => Target(m)' \in DOMAIN dir'
    BY <1>2, <1>3 DEF IInv, ImageInv
  <2>2. ASSUME NEW m \in Returned' \intersect DOMAIN before', ~Disturbed(m)'
        PROVE  /\ stage'[m] \in {"create", "store"} => data'[m] \in ImagesOf(m)'
               /\ stage'[m] = "store" => dir'[Target(m)'] = Empty
               /\ stage'[m] = "ok" /\ ~cut' => dir'[Target(m)'] \in ImagesOf(m)'
    <3>1. m \in Name /\ m \in Returned /\ m \in DOMAIN before /\ ~Disturbed(m)
      BY <2>2, <1>3 DEF IInv, Types
    <3> QED BY <3>1, <1>2, <1>3 DEF IInv, ImageInv
  <2> QED BY <2>1, <2>2 DEF ImageInv
<1> QED BY <1>3, <1>4, <1>5 DEF IInv

\* The image is written, in full, in part, or mixed with that of another task.
LEMMA WriteOutputStep ==
  ASSUME IInv, NEW n \in Name, WriteOutput(n)
  PROVE  IInv'
<1> DEFINE out == Target(n)
<1>1. At(n, "store") /\ TaskEnds(n, "ok")
  BY DEF WriteOutput
<1>2. n \in Returned /\ n \in DOMAIN dir /\ stage[n] = "store"
  BY <1>1, AtTask DEF Stage
<1>3. out \in DOMAIN dir /\ out \in Name
  BY <1>2 DEF IInv, Types, ImageInv
<1>4. PICK c : Put(out, c) /\ \/ c = data[n] /\ UNCHANGED cut
                              \/ dir[out] # Empty /\ UNCHANGED cut
                              \/ cut' = TRUE
  BY DEF WriteOutput
<1>5. /\ DOMAIN dir' = DOMAIN dir \union {out} /\ DOMAIN dir' \subseteq Name
      /\ dir'[out] = c
      /\ \A m \in DOMAIN dir : m # n /\ ~Written(m) => dir'[m] = dir[m]
      /\ Target(n) # n => dir'[n] = dir[n]
      /\ \A m \in DOMAIN dir' \ DOMAIN dir : Written(m)
      /\ \A m \in Returned \ {n} : Target(m) \in DOMAIN dir =>
           Disturbed(m) \/ dir'[Target(m)] = dir[Target(m)]
  BY <1>2, <1>3, <1>4, PutOther DEF IInv
<1>6. cut' \in {cut, TRUE}
  BY <1>4
<1> HIDE DEF out
<1>7. /\ Types' /\ OwnerInv' /\ TaskInv' /\ CountInv' /\ CrashHasACause'
      /\ PoolFacts!PoolInv'
      /\ Returned' = Returned /\ UNCHANGED <<plan, before>>
      /\ \A m : Written(m)' <=> Written(m)
      /\ \A m : Disturbed(m)' <=> Disturbed(m)
      /\ \A m : Target(m)' = Target(m) /\ ImagesOf(m)' = ImagesOf(m)
      /\ stage'[n] = "ok"
      /\ \A m \in Name \ {n} : stage'[m] = stage[m] /\ saw'[m] = saw[m] /\ data'[m] = data[m]
  BY <1>1, <1>5, EndsStep DEF IInv, Types
<1>8. FilesInv'
  <2>1. \A m \in DOMAIN before' : Written(m)' \/ WroteItself(m)' \/ dir'[m] = before'[m]
    BY <1>2, <1>5, <1>7 DEF IInv, Types, FilesInv, WroteItself
  <2>2. \A m \in Name : stage'[m] = "read" => m # n /\ m \in DOMAIN dir
    BY <1>7 DEF IInv, TaskInv, Types, Returned
  <2> QED BY <1>5, <1>7, <2>1, <2>2 DEF IInv, FilesInv
<1>9. ImageInv'
  <2>1. \A m \in Name : stage'[m] \in {"store", "ok"} => Target(m)' \in DOMAIN dir'
    BY <1>5, <1>7 DEF IInv, ImageInv, out
  <2>2. ASSUME NEW m \in Returned' \intersect DOMAIN before', ~Disturbed(m)'
        PROVE  /\ stage'[m] \in {"create", "store"} => data'[m] \in ImagesOf(m)'
               /\ stage'[m] = "store" => dir'[Target(m)'] = Empty
               /\ stage'[m] = "ok" /\ ~cut' => dir'[Target(m)'] \in ImagesOf(m)'
    <3>1. m \in Name /\ m \in Returned /\ m \in DOMAIN before /\ ~Disturbed(m)
      BY <2>2, <1>7 DEF IInv, Types
    <3>2. CASE m = n
      <4>1. dir[out] = Empty /\ data[n] \in ImagesOf(n)
        BY <3>1, <3>2, <1>2 DEF IInv, ImageInv, out
      <4>2. ~cut' => c \in ImagesOf(n)
        BY <4>1, <1>4
      <4> QED BY <3>2, <4>2, <1>5, <1>7 DEF out
    <3>3. CASE m # n
      <4>1. stage[m] \in {"store", "ok"} =>
              dir'[Target(m)] = dir[Target(m)]
        BY <3>1, <3>3, <1>5 DEF IInv, ImageInv
      <4>2. stage'[m] = stage[m] /\ data'[m] = data[m]
        BY <3>1, <3>3, <1>7
      <4>3. /\ stage[m] \in {"create", "store"} => data[m] \in ImagesOf(m)
            /\ stage[m] = "store" => dir[Target(m)] = Empty
            /\ stage[m] = "ok" /\ ~cut => dir[Target(m)] \in ImagesOf(m)
        BY <3>1 DEF IInv, ImageInv
      <4>4. Target(m)' = Target(m) /\ ImagesOf(m)' = ImagesOf(m)
        BY <1>7
      <4>5. ~cut' => ~cut
        BY <1>6, Zenon
      <4> QED BY <4>1, <4>2, <4>3, <4>4, <4>5
    <3> QED BY <3>2, <3>3
  <2> QED BY <2>1, <2>2 DEF ImageInv
<1> QED BY <1>7, <1>8, <1>9 DEF IInv

-----------------------------------------------------------------------------
(* Inductiveness, and what follows. *)

\* The next call begins with the files that are there.
LEMMA NextCallStep ==
  ASSUME IInv, NextCall
  PROVE  IInv'
<1>1. /\ pc = "done" /\ error_counter = 0 /\ Len(plan) > 1 /\ plan' = Tail(plan)
      /\ pc' = "opendir" /\ before' = dir' /\ DOMAIN dir' \subseteq DOMAIN dir
      /\ seen' = {} /\ skipped' = {} /\ stage' = [n \in Name |-> "none"]
      /\ UNCHANGED <<inline, error_counter, cut, saw, data>>
  BY DEF NextCall, Goto
<1>2. PoolFacts!PoolInv'
  <2>1. phase' = "new" /\ accepted' = <<>> /\ refused' = {} /\ started' = <<>>
        /\ runs' = [n \in Name |-> 0]
    BY DEF NextCall
  <2>2. <<>> \in Seq(Name)
    OBVIOUS
  <2> QED BY <2>1, <2>2 DEF PoolFacts!PoolInv, PoolFacts!PoolTypes, PoolFacts!InOrder,
               PoolFacts!RunWasStarted, PoolFacts!PhaseInv, PoolFacts!AllRun,
               PoolFacts!Elements, PoolFacts!Phase
<1>3. plan' \in Seq({"encrypt", "decrypt"}) /\ plan' # <<>>
  <2>1. plan \in Seq({"encrypt", "decrypt"}) /\ plan # <<>>
    BY DEF IInv, Types
  <2>2. Tail(plan) \in Seq({"encrypt", "decrypt"}) /\ Len(Tail(plan)) = Len(plan) - 1
    BY <2>1, HeadTailProperties
  <2>3. Len(plan) \in Nat /\ Len(plan) > 1
    BY <1>1, <2>1, LenProperties
  <2>4. Len(Tail(plan)) # 0
    BY <2>2, <2>3
  <2>5. Tail(plan) # <<>>
    BY <2>4, EmptySeq
  <2> QED BY <1>1, <2>2, <2>5
<1>4. Returned' = {} /\ Failed' = {}
  BY <1>1 DEF Returned, Failed
<1>5. Types' /\ TaskInv'
  BY <1>1, <1>3, <1>4 DEF IInv, Types, Stage, TaskInv
<1>6. OwnerInv' /\ CrashHasACause'
  BY <1>1 DEF NextCall, IInv, OwnerInv, CrashHasACause
<1>7. CountInv'
  BY <1>1, <1>4, FS_EmptySet DEF CountInv
<1>8. FilesInv' /\ ImageInv'
  BY <1>1, <1>4 DEF FilesInv, ImageInv
<1> QED BY <1>2, <1>5, <1>6, <1>7, <1>8 DEF IInv

\* The invariant holds before the first call.
LEMMA InitIInv == Init => IInv
<1> SUFFICES ASSUME Init
             PROVE  IInv
  OBVIOUS
<1>1. PICK s \in Starts : plan = s.plan /\ dir = s.dir
  BY DEF Init
<1>2. /\ DOMAIN dir \subseteq Name /\ plan \in Seq({"encrypt", "decrypt"}) /\ plan # <<>>
      /\ before = dir /\ seen = {} /\ skipped = {} /\ stage = [n \in Name |-> "none"]
  BY <1>1, DirAssumption DEF Init
<1>3. Returned = {} /\ Failed = {}
  BY <1>2 DEF Returned, Failed
<1>4. Types
  BY <1>2 DEF Init, Types, Stage
<1>5. OwnerInv /\ TaskInv /\ FilesInv /\ ImageInv /\ CrashHasACause
  BY <1>2, <1>3 DEF Init, Pool!Init, OwnerInv, TaskInv, FilesInv, ImageInv, CrashHasACause
<1>6. CountInv
  BY <1>3, FS_EmptySet DEF Init, CountInv
<1>7. PoolFacts!PoolInv
  BY PoolFacts!InitPool DEF Init, Pool!Init, PoolFacts!Init
<1> QED BY <1>4, <1>5, <1>6, <1>7 DEF IInv

\* Every step of a thread, and the next call, keep it.
LEMMA NextIInv ==
  ASSUME IInv, [Next]_vars
  PROVE  IInv'
<1>1. CASE MainStep \/ StartTask \/ \E n \in Name : SkipEntry(n)
  BY <1>1, MainMoves, EntryMoves DEF MainStep
<1>2. CASE \E n \in Name : TaskStep(n)
  BY <1>2, OpenInputStep, ReadInputStep, TaskCrashesStep, CreateOutputStep, WriteOutputStep,
     TaskFailsStep DEF TaskStep
<1>3. CASE NextCall
  BY <1>3, NextCallStep
<1>4. CASE UNCHANGED vars
  <2>1. OwnerInv' /\ CrashHasACause'
    BY <1>4, SameMode DEF vars, callVars, loopVars, taskVars, poolVars, IInv, OwnerInv,
                CrashHasACause, Returned, Written
  <2> QED BY <1>4, <2>1, OwnerStep DEF vars, loopVars, poolVars, IInv, Types
<1> QED BY <1>1, <1>2, <1>3, <1>4 DEF Next, Progress, Terminated

\* For every directory, number of threads and order of their steps: tasks, files,
\* the counter and the pool stay in line.
THEOREM Invariant == Spec => []IInv
<1>1. IInv /\ [Next]_vars => IInv'
  BY NextIInv
<1> QED BY <1>1, InitIInv, PTL DEF Spec

\* When a call has returned every task has ended.
LEMMA AllEnded ==
  ASSUME IInv, pc = "done"
  PROVE  \A n \in Returned : stage[n] \in {"ok", "failed"}
<1>1. inline = NoFile /\ Pool!AllRun
  BY PoolState DEF IInv, OwnerInv
<1>2. \A n \in Returned : n # inline
  BY <1>1, TaskNames DEF IInv, Types, Returned
<1> QED BY <1>1, <1>2 DEF IInv, TaskInv, Pool!AllRun

\* No task outlives the call whose counter it increments.
THEOREM TasksEndFirst == Spec => []NoTaskOutlivesCall
<1>1. IInv => NoTaskOutlivesCall
  BY AllEnded DEF NoTaskOutlivesCall
<1> QED BY <1>1, Invariant, PTL

\* The process only dies in the creation of a pool, or in a task that reads what
\* another one writes or decrypts what has no whole blocks.
THEOREM CrashExplained == Spec => []CrashHasACause
<1>1. IInv => CrashHasACause
  BY DEF IInv
<1> QED BY <1>1, Invariant, PTL

\* A call that returns 0 has left the image of every undisturbed file, under the name
\* that fits the buffer.
THEOREM SuccessExplained == Spec => []SuccessMeansProcessed
<1>1. ASSUME IInv, pc = "done"
      PROVE  error_counter = Cardinality({n \in Returned : stage[n] = "failed"})
  BY <1>1 DEF IInv, CountInv, Failed
<1>2. ASSUME IInv, pc = "done", error_counter = 0, ~cut, NEW n \in DOMAIN before \ skipped
      PROVE  Disturbed(n) \/ dir[Target(n)] \in Images(before[n])
  <2>1. Failed = {}
    BY <1>2, FS_EmptySet DEF IInv, CountInv
  <2>2. n \in Returned
    BY <1>2 DEF IInv, OwnerInv, Returned
  <2>3. stage[n] = "ok"
    BY <1>2, <2>1, <2>2, AllEnded DEF Failed
  <2> QED BY <1>2, <2>2, <2>3 DEF IInv, ImageInv, ImagesOf
<1>3. IInv => SuccessMeansProcessed
  BY <1>1, <1>2 DEF SuccessMeansProcessed
<1> QED BY <1>3, Invariant, PTL

-----------------------------------------------------------------------------
(* Two calls: what decryption gives back. *)

DoubleEnc(m) == HasEnc(m) /\ HasEnc(Output("decrypt", m))

\* Names that the claim about two calls makes an exception for.
Clash == \E f \in DOMAIN origin : Append(f, ".enc") \in DOMAIN origin \/ f[Len(f)] = ".dec"
LongName == \E f \in DOMAIN origin : Len(f) + 2 > NameLimit
TwiceEncrypted == \E m \in DOMAIN before : DoubleEnc(m)

NamesFit == \A m \in DOMAIN before : Len(m) < NameLimit

\* Decryption makes no name with two .enc, unless one is cut off.
NamesInv ==
  mode = "decrypt" /\ NamesFit =>
    \A m \in DOMAIN dir : Len(m) <= NameLimit /\ (DoubleEnc(m) => TwiceEncrypted)

\* What the second call finds of a file: the file itself, or its image.
Carried(n) ==
  \/ n \in DOMAIN before /\ before[n] = origin[n] /\ Append(n, ".enc") \notin DOMAIN before
  \/ /\ Append(n, ".enc") \in DOMAIN before
     /\ before[Append(n, ".enc")] = Append(origin[n], "enc")

HistoryInv ==
  /\ DOMAIN origin \subseteq Name
  /\ \A n \in DOMAIN origin : origin[n] \in Seq(STRING)
  /\ \/ DOMAIN origin = {}
     \/ mode = "encrypt" /\ (Len(plan) = 1 \/ (Len(plan) = 2 /\ origin = before))
     \/ /\ mode = "decrypt" /\ Len(plan) = 1
        /\ \/ Clash \/ LongName \/ TwiceEncrypted
           \/ NamesFit /\ \A n \in DOMAIN origin : Carried(n)

RoundTripInv == IInv /\ NamesInv /\ HistoryInv

\* What something is appended to can be had back.  (No prover here knows that a
\* string literal is in STRING: hence c need not be in S.)
LEMMA Appended ==
  ASSUME NEW S, NEW m \in Seq(S), NEW c
  PROVE  /\ Len(m) \in Nat /\ Len(Append(m, c)) = Len(m) + 1
         /\ Append(m, c)[Len(m) + 1] = c
         /\ Append(m, c) # <<>>
         /\ SubSeq(Append(m, c), 1, Len(m)) = m
<1> DEFINE T == S \union {c}
<1>1. m \in Seq(T) /\ c \in T
  BY SeqMonotonic
<1> HIDE DEF T
<1>2. /\ Append(m, c) \in Seq(T) /\ Append(m, c) # <<>>
      /\ Len(Append(m, c)) = Len(m) + 1 /\ Append(m, c)[Len(m) + 1] = c
      /\ Len(m) \in Nat
  BY <1>1, AppendProperties, LenProperties
<1>3. SubSeq(Append(m, c), 1, Len(m)) = m
  BY <1>1, <1>2
<1> QED BY <1>2, <1>3

\* A name has a unit.
LEMMA NameType == \A n \in Name : n \in Seq(STRING) /\ Len(n) \in Nat \ {0}
<1> TAKE n \in Name
<1>1. n \in Seq(STRING) /\ n # <<>>
  BY DirAssumption
<1> QED BY <1>1, EmptySeq

\* The name of an image, and the way back from it.
LEMMA EncName ==
  ASSUME NEW n \in Name
  PROVE  /\ HasEnc(Append(n, ".enc"))
         /\ Output("decrypt", Append(n, ".enc")) = n
         /\ Output("encrypt", n) = Append(n, ".enc")
         /\ \A m \in Name : Append(m, ".enc") = Append(n, ".enc") => m = n
<1>1. \A m \in Name : /\ Len(m) \in Nat \ {0}
                      /\ Len(Append(m, ".enc")) = Len(m) + 1
                      /\ Append(m, ".enc")[Len(m) + 1] = ".enc"
                      /\ SubSeq(Append(m, ".enc"), 1, Len(m)) = m
  BY NameType, Appended
<1>2. HasEnc(Append(n, ".enc"))
  BY <1>1 DEF HasEnc
<1>3. Output("decrypt", Append(n, ".enc")) = n
  BY <1>1, <1>2 DEF Output
<1>4. \A m \in Name : Append(m, ".enc") = Append(n, ".enc") => m = n
  <2> TAKE m \in Name
  <2> HAVE Append(m, ".enc") = Append(n, ".enc")
  <2>1. Len(m) + 1 = Len(n) + 1 /\ Len(m) \in Nat /\ Len(n) \in Nat
    BY <1>1
  <2>2. Len(m) = Len(n)
    BY <2>1
  <2> QED BY <1>1, <2>2
<1> QED BY <1>1, <1>2, <1>3, <1>4 DEF Output

\* Where the output of a decryption comes from.
LEMMA DecName ==
  ASSUME NEW m \in Name, NEW n, Output("decrypt", m) = n
  PROVE  \/ HasEnc(m) /\ m = Append(n, ".enc")
         \/ ~HasEnc(m) /\ n[Len(n)] = ".dec" /\ ~HasEnc(n)
<1>1. m \in Seq(STRING) /\ Len(m) \in Nat \ {0}
  BY NameType
<1>2. CASE HasEnc(m)
  <2>1. n = SubSeq(m, 1, Len(m) - 1) /\ m[Len(m)] = ".enc" /\ Len(m) > 1
    BY <1>2 DEF Output, HasEnc
  <2>2. m = Append(SubSeq(m, 1, Len(m) - 1), m[Len(m)])
    BY <1>1, <2>1
  <2> QED BY <1>2, <2>1, <2>2
<1>3. CASE ~HasEnc(m)
  <2>1. n = Append(m, ".dec")
    BY <1>3 DEF Output
  <2>2. Len(n) = Len(m) + 1 /\ n[Len(m) + 1] = ".dec"
    BY <1>1, <2>1, Appended
  <2>3. n[Len(n)] = ".dec" /\ ".dec" # ".enc"
    BY <1>1, <2>2
  <2> QED BY <1>3, <2>3 DEF HasEnc
<1> QED BY <1>2, <1>3

\* What snprintf makes of a name with something appended.
LEMMA AppendCut ==
  ASSUME NEW n \in Name, NEW c
  PROVE  /\ Len(n) < NameLimit => Cut(Append(n, c), NameLimit) = Append(n, c)
         /\ Len(n) >= NameLimit => Len(Cut(Append(n, c), NameLimit)) = NameLimit
         /\ Len(n) = NameLimit => Cut(Append(n, c), NameLimit) = n
<1> DEFINE T == STRING \union {c}
           a == Append(n, c)
<1>1. n \in Seq(T) /\ c \in T /\ Len(n) \in Nat
  BY NameType, SeqMonotonic
<1> HIDE DEF T
<1>2. a \in Seq(T) /\ Len(a) = Len(n) + 1
  BY <1>1, AppendProperties
<1>3. SubSeq(a, 1, Len(n)) = n
  BY NameType, Appended
<1> HIDE DEF a
<1>4. NameLimit \in Nat \ {0}
  BY DirAssumption
<1>5. Len(n) < NameLimit => Cut(a, NameLimit) = a
  BY <1>1, <1>2, <1>4 DEF Cut
<1>6. Len(n) >= NameLimit => Cut(a, NameLimit) = SubSeq(a, 1, NameLimit)
  BY <1>1, <1>2, <1>4 DEF Cut
<1>7. Len(n) >= NameLimit => Len(SubSeq(a, 1, NameLimit)) = NameLimit
  BY <1>1, <1>2, <1>4
<1>8. Len(n) = NameLimit => Cut(a, NameLimit) = n
  BY <1>1, <1>3, <1>4, <1>6
<1> QED BY <1>5, <1>6, <1>7, <1>8 DEF a

\* A decryption writes into the file that the name says, or into the one it reads.
LEMMA DecTarget ==
  ASSUME NEW n \in Name, mode = "decrypt", Len(n) <= NameLimit
  PROVE  /\ Len(Target(n)) <= NameLimit
         /\ HasEnc(n) => Target(n) = Output("decrypt", n)
         /\ Target(n) = Output("decrypt", n) \/ (Target(n) = n /\ Len(n) = NameLimit)
<1>1. n \in Seq(STRING) /\ Len(n) \in Nat \ {0} /\ NameLimit \in Nat \ {0}
  BY NameType, DirAssumption
<1>2. CASE HasEnc(n)
  <2> DEFINE o == SubSeq(n, 1, Len(n) - 1)
  <2>1. o \in Seq(STRING) /\ Len(o) = Len(n) - 1
    BY <1>1, <1>2 DEF HasEnc
  <2>2. Target(n) = Cut(o, NameLimit) /\ Output("decrypt", n) = o
    BY <1>2 DEF Target, Output
  <2> HIDE DEF o
  <2>3. Cut(o, NameLimit) = o
    BY <1>1, <2>1 DEF Cut
  <2> QED BY <1>1, <2>1, <2>2, <2>3
<1>3. CASE ~HasEnc(n)
  <2>1. Target(n) = Cut(Append(n, ".dec"), NameLimit) /\ Output("decrypt", n) = Append(n, ".dec")
    BY <1>3 DEF Target, Output
  <2>2. CASE Len(n) < NameLimit
    <3>1. Target(n) = Append(n, ".dec") /\ Len(Append(n, ".dec")) = Len(n) + 1
      BY <1>1, <2>1, <2>2, AppendCut, Appended
    <3>2. Len(n) + 1 <= NameLimit
      BY <1>1, <2>2
    <3> QED BY <1>3, <2>1, <3>1, <3>2
  <2>3. CASE Len(n) = NameLimit
    BY <1>1, <1>3, <2>1, <2>3, AppendCut
  <2> QED BY <1>1, <2>2, <2>3
<1> QED BY <1>2, <1>3

\* What a step within a call may change of the names.
LEMMA StepShape ==
  ASSUME IInv, [Next]_vars, ~NextCall
  PROVE  /\ UNCHANGED callVars /\ Returned \subseteq Returned'
         /\ \/ DOMAIN dir' = DOMAIN dir
            \/ \E n \in Returned : DOMAIN dir' = DOMAIN dir \union {Target(n)}
<1> USE DEF callVars, loopVars, taskVars
<1>1. CASE MainStep \/ StartTask \/ \E n \in Name : SkipEntry(n)
  BY <1>1 DEF MainStep, OpenDir, MakePool, SubmitEntry, ProcessEntry, SkipEntry, EntryRead, Unread,
              EndOfDirectory, WaitReturns, DestroyPool, StartTask, Returned
<1>2. ASSUME NEW n \in Name, TaskStep(n)
      PROVE  /\ UNCHANGED callVars /\ Returned' = Returned
             /\ \/ DOMAIN dir' = DOMAIN dir
                \/ n \in Returned /\ DOMAIN dir' = DOMAIN dir \union {Target(n)}
  <2>1. UNCHANGED callVars /\ Returned' = Returned
    BY <1>2 DEF TaskStep, OpenInput, ReadInput, ReadOverruns, BlockOverruns, BlockPoolAborts,
                TaskCrashes, CreateOutput, WriteOutput, TaskFails, Continue, TaskEnds, Returned
  <2>2. CASE CreateOutput(n)
    <3>1. n \in Returned
      BY <2>2, AtTask DEF CreateOutput, Stage
    <3>2. DOMAIN dir' = DOMAIN dir \union {Target(n)}
      BY <2>2 DEF CreateOutput, Put
    <3> QED BY <2>1, <3>1, <3>2
  <2>3. CASE WriteOutput(n)
    <3>1. n \in Returned
      BY <2>3, AtTask DEF WriteOutput, Stage
    <3>2. DOMAIN dir' = DOMAIN dir \union {Target(n)}
      BY <2>3 DEF WriteOutput, Put
    <3> QED BY <2>1, <3>1, <3>2
  <2>4. CASE ~CreateOutput(n) /\ ~WriteOutput(n)
    BY <1>2, <2>1, <2>4 DEF TaskStep, OpenInput, ReadInput, ReadOverruns, BlockOverruns,
                            BlockPoolAborts, TaskCrashes, TaskFails
  <2> QED BY <2>1, <2>2, <2>3, <2>4
<1>3. CASE UNCHANGED vars
  BY <1>3 DEF vars, Returned
<1> QED BY <1>1, <1>2, <1>3 DEF Next, Progress, Terminated

\* Within a call the names keep their origin, and what it began with stays.
LEMMA WithinCall ==
  ASSUME RoundTripInv, [Next]_vars, ~NextCall, IInv'
  PROVE  RoundTripInv'
<1>1. /\ UNCHANGED callVars /\ Returned \subseteq Returned'
      /\ \/ DOMAIN dir' = DOMAIN dir
         \/ \E n \in Returned : DOMAIN dir' = DOMAIN dir \union {Target(n)}
  BY StepShape DEF RoundTripInv
<1>2. UNCHANGED <<plan, before, origin>> /\ mode' = mode
  BY <1>1 DEF callVars, mode
<1>3. HistoryInv'
  BY <1>2 DEF RoundTripInv, HistoryInv, Clash, LongName, NamesFit, TwiceEncrypted, Carried
<1>4. NamesInv'
  <2>1. (TwiceEncrypted' <=> TwiceEncrypted) /\ (NamesFit' <=> NamesFit)
    BY <1>2 DEF TwiceEncrypted, NamesFit
  <2>2. ASSUME mode = "decrypt", NamesFit, NEW m \in DOMAIN dir'
        PROVE  Len(m) <= NameLimit /\ (DoubleEnc(m) => TwiceEncrypted)
    <3>1. CASE m \in DOMAIN dir
      BY <2>2, <3>1 DEF RoundTripInv, NamesInv
    <3>2. CASE m \notin DOMAIN dir
      <4>1. PICK k \in Returned : Target(k) = m
        BY <1>1, <2>2, <3>2
      <4>2. k \in Name /\ k \in DOMAIN dir /\ k # m
        BY <3>2 DEF RoundTripInv, IInv, Types, Returned
      <4>3. Len(k) <= NameLimit /\ (DoubleEnc(k) => TwiceEncrypted)
        BY <2>2, <4>2 DEF RoundTripInv, NamesInv
      <4>4. Len(m) <= NameLimit /\ Output("decrypt", k) = m
        BY <2>2, <4>1, <4>2, <4>3, DecTarget
      <4>5. DoubleEnc(m) => DoubleEnc(k)
        <5> HAVE DoubleEnc(m)
        <5>1. HasEnc(m)
          BY DEF DoubleEnc
        <5>2. HasEnc(k)
          BY <4>2, <4>4, <5>1, DecName
        <5> QED BY <4>4, <5>1, <5>2 DEF DoubleEnc
      <4> QED BY <4>3, <4>4, <4>5
    <3> QED BY <3>1, <3>2
  <2> QED BY <1>2, <2>1, <2>2 DEF NamesInv
<1> QED BY <1>3, <1>4 DEF RoundTripInv

\* A name that fills the buffer can only have come from a .enc that is there too.
LEMMA NamesStayShort ==
  ASSUME IInv, mode = "encrypt", origin = before, ~LongName,
         \A m \in DOMAIN dir : ~DoubleEnc(m), NEW k \in DOMAIN dir
  PROVE  Len(k) < NameLimit
<1>1. \A m \in DOMAIN dir : /\ m \in Name /\ Len(m) \in Nat \ {0}
                           /\ Target(m) = Cut(Append(m, ".enc"), NameLimit)
  BY NameType DEF IInv, Types, Target, Output
<1>2. NameLimit \in Nat \ {0}
  BY DirAssumption
<1>3. \A m \in DOMAIN before : m \in DOMAIN dir /\ Len(m) + 2 <= NameLimit
  BY <1>1, <1>2 DEF LongName, IInv, Types
<1>4. \A m \in DOMAIN dir \ DOMAIN before : \E j \in DOMAIN dir \ {m} : Target(j) = m
  BY DEF IInv, FilesInv, Written, Types, Returned
<1>5. ASSUME NEW j \in DOMAIN dir, NEW m, Target(j) = m
      PROVE  /\ Len(j) < NameLimit => m = Append(j, ".enc") /\ Len(m) = Len(j) + 1
             /\ Len(j) >= NameLimit => Len(m) = NameLimit
             /\ Len(j) = NameLimit => m = j
  <2>1. j \in Name /\ m = Cut(Append(j, ".enc"), NameLimit)
    BY <1>1, <1>5
  <2>2. Len(Append(j, ".enc")) = Len(j) + 1
    BY <2>1, NameType, Appended
  <2> QED BY <2>1, <2>2, AppendCut
<1>6. \A m \in DOMAIN dir \ DOMAIN before : Len(m) <= NameLimit
  <2> TAKE m \in DOMAIN dir \ DOMAIN before
  <2>1. PICK j \in DOMAIN dir : Target(j) = m
    BY <1>4
  <2>2. Len(j) \in Nat
    BY <1>1
  <2> QED BY <1>2, <1>5, <2>1, <2>2
<1> SUFFICES ASSUME Len(k) >= NameLimit
             PROVE  FALSE
  BY <1>1, <1>2
<1>7. k \notin DOMAIN before
  BY <1>1, <1>2, <1>3
<1>8. Len(k) = NameLimit
  BY <1>1, <1>2, <1>6, <1>7
<1>9. PICK j \in DOMAIN dir \ {k} : Target(j) = k
  BY <1>4, <1>7
<1>10. Len(j) \in Nat /\ Len(j) < NameLimit
  <2>1. Len(j) # NameLimit
    BY <1>5, <1>9
  <2>2. j \in DOMAIN before => Len(j) < NameLimit
    BY <1>1, <1>2, <1>3
  <2> QED BY <1>1, <1>2, <1>6, <2>1, <2>2
<1>11. k = Append(j, ".enc") /\ Len(j) + 1 = NameLimit
  BY <1>5, <1>8, <1>9, <1>10
<1>12. j \notin DOMAIN before
  BY <1>2, <1>3, <1>10, <1>11
<1>13. PICK i \in DOMAIN dir : Target(i) = j
  BY <1>4, <1>12
<1>14. Len(i) \in Nat /\ Len(i) < NameLimit
  BY <1>1, <1>2, <1>5, <1>10, <1>13
<1>15. j = Append(i, ".enc")
  BY <1>5, <1>13, <1>14
<1>16. HasEnc(k) /\ Output("decrypt", k) = j /\ HasEnc(j)
  BY <1>1, <1>11, <1>15, EncName
<1> QED BY <1>16 DEF DoubleEnc

\* A directory encrypted with success holds of each file the image, or the file,
\* when it was passed over.
LEMMA EncryptedDirectory ==
  ASSUME RoundTripInv, NextCall, mode = "encrypt", origin = before
  PROVE  \/ Clash \/ LongName \/ TwiceEncrypted'
         \/ NamesFit' /\ \A n \in DOMAIN origin : Carried(n)'
<1>0. ASSUME ~LongName, ~TwiceEncrypted'
      PROVE  NamesFit' /\ \A m \in DOMAIN dir : Len(m) < NameLimit
  <2>1. /\ DOMAIN before' \subseteq DOMAIN dir
        /\ \A m \in DOMAIN dir : HasEnc(m) => m \in DOMAIN before'
    BY DEF NextCall
  <2>2. \A m \in DOMAIN dir : ~DoubleEnc(m)
    BY <1>0, <2>1 DEF TwiceEncrypted, DoubleEnc
  <2>3. \A m \in DOMAIN dir : Len(m) < NameLimit
    BY <1>0, <2>2, NamesStayShort DEF RoundTripInv
  <2> QED BY <2>1, <2>3 DEF NamesFit
<1> SUFFICES ASSUME ~Clash, ~LongName, ~TwiceEncrypted', NEW n \in DOMAIN origin
             PROVE  Carried(n)'
  BY <1>0
<1> DEFINE e == Append(n, ".enc")
           kept == {m \in DOMAIN dir : HasEnc(m) \/ Append(m, ".enc") \notin DOMAIN dir}
<1>1. /\ pc = "done" /\ error_counter = 0 /\ ~cut /\ UNCHANGED origin
      /\ before' = [m \in kept |-> dir[m]]
  BY DEF NextCall
<1>2. /\ DOMAIN before' = kept
      /\ \A m \in kept : before'[m] = dir[m]
  BY <1>1
<1>3. n \in Name /\ n \in DOMAIN before /\ n \in DOMAIN dir /\ n \in seen
  BY <1>1 DEF RoundTripInv, IInv, Types, OwnerInv
<1>4. Returned \subseteq DOMAIN dir /\ DOMAIN dir \subseteq Name
  BY DEF RoundTripInv, IInv, Types, Returned
<1>5. \A m \in Returned : Target(m) = Append(m, ".enc")
  BY <1>0, <1>4, AppendCut DEF Target, Output
<1>6. \A m \in DOMAIN dir : m \in DOMAIN before \/ \E k \in Returned : Append(k, ".enc") = m
  BY <1>5 DEF RoundTripInv, IInv, FilesInv, Written
<1>7. ~Written(n)
  <2> SUFFICES ASSUME NEW m \in Returned, Append(m, ".enc") = n
               PROVE  FALSE
    BY <1>5 DEF Written
  <2>1. m \in DOMAIN dir /\ m \in Name /\ m \notin DOMAIN before
    BY <1>4 DEF Clash
  <2>2. PICK k \in Returned : Append(k, ".enc") = m
    BY <2>1, <1>6
  <2>3. HasEnc(m) /\ HasEnc(n) /\ Output("decrypt", n) = m
    BY <2>1, <2>2, <1>4, EncName
  <2>4. n \in kept /\ DoubleEnc(n)
    BY <2>3, <1>3 DEF DoubleEnc
  <2> QED BY <2>4, <1>2 DEF TwiceEncrypted
<1>8. CASE n \in Returned
  <2>1. ~Disturbed(n)
    <3>1. \A m \in Returned \ {n} : Append(m, ".enc") # e
      BY <1>3, <1>4, EncName
    <3> QED BY <1>5, <1>7, <1>8, <3>1 DEF Disturbed
  <2>2. stage[n] = "ok"
    <3>1. Failed = {}
      BY <1>1, FS_EmptySet DEF RoundTripInv, IInv, CountInv
    <3> QED BY <1>1, <1>8, <3>1, AllEnded DEF Failed, RoundTripInv
  <2>3. e \in DOMAIN dir /\ dir[e] \in ImagesOf(n)
    BY <1>1, <1>3, <1>5, <1>8, <2>1, <2>2 DEF RoundTripInv, IInv, ImageInv
  <2>4. e \in kept
    BY <2>3, <1>3, EncName
  <2>5. ImagesOf(n) = {Append(origin[n], "enc")}
    BY DEF ImagesOf, Images, BeyondBuffer, Crypt
  <2> QED BY <1>1, <1>2, <2>3, <2>4, <2>5 DEF Carried
<1>9. CASE n \notin Returned
  <2>1. e \notin DOMAIN dir
    <3> SUFFICES ASSUME e \in DOMAIN dir
                 PROVE  FALSE
      OBVIOUS
    <3>1. e \notin DOMAIN before
      BY DEF Clash
    <3>2. PICK k \in Returned : Append(k, ".enc") = e
      BY <3>1, <1>6
    <3>3. k = n
      BY <3>2, <1>3, <1>4, EncName
    <3> QED BY <3>3, <1>9
  <2>2. n \in kept /\ e \notin kept
    BY <2>1, <1>3
  <2>3. dir[n] = origin[n]
    BY <1>3, <1>7, <1>9 DEF RoundTripInv, IInv, TaskInv, FilesInv, WroteItself
  <2> QED BY <1>1, <1>2, <2>2, <2>3 DEF Carried
<1> QED BY <1>8, <1>9

\* The second call.
LEMMA BetweenCalls ==
  ASSUME RoundTripInv, NextCall, IInv'
  PROVE  RoundTripInv'
<1>1. /\ before' = dir' /\ UNCHANGED origin /\ plan' = Tail(plan) /\ Len(plan) > 1
  BY DEF NextCall
<1>2. NamesInv'
  <2>1. NamesFit' => \A m \in DOMAIN before' : Len(m) <= NameLimit
    BY DirAssumption, NameType DEF IInv, Types, NamesFit
  <2> QED BY <1>1, <2>1 DEF NamesInv, TwiceEncrypted
<1>3. DOMAIN origin = {} \/ (mode = "encrypt" /\ Len(plan) = 2 /\ origin = before)
  BY <1>1 DEF RoundTripInv, HistoryInv
<1>4. HistoryInv'
  <2>1. CASE DOMAIN origin = {}
    BY <1>1, <2>1 DEF HistoryInv
  <2>2. CASE mode = "encrypt" /\ Len(plan) = 2 /\ origin = before
    <3>1. plan \in Seq({"encrypt", "decrypt"}) /\ plan # <<>>
      BY DEF RoundTripInv, IInv, Types
    <3>2. Tail(plan) \in Seq({"encrypt", "decrypt"}) /\ Len(Tail(plan)) = 1
      BY <2>2, <3>1, HeadTailProperties
    <3>3. mode' = Tail(plan)[1] /\ mode' \in {"encrypt", "decrypt"}
      BY <1>1, <3>2 DEF mode
    <3>4. \/ Clash \/ LongName \/ TwiceEncrypted'
          \/ NamesFit' /\ \A n \in DOMAIN origin : Carried(n)'
      BY <2>2, EncryptedDirectory
    <3>5. (Clash' <=> Clash) /\ (LongName' <=> LongName)
      BY <1>1 DEF Clash, LongName
    <3>6. /\ DOMAIN origin' \subseteq Name
          /\ \A n \in DOMAIN origin' : origin'[n] \in Seq(STRING)
      BY <1>1 DEF RoundTripInv, HistoryInv
    <3> QED BY <1>1, <3>2, <3>3, <3>4, <3>5, <3>6 DEF HistoryInv
  <2> QED BY <1>3, <2>1, <2>2
<1> QED BY <1>2, <1>4 DEF RoundTripInv

\* A name that leaves room is shorter than the buffer.
LEMMA ShortNames ==
  ASSUME IInv, NamesFit
  PROVE  \A m \in DOMAIN before : Len(m) <= NameLimit
BY DirAssumption, NameType DEF IInv, Types, NamesFit

\* The first call begins with what the claim is about.
LEMMA FirstCall ==
  ASSUME TwoCalls, Init
  PROVE  RoundTripInv
<1>1. PICK s \in Starts : plan = s.plan /\ dir = s.dir
  BY DEF Init
<1>2. /\ before = dir /\ origin = IF mode = "encrypt" THEN dir ELSE <<>>
  BY DEF Init
<1>3. NamesInv
  BY <1>2, InitIInv, ShortNames DEF NamesInv, TwiceEncrypted
<1>4. /\ DOMAIN dir \subseteq Name /\ \A n \in DOMAIN dir : dir[n] \in Seq(STRING)
      /\ plan \in Seq({"encrypt", "decrypt"}) /\ plan # <<>>
  BY <1>1, DirAssumption
<1>5. CASE mode = "encrypt"
  <2>1. Len(plan) \in Nat \ {0} /\ plan[1] = "encrypt"
    BY <1>4, <1>5, EmptySeq DEF mode
  <2>2. Len(plan) <= 2
    BY <1>1, <2>1 DEF TwoCalls
  <2>3. Len(plan) = 1 \/ Len(plan) = 2
    <3> DEFINE l == Len(plan)
    <3>1. l \in Nat /\ l # 0 /\ l <= 2
      BY <2>1, <2>2
    <3> HIDE DEF l
    <3>2. l = 1 \/ l = 2
      BY <3>1
    <3> QED BY <3>2 DEF l
  <2> QED BY <1>2, <1>3, <1>4, <1>5, <2>3, InitIInv DEF HistoryInv, RoundTripInv
<1>6. CASE mode # "encrypt"
  BY <1>2, <1>3, <1>6, InitIInv DEF HistoryInv, RoundTripInv
<1> QED BY <1>5, <1>6

\* What is known of the directory between and during the two calls.
THEOREM RoundTripInvariant ==
  ASSUME TwoCalls
  PROVE  Spec => []RoundTripInv
<1>1. Init => RoundTripInv
  BY FirstCall
<1>2. RoundTripInv /\ [Next]_vars => RoundTripInv'
  BY NextIInv, WithinCall, BetweenCalls DEF RoundTripInv
<1> QED BY <1>1, <1>2, PTL DEF Spec

\* When both calls have succeeded the files are back.
LEMMA BothBack ==
  ASSUME RoundTripInv, BothSucceeded, ~Clash, ~LongName, ~TwiceEncrypted, NEW n \in DOMAIN origin
  PROVE  n \in DOMAIN dir /\ dir[n] = origin[n]
<1> DEFINE e == Append(n, ".enc")
<1>1. /\ pc = "done" /\ mode = "decrypt" /\ error_counter = 0 /\ ~cut /\ Returned = seen
      /\ DOMAIN before \subseteq seen
  BY DEF BothSucceeded, Returned, RoundTripInv, IInv, OwnerInv
<1>2. n \in Name /\ origin[n] \in Seq(STRING) /\ Carried(n) /\ n[Len(n)] # ".dec"
      /\ e \notin DOMAIN origin
  BY <1>1 DEF RoundTripInv, HistoryInv, Clash
<1>3. Returned \subseteq DOMAIN dir /\ DOMAIN dir \subseteq Name
  BY DEF RoundTripInv, IInv, Types, Returned
<1>4. NamesFit /\ \A m \in Returned : Len(m) <= NameLimit /\ ~DoubleEnc(m)
  BY <1>1, <1>3 DEF RoundTripInv, HistoryInv, NamesInv
<1>5. ASSUME NEW m \in Returned, NEW w, Target(m) = w, m # w
      PROVE  Output("decrypt", m) = w
  BY <1>1, <1>3, <1>4, <1>5, DecTarget
<1>6. Len(n) \in Nat /\ Len(n) < NameLimit
  BY <1>2, NameType, DirAssumption DEF LongName
<1>7. ASSUME NEW m \in Returned, Target(m) = n
      PROVE  m = e
  <2>1. Output("decrypt", m) = n
    BY <1>1, <1>3, <1>4, <1>6, <1>7, DecTarget
  <2> QED BY <1>2, <1>3, <2>1, DecName
<1>8. CASE e \in DOMAIN before /\ before[e] = Append(origin[n], "enc")
  <2>1. e \in Returned /\ e \in Name /\ Target(e) = n /\ HasEnc(e)
    BY <1>1, <1>2, <1>3, <1>4, <1>8, EncName, DecTarget
  <2>2. ~Written(e)
    <3> SUFFICES ASSUME NEW m \in Returned, m # e, Target(m) = e
                 PROVE  FALSE
      BY DEF Written
    <3>1. m \in Name /\ Output("decrypt", m) = e
      BY <1>3, <1>5
    <3>2. HasEnc(m)
      BY <2>1, <3>1, DecName
    <3> QED BY <1>4, <2>1, <3>1, <3>2 DEF DoubleEnc
  <2>3. ~Disturbed(e)
    BY <1>7, <2>1, <2>2 DEF Disturbed
  <2>4. Failed = {}
    BY <1>1, FS_EmptySet DEF RoundTripInv, IInv, CountInv
  <2>5. stage[e] = "ok"
    BY <1>1, <2>1, <2>4, AllEnded DEF Failed, RoundTripInv
  <2>6. n \in DOMAIN dir /\ dir[n] \in ImagesOf(e)
    BY <1>1, <1>8, <2>1, <2>3, <2>5 DEF RoundTripInv, IInv, ImageInv
  <2>7. ImagesOf(e) = {origin[n]}
    <3> DEFINE o == origin[n]
               c == Append(o, "enc")
    <3>1. Len(o) \in Nat /\ Len(c) = Len(o) + 1 /\ c[Len(o) + 1] = "enc" /\ c # <<>>
          /\ SubSeq(c, 1, Len(o)) = o
      BY <1>2, Appended
    <3>2. before[e] = c
      BY <1>8
    <3> HIDE DEF c, o
    <3>3. Len(c) - 1 = Len(o) /\ c[Len(c)] = "enc"
      BY <3>1
    <3>4. Ends(c, "enc")
      BY <3>1, <3>3 DEF Ends, Empty
    <3>5. Crypt(c) = SubSeq(c, 1, Len(c) - 1)
      BY <1>1, <3>4 DEF Crypt
    <3>6. ~BeyondBuffer(c)
      BY <3>3, DirAssumption DEF BeyondBuffer, IsRagged
    <3> QED BY <3>1, <3>2, <3>3, <3>5, <3>6 DEF ImagesOf, Images, o
  <2> QED BY <2>6, <2>7
<1>9. CASE n \in DOMAIN before /\ before[n] = origin[n] /\ e \notin DOMAIN before
  <2>1. e \notin Returned
    <3> SUFFICES ASSUME e \in Returned
                 PROVE  FALSE
      OBVIOUS
    <3>1. PICK k \in Returned : k # e /\ Target(k) = e
      BY <1>3, <1>9 DEF RoundTripInv, IInv, FilesInv, Written
    <3>2. k \in Name /\ Output("decrypt", k) = e /\ HasEnc(e)
      BY <1>2, <1>3, <1>5, <3>1, EncName
    <3>3. HasEnc(k)
      BY <3>2, DecName
    <3> QED BY <1>4, <3>2, <3>3 DEF DoubleEnc
  <2>2. n \in Returned /\ ~Written(n)
    BY <1>1, <1>7, <1>9, <2>1 DEF Written
  <2>3. Target(n) # n
    BY <1>7, <2>1, <2>2
  <2> QED BY <1>9, <2>2, <2>3 DEF RoundTripInv, IInv, Types, FilesInv, WroteItself
<1> QED BY <1>2, <1>8, <1>9 DEF Carried

\* A directory that was encrypted and decrypted with success holds its files, for
\* every directory without names that clash or fill the buffer, however the threads were scheduled and
\* whatever was passed over in the first call.
THEOREM DirectoryComesBack ==
  ASSUME TwoCalls
  PROVE  Spec => []RoundTrip
<1>1. RoundTripInv => RoundTrip
  BY BothBack DEF RoundTrip, FilesAreBack, Clash, LongName, TwiceEncrypted, DoubleEnc
<1> QED BY <1>1, RoundTripInvariant, PTL
=============================================================================

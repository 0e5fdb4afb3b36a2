------------------------ MODULE CreateArchive_proof ------------------------
(***************************************************************************)
(* Proofs, for any number of inputs, sizes, processors and failures, of    *)
(* the claims of CreateArchiveInv about createArchive.                     *)
(***************************************************************************)
EXTENDS CreateArchiveInv, SequenceTheorems, TLAPS

PoolFacts == INSTANCE JobPool_proof WITH Job <- Input, Width <- num_threads

-----------------------------------------------------------------------------
(* The inductive invariant, in named parts. *)

Merging == {"merge", "copy"}

\* The main thread has written the placeholder of the table.
TableThere == Live \ {"open", "header", "table"}

Types ==
  /\ pc \in Live \union Ended
  /\ index \in 1 .. NumInputs + 1
  /\ copied \in Nat /\ successful \in Nat
  /\ entries \in [Input -> EntryType]
  /\ outcome \in [Input -> {"none", "skipped", "nodata", "copied", "short", "torn"}]
  /\ job \in [Input -> {"none", "live", "freed"}]
  /\ status \in [Input -> {"error", "ok"}]
  /\ jobEntry \in [Input -> EntryType]
  /\ work \in [Input -> {"idle", "read", "packed"}]
  /\ temp \in [Input -> Seq(Blk)]
  /\ header \in {"old", "empty", "torn", "written"}
  /\ table \in Seq(EntryType) /\ Len(table) <= NumInputs
  /\ data \in Seq(Blk)

\* Where the main thread is with the pool, the jobs and the entries.
OwnerInv ==
  /\ pc \in {"open", "header", "table"} => phase = "new"
  /\ pc = "pool" => phase \in {"new", "unwinding"}
  /\ pc \in {"jobs", "submit"} => phase = "open"
  /\ pc = "wait" => phase = "waiting"
  /\ pc = "destroy" => phase \in {"open", "closing"}
  /\ pc = "unwind" => phase = "closing"
  /\ pc \in Merging \union {"done"} => phase = "closed"
  /\ pc = "failed" => phase \in {"new", "closed"}
  /\ pc \in Live \ (Merging \union {"submit", "unwind"}) => index = 1
  /\ pc \in {"unwind", "copy"} => index \in Input
  /\ successful < index
  /\ pc \in Live \ Merging =>
       /\ successful = 0
       /\ \A i \in Input : entries[i] = ZeroEntry /\ outcome[i] = "none"
  /\ pc \in Live \ (Merging \union {"unwind"}) => \A i \in Input : job[i] # "freed"

\* A job that has reported its result has run, and left that many blocks.
ResultInv ==
  \A i \in Input :
    status[i] = "ok" =>
      /\ runs[i] = 1
      /\ jobEntry[i].compressed_size \in Nat \ {0}
      /\ outcome[i] = "none" => temp[i] = Huf(i, jobEntry[i].compressed_size)

\* A worker is only inside a job that was accepted and has not run yet.
WorkInv ==
  \A i \in Input :
    /\ work[i] # "idle" => runs[i] = 0 /\ i \in Pool!Elements(accepted)
    /\ work[i] = "packed" => Len(temp[i]) > 0 /\ temp[i] = Huf(i, Len(temp[i]))

\* The first n blocks of input i are where its entry says that it begins.
Placed(i, n) ==
  /\ entries[i].compressed_size = jobEntry[i].compressed_size
  /\ entries[i].data_offset \in Nat \ {0}
  /\ entries[i].data_offset + n <= Len(data) + 1
  /\ \A k \in 1 .. n : data[entries[i].data_offset + k - 1] = <<i, k>>

\* What the merge loop has done with each input.
MergeInv ==
  \A i \in Input :
    /\ pc \in Merging /\ i > index => entries[i] = ZeroEntry /\ outcome[i] = "none"
    /\ pc = "merge" /\ i = index => entries[i] = ZeroEntry /\ outcome[i] = "none"
    /\ pc \in Merging /\ i < index => outcome[i] # "none"
    /\ outcome[i] = "skipped" => entries[i] = ZeroEntry
    /\ outcome[i] = "copied" =>
         status[i] = "ok" /\ Placed(i, jobEntry[i].compressed_size)

\* The member that is being copied ends where the archive ends.
CopyInv ==
  pc = "copy" =>
    /\ status[index] = "ok" /\ outcome[index] = "none"
    /\ copied <= jobEntry[index].compressed_size
    /\ Placed(index, copied)
    /\ entries[index].data_offset + copied = Len(data) + 1

\* Until the table is rewritten the archive is empty to a reader; after that it
\* has entries of inputs that have been merged.
TableInv ==
  /\ pc \in TableThere => Len(table) = NumInputs
  /\ \A i \in 1 .. Len(table) : table[i] # ZeroEntry =>
       pc \in {"done", "failed"} /\ table[i] = entries[i] /\ outcome[i] # "none"

IInv ==
  /\ Types /\ OwnerInv /\ ResultInv /\ WorkInv /\ MergeInv /\ CopyInv /\ TableInv
  /\ PoolFacts!PoolInv
  /\ JobsUseLiveMemory

-----------------------------------------------------------------------------
(* The pool. *)

\* The operators of the pool, as the call and as the facts about it name them.
LEMMA SamePool ==
  /\ \A s : Pool!Elements(s) = PoolFacts!Elements(s)
  /\ Pool!AllRun <=> PoolFacts!AllRun
  /\ Pool!InProgress = PoolFacts!InProgress
  /\ \A S : Pool!Cardinality(S) = PoolFacts!Cardinality(S)
BY DEF Pool!Cardinality, PoolFacts!Cardinality, Pool!Elements, PoolFacts!Elements,
       Pool!AllRun, PoolFacts!AllRun, Pool!InProgress, PoolFacts!InProgress

\* What a step of the call does to the pool is a step of the pool.
LEMMA PoolStep ==
  ASSUME PoolFacts!PoolInv, [Pool!Next]_poolVars
  PROVE  PoolFacts!PoolInv'
<1>1. [PoolFacts!Next]_(PoolFacts!poolVars)
  BY SamePool
  DEF poolVars, PoolFacts!poolVars, Pool!Next, PoolFacts!Next,
      Pool!Moves, PoolFacts!Moves, Pool!Open, PoolFacts!Open,
      Pool!OpenFails, PoolFacts!OpenFails, Pool!OpenUnwind, PoolFacts!OpenUnwind,
      Pool!Unwound, PoolFacts!Unwound, Pool!Abort, PoolFacts!Abort,
      Pool!Accept, PoolFacts!Accept, Pool!Refuse, PoolFacts!Refuse,
      Pool!Start, PoolFacts!Start, Pool!Run, PoolFacts!Run,
      Pool!Wait, PoolFacts!Wait, Pool!WaitReturns, PoolFacts!WaitReturns,
      Pool!Close, PoolFacts!Close, Pool!CloseReturns, PoolFacts!CloseReturns
<1> QED BY <1>1, PoolFacts!NextPool

\* Accepted jobs are inputs and run at most once; a closed pool has run them all
\* and one that was never open has none.
LEMMA PoolState ==
  ASSUME PoolFacts!PoolInv
  PROVE  /\ accepted \in Seq(Input)
         /\ Pool!Elements(accepted) \subseteq Input
         /\ runs \in [Input -> {0, 1}]
         /\ Pool!InProgress \subseteq Pool!Elements(accepted)
         /\ \A i \in Pool!InProgress : runs[i] = 0
         /\ phase = "closed" => Pool!AllRun
         /\ phase \in {"new", "unwinding", "aborted"} =>
              Pool!Elements(accepted) = {} /\ Pool!AllRun
<1>1. accepted \in Seq(Input) /\ runs \in [Input -> {0, 1}]
  BY DEF PoolFacts!PoolInv, PoolFacts!PoolTypes
<1>2. Pool!Elements(accepted) \subseteq Input
  BY <1>1 DEF Pool!Elements
<1>3. PoolFacts!Elements(started) \subseteq PoolFacts!Elements(accepted)
  BY PoolFacts!StartedWasAccepted
<1>4. /\ Pool!InProgress \subseteq Pool!Elements(accepted)
      /\ \A i \in Pool!InProgress : runs[i] = 0
  BY <1>3, SamePool DEF PoolFacts!InProgress
<1>5. phase = "closed" => Pool!AllRun
  BY SamePool DEF PoolFacts!PoolInv, PoolFacts!PhaseInv
<1>6. accepted = <<>> => Pool!Elements(accepted) = {}
  BY DEF Pool!Elements
<1>7. phase \in {"new", "unwinding", "aborted"} =>
        Pool!Elements(accepted) = {} /\ Pool!AllRun
  BY <1>6 DEF PoolFacts!PoolInv, PoolFacts!PhaseInv, Pool!AllRun
<1> QED BY <1>1, <1>2, <1>4, <1>5, <1>7

-----------------------------------------------------------------------------
(* Steps that leave the jobs, the entries and the data alone. *)

\* The owner of the pool moves on, before or after the submission, and so may the
\* pool; no job that has run is affected.
LEMMA OwnerMovesStep ==
  ASSUME IInv, [Pool!Next]_poolVars, pc \in Live, pc' \in Live \union Ended,
         UNCHANGED <<index, copied, entries, successful, outcome>>,
         UNCHANGED jobVars, UNCHANGED <<temp, table, data>>,
         UNCHANGED <<accepted, runs>>,
         header' \in {"old", "empty", "torn", "written"},
         OwnerInv', JobsUseLiveMemory',
         pc' # "copy", pc' = "merge" => pc = "destroy",
         pc' \in TableThere => pc \in TableThere,
         pc \notin Merging
  PROVE  IInv'
<1>1. UNCHANGED <<job, status, jobEntry, work>>
  BY DEF jobVars
<1>2. Types'
  BY <1>1 DEF IInv, Types
<1>3. ResultInv' /\ WorkInv'
  BY <1>1 DEF IInv, ResultInv, WorkInv, Pool!Elements
<1>4. MergeInv'
  <2>1. index = 1 \/ pc' \notin Merging
    BY DEF IInv, OwnerInv, Merging, Live
  <2>2. \A i \in Input : ~ (i < 1)
    BY DEF Input
  <2>3. \A i \in Input : entries'[i] = ZeroEntry /\ outcome'[i] = "none"
    BY DEF IInv, OwnerInv
  <2> QED BY <2>1, <2>2, <2>3 DEF MergeInv
<1>5. CopyInv'
  BY DEF CopyInv, Merging
<1>6. TableInv'
  BY DEF IInv, TableInv, Live
<1>7. PoolFacts!PoolInv'
  BY PoolStep DEF IInv
<1> QED BY <1>2, <1>3, <1>4, <1>5, <1>6, <1>7 DEF IInv

\* The archive is truncated and its header written.
LEMMA BeginStep ==
  ASSUME IInv, OpenArchive \/ WriteHeader
  PROVE  IInv'
<1>1. /\ pc \in {"open", "header"} /\ pc' \in {"header", "table", "failed"}
      /\ UNCHANGED <<index, copied, entries, successful, outcome>>
      /\ UNCHANGED jobVars /\ UNCHANGED <<temp, table, data>> /\ UNCHANGED poolVars
      /\ UNCHANGED <<phase, accepted, runs>>
      /\ header' \in {"old", "empty", "torn", "written"}
  BY DEF OpenArchive, WriteHeader, Goto, loopVars, poolVars, IInv, Types
<1>2. UNCHANGED job
  BY <1>1 DEF jobVars
<1>3. phase = "new" /\ Pool!Elements(accepted) = {} /\ Pool!AllRun
  BY <1>1, PoolState DEF IInv, OwnerInv
<1>4. OwnerInv'
  BY <1>1, <1>2 DEF IInv, OwnerInv, Live, Merging
<1>5. JobsUseLiveMemory'
  BY <1>1, <1>2, <1>3 DEF JobsUseLiveMemory, Pool!AllRun, Pool!Elements
<1> QED BY <1>1, <1>4, <1>5, OwnerMovesStep DEF Live, Ended, Merging, TableThere

\* The placeholder of the table is written, or some of it.
LEMMA WriteTablePlaceholderStep ==
  ASSUME IInv, WriteTablePlaceholder
  PROVE  IInv'
<1>1. /\ pc = "table" /\ pc' \in {"pool", "failed"}
      /\ UNCHANGED <<index, copied, entries, successful, outcome>>
      /\ UNCHANGED <<job, status, jobEntry, work>> /\ UNCHANGED <<temp, header, data>>
      /\ UNCHANGED poolVars /\ UNCHANGED <<phase, accepted, runs>>
  BY DEF WriteTablePlaceholder, Goto, loopVars, jobVars, poolVars
<1>2. index = 1 /\ \A i \in Input : entries[i] = ZeroEntry /\ outcome[i] = "none"
  BY <1>1 DEF IInv, OwnerInv, Live, Merging
<1>3. /\ table' \in Seq(EntryType) /\ Len(table') <= NumInputs
      /\ pc' = "pool" => Len(table') = NumInputs
      /\ \A i \in 1 .. Len(table') : table'[i] = ZeroEntry
  <2>1. CASE pc' = "pool" /\ table' = entries
    <3>1. entries \in [1 .. NumInputs -> EntryType] /\ NumInputs \in Nat
      BY SizeAssumption DEF IInv, Types, Input
    <3>2. table' \in Seq(EntryType) /\ Len(table') = NumInputs
      BY <2>1, <3>1
    <3> QED BY <1>2, <2>1, <3>2, SizeAssumption DEF Input
  <2>2. CASE pc' = "failed" /\ \E n \in 0 .. NumInputs - 1 : table' = ZeroTable(n)
    <3>1. PICK n \in 0 .. NumInputs - 1 : table' = ZeroTable(n)
      BY <2>2
    <3>2. n \in Nat /\ n <= NumInputs /\ ZeroEntry \in EntryType
      BY SizeAssumption DEF EntryType
    <3>3. table' \in [1 .. n -> EntryType] /\ \A i \in 1 .. n : table'[i] = ZeroEntry
      BY <3>1, <3>2 DEF ZeroTable
    <3>4. table' \in Seq(EntryType) /\ Len(table') = n
      BY <3>2, <3>3
    <3> QED BY <2>2, <3>2, <3>3, <3>4
  <2> QED BY <2>1, <2>2 DEF WriteTablePlaceholder, Goto
<1>4. phase = "new" /\ Pool!Elements(accepted) = {} /\ Pool!AllRun
  BY <1>1, PoolState DEF IInv, OwnerInv
<1>5. Types'
  BY <1>1, <1>3 DEF IInv, Types, Live, Ended
<1>6. OwnerInv'
  BY <1>1 DEF IInv, OwnerInv, Live, Merging
<1>7. ResultInv' /\ WorkInv'
  BY <1>1 DEF IInv, ResultInv, WorkInv, Pool!Elements
<1>8. MergeInv' /\ CopyInv'
  BY <1>1, <1>2 DEF MergeInv, CopyInv, Merging
<1>9. TableInv'
  BY <1>1, <1>3 DEF TableInv, TableThere, Live
<1>10. JobsUseLiveMemory'
  BY <1>1, <1>4 DEF JobsUseLiveMemory, Pool!AllRun, Pool!Elements
<1>11. PoolFacts!PoolInv'
  BY <1>1, PoolStep DEF IInv
<1> QED BY <1>5, <1>6, <1>7, <1>8, <1>9, <1>10, <1>11 DEF IInv

\* threadPoolCreate.
LEMMA CreatePoolStep ==
  ASSUME IInv, CreatePool
  PROVE  IInv'
<1>1. /\ pc = "pool" /\ pc' \in {"jobs", "failed", "pool", "crashed"}
      /\ UNCHANGED <<index, copied, entries, successful, outcome>>
      /\ UNCHANGED jobVars /\ UNCHANGED <<temp, header, table, data>>
  BY DEF CreatePool, Goto, loopVars, fileVars
<1>2. /\ Pool!Next /\ UNCHANGED <<accepted, runs>>
      /\ pc' = "jobs" => phase' = "open"
      /\ pc' = "failed" => phase' = "closed"
      /\ pc' = "pool" => phase' = "unwinding"
  BY DEF CreatePool, Goto, Pool!Next, Pool!Moves, Pool!Open, Pool!OpenFails, Pool!OpenUnwind,
         Pool!Unwound, Pool!Abort
<1>3. UNCHANGED job
  BY <1>1 DEF jobVars
<1>4. Pool!Elements(accepted) = {} /\ Pool!AllRun
  BY <1>1, PoolState DEF IInv, OwnerInv
<1>5. OwnerInv'
  BY <1>1, <1>2, <1>3 DEF IInv, OwnerInv, Live, Merging
<1>6. JobsUseLiveMemory'
  BY <1>1, <1>2, <1>3, <1>4 DEF JobsUseLiveMemory, Pool!AllRun, Pool!Elements
<1>7. header' \in {"old", "empty", "torn", "written"}
  BY <1>1 DEF IInv, Types
<1> QED BY <1>1, <1>2, <1>5, <1>6, <1>7, OwnerMovesStep DEF Live, Ended, Merging, TableThere

\* malloc of the array of jobs.
LEMMA AllocateJobsStep ==
  ASSUME IInv, AllocateJobs
  PROVE  IInv'
<1>1. /\ pc = "jobs" /\ pc' \in {"submit", "unwind"}
      /\ UNCHANGED <<index, copied, entries, successful, outcome>>
      /\ UNCHANGED jobVars /\ UNCHANGED <<temp, header, table, data>>
  BY DEF AllocateJobs, Goto, loopVars, fileVars
<1>2. /\ [Pool!Next]_poolVars /\ UNCHANGED <<accepted, runs>>
      /\ pc' = "submit" => phase' = phase
      /\ pc' = "unwind" => phase' = "closing"
  BY DEF AllocateJobs, Goto, Pool!Next, Pool!Moves, Pool!Close, poolVars
<1>3. UNCHANGED job
  BY <1>1 DEF jobVars
<1>4. \A i \in Input : job[i] # "freed"
  BY <1>1 DEF IInv, OwnerInv, Live, Merging
<1>5. OwnerInv'
  <2>1. index' = 1 /\ index' \in Input
    BY <1>1, SizeAssumption DEF IInv, OwnerInv, Live, Merging, Input
  <2> QED BY <1>1, <1>2, <1>3, <2>1 DEF IInv, OwnerInv, Live, Merging
<1>6. JobsUseLiveMemory'
  <2>1. Pool!Elements(accepted)' \subseteq Input
    BY <1>2, PoolState DEF IInv, Pool!Elements
  <2> QED BY <1>1, <1>3, <1>4, <2>1 DEF JobsUseLiveMemory
<1>7. header' \in {"old", "empty", "torn", "written"}
  BY <1>1 DEF IInv, Types
<1> QED BY <1>1, <1>2, <1>5, <1>6, <1>7, OwnerMovesStep DEF Live, Ended, Merging, TableThere

\* threadPoolDestroy returns after malloc has failed: every job has run.
LEMMA UnwindEndsStep ==
  ASSUME IInv, UnwindEnds
  PROVE  IInv'
<1>1. /\ pc = "unwind" /\ pc' = "failed"
      /\ UNCHANGED <<index, copied, entries, successful, outcome>>
      /\ UNCHANGED jobVars /\ UNCHANGED <<temp, header, table, data>>
  BY DEF UnwindEnds, Goto, loopVars, fileVars
<1>2. /\ Pool!Next /\ UNCHANGED <<accepted, runs>> /\ Pool!AllRun /\ phase' = "closed"
  BY DEF UnwindEnds, Pool!Next, Pool!Moves, Pool!CloseReturns
<1>3. UNCHANGED job
  BY <1>1 DEF jobVars
<1>4. OwnerInv'
  BY <1>1, <1>2, <1>3 DEF IInv, OwnerInv, Live, Merging
<1>5. JobsUseLiveMemory'
  BY <1>1, <1>2, <1>3 DEF JobsUseLiveMemory, Pool!AllRun, Pool!Elements
<1>6. header' \in {"old", "empty", "torn", "written"}
  BY <1>1 DEF IInv, Types
<1> QED BY <1>1, <1>2, <1>4, <1>5, <1>6, OwnerMovesStep DEF Live, Ended, Merging, TableThere

\* threadPoolWait and threadPoolDestroy return: every job has run.
LEMMA PoolEndsStep ==
  ASSUME IInv, WaitReturns \/ DestroyPool
  PROVE  IInv'
<1>1. /\ pc \in {"wait", "destroy"} /\ pc' \in {"destroy", "merge"}
      /\ pc' = "merge" => pc = "destroy"
      /\ UNCHANGED <<index, copied, entries, successful, outcome>>
      /\ UNCHANGED jobVars /\ UNCHANGED <<temp, header, table, data>>
  BY DEF WaitReturns, DestroyPool, Goto, loopVars, fileVars
<1>2. /\ Pool!Next /\ UNCHANGED <<accepted, runs>>
      /\ pc' = "destroy" => phase' \in {"open", "closing"}
      /\ pc' = "merge" => phase' = "closed"
  BY DEF WaitReturns, DestroyPool, Goto, Pool!Next, Pool!Moves, Pool!WaitReturns, Pool!Close,
         Pool!CloseReturns
<1>3. UNCHANGED job
  BY <1>1 DEF jobVars
<1>4. \A i \in Input : job[i] # "freed"
  BY <1>1 DEF IInv, OwnerInv, Live, Merging
<1>5. OwnerInv'
  BY <1>1, <1>2, <1>3 DEF IInv, OwnerInv, Live, Merging
<1>6. JobsUseLiveMemory'
  <2>1. Pool!Elements(accepted)' \subseteq Input
    BY <1>2, PoolState DEF IInv, Pool!Elements
  <2> QED BY <1>1, <1>3, <1>4, <2>1 DEF JobsUseLiveMemory
<1>7. header' \in {"old", "empty", "torn", "written"}
  BY <1>1 DEF IInv, Types
<1> QED BY <1>1, <1>2, <1>5, <1>6, <1>7, OwnerMovesStep DEF Live, Ended, Merging, TableThere

-----------------------------------------------------------------------------
(* Submission. *)

\* A job is allocated, filled in and given to the pool, which may refuse it.
LEMMA SubmitJobStep ==
  ASSUME IInv, SubmitJob
  PROVE  IInv'
<1>1. /\ pc = "submit" /\ pc' = "submit" /\ index \in Input /\ index' = index + 1
      /\ job' = [job EXCEPT ![index] = "live"]
      /\ status' = [status EXCEPT ![index] = "error"]
      /\ UNCHANGED <<copied, entries, successful, outcome, jobEntry, work>>
      /\ UNCHANGED <<temp, header, table, data>>
  BY DEF SubmitJob, fileVars
<1>2. Pool!Next /\ UNCHANGED <<phase, runs>>
  BY <1>1 DEF SubmitJob, Pool!Next, Pool!Accept, Pool!Refuse
<1>3. index \in Nat /\ index' \in 1 .. NumInputs + 1 /\ successful < index'
  BY <1>1, SizeAssumption DEF IInv, Types, OwnerInv, Input
<1>4. Types'
  BY <1>1, <1>3 DEF IInv, Types
<1>5. \A i \in Input : entries[i] = ZeroEntry /\ outcome[i] = "none" /\ job'[i] # "freed"
  BY <1>1 DEF IInv, Types, OwnerInv, Live, Merging
<1>6. OwnerInv'
  BY <1>1, <1>2, <1>3, <1>5 DEF IInv, OwnerInv, Merging
<1>7. ResultInv' /\ WorkInv'
  <2>1. ResultInv'
    BY <1>1, <1>2 DEF IInv, Types, ResultInv
  <2>2. Pool!Elements(accepted) \subseteq Pool!Elements(accepted)'
    <3>1. accepted' = accepted \/ accepted' = Append(accepted, index)
      BY DEF SubmitJob, Pool!Accept, Pool!Refuse
    <3>2. accepted \in Seq(Input)
      BY PoolState DEF IInv
    <3>3. \A k \in 1 .. Len(accepted) : k \in 1 .. Len(accepted') /\ accepted'[k] = accepted[k]
      BY <1>1, <3>1, <3>2
    <3> QED BY <3>3 DEF Pool!Elements
  <2> QED BY <1>1, <1>2, <2>1, <2>2 DEF IInv, WorkInv
<1>8. MergeInv' /\ CopyInv'
  BY <1>1, <1>5 DEF MergeInv, CopyInv, Merging
<1>9. TableInv'
  BY <1>1 DEF IInv, TableInv
<1>10. PoolFacts!PoolInv'
  BY <1>2, PoolStep DEF IInv
<1>11. JobsUseLiveMemory'
  <2>1. Pool!Elements(accepted)' \subseteq Input
    BY <1>10 DEF PoolFacts!PoolInv, PoolFacts!PoolTypes, Pool!Elements
  <2> QED BY <1>1, <1>5, <2>1 DEF JobsUseLiveMemory
<1> QED BY <1>4, <1>6, <1>7, <1>8, <1>9, <1>10, <1>11 DEF IInv

\* malloc of a job fails: its predecessors are freed and the pool is destroyed.
LEMMA SubmitOutOfMemoryStep ==
  ASSUME IInv, SubmitOutOfMemory
  PROVE  IInv'
<1>1. /\ pc = "submit" /\ pc' = "unwind" /\ index \in Input
      /\ job' = [i \in Input |-> IF i < index THEN "freed" ELSE job[i]]
      /\ UNCHANGED <<index, copied, entries, successful, outcome, status, jobEntry, work>>
      /\ UNCHANGED <<temp, header, table, data>>
  BY DEF SubmitOutOfMemory, AfterOutOfMemory, Goto, loopVars, fileVars
<1>2. Pool!Next /\ UNCHANGED <<accepted, runs>> /\ phase' = "closing"
  BY DEF SubmitOutOfMemory, Pool!Next, Pool!Close, Pool!Moves
<1>3. Types'
  BY <1>1 DEF IInv, Types, Live
<1>4. \A i \in Input : entries[i] = ZeroEntry /\ outcome[i] = "none"
  BY <1>1 DEF IInv, OwnerInv, Live, Merging
<1>5. OwnerInv'
  BY <1>1, <1>2, <1>4 DEF IInv, OwnerInv, Live, Merging
<1>6. ResultInv' /\ WorkInv'
  BY <1>1, <1>2 DEF IInv, ResultInv, WorkInv, Pool!Elements
<1>7. MergeInv' /\ CopyInv'
  BY <1>1, <1>4 DEF MergeInv, CopyInv, Merging
<1>8. TableInv'
  BY <1>1 DEF IInv, TableInv, TableThere, Live
<1>9. PoolFacts!PoolInv'
  BY <1>2, PoolStep DEF IInv
<1>10. JobsUseLiveMemory'
  BY <1>1 DEF JobsUseLiveMemory
<1> QED BY <1>3, <1>5, <1>6, <1>7, <1>8, <1>9, <1>10 DEF IInv

\* The submission is over.
LEMMA CallWaitStep ==
  ASSUME IInv, CallWait
  PROVE  IInv'
<1>1. /\ pc = "submit" /\ pc' = "wait" /\ index' = 1
      /\ UNCHANGED <<copied, entries, successful, outcome, job, status, jobEntry, work>>
      /\ UNCHANGED <<temp, header, table, data>>
  BY DEF CallWait, AfterSubmission, Goto, jobVars, fileVars
<1>2. Pool!Next /\ UNCHANGED <<accepted, runs>> /\ phase' = "waiting"
  BY DEF CallWait, Pool!Next, Pool!Wait, Pool!Moves
<1>3. index' \in 1 .. NumInputs + 1
  BY <1>1, SizeAssumption
<1>4. Types'
  BY <1>1, <1>3 DEF IInv, Types, Live
<1>5. \A i \in Input : entries[i] = ZeroEntry /\ outcome[i] = "none" /\ job[i] # "freed"
  BY <1>1 DEF IInv, OwnerInv, Live, Merging
<1>6. successful = 0
  BY <1>1 DEF IInv, OwnerInv, Live, Merging
<1>7. OwnerInv'
  BY <1>1, <1>2, <1>5, <1>6 DEF OwnerInv, Merging
<1>8. ResultInv' /\ WorkInv'
  BY <1>1, <1>2 DEF IInv, ResultInv, WorkInv, Pool!Elements
<1>9. MergeInv' /\ CopyInv'
  BY <1>1, <1>5 DEF MergeInv, CopyInv, Merging
<1>10. TableInv'
  BY <1>1 DEF IInv, TableInv, TableThere, Live
<1>11. PoolFacts!PoolInv'
  BY <1>2, PoolStep DEF IInv
<1>12. JobsUseLiveMemory'
  <2>1. Pool!Elements(accepted)' \subseteq Input
    BY <1>2, PoolState DEF IInv, Pool!Elements
  <2> QED BY <1>1, <1>5, <2>1 DEF JobsUseLiveMemory
<1> QED BY <1>4, <1>7, <1>8, <1>9, <1>10, <1>11, <1>12 DEF IInv

-----------------------------------------------------------------------------
(* The workers. *)

\* What a worker does to its own job leaves what the main thread knows.
LEMMA WorkerFrame ==
  ASSUME IInv, NEW i \in Input, i \in Pool!InProgress,
         UNCHANGED <<pc, index, copied, entries, successful, outcome, job>>,
         UNCHANGED <<header, table, data>>,
         UNCHANGED <<phase, accepted>>,
         \A k \in Input : runs[k] = 1 => runs'[k] = 1,
         runs' \in [Input -> {0, 1}],
         \A k \in Input : status[k] = "ok" => status'[k] = "ok" /\ jobEntry'[k] = jobEntry[k]
  PROVE  OwnerInv' /\ MergeInv' /\ CopyInv' /\ TableInv' /\ JobsUseLiveMemory'
<1>1. OwnerInv'
  BY DEF IInv, OwnerInv
<1>2. \A k \in Input, n \in Nat : status[k] = "ok" /\ Placed(k, n) => Placed(k, n)'
  BY DEF Placed
<1>3. \A k \in Input : status[k] = "ok" => jobEntry[k].compressed_size \in Nat
  BY DEF IInv, ResultInv
<1>4. MergeInv'
  BY <1>2, <1>3 DEF IInv, MergeInv
<1>5. CopyInv'
  BY <1>2 DEF IInv, CopyInv, Types, OwnerInv
<1>6. TableInv'
  BY DEF IInv, TableInv
<1>7. JobsUseLiveMemory'
  <2>1. Pool!Elements(accepted)' = Pool!Elements(accepted) /\ Pool!Elements(accepted) \subseteq Input
    BY PoolState DEF IInv, Pool!Elements
  <2>2. runs \in [Input -> {0, 1}]
    BY PoolState DEF IInv
  <2> QED BY <2>1, <2>2 DEF IInv, JobsUseLiveMemory, Pool!AllRun
<1> QED BY <1>1, <1>4, <1>5, <1>6, <1>7

\* The pool records that the job has run.
LEMMA JobReturnsStep ==
  ASSUME IInv, NEW i \in Input, JobReturns(i)
  PROVE  /\ PoolFacts!PoolInv'
         /\ UNCHANGED <<phase, accepted>> /\ UNCHANGED Pool!Elements(accepted)
         /\ i \in Pool!InProgress /\ runs[i] = 0
         /\ runs' = [runs EXCEPT ![i] = 1]
         /\ runs \in [Input -> {0, 1}] /\ runs' \in [Input -> {0, 1}]
         /\ \A k \in Input : runs[k] = 1 => runs'[k] = 1
         /\ work' = [work EXCEPT ![i] = "idle"]
         /\ \A k \in Input : work'[k] = "idle" \/ (work'[k] = work[k] /\ runs'[k] = runs[k])
         /\ status[i] = "error"
<1>1. Pool!Run(i) /\ work' = [work EXCEPT ![i] = "idle"]
  BY DEF JobReturns
<1>2. Pool!Next
  BY <1>1 DEF Pool!Next
<1>3. /\ UNCHANGED <<phase, accepted>> /\ i \in Pool!InProgress
      /\ runs' = [runs EXCEPT ![i] = 1]
  BY <1>1 DEF Pool!Run
<1>4. runs \in [Input -> {0, 1}] /\ runs[i] = 0
  BY <1>3, PoolState DEF IInv
<1>5. runs' \in [Input -> {0, 1}] /\ \A k \in Input : runs[k] = 1 => runs'[k] = 1
  BY <1>3, <1>4
<1>6. status[i] = "error"
  BY <1>4 DEF IInv, Types, ResultInv
<1>7. \A k \in Input : work'[k] = "idle" \/ (work'[k] = work[k] /\ runs'[k] = runs[k])
  BY <1>1, <1>3, <1>4 DEF IInv, Types
<1>8. UNCHANGED Pool!Elements(accepted)
  BY <1>3 DEF Pool!Elements
<1> QED BY <1>1, <1>2, <1>3, <1>4, <1>5, <1>6, <1>7, <1>8, PoolStep DEF IInv

\* The blocks of a member, as many as a job may have written.
LEMMA HufBlocks ==
  ASSUME NEW i \in Input, NEW n \in 1 .. Blocks[i]
  PROVE  Huf(i, n) \in Seq(Blk) /\ Len(Huf(i, n)) = n
<1>1. Blocks[i] \in Nat /\ n \in Nat
  BY SizeAssumption
<1>2. \A k \in 1 .. n : <<i, k>> \in Blk
  <2> TAKE k \in 1 .. n
  <2>1. k \in 1 .. Blocks[i]
    BY <1>1
  <2>2. Huf(i, Blocks[i])[k] = <<i, k>> /\ k \in DOMAIN Huf(i, Blocks[i])
    BY <2>1 DEF Huf
  <2>3. <<i, k>> \in Range(Huf(i, Blocks[i]))
    BY <2>2 DEF Range
  <2> QED BY <2>3 DEF Blk
<1>3. Huf(i, n) \in [1 .. n -> Blk]
  BY <1>2 DEF Huf
<1> QED BY <1>1, <1>3

\* A worker reads the input of its job.
LEMMA ReadInputStep ==
  ASSUME IInv, NEW i \in Input, ReadInput(i)
  PROVE  IInv'
<1>1. /\ i \in Pool!InProgress /\ work' = [work EXCEPT ![i] = "read"]
      /\ UNCHANGED <<pc, index, copied, entries, successful, outcome, job, status, jobEntry>>
      /\ UNCHANGED <<temp, header, table, data>>
      /\ UNCHANGED poolVars /\ UNCHANGED <<phase, accepted, runs>>
  BY DEF ReadInput, Working, loopVars, fileVars, poolVars
<1>2. runs \in [Input -> {0, 1}] /\ runs[i] = 0
  BY <1>1, PoolState DEF IInv
<1>3. Types' /\ ResultInv' /\ WorkInv'
  <2>1. i \in Pool!Elements(accepted)
    BY <1>1, PoolState DEF IInv
  <2> QED BY <1>1, <1>2, <2>1 DEF IInv, Types, ResultInv, WorkInv, Pool!Elements
<1>4. PoolFacts!PoolInv'
  BY <1>1, PoolStep DEF IInv
<1> QED BY <1>1, <1>2, <1>3, <1>4, WorkerFrame DEF IInv

\* The input cannot be read: the job returns without a result.
LEMMA ReadInputFailsStep ==
  ASSUME IInv, NEW i \in Input, ReadInputFails(i)
  PROVE  IInv'
<1>1. /\ JobReturns(i)
      /\ UNCHANGED <<pc, index, copied, entries, successful, outcome, job, status, jobEntry>>
      /\ UNCHANGED <<temp, header, table, data>>
  BY DEF ReadInputFails, loopVars, fileVars
<1>2. Types' /\ ResultInv'
  BY <1>1, JobReturnsStep DEF IInv, Types, ResultInv
<1>3. WorkInv'
  <2>1. /\ \A k \in Input : work'[k] = "idle" \/ (work'[k] = work[k] /\ runs'[k] = runs[k])
        /\ UNCHANGED Pool!Elements(accepted)
    BY <1>1, JobReturnsStep
  <2> QED BY <1>1, <2>1 DEF IInv, WorkInv
<1> QED BY <1>1, <1>2, <1>3, WorkerFrame, JobReturnsStep DEF IInv

\* A temporary file has been written, with or without its last block.
LEMMA CompressStep ==
  ASSUME IInv, NEW i \in Input, Compress(i)
  PROVE  IInv'
<1>1. PICK n \in 1 .. Blocks[i] : temp' = [temp EXCEPT ![i] = Huf(i, n)]
  BY DEF Compress
<1>2. /\ i \in Pool!InProgress /\ work' = [work EXCEPT ![i] = "packed"]
      /\ UNCHANGED <<pc, index, copied, entries, successful, outcome, job, status, jobEntry>>
      /\ UNCHANGED <<header, table, data>>
      /\ UNCHANGED poolVars /\ UNCHANGED <<phase, accepted, runs>>
  BY DEF Compress, Working, loopVars, poolVars
<1>3. runs \in [Input -> {0, 1}] /\ runs[i] = 0
  BY <1>2, PoolState DEF IInv
<1>4. n \in 1 .. Blocks[i]
  BY SizeAssumption
<1>5. Huf(i, n) \in Seq(Blk) /\ Len(Huf(i, n)) = n
  BY <1>4, HufBlocks
<1>6. Types'
  BY <1>1, <1>2, <1>5 DEF IInv, Types
<1>7. ResultInv' /\ WorkInv'
  <2>1. i \in Pool!Elements(accepted)
    BY <1>2, PoolState DEF IInv
  <2> QED BY <1>1, <1>2, <1>3, <1>4, <1>5, <2>1 DEF IInv, Types, ResultInv, WorkInv, Pool!Elements
<1>8. PoolFacts!PoolInv'
  BY <1>2, PoolStep DEF IInv
<1> QED BY <1>2, <1>3, <1>6, <1>7, <1>8, WorkerFrame DEF IInv

\* No temporary file, or one that nobody removes.
LEMMA CompressFailsStep ==
  ASSUME IInv, NEW i \in Input, CompressFails(i)
  PROVE  IInv'
<1>1. /\ JobReturns(i)
      /\ temp' \in {temp, [temp EXCEPT ![i] = <<Torn>>], [temp EXCEPT ![i] = Huf(i, Blocks[i])]}
      /\ UNCHANGED <<pc, index, copied, entries, successful, outcome, job, status, jobEntry>>
      /\ UNCHANGED <<header, table, data>>
  BY DEF CompressFails, loopVars
<1>2. <<Torn>> \in Seq(Blk) /\ Huf(i, Blocks[i]) \in Seq(Blk)
  <2>1. Blocks[i] \in 1 .. Blocks[i]
    BY SizeAssumption
  <2>2. Torn \in Blk
    BY DEF Blk
  <2> QED BY <2>1, <2>2, HufBlocks
<1>3. /\ temp' \in [Input -> Seq(Blk)]
      /\ \A k \in Input : k # i => temp'[k] = temp[k]
  BY <1>1, <1>2 DEF IInv, Types
<1>4. Types'
  BY <1>1, <1>3, JobReturnsStep DEF IInv, Types
<1>5. ResultInv'
  BY <1>1, <1>3, JobReturnsStep DEF IInv, ResultInv
<1>6. WorkInv'
  <2>1. /\ \A k \in Input : work'[k] = "idle" \/ (work'[k] = work[k] /\ runs'[k] = runs[k])
        /\ UNCHANGED Pool!Elements(accepted)
    BY <1>1, JobReturnsStep
  <2>2. work'[i] = "idle"
    BY <1>1, JobReturnsStep DEF IInv, Types
  <2> QED BY <1>3, <2>1, <2>2 DEF IInv, WorkInv
<1> QED BY <1>1, <1>4, <1>5, <1>6, WorkerFrame, JobReturnsStep DEF IInv

\* The job reports what it has written.
LEMMA RecordResultStep ==
  ASSUME IInv, NEW i \in Input, RecordResult(i)
  PROVE  IInv'
<1>1. /\ JobReturns(i) /\ work[i] = "packed"
      /\ jobEntry' = [jobEntry EXCEPT ![i] = Entry(i, Len(temp[i]), 0)]
      /\ status' = [status EXCEPT ![i] = "ok"]
      /\ UNCHANGED <<pc, index, copied, entries, successful, outcome, job>>
      /\ UNCHANGED <<temp, header, table, data>>
  BY DEF RecordResult, loopVars, fileVars
<1>2. Len(temp[i]) \in Nat \ {0} /\ temp[i] = Huf(i, Len(temp[i]))
  BY <1>1 DEF IInv, Types, WorkInv
<1>3. Entry(i, Len(temp[i]), 0) \in EntryType /\ Entry(i, Len(temp[i]), 0).compressed_size = Len(temp[i])
  BY <1>2 DEF Entry, EntryType
<1>4. Types'
  BY <1>1, <1>3, JobReturnsStep DEF IInv, Types
<1>5. ResultInv'
  BY <1>1, <1>2, <1>3, JobReturnsStep DEF IInv, Types, ResultInv
<1>6. WorkInv'
  <2>1. /\ \A k \in Input : work'[k] = "idle" \/ (work'[k] = work[k] /\ runs'[k] = runs[k])
        /\ UNCHANGED Pool!Elements(accepted)
    BY <1>1, JobReturnsStep
  <2> QED BY <1>1, <2>1 DEF IInv, WorkInv
<1>7. \A k \in Input : status[k] = "ok" => status'[k] = "ok" /\ jobEntry'[k] = jobEntry[k]
  BY <1>1, JobReturnsStep DEF IInv, Types
<1> QED BY <1>1, <1>4, <1>5, <1>6, <1>7, WorkerFrame, JobReturnsStep DEF IInv

\* A worker takes a job.
LEMMA StartJobStep ==
  ASSUME IInv, StartJob
  PROVE  IInv'
<1>1. /\ UNCHANGED <<pc, index, copied, entries, successful, outcome, job, status, jobEntry, work>>
      /\ UNCHANGED <<temp, header, table, data>>
  BY DEF StartJob, loopVars, jobVars, fileVars
<1>2. Pool!Next /\ UNCHANGED <<phase, accepted, runs>>
  BY DEF StartJob, Pool!Next, Pool!Start
<1>3. Types' /\ OwnerInv' /\ ResultInv' /\ WorkInv' /\ TableInv'
  BY <1>1, <1>2 DEF IInv, Types, OwnerInv, ResultInv, WorkInv, TableInv, Pool!Elements
<1>4. MergeInv' /\ CopyInv'
  BY <1>1 DEF IInv, MergeInv, CopyInv, Placed
<1>5. JobsUseLiveMemory'
  BY <1>1, <1>2 DEF IInv, JobsUseLiveMemory, Pool!Elements, Pool!AllRun
<1> QED BY <1>2, <1>3, <1>4, <1>5, PoolStep DEF IInv

-----------------------------------------------------------------------------
(* The process ends. *)

\* Whatever was under way stays where it is.
LEMMA ProcessEnds ==
  ASSUME IInv, pc \in Live, pc' \in {"crashed", "killed"},
         UNCHANGED <<index, copied, entries, successful, outcome, job, status, jobEntry, work>>,
         UNCHANGED <<temp, header, table, data>>, UNCHANGED poolVars
  PROVE  IInv'
<1>1. UNCHANGED <<phase, accepted, runs>>
  BY DEF poolVars
<1>2. Types'
  BY DEF IInv, Types, Ended
<1>3. OwnerInv'
  BY <1>1 DEF IInv, OwnerInv, Live, Merging
<1>4. ResultInv' /\ WorkInv'
  BY <1>1 DEF IInv, ResultInv, WorkInv, Pool!Elements
<1>5. \A k \in Input, n \in Nat : Placed(k, n) => Placed(k, n)'
  BY DEF Placed
<1>6. \A k \in Input : status[k] = "ok" => jobEntry[k].compressed_size \in Nat
  BY DEF IInv, ResultInv
<1>7. MergeInv' /\ CopyInv'
  BY <1>5, <1>6 DEF IInv, MergeInv, CopyInv, Merging
<1>8. TableInv'
  BY DEF IInv, TableInv, TableThere, Live
<1>9. JobsUseLiveMemory'
  BY <1>1 DEF IInv, JobsUseLiveMemory, Pool!Elements, Pool!AllRun
<1> QED BY <1>2, <1>3, <1>4, <1>7, <1>8, <1>9, PoolStep DEF IInv

\* The process is killed, or a worker uses a job that the main thread has freed.
LEMMA KillStep ==
  ASSUME IInv, Kill \/ \E i \in Input : UseFreedJob(i)
  PROVE  IInv'
BY ProcessEnds DEF Kill, UseFreedJob, Working, Goto, loopVars, jobVars, fileVars

-----------------------------------------------------------------------------
(* The merge. *)

\* While the temporary files are merged the pool is gone, and every job has run.
LEMMA PoolIsClosed ==
  ASSUME IInv, pc \in Merging, UNCHANGED poolVars, pc' \notin {"open", "unwind"}
  PROVE  /\ PoolFacts!PoolInv' /\ JobsUseLiveMemory'
         /\ phase = "closed" /\ UNCHANGED <<phase, runs>>
         /\ \A i \in Input : work[i] = "idle"
<1>1. phase = "closed" /\ Pool!AllRun /\ UNCHANGED <<phase, accepted, runs>>
  BY PoolState DEF IInv, OwnerInv, poolVars
<1>2. JobsUseLiveMemory'
  BY <1>1 DEF JobsUseLiveMemory, Pool!AllRun, Pool!Elements
<1>3. \A i \in Input : work[i] = "idle"
  BY <1>1 DEF IInv, WorkInv, Pool!AllRun
<1> QED BY <1>1, <1>2, <1>3, PoolStep DEF IInv

\* The data area grows at its end.
Grows == /\ data' \in Seq(Blk) /\ Len(data) <= Len(data')
         /\ \A k \in 1 .. Len(data) : data'[k] = data[k]

\* A member stays where it is.
LEMMA PlacedStays ==
  ASSUME Types, Grows, NEW i \in Input, NEW n \in Nat, Placed(i, n),
         entries'[i] = entries[i], jobEntry'[i] = jobEntry[i]
  PROVE  Placed(i, n)'
<1> DEFINE o == entries[i].data_offset
<1>1. o \in Nat \ {0} /\ Len(data) \in Nat /\ Len(data') \in Nat /\ o + n <= Len(data) + 1
  BY DEF Placed, Types, Grows
<1>2. \A k \in 1 .. n : o + k - 1 \in 1 .. Len(data)
  <2> HIDE DEF o
  <2> QED BY <1>1
<1>3. \A k \in 1 .. n : data'[o + k - 1] = <<i, k>>
  BY <1>2 DEF Placed, Grows
<1>4. o + n <= Len(data') + 1
  <2>1. Len(data) <= Len(data')
    BY DEF Grows
  <2> HIDE DEF o
  <2> QED BY <1>1, <2>1
<1>5. entries'[i].compressed_size = jobEntry'[i].compressed_size
  BY DEF Placed
<1> QED BY <1>1, <1>3, <1>4, <1>5 DEF Placed

\* The merge loop goes on with the next input, whatever became of this one.
LEMMA LeaveMemberStep ==
  ASSUME IInv, pc \in Merging, index \in Input, NEW result, LeaveMember(result),
         result \in {"skipped", "nodata", "copied", "short", "torn"},
         copied' \in Nat, successful' \in {successful, successful + 1},
         entries' \in [Input -> EntryType], temp' \in [Input -> Seq(Blk)],
         \A k \in Input : k # index => entries'[k] = entries[k] /\ temp'[k] = temp[k],
         Grows,
         result = "skipped" => entries'[index] = ZeroEntry,
         result = "copied" =>
           /\ status[index] = "ok" /\ copied = jobEntry[index].compressed_size
           /\ Placed(index, copied) /\ entries'[index] = entries[index]
  PROVE  IInv'
<1>1. /\ job' = [job EXCEPT ![index] = "freed"]
      /\ outcome' = [outcome EXCEPT ![index] = result]
      /\ index' = index + 1 /\ pc' = "merge"
      /\ UNCHANGED <<status, jobEntry, work, header, table>> /\ UNCHANGED poolVars
  BY DEF LeaveMember, Goto
<1>2. index \in Nat /\ index' \in 1 .. NumInputs + 1 /\ \A k \in Input : k < index' => k < index \/ k = index
  BY <1>1, SizeAssumption DEF Input
<1>3. /\ PoolFacts!PoolInv' /\ JobsUseLiveMemory' /\ phase = "closed" /\ UNCHANGED <<phase, runs>>
      /\ \A i \in Input : work[i] = "idle"
  BY <1>1, PoolIsClosed
<1>4. Types'
  BY <1>1, <1>2 DEF IInv, Types, Live, Grows
<1>5. OwnerInv'
  <2>1. successful < index /\ successful \in Nat
    BY DEF IInv, OwnerInv, Types
  <2>2. successful' < index'
    BY <1>1, <1>2, <2>1
  <2> QED BY <1>1, <1>3, <2>2 DEF OwnerInv, Live, Merging
<1>6. ResultInv' /\ WorkInv'
  BY <1>1, <1>3 DEF IInv, Types, ResultInv, WorkInv
<1>7. MergeInv'
  <2> SUFFICES ASSUME NEW i \in Input
               PROVE  MergeInv!(i)'
    BY DEF MergeInv
  <2>1. CASE i = index
    <3>1. outcome'[i] = result /\ ~ (i > index') /\ i # index'
      BY <1>1, <1>2, <2>1 DEF IInv, Types
    <3>2. result = "copied" => Placed(i, jobEntry[i].compressed_size)'
      BY <1>1, <2>1, PlacedStays DEF IInv, Types
    <3> QED BY <1>1, <2>1, <3>1, <3>2
  <2>2. CASE i # index
    <3>1. entries'[i] = entries[i] /\ outcome'[i] = outcome[i] /\ status'[i] = status[i] /\ jobEntry'[i] = jobEntry[i]
      BY <1>1, <2>2 DEF IInv, Types
    <3>2. i > index' \/ i = index' => i > index
      BY <1>1, <1>2 DEF Input
    <3>3. i < index' => i < index
      BY <1>2, <2>2
    <3>4. outcome[i] = "copied" => Placed(i, jobEntry[i].compressed_size)'
      <4> SUFFICES ASSUME outcome[i] = "copied"
                   PROVE  Placed(i, jobEntry[i].compressed_size)'
        OBVIOUS
      <4>1. jobEntry[i].compressed_size \in Nat /\ Placed(i, jobEntry[i].compressed_size)
        BY DEF IInv, MergeInv, ResultInv
      <4> DEFINE n == jobEntry[i].compressed_size
      <4>2. Placed(i, n)'
        BY <3>1, <4>1, PlacedStays DEF IInv
      <4> QED BY <3>1, <4>2 DEF Placed
    <3> QED BY <1>1, <3>1, <3>2, <3>3, <3>4 DEF IInv, MergeInv
  <2> QED BY <2>1, <2>2
<1>8. CopyInv'
  BY <1>1 DEF CopyInv
<1>9. TableInv'
  BY <1>1 DEF IInv, TableInv, TableThere, Merging, Live
<1> QED BY <1>3, <1>4, <1>5, <1>6, <1>7, <1>8, <1>9 DEF IInv

\* The data area as it is has grown by nothing.
LEMMA GrowsByNothing ==
  ASSUME Types, data' = data
  PROVE  Grows
BY DEF Types, Grows

\* A block is appended to the data area.
LEMMA GrowsByBlock ==
  ASSUME Types, NEW b \in Blk, data' = Append(data, b)
  PROVE  Grows /\ Len(data') = Len(data) + 1 /\ data'[Len(data) + 1] = b
BY AppendProperties DEF Types, Grows

\* The entry of the member that is entered.
LEMMA EntryOfMember ==
  ASSUME IInv, index \in Input, status[index] = "ok", EnterMember
  PROVE  /\ entries' \in [Input -> EntryType]
         /\ \A k \in Input : k # index => entries'[k] = entries[k]
         /\ entries'[index].compressed_size = jobEntry[index].compressed_size
         /\ entries'[index].data_offset = Len(data) + 1
<1> DEFINE e == [jobEntry[index] EXCEPT !.data_offset = CurrentOffset]
<1>1. entries' = [entries EXCEPT ![index] = e]
  BY DEF EnterMember
<1>2. CurrentOffset \in Nat /\ CurrentOffset = Len(data) + 1
  BY DEF CurrentOffset, IInv, Types
<1>3. jobEntry[index] \in [path : Input, compressed_size : Nat, data_offset : Nat]
  <2>1. jobEntry[index] \in EntryType /\ jobEntry[index].compressed_size # 0
    BY DEF IInv, Types, ResultInv
  <2>2. ZeroEntry.compressed_size = 0
    BY DEF ZeroEntry, Entry
  <2> QED BY <2>1, <2>2 DEF EntryType
<1>4. /\ e \in [path : Input, compressed_size : Nat, data_offset : Nat]
      /\ e.compressed_size = jobEntry[index].compressed_size /\ e.data_offset = Len(data) + 1
  BY <1>2, <1>3
<1>5. e \in EntryType
  BY <1>4 DEF EntryType
<1> HIDE DEF e
<1> QED BY <1>1, <1>4, <1>5 DEF IInv, Types

\* The job of this input left nothing to merge.
LEMMA SkipMemberStep ==
  ASSUME IInv, SkipMember
  PROVE  IInv'
<1>1. /\ pc = "merge" /\ index \in Input /\ LeaveMember("skipped")
      /\ UNCHANGED <<copied, entries, successful, temp, data>>
  BY DEF SkipMember
<1>2. entries[index] = ZeroEntry
  BY <1>1 DEF IInv, MergeInv
<1>3. Types
  BY DEF IInv
<1>4. /\ entries' \in [Input -> EntryType] /\ temp' \in [Input -> Seq(Blk)] /\ copied' \in Nat
      /\ successful' = successful /\ Grows
  BY <1>1, <1>3, GrowsByNothing DEF Types
<1> QED BY <1>1, <1>2, <1>4, LeaveMemberStep DEF Merging

\* The temporary file is not there; its entry is made all the same.
LEMMA OpenTempFailsStep ==
  ASSUME IInv, OpenTempFails
  PROVE  IInv'
<1>1. /\ pc = "merge" /\ index \in Input /\ status[index] = "ok" /\ EnterMember
      /\ LeaveMember("nodata")
      /\ UNCHANGED <<copied, successful, temp, data>>
  BY DEF OpenTempFails
<1>2. Types
  BY DEF IInv
<1>3. /\ temp' \in [Input -> Seq(Blk)] /\ copied' \in Nat /\ successful' = successful /\ Grows
  BY <1>1, <1>2, GrowsByNothing DEF Types
<1>4. /\ entries' \in [Input -> EntryType]
      /\ \A k \in Input : k # index => entries'[k] = entries[k]
  BY <1>1, EntryOfMember
<1> QED BY <1>1, <1>3, <1>4, LeaveMemberStep DEF Merging

\* A step of the merge that stays with the same input.
LEMMA CopyFrame ==
  ASSUME IInv, pc \in Merging, pc' = "copy", index \in Input, index' = index,
         UNCHANGED <<successful, outcome, job, status, jobEntry, work, temp, header, table>>,
         UNCHANGED poolVars,
         outcome[index] = "none",
         copied' \in Nat, entries' \in [Input -> EntryType], Grows,
         \A k \in Input : k # index => entries'[k] = entries[k],
         CopyInv'
  PROVE  IInv'
<1>1. /\ PoolFacts!PoolInv' /\ JobsUseLiveMemory' /\ phase = "closed" /\ UNCHANGED <<phase, runs>>
      /\ \A i \in Input : work[i] = "idle"
  BY PoolIsClosed
<1>2. Types'
  BY DEF IInv, Types, Grows, Live
<1>3. OwnerInv'
  BY <1>1 DEF IInv, OwnerInv, Merging, Live
<1>4. ResultInv' /\ WorkInv'
  BY <1>1 DEF IInv, ResultInv, WorkInv
<1>5. MergeInv'
  <2> SUFFICES ASSUME NEW i \in Input
               PROVE  MergeInv!(i)'
    BY DEF MergeInv
  <2>1. outcome[i] = "copied" => Placed(i, jobEntry[i].compressed_size)'
    <3> SUFFICES ASSUME outcome[i] = "copied"
                 PROVE  Placed(i, jobEntry[i].compressed_size)'
      OBVIOUS
    <3> DEFINE n == jobEntry[i].compressed_size
    <3>1. n \in Nat /\ Placed(i, n) /\ i # index
      BY DEF IInv, MergeInv, ResultInv
    <3>2. Placed(i, n)'
      BY <3>1, PlacedStays DEF IInv
    <3> QED BY <3>2 DEF Placed
  <2>2. CASE i = index
    BY <2>2, SizeAssumption DEF Input
  <2>3. CASE i # index
    BY <2>1, <2>3 DEF IInv, MergeInv
  <2> QED BY <2>2, <2>3
<1>6. TableInv'
  BY DEF IInv, TableInv, TableThere, Live, Merging
<1> QED BY <1>1, <1>2, <1>3, <1>4, <1>5, <1>6 DEF IInv

\* The temporary file is opened and its entry points at the end of the archive.
LEMMA OpenTempStep ==
  ASSUME IInv, OpenTemp
  PROVE  IInv'
<1>1. /\ pc = "merge" /\ index \in Input /\ status[index] = "ok" /\ EnterMember
      /\ copied' = 0 /\ pc' = "copy" /\ index' = index
      /\ UNCHANGED <<successful, outcome, job, status, jobEntry, work, temp, header, table, data>>
      /\ UNCHANGED poolVars
  BY DEF OpenTemp, Goto, jobVars, fileVars
<1>2. outcome[index] = "none"
  BY <1>1 DEF IInv, MergeInv
<1>3. /\ entries' \in [Input -> EntryType]
      /\ \A k \in Input : k # index => entries'[k] = entries[k]
      /\ entries'[index].compressed_size = jobEntry[index].compressed_size
      /\ entries'[index].data_offset = Len(data) + 1
  BY <1>1, EntryOfMember
<1>4. Len(data) \in Nat /\ jobEntry[index].compressed_size \in Nat /\ Grows
  BY <1>1, GrowsByNothing DEF IInv, Types, ResultInv
<1>5. Placed(index, copied)'
  BY <1>1, <1>3, <1>4 DEF Placed
<1>6. CopyInv'
  BY <1>1, <1>2, <1>3, <1>4, <1>5 DEF CopyInv
<1> QED BY <1>1, <1>2, <1>3, <1>4, <1>6, CopyFrame DEF Merging

\* The member that is copied has an input, and its temporary file is what the job left.
LEMMA CopySource ==
  ASSUME IInv, pc = "copy"
  PROVE  /\ index \in Input /\ status[index] = "ok" /\ outcome[index] = "none"
         /\ jobEntry[index].compressed_size \in Nat
         /\ temp[index] = Huf(index, jobEntry[index].compressed_size)
         /\ Len(temp[index]) = jobEntry[index].compressed_size
         /\ copied \in Nat /\ copied <= jobEntry[index].compressed_size
         /\ Placed(index, copied)
<1>1. index \in Input
  BY DEF IInv, OwnerInv
<1>2. /\ status[index] = "ok" /\ outcome[index] = "none" /\ Placed(index, copied) /\ copied \in Nat
      /\ copied <= jobEntry[index].compressed_size
  BY DEF IInv, CopyInv, Types
<1>3. /\ jobEntry[index].compressed_size \in Nat
      /\ temp[index] = Huf(index, jobEntry[index].compressed_size)
  BY <1>1, <1>2 DEF IInv, ResultInv
<1>4. \A n \in Nat : Len(Huf(index, n)) = n
  BY DEF Huf
<1> QED BY <1>1, <1>2, <1>3, <1>4

\* A block of the temporary file is appended to the archive.
LEMMA CopyBlockStep ==
  ASSUME IInv, CopyBlock
  PROVE  IInv'
<1> DEFINE b == temp[index][copied + 1]
           size == jobEntry[index].compressed_size
           o == entries[index].data_offset
<1>1. /\ pc = "copy" /\ pc' = "copy" /\ index' = index
      /\ copied < Len(temp[index]) /\ data' = Append(data, b) /\ copied' = copied + 1
      /\ UNCHANGED <<entries, successful, outcome, job, status, jobEntry, work, temp, header, table>>
      /\ UNCHANGED poolVars
  BY DEF CopyBlock, jobVars
<1>2. /\ index \in Input /\ status[index] = "ok" /\ outcome[index] = "none"
      /\ size \in Nat /\ temp[index] = Huf(index, size) /\ Len(temp[index]) = size
      /\ copied \in Nat /\ copied < size /\ Placed(index, copied)
  BY <1>1, CopySource
<1>3. b = <<index, copied + 1>> /\ b \in Blk
  <2>1. copied + 1 \in 1 .. size
    BY <1>2
  <2>2. b = <<index, copied + 1>>
    BY <1>2, <2>1 DEF Huf
  <2>3. temp[index] \in Seq(Blk)
    BY <1>2 DEF IInv, Types
  <2> QED BY <1>2, <2>1, <2>2, <2>3, ElementOfSeq
<1>4. Grows /\ Len(data') = Len(data) + 1 /\ data'[Len(data) + 1] = b
  BY <1>1, <1>3, GrowsByBlock DEF IInv
<1>5. o \in Nat /\ o + copied = Len(data) + 1 /\ Len(data) \in Nat
  BY <1>1, <1>2 DEF IInv, Types, CopyInv, Placed
<1>6. \A k \in 1 .. copied + 1 : data'[o + k - 1] = <<index, k>>
  <2>1. \A k \in 1 .. copied : data[o + k - 1] = <<index, k>> /\ o + k - 1 \in 1 .. Len(data)
    <3>1. \A k \in 1 .. copied : data[o + k - 1] = <<index, k>>
      BY <1>2 DEF Placed
    <3>2. o # 0
      BY <1>2 DEF Placed
    <3> HIDE DEF o
    <3>3. \A k \in 1 .. copied : o + k - 1 \in 1 .. Len(data)
      BY <1>2, <1>5, <3>2
    <3> QED BY <3>1, <3>3
  <2>2. \A k \in 1 .. copied : data'[o + k - 1] = <<index, k>>
    BY <1>4, <2>1 DEF Grows
  <2> HIDE DEF o, b
  <2>3. data'[o + (copied + 1) - 1] = <<index, copied + 1>>
    <3>1. o + (copied + 1) - 1 = Len(data) + 1
      BY <1>2, <1>5
    <3> QED BY <1>3, <1>4, <3>1
  <2>4. \A k \in 1 .. copied + 1 : k \in 1 .. copied \/ k = copied + 1
    BY <1>2
  <2> QED BY <2>2, <2>3, <2>4
<1>7. o + (copied + 1) = Len(data') + 1 /\ copied + 1 <= size /\ copied + 1 \in Nat
  <2> HIDE DEF o, size
  <2> QED BY <1>2, <1>4, <1>5
<1>8. CopyInv'
  <2>1. entries[index].compressed_size = size /\ o # 0
    BY <1>2 DEF Placed
  <2>2. Len(data') \in Nat
    BY <1>4, <1>5
  <2>3. o + (copied + 1) <= Len(data') + 1
    <3> HIDE DEF o
    <3> QED BY <1>7, <2>2
  <2>4. Placed(index, copied)'
    BY <1>1, <1>5, <1>6, <2>1, <2>3 DEF Placed
  <2> QED BY <1>1, <1>2, <1>7, <2>4 DEF CopyInv
<1> QED BY <1>1, <1>2, <1>4, <1>7, <1>8, CopyFrame DEF Merging, IInv, Types

\* The temporary file is at its end, or cannot be read any further.
LEMMA CopyEndsStep ==
  ASSUME IInv, CopyEnds
  PROVE  IInv'
<1>1. /\ pc = "copy" /\ successful' = successful + 1
      /\ temp' = [temp EXCEPT ![index] = NoFile]
      /\ UNCHANGED <<copied, entries, data>>
      /\ \/ copied = Len(temp[index]) /\ LeaveMember("copied")
         \/ LeaveMember("short")
  BY DEF CopyEnds, EndOfFile
<1>2. /\ index \in Input /\ status[index] = "ok" /\ Placed(index, copied)
      /\ Len(temp[index]) = jobEntry[index].compressed_size
  BY <1>1, CopySource
<1>3. Types /\ Grows
  BY <1>1, GrowsByNothing DEF IInv
<1>4. NoFile \in Seq(Blk)
  BY DEF NoFile
<1>5. /\ entries' \in [Input -> EntryType] /\ copied' \in Nat /\ temp' \in [Input -> Seq(Blk)]
      /\ \A k \in Input : k # index => entries'[k] = entries[k] /\ temp'[k] = temp[k]
  BY <1>1, <1>3, <1>4 DEF Types
<1> QED BY <1>1, <1>2, <1>3, <1>5, LeaveMemberStep DEF Merging

\* A write to the archive fails: the loop goes on, or the second free of the job
\* ends the process.
LEMMA CopyFailsStep ==
  ASSUME IInv, CopyFails
  PROVE  IInv'
<1>1. /\ pc = "copy" /\ UNCHANGED <<copied, entries>>
      /\ data' = data \/ data' = Append(data, Torn)
  BY DEF CopyFails
<1>2. index \in Input /\ Types
  BY <1>1, CopySource DEF IInv
<1>3. Grows
  <2>1. Torn \in Blk
    BY DEF Blk
  <2> QED BY <1>1, <1>2, <2>1, GrowsByNothing, GrowsByBlock
<1>4. CASE /\ LeaveMember("torn") /\ successful' = successful + 1
           /\ temp' \in {temp, [temp EXCEPT ![index] = NoFile]}
  <2>1. NoFile \in Seq(Blk)
    BY DEF NoFile
  <2>2. /\ entries' \in [Input -> EntryType] /\ copied' \in Nat /\ temp' \in [Input -> Seq(Blk)]
        /\ \A k \in Input : k # index => entries'[k] = entries[k] /\ temp'[k] = temp[k]
    BY <1>1, <1>2, <1>4, <2>1 DEF Types
  <2> QED BY <1>1, <1>2, <1>3, <1>4, <2>2, LeaveMemberStep DEF Merging
<1>5. CASE /\ job' = [job EXCEPT ![index] = "freed"] /\ pc' = "crashed"
           /\ UNCHANGED <<index, outcome, status, jobEntry, work, header, table>>
           /\ UNCHANGED <<successful, temp, poolVars>>
  <2>1. UNCHANGED poolVars
    BY <1>5
  <2>2. /\ PoolFacts!PoolInv' /\ JobsUseLiveMemory' /\ phase = "closed" /\ UNCHANGED <<phase, runs>>
        /\ \A i \in Input : work[i] = "idle"
    BY <1>1, <1>5, <2>1, PoolIsClosed DEF Merging
  <2>3. Types'
    BY <1>1, <1>2, <1>3, <1>5 DEF Types, Grows, Ended
  <2>4. OwnerInv'
    BY <1>1, <1>5, <2>2 DEF IInv, OwnerInv, Merging, Live
  <2>5. ResultInv' /\ WorkInv'
    BY <1>5, <2>2 DEF IInv, ResultInv, WorkInv
  <2>6. MergeInv'
    <3> SUFFICES ASSUME NEW i \in Input, outcome[i] = "copied"
                 PROVE  Placed(i, jobEntry[i].compressed_size)'
      BY <1>1, <1>5 DEF IInv, MergeInv, Merging
    <3> DEFINE n == jobEntry[i].compressed_size
    <3>1. n \in Nat /\ Placed(i, n)
      BY DEF IInv, MergeInv, ResultInv
    <3>2. Placed(i, n)'
      BY <1>1, <1>2, <1>3, <1>5, <3>1, PlacedStays
    <3> QED BY <1>5, <3>2 DEF Placed
  <2>7. CopyInv' /\ TableInv'
    BY <1>1, <1>5 DEF IInv, CopyInv, TableInv, TableThere, Live
  <2> QED BY <2>2, <2>3, <2>4, <2>5, <2>6, <2>7 DEF IInv
<1> QED BY <1>4, <1>5 DEF CopyFails, Goto

\* The table is written over the placeholder, or some of it.
LEMMA RewriteTableStep ==
  ASSUME IInv, RewriteTable
  PROVE  IInv'
<1>1. /\ pc = "merge" /\ index = NumInputs + 1 /\ pc' \in {"done", "failed"}
      /\ UNCHANGED <<index, copied, entries, successful, outcome, job, status, jobEntry, work>>
      /\ UNCHANGED <<temp, header, data>> /\ UNCHANGED poolVars
      /\ \/ table' = entries
         \/ \E n \in 0 .. NumInputs - 1 :
              table' = [i \in Input |-> IF i <= n THEN entries[i] ELSE table[i]]
  BY DEF RewriteTable, Goto, loopVars, jobVars
<1>2. /\ PoolFacts!PoolInv' /\ JobsUseLiveMemory' /\ phase = "closed" /\ UNCHANGED <<phase, runs>>
      /\ \A i \in Input : work[i] = "idle"
  BY <1>1, PoolIsClosed DEF Merging
<1>3. /\ entries \in [Input -> EntryType]
      /\ table \in Seq(EntryType) /\ Len(table) = NumInputs /\ NumInputs \in Nat
      /\ \A i \in Input : table[i] \in EntryType /\ table[i] = ZeroEntry
  BY <1>1, SizeAssumption, ElementOfSeq DEF IInv, Types, TableInv, TableThere, Live, Input
<1>4. /\ table' \in [Input -> EntryType]
      /\ \A i \in Input : table'[i] = entries[i] \/ table'[i] = ZeroEntry
  BY <1>1, <1>3
<1>5. table' \in Seq(EntryType) /\ Len(table') = NumInputs
  BY <1>3, <1>4 DEF Input
<1>6. \A i \in Input : outcome[i] # "none"
  <2>1. \A i \in Input : i < index
    BY <1>1, SizeAssumption DEF Input
  <2> QED BY <1>1, <2>1 DEF IInv, MergeInv, Merging
<1>7. Types'
  BY <1>1, <1>3, <1>5 DEF IInv, Types, Ended
<1>8. OwnerInv'
  BY <1>1, <1>2 DEF IInv, OwnerInv, Merging, Live
<1>9. ResultInv' /\ WorkInv'
  BY <1>1, <1>2 DEF IInv, ResultInv, WorkInv
<1>10. MergeInv' /\ CopyInv'
  BY <1>1 DEF IInv, MergeInv, CopyInv, Placed, Merging
<1>11. TableInv'
  BY <1>1, <1>3, <1>4, <1>5, <1>6 DEF TableInv, Input
<1> QED BY <1>2, <1>7, <1>8, <1>9, <1>10, <1>11 DEF IInv

-----------------------------------------------------------------------------
(* The invariant and what follows from it. *)

\* A call that has not begun satisfies it.
LEMMA InitIInv == Init => IInv
<1> SUFFICES ASSUME Init
             PROVE  IInv
  OBVIOUS
<1>1. PoolFacts!PoolInv
  BY PoolFacts!InitPool DEF Init, Pool!Init, PoolFacts!Init
<1>2. ZeroEntry \in EntryType /\ \A i \in Input : entries[i] = ZeroEntry
  BY DEF EntryType, Init, ZeroTable, Input
<1>3. entries \in [Input -> EntryType] /\ jobEntry \in [Input -> EntryType]
  BY <1>2 DEF Init, ZeroTable, Input
<1>4. index \in 1 .. NumInputs + 1 /\ successful < index
  BY SizeAssumption DEF Init
<1>5. Types
  BY <1>3, <1>4, SizeAssumption DEF Init, Types, Live, NoFile
<1>6. OwnerInv
  BY <1>2, <1>4 DEF Init, Pool!Init, OwnerInv, Live, Merging
<1>7. ResultInv /\ WorkInv
  BY DEF Init, ResultInv, WorkInv
<1>8. MergeInv /\ CopyInv /\ TableInv
  BY DEF Init, MergeInv, CopyInv, TableInv, Merging, TableThere
<1>9. JobsUseLiveMemory
  BY DEF Init, Pool!Init, Pool!Elements, JobsUseLiveMemory
<1> QED BY <1>1, <1>5, <1>6, <1>7, <1>8, <1>9 DEF IInv

\* So does one that stands still.
LEMMA StutterStep ==
  ASSUME IInv, UNCHANGED vars
  PROVE  IInv'
<1>1. /\ UNCHANGED <<pc, index, copied, entries, successful, outcome, job, status, jobEntry, work>>
      /\ UNCHANGED <<temp, header, table, data>> /\ UNCHANGED poolVars
      /\ UNCHANGED <<phase, accepted, runs>>
  BY DEF vars, loopVars, jobVars, fileVars, poolVars
<1>2. Types' /\ OwnerInv' /\ ResultInv' /\ WorkInv' /\ TableInv'
  BY <1>1 DEF IInv, Types, OwnerInv, ResultInv, WorkInv, TableInv, Pool!Elements
<1>3. MergeInv' /\ CopyInv'
  BY <1>1 DEF IInv, MergeInv, CopyInv, Placed
<1>4. JobsUseLiveMemory'
  BY <1>1 DEF IInv, JobsUseLiveMemory, Pool!Elements, Pool!AllRun
<1> QED BY <1>1, <1>2, <1>3, <1>4, PoolStep DEF IInv

\* And after any step of the main thread, of a worker or of the environment.
LEMMA NextIInv == IInv /\ [Next]_vars => IInv'
<1> SUFFICES ASSUME IInv, [Next]_vars
             PROVE  IInv'
  OBVIOUS
<1>1. CASE MainStep
  BY <1>1, BeginStep, WriteTablePlaceholderStep, CreatePoolStep, AllocateJobsStep,
     SubmitJobStep, SubmitOutOfMemoryStep, UnwindEndsStep, CallWaitStep, PoolEndsStep,
     SkipMemberStep, OpenTempFailsStep, OpenTempStep, CopyBlockStep, CopyEndsStep,
     CopyFailsStep, RewriteTableStep DEF MainStep
<1>2. CASE \E i \in Input : WorkerStep(i)
  BY <1>2, ReadInputStep, ReadInputFailsStep, CompressStep, CompressFailsStep,
     RecordResultStep, KillStep DEF WorkerStep
<1>3. CASE StartJob
  BY <1>3, StartJobStep
<1>4. CASE Kill
  BY <1>4, KillStep
<1>5. CASE Terminated \/ UNCHANGED vars
  BY <1>5, StutterStep DEF Terminated
<1> QED BY <1>1, <1>2, <1>3, <1>4, <1>5 DEF Next

\* Every member that has been merged stands where its entry says, and what a job
\* still uses is still there, for every number of inputs, processors and blocks.
THEOREM Invariant == Spec => []IInv
BY InitIInv, NextIInv, PTL DEF Spec

\* The variables keep their types; in particular no block of the archive or of a
\* temporary file is anything but a block of some member or a torn one.
THEOREM TypeCorrect == Spec => []TypeOK
<1>1. ASSUME IInv
      PROVE  TypeOK
  <2>1. Types
    BY <1>1 DEF IInv
  <2>2. \A s \in Seq(Blk) : Range(s) \subseteq Blk
    BY ElementOfSeq DEF Range
  <2>3. \A s \in Seq(EntryType) : Range(s) \subseteq EntryType
    BY ElementOfSeq DEF Range
  <2>4. successful \in 0 .. NumInputs
    BY <1>1, <2>1, SizeAssumption DEF IInv, OwnerInv, Types
  <2>5. Len(table) \in 0 .. NumInputs
    BY <2>1, SizeAssumption DEF Types
  <2> QED BY <2>1, <2>2, <2>3, <2>4, <2>5 DEF Types, TypeOK
<1> QED BY <1>1, Invariant, PTL

\* No job runs on memory that the main thread has freed, unless malloc failed
\* during the submission, and none is left when createArchive returns.
THEOREM LiveMemory == Spec => []JobsUseLiveMemory
<1>1. IInv => JobsUseLiveMemory
  BY DEF IInv
<1> QED BY <1>1, Invariant, PTL

\* Whoever opens the archive at any moment finds the members of its entries where
\* the entries say that they are.
THEOREM ReadsBack == Spec => []OnDiskEntriesReadBack
<1>1. ASSUME IInv
      PROVE  OnDiskEntriesReadBack
  <2> SUFFICES ASSUME NEW i \in DOMAIN table, table[i] # ZeroEntry
               PROVE  /\ outcome[i] \in {"nodata", "copied", "short", "torn"}
                      /\ outcome[i] = "copied" =>
                           Extent(data, table[i]) = Huf(i, jobEntry[i].compressed_size)
    BY DEF OnDiskEntriesReadBack
  <2>1. table \in Seq(EntryType) /\ i \in 1 .. Len(table) /\ i \in Input
    BY <1>1, SizeAssumption DEF IInv, Types, Input
  <2>2. table[i] = entries[i] /\ outcome[i] # "none"
    BY <1>1, <2>1 DEF IInv, TableInv
  <2>3. outcome[i] \in {"nodata", "copied", "short", "torn"}
    BY <1>1, <2>1, <2>2 DEF IInv, Types, MergeInv
  <2>4. ASSUME outcome[i] = "copied"
        PROVE  Extent(data, table[i]) = Huf(i, jobEntry[i].compressed_size)
    <3> DEFINE n == jobEntry[i].compressed_size
               o == entries[i].data_offset
               last == o + n - 1
    <3>1. Placed(i, n) /\ n \in Nat \ {0}
      BY <1>1, <2>1, <2>4 DEF IInv, MergeInv, ResultInv
    <3>2. /\ entries[i].compressed_size = n /\ o \in Nat \ {0} /\ o + n <= Len(data) + 1
          /\ \A k \in 1 .. n : data[o + k - 1] = <<i, k>>
      BY <3>1 DEF Placed
    <3>3. data \in Seq(Blk) /\ Len(data) \in Nat
      BY <1>1 DEF IInv, Types
    <3> HIDE DEF n, o
    <3>4. last <= Len(data) /\ last - o + 1 = n /\ o <= last /\ last \in Int /\ o \in Int
      BY <3>1, <3>2, <3>3
    <3>5. \A k \in o .. last : data[k] \in Blk
      <4>1. \A k \in o .. last : k \in 1 .. Len(data)
        BY <3>2, <3>3, <3>4
      <4> HIDE DEF last
      <4> QED BY <3>3, <4>1, ElementOfSeq
    <3>6. Extent(data, table[i]) = SubSeq(data, o, last)
      BY <2>2, <3>2, <3>4 DEF Extent, o, n
    <3> HIDE DEF last
    <3>7. /\ SubSeq(data, o, last) \in Seq(Blk)
          /\ Len(SubSeq(data, o, last)) = n
          /\ \A k \in 1 .. n : SubSeq(data, o, last)[k] = <<i, k>>
      BY <3>2, <3>4, <3>5, SubSeqProperties
    <3>8. SubSeq(data, o, last) = [k \in 1 .. n |-> <<i, k>>]
      <4>1. \A s \in Seq(Blk) : s = [k \in 1 .. Len(s) |-> s[k]]
        OBVIOUS
      <4> QED BY <3>7, <4>1
    <3> QED BY <3>6, <3>8 DEF Huf, n
  <2> QED BY <2>3, <2>4
<1> QED BY <1>1, Invariant, PTL
=============================================================================

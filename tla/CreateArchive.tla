--------------------------- MODULE CreateArchive ---------------------------
(***************************************************************************)
(* createArchive of compress/src/archive/archive.c: the main thread writes *)
(* a header and an empty table, hands one compression job per input to the *)
(* thread pool, waits, appends the temporary files the jobs left, and      *)
(* rewrites the table.  The pool is JobPool, which ThreadPool implements.  *)
(***************************************************************************)
EXTENDS ArchiveFormat, FiniteSets

CONSTANTS NumInputs,  \* num_inputs: the paths to archive
          NumCpus,    \* sysconf(_SC_NPROCESSORS_ONLN)
          Blocks      \* Blocks[i]: blocks that input i compresses to

Input == 1 .. NumInputs

ASSUME SizeAssumption ==
  /\ NumInputs \in Nat \ {0} /\ NumCpus \in Nat \ {0}
  /\ Blocks \in [Input -> Nat \ {0, 1}]

VARIABLES
  (* main thread *)
  pc,         \* where createArchive is
  index,      \* loop variable i of the submission and of the merge loop
  copied,     \* blocks of the current temporary file already appended
  entries,    \* the table in memory
  successful, \* successful_files
  (* CompressionJob *)
  job,        \* "none", "live" or "freed"
  status,     \* job->status
  jobEntry,   \* job->entry
  work,       \* how far the worker that runs the job has come
  (* files *)
  temp,       \* temp[i]: blocks of /tmp/huf_<pid>_<i>.tmp, or NoFile
  header,     \* what the archive starts with
  table,      \* the table on disk
  data,       \* the data area on disk
  (* what became of each input in the merge loop; not in the code *)
  outcome,
  (* the thread pool *)
  phase, accepted, refused, started, runs

loopVars == <<index, copied, entries, successful, outcome>>
jobVars  == <<job, status, jobEntry, work>>
fileVars == <<temp, header, table, data>>
poolVars == <<phase, accepted, refused, started, runs>>
vars     == <<pc, loopVars, jobVars, fileVars, poolVars>>

num_threads == IF NumInputs < NumCpus THEN NumInputs ELSE NumCpus

Pool == INSTANCE JobPool WITH Job <- Input, Width <- num_threads

\* A file that exists holds at least a block, if only a torn one.
NoFile == <<>>

Live == {"open", "header", "table", "pool", "jobs", "submit", "wait", "destroy",
         "unwind", "merge", "copy"}
Ended == {"done", "failed", "crashed", "killed"}

Init ==
  /\ pc = "open" /\ index = 1 /\ copied = 0 /\ successful = 0
  /\ entries = ZeroTable(NumInputs)
  /\ outcome = [i \in Input |-> "none"]
  /\ job = [i \in Input |-> "none"]
  /\ status = [i \in Input |-> "error"]
  /\ jobEntry = [i \in Input |-> ZeroEntry]
  /\ work = [i \in Input |-> "idle"]
  /\ temp = [i \in Input |-> NoFile]
  /\ header = "old" /\ table = <<>> /\ data = <<>>
  /\ Pool!Init

Goto(label) == pc' = label

-----------------------------------------------------------------------------
(* Before the pool exists. *)

\* The previous archive is truncated before any input has been looked at.
OpenArchive ==
  /\ pc = "open"
  /\ \/ Goto("header") /\ header' = "empty"
     \/ Goto("failed") /\ header' = header
  /\ UNCHANGED <<loopVars, jobVars, temp, table, data, poolVars>>

\* magic, version and num_files: the first write that fails ends the call.
WriteHeader ==
  /\ pc = "header"
  /\ \/ Goto("table") /\ header' = "written"
     \/ Goto("failed") /\ header' \in {"empty", "torn"}
  /\ UNCHANGED <<loopVars, jobVars, temp, table, data, poolVars>>

\* calloc of the entries, and the placeholder that a reader finds until the end.
WriteTablePlaceholder ==
  /\ pc = "table"
  /\ \/ Goto("pool") /\ table' = entries
     \/ Goto("failed") /\ \E n \in 0 .. NumInputs - 1 : table' = ZeroTable(n)
  /\ UNCHANGED <<loopVars, jobVars, temp, header, data, poolVars>>

CreatePool ==
  /\ pc = "pool"
  /\ \/ Pool!Open /\ Goto("jobs")
     \/ Pool!OpenFails /\ Goto("failed")
     \/ Pool!OpenUnwind /\ Goto("pool")
     \/ Pool!Unwound /\ Goto("failed")
     \/ Pool!Abort /\ Goto("crashed")
  /\ UNCHANGED <<loopVars, jobVars, fileVars>>

\* malloc of the array of jobs; when it fails the pool is destroyed.
AllocateJobs ==
  /\ pc = "jobs"
  /\ \/ Goto("submit") /\ UNCHANGED poolVars
     \/ Goto("unwind") /\ Pool!Close
  /\ UNCHANGED <<loopVars, jobVars, fileVars>>

-----------------------------------------------------------------------------
(* Submission. *)

\* One iteration: a job is allocated, filled in and given to the pool.  When
\* the pool refuses it, the loop goes on and the job keeps its status -1.
SubmitJob ==
  /\ pc = "submit"
  /\ index \in Input
  /\ job' = [job EXCEPT ![index] = "live"]
  /\ status' = [status EXCEPT ![index] = "error"]
  /\ Pool!Accept(index) \/ Pool!Refuse(index)
  /\ index' = index + 1
  /\ UNCHANGED <<pc, copied, entries, successful, outcome, jobEntry, work>>
  /\ UNCHANGED fileVars

AfterOutOfMemory == "unwind"

\* malloc of a job fails: the jobs already given to the pool are freed, and only
\* then is the pool, which still runs them, destroyed.
SubmitOutOfMemory ==
  /\ pc = "submit"
  /\ index \in Input
  /\ job' = [i \in Input |-> IF i < index THEN "freed" ELSE job[i]]
  /\ Pool!Close
  /\ Goto(AfterOutOfMemory)
  /\ UNCHANGED <<loopVars, status, jobEntry, work, fileVars>>

UnwindEnds ==
  /\ pc = "unwind"
  /\ Pool!CloseReturns
  /\ Goto("failed")
  /\ UNCHANGED <<loopVars, jobVars, fileVars>>

\* Variant: the merge starts right after the submission.
AfterSubmission_NoWait == "merge"

AfterSubmission == "wait"

CallWait ==
  /\ pc = "submit"
  /\ index = NumInputs + 1
  /\ Pool!Wait
  /\ Goto(AfterSubmission)
  /\ index' = 1
  /\ UNCHANGED <<copied, entries, successful, outcome, jobVars, fileVars>>

WaitReturns ==
  /\ pc = "wait"
  /\ Pool!WaitReturns
  /\ Goto("destroy")
  /\ UNCHANGED <<loopVars, jobVars, fileVars>>

DestroyPool ==
  /\ pc = "destroy"
  /\ \/ Pool!Close /\ Goto("destroy")
     \/ Pool!CloseReturns /\ Goto("merge")
  /\ UNCHANGED <<loopVars, jobVars, fileVars>>

-----------------------------------------------------------------------------
(* compressFileWorker, between Pool!Start and Pool!Run of its job. *)

Working(i) == pc \in Live /\ i \in Pool!InProgress

JobReturns(i) ==
  /\ Pool!Run(i)
  /\ work' = [work EXCEPT ![i] = "idle"]

ReadInput(i) ==
  /\ Working(i) /\ work[i] = "idle"
  /\ work' = [work EXCEPT ![i] = "read"]
  /\ UNCHANGED <<pc, loopVars, job, status, jobEntry, fileVars, poolVars>>

ReadInputFails(i) ==
  /\ Working(i) /\ work[i] = "idle"
  /\ JobReturns(i)
  /\ UNCHANGED <<pc, loopVars, job, status, jobEntry, fileVars>>

\* compressToFile returns 0.  bitWriterWrite and bitWriterFlush ignore what
\* write returns, so the codes from some block on may be missing.
Compress(i) ==
  /\ Working(i) /\ work[i] = "read"
  /\ \E n \in 1 .. Blocks[i] : temp' = [temp EXCEPT ![i] = Huf(i, n)]
  /\ work' = [work EXCEPT ![i] = "packed"]
  /\ UNCHANGED <<pc, loopVars, job, status, jobEntry>>
  /\ UNCHANGED <<header, table, data, poolVars>>

\* It returns -1: no memory, no symbol in the input, no temporary file, or an
\* error after one was created, which nobody removes.
CompressFails(i) ==
  /\ Working(i) /\ work[i] = "read"
  /\ temp' \in {temp, [temp EXCEPT ![i] = <<Torn>>], [temp EXCEPT ![i] = Huf(i, Blocks[i])]}
  /\ JobReturns(i)
  /\ UNCHANGED <<pc, loopVars, job, status, jobEntry, header, table, data>>

RecordResult(i) ==
  /\ Working(i) /\ work[i] = "packed"
  /\ jobEntry' = [jobEntry EXCEPT ![i] = Entry(i, Len(temp[i]), 0)]
  /\ status' = [status EXCEPT ![i] = "ok"]
  /\ JobReturns(i)
  /\ UNCHANGED <<pc, loopVars, job, fileVars>>

\* The worker uses the job, which the main thread has freed.
UseFreedJob(i) ==
  /\ Working(i) /\ job[i] = "freed"
  /\ Goto("crashed")
  /\ UNCHANGED <<loopVars, jobVars, fileVars, poolVars>>

StartJob ==
  /\ pc \in Live
  /\ Pool!Start
  /\ UNCHANGED <<pc, loopVars, jobVars, fileVars>>

-----------------------------------------------------------------------------
(* The merge. *)

\* Variant: where the previous entry should end.
OffsetFromSizes ==
  IF index = 1 THEN 1
  ELSE entries[index - 1].data_offset + entries[index - 1].compressed_size

\* lseek(archive_fd, 0, SEEK_CUR)
CurrentOffset == Len(data) + 1

EnterMember ==
  entries' = [entries EXCEPT ![index] =
                [jobEntry[index] EXCEPT !.data_offset = CurrentOffset]]

\* Variant: the loop variable is not advanced.
LeaveMember_Again(result) ==
  /\ job' = [job EXCEPT ![index] = "freed"]
  /\ outcome' = [outcome EXCEPT ![index] = result]
  /\ Goto("merge")
  /\ UNCHANGED <<index, status, jobEntry, work, header, table, poolVars>>

LeaveMember(result) ==
  /\ job' = [job EXCEPT ![index] = "freed"]
  /\ outcome' = [outcome EXCEPT ![index] = result]
  /\ index' = index + 1
  /\ Goto("merge")
  /\ UNCHANGED <<status, jobEntry, work, header, table, poolVars>>

SkipMember ==
  /\ pc = "merge" /\ index \in Input
  /\ status[index] # "ok"
  /\ LeaveMember("skipped")
  /\ UNCHANGED <<copied, entries, successful, temp, data>>

\* The entry is already in the table, pointing at what follows.
OpenTempFails ==
  /\ pc = "merge" /\ index \in Input
  /\ status[index] = "ok"
  /\ EnterMember
  /\ LeaveMember("nodata")
  /\ UNCHANGED <<copied, successful, temp, data>>

OpenTemp ==
  /\ pc = "merge" /\ index \in Input
  /\ status[index] = "ok"
  /\ EnterMember
  /\ copied' = 0
  /\ Goto("copy")
  /\ UNCHANGED <<index, successful, outcome, jobVars, fileVars, poolVars>>

CopyBlock ==
  /\ pc = "copy"
  /\ copied < Len(temp[index])
  /\ data' = Append(data, temp[index][copied + 1])
  /\ copied' = copied + 1
  /\ UNCHANGED <<pc, index, entries, successful, outcome, jobVars>>
  /\ UNCHANGED <<temp, header, table, poolVars>>

\* Variant: only a negative result of read ends the loop.
EndOfFile_OnError == FALSE

EndOfFile == copied = Len(temp[index])

\* read returns 0 or -1: the loop does not tell them apart.
CopyEnds ==
  /\ pc = "copy"
  /\ \/ EndOfFile /\ LeaveMember("copied")
     \/ copied < Len(temp[index]) /\ LeaveMember("short")
  /\ temp' = [temp EXCEPT ![index] = NoFile]
  /\ successful' = successful + 1
  /\ UNCHANGED <<copied, entries, data>>

\* A write fails or is short.  The job is freed, then used for its temp_path
\* and freed again, which ends the process or goes unnoticed.
CopyFails ==
  /\ pc = "copy"
  /\ copied < Len(temp[index])
  /\ data' \in {data, Append(data, Torn)}
  /\ \/ /\ LeaveMember("torn")
        /\ successful' = successful + 1
        /\ temp' \in {temp, [temp EXCEPT ![index] = NoFile]}
     \/ /\ job' = [job EXCEPT ![index] = "freed"]
        /\ Goto("crashed")
        /\ UNCHANGED <<index, outcome, status, jobEntry, work, header, table>>
        /\ UNCHANGED <<successful, temp, poolVars>>
  /\ UNCHANGED <<copied, entries>>

\* The placeholder is overwritten, whole or from the start up to some entry.
RewriteTable ==
  /\ pc = "merge" /\ index = NumInputs + 1
  /\ \/ table' = entries /\ Goto("done")
     \/ \E n \in 0 .. NumInputs - 1 :
          /\ table' = [i \in Input |-> IF i <= n THEN entries[i] ELSE table[i]]
          /\ Goto("failed")
  /\ UNCHANGED <<loopVars, jobVars, temp, header, data, poolVars>>

-----------------------------------------------------------------------------
\* The process is killed, or the machine stops.
Kill ==
  /\ pc \in Live
  /\ Goto("killed")
  /\ UNCHANGED <<loopVars, jobVars, fileVars, poolVars>>

MainStep ==
  \/ OpenArchive \/ WriteHeader \/ WriteTablePlaceholder
  \/ CreatePool \/ AllocateJobs
  \/ SubmitJob \/ SubmitOutOfMemory \/ UnwindEnds
  \/ CallWait \/ WaitReturns \/ DestroyPool
  \/ SkipMember \/ OpenTempFails \/ OpenTemp
  \/ CopyBlock \/ CopyEnds \/ CopyFails \/ RewriteTable

WorkerStep(i) ==
  \/ ReadInput(i) \/ ReadInputFails(i)
  \/ Compress(i) \/ CompressFails(i)
  \/ RecordResult(i) \/ UseFreedJob(i)

Terminated == pc \in Ended /\ UNCHANGED vars

Next ==
  \/ MainStep
  \/ \E i \in Input : WorkerStep(i)
  \/ StartJob
  \/ Kill
  \/ Terminated

Spec == Init /\ [][Next]_vars

\* The main thread and the workers are scheduled and every call returns.
Fairness ==
  /\ WF_vars(MainStep)
  /\ WF_vars(StartJob)
  /\ \A i \in Input : WF_vars(WorkerStep(i))

FairSpec == Spec /\ Fairness
=============================================================================

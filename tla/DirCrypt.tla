------------------------------ MODULE DirCrypt ------------------------------
(***************************************************************************)
(* process_directory of encrypt/src/file_ops.c: one task for every regular *)
(* file that readdir returns, run by a pool or by the main thread, while   *)
(* the tasks create and rewrite files of the directory that is being read. *)
(* A task is process_file_syscalls, in the system calls that others see.   *)
(***************************************************************************)
EXTENDS CryptNames, FiniteSets

CONSTANTS Name,        \* the names that a file may have
          NameLimit,   \* units that output_filename has room for, beside dirpath
          Starts,      \* directories to start from, each with the modes of the
                       \* calls that are made one after the other
          Ragged,      \* marks that a content may end with whose size is no
                       \* multiple of the block size
          Large,       \* marks that a content may begin with that has
                       \* MIN_BLOCKS_FOR_PARALLEL blocks
          MaxNew,      \* bound: the new files that readdir returns in a call
          NumThreads   \* recommended_thread_count()

VARIABLES
  pc, plan,
  dir,       \* the regular files, and what they hold
  before,    \* the directory before this call; not in the code
  origin,    \* the directory before it was encrypted; not in the code
  seen,      \* names that readdir has returned
  skipped,   \* those of them for which stat failed
  stage,     \* stage[n]: how far the task of n has come
  saw,       \* saw[n]: the file when fstat took its size
  data,      \* data[n]: file_content, transformed
  inline,    \* the file that the main thread works on
  pool_active, error_counter,
  cut,       \* a write was cut short; not in the code
  (* the thread pool *)
  phase, accepted, refused, started, runs

callVars == <<plan, before, origin>>
loopVars == <<seen, skipped, inline, pool_active>>
taskVars == <<stage, saw, data, error_counter, cut>>
poolVars == <<phase, accepted, refused, started, runs>>
vars == <<pc, dir, callVars, loopVars, taskVars, poolVars>>

Pool == INSTANCE JobPool WITH Job <- Name, Width <- NumThreads

mode == Head(plan)

\* Contents: what was there in the beginning, and what was done to it.
Empty == <<>>
Torn  == <<"torn">>
Ends(c, layer) == c # Empty /\ c[Len(c)] = layer

IsRagged(c) == c # Empty /\ c[Len(c)] \in Ragged
IsLarge(c) == c # Empty /\ Head(c) \in Large

\* process_file_syscalls on contents: RoundTrip of FileCrypt_proof.
Crypt(c) ==
  IF mode = "encrypt" THEN Append(c, "enc")
  ELSE IF Ends(c, "enc") THEN SubSeq(c, 1, Len(c) - 1)
  ELSE IF c = Empty THEN Empty ELSE Append(c, "dec")

\* The last block of a decryption that has fewer bytes than 16 is read and written
\* beyond the buffer: what comes out may be anything.
BeyondBuffer(c) == mode = "decrypt" /\ IsRagged(c)

Images(c) == {Crypt(c)} \union (IF BeyondBuffer(c) THEN {Torn} ELSE {})

\* The name that fits output_filename.  The open and the write go on with it.
Target(n) == Cut(Output(mode, n), NameLimit)

ASSUME DirAssumption ==
  /\ Name \subseteq Seq(STRING) \ {<<>>} /\ NumThreads \in Nat \ {0, 1}
  /\ NameLimit \in Nat \ {0} /\ MaxNew \in Nat
  /\ \A n \in Name : \A m \in {"encrypt", "decrypt"} : Cut(Output(m, n), NameLimit) \in Name
  /\ {"torn", "dec"} \subseteq Ragged /\ "torn" \in Large /\ "enc" \notin Ragged
  /\ \A s \in Starts :
       /\ DOMAIN s.dir \subseteq Name /\ \A n \in DOMAIN s.dir : s.dir[n] \in Seq(STRING)
       /\ s.plan \in Seq({"encrypt", "decrypt"}) /\ s.plan # <<>>

NoFile == <<>>

Ended == {"done", "failed", "crashed"}

Working == {n \in Name : n = inline} \union Pool!InProgress

Put(n, c) == dir' = [m \in DOMAIN dir \union {n} |-> IF m = n THEN c ELSE dir[m]]

Init ==
  /\ pc = "opendir"
  /\ \E s \in Starts : plan = s.plan /\ dir = s.dir
  /\ before = dir
  /\ origin = IF mode = "encrypt" THEN dir ELSE <<>>
  /\ seen = {} /\ skipped = {} /\ inline = NoFile
  /\ stage = [n \in Name |-> "none"]
  /\ saw = [n \in Name |-> Empty] /\ data = saw
  /\ pool_active = FALSE /\ error_counter = 0 /\ cut = FALSE
  /\ Pool!Init

Goto(label) == pc' = label

-----------------------------------------------------------------------------
(* The main thread. *)

OpenDir ==
  /\ pc = "opendir"
  /\ Goto("pool") \/ Goto("failed")
  /\ UNCHANGED <<dir, callVars, loopVars, taskVars, poolVars>>

MakePool ==
  /\ pc = "pool"
  /\ \/ Pool!Open /\ pool_active' = TRUE /\ Goto("readdir")
     \/ (Pool!OpenFails \/ Pool!Unwound) /\ UNCHANGED pool_active /\ Goto("readdir")
     \/ Pool!OpenUnwind /\ UNCHANGED <<pc, pool_active>>
     \/ Pool!Abort /\ UNCHANGED pool_active /\ Goto("crashed")
  /\ UNCHANGED <<dir, callVars, seen, skipped, inline, taskVars>>

\* Variant: readdir starts over.
Unread_All == DOMAIN dir

\* readdir returns what was there at opendir, once, and may return what has been
\* created since.
Unread == DOMAIN dir \ seen

EntryRead(n) ==
  /\ pc = "readdir" /\ n \in Unread
  /\ n \in DOMAIN before \/ Cardinality(seen \ DOMAIN before) < MaxNew
  /\ seen' = seen \union {n}
  /\ UNCHANGED <<dir, callVars, error_counter, cut>>

\* stat fails, or fullpath was cut off: the file is passed over.
SkipEntry(n) ==
  /\ EntryRead(n)
  /\ skipped' = skipped \union {n}
  /\ UNCHANGED <<pc, inline, pool_active, stage, saw, data, poolVars>>

SubmitEntry(n) ==
  /\ EntryRead(n)
  /\ pool_active /\ Pool!Accept(n)
  /\ stage' = [stage EXCEPT ![n] = "open"]
  /\ UNCHANGED <<pc, skipped, inline, pool_active, saw, data>>

\* Without a pool, without memory for the task, or when the pool refuses it,
\* which is then not asked again.
ProcessEntry(n) ==
  /\ EntryRead(n)
  /\ \/ UNCHANGED <<pool_active, poolVars>>
     \/ pool_active /\ Pool!Refuse(n) /\ pool_active' = FALSE
  /\ stage' = [stage EXCEPT ![n] = "open"]
  /\ inline' = n
  /\ Goto("inline")
  /\ UNCHANGED <<skipped, saw, data>>

\* Variant: a pool that has refused a job is neither waited for nor destroyed.
HasPool_Active == pool_active

HasPool == phase = "open"

EndOfDirectory ==
  /\ pc = "readdir" /\ DOMAIN before \subseteq seen
  /\ IF HasPool THEN Pool!Wait /\ Goto("wait") ELSE UNCHANGED poolVars /\ Goto("done")
  /\ UNCHANGED <<dir, callVars, loopVars, taskVars>>

WaitReturns ==
  /\ pc = "wait"
  /\ Pool!WaitReturns
  /\ Goto("destroy")
  /\ UNCHANGED <<dir, callVars, loopVars, taskVars>>

DestroyPool ==
  /\ pc = "destroy"
  /\ \/ Pool!Close /\ Goto("destroy")
     \/ Pool!CloseReturns /\ Goto("done")
  /\ UNCHANGED <<dir, callVars, loopVars, taskVars>>

-----------------------------------------------------------------------------
(* The tasks. *)

StartTask ==
  /\ pc \notin Ended
  /\ Pool!Start
  /\ UNCHANGED <<pc, dir, callVars, loopVars, taskVars>>

At(n, label) == pc # "crashed" /\ stage[n] = label /\ n \in Working

Continue(n, label) ==
  /\ stage' = [stage EXCEPT ![n] = label]
  /\ UNCHANGED <<pc, callVars, loopVars, error_counter, poolVars>>

\* Variant: the main thread does not count its own failures.
Counted_PoolOnly(n, result) == result = "failed" /\ n # inline

Counted(n, result) == result = "failed"

\* The end of directory_file_task, or of the call that the main thread makes.
TaskEnds(n, result) ==
  /\ stage' = [stage EXCEPT ![n] = result]
  /\ error_counter' = IF Counted(n, result) THEN error_counter + 1 ELSE error_counter
  /\ saw' = [saw EXCEPT ![n] = Empty] /\ data' = [data EXCEPT ![n] = Empty]
  /\ IF n = inline
     THEN inline' = NoFile /\ Goto("readdir") /\ UNCHANGED poolVars
     ELSE Pool!Run(n) /\ UNCHANGED <<pc, inline>>
  /\ UNCHANGED <<callVars, seen, skipped, pool_active>>

\* Variant: the size is used before fstat has been called.
SizeOf_Unset(n) == Empty

\* What fstat says of the file; the buffer is made for it.
SizeOf(n) == dir[n]

OpenInput(n) ==
  /\ At(n, "open")
  /\ saw' = [saw EXCEPT ![n] = SizeOf(n)]
  /\ Continue(n, "read")
  /\ UNCHANGED <<dir, data, cut>>

Writers(n) == {m \in Working : stage[m] = "store" /\ Target(m) = n}

\* While another task writes the file, a beginning of it may be read.
Readable(n) == {dir[n]} \union (IF Writers(n) = {} THEN {} ELSE {Torn})

\* The file is read and its blocks are transformed.
ReadInput(n) ==
  /\ At(n, "read")
  /\ \E c \in Readable(n) : \E image \in Images(c) : data' = [data EXCEPT ![n] = image]
  /\ Continue(n, "create")
  /\ saw' = [saw EXCEPT ![n] = Empty]
  /\ UNCHANGED <<dir, cut>>

TaskCrashes(n) ==
  /\ At(n, "read")
  /\ Goto("crashed")
  /\ UNCHANGED <<dir, callVars, loopVars, taskVars, poolVars>>

\* The file is longer than fstat said: the heap is overrun.
ReadOverruns(n) ==
  /\ TaskCrashes(n)
  /\ Readable(n) # {saw[n]} /\ Readable(n) # {Empty}

\* The last block is no whole one: the heap is overrun.
BlockOverruns(n) == TaskCrashes(n) /\ \E c \in Readable(n) : BeyondBuffer(c)

\* The pool for the blocks cannot be created: Abort of JobPool.
BlockPoolAborts(n) == TaskCrashes(n) /\ \E c \in Readable(n) : IsLarge(c)

\* A system call fails before the output exists or after, or the file changed
\* meanwhile and leaves no room for the padding.
TaskFails(n) ==
  /\ At(n, "read") \/ At(n, "create") \/ At(n, "store")
  /\ TaskEnds(n, "failed")
  /\ UNCHANGED <<dir, cut>>

\* Which may be the file itself, or another one of the directory.
CreateOutput(n) ==
  /\ At(n, "create")
  /\ Put(Target(n), Empty)
  /\ Continue(n, "store")
  /\ UNCHANGED <<saw, data, cut>>

\* What two tasks write into one file may be a mixture.
WriteOutput(n) ==
  /\ At(n, "store")
  /\ LET out == Target(n) IN
       \/ Put(out, data[n]) /\ UNCHANGED cut
       \/ dir[out] # Empty /\ Put(out, Torn) /\ UNCHANGED cut
       \/ Put(out, Torn) /\ cut' = TRUE
  /\ TaskEnds(n, "ok")

-----------------------------------------------------------------------------
\* After a success the plain files that have an encrypted one beside them are
\* removed, and the next call is made on what is there.  What follows a write that
\* was cut short is left out.
NextCall ==
  /\ pc = "done" /\ error_counter = 0 /\ ~cut /\ Len(plan) > 1
  /\ plan' = Tail(plan)
  /\ dir' = [n \in {m \in DOMAIN dir : HasEnc(m) \/ Append(m, ".enc") \notin DOMAIN dir} |-> dir[n]]
  /\ before' = dir'
  /\ Goto("opendir")
  /\ seen' = {} /\ skipped' = {} /\ pool_active' = FALSE
  /\ stage' = [n \in Name |-> "none"]
  /\ phase' = "new" /\ accepted' = <<>> /\ refused' = {} /\ started' = <<>>
  /\ runs' = [n \in Name |-> 0]
  /\ UNCHANGED <<origin, inline, error_counter, cut, saw, data>>

MainStep ==
  \/ OpenDir \/ MakePool
  \/ \E n \in Name : SubmitEntry(n) \/ ProcessEntry(n)
  \/ EndOfDirectory \/ WaitReturns \/ DestroyPool

TaskStep(n) ==
  \/ OpenInput(n) \/ ReadInput(n)
  \/ ReadOverruns(n) \/ BlockOverruns(n) \/ BlockPoolAborts(n)
  \/ CreateOutput(n) \/ WriteOutput(n) \/ TaskFails(n)

Terminated == pc \in Ended /\ UNCHANGED vars

Progress == MainStep \/ StartTask \/ \E n \in Name : TaskStep(n)

Next == Progress \/ (\E n \in Name : SkipEntry(n)) \/ NextCall \/ Terminated

Spec == Init /\ [][Next]_vars

\* Some thread of the call runs and system calls return.  Which one need not be
\* fair: there is an end to what each of them can do.
FairSpec == Spec /\ WF_vars(Progress)
=============================================================================

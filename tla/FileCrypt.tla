----------------------------- MODULE FileCrypt -----------------------------
(***************************************************************************)
(* process_file_syscalls of encrypt/src/file_ops.c: one call, the pool it  *)
(* makes for the blocks of a large file, and another process that changes  *)
(* the input between fstat and the end of the read loop.                   *)
(***************************************************************************)
EXTENDS PaddedBlocks, CryptNames, FiniteSets

CONSTANTS Contents,    \* what the input file may hold
          Rewrites,    \* what another process may make of it
          Name,        \* paths, as in CryptNames
          NameLimit,   \* units that fit in output_filename
          MinBlocks,   \* MIN_BLOCKS_FOR_PARALLEL
          NumThreads,  \* recommended_thread_count()
          ReadSize,    \* BUFFER_SIZE
          MaxBlocks,   \* bound: blocks of a file
          MaxEdits     \* bound: changes by the other process

ASSUME FileAssumption ==
  /\ Contents \subseteq Seq(Byte) /\ Rewrites \subseteq Seq(Byte) /\ Name \subseteq Seq(STRING)
  /\ {NameLimit, MinBlocks, ReadSize, MaxBlocks} \subseteq Nat \ {0}
  /\ NumThreads \in Nat \ {0, 1} /\ MaxEdits \in Nat
  /\ \A c \in Contents \union Rewrites : BlocksOf(Len(Pad(c))) <= MaxBlocks

VARIABLES
  pc, mode, filename,
  file,      \* the files that exist
  edits,     \* how often the other process has changed the input
  padded,    \* padded_size
  total,     \* total_bytes
  buf,       \* file_content, and what follows it in memory when overrun
  index,     \* loop variable i of the loop over the blocks
  parallel,  \* parallel_blocks
  source,    \* the bytes that were read; not in the code
  (* the thread pool *)
  phase, accepted, refused, started, runs

callVars == <<mode, filename>>
fileVars == <<file, edits>>
readVars == <<padded, total, source>>
poolVars == <<phase, accepted, refused, started, runs>>
vars == <<pc, callVars, fileVars, readVars, buf, index, parallel, poolVars>>

Pool == INSTANCE JobPool WITH Job <- 1 .. MaxBlocks, Width <- NumThreads

Ended == {"done", "failed", "crashed"}

num_blocks == BlocksOf(total)

Init ==
  /\ pc = "open"
  /\ mode \in Modes /\ filename \in Name
  /\ \E c \in Contents : file = [n \in {filename} |-> c]
  /\ edits = 0 /\ padded = 0 /\ total = 0 /\ index = 1
  /\ buf = <<>> /\ source = <<>>
  /\ parallel = FALSE
  /\ Pool!Init

Goto(label) == pc' = label

Put(n, content) ==
  file' = [m \in DOMAIN file \union {n} |-> IF m = n THEN content ELSE file[m]]

-----------------------------------------------------------------------------
(* Reading. *)

\* Variant: the buffer of an encryption is rounded down to full blocks.
PaddedSize_Down(size) == size - (size % BlockSize)

PaddedSize(size) == IF mode = "encrypt" THEN size + PadLen(size) ELSE size

\* open, fstat, and a zeroed buffer of the padded size.
OpenInput ==
  /\ pc = "open"
  /\ padded' = PaddedSize(Len(file[filename]))
  /\ buf' = [k \in 1 .. padded' |-> 0]
  /\ Goto("read")
  /\ UNCHANGED <<callVars, fileVars, total, source, index, parallel, poolVars>>

OpenInputFails ==
  /\ pc = "open"
  /\ Goto("failed")
  /\ UNCHANGED <<callVars, fileVars, readVars, buf, index, parallel, poolVars>>

\* Variant: only a negative result of read ends the loop.
EndOfFile_OnError == FALSE

EndOfFile == total >= Len(file[filename])

Smaller(a, b) == IF a < b THEN a ELSE b

\* What one read returns: up to ReadSize bytes, however much room is left.
Piece == SubSeq(file[filename], total + 1, Smaller(total + ReadSize, Len(file[filename])))

\* Bytes beyond the end of the buffer overwrite the heap, which may end the process.
ReadPiece ==
  /\ pc = "read" /\ ~EndOfFile
  /\ buf' = SubSeq(buf, 1, total) \o Piece
              \o SubSeq(buf, total + Len(Piece) + 1, Len(buf))
  /\ total' = total + Len(Piece)
  /\ \/ UNCHANGED pc
     \/ total' > padded /\ Goto("crashed")
  /\ UNCHANGED <<callVars, fileVars, padded, source, index, parallel, poolVars>>

ReadFails ==
  /\ pc = "read"
  /\ Goto("failed")
  /\ UNCHANGED <<callVars, fileVars, readVars, buf, index, parallel, poolVars>>

ReadEnds ==
  /\ pc = "read" /\ EndOfFile
  /\ source' = SubSeq(buf, 1, total)
  /\ Goto("pad")
  /\ UNCHANGED <<callVars, fileVars, padded, total, buf, index, parallel, poolVars>>

\* Another process appends to the input, cuts it off or rewrites it.
Edit ==
  /\ pc = "read" /\ edits < MaxEdits
  /\ \E c \in Rewrites : file' = [file EXCEPT ![filename] = c]
  /\ edits' = edits + 1
  /\ UNCHANGED <<pc, callVars, readVars, buf, index, parallel, poolVars>>

-----------------------------------------------------------------------------
(* Padding. *)

\* The difference is unsigned: when more was read than expected it is huge.
PaddingFits == total < padded /\ padded - total <= BlockSize

AppendPadding ==
  /\ pc = "pad" /\ mode = "encrypt" /\ PaddingFits
  /\ buf' = SubSeq(buf, 1, total) \o Padding(padded - total)
  /\ total' = padded
  /\ Goto("pool")
  /\ UNCHANGED <<callVars, fileVars, padded, source, index, parallel, poolVars>>

AppendPaddingFails ==
  /\ pc = "pad" /\ mode = "encrypt" /\ ~PaddingFits
  /\ Goto("failed")
  /\ UNCHANGED <<callVars, fileVars, readVars, buf, index, parallel, poolVars>>

\* What the memory after the buffer holds, up to the end of the last block.
Beyond == [1 .. num_blocks * BlockSize - Len(buf) -> Byte]

\* A decryption takes whole blocks: the last one may reach beyond the buffer,
\* where it is read and overwritten.
NoPadding ==
  /\ pc = "pad" /\ mode = "decrypt"
  /\ IF num_blocks * BlockSize <= Len(buf)
     THEN UNCHANGED buf /\ Goto("pool")
     ELSE \E rest \in Beyond : buf' = buf \o rest /\ (Goto("pool") \/ Goto("crashed"))
  /\ UNCHANGED <<callVars, fileVars, readVars, index, parallel, poolVars>>

-----------------------------------------------------------------------------
(* The blocks. *)

\* A pool for files of at least MinBlocks blocks; without it, one after the other.
MakePool ==
  /\ pc = "pool"
  /\ \/ /\ num_blocks < MinBlocks
        /\ Goto("submit") /\ UNCHANGED <<parallel, poolVars>>
     \/ /\ num_blocks >= MinBlocks
        /\ \/ Pool!Open /\ parallel' = TRUE /\ Goto("submit")
           \/ Pool!OpenFails /\ parallel' = FALSE /\ Goto("submit")
           \/ Pool!OpenUnwind /\ UNCHANGED <<pc, parallel>>
           \/ Pool!Unwound /\ parallel' = FALSE /\ Goto("submit")
           \/ Pool!Abort /\ UNCHANGED parallel /\ Goto("crashed")
  /\ UNCHANGED <<callVars, fileVars, readVars, buf, index>>

\* Without a pool, without memory for the task or when the pool refuses it, the
\* main thread transforms the block itself.
CryptImmediately ==
  /\ pc = "submit" /\ index <= num_blocks
  /\ \/ UNCHANGED poolVars
     \/ parallel /\ Pool!Refuse(index)
  /\ buf' = CryptBlock(mode, buf, index)
  /\ index' = index + 1
  /\ UNCHANGED <<pc, callVars, fileVars, readVars, parallel>>

SubmitBlock ==
  /\ pc = "submit" /\ index <= num_blocks
  /\ parallel
  /\ Pool!Accept(index)
  /\ index' = index + 1
  /\ UNCHANGED <<pc, callVars, fileVars, readVars, buf, parallel>>

StartBlock ==
  /\ pc \notin Ended
  /\ Pool!Start
  /\ UNCHANGED <<pc, callVars, fileVars, readVars, buf, index, parallel>>

\* block_task_runner, on memory that no other task and no other thread touches.
RunBlock(i) ==
  /\ pc \notin Ended
  /\ Pool!Run(i)
  /\ buf' = CryptBlock(mode, buf, i)
  /\ UNCHANGED <<pc, callVars, fileVars, readVars, index, parallel>>

\* Variant: the pool is destroyed later, after the file has been written.
AfterSubmission_NoWait == "write"

AfterSubmission == "wait"

SubmissionEnds ==
  /\ pc = "submit" /\ index > num_blocks
  /\ IF parallel
     THEN Pool!Wait /\ Goto(AfterSubmission)
     ELSE UNCHANGED poolVars /\ Goto("write")
  /\ UNCHANGED <<callVars, fileVars, readVars, buf, index, parallel>>

WaitReturns ==
  /\ pc = "wait"
  /\ Pool!WaitReturns
  /\ Goto("destroy")
  /\ UNCHANGED <<callVars, fileVars, readVars, buf, index, parallel>>

DestroyPool ==
  /\ pc = "destroy"
  /\ \/ Pool!Close /\ Goto("destroy")
     \/ Pool!CloseReturns /\ Goto("write")
  /\ UNCHANGED <<callVars, fileVars, readVars, buf, index, parallel>>

-----------------------------------------------------------------------------
(* Writing. *)

OutputName == Cut(Output(mode, filename), NameLimit)

\* The bytes to write: all blocks, without valid padding after a decryption.
Result ==
  LET image == SubSeq(buf, 1, num_blocks * BlockSize)
  IN  IF mode = "encrypt" THEN image ELSE Unpad(image)

OpenOutput ==
  /\ pc = "write"
  /\ Put(OutputName, <<>>)
  /\ Goto("store")
  /\ UNCHANGED <<callVars, edits, readVars, buf, index, parallel, poolVars>>

OpenOutputFails ==
  /\ pc = "write"
  /\ Goto("failed")
  /\ UNCHANGED <<callVars, fileVars, readVars, buf, index, parallel, poolVars>>

\* One write, of which any number of bytes may arrive: only -1 is an error.
WriteOutput ==
  /\ pc = "store"
  /\ \/ \E n \in 0 .. Len(Result) :
          (n = 0 => Result = <<>>) /\ Put(OutputName, SubSeq(Result, 1, n)) /\ Goto("done")
     \/ UNCHANGED file /\ Goto("failed")
  /\ UNCHANGED <<callVars, edits, readVars, buf, index, parallel, poolVars>>

-----------------------------------------------------------------------------
MainStep ==
  \/ OpenInput \/ ReadPiece \/ ReadEnds
  \/ AppendPadding \/ AppendPaddingFails \/ NoPadding
  \/ MakePool \/ CryptImmediately \/ SubmitBlock \/ SubmissionEnds
  \/ WaitReturns \/ DestroyPool
  \/ OpenOutput \/ WriteOutput

MainFails == OpenInputFails \/ ReadFails \/ OpenOutputFails

Terminated == pc \in Ended /\ UNCHANGED vars

Next ==
  \/ MainStep \/ MainFails
  \/ StartBlock
  \/ \E i \in 1 .. MaxBlocks : RunBlock(i)
  \/ Edit
  \/ Terminated

Spec == Init /\ [][Next]_vars

\* The threads of the call are scheduled and system calls return; none of them
\* has to fail, and nobody has to change the input.
Fairness ==
  /\ WF_vars(MainStep) /\ WF_vars(StartBlock)
  /\ \A i \in 1 .. MaxBlocks : WF_vars(RunBlock(i))

FairSpec == Spec /\ Fairness
=============================================================================

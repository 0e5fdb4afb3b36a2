---------------------------- MODULE DirCryptInv ----------------------------
(***************************************************************************)
(* What is claimed about process_directory.                                *)
(***************************************************************************)
EXTENDS DirCrypt

Returned == seen \ skipped

-----------------------------------------------------------------------------
(* Safety. *)

\* Another task of the call writes the file n.
Written(n) == \E m \in Returned \ {n} : Target(m) = n

\* n or its output is written by the task of another file.
Disturbed(n) == Written(n) \/ \E m \in Returned \ {n} : Target(m) = Target(n)

\* The result is 0 exactly when no task has failed, whichever thread ran it; every
\* file for which stat succeeded has its image then, under the name that fits the
\* buffer, unless tasks share a file.
SuccessMeansProcessed ==
  pc = "done" =>
    /\ error_counter = Cardinality({n \in Returned : stage[n] = "failed"})
    /\ error_counter = 0 /\ ~cut =>
         \A n \in DOMAIN before \ skipped :
           Disturbed(n) \/ dir[Target(n)] \in Images(before[n])

\* Tasks write to error_counter on the stack: none is left when the call returns,
\* also when the pool has refused one of them.
NoTaskOutlivesCall ==
  pc = "done" => \A n \in Returned : stage[n] \in {"ok", "failed"}

\* The process only dies in the creation of a pool, the one of the directory or the
\* one for the blocks of a large file, or in a task whose file is written by another
\* task or is decrypted though its size is no multiple of the block size.
CrashHasACause ==
  pc = "crashed" =>
    \/ phase = "aborted"
    \/ \E n \in Returned :
         /\ stage[n] = "read"
         /\ Written(n) \/ IsLarge(before[n]) \/ BeyondBuffer(before[n])

\* Both calls succeeded, and passed no file over in the second.
BothSucceeded == pc = "done" /\ mode = "decrypt" /\ error_counter = 0 /\ ~cut /\ skipped = {}

FilesAreBack == \A f \in DOMAIN origin : f \in DOMAIN dir /\ dir[f] = origin[f]

\* An encryption, and at most a decryption of what it left.
TwoCalls == \A s \in Starts : s.plan[1] = "encrypt" => Len(s.plan) <= 2

\* Decrypting an encrypted directory gives its files back, whichever of them were
\* removed in between, unless a file and its .enc were there from the beginning, or
\* one with a name that decrypting another file may write, or readdir returned the
\* output of a task and an image was encrypted once more, for which a name that the
\* buffer has no room for may not tell.
RoundTrip ==
  BothSucceeded =>
    \/ \E f \in DOMAIN origin : Append(f, ".enc") \in DOMAIN origin \/ f[Len(f)] = ".dec"
    \/ \E f \in DOMAIN origin : Len(f) + 2 > NameLimit
    \/ \E m \in DOMAIN before : HasEnc(m) /\ HasEnc(Output("decrypt", m))
    \/ FilesAreBack

-----------------------------------------------------------------------------
\* Every call ends, although it creates files in the directory that it reads.
DirectoryEnds == (pc = "opendir") ~> (pc \in Ended)

-----------------------------------------------------------------------------
(* What the documentation says, and the code does not do. *)

\* "AES-128 encrypt/decrypt for files or directories": a directory of plain files,
\* encrypted, and decrypted again from the encrypted files alone, both calls with
\* success, holds its files.
RestoresDirectory == BothSucceeded => FilesAreBack
=============================================================================

---------------------------- MODULE FileCryptInv ----------------------------
(***************************************************************************)
(* What is claimed about process_file_syscalls.                            *)
(***************************************************************************)
EXTENDS FileCrypt

-----------------------------------------------------------------------------
(* Safety. *)

\* The pure function of the bytes that were read.
Image == IF mode = "encrypt" THEN Encrypted(source) ELSE Decrypted(source)

Aligned == mode = "encrypt" \/ Len(source) % BlockSize = 0

\* Whatever runs in parallel or falls back to the main thread, whatever the pool
\* refuses and whoever changes the input meanwhile: what is written is the image
\* of the bytes that were read, or the beginning of it.
OutputIsTheImage ==
  pc = "done" /\ Aligned =>
    /\ Len(file[OutputName]) <= Len(Image)
    /\ file[OutputName] = SubSeq(Image, 1, Len(file[OutputName]))

\* Decrypting what an encryption wrote gives the file back, also when that ended
\* with bytes that look like padding.
DecryptsWhatWasEncrypted ==
  pc = "write" /\ mode = "decrypt" =>
    \A s \in Contents : source = Encrypted(s) => Result = s

\* The process only dies when another process changed the input meanwhile, in the
\* creation of the pool for the blocks, or in a decryption of a file that is no
\* sequence of blocks.
CrashHasACause ==
  pc = "crashed" =>
    \/ edits > 0
    \/ phase = "aborted"
    \/ mode = "decrypt" /\ total % BlockSize # 0

\* The call does not touch its input, unless the output name is cut off.
InputKept ==
  [][file'[filename] # file[filename] =>
       \/ edits' # edits
       \/ Len(filename) >= NameLimit]_vars

-----------------------------------------------------------------------------
\* The call returns, or the process ends.
CallEnds == (pc = "open") ~> (pc \in Ended)

-----------------------------------------------------------------------------
(* What the documentation says, and the code does not do. *)

\* "File encrypted successfully: <name> (size: n bytes)": the n bytes are in it.
SuccessMeansWritten == pc = "done" => file[OutputName] = Result
=============================================================================

----------------------------- MODULE CryptNames -----------------------------
(***************************************************************************)
(* The names of the files that process_file_syscalls writes.  A name is a  *)
(* sequence of units of four characters, so that .enc and .dec are one.    *)
(***************************************************************************)
EXTENDS Naturals, Sequences

HasEnc(n) == Len(n) > 1 /\ n[Len(n)] = ".enc"

\* Variant: decrypting a name without .enc keeps it.
Output_Kept(mode, n) ==
  IF mode = "encrypt" THEN Append(n, ".enc")
  ELSE IF HasEnc(n) THEN SubSeq(n, 1, Len(n) - 1)
  ELSE n

\* Variant: .enc is not taken off.
Output_AlwaysDec(mode, n) == Append(n, IF mode = "encrypt" THEN ".enc" ELSE ".dec")

Output(mode, n) ==
  IF mode = "encrypt" THEN Append(n, ".enc")
  ELSE IF HasEnc(n) THEN SubSeq(n, 1, Len(n) - 1)
  ELSE Append(n, ".dec")

\* snprintf into a buffer with room for that many units.
Cut(n, limit) == SubSeq(n, 1, IF Len(n) < limit THEN Len(n) ELSE limit)
=============================================================================

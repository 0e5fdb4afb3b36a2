---------------------------- MODULE PipelineInv ----------------------------
(***************************************************************************)
(* What is claimed about the commands of main.c.                           *)
(***************************************************************************)
EXTENDS Pipeline, FileListInv

\* The name of the encrypted archive is not cut off.
NameFits == Len(EncPath) <= NameLimit

\* Where pack puts the encrypted archive.
SealedPath == Cut(EncPath, NameLimit)

\* The promised archive, or a newer one.
Promised(c) == Whole(c) /\ c.made >= lastPack.made

Ended(verb) == pc = "idle" /\ command.verb = verb /\ commands > 0

-----------------------------------------------------------------------------
\* Once a pack has sealed an archive, a whole archive of it, or of a later pack,
\* is on disk at every moment: while later commands run, whatever fails in them,
\* under whatever password, wherever they are killed, and with --cleanup.  Save
\* for a pack that fails in the write of the encrypted file, and for a name that
\* is cut off so that the encrypted file takes the archive's place.
AlwaysRecoverable ==
  SealedPath # archive /\ lastPack # NoPack =>
    \/ IsArchive(fs[archive]) /\ Promised(fs[archive])
    \/ Promised(fs[SealedPath]) /\ Len(fs[SealedPath].keys) = 1

\* An unpack in which nothing fails succeeds if and only if the encrypted file is
\* an archive under that password; it restores that archive, and the encrypted
\* file is still there.
UnpackOpensWhatWasSealed ==
  NameFits /\ Ended("unpack") /\ ~faulty =>
    IF result = 0
    THEN IsArchive(restored) /\ fs[EncPath] = Sealed(restored, command.password)
    ELSE ~Whole(fs[EncPath]) \/ fs[EncPath].keys # <<command.password>>

\* End to end: what an unpack restores after a pack are the files below the
\* inputs of that pack, save those that it gave up with a warning.
UnpackRestoresThePack ==
  NameFits /\ Ended("unpack") /\ lastPack # NoPack /\ restored # Nothing =>
    /\ restored.made = lastPack.made
    /\ restored.files = {w \in Wanted : ~ \E p \in lastPack.missed : Begins(p, w)}

\* Every command ends.
CommandEnds == (pc # "idle") ~> (pc = "idle")
=============================================================================

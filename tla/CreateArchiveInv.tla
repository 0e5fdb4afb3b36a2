-------------------------- MODULE CreateArchiveInv --------------------------
(***************************************************************************)
(* What is claimed about createArchive.                                    *)
(***************************************************************************)
EXTENDS CreateArchive, Functions

-----------------------------------------------------------------------------
(* Type invariant. *)

Blk == {Torn} \union UNION {Range(Huf(i, Blocks[i])) : i \in Input}

EntryType ==
  {ZeroEntry} \union
  [path : Input, compressed_size : Nat, data_offset : Nat]

TypeOK ==
  /\ pc \in Live \union Ended
  /\ index \in 1 .. NumInputs + 1
  /\ copied \in Nat /\ successful \in 0 .. NumInputs
  /\ entries \in [Input -> EntryType]
  /\ outcome \in [Input -> {"none", "skipped", "nodata", "copied", "short", "torn"}]
  /\ job \in [Input -> {"none", "live", "freed"}]
  /\ status \in [Input -> {"error", "ok"}]
  /\ jobEntry \in [Input -> EntryType]
  /\ work \in [Input -> {"idle", "read", "packed"}]
  /\ \A i \in Input : Range(temp[i]) \subseteq Blk
  /\ header \in {"old", "empty", "torn", "written"}
  /\ Len(table) \in 0 .. NumInputs /\ Range(table) \subseteq EntryType
  /\ Range(data) \subseteq Blk

-----------------------------------------------------------------------------
(* Safety. *)

\* Whoever opens the archive, at any moment, after a crash or a failed table
\* write too, finds in it only entries whose members have been merged, and an
\* entry whose temporary file was copied to its end names exactly the blocks of
\* that file: offsets stay right whatever went wrong with other members.
OnDiskEntriesReadBack ==
  \A i \in DOMAIN table : table[i] # ZeroEntry =>
    /\ outcome[i] \in {"nodata", "copied", "short", "torn"}
    /\ outcome[i] = "copied" =>
         Extent(data, table[i]) = Huf(i, jobEntry[i].compressed_size)

\* What a job uses is there for as long as it may run: its CompressionJob is
\* freed before that only on the path where malloc failed during the submission,
\* and no job outlives the call, with print_mutex on its stack and the input
\* paths that the caller frees.
JobsUseLiveMemory ==
  /\ \A i \in Pool!Elements(accepted) :
       job[i] = "freed" /\ runs[i] = 0 =>
         index \in Input /\ pc \in {"unwind", "crashed", "killed"}
  /\ pc \in {"done", "failed"} => Pool!AllRun /\ phase \in {"new", "closed"}

-----------------------------------------------------------------------------
(* Progress. *)

\* createArchive returns, or the process ends, whatever fails on the way.
CreateEnds == (pc = "open") ~> (pc \in Ended)
=============================================================================

------------------------- MODULE ExtractArchiveInv -------------------------
(***************************************************************************)
(* What is claimed about extractArchive, extractFile and listArchive.      *)
(***************************************************************************)
EXTENDS ExtractArchive

\* Entry i of the archive is there and names all the blocks of member i.
Stored(a, i) ==
  /\ i <= Len(a.table) /\ a.table[i].path = i
  /\ Extent(a.data, a.table[i]) = Huf(i, Blocks[i])

-----------------------------------------------------------------------------
(* What the claims about restored members presuppose of the calls.           *)

Block == (Member \union {NoPath}) \X Nat

EntryOf == [path : Member \union {NoPath}, compressed_size : Nat, data_offset : Nat]

\* An archive as createArchive leaves it when no temporary file was missing: an
\* entry does not point at the data of another member; and with every path once.
Sound(a) ==
  /\ a.table \in Seq(EntryOf) /\ a.data \in Seq(Block)
  /\ \A k \in DOMAIN a.table, m \in Member :
       a.table[k].data_offset \in DOMAIN a.data
         /\ a.data[a.table[k].data_offset] = HufHeader(m)
       => m = a.table[k].path
  /\ \A k, l \in DOMAIN a.table :
       a.table[k].path = a.table[l].path /\ a.table[k].path # NoPath => k = l

\* The members that a call may put into slot s.
PutsInto(c, a, s) ==
  {m \in Member : \E k \in DOMAIN a.table :
     /\ a.table[k].path = m
     /\ \/ c.mode = "all" /\ s = k
        \/ c.mode = "one" /\ s = 0 /\ c.path = m}

\* The temporary names do not depend on the process: calls that run at the same
\* time do not put different members into one slot.
Agree(scenario) ==
  \A p, q \in Proc, s \in Slot :
    \A m \in PutsInto(scenario[p].call, scenario[p].archive, s),
       n \in PutsInto(scenario[q].call, scenario[q].archive, s) : m = n

Consistent(scenario) ==
  (\A p \in Proc : Sound(scenario[p].archive)) /\ Agree(scenario)

-----------------------------------------------------------------------------
\* A file restored in full is the member of that name, never another one.
OutputIsTheMember ==
  \A p \in Proc, i \in Member : output[p][i] \in {i, Absent, Garbled}

\* No other process extracts a whole archive at the same time.
OnlyAllCall(p) ==
  \A q \in Proc \ {p} : call[q].mode = "all" => archive[q].header = "torn"

\* One member that is missing, damaged or cannot be written does not keep
\* extractArchive from restoring every other member, even while other processes
\* extract single files or list archives.
OthersRestored ==
  \A p \in Proc, i \in Member :
    /\ pc[p] = "done" /\ call[p].mode = "all" /\ OnlyAllCall(p)
    /\ Stored(archive[p], i)
    => i \in faulty[p] \/ output[p][i] = i

\* When every call has returned with success, nothing is left in /tmp, however
\* their steps interleaved and whatever each could not restore.
NoTempLeft ==
  (\A p \in Proc : pc[p] = "done") => \A s \in Slot : name[s] = NoInode

\* Every call returns, or the process ends, whatever fails and whatever other
\* processes do to the temporary files.
ExtractEnds == \A p \in Proc : (pc[p] = "open") ~> (pc[p] \in Ended)

-----------------------------------------------------------------------------
(* What the documentation says, and the code does not do. *)

\* formato.txt: data_offset[i] is where compressed file i starts, so what is
\* restored from it, and reported as extracted, is no other member.
EntryRestoresItsOwnFile ==
  \A p \in Proc, i, j \in Member : output[p][i] = j => i = j
=============================================================================

-------------------------- MODULE MCExtractArchive --------------------------
(* ExtractArchive on small instances. *)
EXTENDS ExtractArchiveInv

SomeBlocks == [i \in Member |-> i + 1]

ListCall == [mode |-> "list", path |-> NoPath, dir |-> "existing"]

AllCall == [mode |-> "all", path |-> NoPath, dir |-> "existing"]

OneCall(path, dir) == [mode |-> "one", path |-> path, dir |-> dir]

\* Data areas as createArchive leaves them: two members in a row, and two with
\* what a failed copy left between them.
BothInRow == Huf(1, 2) \o Huf(2, 3)
WithGap   == Huf(1, 1) \o <<Torn>> \o Huf(2, 3)

Archive(h, n, t, d) ==
  [header |-> h, num_files |-> n, table |-> t, data |-> d]

Complete == Archive("written", 2, <<Entry(1, 2, 1), Entry(2, 3, 3)>>, BothInRow)
Skipped  == Archive("written", 2, <<ZeroEntry, Entry(2, 3, 1)>>, Huf(2, 3))
Damaged  == Archive("written", 2, <<Entry(1, 2, 1), Entry(2, 3, 3)>>, WithGap)
Killed   == Archive("written", 2, ZeroTable(2), BothInRow)
NoTable  == Archive("written", 2, <<ZeroEntry>>, <<>>)
NoHeader == Archive("torn", 2, <<>>, <<>>)

\* A temporary file that createArchive could not read to its end.
Short    == Archive("written", 2, <<Entry(1, 2, 1), Entry(2, 3, 2)>>, Huf(1, 1) \o Huf(2, 3))

\* The temporary file of the first input, the larger one, was gone: its entry
\* points at the data of the other.
NoData   == Archive("written", 2, <<Entry(2, 3, 1), Entry(1, 2, 1)>>, Huf(1, 2))

Single   == Archive("written", 1, <<Entry(1, 2, 1)>>, Huf(1, 2))

SoundArchives == {Complete, Skipped, Damaged, Killed, NoTable, NoHeader, Short}

EveryCall == {AllCall, ListCall} \union {OneCall(i, d) : i \in Member, d \in OutputDir}

Job(c, a) == [call |-> c, archive |-> a]

SomeJobs == {Job(c, a) : c \in EveryCall, a \in SoundArchives \union {Single, NoData}}

\* Every archive and every call, beside processes whose archive has no header;
\* an extraction of two members beside calls that extract one or list; and every
\* pair of calls on archives of one member.
Beside(q, j, k) == [p \in Proc |-> IF p = q THEN j ELSE k]
AloneOrRacing ==
  {Beside(q, Job(c, a), Job(AllCall, NoHeader)) :
     q \in Proc, c \in EveryCall, a \in SoundArchives}
  \union {Beside(q, Job(AllCall, Complete), Job(c, Complete)) :
            q \in Proc, c \in EveryCall \ {AllCall}}
  \union [Proc -> {Job(c, Single) : c \in EveryCall}]

\* The theorems about restored members apply to all of these.
ASSUME RacesAreConsistent == \A scenario \in AloneOrRacing : Consistent(scenario)

OnlyNoData == [Proc -> {Job(AllCall, NoData)}]
=============================================================================

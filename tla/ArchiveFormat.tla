--------------------------- MODULE ArchiveFormat ---------------------------
(***************************************************************************)
(* The .huf archive of compress/src/archive/archive.h as its writer and    *)
(* its readers see it.  A file is a sequence of blocks: the 8192-byte      *)
(* pieces in which archive.c copies.  The header and the table together    *)
(* are one block, at offset 0; the data area follows, from offset 1 on.    *)
(***************************************************************************)
EXTENDS Naturals, Sequences

\* What compressFile writes for a member of n blocks: the HUF1 header and n - 1
\* blocks of codes.
Huf(path, n) == [k \in 1 .. n |-> <<path, k>>]

HufHeader(path) == <<path, 1>>

\* Paths are numbered; the empty path of a zero entry is none of them.
NoPath == 0

\* A write that stopped in the middle of a block.
Torn == <<NoPath, 0>>

\* FileEntry; calloc and memset make every field zero.
Entry(path, size, offset) ==
  [path |-> path, compressed_size |-> size, data_offset |-> offset]

ZeroEntry == Entry(NoPath, 0, 0)

ZeroTable(n) == [i \in 1 .. n |-> ZeroEntry]

\* The blocks of the data area that an entry names, cut off at its end.
Extent(data, entry) ==
  IF entry.data_offset = 0
  THEN <<>>
  ELSE SubSeq(data, entry.data_offset,
              IF entry.data_offset + entry.compressed_size - 1 <= Len(data)
              THEN entry.data_offset + entry.compressed_size - 1
              ELSE Len(data))
=============================================================================

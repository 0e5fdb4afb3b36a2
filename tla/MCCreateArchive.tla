-------------------------- MODULE MCCreateArchive --------------------------
(* CreateArchive on small instances. *)
EXTENDS CreateArchiveInv

\* One input that compresses to the header and one block of codes, and others
\* that need one block more.
SomeBlocks == [i \in Input |-> IF i = 1 THEN 2 ELSE 3]
=============================================================================

--------------------------- MODULE ExtractArchive ---------------------------
(***************************************************************************)
(* extractArchive ("all"), extractFile ("one") and listArchive ("list") of *)
(* archive.c, run by processes that share /tmp, where a member that was    *)
(* cut out of the archive is put before decompressFile turns it into the   *)
(* output file.  The temporary names do not depend on the process.         *)
(***************************************************************************)
EXTENDS ArchiveFormat, FiniteSets

CONSTANTS Proc,      \* processes that read archives
          MaxFiles,  \* members of the largest archive
          Blocks,    \* Blocks[i]: blocks of member i when it is complete
          Jobs,      \* the calls and archives that the processes may be given
          Scenarios  \* the ways to give every process one of them

Member == 1 .. MaxFiles

\* Slot i is /tmp/huf_extract_<i>.huf, slot 0 is /tmp/huf_extract_single.huf.
Slot == 0 .. MaxFiles

\* What the -o option leaves in output_dir of an "one" call: main passes the
\* name of the member itself when there was no -o.
OutputDir == {"existing", "missing", "unset"}

ASSUME ArchiveAssumption ==
  /\ MaxFiles \in Nat \ {0}
  /\ Blocks \in [Member -> Nat \ {0, 1}]
  /\ Scenarios \subseteq [Proc -> Jobs]
  /\ \A j \in Jobs :
       /\ j.call \in [mode : {"all", "list"}, path : {NoPath}, dir : {"existing"}]
                 \union [mode : {"one"}, path : Member, dir : OutputDir]
       /\ j.archive.num_files \in Member
       /\ Len(j.archive.table) \in 0 .. j.archive.num_files

VARIABLES
  pc, call, archive,
  index,    \* loop variable; the entry being extracted
  faulty,   \* faulty[p]: entries for which a system call failed
  (* the temporary file *)
  fd,       \* inode that temp_fd writes
  pos,      \* blocks written through temp_fd
  input,    \* inode that decompressFile reads
  mapped,   \* its length when it was mapped
  name,     \* name[s]: inode with the name of slot s, or NoInode
  content,  \* content of every inode
  (* results *)
  output    \* output[p][i]: what the file extracted as path i holds

procVars == <<pc, call, archive, index, faulty, fd, pos, input, mapped>>
vars == <<procVars, name, content, output>>

\* An inode is named after the process and the slot that created it.
Inode == Proc \X Slot
NoInode == <<>>

\* What a file holds that was never opened, or not decoded to its end, or
\* decoded from blocks that are no member's; a member is its own contents.
Absent == 0
Garbled == MaxFiles + 1

Ended == {"done", "failed", "crashed"}

entries(p) == archive[p].table

Current(p) == entries(p)[index[p]]

num_files(p) == archive[p].num_files

slot(p) == IF call[p].mode = "all" THEN index[p] ELSE 0

Init ==
  /\ pc = [p \in Proc |-> "open"]
  /\ \E scenario \in Scenarios :
       /\ call = [p \in Proc |-> scenario[p].call]
       /\ archive = [p \in Proc |-> scenario[p].archive]
  /\ index = [p \in Proc |-> 1]
  /\ faulty = [p \in Proc |-> {}]
  /\ fd = [p \in Proc |-> NoInode]
  /\ pos = [p \in Proc |-> 0]
  /\ input = [p \in Proc |-> NoInode]
  /\ mapped = [p \in Proc |-> 0]
  /\ name = [s \in Slot |-> NoInode]
  /\ content = [n \in Inode |-> <<>>]
  /\ output = [p \in Proc |-> [i \in Member |-> Absent]]

Goto(p, label) == pc' = [pc EXCEPT ![p] = label]

Faulty(p) == faulty' = [faulty EXCEPT ![p] = @ \union {index[p]}]

-----------------------------------------------------------------------------
(* Opening the archive. *)

\* The archive is opened and its header read; extractArchive then reads the
\* whole table, the other two go through it entry by entry.
OpenArchive(p) ==
  /\ pc[p] = "open"
  /\ IF archive[p].header = "written"
        /\ (call[p].mode # "all" \/ Len(entries(p)) = num_files(p))
     THEN Goto(p, CASE call[p].mode = "all"  -> "entry"
                    [] call[p].mode = "one"  -> "search"
                    [] call[p].mode = "list" -> "list")
     ELSE Goto(p, "failed")
  /\ UNCHANGED <<call, archive, index, faulty, fd, pos, input, mapped>>
  /\ UNCHANGED <<name, content, output>>

Search(p) ==
  /\ pc[p] = "search"
  /\ IF index[p] > Len(entries(p))
     THEN Goto(p, "failed") /\ UNCHANGED index
     ELSE IF Current(p).path = call[p].path
     THEN Goto(p, "entry") /\ UNCHANGED index
     ELSE index' = [index EXCEPT ![p] = @ + 1] /\ UNCHANGED pc
  /\ UNCHANGED <<call, archive, faulty, fd, pos, input, mapped>>
  /\ UNCHANGED <<name, content, output>>

\* listArchive prints num_files entries and their totals, or what the table has.
ListEntry(p) ==
  /\ pc[p] = "list"
  /\ IF index[p] > num_files(p)
     THEN Goto(p, "done") /\ UNCHANGED index
     ELSE IF index[p] > Len(entries(p))
     THEN Goto(p, "failed") /\ UNCHANGED index
     ELSE index' = [index EXCEPT ![p] = @ + 1] /\ UNCHANGED pc
  /\ UNCHANGED <<call, archive, faulty, fd, pos, input, mapped>>
  /\ UNCHANGED <<name, content, output>>

-----------------------------------------------------------------------------
(* Cutting a member out of the archive. *)

EndOfTable(p) == call[p].mode = "all" /\ index[p] > num_files(p)

ReturnAll(p) ==
  /\ pc[p] = "entry" /\ EndOfTable(p)
  /\ Goto(p, "done")
  /\ UNCHANGED <<call, archive, index, faulty, fd, pos, input, mapped>>
  /\ UNCHANGED <<name, content, output>>

\* O_CREAT | O_TRUNC: the inode that has the name already, emptied, or a new one.
Opened(p) == IF name[slot(p)] = NoInode THEN <<p, slot(p)>> ELSE name[slot(p)]

OpenTemp(p) ==
  /\ pc[p] = "entry" /\ ~EndOfTable(p)
  /\ LET n == Opened(p)
     IN  /\ name' = [name EXCEPT ![slot(p)] = n]
         /\ content' = [content EXCEPT ![n] = <<>>]
         /\ fd' = [fd EXCEPT ![p] = n]
  /\ pos' = [pos EXCEPT ![p] = 0]
  /\ Goto(p, "copy")
  /\ UNCHANGED <<call, archive, index, faulty, input, mapped, output>>

\* extractArchive goes on with the next entry, extractFile gives up.
OpenTempFails(p) ==
  /\ pc[p] = "entry" /\ ~EndOfTable(p)
  /\ Faulty(p)
  /\ IF call[p].mode = "all"
     THEN index' = [index EXCEPT ![p] = @ + 1] /\ UNCHANGED pc
     ELSE Goto(p, "failed") /\ UNCHANGED index
  /\ UNCHANGED <<call, archive, fd, pos, input, mapped>>
  /\ UNCHANGED <<name, content, output>>

\* A write at a position keeps what other writers put elsewhere; a hole, where
\* the file was emptied meanwhile, reads as zeros.
WriteAt(s, k, block) ==
  [j \in 1 .. (IF k > Len(s) THEN k ELSE Len(s)) |->
     IF j = k THEN block ELSE IF j <= Len(s) THEN s[j] ELSE Torn]

\* Variant: one lseek for the whole table.
SeekOffset_First(p) == entries(p)[1].data_offset

SeekOffset(p) == Current(p).data_offset

\* The block that the next read of the archive returns: a piece of the header
\* for an entry whose offset is 0.
NextBlock(p) ==
  IF SeekOffset(p) + pos[p] = 0 THEN Torn ELSE archive[p].data[SeekOffset(p) + pos[p]]

AtEnd(p) == SeekOffset(p) + pos[p] > Len(archive[p].data)

CopyBlock(p) ==
  /\ pc[p] = "copy"
  /\ pos[p] < Current(p).compressed_size /\ ~AtEnd(p)
  /\ content' = [content EXCEPT ![fd[p]] = WriteAt(@, pos[p] + 1, NextBlock(p))]
  /\ pos' = [pos EXCEPT ![p] = @ + 1]
  /\ UNCHANGED <<pc, call, archive, index, faulty, fd, input, mapped>>
  /\ UNCHANGED <<name, output>>

CopyEnds(p) ==
  /\ pc[p] = "copy"
  /\ pos[p] = Current(p).compressed_size
  /\ Goto(p, "decompress")
  /\ UNCHANGED <<call, archive, index, faulty, fd, pos, input, mapped>>
  /\ UNCHANGED <<name, content, output>>

\* A read or a write fails, or the archive is shorter than the entry says:
\* extractArchive decompresses what it has, extractFile returns at once.
CopyFails(p) ==
  /\ pc[p] = "copy"
  /\ pos[p] < Current(p).compressed_size
  /\ Faulty(p)
  /\ Goto(p, IF call[p].mode = "all" THEN "decompress" ELSE "failed")
  /\ UNCHANGED <<call, archive, index, fd, pos, input, mapped>>
  /\ UNCHANGED <<name, content, output>>

-----------------------------------------------------------------------------
(* decompressFile. *)

IsHeader(block) == \E i \in Member : block = HufHeader(i)

\* ensureDirectoryExists makes the parents of output_dir/path for extractArchive,
\* but for extractFile only those of output_dir itself.
OutputOpens(p) == call[p].mode = "all" \/ call[p].dir = "existing"

\* The temporary file is opened by name, its header read, the output created.
OpenInput(p) ==
  /\ pc[p] = "decompress"
  /\ LET n == name[slot(p)] IN
       /\ n # NoInode /\ content[n] # <<>> /\ IsHeader(content[n][1])
       /\ Current(p).path # NoPath /\ OutputOpens(p)
       /\ input' = [input EXCEPT ![p] = n]
       /\ mapped' = [mapped EXCEPT ![p] = Len(content[n])]
       /\ output' = [output EXCEPT ![p][Current(p).path] = Garbled]
  /\ Goto(p, "decode")
  /\ UNCHANGED <<call, archive, index, faulty, fd, pos, name, content>>

OpenInputFails(p) ==
  /\ pc[p] = "decompress"
  /\ LET n == name[slot(p)] IN
       ~ /\ n # NoInode /\ content[n] # <<>> /\ IsHeader(content[n][1])
         /\ Current(p).path # NoPath /\ OutputOpens(p)
  /\ Goto(p, "error")
  /\ UNCHANGED <<call, archive, index, faulty, fd, pos, input, mapped>>
  /\ UNCHANGED <<name, content, output>>

\* The member that a sequence of blocks begins with in full: decoding stops after
\* original_size symbols and ignores the rest.
Whole(s) == {i \in Member : Len(s) >= Blocks[i] /\ SubSeq(s, 1, Blocks[i]) = Huf(i, Blocks[i])}

\* The mapping shows the file as it is now, not as it was opened.  Blocks that
\* are no member's may decode to as many symbols as the header asks for.
Decode(p) ==
  /\ pc[p] = "decode"
  /\ LET s == content[input[p]] IN
       /\ Len(s) >= mapped[p]
       /\ \/ \E i \in Whole(SubSeq(s, 1, mapped[p])) :
               /\ output' = [output EXCEPT ![p][Current(p).path] = i]
               /\ Goto(p, "unlink")
          \/ /\ Whole(SubSeq(s, 1, mapped[p])) = {}
             /\ UNCHANGED output
             /\ Goto(p, "unlink") \/ Goto(p, "error")
  /\ UNCHANGED <<call, archive, index, faulty, fd, pos, input, mapped>>
  /\ UNCHANGED <<name, content>>

\* Touching a mapped page beyond the end of a file that was cut off: SIGBUS.
DecodeCrashes(p) ==
  /\ pc[p] = "decode"
  /\ Len(content[input[p]]) < mapped[p]
  /\ Goto(p, "crashed")
  /\ UNCHANGED <<call, archive, index, faulty, fd, pos, input, mapped>>
  /\ UNCHANGED <<name, content, output>>

\* Opening or writing the output fails.
DecodeFails(p) ==
  /\ pc[p] \in {"decompress", "decode"}
  /\ Faulty(p)
  /\ Goto(p, "error")
  /\ UNCHANGED <<call, archive, index, fd, pos, input, mapped>>
  /\ UNCHANGED <<name, content, output>>

-----------------------------------------------------------------------------
\* Variant: extractArchive stops at the first member that it cannot restore.
AfterError_Stop == "done"

AfterError == "entry"

\* Variant: the temporary file of a member that cannot be restored stays.
NameAfter_KeptOnError(p) == IF pc[p] = "error" THEN name[slot(p)] ELSE NoInode

NameAfter(p) == NoInode

\* Variant: a member that cannot be restored is tried again.
NextIndex_Retry(p) == IF pc[p] = "error" THEN index[p] ELSE index[p] + 1

NextIndex(p) == index[p] + 1

\* The temporary name is removed, whoever made it.
Unlink(p) ==
  /\ pc[p] \in {"unlink", "error"}
  /\ name' = [name EXCEPT ![slot(p)] = NameAfter(p)]
  /\ IF call[p].mode = "all"
     THEN /\ index' = [index EXCEPT ![p] = NextIndex(p)]
          /\ Goto(p, IF pc[p] = "error" THEN AfterError ELSE "entry")
     ELSE /\ UNCHANGED index
          /\ Goto(p, IF pc[p] = "error" THEN "failed" ELSE "done")
  /\ UNCHANGED <<call, archive, faulty, fd, pos, input, mapped, content, output>>

-----------------------------------------------------------------------------
Step(p) ==
  \/ OpenArchive(p) \/ Search(p) \/ ListEntry(p) \/ ReturnAll(p)
  \/ OpenTemp(p) \/ OpenTempFails(p)
  \/ CopyBlock(p) \/ CopyEnds(p) \/ CopyFails(p)
  \/ OpenInput(p) \/ OpenInputFails(p)
  \/ Decode(p) \/ DecodeCrashes(p) \/ DecodeFails(p)
  \/ Unlink(p)

Terminated == (\A p \in Proc : pc[p] \in Ended) /\ UNCHANGED vars

Next == (\E p \in Proc : Step(p)) \/ Terminated

Spec == Init /\ [][Next]_vars

Fairness == \A p \in Proc : WF_vars(Step(p))

FairSpec == Spec /\ Fairness
=============================================================================

----------------------- MODULE ExtractArchive_proof ------------------------
(***************************************************************************)
(* Proofs, for any number of processes, members, archives and calls, of    *)
(* the claims of ExtractArchiveInv about what is left in /tmp and about    *)
(* what is restored.                                                       *)
(***************************************************************************)
EXTENDS ExtractArchiveInv, SequenceTheorems, TLAPS

-----------------------------------------------------------------------------
(* Nothing is left in /tmp: what keeps a temporary name is a process that is *)
(* going to remove it, or one that did not end with success.                 *)

\* A process with a temporary file is between these.
Holding == {"copy", "decompress", "decode", "unlink", "error"}

Labels == {"open", "search", "list", "entry"} \union Holding \union Ended

\* Where a process stands: with a temporary file of its slot, or without success.
Answers(p, s) == (pc[p] \in Holding /\ slot(p) = s) \/ pc[p] \in {"failed", "crashed"}

\* The processes go on with the calls and the archives that they were given.
GivenBy(scenario) ==
  \A p \in Proc : call[p] = scenario[p].call /\ archive[p] = scenario[p].archive

NamesInv ==
  /\ \E scenario \in Scenarios : GivenBy(scenario)
  /\ pc \in [Proc -> Labels]
  /\ index \in [Proc -> Nat]
  /\ DOMAIN name = Slot
  /\ \A s \in Slot : name[s] # NoInode => \E p \in Proc : Answers(p, s)

\* The calls that there are.
LEMMA Calls ==
  ASSUME NEW scenario \in Scenarios, GivenBy(scenario), NEW p \in Proc
  PROVE  /\ call[p].mode \in {"all", "one", "list"}
         /\ call[p].mode = "one" => call[p].path \in Member
         /\ num_files(p) \in Member
         /\ Len(entries(p)) \in 0 .. num_files(p)
<1>1. scenario[p] \in Jobs /\ call[p] = scenario[p].call /\ archive[p] = scenario[p].archive
  BY ArchiveAssumption DEF GivenBy
<1> QED BY <1>1, ArchiveAssumption DEF num_files, entries

\* A step that leaves the names and the slot of every process with a file.
LEMMA NamesStay ==
  ASSUME NamesInv, NEW p \in Proc, UNCHANGED <<name, call, archive>>,
         index' \in [Proc -> Nat], \A q \in Proc \ {p} : index'[q] = index[q],
         NEW label \in Labels, pc' = [pc EXCEPT ![p] = label],
         pc[p] \in {"failed", "crashed"} => label \in {"failed", "crashed"},
         pc[p] \in Holding =>
           label \in {"failed", "crashed"} \/ (label \in Holding /\ index'[p] = index[p])
  PROVE  NamesInv'
<1>1. /\ pc' \in [Proc -> Labels] /\ DOMAIN name' = Slot
      /\ \E scenario \in Scenarios : GivenBy(scenario)'
  BY DEF NamesInv, GivenBy
<1>2. ASSUME NEW q \in Proc, NEW s \in Slot, Answers(q, s)
      PROVE  Answers(q, s)'
  <2>1. CASE q = p
    BY <1>2, <2>1 DEF Answers, slot, NamesInv
  <2>2. CASE q # p
    BY <1>2, <2>2 DEF Answers, slot, NamesInv
  <2> QED BY <2>1, <2>2
<1> QED BY <1>1, <1>2 DEF NamesInv

\* Every step of a process, and what it does to the names.
LEMMA NamesStep ==
  ASSUME NamesInv, NEW p \in Proc, Step(p)
  PROVE  NamesInv'
<1> USE DEF Labels, Holding, Ended
<1>1. CASE OpenArchive(p)
  <2>1. PICK label \in {"entry", "search", "list", "failed"} : pc' = [pc EXCEPT ![p] = label]
    BY <1>1, Calls DEF OpenArchive, Goto, NamesInv
  <2> QED BY <1>1, <2>1, NamesStay DEF OpenArchive, NamesInv
<1>2. CASE Search(p)
  <2>1. \/ pc' = [pc EXCEPT ![p] = "failed"] /\ UNCHANGED index
        \/ pc' = [pc EXCEPT ![p] = "entry"] /\ UNCHANGED index
        \/ pc' = [pc EXCEPT ![p] = "search"] /\ index' = [index EXCEPT ![p] = @ + 1]
    BY <1>2 DEF Search, Goto, NamesInv
  <2>2. pc[p] = "search" /\ UNCHANGED <<name, call, archive>>
    BY <1>2 DEF Search
  <2> QED BY <2>1, <2>2, NamesStay DEF NamesInv
<1>3. CASE ListEntry(p)
  <2>1. \/ pc' = [pc EXCEPT ![p] = "failed"] /\ UNCHANGED index
        \/ pc' = [pc EXCEPT ![p] = "done"] /\ UNCHANGED index
        \/ pc' = [pc EXCEPT ![p] = "list"] /\ index' = [index EXCEPT ![p] = @ + 1]
    BY <1>3 DEF ListEntry, Goto, NamesInv
  <2>2. pc[p] = "list" /\ UNCHANGED <<name, call, archive>>
    BY <1>3 DEF ListEntry
  <2> QED BY <2>1, <2>2, NamesStay DEF NamesInv
<1>4. CASE ReturnAll(p)
  BY <1>4, NamesStay DEF ReturnAll, Goto, NamesInv
<1>5. CASE OpenTemp(p)
  <2>1. /\ name' = [name EXCEPT ![slot(p)] = Opened(p)]
        /\ pc' = [pc EXCEPT ![p] = "copy"] /\ pc[p] = "entry" /\ UNCHANGED <<call, archive, index>>
    BY <1>5 DEF OpenTemp, Goto
  <2>2. ASSUME NEW s \in Slot, name'[s] # NoInode
        PROVE  \E q \in Proc : Answers(q, s)'
    <3>1. CASE s = slot(p)
      BY <2>1, <3>1 DEF NamesInv, Answers, slot
    <3>2. CASE s # slot(p)
      <4>1. PICK q \in Proc : Answers(q, s)
        BY <2>1, <2>2, <3>2 DEF NamesInv
      <4>2. q # p
        BY <2>1, <4>1 DEF Answers
      <4> QED BY <2>1, <4>1, <4>2 DEF Answers, slot, NamesInv
    <3> QED BY <3>1, <3>2
  <2> QED BY <2>1, <2>2 DEF NamesInv, GivenBy
<1>6. CASE OpenTempFails(p)
  <2>1. \/ pc' = [pc EXCEPT ![p] = "failed"] /\ UNCHANGED index
        \/ pc' = [pc EXCEPT ![p] = "entry"] /\ index' = [index EXCEPT ![p] = @ + 1]
    BY <1>6 DEF OpenTempFails, Goto, NamesInv
  <2>2. pc[p] = "entry" /\ UNCHANGED <<name, call, archive>>
    BY <1>6 DEF OpenTempFails
  <2> QED BY <2>1, <2>2, NamesStay DEF NamesInv
<1>7. CASE CopyBlock(p)
  <2>1. pc' = [pc EXCEPT ![p] = "copy"]
    BY <1>7 DEF CopyBlock, NamesInv
  <2> QED BY <1>7, <2>1, NamesStay DEF CopyBlock, NamesInv
<1>8. CASE CopyEnds(p)
  BY <1>8, NamesStay DEF CopyEnds, Goto, NamesInv
<1>9. CASE CopyFails(p)
  <2>1. PICK label \in {"decompress", "failed"} : pc' = [pc EXCEPT ![p] = label]
    BY <1>9 DEF CopyFails, Goto
  <2> QED BY <1>9, <2>1, NamesStay DEF CopyFails, NamesInv
<1>10. CASE OpenInput(p)
  BY <1>10, NamesStay DEF OpenInput, Goto, NamesInv
<1>11. CASE OpenInputFails(p)
  BY <1>11, NamesStay DEF OpenInputFails, Goto, NamesInv
<1>12. CASE Decode(p)
  <2>1. PICK label \in {"unlink", "error"} : pc' = [pc EXCEPT ![p] = label]
    BY <1>12 DEF Decode, Goto
  <2> QED BY <1>12, <2>1, NamesStay DEF Decode, NamesInv
<1>13. CASE DecodeCrashes(p)
  BY <1>13, NamesStay DEF DecodeCrashes, Goto, NamesInv
<1>14. CASE DecodeFails(p)
  BY <1>14, NamesStay DEF DecodeFails, Goto, NamesInv
<1>15. CASE Unlink(p)
  <2>1. PICK label \in {"entry", "failed", "done"} : pc' = [pc EXCEPT ![p] = label]
    BY <1>15 DEF Unlink, Goto, AfterError
  <2>2. /\ name' = [name EXCEPT ![slot(p)] = NoInode]
        /\ pc[p] \in {"unlink", "error"} /\ UNCHANGED <<call, archive>>
        /\ UNCHANGED index \/ index' = [index EXCEPT ![p] = index[p] + 1]
    BY <1>15 DEF Unlink, NameAfter, NextIndex
  <2>3. index' \in [Proc -> Nat] /\ \A q \in Proc \ {p} : index'[q] = index[q]
    BY <2>2 DEF NamesInv
  <2>4. ASSUME NEW s \in Slot, name'[s] # NoInode
        PROVE  \E q \in Proc : Answers(q, s)'
    <3>1. s # slot(p) /\ name[s] # NoInode
      BY <2>2, <2>4 DEF NamesInv
    <3>2. PICK q \in Proc : Answers(q, s)
      BY <3>1 DEF NamesInv
    <3>3. q # p
      BY <2>2, <3>1, <3>2 DEF Answers
    <3> QED BY <2>1, <2>2, <2>3, <3>2, <3>3 DEF Answers, slot, NamesInv
  <2> QED BY <2>1, <2>2, <2>3, <2>4 DEF NamesInv, GivenBy
<1> QED BY <1>1, <1>2, <1>3, <1>4, <1>5, <1>6, <1>7, <1>8, <1>9, <1>10, <1>11, <1>12, <1>13, <1>14,
           <1>15 DEF Step

\* Before any call begins there are no temporary files.
LEMMA NamesInit == Init => NamesInv
BY DEF Init, NamesInv, GivenBy, Labels, NoInode

\* A name in /tmp belongs to a process that removes it, or that has failed.
THEOREM NamesInvariant == Spec => []NamesInv
<1>1. NamesInv /\ [Next]_vars => NamesInv'
  <2> SUFFICES ASSUME NamesInv, [Next]_vars
               PROVE  NamesInv'
    OBVIOUS
  <2>1. CASE \E p \in Proc : Step(p)
    BY <2>1, NamesStep
  <2>2. CASE UNCHANGED vars
    BY <2>2 DEF vars, procVars, NamesInv, GivenBy, Answers, slot
  <2> QED BY <2>1, <2>2 DEF Next, Terminated
<1> QED BY <1>1, NamesInit, PTL DEF Spec

\* When every call has returned with success nothing is left in /tmp, for any
\* number of processes and members, and whatever each could not restore.
THEOREM NothingIsLeft == Spec => []NoTempLeft
<1>1. NamesInv => NoTempLeft
  BY DEF NamesInv, NoTempLeft, Answers, Holding
<1> QED BY <1>1, NamesInvariant, PTL

-----------------------------------------------------------------------------
(* What is restored is the member of that name: whatever two processes write *)
(* into a temporary file, its first block is a header of the member that     *)
(* they both extract, or none.                                               *)

ConsistentScenarios == \A scenario \in Scenarios : Consistent(scenario)

Types ==
  /\ index \in [Proc -> Nat \ {0}]
  /\ fd \in [Proc -> Inode \union {NoInode}] /\ input \in [Proc -> Inode \union {NoInode}]
  /\ pos \in [Proc -> Nat] /\ mapped \in [Proc -> Nat]
  /\ name \in [Slot -> Inode \union {NoInode}]
  /\ content \in [Inode -> Seq(Block)]
  /\ output \in [Proc -> [Member -> Member \union {Absent, Garbled}]]

\* The entry that a process is extracting, in a temporary file of its slot.
AtEntry(p) ==
  /\ index[p] \in DOMAIN entries(p)
  /\ call[p].mode \in {"all", "one"}
  /\ call[p].mode = "one" => Current(p).path = call[p].path

EntryKnown(p) ==
  /\ pc[p] = "search" => call[p].mode = "one"
  /\ pc[p] = "entry" => IF call[p].mode = "all" THEN Len(entries(p)) = num_files(p) ELSE AtEntry(p)
  /\ pc[p] \in Holding =>
       AtEntry(p) /\ (call[p].mode = "all" => Len(entries(p)) = num_files(p))
  /\ pc[p] = "copy" => fd[p] \in Inode /\ fd[p][2] = slot(p)
  /\ pc[p] = "decode" => input[p] \in Inode /\ input[p][2] = slot(p)

EntryInv == \A p \in Proc : EntryKnown(p)

SlotInv == \A s \in Slot : name[s] # NoInode => name[s] \in Inode /\ name[s][2] = s

\* Process p extracts member m through slot s.
Extracts(p, m, s) == m \in PutsInto(call[p], archive[p], s)

FirstInv ==
  \A n \in Inode, m \in Member :
    content[n] # <<>> /\ content[n][1] = HufHeader(m) => \E p \in Proc : Extracts(p, m, n[2])

MemberInv == NamesInv /\ Types /\ EntryInv /\ SlotInv /\ FirstInv /\ OutputIsTheMember

\* What is assumed of the archives and of calls that run at the same time.
LEMMA Given ==
  ASSUME ConsistentScenarios, NamesInv
  PROVE  /\ \A p \in Proc : Sound(archive[p])
         /\ \A p, q \in Proc, s \in Slot, m, n \in Member :
              Extracts(p, m, s) /\ Extracts(q, n, s) => m = n
         /\ \A p \in Proc : /\ call[p].mode \in {"all", "one", "list"}
                            /\ num_files(p) \in Member
                            /\ Len(entries(p)) \in 0 .. num_files(p)
<1>1. PICK scenario \in Scenarios : GivenBy(scenario)
  BY DEF NamesInv
<1>2. Consistent(scenario)
  BY DEF ConsistentScenarios
<1>3. \A p \in Proc : Sound(archive[p])
  BY <1>1, <1>2 DEF Consistent, GivenBy
<1>4. \A p, q \in Proc, s \in Slot, m, n \in Member :
        Extracts(p, m, s) /\ Extracts(q, n, s) => m = n
  BY <1>1, <1>2 DEF Consistent, Agree, GivenBy, Extracts
<1> QED BY <1>1, <1>3, <1>4, Calls

\* The entry of a process: what it is made of, and through which slot it goes.
LEMMA EntryFacts ==
  ASSUME ConsistentScenarios, MemberInv, NEW p \in Proc, AtEntry(p)
  PROVE  /\ Current(p).path \in Member \union {NoPath}
         /\ Current(p).compressed_size \in Nat /\ Current(p).data_offset \in Nat
         /\ archive[p].data \in Seq(Block)
         /\ \A m \in Member : Current(p).data_offset \in 1 .. Len(archive[p].data)
                              /\ archive[p].data[Current(p).data_offset] = HufHeader(m)
                              => m = Current(p).path
         /\ slot(p) \in Slot
         /\ Current(p).path \in Member => Extracts(p, Current(p).path, slot(p))
         /\ call[p].mode = "all" => slot(p) = index[p] /\ index[p] \in Member
         /\ call[p].mode # "all" => slot(p) = 0
<1>1. Sound(archive[p]) /\ num_files(p) \in Member /\ Len(entries(p)) \in 0 .. num_files(p)
  BY Given DEF MemberInv
<1>2. entries(p) \in Seq(EntryOf) /\ archive[p].data \in Seq(Block)
  BY <1>1 DEF Sound, entries
<1>3. index[p] \in 1 .. Len(entries(p)) /\ DOMAIN archive[p].data = 1 .. Len(archive[p].data)
  BY <1>2 DEF AtEntry
<1>4. Current(p) \in EntryOf
  BY <1>2, <1>3 DEF Current
<1>5. \A m \in Member : Current(p).data_offset \in 1 .. Len(archive[p].data)
                        /\ archive[p].data[Current(p).data_offset] = HufHeader(m)
                        => m = Current(p).path
  BY <1>1, <1>3 DEF Sound, AtEntry, Current, entries
<1>6. index[p] \in Member
  BY <1>1, <1>3, ArchiveAssumption DEF Member
<1>7. slot(p) \in Slot /\ (call[p].mode = "all" => slot(p) = index[p]) /\ (call[p].mode # "all" => slot(p) = 0)
  BY <1>6, ArchiveAssumption DEF slot, Slot, Member
<1>8. Current(p).path \in Member => Extracts(p, Current(p).path, slot(p))
  BY DEF AtEntry, Extracts, PutsInto, slot, Current, entries
<1> QED BY <1>2, <1>4, <1>5, <1>6, <1>7, <1>8 DEF EntryOf

\* A block written into a file.
LEMMA WriteAtFacts ==
  ASSUME NEW s \in Seq(Block), NEW k \in Nat \ {0}, NEW b \in Block
  PROVE  /\ WriteAt(s, k, b) \in Seq(Block)
         /\ WriteAt(s, k, b) # <<>>
         /\ WriteAt(s, k, b)[1] = IF k = 1 THEN b ELSE IF Len(s) > 0 THEN s[1] ELSE Torn
         /\ k = Len(s) + 1 => WriteAt(s, k, b) = Append(s, b)
<1> DEFINE n == IF k > Len(s) THEN k ELSE Len(s)
           t == WriteAt(s, k, b)
<1>1. n \in Nat \ {0} /\ Torn \in Block
  BY DEF Torn, Block
<1>2. t = [j \in 1 .. n |-> IF j = k THEN b ELSE IF j <= Len(s) THEN s[j] ELSE Torn]
  BY DEF WriteAt
<1>3. t \in [1 .. n -> Block]
  BY <1>1, <1>2
<1>4. t \in Seq(Block) /\ Len(t) = n
  BY <1>1, <1>3
<1>5. t[1] = IF k = 1 THEN b ELSE IF Len(s) > 0 THEN s[1] ELSE Torn
  <2>1. 1 \in 1 .. n
    BY <1>1
  <2> QED BY <1>2, <2>1
<1>6. k = Len(s) + 1 => t = Append(s, b)
  <2> SUFFICES ASSUME k = Len(s) + 1
               PROVE  t = Append(s, b)
    OBVIOUS
  <2>1. Append(s, b) \in Seq(Block) /\ Len(Append(s, b)) = n /\ n = k
    OBVIOUS
  <2>2. \A j \in 1 .. n : t[j] = Append(s, b)[j]
    BY <1>2, <2>1
  <2> HIDE DEF n, t
  <2> QED BY <1>4, <2>1, <2>2, SeqEqual
<1> QED BY <1>1, <1>4, <1>5, <1>6

\* A step of one process leaves what is known of the others.
LEMMA MemberFrame ==
  ASSUME MemberInv, NEW p \in Proc, NamesInv', Types', SlotInv', OutputIsTheMember', EntryKnown(p)',
         UNCHANGED <<call, archive>>,
         \A q \in Proc \ {p} : /\ pc'[q] = pc[q] /\ index'[q] = index[q]
                               /\ fd'[q] = fd[q] /\ input'[q] = input[q],
         \A n \in Inode, m \in Member :
           content'[n] # <<>> /\ content'[n][1] = HufHeader(m) =>
             \/ content[n] # <<>> /\ content[n][1] = HufHeader(m)
             \/ Extracts(p, m, n[2])
  PROVE  MemberInv'
<1>1. EntryInv'
  <2> SUFFICES ASSUME NEW q \in Proc
               PROVE  EntryKnown(q)'
    BY DEF EntryInv
  <2>1. CASE q = p
    BY <2>1
  <2>2. CASE q # p
    BY <2>2 DEF MemberInv, EntryInv, EntryKnown, AtEntry, Current, entries, num_files, slot
  <2> QED BY <2>1, <2>2
<1>2. \A q \in Proc, m \in Member : \A s : Extracts(q, m, s)' <=> Extracts(q, m, s)
  BY DEF Extracts
<1>3. FirstInv'
  BY <1>2 DEF MemberInv, FirstInv
<1> QED BY <1>1, <1>3 DEF MemberInv

\* Steps that only move a process on: to another label, another entry, or both.
LEMMA MovesOn ==
  ASSUME MemberInv, NEW p \in Proc, NamesInv',
         UNCHANGED <<call, archive, fd, pos, input, mapped, name, content, output>>,
         NEW label \in Labels, pc' = [pc EXCEPT ![p] = label],
         NEW i \in Nat \ {0}, index' = [index EXCEPT ![p] = i],
         EntryKnown(p)'
  PROVE  MemberInv'
<1>1. index \in [Proc -> Nat \ {0}] /\ pc \in [Proc -> Labels]
  BY DEF MemberInv, Types, NamesInv
<1>2. Types'
  BY <1>1 DEF MemberInv, Types
<1>3. SlotInv' /\ OutputIsTheMember'
  BY DEF MemberInv, SlotInv, OutputIsTheMember
<1> QED BY <1>1, <1>2, <1>3, MemberFrame

\* The index of a process that stays with its entry.
LEMMA SameIndex ==
  ASSUME MemberInv, NEW p \in Proc
  PROVE  index[p] \in Nat \ {0} /\ index = [index EXCEPT ![p] = index[p]] /\ pc \in [Proc -> Labels]
BY DEF MemberInv, Types, NamesInv

\* The archive is opened and searched, or read through.
LEMMA SearchStep ==
  ASSUME ConsistentScenarios, MemberInv, NEW p \in Proc, NamesInv',
         OpenArchive(p) \/ Search(p) \/ ListEntry(p) \/ ReturnAll(p) \/ OpenTempFails(p)
  PROVE  MemberInv'
<1> USE SameIndex DEF Labels, Holding, Ended
<1>1. CASE OpenArchive(p)
  <2>1. PICK label \in {"entry", "search", "list", "failed"} :
          /\ pc' = [pc EXCEPT ![p] = label]
          /\ label = "entry" => call[p].mode = "all" /\ Len(entries(p)) = num_files(p)
          /\ label = "search" => call[p].mode = "one"
    BY <1>1, Given DEF OpenArchive, Goto, MemberInv
  <2>2. UNCHANGED <<call, archive, index, fd, pos, input, mapped, name, content, output>>
    BY <1>1 DEF OpenArchive
  <2>3. EntryKnown(p)'
    BY <2>1, <2>2 DEF EntryKnown, entries, num_files
  <2> QED BY <2>1, <2>2, <2>3, MovesOn
<1>2. CASE Search(p)
  <2>1. UNCHANGED <<call, archive, fd, pos, input, mapped, name, content, output>> /\ pc[p] = "search"
    BY <1>2 DEF Search
  <2>2. call[p].mode = "one" /\ Len(entries(p)) \in Nat
    BY <2>1, Given DEF MemberInv, EntryInv, EntryKnown
  <2>3. CASE pc' = [pc EXCEPT ![p] = "failed"] /\ UNCHANGED index
    <3>1. EntryKnown(p)'
      BY <2>3 DEF EntryKnown
    <3> QED BY <2>1, <2>3, <3>1, MovesOn
  <2>4. CASE /\ pc' = [pc EXCEPT ![p] = "entry"] /\ UNCHANGED index
             /\ index[p] <= Len(entries(p)) /\ Current(p).path = call[p].path
    <3>1. AtEntry(p)
      <4>1. entries(p) \in Seq(EntryOf)
        BY Given DEF MemberInv, Sound, entries
      <4> QED BY <2>2, <2>4, <4>1 DEF AtEntry
    <3>2. EntryKnown(p)'
      BY <2>1, <2>2, <2>4, <3>1 DEF EntryKnown, AtEntry, Current, entries
    <3> QED BY <2>1, <2>4, <3>2, MovesOn
  <2>5. CASE index' = [index EXCEPT ![p] = @ + 1] /\ UNCHANGED pc
    <3>1. EntryKnown(p)'
      BY <2>1, <2>2, <2>5 DEF EntryKnown
    <3>2. index[p] + 1 \in Nat \ {0} /\ pc' = [pc EXCEPT ![p] = "search"]
      BY <2>1, <2>5
    <3> QED BY <2>1, <2>5, <3>1, <3>2, MovesOn
  <2> QED BY <1>2, <2>2, <2>3, <2>4, <2>5 DEF Search, Goto
<1>3. CASE ListEntry(p)
  <2>1. UNCHANGED <<call, archive, fd, pos, input, mapped, name, content, output>> /\ pc[p] = "list"
    BY <1>3 DEF ListEntry
  <2>2. PICK label \in {"failed", "done", "list"}, i \in {index[p], index[p] + 1} :
          pc' = [pc EXCEPT ![p] = label] /\ index' = [index EXCEPT ![p] = i]
    BY <1>3, <2>1 DEF ListEntry, Goto
  <2>3. i \in Nat \ {0}
    OBVIOUS
  <2>4. EntryKnown(p)'
    BY <2>2 DEF EntryKnown
  <2> QED BY <2>1, <2>2, <2>3, <2>4, MovesOn
<1>4. CASE ReturnAll(p)
  <2>1. UNCHANGED <<call, archive, index, fd, pos, input, mapped, name, content, output>>
    BY <1>4 DEF ReturnAll
  <2>2. pc' = [pc EXCEPT ![p] = "done"]
    BY <1>4 DEF ReturnAll, Goto
  <2>3. EntryKnown(p)'
    BY <2>2 DEF EntryKnown
  <2> QED BY <2>1, <2>2, <2>3, MovesOn
<1>5. CASE OpenTempFails(p)
  <2>1. UNCHANGED <<call, archive, fd, pos, input, mapped, name, content, output>> /\ pc[p] = "entry"
    BY <1>5 DEF OpenTempFails
  <2>2. CASE pc' = [pc EXCEPT ![p] = "failed"] /\ UNCHANGED index
    <3>1. EntryKnown(p)'
      BY <2>2 DEF EntryKnown
    <3> QED BY <2>1, <2>2, <3>1, MovesOn
  <2>3. CASE index' = [index EXCEPT ![p] = @ + 1] /\ UNCHANGED pc /\ call[p].mode = "all"
    <3>1. EntryKnown(p)'
      BY <2>1, <2>3 DEF MemberInv, EntryInv, EntryKnown, entries, num_files
    <3>2. index[p] + 1 \in Nat \ {0} /\ pc' = [pc EXCEPT ![p] = "entry"]
      BY <2>1, <2>3
    <3> QED BY <2>1, <2>3, <3>1, <3>2, MovesOn
  <2> QED BY <1>5, <2>2, <2>3 DEF OpenTempFails, Goto
<1> QED BY <1>1, <1>2, <1>3, <1>4, <1>5

\* Copying or restoring ends, with success or not.
LEMMA PhaseEndsStep ==
  ASSUME MemberInv, NEW p \in Proc, NamesInv',
         CopyEnds(p) \/ CopyFails(p) \/ OpenInputFails(p) \/ DecodeCrashes(p) \/ DecodeFails(p)
  PROVE  MemberInv'
<1> USE SameIndex DEF Labels, Holding, Ended
<1>1. /\ UNCHANGED <<call, archive, index, fd, pos, input, mapped, name, content, output>>
      /\ pc[p] \in {"copy", "decompress", "decode"}
  BY DEF CopyEnds, CopyFails, OpenInputFails, DecodeCrashes, DecodeFails
<1>2. PICK label \in {"decompress", "failed", "error", "crashed"} : pc' = [pc EXCEPT ![p] = label]
  BY DEF CopyEnds, CopyFails, OpenInputFails, DecodeCrashes, DecodeFails, Goto
<1>3. EntryKnown(p)'
  BY <1>1, <1>2 DEF MemberInv, EntryInv, EntryKnown, AtEntry, Current, entries, num_files
<1> QED BY <1>1, <1>2, <1>3, MovesOn

\* A temporary file of the slot is created, or emptied.
LEMMA OpenTempStep ==
  ASSUME ConsistentScenarios, MemberInv, NEW p \in Proc, NamesInv', OpenTemp(p)
  PROVE  MemberInv'
<1> DEFINE n == Opened(p)
<1>1. /\ pc[p] = "entry" /\ ~EndOfTable(p) /\ pc' = [pc EXCEPT ![p] = "copy"]
      /\ name' = [name EXCEPT ![slot(p)] = n] /\ content' = [content EXCEPT ![n] = <<>>]
      /\ fd' = [fd EXCEPT ![p] = n] /\ pos' = [pos EXCEPT ![p] = 0]
      /\ UNCHANGED <<call, archive, index, input, mapped, output>>
  BY DEF OpenTemp, Goto
<1>2. /\ call[p].mode \in {"all", "one", "list"} /\ num_files(p) \in Member
      /\ entries(p) \in Seq(EntryOf) /\ index[p] \in Nat \ {0} /\ pc \in [Proc -> Labels]
  BY Given, SameIndex DEF MemberInv, Sound, entries
<1>3. AtEntry(p) /\ (call[p].mode = "all" => Len(entries(p)) = num_files(p))
  <2>1. CASE call[p].mode = "all"
    <3>1. Len(entries(p)) = num_files(p) /\ index[p] <= num_files(p)
      BY <1>1, <1>2, <2>1, ArchiveAssumption DEF MemberInv, EntryInv, EntryKnown, EndOfTable, Member
    <3> QED BY <1>2, <2>1, <3>1 DEF AtEntry
  <2>2. CASE call[p].mode # "all"
    BY <1>1, <2>2 DEF MemberInv, EntryInv, EntryKnown
  <2> QED BY <2>1, <2>2
<1>4. slot(p) \in Slot
  BY <1>3, EntryFacts
<1>5. n \in Inode /\ n[2] = slot(p)
  BY <1>4 DEF Opened, MemberInv, SlotInv, Inode
<1> HIDE DEF n
<1>6. Types'
  <2>1. content' \in [Inode -> Seq(Block)]
    BY <1>1, <1>5 DEF MemberInv, Types
  <2>2. name' \in [Slot -> Inode \union {NoInode}] /\ fd' \in [Proc -> Inode \union {NoInode}]
    BY <1>1, <1>5 DEF MemberInv, Types
  <2>3. pos' \in [Proc -> Nat]
    BY <1>1 DEF MemberInv, Types
  <2> QED BY <1>1, <2>1, <2>2, <2>3 DEF MemberInv, Types
<1>7. SlotInv'
  BY <1>1, <1>5 DEF MemberInv, Types, SlotInv
<1>8. OutputIsTheMember'
  BY <1>1 DEF MemberInv, OutputIsTheMember
<1>9. EntryKnown(p)'
  BY <1>1, <1>2, <1>3, <1>5
     DEF EntryKnown, AtEntry, Current, entries, num_files, slot, MemberInv, Types, Holding
<1>10. \A i \in Inode : content'[i] = content[i] \/ content'[i] = <<>>
  BY <1>1 DEF MemberInv, Types
<1>11. \A q \in Proc \ {p} : pc'[q] = pc[q] /\ index'[q] = index[q] /\ fd'[q] = fd[q] /\ input'[q] = input[q]
  BY <1>1, <1>2 DEF MemberInv, Types
<1> QED BY <1>1, <1>6, <1>7, <1>8, <1>9, <1>10, <1>11, MemberFrame

\* A block of the archive is written into the temporary file.
LEMMA CopyBlockStep ==
  ASSUME ConsistentScenarios, MemberInv, NEW p \in Proc, NamesInv', CopyBlock(p)
  PROVE  MemberInv'
<1> DEFINE n == fd[p]
           b == NextBlock(p)
           k == pos[p] + 1
           o == Current(p).data_offset
           data == archive[p].data
<1>1. /\ pc[p] = "copy" /\ pos[p] < Current(p).compressed_size /\ ~AtEnd(p)
      /\ content' = [content EXCEPT ![n] = WriteAt(content[n], k, b)]
      /\ pos' = [pos EXCEPT ![p] = k]
      /\ UNCHANGED <<pc, call, archive, index, fd, input, mapped, name, output>>
  BY DEF CopyBlock
<1>2. AtEntry(p) /\ n \in Inode /\ n[2] = slot(p)
  BY <1>1 DEF MemberInv, EntryInv, EntryKnown, Holding
<1>3. /\ o \in Nat /\ pos[p] \in Nat /\ data \in Seq(Block) /\ content[n] \in Seq(Block)
      /\ o + pos[p] <= Len(data)
  BY <1>1, <1>2, EntryFacts DEF MemberInv, Types, AtEnd, SeekOffset
<1>4. b = IF o + pos[p] = 0 THEN Torn ELSE data[o + pos[p]]
  BY DEF NextBlock, SeekOffset
<1>5. b \in Block
  <2>1. CASE o + pos[p] = 0
    BY <1>4, <2>1 DEF Torn, Block
  <2>2. CASE o + pos[p] # 0
    <3>1. o + pos[p] \in 1 .. Len(data)
      BY <1>3, <2>2
    <3> QED BY <1>3, <1>4, <2>2, <3>1, ElementOfSeq
  <2> QED BY <2>1, <2>2
<1>6. /\ WriteAt(content[n], k, b) \in Seq(Block)
      /\ WriteAt(content[n], k, b)[1] = IF k = 1 THEN b
                                        ELSE IF Len(content[n]) > 0 THEN content[n][1] ELSE Torn
  <2>1. k \in Nat \ {0}
    BY <1>3
  <2>2. content[n] \in Seq(Block)
    BY <1>3
  <2> HIDE DEF k, b, n
  <2> QED BY <1>5, <2>1, <2>2, WriteAtFacts
<1>7. \A m \in Member : Torn # HufHeader(m)
  BY DEF Torn, HufHeader
<1>8. \A m \in Member : k = 1 /\ b = HufHeader(m) => Extracts(p, m, n[2])
  <2> SUFFICES ASSUME NEW m \in Member, k = 1, b = HufHeader(m)
               PROVE  Extracts(p, m, n[2])
    OBVIOUS
  <2>1. o \in 1 .. Len(data) /\ data[o] = HufHeader(m)
    <3>1. pos[p] = 0 /\ o + pos[p] = o
      BY <1>3
    <3> HIDE DEF o, data, b
    <3>2. o # 0
      BY <1>4, <1>7, <3>1
    <3> QED BY <1>3, <1>4, <3>1, <3>2
  <2>2. m = Current(p).path
    BY <1>2, <2>1, EntryFacts
  <2> QED BY <1>2, <2>2, EntryFacts
<1>9. \A i \in Inode, m \in Member :
        content'[i] # <<>> /\ content'[i][1] = HufHeader(m) =>
          \/ content[i] # <<>> /\ content[i][1] = HufHeader(m)
          \/ Extracts(p, m, i[2])
  <2> SUFFICES ASSUME NEW i \in Inode, NEW m \in Member, content'[i] # <<>>, content'[i][1] = HufHeader(m)
               PROVE  \/ content[i] # <<>> /\ content[i][1] = HufHeader(m)
                      \/ Extracts(p, m, i[2])
    OBVIOUS
  <2>1. CASE i = n
    <3>1. content'[i] = WriteAt(content[n], k, b)
      BY <1>1, <2>1 DEF MemberInv, Types
    <3>2. k # 1 => Len(content[n]) > 0 /\ content[n][1] = HufHeader(m)
      <4> HIDE DEF k, b
      <4> QED BY <1>6, <1>7, <3>1
    <3>3. Len(content[n]) > 0 => content[n] # <<>>
      BY <1>3
    <3>4. k = 1 => b = HufHeader(m)
      <4> HIDE DEF k, b
      <4> QED BY <1>6, <3>1
    <3> QED BY <1>8, <2>1, <3>2, <3>3, <3>4
  <2>2. CASE i # n
    BY <1>1, <2>2 DEF MemberInv, Types
  <2> QED BY <2>1, <2>2
<1>10. Types'
  <2>1. k \in Nat
    BY <1>3
  <2> HIDE DEF k, b, n
  <2> QED BY <1>1, <1>6, <2>1 DEF MemberInv, Types
<1> HIDE DEF k, b, n
<1>11. SlotInv' /\ OutputIsTheMember'
  BY <1>1 DEF MemberInv, SlotInv, OutputIsTheMember
<1>12. EntryKnown(p)'
  BY <1>1 DEF MemberInv, EntryInv, EntryKnown, AtEntry, Current, entries, num_files, slot
<1> QED BY <1>1, <1>9, <1>10, <1>11, <1>12, MemberFrame

\* The file that has the name of the slot is mapped, and the output created.
LEMMA OpenInputStep ==
  ASSUME ConsistentScenarios, MemberInv, NEW p \in Proc, NamesInv', OpenInput(p)
  PROVE  MemberInv'
<1> DEFINE n == name[slot(p)]
           i == Current(p).path
<1>1. /\ pc[p] = "decompress" /\ n # NoInode
      /\ input' = [input EXCEPT ![p] = n] /\ mapped' = [mapped EXCEPT ![p] = Len(content[n])]
      /\ output' = [output EXCEPT ![p][i] = Garbled]
      /\ pc' = [pc EXCEPT ![p] = "decode"]
      /\ UNCHANGED <<call, archive, index, fd, pos, name, content>>
  BY DEF OpenInput, Goto
<1>2. AtEntry(p)
  BY <1>1 DEF MemberInv, EntryInv, EntryKnown, Holding
<1>3. slot(p) \in Slot
  BY <1>2, EntryFacts
<1>4. n \in Inode /\ n[2] = slot(p)
  BY <1>1, <1>3 DEF MemberInv, SlotInv
<1>5. content[n] \in Seq(Block) /\ Len(content[n]) \in Nat
  BY <1>4 DEF MemberInv, Types
<1> HIDE DEF n
<1>6. output' \in [Proc -> [Member -> Member \union {Absent, Garbled}]]
  BY <1>1 DEF MemberInv, Types
<1>7. Types'
  BY <1>1, <1>4, <1>5, <1>6 DEF MemberInv, Types
<1>8. SlotInv'
  BY <1>1 DEF MemberInv, SlotInv
<1>9. OutputIsTheMember'
  BY <1>1 DEF MemberInv, Types, OutputIsTheMember
<1>10. EntryKnown(p)'
  BY <1>1, <1>2, <1>4, SameIndex
     DEF MemberInv, EntryInv, EntryKnown, AtEntry, Current, entries, num_files, slot, Types, Holding
<1>11. \A q \in Proc \ {p} : pc'[q] = pc[q] /\ index'[q] = index[q] /\ fd'[q] = fd[q] /\ input'[q] = input[q]
  BY <1>1, SameIndex DEF MemberInv, Types
<1> QED BY <1>1, <1>7, <1>8, <1>9, <1>10, <1>11, MemberFrame

\* Files of which a beginning is a member in full begin with its header.
LEMMA WholeBegins ==
  ASSUME NEW s \in Seq(Block), NEW k \in Nat, k <= Len(s), NEW m \in Whole(SubSeq(s, 1, k))
  PROVE  m \in Member /\ s # <<>> /\ s[1] = HufHeader(m)
<1> DEFINE t == SubSeq(s, 1, k)
           u == SubSeq(t, 1, Blocks[m])
<1>1. t \in Seq(Block) /\ Len(t) = k /\ \A j \in 1 .. k : t[j] = s[j]
  OBVIOUS
<1>2. m \in Member /\ Blocks[m] <= Len(t) /\ u = Huf(m, Blocks[m])
  BY DEF Whole
<1>3. Blocks[m] \in Nat /\ Blocks[m] >= 2
  BY <1>2, ArchiveAssumption
<1> HIDE DEF t
<1>4. u[1] = t[1] /\ 1 <= k
  BY <1>1, <1>2, <1>3
<1>5. Huf(m, Blocks[m])[1] = <<m, 1>>
  BY <1>3 DEF Huf
<1> HIDE DEF u
<1>6. 1 \in 1 .. k /\ Len(s) # 0
  BY <1>4
<1>7. s # <<>>
  BY <1>6
<1>8. t[1] = s[1]
  BY <1>1, <1>6
<1> QED BY <1>2, <1>4, <1>5, <1>7, <1>8 DEF HufHeader

\* A member is restored, or what is no member; a member that comes out is the one
\* that the process extracts.
LEMMA DecodeStep ==
  ASSUME ConsistentScenarios, MemberInv, NEW p \in Proc, NamesInv', Decode(p)
  PROVE  MemberInv'
<1> DEFINE s == content[input[p]]
           i == Current(p).path
<1>1. /\ pc[p] = "decode" /\ Len(s) >= mapped[p]
      /\ UNCHANGED <<call, archive, index, fd, pos, input, mapped, name, content>>
  BY DEF Decode
<1>2. PICK label \in {"unlink", "error"} :
        /\ pc' = [pc EXCEPT ![p] = label]
        /\ \/ \E m \in Whole(SubSeq(s, 1, mapped[p])) : output' = [output EXCEPT ![p][i] = m]
           \/ UNCHANGED output
  BY DEF Decode, Goto
<1>3. AtEntry(p) /\ input[p] \in Inode /\ input[p][2] = slot(p)
  BY <1>1 DEF MemberInv, EntryInv, EntryKnown, Holding
<1>4. s \in Seq(Block) /\ mapped[p] \in Nat /\ mapped[p] <= Len(s)
  BY <1>1, <1>3 DEF MemberInv, Types
<1>5. ASSUME NEW m \in Whole(SubSeq(s, 1, mapped[p])), i \in Member
      PROVE  m = i
  <2>1. m \in Member /\ s # <<>> /\ s[1] = HufHeader(m)
    BY <1>4, WholeBegins
  <2>2. PICK q \in Proc : Extracts(q, m, slot(p))
    BY <1>3, <2>1 DEF MemberInv, FirstInv
  <2>3. Extracts(p, i, slot(p)) /\ slot(p) \in Slot
    BY <1>3, <1>5, EntryFacts
  <2> QED BY <1>5, <2>1, <2>2, <2>3, Given DEF MemberInv
<1>6. \A m \in Whole(SubSeq(s, 1, mapped[p])) : m \in Member
  BY <1>4, WholeBegins
<1>7. output' \in [Proc -> [Member -> Member \union {Absent, Garbled}]] /\ OutputIsTheMember'
  <2>1. CASE UNCHANGED output
    BY <2>1 DEF MemberInv, Types, OutputIsTheMember
  <2>2. CASE \E m \in Whole(SubSeq(s, 1, mapped[p])) : output' = [output EXCEPT ![p][i] = m]
    <3>1. PICK m \in Whole(SubSeq(s, 1, mapped[p])) : output' = [output EXCEPT ![p][i] = m]
      BY <2>2
    <3>2. m \in Member /\ (i \in Member => m = i)
      BY <1>5, <1>6
    <3> HIDE DEF s, i
    <3>3. output' \in [Proc -> [Member -> Member \union {Absent, Garbled}]]
      BY <3>1, <3>2 DEF MemberInv, Types
    <3>4. OutputIsTheMember'
      BY <3>1, <3>2 DEF MemberInv, Types, OutputIsTheMember
    <3> QED BY <3>3, <3>4
  <2> QED BY <1>2, <2>1, <2>2
<1>8. Types' /\ SlotInv'
  BY <1>1, <1>7 DEF MemberInv, Types, SlotInv
<1>9. EntryKnown(p)'
  BY <1>1, <1>2, <1>3, SameIndex
     DEF MemberInv, EntryInv, EntryKnown, AtEntry, Current, entries, num_files, slot, Types, Holding
<1>10. \A q \in Proc \ {p} : pc'[q] = pc[q] /\ index'[q] = index[q] /\ fd'[q] = fd[q] /\ input'[q] = input[q]
  BY <1>1, <1>2, SameIndex DEF MemberInv, Types
<1> QED BY <1>1, <1>7, <1>8, <1>9, <1>10, MemberFrame

\* The name of the slot is removed.
LEMMA UnlinkStep ==
  ASSUME ConsistentScenarios, MemberInv, NEW p \in Proc, NamesInv', Unlink(p)
  PROVE  MemberInv'
<1>1. PICK label \in {"entry", "failed", "done"}, i \in {index[p], index[p] + 1} :
        /\ pc' = [pc EXCEPT ![p] = label] /\ index' = [index EXCEPT ![p] = i]
        /\ label = "entry" => call[p].mode = "all"
  BY SameIndex DEF Unlink, Goto, AfterError, NextIndex
<1>2. /\ pc[p] \in {"unlink", "error"} /\ name' = [name EXCEPT ![slot(p)] = NoInode]
      /\ UNCHANGED <<call, archive, fd, pos, input, mapped, content, output>>
  BY DEF Unlink, NameAfter
<1>3. i \in Nat \ {0}
  BY SameIndex
<1>4. Types'
  BY <1>1, <1>2, <1>3 DEF MemberInv, Types
<1>5. SlotInv' /\ OutputIsTheMember'
  BY <1>2 DEF MemberInv, Types, SlotInv, OutputIsTheMember
<1>6. EntryKnown(p)'
  BY <1>1, <1>2, SameIndex DEF MemberInv, EntryInv, EntryKnown, entries, num_files, Holding
<1>7. \A q \in Proc \ {p} : pc'[q] = pc[q] /\ index'[q] = index[q] /\ fd'[q] = fd[q] /\ input'[q] = input[q]
  BY <1>1, <1>2, SameIndex DEF MemberInv, Types
<1> QED BY <1>2, <1>4, <1>5, <1>6, <1>7, MemberFrame

\* Before the calls begin nothing has been written.
LEMMA MemberInit == Init => MemberInv
<1> SUFFICES ASSUME Init
             PROVE  MemberInv
  OBVIOUS
<1>1. NamesInv
  BY NamesInit
<1>2. Types
  BY DEF Init, Types
<1>3. EntryInv /\ SlotInv /\ FirstInv
  BY DEF Init, EntryInv, EntryKnown, SlotInv, FirstInv, Holding
<1>4. OutputIsTheMember
  BY DEF Init, OutputIsTheMember
<1> QED BY <1>1, <1>2, <1>3, <1>4 DEF MemberInv

\* Every step of a process keeps what is known of the files.
LEMMA MemberNext ==
  ASSUME ConsistentScenarios, MemberInv, [Next]_vars
  PROVE  MemberInv'
<1>1. CASE \E p \in Proc : Step(p)
  <2>1. PICK p \in Proc : Step(p)
    BY <1>1
  <2>2. NamesInv'
    BY <2>1, NamesStep DEF MemberInv
  <2> QED BY <2>1, <2>2, SearchStep, PhaseEndsStep, OpenTempStep, CopyBlockStep, OpenInputStep,
             DecodeStep, UnlinkStep DEF Step
<1>2. CASE UNCHANGED vars
  <2>1. UNCHANGED <<pc, call, archive, index, fd, pos, input, mapped, name, content, output>>
    BY <1>2 DEF vars, procVars
  <2>2. NamesInv' /\ Types' /\ SlotInv' /\ OutputIsTheMember'
    BY <2>1 DEF MemberInv, NamesInv, GivenBy, Answers, slot, Types, SlotInv, OutputIsTheMember
  <2>3. EntryInv'
    BY <2>1 DEF MemberInv, EntryInv, EntryKnown, AtEntry, Current, entries, num_files, slot
  <2>4. FirstInv'
    BY <2>1 DEF MemberInv, FirstInv, Extracts
  <2> QED BY <2>2, <2>3, <2>4 DEF MemberInv
<1> QED BY <1>1, <1>2 DEF Next, Terminated

\* However many calls share /tmp: when they agree on what goes through a slot and
\* the archives are sound, the files of a slot hold no other member.
THEOREM MemberInvariant ==
  ASSUME ConsistentScenarios
  PROVE  Spec => []MemberInv
<1>1. MemberInv /\ [Next]_vars => MemberInv'
  BY MemberNext
<1> QED BY <1>1, MemberInit, PTL DEF Spec

\* A file restored in full is the member of that name, for all such calls.
THEOREM RestoresNoOther ==
  ASSUME ConsistentScenarios
  PROVE  Spec => []OutputIsTheMember
<1>1. MemberInv => OutputIsTheMember
  BY DEF MemberInv
<1> QED BY <1>1, MemberInvariant, PTL

-----------------------------------------------------------------------------
(* What extractArchive restores when it alone cuts out the members of its    *)
(* archive: every other process uses slot 0, or gives up at the header.      *)

AllAlone(p) == call[p].mode = "all" /\ OnlyAllCall(p)

OthersIdle(p) == \A q \in Proc \ {p} : call[q].mode = "all" => pc[q] \in {"open", "failed"}

EarlierRestored(p) ==
  \A i \in Member : i < index[p] /\ Stored(archive[p], i) => i \in faulty[p] \/ output[p][i] = i

\* The temporary file has what was copied of the member, and then all of it.
FileHolds(p, k) ==
  /\ name[index[p]] \in Inode
  /\ content[name[index[p]]] = Huf(index[p], k)

NowRestored(p) ==
  Stored(archive[p], index[p]) =>
    /\ pc[p] = "copy" =>
         fd[p] = name[index[p]] /\ pos[p] <= Blocks[index[p]] /\ FileHolds(p, pos[p])
    /\ index[p] \notin faulty[p] =>
         /\ pc[p] \in {"decompress", "decode"} => FileHolds(p, Blocks[index[p]])
         /\ pc[p] = "decode" => input[p] = name[index[p]] /\ mapped[p] = Blocks[index[p]]
         /\ pc[p] = "unlink" => output[p][index[p]] = index[p]
         /\ pc[p] # "error"

Restoring(p) ==
  /\ OthersIdle(p) /\ EarlierRestored(p) /\ NowRestored(p)
  /\ pc[p] \notin {"search", "list"}
  /\ pc[p] = "done" => index[p] > num_files(p)

RestoreInv ==
  /\ faulty \in [Proc -> SUBSET Nat]
  /\ \A p \in Proc : AllAlone(p) => Restoring(p)

\* Where the blocks of a stored member are, and that no more can be copied.
LEMMA StoredBlocks ==
  ASSUME ConsistentScenarios, MemberInv, NEW p \in Proc, NEW i \in Member, Stored(archive[p], i)
  PROVE  /\ i \in DOMAIN entries(p) /\ entries(p)[i].path = i
         /\ Blocks[i] \in Nat /\ Blocks[i] > 1
         /\ entries(p)[i].data_offset \in Nat \ {0}
         /\ entries(p)[i].compressed_size \in Nat
         /\ entries(p)[i].compressed_size >= Blocks[i]
         /\ \A k \in Nat :
              /\ k < entries(p)[i].compressed_size
              /\ entries(p)[i].data_offset + k <= Len(archive[p].data)
              => /\ k < Blocks[i]
                 /\ archive[p].data[entries(p)[i].data_offset + k] = <<i, k + 1>>
<1> DEFINE e == entries(p)[i]
           o == e.data_offset
           size == e.compressed_size
           data == archive[p].data
           b == Blocks[i]
           last == IF o + size - 1 <= Len(data) THEN o + size - 1 ELSE Len(data)
<1>1. /\ entries(p) \in Seq(EntryOf) /\ data \in Seq(Block) /\ b \in Nat /\ b > 1
      /\ i \in Nat \ {0} /\ i <= Len(entries(p)) /\ e.path = i /\ Extent(data, e) = Huf(i, b)
  BY Given, ArchiveAssumption DEF MemberInv, Sound, entries, Stored, Member
<1>2. i \in DOMAIN entries(p) /\ o \in Nat /\ size \in Nat
  <2>1. i \in DOMAIN entries(p)
    BY <1>1
  <2>2. e \in EntryOf
    BY <1>1, <2>1
  <2> HIDE DEF e
  <2> QED BY <2>1, <2>2 DEF EntryOf
<1>3. Len(Huf(i, b)) = b /\ \A k \in 1 .. b : Huf(i, b)[k] = <<i, k>>
  BY <1>1 DEF Huf
<1>4. o # 0
  <2>1. o = 0 => Extent(data, e) = <<>>
    BY DEF Extent
  <2> HIDE DEF o, data, e
  <2> QED BY <1>1, <1>3, <2>1
<1>5. Extent(data, e) = SubSeq(data, o, last)
  BY <1>4 DEF Extent
<1> HIDE DEF o, size, data, b, e
<1>6. last \in Nat /\ last <= Len(data) /\ last <= o + size - 1
  BY <1>1, <1>2, <1>4
<1>7. last = Len(data) \/ last = o + size - 1
  OBVIOUS
<1> HIDE DEF last
<1>8. /\ Len(SubSeq(data, o, last)) = IF o <= last THEN last - o + 1 ELSE 0
      /\ \A k \in 1 .. last - o + 1 : SubSeq(data, o, last)[k] = data[o + k - 1]
  BY <1>1, <1>2, <1>4, <1>6
<1>9. last - o + 1 = b
  <2> DEFINE l == Len(SubSeq(data, o, last))
  <2>1. l = b /\ l = IF o <= last THEN last - o + 1 ELSE 0
    BY <1>1, <1>3, <1>5, <1>8
  <2> HIDE DEF l
  <2> QED BY <1>1, <1>2, <1>6, <2>1
<1>10. size >= b /\ o > 0
  BY <1>1, <1>2, <1>4, <1>6, <1>9
<1>11. ASSUME NEW k \in Nat, k < size, o + k <= Len(data)
       PROVE  k < b /\ data[o + k] = <<i, k + 1>>
  <2> DEFINE n == Len(data)
  <2>1. n \in Nat
    BY <1>1
  <2>2. o + k <= n /\ (last = n \/ last = o + size - 1)
    BY <1>7, <1>11
  <2> HIDE DEF n
  <2>3. k < b
    BY <1>1, <1>2, <1>6, <1>9, <1>11, <2>1, <2>2
  <2>4. k + 1 \in 1 .. b /\ o + (k + 1) - 1 = o + k
    BY <1>1, <1>2, <2>3
  <2>5. SubSeq(data, o, last)[k + 1] = data[o + (k + 1) - 1]
    BY <1>8, <1>9, <2>4
  <2>6. SubSeq(data, o, last)[k + 1] = <<i, k + 1>>
    BY <1>1, <1>3, <1>5, <2>4
  <2> QED BY <2>3, <2>4, <2>5, <2>6
<1> QED BY <1>1, <1>2, <1>10, <1>11 DEF e, o, size, data, b

\* One more block of a member.
LEMMA HufGrows ==
  ASSUME NEW i \in Member, NEW k \in Nat
  PROVE  /\ Huf(i, k) \in Seq(Block) /\ Len(Huf(i, k)) = k
         /\ Append(Huf(i, k), <<i, k + 1>>) = Huf(i, k + 1)
         /\ SubSeq(Huf(i, k), 1, k) = Huf(i, k)
         /\ Huf(i, 0) = <<>>
         /\ k > 0 => Huf(i, k) # <<>> /\ Huf(i, k)[1] = HufHeader(i)
<1>1. ASSUME NEW n \in Nat
      PROVE  /\ Huf(i, n) \in Seq(Block) /\ Len(Huf(i, n)) = n
             /\ \A j \in 1 .. n : Huf(i, n)[j] = <<i, j>>
  <2>1. \A j \in 1 .. n : <<i, j>> \in Block
    BY DEF Block
  <2> QED BY <2>1 DEF Huf
<1>2. Append(Huf(i, k), <<i, k + 1>>) = Huf(i, k + 1)
  <2>1. <<i, k + 1>> \in Block /\ k + 1 \in Nat /\ 1 .. k + 1 = (1 .. k) \union {k + 1}
    BY DEF Block
  <2>2. /\ Append(Huf(i, k), <<i, k + 1>>) \in Seq(Block)
        /\ Len(Append(Huf(i, k), <<i, k + 1>>)) = k + 1
        /\ \A j \in 1 .. k : Append(Huf(i, k), <<i, k + 1>>)[j] = <<i, j>>
        /\ Append(Huf(i, k), <<i, k + 1>>)[k + 1] = <<i, k + 1>>
    BY <1>1, <2>1, AppendProperties
  <2>3. /\ Huf(i, k + 1) \in Seq(Block) /\ Len(Huf(i, k + 1)) = k + 1
        /\ \A j \in 1 .. k + 1 : Huf(i, k + 1)[j] = <<i, j>>
    BY <1>1, <2>1
  <2>4. \A j \in 1 .. k + 1 : Append(Huf(i, k), <<i, k + 1>>)[j] = Huf(i, k + 1)[j]
    BY <2>1, <2>2, <2>3
  <2> QED BY <2>2, <2>3, <2>4, SeqEqual
<1>3. SubSeq(Huf(i, k), 1, k) = Huf(i, k)
  <2>1. /\ SubSeq(Huf(i, k), 1, k) \in Seq(Block) /\ Len(SubSeq(Huf(i, k), 1, k)) = k
        /\ \A j \in 1 .. k : SubSeq(Huf(i, k), 1, k)[j] = Huf(i, k)[j]
    BY <1>1
  <2> QED BY <1>1, <2>1, SeqEqual
<1>4. Huf(i, 0) = <<>>
  BY <1>1, EmptySeq
<1>5. k > 0 => Huf(i, k) # <<>> /\ Huf(i, k)[1] = HufHeader(i)
  <2>1. k > 0 => 1 \in 1 .. k /\ k # 0
    OBVIOUS
  <2>2. Len(<<>>) = 0
    OBVIOUS
  <2> QED BY <1>1, <2>1, <2>2 DEF HufHeader
<1> QED BY <1>1, <1>2, <1>3, <1>4, <1>5

\* Another process leaves all files but those of slot 0 alone.
LEMMA OtherStep ==
  ASSUME ConsistentScenarios, MemberInv, faulty \in [Proc -> SUBSET Nat],
         NEW p \in Proc, AllAlone(p), OthersIdle(p), NEW q \in Proc \ {p}, Step(q)
  PROVE  /\ UNCHANGED <<call, archive>> /\ faulty' \in [Proc -> SUBSET Nat]
         /\ pc'[p] = pc[p] /\ index'[p] = index[p] /\ faulty'[p] = faulty[p]
         /\ fd'[p] = fd[p] /\ pos'[p] = pos[p] /\ input'[p] = input[p] /\ mapped'[p] = mapped[p]
         /\ output'[p] = output[p]
         /\ \A s \in Slot \ {0} : name'[s] = name[s]
         /\ \A n \in Inode : n[2] # 0 => content'[n] = content[n]
         /\ OthersIdle(p)'
<1> USE DEF Goto, Faulty
<1>1. /\ pc \in [Proc -> Labels] /\ index \in [Proc -> Nat \ {0}]
      /\ fd \in [Proc -> Inode \union {NoInode}] /\ input \in [Proc -> Inode \union {NoInode}]
      /\ pos \in [Proc -> Nat] /\ mapped \in [Proc -> Nat]
      /\ name \in [Slot -> Inode \union {NoInode}] /\ content \in [Inode -> Seq(Block)]
      /\ output \in [Proc -> [Member -> Member \union {Absent, Garbled}]]
  BY DEF MemberInv, NamesInv, Types
<1>2. /\ call[q].mode = "all" => pc[q] \in {"open", "failed"} /\ archive[q].header = "torn"
      /\ call[q].mode # "all" => slot(q) = 0
      /\ pc[q] = "copy" => fd[q] \in Inode /\ fd[q][2] = slot(q)
  BY DEF AllAlone, OnlyAllCall, OthersIdle, slot, MemberInv, EntryInv, EntryKnown
<1>3. CASE OpenArchive(q)
  <2>1. call[q].mode = "all" => pc' = [pc EXCEPT ![q] = "failed"]
    BY <1>2, <1>3 DEF OpenArchive
  <2>2. \A r \in Proc \ {q} : pc'[r] = pc[r]
    BY <1>1, <1>3 DEF OpenArchive
  <2> QED BY <1>1, <1>3, <2>1, <2>2 DEF OpenArchive, OthersIdle
<1>4. ASSUME ~OpenArchive(q)
      PROVE  call[q].mode # "all" /\ slot(q) = 0
  BY <1>2, <1>4 DEF Step, OpenArchive, Search, ListEntry, ReturnAll, OpenTemp, OpenTempFails, CopyBlock,
       CopyEnds, CopyFails, OpenInput, OpenInputFails, Decode, DecodeCrashes, DecodeFails, Unlink
<1>5. ASSUME ~OpenArchive(q), UNCHANGED <<call, archive>>, \A r \in Proc \ {q} : pc'[r] = pc[r]
      PROVE  OthersIdle(p)'
  BY <1>4, <1>5 DEF OthersIdle
<1>6. ASSUME ~OpenArchive(q)
      PROVE  /\ UNCHANGED <<call, archive>>
             /\ \A r \in Proc \ {q} : pc'[r] = pc[r]
  BY <1>1, <1>6 DEF Step, Search, ListEntry, ReturnAll, OpenTemp, OpenTempFails, CopyBlock,
       CopyEnds, CopyFails, OpenInput, OpenInputFails, Decode, DecodeCrashes, DecodeFails, Unlink
<1>7. ASSUME ~OpenArchive(q)
      PROVE  /\ index'[p] = index[p] /\ fd'[p] = fd[p] /\ pos'[p] = pos[p]
             /\ input'[p] = input[p] /\ mapped'[p] = mapped[p]
  BY <1>1, <1>7 DEF Step, Search, ListEntry, ReturnAll, OpenTemp, OpenTempFails, CopyBlock,
       CopyEnds, CopyFails, OpenInput, OpenInputFails, Decode, DecodeCrashes, DecodeFails, Unlink
<1>8. ASSUME ~OpenArchive(q)
      PROVE  faulty' \in [Proc -> SUBSET Nat] /\ faulty'[p] = faulty[p] /\ output'[p] = output[p]
  BY <1>1, <1>8 DEF Step, Search, ListEntry, ReturnAll, OpenTemp, OpenTempFails, CopyBlock,
       CopyEnds, CopyFails, OpenInput, OpenInputFails, Decode, DecodeCrashes, DecodeFails, Unlink
<1>9. ASSUME ~OpenArchive(q)
      PROVE  \A s \in Slot \ {0} : name'[s] = name[s]
  <2>1. UNCHANGED name \/ \E n : name' = [name EXCEPT ![slot(q)] = n]
    BY <1>9 DEF Step, Search, ListEntry, ReturnAll, OpenTemp, OpenTempFails, CopyBlock,
         CopyEnds, CopyFails, OpenInput, OpenInputFails, Decode, DecodeCrashes, DecodeFails, Unlink
  <2> QED BY <1>1, <1>4, <1>9, <2>1
<1>10. ASSUME ~OpenArchive(q)
       PROVE  \A n \in Inode : n[2] # 0 => content'[n] = content[n]
  <2>1. \/ UNCHANGED content
        \/ content' = [content EXCEPT ![Opened(q)] = <<>>]
        \/ \E s : pc[q] = "copy" /\ content' = [content EXCEPT ![fd[q]] = s]
    BY <1>10 DEF Step, Search, ListEntry, ReturnAll, OpenTemp, OpenTempFails, CopyBlock,
         CopyEnds, CopyFails, OpenInput, OpenInputFails, Decode, DecodeCrashes, DecodeFails, Unlink
  <2>2. Opened(q)[2] = 0
    <3>1. 0 \in Slot
      BY ArchiveAssumption DEF Slot
    <3> QED BY <1>4, <1>10, <3>1 DEF Opened, MemberInv, SlotInv
  <2> QED BY <1>1, <1>2, <1>4, <1>10, <2>1, <2>2
<1> QED BY <1>3, <1>5, <1>6, <1>7, <1>8, <1>9, <1>10

\* So what this one restores is not disturbed.
LEMMA OtherKeeps ==
  ASSUME ConsistentScenarios, MemberInv, RestoreInv, NEW p \in Proc, AllAlone(p),
         NEW q \in Proc \ {p}, Step(q)
  PROVE  Restoring(p)'
<1>1. Restoring(p) /\ faulty \in [Proc -> SUBSET Nat]
  BY DEF RestoreInv
<1>2. /\ UNCHANGED <<call, archive>>
      /\ pc'[p] = pc[p] /\ index'[p] = index[p] /\ faulty'[p] = faulty[p]
      /\ fd'[p] = fd[p] /\ pos'[p] = pos[p] /\ input'[p] = input[p] /\ mapped'[p] = mapped[p]
      /\ output'[p] = output[p]
      /\ \A s \in Slot \ {0} : name'[s] = name[s]
      /\ \A n \in Inode : n[2] # 0 => content'[n] = content[n]
      /\ OthersIdle(p)'
  BY <1>1, OtherStep DEF Restoring
<1>3. EarlierRestored(p)'
  BY <1>1, <1>2 DEF Restoring, EarlierRestored
<1>4. ASSUME NEW k, FileHolds(p, k), Stored(archive[p], index[p])
      PROVE  name'[index[p]] = name[index[p]] /\ FileHolds(p, k)'
  <2>1. index[p] \in Slot \ {0}
    <3>1. index[p] \in Nat \ {0} /\ Len(entries(p)) \in 0 .. num_files(p) /\ num_files(p) \in Member
          /\ index[p] <= Len(entries(p))
      BY <1>4, Given, SameIndex DEF MemberInv, Stored, entries
    <3> QED BY <3>1, ArchiveAssumption DEF Slot, Member
  <2>2. name[index[p]] \in Inode /\ name[index[p]] # NoInode /\ name[index[p]][2] = index[p]
    BY <1>4, <2>1 DEF FileHolds, MemberInv, SlotInv, Inode, NoInode
  <2> QED BY <1>2, <1>4, <2>1, <2>2 DEF FileHolds
<1>5. NowRestored(p)'
  BY <1>1, <1>2, <1>4 DEF Restoring, NowRestored
<1> QED BY <1>1, <1>2, <1>3, <1>5 DEF Restoring, num_files

-----------------------------------------------------------------------------
(* The steps of the process that restores. *)

\* What it stands at.
LEMMA OwnEntry ==
  ASSUME ConsistentScenarios, MemberInv, RestoreInv, NEW p \in Proc, AllAlone(p)
  PROVE  /\ Restoring(p) /\ faulty \in [Proc -> SUBSET Nat]
         /\ call[p].mode = "all" /\ slot(p) = index[p] /\ index[p] \in Nat \ {0}
         /\ pc \in [Proc -> Labels] /\ index \in [Proc -> Nat \ {0}]
         /\ output \in [Proc -> [Member -> Member \union {Absent, Garbled}]]
         /\ pc[p] \in Holding => index[p] \in Member /\ AtEntry(p)
         /\ \A i \in Member : Stored(archive[p], i) /\ i # index[p] /\ pc[p] \in Holding =>
              Current(p).path # i
         /\ Stored(archive[p], index[p]) => index[p] \in Member /\ Current(p).path = index[p]
<1>1. /\ Restoring(p) /\ faulty \in [Proc -> SUBSET Nat]
      /\ call[p].mode = "all" /\ slot(p) = index[p] /\ index[p] \in Nat \ {0}
      /\ pc \in [Proc -> Labels] /\ index \in [Proc -> Nat \ {0}]
      /\ output \in [Proc -> [Member -> Member \union {Absent, Garbled}]]
  BY DEF RestoreInv, AllAlone, slot, MemberInv, Types, NamesInv
<1>2. pc[p] \in Holding => index[p] \in Member /\ AtEntry(p)
  BY <1>1, EntryFacts DEF MemberInv, EntryInv, EntryKnown
<1>3. ASSUME NEW i \in Member, Stored(archive[p], i), i # index[p], pc[p] \in Holding
      PROVE  Current(p).path # i
  <2>1. i \in DOMAIN entries(p) /\ entries(p)[i].path = i /\ i # NoPath
    BY <1>3, StoredBlocks, ArchiveAssumption DEF Member, NoPath
  <2>2. index[p] \in DOMAIN entries(p)
    BY <1>2, <1>3 DEF AtEntry
  <2> QED BY <1>3, <2>1, <2>2, Given DEF MemberInv, Sound, Current, entries
<1>4. ASSUME Stored(archive[p], index[p])
      PROVE  index[p] \in Member /\ Current(p).path = index[p]
  <2>1. Len(entries(p)) \in 0 .. num_files(p) /\ num_files(p) \in Member
        /\ index[p] <= Len(entries(p)) /\ entries(p)[index[p]].path = index[p]
    BY <1>4, Given DEF MemberInv, Stored, entries
  <2> QED BY <1>1, <2>1, ArchiveAssumption DEF Member, Current
<1> QED BY <1>1, <1>2, <1>3, <1>4

\* While it stays with an entry, what it has restored before stays.
LEMMA EarlierStays ==
  ASSUME NEW p \in Proc, EarlierRestored(p), UNCHANGED archive, index'[p] = index[p],
         faulty[p] \subseteq faulty'[p],
         \A i \in Member : i < index[p] /\ Stored(archive[p], i) => output'[p][i] = output[p][i]
  PROVE  EarlierRestored(p)'
BY DEF EarlierRestored

\* And when it goes on, the entry joins what it has restored, if it could.
LEMMA EarlierGrows ==
  ASSUME NEW p \in Proc, EarlierRestored(p), UNCHANGED <<archive, output>>,
         index[p] \in Nat, index'[p] = index[p] + 1, faulty[p] \subseteq faulty'[p],
         Stored(archive[p], index[p]) => index[p] \in faulty'[p] \/ output[p][index[p]] = index[p]
  PROVE  EarlierRestored(p)'
<1> SUFFICES ASSUME NEW i \in Member, i < index[p] + 1, Stored(archive[p], i)
             PROVE  i \in faulty'[p] \/ output[p][i] = i
  BY DEF EarlierRestored
<1>1. i < index[p] \/ i = index[p]
  BY ArchiveAssumption DEF Member
<1> QED BY <1>1 DEF EarlierRestored

\* Between two members.
LEMMA OwnMoves ==
  ASSUME ConsistentScenarios, MemberInv, RestoreInv, NEW p \in Proc, AllAlone(p),
         OpenArchive(p) \/ Search(p) \/ ListEntry(p) \/ ReturnAll(p) \/ OpenTempFails(p)
  PROVE  Restoring(p)' /\ faulty' \in [Proc -> SUBSET Nat]
<1>0. /\ OthersIdle(p) /\ EarlierRestored(p) /\ NowRestored(p)
      /\ pc[p] \notin {"search", "list"}
      /\ faulty \in [Proc -> SUBSET Nat] /\ pc \in [Proc -> Labels]
      /\ index \in [Proc -> Nat \ {0}] /\ slot(p) = index[p] /\ call[p].mode = "all"
      /\ Stored(archive[p], index[p]) => index[p] \in Member /\ Current(p).path = index[p]
  BY OwnEntry DEF Restoring
<1>1. ~Search(p) /\ ~ListEntry(p)
  BY <1>0 DEF Search, ListEntry
<1>2. UNCHANGED <<call, archive, output>> /\ OthersIdle(p)'
  BY <1>0, <1>1 DEF OpenArchive, ReturnAll, OpenTempFails, OthersIdle, Goto
<1>3. CASE OpenArchive(p)
  <2>1. pc'[p] \in {"entry", "failed"} /\ UNCHANGED <<index, faulty>>
    BY <1>0, <1>3 DEF OpenArchive, Goto
  <2> QED BY <1>0, <1>2, <2>1, EarlierStays DEF Restoring, NowRestored
<1>4. CASE ReturnAll(p)
  <2>1. pc'[p] = "done" /\ UNCHANGED <<index, faulty>> /\ index[p] > num_files(p)
    BY <1>0, <1>4 DEF ReturnAll, Goto, EndOfTable
  <2> QED BY <1>0, <1>2, <2>1, EarlierStays DEF Restoring, NowRestored, num_files
<1>5. CASE OpenTempFails(p)
  <2>1. /\ pc'[p] = "entry" /\ index'[p] = index[p] + 1
        /\ faulty' = [faulty EXCEPT ![p] = @ \union {index[p]}]
    BY <1>0, <1>5 DEF OpenTempFails, Faulty
  <2>2. faulty' \in [Proc -> SUBSET Nat] /\ faulty[p] \subseteq faulty'[p] /\ index[p] \in faulty'[p]
    BY <1>0, <2>1
  <2> QED BY <1>0, <1>2, <2>1, <2>2, EarlierGrows DEF Restoring, NowRestored
<1> QED BY <1>1, <1>3, <1>4, <1>5

\* The member is copied out of the archive.
LEMMA OwnCopies ==
  ASSUME ConsistentScenarios, MemberInv, RestoreInv, NEW p \in Proc, AllAlone(p), MemberInv',
         OpenTemp(p) \/ CopyBlock(p) \/ CopyEnds(p) \/ CopyFails(p)
  PROVE  Restoring(p)' /\ faulty' \in [Proc -> SUBSET Nat]
<1>0. /\ OthersIdle(p) /\ EarlierRestored(p) /\ NowRestored(p)
      /\ pc[p] \notin {"search", "list"}
      /\ faulty \in [Proc -> SUBSET Nat] /\ pc \in [Proc -> Labels]
      /\ index \in [Proc -> Nat \ {0}] /\ slot(p) = index[p] /\ call[p].mode = "all"
      /\ Stored(archive[p], index[p]) => index[p] \in Member /\ Current(p).path = index[p]
  BY OwnEntry DEF Restoring
<1>1. /\ UNCHANGED <<call, archive, output>> /\ index' = index /\ OthersIdle(p)'
      /\ faulty' = faulty \/ Faulty(p)
  BY <1>0 DEF OpenTemp, CopyBlock, CopyEnds, CopyFails, OthersIdle, Goto
<1>2. faulty' \in [Proc -> SUBSET Nat] /\ faulty[p] \subseteq faulty'[p]
  BY <1>0, <1>1 DEF Faulty
<1>3. EarlierRestored(p)'
  BY <1>0, <1>1, <1>2, EarlierStays
<1>4. pc'[p] \in {"copy", "decompress"}
  BY <1>0 DEF OpenTemp, CopyBlock, CopyEnds, CopyFails, Goto
<1> SUFFICES NowRestored(p)'
  BY <1>1, <1>2, <1>3, <1>4 DEF Restoring
<1> SUFFICES ASSUME Stored(archive[p], index[p])
             PROVE  /\ pc'[p] = "copy" =>
                         /\ fd'[p] = name'[index[p]] /\ pos'[p] <= Blocks[index[p]]
                         /\ name'[index[p]] \in Inode
                         /\ content'[name'[index[p]]] = Huf(index[p], pos'[p])
                    /\ index[p] \notin faulty'[p] /\ pc'[p] = "decompress" =>
                         /\ name'[index[p]] \in Inode
                         /\ content'[name'[index[p]]] = Huf(index[p], Blocks[index[p]])
  BY <1>1, <1>4 DEF NowRestored, FileHolds
<1> DEFINE i == index[p]
           e == entries(p)[i]
           b == Blocks[i]
           data == archive[p].data
<1>5. /\ i \in Member /\ slot(p) = i /\ Current(p) = e /\ i \in Slot
      /\ b \in Nat /\ b > 1
      /\ e.data_offset \in Nat \ {0} /\ e.compressed_size \in Nat /\ e.compressed_size >= b
      /\ \A k \in Nat : k < e.compressed_size /\ e.data_offset + k <= Len(data)
           => k < b /\ data[e.data_offset + k] = <<i, k + 1>>
  <2>1. i \in Member /\ slot(p) = i /\ Current(p) = e
    BY <1>0 DEF Current
  <2>2. i \in Slot
    BY <2>1, ArchiveAssumption DEF Slot, Member
  <2> HIDE DEF i
  <2> QED BY <2>1, <2>2, StoredBlocks DEF i
<1>6. /\ fd \in [Proc -> Inode \union {NoInode}] /\ pos \in [Proc -> Nat]
      /\ name \in [Slot -> Inode \union {NoInode}] /\ content \in [Inode -> Seq(Block)]
  BY DEF MemberInv, Types
<1>7. pc[p] = "copy" => fd[p] = name[i] /\ pos[p] <= b /\ name[i] \in Inode
                        /\ content[name[i]] = Huf(i, pos[p])
  BY <1>0 DEF NowRestored, FileHolds
<1> HIDE DEF i, e, b, data
<1>8. CASE OpenTemp(p)
  <2> DEFINE n == Opened(p)
  <2>1. /\ name' = [name EXCEPT ![i] = n] /\ content' = [content EXCEPT ![n] = <<>>]
        /\ fd' = [fd EXCEPT ![p] = n] /\ pos' = [pos EXCEPT ![p] = 0] /\ pc'[p] = "copy"
    BY <1>0, <1>5, <1>8 DEF OpenTemp, Goto
  <2>2. n \in Inode
    BY <1>5, <1>6 DEF Opened, Inode
  <2> HIDE DEF n
  <2>3. name'[i] = n /\ content'[n] = <<>> /\ fd'[p] = n /\ pos'[p] = 0
    BY <1>5, <1>6, <2>1, <2>2
  <2>4. Huf(i, 0) = <<>>
    BY <1>5, HufGrows
  <2> QED BY <1>5, <2>1, <2>2, <2>3, <2>4 DEF i, b
<1>9. CASE CopyBlock(p)
  <2> DEFINE n == name[i]
             k == pos[p]
  <2>1. pc[p] = "copy" /\ fd[p] = n /\ n \in Inode /\ content[n] = Huf(i, k) /\ k \in Nat
    BY <1>6, <1>7, <1>9 DEF CopyBlock
  <2>2. k < e.compressed_size /\ e.data_offset + k <= Len(data)
    <3>1. k < e.compressed_size /\ ~(e.data_offset + k > Len(data))
      BY <1>5, <1>9 DEF CopyBlock, AtEnd, SeekOffset, data
    <3>2. data \in Seq(Block)
      BY Given DEF MemberInv, Sound, data
    <3> HIDE DEF k
    <3> QED BY <1>5, <2>1, <3>1, <3>2
  <2>3. k < b /\ data[e.data_offset + k] = <<i, k + 1>> /\ e.data_offset + k # 0
    BY <1>5, <2>1, <2>2
  <2>4. NextBlock(p) = <<i, k + 1>>
    BY <1>5, <2>3 DEF NextBlock, SeekOffset, data
  <2>5. /\ content' = [content EXCEPT ![n] = WriteAt(content[n], k + 1, <<i, k + 1>>)]
        /\ pos' = [pos EXCEPT ![p] = k + 1]
        /\ UNCHANGED <<pc, fd, name>>
    BY <1>9, <2>1, <2>4 DEF CopyBlock
  <2> HIDE DEF n, k
  <2>6. WriteAt(content[n], k + 1, <<i, k + 1>>) = Huf(i, k + 1)
    <3>1. /\ Huf(i, k) \in Seq(Block) /\ Len(Huf(i, k)) = k
          /\ Append(Huf(i, k), <<i, k + 1>>) = Huf(i, k + 1)
      BY <1>5, <2>1, HufGrows
    <3>2. k + 1 \in Nat \ {0} /\ <<i, k + 1>> \in Block
      BY <1>5, <2>1 DEF Block
    <3>3. k + 1 = Len(Huf(i, k)) + 1
      BY <3>1
    <3>4. WriteAt(Huf(i, k), k + 1, <<i, k + 1>>) = Append(Huf(i, k), <<i, k + 1>>)
      <4> DEFINE s == Huf(i, k)
                 l == k + 1
                 c == <<i, k + 1>>
      <4>1. s \in Seq(Block) /\ l \in Nat \ {0} /\ c \in Block /\ l = Len(s) + 1
        BY <3>1, <3>2, <3>3
      <4> HIDE DEF s, l, c
      <4>2. WriteAt(s, l, c) = Append(s, c)
        BY <4>1, WriteAtFacts
      <4> QED BY <4>2 DEF s, l, c
    <3> QED BY <2>1, <3>1, <3>4
  <2>7. content'[n] = Huf(i, k + 1) /\ pos'[p] = k + 1
    BY <1>6, <2>1, <2>5, <2>6
  <2>8. k + 1 <= b
    BY <1>5, <2>1, <2>3
  <2> QED BY <2>1, <2>5, <2>7, <2>8 DEF i, b, n
<1>10. CASE CopyEnds(p)
  <2>1. pos[p] = e.compressed_size /\ pc[p] = "copy" /\ pc'[p] = "decompress"
        /\ UNCHANGED <<name, content>>
    BY <1>0, <1>5, <1>10 DEF CopyEnds, Goto
  <2>2. pos[p] = b
    <3>1. pos[p] \in Nat
      BY <1>6
    <3> QED BY <1>5, <1>7, <2>1, <3>1
  <2> QED BY <1>7, <2>1, <2>2 DEF i, b
<1>11. CASE CopyFails(p)
  <2>1. i \in faulty'[p] /\ pc'[p] = "decompress"
    BY <1>0, <1>11 DEF CopyFails, Faulty, Goto, i
  <2> QED BY <2>1 DEF i
<1> QED BY <1>8, <1>9, <1>10, <1>11

\* The member is restored from the temporary file.
LEMMA OwnDecodes ==
  ASSUME ConsistentScenarios, MemberInv, RestoreInv, NEW p \in Proc, AllAlone(p),
         OpenInput(p) \/ OpenInputFails(p) \/ Decode(p) \/ DecodeCrashes(p) \/ DecodeFails(p)
  PROVE  Restoring(p)' /\ faulty' \in [Proc -> SUBSET Nat]
<1>0. /\ OthersIdle(p) /\ EarlierRestored(p) /\ NowRestored(p)
      /\ pc[p] \notin {"search", "list"}
      /\ faulty \in [Proc -> SUBSET Nat] /\ pc \in [Proc -> Labels]
      /\ index \in [Proc -> Nat \ {0}] /\ slot(p) = index[p] /\ call[p].mode = "all"
      /\ output \in [Proc -> [Member -> Member \union {Absent, Garbled}]]
      /\ Stored(archive[p], index[p]) => index[p] \in Member /\ Current(p).path = index[p]
  BY OwnEntry DEF Restoring
<1>1. /\ UNCHANGED <<call, archive, name, content>> /\ index' = index /\ OthersIdle(p)'
      /\ faulty' = faulty \/ Faulty(p)
      /\ pc[p] \in {"decompress", "decode"}
  BY <1>0 DEF OpenInput, OpenInputFails, Decode, DecodeCrashes, DecodeFails, OthersIdle, Goto
<1>2. faulty' \in [Proc -> SUBSET Nat] /\ faulty[p] \subseteq faulty'[p]
  BY <1>0, <1>1 DEF Faulty
<1>3. ASSUME NEW i \in Member, i < index[p], Stored(archive[p], i)
      PROVE  output'[p][i] = output[p][i]
  <2>1. Current(p).path # i
    <3>1. i # index[p] /\ pc[p] \in Holding
      BY <1>0, <1>1, <1>3, ArchiveAssumption DEF Member, Holding
    <3> QED BY <1>3, <3>1, OwnEntry
  <2>2. output' = output \/ \E m : output' = [output EXCEPT ![p][Current(p).path] = m]
    BY DEF OpenInput, OpenInputFails, Decode, DecodeCrashes, DecodeFails
  <2> QED BY <1>0, <1>3, <2>1, <2>2
<1>4. EarlierRestored(p)'
  BY <1>0, <1>1, <1>2, <1>3, EarlierStays
<1>5. pc'[p] \in {"decode", "unlink", "error", "crashed"}
  BY <1>0 DEF OpenInput, OpenInputFails, Decode, DecodeCrashes, DecodeFails, Goto
<1> SUFFICES NowRestored(p)'
  BY <1>1, <1>2, <1>4, <1>5 DEF Restoring
<1> SUFFICES ASSUME Stored(archive[p], index[p]), index[p] \notin faulty'[p]
             PROVE  /\ pc'[p] = "decode" =>
                         /\ FileHolds(p, Blocks[index[p]])'
                         /\ input'[p] = name[index[p]] /\ mapped'[p] = Blocks[index[p]]
                    /\ pc'[p] = "unlink" => output'[p][index[p]] = index[p]
                    /\ pc'[p] # "error"
  BY <1>1, <1>5 DEF NowRestored
<1> DEFINE i == index[p]
           b == Blocks[i]
           n == name[i]
<1>6. /\ i \in Member /\ slot(p) = i /\ Current(p).path = i /\ i # NoPath
      /\ b \in Nat /\ b > 1 /\ i \notin faulty[p]
      /\ n \in Inode /\ content[n] = Huf(i, b)
      /\ pc[p] = "decode" => input[p] = n /\ mapped[p] = b
  <2>1. i \in Member /\ b \in Nat /\ b > 1 /\ i # NoPath
    BY <1>0, ArchiveAssumption DEF Member, NoPath
  <2> QED BY <1>0, <1>1, <1>2, <2>1 DEF NowRestored, FileHolds
<1>7. ~DecodeFails(p)
  BY <1>0, <1>6 DEF DecodeFails, Faulty, i
<1>8. /\ n # NoInode /\ content[n] # <<>> /\ IsHeader(content[n][1])
      /\ Len(content[n]) = b
  <2>1. n # NoInode
    <3>1. n \in Proc \X Slot
      BY <1>6 DEF Inode
    <3> HIDE DEF n
    <3> QED BY <3>1 DEF NoInode
  <2>2. b > 0
    BY <1>6
  <2> QED BY <1>6, <2>1, <2>2, HufGrows DEF IsHeader
<1>9. OutputOpens(p) /\ ~OpenInputFails(p)
  BY <1>0, <1>6, <1>8 DEF OutputOpens, OpenInputFails
<1>10. FileHolds(p, b)'
  BY <1>1, <1>6 DEF FileHolds, i
<1>11. CASE OpenInput(p)
  <2>1. pc'[p] = "decode" /\ input'[p] = n /\ mapped'[p] = b
    <3>1. input \in [Proc -> Inode \union {NoInode}] /\ mapped \in [Proc -> Nat]
      BY DEF MemberInv, Types
    <3> QED BY <1>0, <1>6, <1>8, <1>11, <3>1 DEF OpenInput, Goto
  <2> QED BY <1>10, <2>1
<1>12. CASE Decode(p)
  <2> DEFINE s == content[input[p]]
             t == SubSeq(s, 1, mapped[p])
  <2>1. pc[p] = "decode" /\ s = Huf(i, b) /\ mapped[p] = b
    BY <1>6, <1>12 DEF Decode
  <2>2. t = Huf(i, b) /\ i \in Whole(t)
    <3>1. /\ SubSeq(Huf(i, b), 1, b) = Huf(i, b) /\ Len(Huf(i, b)) = b
      BY <1>6, HufGrows
    <3>2. t = Huf(i, b)
      BY <2>1, <3>1
    <3> HIDE DEF t
    <3> QED BY <1>6, <3>1, <3>2 DEF Whole, b
  <2>3. \A m \in Whole(t) : m = i
    <3> SUFFICES ASSUME NEW m \in Whole(t)
                 PROVE  m = i
      OBVIOUS
    <3>1. s \in Seq(Block) /\ b \in Nat /\ b <= Len(s) /\ Huf(i, b)[1] = HufHeader(i)
      <4>1. /\ Huf(i, b) \in Seq(Block) /\ Len(Huf(i, b)) = b
            /\ b > 0 => Huf(i, b)[1] = HufHeader(i)
        BY <1>6, HufGrows
      <4>2. b > 0 /\ b <= b
        BY <1>6
      <4> QED BY <1>6, <2>1, <4>1, <4>2
    <3>2. m \in Whole(SubSeq(s, 1, b))
      BY <2>1
    <3> HIDE DEF s, t, b
    <3>3. s[1] = HufHeader(m)
      BY <3>1, <3>2, WholeBegins
    <3> QED BY <2>1, <3>1, <3>3 DEF HufHeader
  <2>4. \E m \in Whole(t) : output' = [output EXCEPT ![p][i] = m] /\ pc'[p] = "unlink"
    BY <1>0, <1>6, <1>12, <2>2 DEF Decode, Goto
  <2>5. output'[p][i] = i /\ pc'[p] = "unlink"
    <3> HIDE DEF t
    <3> QED BY <1>0, <1>6, <2>3, <2>4
  <2> QED BY <2>5
<1>13. CASE DecodeCrashes(p)
  BY <1>0, <1>13 DEF DecodeCrashes, Goto
<1> QED BY <1>7, <1>9, <1>11, <1>12, <1>13

\* The temporary file is removed, and the entry is among the earlier ones.
LEMMA OwnUnlinks ==
  ASSUME ConsistentScenarios, MemberInv, RestoreInv, NEW p \in Proc, AllAlone(p), Unlink(p)
  PROVE  Restoring(p)' /\ faulty' \in [Proc -> SUBSET Nat]
<1>1. /\ Restoring(p) /\ faulty \in [Proc -> SUBSET Nat] /\ call[p].mode = "all"
      /\ pc \in [Proc -> Labels] /\ index \in [Proc -> Nat \ {0}]
  BY OwnEntry
<1>2. /\ pc[p] \in {"unlink", "error"} /\ pc'[p] = "entry" /\ index'[p] = index[p] + 1
      /\ UNCHANGED <<call, archive, faulty, output>> /\ index[p] \in Nat
      /\ \A q \in Proc \ {p} : pc'[q] = pc[q]
  BY <1>1 DEF Unlink, Goto, AfterError, NextIndex
<1>3. Stored(archive[p], index[p]) => index[p] \in faulty[p] \/ output[p][index[p]] = index[p]
  BY <1>1, <1>2 DEF Restoring, NowRestored
<1>4. EarlierRestored(p)'
  BY <1>1, <1>2, <1>3, EarlierGrows DEF Restoring
<1> QED BY <1>1, <1>2, <1>4 DEF Restoring, OthersIdle, NowRestored

-----------------------------------------------------------------------------
\* Before the calls begin nothing is restored.
LEMMA RestoreInit == Init => RestoreInv
<1> SUFFICES ASSUME Init, NEW p \in Proc
             PROVE  faulty \in [Proc -> SUBSET Nat] /\ Restoring(p)
  BY DEF RestoreInv, Init
<1>1. /\ pc = [q \in Proc |-> "open"] /\ index = [q \in Proc |-> 1] /\ faulty = [q \in Proc |-> {}]
  BY DEF Init
<1>2. \A i \in Member : ~(i < 1)
  BY ArchiveAssumption DEF Member
<1> QED BY <1>1, <1>2 DEF Restoring, OthersIdle, EarlierRestored, NowRestored

\* Every step of every process keeps what the one has restored.
LEMMA RestoreNext ==
  ASSUME ConsistentScenarios, MemberInv, MemberInv', RestoreInv, [Next]_vars
  PROVE  RestoreInv'
<1>1. CASE \E q \in Proc : Step(q)
  <2>1. PICK q \in Proc : Step(q)
    BY <1>1
  <2>2. UNCHANGED <<call, archive>>
    BY <2>1 DEF Step, OpenArchive, Search, ListEntry, ReturnAll, OpenTemp, OpenTempFails, CopyBlock,
         CopyEnds, CopyFails, OpenInput, OpenInputFails, Decode, DecodeCrashes, DecodeFails, Unlink
  <2>3. \A p : AllAlone(p)' <=> AllAlone(p)
    BY <2>2 DEF AllAlone, OnlyAllCall
  <2>4. faulty' \in [Proc -> SUBSET Nat]
    <3>1. /\ faulty \in [Proc -> SUBSET Nat]
          /\ index[q] \in Nat
      BY DEF RestoreInv, MemberInv, Types
    <3>2. faulty' = faulty \/ Faulty(q)
      BY <2>1 DEF Step, OpenArchive, Search, ListEntry, ReturnAll, OpenTemp, OpenTempFails, CopyBlock,
           CopyEnds, CopyFails, OpenInput, OpenInputFails, Decode, DecodeCrashes, DecodeFails, Unlink
    <3> QED BY <3>1, <3>2 DEF Faulty
  <2>5. ASSUME NEW p \in Proc, AllAlone(p)
        PROVE  Restoring(p)'
    <3>1. CASE p = q
      BY <2>1, <2>5, <3>1, OwnMoves, OwnCopies, OwnDecodes, OwnUnlinks DEF Step
    <3>2. CASE p # q
      BY <2>1, <2>5, <3>2, OtherKeeps
    <3> QED BY <3>1, <3>2
  <2> QED BY <2>3, <2>4, <2>5 DEF RestoreInv
<1>2. CASE UNCHANGED vars
  BY <1>2 DEF vars, procVars, RestoreInv, AllAlone, OnlyAllCall, Restoring, OthersIdle, EarlierRestored,
              NowRestored, FileHolds, num_files
<1> QED BY <1>1, <1>2 DEF Next, Terminated

\* One member that is missing, damaged or cannot be written does not keep
\* extractArchive from restoring every other, beside any number of processes that
\* extract single members or list archives.
THEOREM RestoresTheOthers ==
  ASSUME ConsistentScenarios
  PROVE  Spec => []OthersRestored
<1> DEFINE Inv == MemberInv /\ RestoreInv
<1>1. Init => Inv
  BY MemberInit, RestoreInit
<1>2. Inv /\ [Next]_vars => Inv'
  BY MemberNext, RestoreNext
<1>3. Inv => OthersRestored
  <2> SUFFICES ASSUME Inv, NEW p \in Proc, NEW i \in Member, pc[p] = "done", AllAlone(p),
                      Stored(archive[p], i)
               PROVE  i \in faulty[p] \/ output[p][i] = i
    BY DEF OthersRestored, AllAlone
  <2>1. Restoring(p) /\ index[p] > num_files(p) /\ index[p] \in Nat
    BY DEF RestoreInv, Restoring, MemberInv, Types
  <2>2. num_files(p) \in Nat /\ Len(entries(p)) \in 0 .. num_files(p) /\ i <= Len(entries(p)) /\ i \in Nat
    BY Given, ArchiveAssumption DEF MemberInv, Stored, entries, Member
  <2>3. i < index[p]
    BY <2>1, <2>2
  <2> QED BY <2>1, <2>3 DEF Restoring, EarlierRestored
<1> QED BY <1>1, <1>2, <1>3, PTL DEF Spec
=============================================================================

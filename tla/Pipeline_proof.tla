--------------------------- MODULE Pipeline_proof ---------------------------
(***************************************************************************)
(* Proofs about expandPaths and about the commands of main.c, for every    *)
(* tree of files, list of inputs, archive name and sequence of commands.   *)
(***************************************************************************)
EXTENDS PipelineInv, FiniteSetTheorems, SequenceTheorems, TLAPS

-----------------------------------------------------------------------------
(* expandPaths: the invariant, in named parts. *)

Frames == [path : Seq(Node), unread : SUBSET Node]

ListTypes ==
  /\ expand \in {"idle", "scan", "list", "null"}
  /\ input \in Nat \ {0}
  /\ stack \in Seq(Frames)
  /\ paths \in Seq(Seq(Node)) /\ count \in Nat
  /\ missed \subseteq Seq(Node) /\ failures \in Nat

\* w is a path from an input, over directories.
IsWalk(w) ==
  /\ w[1] \in InputSet
  /\ \A k \in 1 .. Len(w) - 1 : Kind[w[k]] = "dir" /\ w[k + 1] \in Entries[w[k]]

\* p is where w begins, place by place.
Prefix(p, w) == Len(p) <= Len(w) /\ \A k \in 1 .. Len(p) : w[k] = p[k]

\* The calls on the stack s have descended from the input before next, one directory
\* each, and the entry that the next one has descended into is no longer to be read.
StackOf(s, next) ==
  /\ s # <<>> => next - 1 \in DOMAIN Inputs
  /\ \A i \in 1 .. Len(s) :
       /\ Len(s[i].path) = i /\ i <= MaxPath
       /\ s[i].path[1] = Inputs[next - 1]
       /\ IsWalk(s[i].path)
       /\ Kind[s[i].path[i]] = "dir"
       /\ s[i].unread \subseteq Entries[s[i].path[i]]
  /\ \A j \in 1 .. Len(s) : \A i \in 1 .. j - 1 :
       Prefix(s[i].path, s[j].path) /\ s[j].path[i + 1] \notin s[i].unread

\* w is below an entry of the directory of call i that is still to be read.
Below(s, i, w) ==
  Len(w) > i /\ Prefix(s[i].path, w) /\ w[i + 1] \in s[i].unread

\* w is below what the calls on the stack, or the inputs from next on, still have.
ToCome(s, next, w) ==
  \/ \E k \in DOMAIN Inputs : k >= next /\ w[1] = Inputs[k]
  \/ \E i \in 1 .. Len(s) : Below(s, i, w)

Pending(w) == ToCome(stack, input, w)

GivenUp(w) == \E p \in missed : Prefix(p, w)

\* Every wanted path is listed, given up, or still to come.
Covered == \A w \in Wanted : w \in Listed \/ GivenUp(w) \/ Pending(w)

\* And only one of the three.
Apart ==
  \A w \in Wanted :
    /\ Pending(w) => w \notin Listed /\ ~GivenUp(w)
    /\ w \in Listed => ~GivenUp(w)

Counted == Listed \subseteq Wanted /\ IsFiniteSet(Listed) /\ Cardinality(Listed) = count

ExpandInv ==
  expand \in {"scan", "list"} =>
    /\ StackOf(stack, input) /\ Covered /\ Apart /\ Counted
    /\ expand = "list" => stack = <<>> /\ input > Len(Inputs)

ListInv == ListTypes /\ ListedPathsExist

-----------------------------------------------------------------------------
(* Sequences and paths. *)

\* What follows about the wanted paths from their definition.
LEMMA WantedPaths ==
  /\ \A w \in Wanted :
       /\ w \in Seq(Node) /\ Len(w) \in 1 .. MaxPath /\ IsWalk(w)
       /\ Kind[w[Len(w)]] = "file" \/ (Len(w) = 1 /\ Kind[w[1]] = "other")
  /\ \A w \in Seq(Node) :
       /\ Len(w) \in 1 .. MaxPath /\ IsWalk(w)
       /\ Kind[w[Len(w)]] = "file" \/ (Len(w) = 1 /\ Kind[w[1]] = "other")
       => w \in Wanted
<1>1. ASSUME NEW w \in Wanted
      PROVE  /\ w \in Seq(Node) /\ Len(w) \in 1 .. MaxPath /\ IsWalk(w)
             /\ Kind[w[Len(w)]] = "file" \/ (Len(w) = 1 /\ Kind[w[1]] = "other")
  <2>1. PICK len \in 1 .. MaxPath :
          /\ w \in Walk(len)
          /\ IF len = 1 THEN Kind[w[1]] \in {"file", "other"} ELSE Kind[w[len]] = "file"
    BY <1>1 DEF Wanted
  <2>2. len \in Nat /\ w \in [1 .. len -> Node]
    BY <2>1, FileListAssumption DEF Walk
  <2>3. w \in Seq(Node) /\ Len(w) = len
    BY <2>2
  <2> QED BY <2>1, <2>3 DEF Walk, IsWalk
<1>2. ASSUME NEW w \in Seq(Node), Len(w) \in 1 .. MaxPath, IsWalk(w),
             Kind[w[Len(w)]] = "file" \/ (Len(w) = 1 /\ Kind[w[1]] = "other")
      PROVE  w \in Wanted
  <2>1. w \in Walk(Len(w))
    BY <1>2 DEF Walk, IsWalk
  <2> QED BY <1>2, <2>1 DEF Wanted
<1> QED BY <1>1, <1>2

\* Begins, place by place.
LEMMA BeginsIsPrefix ==
  ASSUME NEW p \in Seq(Node), NEW w \in Seq(Node)
  PROVE  Begins(p, w) <=> Prefix(p, w)
<1>1. CASE Len(p) <= Len(w)
  <2>1. /\ SubSeq(w, 1, Len(p)) \in Seq(Node) /\ Len(SubSeq(w, 1, Len(p))) = Len(p)
        /\ \A k \in 1 .. Len(p) : SubSeq(w, 1, Len(p))[k] = w[k]
    BY <1>1
  <2>2. (\A k \in 1 .. Len(p) : w[k] = p[k]) => SubSeq(w, 1, Len(p)) = p
    BY <2>1, SeqEqual
  <2> QED BY <1>1, <2>1, <2>2 DEF Begins, Prefix
<1>2. CASE ~(Len(p) <= Len(w))
  BY <1>2 DEF Begins, Prefix
<1> QED BY <1>1, <1>2

\* The path of an entry.
LEMMA Entry ==
  ASSUME NEW p \in Seq(Node), NEW n \in Node
  PROVE  /\ Append(p, n) \in Seq(Node) /\ Append(p, n) # <<>>
         /\ Len(Append(p, n)) = Len(p) + 1 /\ Append(p, n)[Len(p) + 1] = n
         /\ \A k \in 1 .. Len(p) : Append(p, n)[k] = p[k]
         /\ \A w \in Seq(Node) : Prefix(Append(p, n), w) <=>
                     Prefix(p, w) /\ Len(w) > Len(p) /\ w[Len(p) + 1] = n
<1>1. /\ Append(p, n) \in Seq(Node) /\ Append(p, n) # <<>>
      /\ Len(Append(p, n)) = Len(p) + 1 /\ Append(p, n)[Len(p) + 1] = n
      /\ \A k \in 1 .. Len(p) : Append(p, n)[k] = p[k]
      /\ Len(p) \in Nat
  BY AppendProperties
<1>2. 1 .. Len(p) + 1 = (1 .. Len(p)) \union {Len(p) + 1}
  BY <1>1
<1> QED BY <1>1, <1>2 DEF Prefix

-----------------------------------------------------------------------------
(* The array. *)

\* A path is added, after the array has grown if it must.
LEMMA AddStep ==
  ASSUME ListInv, NEW path \in Seq(Node) \ {<<>>}, Add(path)
  PROVE  /\ paths' \in Seq(Seq(Node)) /\ count' = count + 1 /\ UNCHANGED <<missed, failures>>
         /\ ListedPathsExist' /\ Listed' = Listed \union {path}
<1> DEFINE grown == Grown
           old == PathsOf(grown)
<1>1. /\ paths \in Seq(Seq(Node)) /\ count \in Nat /\ Len(paths) \in Nat /\ count <= Len(paths)
      /\ \A k \in 1 .. count : paths[k] # <<>>
  BY DEF ListInv, ListTypes, ListedPathsExist, capacity, Unset
<1>2. grown \in Nat /\ grown > count /\ grown >= Len(paths)
  BY <1>1, FileListAssumption DEF Grown, capacity
<1>3. /\ paths' = [old EXCEPT ![count + 1] = path] /\ count' = count + 1
      /\ UNCHANGED <<missed, failures>>
  BY DEF Add
<1> HIDE DEF grown
<1>4. /\ old \in [1 .. grown -> Seq(Node)]
      /\ \A k \in 1 .. count : old[k] = paths[k]
  <2>1. <<>> \in Seq(Node)
    OBVIOUS
  <2> QED BY <1>1, <1>2, <2>1 DEF PathsOf, Unset, capacity
<1> HIDE DEF old
<1>5. /\ paths' \in [1 .. grown -> Seq(Node)]
      /\ paths'[count + 1] = path /\ \A k \in 1 .. count : paths'[k] = paths[k]
  BY <1>1, <1>2, <1>3, <1>4
<1>6. paths' \in Seq(Seq(Node)) /\ Len(paths') = grown
  BY <1>2, <1>5
<1>7. 1 .. count' = (1 .. count) \union {count + 1}
  BY <1>1, <1>3
<1>8. ListedPathsExist'
  <2>1. count' <= Len(paths')
    BY <1>1, <1>2, <1>3, <1>6
  <2>2. \A k \in 1 .. count' : paths'[k] # <<>>
    BY <1>1, <1>5, <1>7
  <2> QED BY <2>1, <2>2 DEF ListedPathsExist, capacity, Unset
<1>9. Listed' = Listed \union {path}
  BY <1>5, <1>7 DEF Listed
<1> QED BY <1>3, <1>6, <1>8, <1>9

\* Without memory nothing is listed that was not, and the path counts as missed.
LEMMA AddFailsStep ==
  ASSUME ListInv, NEW path \in Seq(Node) \ {<<>>}, AddFails(path)
  PROVE  /\ paths' \in Seq(Seq(Node)) /\ count' = count /\ failures' \in Nat
         /\ missed' = missed \union {path}
         /\ ListedPathsExist' /\ Listed' = Listed
<1> DEFINE grown == Grown
           old == PathsOf(grown)
<1>1. /\ paths \in Seq(Seq(Node)) /\ count \in Nat /\ Len(paths) \in Nat /\ count <= Len(paths)
      /\ \A k \in 1 .. count : paths[k] # <<>>
  BY DEF ListInv, ListTypes, ListedPathsExist, capacity, Unset
<1>2. grown \in Nat /\ grown > count /\ grown >= Len(paths)
  BY <1>1, FileListAssumption DEF Grown, capacity
<1>3. failures' \in Nat /\ missed' = missed \union {path}
  BY FileListAssumption DEF AddFails, CallFails, ListInv, ListTypes
<1>4. CASE UNCHANGED <<paths, count>>
  BY <1>1, <1>3, <1>4 DEF ListInv, ListedPathsExist, Listed, capacity
<1>5. CASE paths' = [old EXCEPT ![count + 1] = Unset] /\ count' = count
  <2> HIDE DEF grown
  <2>1. <<>> \in Seq(Node)
    OBVIOUS
  <2>2. /\ old \in [1 .. grown -> Seq(Node)]
        /\ \A k \in 1 .. count : old[k] = paths[k]
    BY <1>1, <1>2, <2>1 DEF PathsOf, Unset, capacity
  <2> HIDE DEF old
  <2>3. /\ paths' \in [1 .. grown -> Seq(Node)]
        /\ \A k \in 1 .. count : paths'[k] = paths[k]
    BY <1>1, <1>2, <1>5, <2>1, <2>2 DEF Unset
  <2>4. paths' \in Seq(Seq(Node)) /\ Len(paths') = grown
    BY <1>2, <2>3
  <2>5. ListedPathsExist'
    <3>1. count' = count /\ count <= Len(paths')
      BY <1>1, <1>2, <1>5, <2>4
    <3>2. \A k \in 1 .. count : paths'[k] # <<>>
      BY <1>1, <2>3
    <3> QED BY <3>1, <3>2 DEF ListedPathsExist, capacity, Unset
  <2>6. Listed' = Listed
    BY <1>5, <2>3 DEF Listed
  <2> QED BY <1>3, <1>5, <2>4, <2>5, <2>6
<1> QED BY <1>4, <1>5 DEF AddFails, CountAfterNoCopy

-----------------------------------------------------------------------------
(* The steps of expandPaths keep the array. *)

\* The call on top of the stack and the entry that it reads.
LEMMA ReadingEntry ==
  ASSUME ListTypes, NEW n \in Node, Reading(n)
  PROVE  /\ Len(stack) \in Nat \ {0} /\ Top \in Frames /\ Top.path \in Seq(Node)
         /\ PathOf(n) \in Seq(Node) \ {<<>>}
         /\ ReadPast(n) \in Seq(Frames)
         /\ Len(ReadPast(n)) = Len(stack)
         /\ \A i \in 1 .. Len(stack) - 1 : ReadPast(n)[i] = stack[i]
         /\ ReadPast(n)[Len(stack)].path = Top.path
         /\ ReadPast(n)[Len(stack)].unread = Top.unread \ {n}
<1>1. stack \in Seq(Frames) /\ stack # <<>> /\ Len(stack) \in Nat \ {0}
  BY EmptySeq DEF ListTypes, Reading
<1>2. Top \in Frames
  BY <1>1 DEF Top
<1>3. PathOf(n) \in Seq(Node) \ {<<>>}
  BY <1>2, Entry DEF PathOf, Frames
<1> DEFINE top == [stack[Len(stack)] EXCEPT !.unread = @ \ {n}]
<1>4. ReadPast(n) = [stack EXCEPT ![Len(stack)] = top]
  BY <1>1 DEF ReadPast
<1>5. top \in Frames /\ top.path = Top.path /\ top.unread = Top.unread \ {n}
  BY <1>2 DEF Frames, Top
<1> HIDE DEF top
<1>6. /\ ReadPast(n) \in Seq(Frames) /\ Len(ReadPast(n)) = Len(stack)
      /\ \A i \in 1 .. Len(stack) - 1 : ReadPast(n)[i] = stack[i]
      /\ ReadPast(n)[Len(stack)] = top
  BY <1>1, <1>4, <1>5
<1> QED BY <1>1, <1>2, <1>3, <1>5, <1>6 DEF Frames

\* The call of a directory begins with all its entries unread.
LEMMA FrameType ==
  ASSUME NEW p \in Seq(Node), p # <<>>
  PROVE  Frame(p) \in Frames /\ Frame(p).path = p /\ Frame(p).unread = Entries[p[Len(p)]]
<1>1. p[Len(p)] \in Node
  BY EmptySeq
<1> QED BY <1>1, FileListAssumption DEF Frame, Frames

\* Every step keeps the types, and no empty slot gets among the listed ones.
LEMMA ExpandKeepsList ==
  ASSUME ListInv, ExpandStep
  PROVE  ListInv'
<1> USE DEF ListInv
<1>1. ASSUME NextInput
      PROVE  /\ input + 1 \in Nat \ {0} /\ Inputs[input] \in Node
             /\ <<Inputs[input]>> \in Seq(Node) \ {<<>>}
  <2>1. input \in 1 .. Len(Inputs) /\ Inputs \in Seq(Node)
    BY <1>1, FileListAssumption DEF NextInput, ListTypes
  <2> QED BY <2>1
<1>2. CASE SkipInput
  <2>1. failures' \in Nat
    BY <1>2 DEF SkipInput, CallFails, ListTypes
  <2>2. missed' \subseteq Seq(Node) /\ input' \in Nat \ {0}
    BY <1>1, <1>2 DEF SkipInput, AfterSkip, Miss, ListTypes
  <2>3. UNCHANGED <<expand, stack, paths, count>>
    BY <1>2 DEF SkipInput, Miss
  <2> QED BY <2>1, <2>2, <2>3 DEF ListTypes, ListedPathsExist, capacity
<1>3. CASE ScanInput
  <2>1. stack' \in Seq(Frames)
    <3> DEFINE p == <<Inputs[input]>>
    <3>1. p \in Seq(Node) /\ p # <<>> /\ stack' = <<Frame(p)>>
      BY <1>1, <1>3 DEF ScanInput
    <3> HIDE DEF p
    <3>2. Frame(p) \in Frames
      BY <3>1, FrameType
    <3> QED BY <3>1, <3>2
  <2> QED BY <1>1, <1>3, <2>1 DEF ScanInput, ListTypes, ListedPathsExist, capacity
<1>4. CASE AddInput
  <2> DEFINE path == <<Inputs[input]>>
  <2>1. path \in Seq(Node) \ {<<>>} /\ input' = input + 1 /\ input + 1 \in Nat \ {0}
        /\ stack' = stack
    BY <1>1, <1>4 DEF AddInput
  <2> HIDE DEF path
  <2>2. CASE Add(path) /\ UNCHANGED expand
    BY <2>1, <2>2, AddStep DEF ListTypes
  <2>3. CASE AddFails(path) /\ expand' = "null"
    BY <2>1, <2>3, AddFailsStep DEF ListTypes
  <2> QED BY <1>4, <2>2, <2>3 DEF AddInput, path
<1>5. CASE ReturnList
  BY <1>5 DEF ReturnList, ListTypes, ListedPathsExist, capacity
<1>6. ASSUME NEW n \in Node, SkipEntry(n) \/ AddEntry(n) \/ IgnoreEntry(n) \/ DescendInto(n)
      PROVE  ListInv'
  <2>1. /\ Reading(n) /\ UNCHANGED <<expand, input>>
        /\ stack' = ReadPast(n) \/ stack' = Append(ReadPast(n), Frame(PathOf(n)))
    BY <1>6 DEF SkipEntry, AddEntry, IgnoreEntry, DescendInto
  <2>2. PathOf(n) \in Seq(Node) \ {<<>>} /\ stack' \in Seq(Frames)
    <3>1. PathOf(n) \in Seq(Node) \ {<<>>} /\ ReadPast(n) \in Seq(Frames)
      BY <2>1, ReadingEntry
    <3>2. Frame(PathOf(n)) \in Frames
      BY <3>1, FrameType
    <3>3. Append(ReadPast(n), Frame(PathOf(n))) \in Seq(Frames)
      BY <3>1, <3>2, AppendProperties
    <3> QED BY <2>1, <3>1, <3>3
  <2>3. CASE SkipEntry(n)
    BY <2>1, <2>2, <2>3, FileListAssumption DEF SkipEntry, Miss, CallFails, ListTypes, ListedPathsExist, capacity
  <2>4. CASE AddEntry(n)
    BY <2>1, <2>2, <2>4, AddStep, AddFailsStep DEF AddEntry, ListTypes
  <2>5. CASE IgnoreEntry(n) \/ DescendInto(n)
    BY <2>1, <2>2, <2>5 DEF IgnoreEntry, DescendInto, ListTypes, ListedPathsExist, capacity
  <2> QED BY <1>6, <2>3, <2>4, <2>5
<1>7. CASE CloseDirectory
  <2>1. stack \in Seq(Frames) /\ Len(stack) \in Nat \ {0}
    BY <1>7, EmptySeq DEF CloseDirectory, ListTypes
  <2>2. SubSeq(stack, 1, Len(stack) - 1) \in Seq(Frames)
    BY <2>1
  <2> QED BY <1>7, <2>2 DEF CloseDirectory, ListTypes, ListedPathsExist, capacity
<1> QED BY <1>2, <1>3, <1>4, <1>5, <1>6, <1>7 DEF ExpandStep

-----------------------------------------------------------------------------
(* What is still to come, before and after a step. *)

\* A directory that a walk ends in leads to its entries.
LEMMA WalkOn ==
  ASSUME NEW p \in Seq(Node), Len(p) > 0, IsWalk(p), Kind[p[Len(p)]] = "dir",
         NEW n \in Node, n \in Entries[p[Len(p)]]
  PROVE  IsWalk(Append(p, n))
<1>1. /\ Len(p) \in Nat \ {0} /\ Len(Append(p, n)) = Len(p) + 1
      /\ Append(p, n)[Len(p) + 1] = n
      /\ \A k \in 1 .. Len(p) : Append(p, n)[k] = p[k]
  BY Entry
<1>2. Append(p, n)[1] \in InputSet
  BY <1>1 DEF IsWalk
<1>3. ASSUME NEW k \in 1 .. Len(p)
      PROVE  /\ Kind[Append(p, n)[k]] = "dir"
             /\ Append(p, n)[k + 1] \in Entries[Append(p, n)[k]]
  <2>1. CASE k = Len(p)
    BY <1>1, <2>1
  <2>2. CASE k # Len(p)
    <3>1. k \in 1 .. Len(p) - 1 /\ k + 1 \in 1 .. Len(p)
      BY <1>1, <1>3, <2>2
    <3> QED BY <1>1, <1>3, <3>1 DEF IsWalk
  <2> QED BY <2>1, <2>2
<1> QED BY <1>1, <1>2, <1>3 DEF IsWalk

\* The entry n of the directory on top of the stack is read: what is below it, and
\* nothing else, is no longer to come.
LEMMA ReadOne ==
  ASSUME DistinctInputs, NEW s \in Seq(Frames), s # <<>>, NEW next \in Nat \ {0}, StackOf(s, next),
         NEW n \in Node, n \in s[Len(s)].unread,
         NEW t \in Seq(Frames), Len(t) = Len(s),
         \A i \in 1 .. Len(s) - 1 : t[i] = s[i],
         t[Len(s)].path = s[Len(s)].path, t[Len(s)].unread = s[Len(s)].unread \ {n}
  PROVE  /\ StackOf(t, next)
         /\ \A w \in Wanted : ToCome(s, next, w) <=>
              ToCome(t, next, w) \/ Prefix(Append(s[Len(s)].path, n), w)
         /\ \A w \in Wanted : ~(ToCome(t, next, w) /\ Prefix(Append(s[Len(s)].path, n), w))
<1> DEFINE L == Len(s)
           p == s[L].path
<1>1. L \in Nat \ {0}
  BY EmptySeq
<1>2. /\ p \in Seq(Node) /\ Len(p) = L
      /\ \A w \in Wanted : w \in Seq(Node) /\ Len(w) \in Nat
  <2>1. s[L] \in Frames /\ L \in 1 .. Len(s)
    BY <1>1
  <2>2. \A w \in Wanted : w \in Seq(Node)
    BY WantedPaths
  <2> QED BY <2>1, <2>2 DEF StackOf, Frames
<1>3. \A i \in 1 .. L : t[i].path = s[i].path /\ t[i].unread \subseteq s[i].unread
  <2> TAKE i \in 1 .. L
  <2>1. CASE i = L
    BY <2>1
  <2>2. CASE i # L
    BY <1>1, <2>2
  <2> QED BY <2>1, <2>2
<1>4. StackOf(t, next)
  <2>1. \A i \in 1 .. L :
          /\ Len(t[i].path) = i /\ i <= MaxPath
          /\ t[i].path[1] = Inputs[next - 1]
          /\ IsWalk(t[i].path)
          /\ Kind[t[i].path[i]] = "dir"
          /\ t[i].unread \subseteq Entries[t[i].path[i]]
    BY <1>3 DEF StackOf
  <2>2. ASSUME NEW j \in 1 .. L, NEW i \in 1 .. j - 1
        PROVE  Prefix(t[i].path, t[j].path) /\ t[j].path[i + 1] \notin t[i].unread
    <3>1. i \in 1 .. L
      BY <1>1
    <3>2. Prefix(s[i].path, s[j].path) /\ s[j].path[i + 1] \notin s[i].unread
      BY <2>2 DEF StackOf
    <3> QED BY <1>3, <3>1, <3>2
  <2> QED BY <2>1, <2>2 DEF StackOf
<1>5. \A w \in Wanted : Prefix(Append(p, n), w) <=> Prefix(p, w) /\ Len(w) > L /\ w[L + 1] = n
  BY <1>2, Entry
<1>6. \A w : Below(s, L, w) <=> Below(t, L, w) \/ (Prefix(p, w) /\ Len(w) > L /\ w[L + 1] = n)
  BY DEF Below
<1>7. \A w : \A i \in 1 .. L - 1 : Below(s, i, w) <=> Below(t, i, w)
  BY DEF Below
<1>8. 1 .. L = (1 .. L - 1) \union {L}
  BY <1>1
<1>9. ASSUME NEW w \in Wanted
      PROVE  ToCome(s, next, w) <=> ToCome(t, next, w) \/ Prefix(Append(p, n), w)
  BY <1>5, <1>6, <1>7, <1>8 DEF ToCome
<1>10. ASSUME NEW w \in Wanted, ToCome(t, next, w), Prefix(Append(p, n), w)
       PROVE  FALSE
  <2>1. Prefix(p, w) /\ Len(w) > L /\ w[L + 1] = n
    BY <1>5, <1>10
  <2>2. w[1] = Inputs[next - 1] /\ next - 1 \in DOMAIN Inputs
    BY <1>1, <1>2, <2>1 DEF StackOf, Prefix
  <2>3. CASE \E k \in DOMAIN Inputs : k >= next /\ w[1] = Inputs[k]
    <3>1. PICK k \in DOMAIN Inputs : k >= next /\ w[1] = Inputs[k]
      BY <2>3
    <3>2. k = next - 1
      BY <2>2, <3>1 DEF DistinctInputs
    <3> QED BY <3>1, <3>2
  <2>4. ASSUME NEW i \in 1 .. L, Below(t, i, w)
        PROVE  FALSE
    <3>1. CASE i = L
      BY <2>1, <2>4, <3>1 DEF Below
    <3>2. CASE i # L
      <4>1. i \in 1 .. L - 1 /\ i + 1 \in 1 .. L
        BY <1>1, <3>2
      <4>2. w[i + 1] = p[i + 1]
        BY <1>2, <2>1, <4>1 DEF Prefix
      <4>3. p[i + 1] \notin s[i].unread
        BY <1>1, <4>1 DEF StackOf
      <4> QED BY <2>4, <4>1, <4>2, <4>3 DEF Below
    <3> QED BY <3>1, <3>2
  <2> QED BY <1>10, <2>3, <2>4 DEF ToCome
<1> QED BY <1>4, <1>9, <1>10

\* Descending into a directory changes nothing of what is to come.
LEMMA Descend ==
  ASSUME NEW t \in Seq(Frames), NEW next \in Nat \ {0}, StackOf(t, next),
         NEW q \in Seq(Node), Len(q) = Len(t) + 1, Len(q) <= MaxPath, IsWalk(q),
         next - 1 \in DOMAIN Inputs, q[1] = Inputs[next - 1], Kind[q[Len(q)]] = "dir",
         \A i \in 1 .. Len(t) : Prefix(t[i].path, q) /\ q[i + 1] \notin t[i].unread
  PROVE  /\ StackOf(Append(t, Frame(q)), next)
         /\ \A w \in Wanted : ToCome(Append(t, Frame(q)), next, w) <=>
              ToCome(t, next, w) \/ Prefix(q, w)
<1> DEFINE L == Len(t)
           u == Append(t, Frame(q))
<1>1. L \in Nat /\ q # <<>>
  <2>1. Len(t) \in Nat
    BY LenProperties
  <2>2. Len(q) # 0
    BY <2>1
  <2> QED BY <2>1, <2>2, EmptySeq
<1>2. Frame(q) \in Frames /\ Frame(q).path = q /\ Frame(q).unread = Entries[q[Len(q)]]
  BY <1>1, FrameType
<1>3. /\ u \in Seq(Frames) /\ Len(u) = L + 1 /\ u[L + 1] = Frame(q)
      /\ \A i \in 1 .. L : u[i] = t[i]
  BY <1>2, AppendProperties
<1> HIDE DEF u
<1>4. 1 .. L + 1 = (1 .. L) \union {L + 1}
  BY <1>1
<1>5. StackOf(u, next)
  <2>1. \A i \in 1 .. L + 1 :
          /\ Len(u[i].path) = i /\ i <= MaxPath
          /\ u[i].path[1] = Inputs[next - 1]
          /\ IsWalk(u[i].path)
          /\ Kind[u[i].path[i]] = "dir"
          /\ u[i].unread \subseteq Entries[u[i].path[i]]
    BY <1>2, <1>3, <1>4 DEF StackOf
  <2>2. ASSUME NEW j \in 1 .. L + 1, NEW i \in 1 .. j - 1
        PROVE  Prefix(u[i].path, u[j].path) /\ u[j].path[i + 1] \notin u[i].unread
    <3>1. CASE j = L + 1
      BY <1>1, <1>2, <1>3, <2>2, <3>1
    <3>2. CASE j # L + 1
      <4>1. j \in 1 .. L /\ i \in 1 .. L
        BY <1>1, <2>2, <3>2
      <4> QED BY <1>3, <2>2, <4>1 DEF StackOf
    <3> QED BY <3>1, <3>2
  <2> QED BY <1>3, <2>1, <2>2 DEF StackOf
<1>6. ASSUME NEW w \in Wanted
      PROVE  Below(u, L + 1, w) <=> Prefix(q, w)
  <2>1. Below(u, L + 1, w) => Prefix(q, w)
    BY <1>2, <1>3 DEF Below
  <2>2. ASSUME Prefix(q, w)
        PROVE  Below(u, L + 1, w)
    <3>1. w \in Seq(Node) /\ Len(w) \in Nat /\ IsWalk(w) /\ Kind[w[Len(w)]] # "dir"
      BY WantedPaths
    <3>2. L + 1 <= Len(w) /\ w[L + 1] = q[L + 1] /\ Kind[w[L + 1]] = "dir"
      BY <1>1, <2>2 DEF Prefix
    <3>3. L + 1 \in 1 .. Len(w) - 1
      BY <1>1, <3>1, <3>2
    <3>4. w[(L + 1) + 1] \in Entries[w[L + 1]]
      BY <3>1, <3>3 DEF IsWalk
    <3>5. Len(w) > L + 1
      BY <1>1, <3>1, <3>3
    <3> QED BY <1>2, <1>3, <2>2, <3>2, <3>4, <3>5 DEF Below
  <2> QED BY <2>1, <2>2
<1>7. \A w : \A i \in 1 .. L : Below(u, i, w) <=> Below(t, i, w)
  BY <1>3 DEF Below
<1>8. \A w \in Wanted : ToCome(u, next, w) <=> ToCome(t, next, w) \/ Prefix(q, w)
  BY <1>3, <1>4, <1>6, <1>7 DEF ToCome
<1> QED BY <1>5, <1>8 DEF u

\* A directory that has been read is left.
LEMMA Leave ==
  ASSUME NEW s \in Seq(Frames), s # <<>>, NEW next \in Nat \ {0}, StackOf(s, next),
         s[Len(s)].unread = {}
  PROVE  /\ StackOf(SubSeq(s, 1, Len(s) - 1), next)
         /\ \A w : ToCome(SubSeq(s, 1, Len(s) - 1), next, w) <=> ToCome(s, next, w)
<1> DEFINE L == Len(s)
           t == SubSeq(s, 1, L - 1)
<1>1. L \in Nat \ {0}
  BY EmptySeq
<1>2. Len(t) = L - 1 /\ \A i \in 1 .. L - 1 : t[i] = s[i]
  <2> DEFINE n == L - 1
  <2>1. n \in Nat /\ n <= Len(s)
    BY <1>1
  <2>2. SubSeq(s, 1, n) \in Seq(Frames) /\ Len(SubSeq(s, 1, n)) = n
        /\ \A i \in 1 .. n : SubSeq(s, 1, n)[i] = s[i]
    <3> HIDE DEF n
    <3> QED BY <2>1
  <2> QED BY <2>2
<1> HIDE DEF t
<1>3. 1 .. L = (1 .. L - 1) \union {L}
  BY <1>1
<1>4. StackOf(t, next)
  BY <1>1, <1>2, <1>3 DEF StackOf
<1>5. \A w : ~Below(s, L, w)
  BY DEF Below
<1>6. \A w : \A i \in 1 .. L - 1 : Below(t, i, w) <=> Below(s, i, w)
  BY <1>2 DEF Below
<1> QED BY <1>2, <1>3, <1>4, <1>5, <1>6 DEF ToCome, t

\* The next of the inputs is taken.
LEMMA TakeInput ==
  ASSUME DistinctInputs, NEW next \in DOMAIN Inputs
  PROVE  /\ next \in Nat \ {0} /\ next + 1 \in Nat \ {0} /\ StackOf(<<>>, next + 1)
         /\ <<Inputs[next]>> \in Seq(Node) /\ <<Inputs[next]>> # <<>> /\ IsWalk(<<Inputs[next]>>)
         /\ \A w \in Wanted : Prefix(<<Inputs[next]>>, w) <=> w[1] = Inputs[next]
         /\ \A w \in Wanted : ToCome(<<>>, next, w) <=>
              ToCome(<<>>, next + 1, w) \/ Prefix(<<Inputs[next]>>, w)
         /\ \A w \in Wanted : ~(ToCome(<<>>, next + 1, w) /\ Prefix(<<Inputs[next]>>, w))
<1>1. Inputs \in Seq(Node) /\ DOMAIN Inputs = 1 .. Len(Inputs) /\ Len(Inputs) \in Nat
  BY FileListAssumption, LenProperties
<1>2. next \in Nat \ {0} /\ next + 1 \in Nat \ {0} /\ Inputs[next] \in Node
  BY <1>1
<1>3. StackOf(<<>>, next + 1)
  BY DEF StackOf
<1> DEFINE p == <<Inputs[next]>>
<1>4. p \in Seq(Node) /\ p # <<>> /\ Len(p) = 1 /\ p[1] = Inputs[next]
  BY <1>2
<1> HIDE DEF p
<1>5. IsWalk(p)
  BY <1>4 DEF IsWalk, InputSet
<1>6. \A w \in Wanted : Prefix(p, w) <=> w[1] = Inputs[next]
  <2>1. \A w \in Wanted : w \in Seq(Node) /\ Len(w) >= 1
    BY WantedPaths
  <2> QED BY <1>4, <2>1 DEF Prefix
<1>7. \A k \in DOMAIN Inputs : k >= next <=> k >= next + 1 \/ k = next
  BY <1>1
<1>8. \A w \in Wanted : ToCome(<<>>, next, w) <=> ToCome(<<>>, next + 1, w) \/ w[1] = Inputs[next]
  BY <1>7 DEF ToCome
<1>9. \A w \in Wanted : ~(ToCome(<<>>, next + 1, w) /\ w[1] = Inputs[next])
  <2>1. \A k \in DOMAIN Inputs : k >= next + 1 => k # next
    BY <1>1
  <2> QED BY <2>1 DEF ToCome, DistinctInputs
<1> QED BY <1>2, <1>3, <1>4, <1>5, <1>6, <1>8, <1>9 DEF p

-----------------------------------------------------------------------------
(* What becomes of the paths below one that is taken. *)

\* It is given up, with all that is below it.
LEMMA PathMissed ==
  ASSUME Covered, Apart, Counted, NEW p,
         \A w \in Wanted : Pending(w) <=> Pending(w)' \/ Prefix(p, w),
         \A w \in Wanted : ~(Pending(w)' /\ Prefix(p, w)),
         missed' = missed \union {p}, Listed' = Listed, count' = count
  PROVE  Covered' /\ Apart' /\ Counted'
<1>1. \A w : GivenUp(w)' <=> GivenUp(w) \/ Prefix(p, w)
  BY DEF GivenUp
<1>2. Counted'
  BY DEF Counted
<1> QED BY <1>1, <1>2 DEF Covered, Apart

\* It is listed, and nothing is below it.
LEMMA PathListed ==
  ASSUME Covered, Apart, Counted, NEW p \in Wanted, count \in Nat,
         \A w \in Wanted : Pending(w) <=> Pending(w)' \/ Prefix(p, w),
         \A w \in Wanted : ~(Pending(w)' /\ Prefix(p, w)),
         \A w \in Wanted : Prefix(p, w) => w = p,
         missed' = missed, Listed' = Listed \union {p}, count' = count + 1
  PROVE  Covered' /\ Apart' /\ Counted'
<1>1. \A w : GivenUp(w)' <=> GivenUp(w)
  BY DEF GivenUp
<1>2. Prefix(p, p)
  BY WantedPaths DEF Prefix
<1>3. Pending(p) /\ ~Pending(p)' /\ p \notin Listed
  BY <1>2 DEF Apart
<1>4. Counted'
  BY <1>3, FS_AddElement DEF Counted
<1> QED BY <1>1, <1>3, <1>4 DEF Covered, Apart

\* Nothing below it is wanted, or it is still to come.
LEMMA NothingWanted ==
  ASSUME Covered, Apart, Counted,
         \A w \in Wanted : Pending(w) <=> Pending(w)',
         missed' = missed, Listed' = Listed, count' = count
  PROVE  Covered' /\ Apart' /\ Counted'
<1>1. \A w : GivenUp(w)' <=> GivenUp(w)
  BY DEF GivenUp
<1> QED BY <1>1 DEF Covered, Apart, Counted

-----------------------------------------------------------------------------
(* The steps of expandPaths. *)

\* The loop over the inputs.
LEMMA InputStep ==
  ASSUME DistinctInputs, ListInv, ExpandInv, SkipInput \/ ScanInput \/ AddInput \/ ReturnList
  PROVE  ExpandInv'
<1>1. expand = "scan" /\ stack = <<>> /\ StackOf(stack, input) /\ Covered /\ Apart /\ Counted
  BY DEF SkipInput, ScanInput, AddInput, ReturnList, NextInput, ExpandInv
<1>2. Inputs \in Seq(Node) /\ DOMAIN Inputs = 1 .. Len(Inputs) /\ Len(Inputs) \in Nat
  BY FileListAssumption, LenProperties
<1>3. input \in Nat \ {0} /\ count \in Nat /\ missed \subseteq Seq(Node)
  BY DEF ListInv, ListTypes
<1>4. CASE ReturnList
  <2>1. UNCHANGED <<input, stack, paths, count, missed>> /\ input > Len(Inputs)
    BY <1>4 DEF ReturnList
  <2>2. Listed' = Listed /\ \A w \in Wanted : Pending(w)' <=> Pending(w)
    BY <2>1 DEF Listed, Pending
  <2>3. Covered' /\ Apart' /\ Counted'
    BY <1>1, <2>1, <2>2, NothingWanted
  <2> QED BY <1>1, <2>1, <2>3 DEF ExpandInv
<1>5. ASSUME NextInput
      PROVE  input \in DOMAIN Inputs
  BY <1>2, <1>3, <1>5 DEF NextInput
<1> DEFINE p == <<Inputs[input]>>
<1>6. ASSUME NextInput
      PROVE  /\ StackOf(<<>>, input + 1) /\ p \in Seq(Node) /\ p # <<>> /\ IsWalk(p)
             /\ Len(p) = 1 /\ p[1] = Inputs[input]
             /\ \A w \in Wanted : Prefix(p, w) <=> w[1] = Inputs[input]
             /\ \A w \in Wanted : Pending(w) <=> ToCome(<<>>, input + 1, w) \/ Prefix(p, w)
             /\ \A w \in Wanted : ~(ToCome(<<>>, input + 1, w) /\ Prefix(p, w))
  BY <1>1, <1>5, <1>6, TakeInput DEF Pending
<1>7. CASE SkipInput
  <2>1. /\ NextInput /\ input' = input + 1 /\ stack' = <<>> /\ missed' = missed \union {p}
        /\ UNCHANGED <<expand, paths, count>>
    BY <1>1, <1>7 DEF SkipInput, Miss, AfterSkip
  <2> HIDE DEF p
  <2>2. Listed' = Listed /\ \A w \in Wanted : Pending(w)' <=> ToCome(<<>>, input + 1, w)
    BY <2>1 DEF Listed, Pending
  <2>3. Covered' /\ Apart' /\ Counted'
    BY <1>1, <1>6, <2>1, <2>2, PathMissed
  <2> QED BY <1>1, <1>6, <2>1, <2>3 DEF ExpandInv
<1>8. CASE AddInput
  <2>1. /\ NextInput /\ input' = input + 1 /\ stack' = <<>>
        /\ Kind[Inputs[input]] \in {"file", "other"}
        /\ \/ Add(p) /\ UNCHANGED expand
           \/ expand' = "null"
    BY <1>1, <1>8 DEF AddInput
  <2> HIDE DEF p
  <2>2. CASE expand' = "null"
    BY <2>2 DEF ExpandInv
  <2>3. CASE Add(p) /\ UNCHANGED expand
    <3>1. count' = count + 1 /\ missed' = missed /\ Listed' = Listed \union {p}
      BY <1>6, <2>1, <2>3, AddStep
    <3>2. \A w \in Wanted : Pending(w)' <=> ToCome(<<>>, input + 1, w)
      BY <2>1 DEF Pending
    <3>3. p \in Wanted
      <4>1. p \in Seq(Node) /\ IsWalk(p) /\ Len(p) = 1 /\ p[1] = Inputs[input]
        BY <1>6, <2>1
      <4>2. Len(p) \in 1 .. MaxPath
        BY <4>1, FileListAssumption
      <4>3. Kind[p[Len(p)]] = "file" \/ (Len(p) = 1 /\ Kind[p[1]] = "other")
        BY <2>1, <4>1
      <4> QED BY <4>1, <4>2, <4>3, WantedPaths
    <3>4. ASSUME NEW w \in Wanted, Prefix(p, w)
          PROVE  w = p
      <4>1. w \in Seq(Node) /\ Len(w) \in Nat \ {0} /\ IsWalk(w) /\ w[1] = p[1]
        BY <1>6, <2>1, <3>4, WantedPaths
      <4>2. Kind[w[1]] # "dir"
        BY <1>6, <2>1, <4>1
      <4>3. ~(1 \in 1 .. Len(w) - 1)
        BY <4>1, <4>2 DEF IsWalk
      <4>4. Len(w) = 1
        <5> DEFINE l == Len(w)
        <5>1. l \in Nat \ {0} /\ ~(1 \in 1 .. l - 1)
          BY <4>1, <4>3
        <5> HIDE DEF l
        <5>2. l = 1
          BY <5>1
        <5> QED BY <5>2 DEF l
      <4> QED BY <1>6, <2>1, <4>1, <4>4, SeqEqual
    <3>5. Covered' /\ Apart' /\ Counted'
      BY <1>1, <1>3, <1>6, <2>1, <3>1, <3>2, <3>3, <3>4, PathListed
    <3> QED BY <1>1, <1>6, <2>1, <2>3, <3>5 DEF ExpandInv
  <2> QED BY <2>1, <2>2, <2>3
<1>9. CASE ScanInput
  <2>1. /\ NextInput /\ input' = input + 1 /\ stack' = <<Frame(p)>> /\ p[1] = Inputs[input]
        /\ Kind[p[1]] = "dir" /\ UNCHANGED <<expand, paths, count, missed>>
    BY <1>9 DEF ScanInput
  <2> HIDE DEF p
  <2>2. /\ StackOf(Append(<<>>, Frame(p)), input + 1)
        /\ \A w \in Wanted : ToCome(Append(<<>>, Frame(p)), input + 1, w) <=>
             ToCome(<<>>, input + 1, w) \/ Prefix(p, w)
    <3>1. <<>> \in Seq(Frames) /\ Len(<<>>) = 0 /\ input + 1 \in Nat \ {0}
          /\ (input + 1) - 1 = input /\ 1 <= MaxPath
      BY <1>3, FileListAssumption
    <3>2. /\ p \in Seq(Node) /\ Len(p) = Len(<<>>) + 1 /\ Len(p) <= MaxPath /\ IsWalk(p)
          /\ (input + 1) - 1 \in DOMAIN Inputs /\ p[1] = Inputs[(input + 1) - 1]
          /\ Kind[p[Len(p)]] = "dir"
      <4>1. p \in Seq(Node) /\ IsWalk(p) /\ Len(p) = 1 /\ input \in DOMAIN Inputs
        BY <1>5, <1>6, <2>1
      <4> QED BY <2>1, <3>1, <4>1
    <3>3. \A i \in 1 .. Len(<<>>) : Prefix(<<>>[i].path, p) /\ p[i + 1] \notin <<>>[i].unread
      BY <3>1
    <3> QED BY <1>6, <2>1, <3>1, <3>2, <3>3, Descend
  <2>3. stack' = Append(<<>>, Frame(p))
    BY <2>1
  <2>4. Listed' = Listed /\ \A w \in Wanted : Pending(w) <=> Pending(w)'
    BY <1>6, <2>1, <2>2, <2>3 DEF Listed, Pending
  <2>5. Covered' /\ Apart' /\ Counted'
    BY <1>1, <2>1, <2>4, NothingWanted
  <2> QED BY <1>1, <2>1, <2>2, <2>3, <2>5 DEF ExpandInv
<1>10. SkipInput \/ ScanInput \/ AddInput \/ ReturnList
  OBVIOUS
<1> QED BY <1>4, <1>7, <1>8, <1>9, <1>10

\* An entry of the directory on top of the stack.
LEMMA EntryRead ==
  ASSUME DistinctInputs, ListInv, ExpandInv, NEW n \in Node, Reading(n)
  PROVE  /\ expand = "scan" /\ StackOf(stack, input) /\ Covered /\ Apart /\ Counted
         /\ PathOf(n) \in Seq(Node) /\ PathOf(n) # <<>> /\ IsWalk(PathOf(n))
         /\ Len(PathOf(n)) = Len(stack) + 1 /\ Len(stack) \in Nat \ {0}
         /\ PathOf(n)[Len(PathOf(n))] = n
         /\ ReadPast(n) \in Seq(Frames) /\ Len(ReadPast(n)) = Len(stack)
         /\ StackOf(ReadPast(n), input)
         /\ \A w \in Wanted : Pending(w) <=>
              ToCome(ReadPast(n), input, w) \/ Prefix(PathOf(n), w)
         /\ \A w \in Wanted : ~(ToCome(ReadPast(n), input, w) /\ Prefix(PathOf(n), w))
<1>1. expand = "scan" /\ StackOf(stack, input) /\ Covered /\ Apart /\ Counted
  BY DEF Reading, ExpandInv
<1>2. /\ Len(stack) \in Nat \ {0} /\ Top \in Frames /\ Top.path \in Seq(Node)
      /\ ReadPast(n) \in Seq(Frames)
      /\ Len(ReadPast(n)) = Len(stack)
      /\ \A i \in 1 .. Len(stack) - 1 : ReadPast(n)[i] = stack[i]
      /\ ReadPast(n)[Len(stack)].path = Top.path
      /\ ReadPast(n)[Len(stack)].unread = Top.unread \ {n}
  BY ReadingEntry DEF ListInv
<1>3. stack \in Seq(Frames) /\ stack # <<>> /\ input \in Nat \ {0} /\ n \in Top.unread
  BY DEF ListInv, ListTypes, Reading
<1>4. /\ StackOf(ReadPast(n), input)
      /\ \A w \in Wanted : Pending(w) <=>
           ToCome(ReadPast(n), input, w) \/ Prefix(PathOf(n), w)
      /\ \A w \in Wanted : ~(ToCome(ReadPast(n), input, w) /\ Prefix(PathOf(n), w))
  BY <1>1, <1>2, <1>3, ReadOne DEF Top, PathOf, Pending
<1>5. /\ Len(Top.path) = Len(stack) /\ IsWalk(Top.path) /\ Kind[Top.path[Len(stack)]] = "dir"
      /\ n \in Entries[Top.path[Len(stack)]]
  <2>1. Len(stack) \in 1 .. Len(stack)
    BY <1>2
  <2> QED BY <1>1, <1>3, <2>1 DEF StackOf, Top
<1>6. /\ PathOf(n) \in Seq(Node) /\ PathOf(n) # <<>> /\ Len(PathOf(n)) = Len(stack) + 1
      /\ PathOf(n)[Len(stack) + 1] = n
  BY <1>2, <1>5, Entry DEF PathOf
<1>7. IsWalk(PathOf(n))
  <2>1. Len(Top.path) > 0
    BY <1>2, <1>5
  <2> QED BY <1>2, <1>5, <2>1, WalkOn DEF PathOf
<1> QED BY <1>1, <1>2, <1>4, <1>6, <1>7

\* collectFilesRecursive deals with an entry.
LEMMA EntryStep ==
  ASSUME DistinctInputs, ListInv, ExpandInv, NEW n \in Node,
         SkipEntry(n) \/ AddEntry(n) \/ IgnoreEntry(n)
  PROVE  ExpandInv'
<1> DEFINE p == PathOf(n)
<1>1. Reading(n) /\ stack' = ReadPast(n) /\ UNCHANGED <<expand, input>>
  BY DEF SkipEntry, AddEntry, IgnoreEntry
<1>2. /\ expand = "scan" /\ StackOf(stack, input) /\ Covered /\ Apart /\ Counted
      /\ p \in Seq(Node) /\ p # <<>> /\ IsWalk(p) /\ Len(p) = Len(stack) + 1
      /\ Len(stack) \in Nat \ {0} /\ p[Len(p)] = n
      /\ StackOf(ReadPast(n), input)
      /\ \A w \in Wanted : Pending(w) <=> ToCome(ReadPast(n), input, w) \/ Prefix(p, w)
      /\ \A w \in Wanted : ~(ToCome(ReadPast(n), input, w) /\ Prefix(p, w))
  BY <1>1, EntryRead
<1>3. \A w : Pending(w)' <=> ToCome(ReadPast(n), input, w)
  BY <1>1 DEF Pending
<1>4. StackOf(stack, input)' /\ (expand = "scan")'
  BY <1>1, <1>2
<1>5. count \in Nat
  BY DEF ListInv, ListTypes
<1> HIDE DEF p
<1>6. ASSUME Kind[n] # "dir", NEW w \in Wanted, Prefix(p, w)
      PROVE  Kind[n] = "file" /\ w = p
  <2>1. w \in Seq(Node) /\ Len(w) \in Nat /\ IsWalk(w)
        /\ (Kind[w[Len(w)]] = "file" \/ (Len(w) = 1 /\ Kind[w[1]] = "other"))
    BY WantedPaths
  <2>2. Len(p) \in Nat /\ Len(p) > 1 /\ Len(p) <= Len(w) /\ w[Len(p)] = n
    BY <1>2, <1>6 DEF Prefix
  <2>3. ~(Len(p) \in 1 .. Len(w) - 1)
    BY <1>6, <2>1, <2>2 DEF IsWalk
  <2>4. Len(w) = Len(p)
    BY <2>1, <2>2, <2>3
  <2> QED BY <1>2, <1>6, <2>1, <2>2, <2>4, SeqEqual DEF Prefix
<1>7. CASE SkipEntry(n)
  <2>1. missed' = missed \union {p} /\ UNCHANGED <<paths, count>>
    BY <1>7 DEF SkipEntry, Miss, p
  <2>2. Listed' = Listed
    BY <2>1 DEF Listed
  <2>3. Covered' /\ Apart' /\ Counted'
    BY <1>2, <1>3, <2>1, <2>2, PathMissed
  <2> QED BY <1>4, <2>3 DEF ExpandInv
<1>8. CASE AddEntry(n)
  <2>1. Kind[n] = "file" /\ Len(p) <= MaxPath /\ (Add(p) \/ AddFails(p))
    BY <1>8 DEF AddEntry, Collected, p
  <2>2. CASE Add(p)
    <3>1. count' = count + 1 /\ missed' = missed /\ Listed' = Listed \union {p}
      BY <1>2, <2>2, AddStep
    <3>2. p \in Wanted
      <4>1. Len(p) \in 1 .. MaxPath
        BY <1>2, <2>1, FileListAssumption
      <4> QED BY <1>2, <2>1, <4>1, WantedPaths
    <3>3. \A w \in Wanted : Prefix(p, w) => w = p
      BY <1>6, <2>1
    <3>4. Covered' /\ Apart' /\ Counted'
      BY <1>2, <1>3, <1>5, <3>1, <3>2, <3>3, PathListed
    <3> QED BY <1>4, <3>4 DEF ExpandInv
  <2>3. CASE AddFails(p)
    <3>1. missed' = missed \union {p} /\ Listed' = Listed /\ count' = count
      BY <1>2, <2>3, AddFailsStep
    <3>2. Covered' /\ Apart' /\ Counted'
      BY <1>2, <1>3, <3>1, PathMissed
    <3> QED BY <1>4, <3>2 DEF ExpandInv
  <2> QED BY <2>1, <2>2, <2>3
<1>9. CASE IgnoreEntry(n)
  <2>1. Kind[n] = "other" /\ UNCHANGED <<paths, count, missed>>
    BY <1>9 DEF IgnoreEntry
  <2>2. \A w \in Wanted : Pending(w) <=> Pending(w)'
    BY <1>2, <1>3, <1>6, <2>1
  <2>3. Listed' = Listed
    BY <2>1 DEF Listed
  <2>4. Covered' /\ Apart' /\ Counted'
    BY <1>2, <2>1, <2>2, <2>3, NothingWanted
  <2> QED BY <1>4, <2>4 DEF ExpandInv
<1> QED BY <1>7, <1>8, <1>9

\* It descends into a directory, or leaves one.
LEMMA DirectoryStep ==
  ASSUME DistinctInputs, ListInv, ExpandInv,
         CloseDirectory \/ \E n \in Node : DescendInto(n)
  PROVE  ExpandInv'
<1>1. CASE CloseDirectory
  <2>1. /\ expand = "scan" /\ stack # <<>> /\ stack[Len(stack)].unread = {}
        /\ stack' = SubSeq(stack, 1, Len(stack) - 1)
        /\ UNCHANGED <<expand, input, paths, count, missed>>
    BY <1>1 DEF CloseDirectory, Top
  <2>2. StackOf(stack, input) /\ Covered /\ Apart /\ Counted
    BY <2>1 DEF ExpandInv
  <2>3. /\ StackOf(stack', input)
        /\ \A w : ToCome(stack', input, w) <=> ToCome(stack, input, w)
    BY <2>1, <2>2, Leave DEF ListInv, ListTypes
  <2>4. Listed' = Listed /\ \A w \in Wanted : Pending(w) <=> Pending(w)'
    BY <2>1, <2>3 DEF Listed, Pending
  <2>5. Covered' /\ Apart' /\ Counted'
    BY <2>1, <2>2, <2>4, NothingWanted
  <2> QED BY <2>1, <2>3, <2>5 DEF ExpandInv
<1>2. ASSUME NEW n \in Node, DescendInto(n)
      PROVE  ExpandInv'
  <2> DEFINE t == ReadPast(n)
             q == PathOf(n)
  <2>1. /\ Reading(n) /\ Len(q) <= MaxPath /\ Kind[n] = "dir"
        /\ stack' = Append(t, Frame(q))
        /\ UNCHANGED <<expand, input, paths, count, missed>>
    BY <1>2 DEF DescendInto
  <2>2. /\ expand = "scan" /\ StackOf(stack, input) /\ Covered /\ Apart /\ Counted
        /\ q \in Seq(Node) /\ q # <<>> /\ IsWalk(q) /\ Len(q) = Len(stack) + 1
        /\ Len(stack) \in Nat \ {0} /\ q[Len(q)] = n
        /\ t \in Seq(Frames) /\ Len(t) = Len(stack) /\ StackOf(t, input)
        /\ \A w \in Wanted : Pending(w) <=> ToCome(t, input, w) \/ Prefix(q, w)
    BY <2>1, EntryRead
  <2>3. /\ Top.path \in Seq(Node) /\ Top = stack[Len(stack)]
        /\ \A i \in 1 .. Len(stack) - 1 : t[i] = stack[i]
        /\ t[Len(stack)].path = Top.path /\ t[Len(stack)].unread = Top.unread \ {n}
    BY <2>1, ReadingEntry DEF ListInv, Top
  <2>4. /\ Len(Top.path) = Len(stack)
        /\ \A k \in 1 .. Len(stack) : q[k] = Top.path[k]
        /\ q[Len(stack) + 1] = n
    <3>1. Len(stack) \in 1 .. Len(stack)
      BY <2>2
    <3>2. Len(Top.path) = Len(stack)
      BY <2>2, <2>3, <3>1 DEF StackOf
    <3> QED BY <2>3, <3>2, Entry DEF PathOf
  <2> HIDE DEF t, q
  <2>5. ASSUME NEW i \in 1 .. Len(t)
        PROVE  Prefix(t[i].path, q) /\ q[i + 1] \notin t[i].unread
    <3>1. CASE i = Len(stack)
      BY <2>2, <2>3, <2>4, <3>1 DEF Prefix
    <3>2. CASE i # Len(stack)
      <4>1. i \in 1 .. Len(stack) - 1 /\ i + 1 \in 1 .. Len(stack)
            /\ Len(stack) \in 1 .. Len(stack)
        BY <2>2, <3>2
      <4>2. Prefix(stack[i].path, Top.path) /\ Top.path[i + 1] \notin stack[i].unread
            /\ Len(stack[i].path) = i
        BY <2>2, <2>3, <4>1 DEF StackOf
      <4>3. t[i] = stack[i] /\ q[i + 1] = Top.path[i + 1]
        BY <2>3, <2>4, <4>1
      <4>4. Prefix(stack[i].path, q)
        BY <2>2, <2>4, <4>1, <4>2 DEF Prefix
      <4> QED BY <4>2, <4>3, <4>4
    <3> QED BY <3>1, <3>2
  <2>6. input - 1 \in DOMAIN Inputs /\ q[1] = Inputs[input - 1] /\ input \in Nat \ {0}
    <3>1. stack # <<>> /\ Len(stack) \in 1 .. Len(stack) /\ input \in Nat \ {0}
      BY <2>1, <2>2 DEF Reading, ListInv, ListTypes
    <3>2. Top.path[1] = Inputs[input - 1] /\ input - 1 \in DOMAIN Inputs
      BY <2>2, <2>3, <3>1 DEF StackOf
    <3> QED BY <2>2, <2>4, <3>1, <3>2
  <2>7. /\ StackOf(Append(t, Frame(q)), input)
        /\ \A w \in Wanted : ToCome(Append(t, Frame(q)), input, w) <=>
             ToCome(t, input, w) \/ Prefix(q, w)
    BY <2>1, <2>2, <2>5, <2>6, Descend
  <2>8. Listed' = Listed /\ \A w \in Wanted : Pending(w) <=> Pending(w)'
    BY <2>1, <2>2, <2>7 DEF Listed, Pending
  <2>9. Covered' /\ Apart' /\ Counted'
    BY <2>1, <2>2, <2>8, NothingWanted
  <2> QED BY <2>1, <2>2, <2>7, <2>9 DEF ExpandInv
<1> QED BY <1>1, <1>2

\* Every step of expandPaths keeps its invariant.
LEMMA ExpandKeepsInv ==
  ASSUME DistinctInputs, ListInv, ExpandInv, ExpandStep
  PROVE  ExpandInv'
BY InputStep, EntryStep, DirectoryStep DEF ExpandStep

\* The array of a call that has begun is empty.
LEMMA ExpandBegins ==
  ASSUME StartExpand
  PROVE  ListInv' /\ ExpandInv'
<1>1. /\ expand' = "scan" /\ input' = 1 /\ stack' = <<>> /\ paths' = <<>> /\ count' = 0
      /\ missed' = {} /\ failures' = 0
  BY DEF StartExpand
<1>2. <<>> \in Seq(Seq(Node)) /\ <<>> \in Seq(Frames) /\ Len(<<>>) = 0
  OBVIOUS
<1>3. ListInv'
  BY <1>1, <1>2 DEF ListInv, ListTypes, ListedPathsExist, capacity
<1>4. Listed' = {}
  BY <1>1 DEF Listed
<1>5. Counted'
  BY <1>1, <1>4, FS_EmptySet DEF Counted
<1>6. \A w : ~GivenUp(w)'
  BY <1>1 DEF GivenUp
<1>7. \A w \in Wanted : Pending(w)'
  <2> TAKE w \in Wanted
  <2>1. w[1] \in InputSet
    BY WantedPaths DEF IsWalk
  <2>2. \A k \in DOMAIN Inputs : k >= 1
    BY FileListAssumption, LenProperties
  <2> QED BY <1>1, <2>1, <2>2 DEF Pending, ToCome, InputSet
<1>8. Covered' /\ Apart'
  BY <1>4, <1>6, <1>7 DEF Covered, Apart
<1>9. StackOf(<<>>, 1)
  BY DEF StackOf
<1> QED BY <1>1, <1>3, <1>5, <1>8, <1>9 DEF ExpandInv

-----------------------------------------------------------------------------
(* The list in the stages of a command. *)

\* A step of a command is a step of expandPaths, begins one, leaves the list alone or
\* frees it, which CreateArchive does after it has given up some of the listed files.
ListStep ==
  \/ ExpandStep
  \/ StartExpand
  \/ UNCHANGED listVars
  \/ FreeList /\ missed' \subseteq missed \union ListedFiles /\ failures' \in Nat

\* Every step is one of these.
LEMMA StepOfTheList ==
  ASSUME ListInv, [Next]_vars
  PROVE  ListStep
<1>1. failures \in Nat /\ failures + 1 \in Nat
  BY DEF ListInv, ListTypes
<1>2. ASSUME NEW r, Return(r)
      PROVE  ListStep
  BY <1>2 DEF Return, ListStep
<1>3. ASSUME NEW r, Fail(r)
      PROVE  ListStep
  BY <1>2, <1>3 DEF Fail
<1>4. CASE Expand \/ NoFiles \/ OpenArchive
  BY <1>3, <1>4 DEF Expand, NoFiles, OpenArchive, ListStep
<1>5. CASE CreateArchive
  <2>1. ASSUME NEW lost \in SUBSET ListedFiles,
               IF lost = {} THEN UNCHANGED failures ELSE CallFails,
               missed' = missed \union lost, FreeList
        PROVE  ListStep
    <3>1. failures' \in Nat
      BY <1>1, <2>1 DEF CallFails
    <3> QED BY <2>1, <3>1 DEF ListStep
  <2> QED BY <1>3, <1>5, <2>1 DEF CreateArchive
<1>6. CASE ReadInput \/ OpenOutput \/ WriteOutput
  BY <1>3, <1>6 DEF ReadInput, OpenOutput, WriteOutput, ListStep
<1>7. CASE DerivePath \/ ExtractArchive \/ ListArchive
  BY <1>2, <1>3, <1>7 DEF DerivePath, ExtractArchive, ListArchive, Finish, ListStep
<1>8. CASE Cleanup \/ Ends \/ Kill
  BY <1>2, <1>8 DEF Cleanup, Ends, Kill
<1>9. CASE NextCommand \/ UNCHANGED vars
  BY <1>9 DEF NextCommand, Command, RejectArguments, ListStep, vars
<1> QED BY <1>4, <1>5, <1>6, <1>7, <1>8, <1>9 DEF Next, Stage, Terminated

\* Such a step keeps what is claimed about the list.
LEMMA ListStepKeeps ==
  ASSUME ListInv, ListStep
  PROVE  ListInv' /\ (DistinctInputs /\ ExpandInv => ExpandInv')
<1>1. CASE ExpandStep
  BY <1>1, ExpandKeepsList, ExpandKeepsInv
<1>2. CASE StartExpand
  BY <1>2, ExpandBegins
<1>3. CASE UNCHANGED listVars
  <2>1. UNCHANGED <<expand, input, stack, paths, count, missed, failures>>
    BY <1>3 DEF listVars
  <2>2. ListInv'
    BY <2>1 DEF ListInv, ListTypes, ListedPathsExist, capacity
  <2>3. ExpandInv => ExpandInv'
    BY <2>1 DEF ExpandInv, Covered, Apart, Counted, Listed, GivenUp, Pending
  <2> QED BY <2>2, <2>3
<1>4. CASE FreeList /\ missed' \subseteq missed \union ListedFiles /\ failures' \in Nat
  <2>1. /\ expand' = "idle" /\ input' = 1 /\ stack' = <<>> /\ paths' = <<>> /\ count' = 0
        /\ <<>> \in Seq(Seq(Node)) /\ <<>> \in Seq(Frames) /\ Len(<<>>) = 0
    BY <1>4 DEF FreeList
  <2>2. missed' \subseteq Seq(Node)
    <3>1. \A k \in 1 .. count : paths[k] \in Seq(Node)
      BY DEF ListInv, ListTypes, ListedPathsExist, capacity
    <3> QED BY <1>4, <3>1 DEF ListInv, ListTypes, ListedFiles
  <2> QED BY <1>4, <2>1, <2>2 DEF ListInv, ListTypes, ListedPathsExist, capacity, ExpandInv
<1> QED BY <1>1, <1>2, <1>3, <1>4 DEF ListStep

\* Before the first command there is no list.
LEMMA ListBegins ==
  ASSUME Init
  PROVE  ListInv /\ ExpandInv
<1>1. /\ expand = "idle" /\ input = 1 /\ stack = <<>> /\ paths = <<>> /\ count = 0
      /\ missed = {} /\ failures = 0
      /\ <<>> \in Seq(Seq(Node)) /\ <<>> \in Seq(Frames) /\ Len(<<>>) = 0
  BY DEF Init, ListInit
<1> QED BY <1>1 DEF ListInv, ListTypes, ListedPathsExist, capacity, ExpandInv

\* At its end, the invariant says what the caller of expandPaths relies on.
LEMMA ListAtTheEnd ==
  ASSUME ListInv, ExpandInv
  PROVE  ExpandFindsEveryFile
<1> SUFFICES ASSUME expand = "list"
             PROVE  /\ Listed \subseteq Wanted /\ Cardinality(Listed) = count
                    /\ \A w \in Wanted : w \in Listed <=> ~ \E p \in missed : Begins(p, w)
  BY DEF ExpandFindsEveryFile
<1>1. Covered /\ Apart /\ Counted /\ stack = <<>> /\ input > Len(Inputs) /\ input \in Nat
  BY DEF ExpandInv, ListInv, ListTypes
<1>2. \A w \in Wanted : ~Pending(w)
  <2>1. \A k \in DOMAIN Inputs : ~(k >= input)
    BY <1>1, FileListAssumption
  <2> QED BY <1>1, <2>1 DEF Pending, ToCome
<1>3. ASSUME NEW w \in Wanted
      PROVE  GivenUp(w) <=> \E p \in missed : Begins(p, w)
  <2>1. w \in Seq(Node) /\ missed \subseteq Seq(Node)
    BY WantedPaths DEF ListInv, ListTypes
  <2> QED BY <2>1, BeginsIsPrefix DEF GivenUp
<1> QED BY <1>1, <1>2, <1>3 DEF Covered, Apart, Counted

\* createArchive reads and its callers free slots that hold a path, whatever fails
\* and whenever the program is killed.
THEOREM ListIsThere == Spec => []ListedPathsExist
<1>1. Init => ListInv
  BY ListBegins
<1>2. ListInv /\ [Next]_vars => ListInv'
  BY StepOfTheList, ListStepKeeps
<1>3. ListInv => ListedPathsExist
  BY DEF ListInv
<1> QED BY <1>1, <1>2, <1>3, PTL DEF Spec

\* Whatever order readdir uses, however links lead back up and whatever fails: the
\* list has every file below the inputs, once, that was not given up.
THEOREM FindsEveryFile ==
  ASSUME DistinctInputs
  PROVE  Spec => []ExpandFindsEveryFile
<1> DEFINE Inv == ListInv /\ ExpandInv
<1>1. Init => Inv
  BY ListBegins
<1>2. Inv /\ [Next]_vars => Inv'
  BY StepOfTheList, ListStepKeeps
<1>3. Inv => ExpandFindsEveryFile
  BY ListAtTheEnd
<1> QED BY <1>1, <1>2, <1>3, PTL DEF Spec

-----------------------------------------------------------------------------
(* The commands: the invariant, in named parts. *)

Verb == {"pack", "unpack", "encrypt", "decrypt", "create", "extract", "list", "none"}

Keys == Password \union {"none"}

Archives == [made : Nat, files : SUBSET Seq(Node), keys : Seq(Keys)]

Content == {Absent, Torn, Nothing} \union Archives

StageTypes ==
  /\ archive \in ArchivePaths
  /\ fs \in [FilesOf(archive) -> Content]
  /\ command \in [verb : Verb, password : Keys, cleanup : BOOLEAN]
  /\ commands \in Nat /\ result \in {0, 1}
  /\ buffer \in Content /\ restored \in Content /\ faulty \in BOOLEAN
  /\ lastPack \in [made : Nat, missed : SUBSET Seq(Node)]

\* Where a command can be, and which ones end a promise.
ControlInv ==
  /\ pc \in {"expand", "create"} => command.verb \in {"pack", "create"}
  /\ pc \in {"read", "output", "write"} =>
       command.verb \in {"pack", "unpack", "encrypt", "decrypt"}
  /\ pc = "derive" => command.verb = "unpack"
  /\ pc = "extract" => command.verb \in {"unpack", "extract"}
  /\ pc = "cleanup" => command.verb \in {"pack", "unpack"}
  /\ pc \in {"list", "return"} => command.verb # "unpack"
  /\ pc = "create" => expand = "list"
  /\ command.verb \in {"create", "encrypt"} => lastPack = NoPack

\* Of an archive's name that has no room for .enc nothing is ever decrypted.
UncutInv ==
  EncPath # SealedPath =>
    /\ fs[EncPath] = Absent
    /\ pc \in {"output", "write"} => mode = "encrypt"

\* The files below the inputs, without those below the paths that were given up.
Left(lost) == {w \in Wanted : ~ \E p \in lost : Begins(p, w)}

\* c is the archive of the files that command number g found.
IsPacked(c, g, lost) ==
  /\ c \in Archives /\ c.made = g
  /\ DistinctInputs => c.files = Left(lost)

\* Between two packs the sealed archive is that of the last one.
SealInv ==
  SealedPath # archive /\ lastPack # NoPack =>
    /\ lastPack.made <= commands
    /\ ~(command.verb = "pack" /\ pc = "write") =>
         /\ IsPacked(fs[SealedPath], lastPack.made, lastPack.missed)
         /\ Len(fs[SealedPath].keys) = 1

\* A pack that writes the sealed archive still has the plain one.
PackInv ==
  SealedPath # archive /\ command.verb = "pack" =>
    /\ pc \in {"read", "output", "write"} =>
         IsPacked(fs[archive], commands, missed) /\ fs[archive].keys = <<>>
    /\ pc \in {"output", "write"} => buffer = fs[archive]

\* An unpack works on the content of the encrypted file, which it leaves alone.
UnpackInv ==
  NameFits /\ command.verb = "unpack" =>
    /\ pc \in {"output", "write"} => buffer = fs[EncPath]
    /\ pc = "write" => fs[archive] = Torn
    /\ pc \in {"derive", "extract"} =>
         \/ fs[archive] = Crypted("decrypt", fs[EncPath], command.password)
         \/ fs[archive] = Torn /\ faulty
    /\ restored # Nothing =>
         IsArchive(restored) /\ fs[EncPath] = Sealed(restored, command.password)
    /\ pc \in {"cleanup", "idle"} /\ ~faulty =>
         IF result = 0 THEN restored # Nothing
         ELSE ~Whole(fs[EncPath]) \/ fs[EncPath].keys # <<command.password>>

StageInv == StageTypes /\ ControlInv /\ UncutInv /\ SealInv /\ PackInv /\ UnpackInv

-----------------------------------------------------------------------------
(* Names and contents. *)

\* A name and its .enc, in a set that has the units of both.
LEMMA Suffixed ==
  ASSUME NEW S, NEW a \in Seq(S), NEW u \in S
  PROVE  /\ Append(a, u) # a /\ Append(a, u)[Len(a) + 1] = u
         /\ Len(a) \in Nat /\ Len(Append(a, u)) = Len(a) + 1
         /\ \A l \in 1 .. Len(a) :
              /\ SubSeq(Append(a, u), 1, l) = SubSeq(a, 1, l)
              /\ Len(SubSeq(a, 1, l)) = l
         /\ SubSeq(a, 1, Len(a)) = a
         /\ SubSeq(Append(a, u), 1, Len(a) + 1) = Append(a, u)
<1>1. /\ Append(a, u) \in Seq(S) /\ Len(Append(a, u)) = Len(a) + 1 /\ Len(a) \in Nat
      /\ Append(a, u)[Len(a) + 1] = u
      /\ \A k \in 1 .. Len(a) : Append(a, u)[k] = a[k]
  BY AppendProperties
<1>2. Append(a, u) # a
  BY <1>1
<1>3. ASSUME NEW s \in Seq(S), NEW l \in 0 .. Len(s)
      PROVE  /\ SubSeq(s, 1, l) \in Seq(S) /\ Len(SubSeq(s, 1, l)) = l
             /\ \A k \in 1 .. l : SubSeq(s, 1, l)[k] = s[k]
  OBVIOUS
<1>4. ASSUME NEW s \in Seq(S)
      PROVE  SubSeq(s, 1, Len(s)) = s
  <2>1. Len(s) \in 0 .. Len(s)
    OBVIOUS
  <2> QED BY <1>3, <2>1, SeqEqual
<1>5. ASSUME NEW l \in 1 .. Len(a)
      PROVE  /\ SubSeq(Append(a, u), 1, l) = SubSeq(a, 1, l)
             /\ Len(SubSeq(a, 1, l)) = l
  <2>1. l \in 0 .. Len(a) /\ l \in 0 .. Len(Append(a, u)) /\ 1 .. l \subseteq 1 .. Len(a)
    BY <1>1
  <2> QED BY <1>1, <1>3, <2>1, SeqEqual
<1>6. SubSeq(Append(a, u), 1, Len(a) + 1) = Append(a, u)
  BY <1>1, <1>4
<1> QED BY <1>1, <1>2, <1>4, <1>5, <1>6

\* The files of a command: decrypting leads back to the archive, and only in a name
\* that has room for .enc the encrypted file is found where it was put.
LEMMA FileNames ==
  ASSUME archive \in ArchivePaths
  PROVE  /\ FilesOf(archive) = {archive, EncPath, SealedPath}
         /\ EncPath # archive /\ PlainPath = archive
         /\ mode = "encrypt" => CryptInput = archive /\ CryptOutput = SealedPath
         /\ mode # "encrypt" => CryptInput = EncPath /\ CryptOutput \in {archive, SealedPath}
         /\ NameFits => EncPath = SealedPath
         /\ ~NameFits => EncPath # SealedPath
         /\ NameFits /\ mode # "encrypt" => CryptOutput = archive
<1> DEFINE S == STRING \union {".enc"}
<1>1. archive \in Seq(S) /\ archive # <<>> /\ ".enc" \in S /\ NameLimit \in Nat \ {0}
  BY PipelineAssumption
<1>2. /\ EncPath # archive /\ EncPath[Len(archive) + 1] = ".enc"
      /\ Len(archive) \in Nat /\ Len(EncPath) = Len(archive) + 1
      /\ \A l \in 1 .. Len(archive) :
           /\ SubSeq(EncPath, 1, l) = SubSeq(archive, 1, l)
           /\ Len(SubSeq(archive, 1, l)) = l
      /\ SubSeq(archive, 1, Len(archive)) = archive
      /\ SubSeq(EncPath, 1, Len(archive) + 1) = EncPath
  <2> HIDE DEF S
  <2> QED BY <1>1, Suffixed DEF EncPath
<1>3. Len(archive) > 0
  BY <1>1, <1>2, EmptySeq
<1> DEFINE l == Len(archive)
           n == Len(EncPath)
<1>4. l \in Nat \ {0} /\ n = l + 1 /\ n > 1 /\ n - 1 = l /\ l \in 1 .. l
  BY <1>2, <1>3
<1> HIDE DEF l, n
<1>5. Output("decrypt", EncPath) = archive
  BY <1>2, <1>4 DEF Output, HasEnc, l, n
<1>6. CASE n <= NameLimit
  <2>1. n <= NameLimit /\ (IF n < NameLimit THEN n ELSE NameLimit) = l + 1
        /\ (IF l < NameLimit THEN l ELSE NameLimit) = l
    BY <1>1, <1>4, <1>6
  <2>2. Cut(EncPath, NameLimit) = EncPath /\ Cut(archive, NameLimit) = archive /\ NameFits
    BY <1>2, <2>1 DEF Cut, NameFits, l, n
  <2> QED BY <1>2, <1>5, <2>2
          DEF FilesOf, EncPath, SealedPath, PlainPath, derive_plain_from_enc,
              CryptInput, CryptOutput, Output, mode
<1>7. CASE ~(n <= NameLimit)
  <2>1. /\ (IF n < NameLimit THEN n ELSE NameLimit) = NameLimit
        /\ (IF l < NameLimit THEN l ELSE NameLimit) = NameLimit
        /\ NameLimit \in 1 .. l /\ NameLimit # n
    BY <1>1, <1>4, <1>7
  <2>2. /\ Cut(EncPath, NameLimit) = Cut(archive, NameLimit) /\ ~NameFits
        /\ Len(Cut(EncPath, NameLimit)) = NameLimit
    BY <1>2, <1>7, <2>1 DEF Cut, NameFits, l, n
  <2>3. EncPath # SealedPath
    BY <2>1, <2>2 DEF SealedPath, n
  <2> QED BY <1>2, <1>5, <2>2, <2>3
          DEF FilesOf, EncPath, SealedPath, PlainPath, derive_plain_from_enc,
              CryptInput, CryptOutput, Output, mode
<1> QED BY <1>6, <1>7

\* The whole contents are the archives.
LEMMA WholeContents ==
  /\ \A c \in Content : Whole(c) <=> c \in Archives
  /\ \A c \in Archives : c \in Content /\ Whole(c)
  /\ {Absent, Torn, Nothing} \subseteq Content
  /\ Absent # Torn /\ Absent # Nothing /\ Torn # Nothing
<1>1. Absent # Torn /\ Absent # Nothing /\ Torn # Nothing
  BY DEF Absent, Torn, Nothing
<1>2. ASSUME NEW c \in Archives
      PROVE  c \notin {Absent, Torn, Nothing}
  <2>1. DOMAIN c = {"made", "files", "keys"}
    BY DEF Archives
  <2>2. DOMAIN Absent = {"files"} /\ DOMAIN Torn = {"files"} /\ DOMAIN Nothing = {"files"}
    BY DEF Absent, Torn, Nothing
  <2>3. "made" \notin {"files"}
    OBVIOUS
  <2> QED BY <2>1, <2>2, <2>3
<1> QED BY <1>1, <1>2 DEF Content, Whole

\* Encrypting adds a key, and decrypting takes it off again.
LEMMA KeysOf ==
  ASSUME NEW c \in Content, NEW key \in Keys
  PROVE  /\ \A m : Crypted(m, c, key) \in Content
         /\ c \in Archives =>
              /\ Sealed(c, key) \in Archives
              /\ Sealed(c, key).made = c.made /\ Sealed(c, key).files = c.files
              /\ Len(Sealed(c, key).keys) = Len(c.keys) + 1
<1>1. CASE c \in Archives
  <2>1. Whole(c) /\ c.keys \in Seq(Keys)
    BY <1>1, WholeContents DEF Archives
  <2>2. <<key>> \o c.keys \in Seq(Keys) /\ Len(<<key>> \o c.keys) = Len(c.keys) + 1
    BY <2>1, ConcatProperties
  <2>3. c.keys # <<>> => Tail(c.keys) \in Seq(Keys)
    BY <2>1
  <2>4. ASSUME NEW ks \in Seq(Keys)
        PROVE  /\ [c EXCEPT !.keys = ks] \in Archives
               /\ [c EXCEPT !.keys = ks].made = c.made /\ [c EXCEPT !.keys = ks].files = c.files
               /\ [c EXCEPT !.keys = ks].keys = ks
    BY <1>1 DEF Archives
  <2>5. Sealed(c, key) = [c EXCEPT !.keys = <<key>> \o c.keys]
    BY <2>1 DEF Sealed, Crypted
  <2>6. ASSUME NEW m
        PROVE  Crypted(m, c, key) \in Content
    <3>1. \/ Crypted(m, c, key) = Torn
          \/ Crypted(m, c, key) = [c EXCEPT !.keys = <<key>> \o c.keys]
          \/ c.keys # <<>> /\ Crypted(m, c, key) = [c EXCEPT !.keys = Tail(c.keys)]
      BY DEF Crypted
    <3> QED BY <2>2, <2>3, <2>4, <3>1, WholeContents
  <2> QED BY <2>2, <2>4, <2>5, <2>6
<1>2. CASE c \notin Archives
  BY <1>2, WholeContents DEF Crypted
<1> QED BY <1>1, <1>2

\* A sequence of one.
LEMMA OneElement ==
  ASSUME NEW S, NEW key \in S, NEW s \in Seq(S), s # <<>>
  PROVE  /\ Tail(s) \in Seq(S)
         /\ s = <<key>> <=> Head(s) = key /\ Tail(s) = <<>>
<1>1. Tail(s) \in Seq(S) /\ Len(s) \in Nat \ {0} /\ Len(Tail(s)) = Len(s) - 1 /\ Head(s) = s[1]
  BY HeadTailProperties, EmptySeq
<1>2. <<key>> \in Seq(S) /\ Len(<<key>>) = 1 /\ <<key>>[1] = key /\ Len(<<>>) = 0
  OBVIOUS
<1>3. ASSUME s = <<key>>
      PROVE  Head(s) = key /\ Tail(s) = <<>>
  BY <1>1, <1>2, <1>3, EmptySeq
<1>4. ASSUME Head(s) = key, Tail(s) = <<>>
      PROVE  s = <<key>>
  <2>1. Len(s) = 1 /\ s[1] = key
    BY <1>1, <1>2, <1>4
  <2> QED BY <1>2, <2>1, SeqEqual
<1> QED BY <1>1, <1>3, <1>4

\* Decrypting a file gives an archive if and only if it was encrypted once, under the
\* same password, and then it is the archive that was encrypted.
LEMMA Opens ==
  ASSUME NEW c \in Content, NEW key \in Keys
  PROVE  /\ IsArchive(Crypted("decrypt", c, key)) <=> Whole(c) /\ c.keys = <<key>>
         /\ Whole(c) /\ c.keys = <<key>> => Sealed(Crypted("decrypt", c, key), key) = c
<1>1. CASE ~Whole(c)
  BY <1>1, WholeContents DEF Crypted, IsArchive, Whole
<1>2. CASE Whole(c)
  <2>1. c \in Archives /\ c.keys \in Seq(Keys)
    BY <1>2, WholeContents DEF Archives
  <2>2. CASE c.keys # <<>> /\ Head(c.keys) = key
    <3>1. Crypted("decrypt", c, key) = [c EXCEPT !.keys = Tail(c.keys)]
      BY <1>2, <2>2 DEF Crypted
    <3>2. Tail(c.keys) \in Seq(Keys) /\ (Tail(c.keys) = <<>> <=> c.keys = <<key>>)
      BY <2>1, <2>2, OneElement
    <3>3. /\ [c EXCEPT !.keys = Tail(c.keys)] \in Archives
          /\ [c EXCEPT !.keys = Tail(c.keys)].keys = Tail(c.keys)
      BY <2>1, <3>2 DEF Archives
    <3>4. IsArchive(Crypted("decrypt", c, key)) <=> c.keys = <<key>>
      BY <3>1, <3>2, <3>3, WholeContents DEF IsArchive
    <3>5. ASSUME c.keys = <<key>>
          PROVE  Sealed(Crypted("decrypt", c, key), key) = c
      <4> DEFINE d == [c EXCEPT !.keys = Tail(c.keys)]
      <4>1. d \in Archives /\ d.keys = <<>> /\ d.made = c.made /\ d.files = c.files
        BY <2>1, <3>2, <3>3, <3>5 DEF Archives
      <4>2. Sealed(d, key) = [d EXCEPT !.keys = <<key>> \o <<>>]
        BY <4>1, WholeContents DEF Sealed, Crypted
      <4>3. <<key>> \o <<>> = c.keys
        BY <3>5
      <4>4. [d EXCEPT !.keys = c.keys] = c
        BY <2>1 DEF Archives
      <4> QED BY <3>1, <4>2, <4>3, <4>4
    <3> QED BY <1>2, <3>4, <3>5
  <2>3. CASE ~(c.keys # <<>> /\ Head(c.keys) = key)
    <3>1. c.keys # <<key>>
      <4>1. <<key>> # <<>>
        OBVIOUS
      <4> QED BY <2>1, <2>3, <4>1, OneElement
    <3>2. Crypted("decrypt", c, key) = Torn
      BY <1>2, <2>3 DEF Crypted
    <3> QED BY <3>1, <3>2 DEF IsArchive, Whole
  <2> QED BY <2>2, <2>3
<1> QED BY <1>1, <1>2

-----------------------------------------------------------------------------
(* The steps of a command that create and seal the archive. *)

\* What every step may use.
CommandInv == ListInv /\ (DistinctInputs => ExpandInv) /\ StageInv

\* The files and names of a state with the types.
LEMMA FilesThere ==
  ASSUME StageTypes
  PROVE  /\ {archive, EncPath, SealedPath} \subseteq DOMAIN fs
         /\ fs[archive] \in Content /\ fs[EncPath] \in Content /\ fs[SealedPath] \in Content
         /\ CryptInput \in DOMAIN fs /\ fs[CryptInput] \in Content
         /\ CryptOutput \in DOMAIN fs
         /\ command.password \in Keys
         /\ \A p, c : p \in DOMAIN fs /\ c \in Content =>
              /\ [fs EXCEPT ![p] = c] \in [FilesOf(archive) -> Content]
              /\ [fs EXCEPT ![p] = c][p] = c
              /\ \A q \in DOMAIN fs \ {p} : [fs EXCEPT ![p] = c][q] = fs[q]
<1>1. archive \in ArchivePaths /\ fs \in [FilesOf(archive) -> Content] /\ command.password \in Keys
  BY DEF StageTypes
<1>2. DOMAIN fs = {archive, EncPath, SealedPath}
  BY <1>1, FileNames
<1>3. CryptInput \in DOMAIN fs /\ CryptOutput \in DOMAIN fs
  BY <1>1, <1>2, FileNames
<1> QED BY <1>1, <1>2, <1>3

\* With the same command on the same archive all names are the same.
LEMMA SameNames ==
  ASSUME UNCHANGED callVars
  PROVE  /\ archive' = archive /\ command' = command /\ commands' = commands
         /\ EncPath' = EncPath /\ SealedPath' = SealedPath /\ NameFits' = NameFits
         /\ mode' = mode
BY DEF callVars, EncPath, SealedPath, NameFits, mode

\* A command ends without success, or is killed.
LEMMA EndsEarly ==
  ASSUME StageInv, UNCHANGED <<callVars, fs, restored>>,
         NEW r \in {0, 1}, Return(r), faulty' = TRUE, lastPack' = Forgotten
  PROVE  StageInv'
<1> USE SameNames DEF StageInv
<1>1. pc' = "idle" /\ result' = r /\ buffer' = Nothing
  BY DEF Return
<1>2. lastPack' \in {lastPack, NoPack} /\ (command.verb = "pack" /\ pc = "write" => lastPack' = NoPack)
  BY DEF Forgotten
<1>3. StageTypes'
  BY <1>1, <1>2, WholeContents DEF StageTypes, NoPack
<1>4. ControlInv' /\ UncutInv' /\ PackInv'
  BY <1>1, <1>2 DEF ControlInv, UncutInv, PackInv
<1>5. SealInv'
  BY <1>1, <1>2 DEF SealInv, IsPacked
<1>6. UnpackInv'
  BY <1>1 DEF UnpackInv
<1> QED BY <1>3, <1>4, <1>5, <1>6

\* The inputs are expanded, and createArchive truncates the archive.
LEMMA ExpandStages ==
  ASSUME StageInv, Expand \/ NoFiles \/ OpenArchive
  PROVE  StageInv'
<1> USE DEF StageInv
<1>1. ASSUME Fail(1)
      PROVE  StageInv'
  BY <1>1, EndsEarly DEF Fail
<1>2. CASE Expand
  <2>1. /\ UNCHANGED callVars /\ UNCHANGED <<buffer, restored, faulty, lastPack, fs, pc, result>>
        /\ pc = "expand"
    BY <1>2 DEF Expand, stageVars
  <2>2. StageTypes' /\ ControlInv' /\ UncutInv'
    BY <2>1, SameNames DEF StageTypes, ControlInv, UncutInv
  <2>3. SealInv' /\ PackInv' /\ UnpackInv'
    BY <2>1, SameNames DEF SealInv, IsPacked, PackInv, UnpackInv
  <2> QED BY <2>2, <2>3
<1>3. CASE OpenArchive /\ ~Fail(1)
  <2>1. /\ UNCHANGED callVars /\ UNCHANGED <<buffer, restored, faulty, lastPack, result>>
        /\ pc = "expand" /\ pc' = "create" /\ expand' = "list"
        /\ fs' = [fs EXCEPT ![archive] = Torn]
    BY <1>3 DEF OpenArchive, stageVars, listVars
  <2>2. /\ archive' = archive /\ fs' \in [FilesOf(archive) -> Content] /\ fs'[archive] = Torn
        /\ EncPath # archive /\ fs'[EncPath] = fs[EncPath]
        /\ SealedPath # archive => fs'[SealedPath] = fs[SealedPath]
    BY <2>1, FilesThere, FileNames, WholeContents, SameNames DEF StageTypes
  <2>3. command.verb \in {"pack", "create"}
    BY <2>1 DEF ControlInv
  <2>4. StageTypes' /\ ControlInv' /\ UncutInv'
    BY <2>1, <2>2, <2>3, SameNames DEF StageTypes, ControlInv, UncutInv
  <2>5. SealInv' /\ PackInv' /\ UnpackInv'
    BY <2>1, <2>2, <2>3, SameNames DEF SealInv, IsPacked, PackInv, UnpackInv
  <2> QED BY <2>4, <2>5
<1>4. CASE NoFiles
  BY <1>1, <1>4 DEF NoFiles
<1> QED BY <1>1, <1>2, <1>3, <1>4

\* Of two wanted paths none begins the other: what is below a file is not wanted.
LEMMA WantedApart ==
  ASSUME NEW p \in Wanted, NEW w \in Wanted
  PROVE  Begins(p, w) <=> p = w
<1>1. /\ p \in Seq(Node) /\ Len(p) \in Nat \ {0} /\ w \in Seq(Node) /\ Len(w) \in Nat
      /\ Kind[p[Len(p)]] # "dir" /\ IsWalk(w)
  BY WantedPaths
<1>2. ASSUME Prefix(p, w)
      PROVE  p = w
  <2>1. Len(p) <= Len(w) /\ \A k \in 1 .. Len(p) : w[k] = p[k]
    BY <1>2 DEF Prefix
  <2>2. Len(p) \in 1 .. Len(p)
    BY <1>1
  <2>3. ~(Len(p) \in 1 .. Len(w) - 1)
    BY <1>1, <2>1, <2>2 DEF IsWalk
  <2>4. Len(w) = Len(p)
    BY <1>1, <2>1, <2>3
  <2> QED BY <1>1, <2>1, <2>4, SeqEqual
<1>3. Prefix(p, p)
  BY <1>1 DEF Prefix
<1> QED BY <1>1, <1>2, <1>3, BeginsIsPrefix

\* What createArchive leaves out of a list with every file counts as given up.
LEMMA LostAreMissed ==
  ASSUME ExpandFindsEveryFile, expand = "list", NEW lost \in SUBSET ListedFiles
  PROVE  ListedFiles \ lost = Left(missed \union lost)
<1>1. /\ Listed = ListedFiles /\ Listed \subseteq Wanted
      /\ \A w \in Wanted : w \in Listed <=> ~ \E p \in missed : Begins(p, w)
  BY DEF ExpandFindsEveryFile, Listed, ListedFiles
<1>2. \A w \in Wanted : w \in lost <=> \E p \in lost : Begins(p, w)
  BY <1>1, WantedApart
<1> QED BY <1>1, <1>2 DEF Left

\* createArchive writes the archive.
LEMMA CreateStage ==
  ASSUME CommandInv, CreateArchive
  PROVE  StageInv'
<1> USE DEF StageInv, CommandInv
<1>1. CASE Fail(1)
  BY <1>1, EndsEarly DEF Fail
<1>2. ASSUME NEW lost \in SUBSET ListedFiles,
             fs' = [fs EXCEPT ![archive] = Archive(commands, ListedFiles \ lost)],
             missed' = missed \union lost, pc' = AfterCreate,
             UNCHANGED <<callVars, stageVars, result>>
      PROVE  StageInv'
  <2> DEFINE c == Archive(commands, ListedFiles \ lost)
  <2>1. /\ UNCHANGED callVars /\ UNCHANGED <<buffer, restored, faulty, lastPack, result>>
        /\ pc = "create" /\ pc' = IF command.verb = "pack" THEN "read" ELSE "return"
        /\ fs' = [fs EXCEPT ![archive] = c] /\ expand = "list"
    BY <1>2 DEF CreateArchive, AfterCreate, stageVars, ControlInv
  <2>2. /\ c \in Archives /\ c.made = commands /\ c.files = ListedFiles \ lost /\ c.keys = <<>>
        /\ Len(c.keys) = 0
    <3>1. ListedFiles \subseteq Seq(Node)
      BY DEF ListInv, ListTypes, ListedPathsExist, capacity, ListedFiles
    <3>2. commands \in Nat /\ <<>> \in Seq(Keys) /\ Len(<<>>) = 0
      BY DEF StageTypes
    <3> QED BY <3>1, <3>2 DEF Archive, Archives
  <2>3. DistinctInputs => c.files = Left(missed')
    BY <1>2, <2>1, <2>2, LostAreMissed, ListAtTheEnd
  <2> HIDE DEF c
  <2>4. /\ archive' = archive /\ fs' \in [FilesOf(archive) -> Content] /\ fs'[archive] = c
        /\ EncPath # archive /\ fs'[EncPath] = fs[EncPath]
        /\ SealedPath # archive => fs'[SealedPath] = fs[SealedPath]
    BY <2>1, <2>2, FilesThere, FileNames, WholeContents, SameNames DEF StageTypes
  <2>5. command.verb \in {"pack", "create"}
    BY <2>1 DEF ControlInv
  <2>6. StageTypes' /\ ControlInv' /\ UncutInv'
    BY <2>1, <2>4, <2>5, SameNames DEF StageTypes, ControlInv, UncutInv
  <2>7. SealInv' /\ UnpackInv'
    BY <2>1, <2>4, <2>5, SameNames DEF SealInv, IsPacked, UnpackInv
  <2>8. PackInv'
    BY <2>1, <2>2, <2>3, <2>4, SameNames DEF PackInv, IsPacked
  <2> QED BY <2>6, <2>7, <2>8
<1> QED BY <1>1, <1>2 DEF CreateArchive

-----------------------------------------------------------------------------
(* The steps of process_file_syscalls. *)

\* The input is read.
LEMMA ReadStage ==
  ASSUME StageInv, ReadInput
  PROVE  StageInv'
<1> USE DEF StageInv
<1>1. CASE Fail(1)
  BY <1>1, EndsEarly DEF Fail
<1>2. CASE fs[CryptInput] # Absent /\ buffer' = fs[CryptInput] /\ pc' = "output"
           /\ UNCHANGED <<listVars, callVars, fs, result, restored, faulty, lastPack>>
  <2>1. /\ UNCHANGED callVars /\ UNCHANGED <<fs, result, restored, faulty, lastPack, missed>>
        /\ pc = "read"
    BY <1>2 DEF ReadInput, listVars
  <2>2. /\ archive \in ArchivePaths /\ fs[CryptInput] \in Content
        /\ mode = "encrypt" => CryptInput = archive
        /\ mode # "encrypt" => CryptInput = EncPath
    BY FilesThere, FileNames DEF StageTypes
  <2>3. mode = "encrypt" <=> command.verb \in {"pack", "encrypt"}
    BY DEF mode
  <2>4. StageTypes'
    BY <1>2, <2>1, <2>2, SameNames DEF StageTypes
  <2>5. ControlInv' /\ SealInv'
    BY <1>2, <2>1, SameNames DEF ControlInv, SealInv, IsPacked
  <2>6. UncutInv'
    BY <1>2, <2>1, <2>2, SameNames DEF UncutInv
  <2>7. PackInv' /\ UnpackInv'
    BY <1>2, <2>1, <2>2, <2>3, SameNames DEF PackInv, UnpackInv, IsPacked
  <2> QED BY <2>4, <2>5, <2>6, <2>7
<1> QED BY <1>1, <1>2 DEF ReadInput

\* What the output is while it is written.
LEMMA OutputName ==
  ASSUME StageInv, pc \in {"output", "write"}
  PROVE  /\ archive \in ArchivePaths /\ EncPath # archive
         /\ CryptOutput \in DOMAIN fs
         /\ mode = "encrypt" <=> command.verb \in {"pack", "encrypt"}
         /\ mode = "encrypt" => CryptOutput = SealedPath
         /\ mode # "encrypt" => NameFits /\ CryptOutput = archive /\ SealedPath = EncPath
         /\ EncPath # SealedPath => CryptOutput # EncPath
<1>1. archive \in ArchivePaths /\ (mode # "encrypt" => EncPath = SealedPath)
  BY DEF StageInv, StageTypes, UncutInv
<1>2. CryptOutput \in DOMAIN fs /\ (mode = "encrypt" <=> command.verb \in {"pack", "encrypt"})
  BY FilesThere DEF StageInv, mode
<1> QED BY <1>1, <1>2, FileNames

\* The output is truncated.
LEMMA OpenStage ==
  ASSUME StageInv, OpenOutput
  PROVE  StageInv'
<1> USE DEF StageInv
<1>1. CASE Fail(1)
  BY <1>1, EndsEarly DEF Fail
<1>2. CASE fs' = [fs EXCEPT ![CryptOutput] = Torn] /\ pc' = "write"
           /\ UNCHANGED <<listVars, callVars, stageVars, result>>
  <2>1. /\ UNCHANGED callVars /\ UNCHANGED <<result, buffer, restored, faulty, lastPack, missed>>
        /\ pc = "output"
    BY <1>2 DEF OpenOutput, listVars, stageVars
  <2>2. /\ archive \in ArchivePaths /\ EncPath # archive /\ CryptOutput \in DOMAIN fs
        /\ mode = "encrypt" <=> command.verb \in {"pack", "encrypt"}
        /\ mode = "encrypt" => CryptOutput = SealedPath
        /\ mode # "encrypt" => NameFits /\ CryptOutput = archive /\ SealedPath = EncPath
        /\ EncPath # SealedPath => CryptOutput # EncPath
    BY <2>1, OutputName
  <2>3. /\ {archive, EncPath, SealedPath} \subseteq DOMAIN fs
        /\ fs' \in [FilesOf(archive) -> Content] /\ fs'[CryptOutput] = Torn
        /\ \A q \in DOMAIN fs \ {CryptOutput} : fs'[q] = fs[q]
    BY <1>2, <2>2, FilesThere, WholeContents
  <2>4. StageTypes' /\ ControlInv'
    BY <1>2, <2>1, <2>3, SameNames DEF StageTypes, ControlInv
  <2>5. UncutInv'
    BY <1>2, <2>1, <2>2, <2>3, SameNames DEF UncutInv
  <2>6. SealInv'
    <3>1. CASE command.verb = "pack"
      BY <1>2, <2>1, <3>1, SameNames DEF SealInv
    <3>2. CASE command.verb = "encrypt"
      BY <2>1, <3>2, SameNames DEF SealInv, ControlInv
    <3>3. CASE mode # "encrypt"
      <4>1. SealedPath # archive => fs'[SealedPath] = fs[SealedPath]
        BY <2>2, <2>3, <3>3
      <4> QED BY <1>2, <2>1, <4>1, SameNames DEF SealInv, IsPacked
    <3> QED BY <2>2, <3>1, <3>2, <3>3
  <2>7. PackInv'
    <3>1. command.verb = "pack" /\ SealedPath # archive => fs'[archive] = fs[archive]
      BY <2>2, <2>3
    <3> QED BY <1>2, <2>1, <3>1, SameNames DEF PackInv, IsPacked
  <2>8. UnpackInv'
    <3>1. command.verb = "unpack" => fs'[archive] = Torn /\ fs'[EncPath] = fs[EncPath]
      BY <2>2, <2>3
    <3> QED BY <1>2, <2>1, <3>1, SameNames DEF UnpackInv
  <2> QED BY <2>4, <2>5, <2>6, <2>7, <2>8
<1> QED BY <1>1, <1>2 DEF OpenOutput

\* The output is written, or part of it is.
LEMMA WriteStage ==
  ASSUME CommandInv, WriteOutput
  PROVE  StageInv'
<1> USE DEF StageInv, CommandInv
<1>1. CASE Fail(1)
  BY <1>1, EndsEarly DEF Fail
<1> DEFINE c == Crypted(mode, buffer, command.password)
<1>2. /\ pc = "write" /\ command.password \in Keys /\ buffer \in Content /\ c \in Content
      /\ archive \in ArchivePaths /\ EncPath # archive /\ CryptOutput \in DOMAIN fs
      /\ mode = "encrypt" <=> command.verb \in {"pack", "encrypt"}
      /\ mode = "encrypt" => CryptOutput = SealedPath
      /\ mode # "encrypt" => NameFits /\ CryptOutput = archive /\ SealedPath = EncPath
      /\ EncPath # SealedPath => CryptOutput # EncPath
      /\ command.verb \in {"pack", "unpack", "encrypt", "decrypt"}
  <2>1. pc = "write"
    BY DEF WriteOutput
  <2>2. command.password \in Keys /\ buffer \in Content
    BY FilesThere DEF StageTypes
  <2> QED BY <2>1, <2>2, OutputName, KeysOf DEF ControlInv
<1>3. /\ AfterWrite = "cleanup" => command.verb = "pack"
      /\ AfterWrite = "derive" => command.verb = "unpack"
      /\ AfterWrite = "return" => command.verb \notin {"pack", "unpack"}
      /\ AfterWrite \in {"cleanup", "derive", "return"}
  BY DEF AfterWrite
<1>4. CASE /\ fs' = [fs EXCEPT ![CryptOutput] = c]
           /\ lastPack' = IF command.verb # "pack" THEN lastPack
                          ELSE [made |-> commands, missed |-> missed]
           /\ pc' = AfterWrite
           /\ UNCHANGED <<listVars, callVars, result, buffer, restored, faulty>>
  <2> HIDE DEF c
  <2>1. UNCHANGED callVars /\ UNCHANGED <<result, buffer, restored, faulty, missed>>
    BY <1>4 DEF listVars
  <2>2. /\ {archive, EncPath, SealedPath} \subseteq DOMAIN fs
        /\ fs' \in [FilesOf(archive) -> Content] /\ fs'[CryptOutput] = c
        /\ \A q \in DOMAIN fs \ {CryptOutput} : fs'[q] = fs[q]
    BY <1>2, <1>4, FilesThere
  <2>3. StageTypes'
    BY <1>4, <2>1, <2>2, SameNames DEF StageTypes, CommandInv, ListInv, ListTypes
  <2>4. ControlInv' /\ UncutInv'
    BY <1>2, <1>3, <1>4, <2>1, <2>2, SameNames DEF ControlInv, UncutInv
  <2>5. SealInv'
    <3>1. CASE command.verb = "pack"
      <4> SUFFICES ASSUME SealedPath # archive
                   PROVE  /\ lastPack'.made <= commands'
                          /\ IsPacked(fs'[SealedPath], lastPack'.made, lastPack'.missed)
                          /\ Len(fs'[SealedPath].keys) = 1
        BY <2>1, SameNames DEF SealInv, IsPacked
      <4>1. /\ IsPacked(buffer, commands, missed) /\ buffer.keys = <<>>
            /\ lastPack' = [made |-> commands, missed |-> missed] /\ commands \in Nat
            /\ fs'[SealedPath] = Sealed(buffer, command.password)
        BY <1>2, <1>4, <2>2, <3>1 DEF PackInv, StageTypes, Sealed, c
      <4>2. /\ Sealed(buffer, command.password) \in Archives
            /\ Sealed(buffer, command.password).made = commands
            /\ Sealed(buffer, command.password).files = buffer.files
            /\ Len(Sealed(buffer, command.password).keys) = Len(buffer.keys) + 1
        BY <1>2, <4>1, KeysOf DEF IsPacked
      <4>3. Len(buffer.keys) = 0
        BY <4>1
      <4>4. Len(Sealed(buffer, command.password).keys) = 1
        BY <4>2, <4>3
      <4> QED BY <2>1, <4>1, <4>2, <4>4, SameNames DEF IsPacked
    <3>2. CASE command.verb = "encrypt"
      BY <1>4, <2>1, <3>2, SameNames DEF SealInv, ControlInv
    <3>3. CASE mode # "encrypt"
      <4>1. /\ SealedPath # archive => fs'[SealedPath] = fs[SealedPath]
            /\ lastPack' = lastPack /\ command.verb # "pack"
        BY <1>2, <1>4, <2>2, <3>3
      <4> QED BY <2>1, <4>1, SameNames DEF SealInv, IsPacked
    <3> QED BY <1>2, <3>1, <3>2, <3>3
  <2>6. PackInv'
    BY <1>2, <1>3, <1>4, <2>1, <2>2, SameNames DEF PackInv, IsPacked
  <2>7. UnpackInv'
    <3>1. command.verb = "unpack" => mode = "decrypt" /\ pc' = "derive"
      BY <1>3, <1>4 DEF mode, AfterWrite
    <3>2. command.verb = "unpack" /\ NameFits =>
            /\ fs'[archive] = Crypted("decrypt", fs[EncPath], command.password)
            /\ fs'[EncPath] = fs[EncPath]
      BY <1>2, <2>2, <3>1 DEF UnpackInv, c
    <3> QED BY <1>2, <2>1, <3>1, <3>2, SameNames DEF UnpackInv
  <2> QED BY <2>3, <2>4, <2>5, <2>6, <2>7
<1>5. CASE /\ pc' = AfterWrite /\ faulty' = TRUE
           /\ lastPack' = IF command.verb = "pack" THEN NoPack ELSE lastPack
           /\ UNCHANGED <<listVars, callVars, fs, result, buffer, restored>>
  <2>1. UNCHANGED callVars /\ UNCHANGED <<fs, result, buffer, restored, missed>>
    BY <1>5 DEF listVars
  <2>2. StageTypes'
    BY <1>5, <2>1, SameNames DEF StageTypes, NoPack
  <2>3. ControlInv' /\ UncutInv'
    BY <1>2, <1>3, <1>5, <2>1, SameNames DEF ControlInv, UncutInv
  <2>4. SealInv' /\ PackInv'
    BY <1>2, <1>3, <1>5, <2>1, SameNames DEF SealInv, PackInv, IsPacked
  <2>5. UnpackInv'
    BY <1>2, <1>3, <1>5, <2>1, SameNames DEF UnpackInv
  <2> QED BY <2>2, <2>3, <2>4, <2>5
<1> QED BY <1>1, <1>4, <1>5 DEF WriteOutput

-----------------------------------------------------------------------------
(* The steps of extracting and listing, the last ones, and new commands. *)

\* The archive is extracted, after its path was derived.
LEMMA ExtractStage ==
  ASSUME StageInv, DerivePath \/ ExtractArchive
  PROVE  StageInv'
<1> USE DEF StageInv
<1>1. CASE Fail(1)
  BY <1>1, EndsEarly DEF Fail
<1>2. CASE pc = "derive" /\ pc' = "extract" /\ UNCHANGED <<listVars, callVars, stageVars, fs, result>>
  <2>1. UNCHANGED callVars /\ UNCHANGED <<fs, result, buffer, restored, faulty, lastPack, missed>>
    BY <1>2 DEF listVars, stageVars
  <2>2. StageTypes' /\ ControlInv' /\ UncutInv'
    BY <1>2, <2>1, SameNames DEF StageTypes, ControlInv, UncutInv
  <2>3. SealInv' /\ PackInv' /\ UnpackInv'
    BY <1>2, <2>1, SameNames DEF SealInv, PackInv, IsPacked, UnpackInv
  <2> QED BY <2>2, <2>3
<1>3. CASE ExtractArchive
  <2>1. /\ pc = "extract" /\ pc' = AfterExtract
        /\ UNCHANGED callVars /\ UNCHANGED <<fs, buffer, lastPack, missed>>
        /\ command.verb \in {"unpack", "extract"}
        /\ pc' = IF command.verb = "unpack" THEN "cleanup" ELSE "return"
    BY <1>3 DEF ExtractArchive, Finish, listVars, ControlInv, AfterExtract
  <2>2. /\ archive \in ArchivePaths /\ PlainPath = archive /\ fs[archive] \in Content
        /\ fs[EncPath] \in Content /\ command.password \in Keys /\ archive \in DOMAIN fs
    BY FilesThere, FileNames DEF StageTypes
  <2>3. Extractable <=> IsArchive(fs[archive])
    BY <2>2 DEF Extractable
  <2>4. \/ Extractable /\ restored' = fs[archive] /\ UNCHANGED faulty /\ result' = 0
        \/ Extractable /\ faulty' = TRUE /\ UNCHANGED restored /\ result' = 0
        \/ faulty' = (faulty \/ Extractable) /\ UNCHANGED restored /\ result' = 1
    BY <1>3, <2>2 DEF ExtractArchive, Finish
  <2>5. (faulty \/ Extractable) \in BOOLEAN
    OBVIOUS
  <2>6. StageTypes'
    BY <2>1, <2>2, <2>4, <2>5, SameNames DEF StageTypes
  <2>7. ControlInv' /\ UncutInv' /\ SealInv' /\ PackInv'
    BY <2>1, SameNames DEF ControlInv, UncutInv, SealInv, PackInv, IsPacked
  <2>8. UnpackInv'
    <3> SUFFICES ASSUME NameFits, command.verb = "unpack"
                 PROVE  /\ restored' # Nothing =>
                             IsArchive(restored') /\ fs[EncPath] = Sealed(restored', command.password)
                        /\ ~faulty' => IF result' = 0 THEN restored' # Nothing
                             ELSE ~Whole(fs[EncPath]) \/ fs[EncPath].keys # <<command.password>>
      BY <2>1, SameNames DEF UnpackInv
    <3>1. /\ \/ fs[archive] = Crypted("decrypt", fs[EncPath], command.password)
             \/ fs[archive] = Torn /\ faulty
          /\ restored # Nothing =>
               IsArchive(restored) /\ fs[EncPath] = Sealed(restored, command.password)
      BY <2>1 DEF UnpackInv
    <3>2. ~IsArchive(Torn) /\ ~IsArchive(Nothing)
      BY DEF IsArchive, Whole
    <3>3. Extractable =>
            /\ fs[archive] = Crypted("decrypt", fs[EncPath], command.password)
            /\ fs[EncPath] = Sealed(fs[archive], command.password)
            /\ fs[archive] # Nothing
      BY <2>2, <2>3, <3>1, <3>2, Opens
    <3>4. ~Extractable /\ ~faulty =>
            ~Whole(fs[EncPath]) \/ fs[EncPath].keys # <<command.password>>
      BY <2>2, <2>3, <3>1, Opens
    <3>5. CASE Extractable /\ restored' = fs[archive] /\ UNCHANGED faulty /\ result' = 0
      BY <2>3, <3>3, <3>5
    <3>6. CASE Extractable /\ faulty' = TRUE /\ UNCHANGED restored /\ result' = 0
      BY <3>1, <3>6
    <3>7. CASE faulty' = (faulty \/ Extractable) /\ UNCHANGED restored /\ result' = 1
      <4>1. ~faulty' => ~faulty /\ ~Extractable
        BY <3>7, Zenon
      <4> QED BY <3>1, <3>4, <3>7, <4>1
    <3> QED BY <2>4, <3>5, <3>6, <3>7
  <2> QED BY <2>6, <2>7, <2>8
<1> QED BY <1>1, <1>2, <1>3 DEF DerivePath

\* The last step of a command that was neither killed nor failed on the way.
LEMMA LastStage ==
  ASSUME StageInv, ListArchive \/ Cleanup \/ Ends
  PROVE  StageInv'
<1> USE DEF StageInv
<1>1. PICK r : /\ Return(r) /\ r \in {0, 1}
               /\ pc = "cleanup" /\ command.verb = "unpack" => r = result
               /\ pc \in {"list", "return", "cleanup"}
  <2>1. result \in {0, 1}
    BY DEF StageTypes
  <2> QED BY <2>1 DEF ListArchive, Cleanup, Ends
<1>2. /\ pc' = "idle" /\ result' = r /\ buffer' = Nothing
      /\ UNCHANGED callVars /\ UNCHANGED <<restored, faulty, lastPack>>
  BY <1>1 DEF Return, ListArchive, Cleanup, Ends
<1>3. /\ archive \in ArchivePaths /\ PlainPath = archive /\ EncPath # archive
      /\ {archive, EncPath, SealedPath} \subseteq DOMAIN fs
  BY FilesThere, FileNames DEF StageTypes
<1>4. /\ fs' \in [FilesOf(archive) -> Content]
      /\ \A q \in DOMAIN fs \ {archive} : fs'[q] = fs[q]
  <2>1. fs' = fs \/ fs' = [fs EXCEPT ![archive] = Absent]
    BY <1>3 DEF ListArchive, Cleanup, Ends, Removed
  <2> QED BY <1>3, <2>1, FilesThere, WholeContents DEF StageTypes
<1>5. StageTypes'
  BY <1>1, <1>2, <1>4, SameNames, WholeContents DEF StageTypes
<1>6. ControlInv' /\ UncutInv' /\ PackInv'
  BY <1>2, <1>3, <1>4, SameNames DEF ControlInv, UncutInv, PackInv
<1>7. SealInv'
  <2>1. SealedPath # archive => fs'[SealedPath] = fs[SealedPath]
    BY <1>3, <1>4
  <2> QED BY <1>1, <1>2, <2>1, SameNames DEF SealInv, IsPacked
<1>8. UnpackInv'
  <2>1. command.verb = "unpack" => pc = "cleanup" /\ r = result /\ fs'[EncPath] = fs[EncPath]
    BY <1>1, <1>3, <1>4 DEF ControlInv
  <2> QED BY <1>1, <1>2, <2>1, SameNames DEF UnpackInv
<1> QED BY <1>5, <1>6, <1>7, <1>8

\* The next command, or one whose arguments are refused.
LEMMA CommandBegins ==
  ASSUME StageInv, NextCommand
  PROVE  StageInv'
<1> USE DEF StageInv
<1>1. /\ pc = "idle" /\ commands' = commands + 1 /\ faulty' = FALSE /\ restored' = Nothing
      /\ UNCHANGED <<archive, fs, buffer>>
      /\ EncPath' = EncPath /\ SealedPath' = SealedPath /\ NameFits' = NameFits
  BY DEF NextCommand, Command, RejectArguments, EncPath, SealedPath, NameFits
<1>2. /\ command' \in [verb : Verb, password : Keys, cleanup : BOOLEAN]
      /\ result' \in {0, 1} /\ lastPack' \in {lastPack, NoPack}
      /\ pc' = IF command'.verb = "none" THEN "idle" ELSE FirstStage(command'.verb)
      /\ command'.verb \in {"create", "encrypt"} => lastPack' = NoPack
  <2>1. ASSUME NEW c \in PipelineCommands \union EncryptCommands \union CompressCommands, Command(c)
        PROVE  /\ command' = c /\ c \in [verb : Verb \ {"none"}, password : Keys, cleanup : BOOLEAN]
               /\ result' = 0 /\ pc' = FirstStage(c.verb)
               /\ lastPack' = IF c.verb \in {"create", "encrypt"} THEN NoPack ELSE lastPack
    BY <2>1 DEF PipelineCommands, EncryptCommands, CompressCommands, Command, Verb, Keys
  <2>2. CASE RejectArguments
    BY <1>1, <2>2 DEF RejectArguments, Verb, Keys
  <2>3. ASSUME NEW c \in PipelineCommands \union EncryptCommands \union CompressCommands, Command(c)
        PROVE  /\ command' \in [verb : Verb, password : Keys, cleanup : BOOLEAN]
               /\ result' \in {0, 1} /\ lastPack' \in {lastPack, NoPack}
               /\ pc' = IF command'.verb = "none" THEN "idle" ELSE FirstStage(command'.verb)
               /\ command'.verb \in {"create", "encrypt"} => lastPack' = NoPack
    BY <2>1, <2>3
  <2> QED BY <2>2, <2>3 DEF NextCommand
<1>3. /\ pc' \in {"idle", "expand", "read", "extract", "list"}
      /\ pc' = "expand" => command'.verb \in {"pack", "create"}
      /\ pc' = "read" => command'.verb \in {"unpack", "encrypt", "decrypt"}
      /\ pc' = "extract" => command'.verb = "extract"
      /\ pc' = "list" => command'.verb = "list"
      /\ pc' = "idle" => command'.verb = "none"
  BY <1>2 DEF FirstStage, Verb
<1>4. StageTypes'
  <2>1. NoPack \in [made : Nat, missed : SUBSET Seq(Node)] /\ commands + 1 \in Nat
    BY DEF NoPack, StageTypes
  <2> HIDE DEF NoPack
  <2> QED BY <1>1, <1>2, <2>1, WholeContents DEF StageTypes
<1>5. ControlInv' /\ UncutInv' /\ PackInv'
  BY <1>1, <1>2, <1>3 DEF ControlInv, UncutInv, PackInv
<1>6. SealInv'
  <2>1. commands \in Nat /\ lastPack.made \in Nat
    BY DEF StageTypes
  <2>2. lastPack.made <= commands => lastPack.made <= commands + 1
    BY <2>1
  <2> QED BY <1>1, <1>2, <2>2 DEF SealInv, IsPacked
<1>7. UnpackInv'
  BY <1>1, <1>3 DEF UnpackInv
<1> QED BY <1>4, <1>5, <1>6, <1>7

-----------------------------------------------------------------------------
(* What follows. *)

\* Before the first command.
LEMMA InitCommand ==
  ASSUME Init
  PROVE  CommandInv
<1>1. /\ archive \in ArchivePaths /\ fs = [p \in FilesOf(archive) |-> Absent]
      /\ command = [verb |-> "list", password |-> "none", cleanup |-> FALSE]
      /\ commands = 0 /\ pc = "idle" /\ result = 0 /\ buffer = Nothing /\ restored = Nothing
      /\ faulty = FALSE /\ lastPack = NoPack
  BY DEF Init
<1>2. StageTypes
  BY <1>1, WholeContents DEF StageTypes, Verb, Keys, NoPack
<1>3. EncPath \in FilesOf(archive)
  BY <1>1, FileNames
<1>4. ControlInv /\ UncutInv /\ SealInv /\ PackInv /\ UnpackInv
  BY <1>1, <1>3 DEF ControlInv, UncutInv, SealInv, PackInv, UnpackInv
<1> QED BY <1>2, <1>4, ListBegins DEF CommandInv, StageInv

\* Every step keeps the invariant.
LEMMA NextKeepsCommand ==
  ASSUME CommandInv, [Next]_vars
  PROVE  CommandInv'
<1>1. ListInv' /\ (DistinctInputs => ExpandInv')
  BY StepOfTheList, ListStepKeeps DEF CommandInv
<1>2. StageInv
  BY DEF CommandInv
<1>3. CASE Kill
  <2>1. Return(1) /\ faulty' = TRUE /\ lastPack' = Forgotten /\ UNCHANGED <<callVars, fs, restored>>
    BY <1>3 DEF Kill
  <2>2. StageInv'
    BY <1>2, <2>1, EndsEarly
  <2> QED BY <1>1, <2>2 DEF CommandInv
<1>4. CASE UNCHANGED vars
  <2>1. /\ UNCHANGED callVars
        /\ UNCHANGED <<expand, missed, buffer, restored, faulty, lastPack, fs, pc, result>>
    BY <1>4 DEF vars, stageVars, listVars
  <2>2. StageTypes' /\ ControlInv' /\ UncutInv'
    BY <1>2, <2>1, SameNames DEF StageInv, StageTypes, ControlInv, UncutInv
  <2>3. SealInv' /\ PackInv' /\ UnpackInv'
    BY <1>2, <2>1, SameNames DEF StageInv, SealInv, PackInv, IsPacked, UnpackInv
  <2> QED BY <1>1, <2>2, <2>3 DEF CommandInv, StageInv
<1>5. CASE Stage
  <2>1. StageInv'
    BY <1>2, <1>5, ExpandStages, CreateStage, ReadStage, OpenStage, WriteStage, ExtractStage, LastStage
    DEF Stage
  <2> QED BY <1>1, <2>1 DEF CommandInv
<1>6. CASE NextCommand
  BY <1>1, <1>2, <1>6, CommandBegins DEF CommandInv
<1> QED BY <1>3, <1>4, <1>5, <1>6 DEF Next, Terminated

\* The invariant holds for every name of the archive, with room for .enc or without,
\* and every sequence of commands.
THEOREM Invariant == Spec => []CommandInv
<1>1. Init => CommandInv
  BY InitCommand
<1>2. CommandInv /\ [Next]_vars => CommandInv'
  BY NextKeepsCommand
<1> QED BY <1>1, <1>2, PTL DEF Spec

\* What the last pack sealed, or a later pack is sealing, is on disk at every moment,
\* whatever fails and wherever a command is killed.
THEOREM Recoverable == Spec => []AlwaysRecoverable
<1>1. CommandInv => AlwaysRecoverable
  <2> SUFFICES ASSUME CommandInv, SealedPath # archive, lastPack # NoPack
               PROVE  \/ IsArchive(fs[archive]) /\ Promised(fs[archive])
                      \/ Promised(fs[SealedPath]) /\ Len(fs[SealedPath].keys) = 1
    BY DEF AlwaysRecoverable
  <2>1. lastPack.made \in Nat /\ lastPack.made <= commands /\ commands \in Nat
    BY DEF CommandInv, StageInv, StageTypes, SealInv
  <2>2. CASE command.verb = "pack" /\ pc = "write"
    <3>1. fs[archive] \in Archives /\ fs[archive].made = commands /\ fs[archive].keys = <<>>
      BY <2>2 DEF CommandInv, StageInv, PackInv, IsPacked
    <3> QED BY <2>1, <3>1, WholeContents DEF IsArchive, Promised
  <2>3. CASE ~(command.verb = "pack" /\ pc = "write")
    <3>1. /\ fs[SealedPath] \in Archives /\ fs[SealedPath].made = lastPack.made
          /\ Len(fs[SealedPath].keys) = 1
      BY <2>3 DEF CommandInv, StageInv, SealInv, IsPacked
    <3> QED BY <2>1, <3>1, WholeContents DEF Promised
  <2> QED BY <2>2, <2>3
<1> QED BY <1>1, Invariant, PTL

\* Unless something fails, unpacking tells an archive sealed under its password from
\* every other file, and restores what was sealed.
THEOREM UnpackOpens == Spec => []UnpackOpensWhatWasSealed
<1>1. CommandInv => UnpackOpensWhatWasSealed
  BY DEF CommandInv, StageInv, UnpackInv, UnpackOpensWhatWasSealed, Ended
<1> QED BY <1>1, Invariant, PTL

\* What an unpack restores after a pack are the files below the inputs of that pack
\* which it did not give up.
THEOREM UnpackRestores ==
  ASSUME DistinctInputs
  PROVE  Spec => []UnpackRestoresThePack
<1>1. CommandInv => UnpackRestoresThePack
  <2> SUFFICES ASSUME CommandInv, NameFits, Ended("unpack"), lastPack # NoPack, restored # Nothing
               PROVE  /\ restored.made = lastPack.made
                      /\ restored.files = Left(lastPack.missed)
    BY DEF UnpackRestoresThePack, Left
  <2>1. command.verb = "unpack" /\ pc = "idle" /\ archive \in ArchivePaths
    BY DEF Ended, CommandInv, StageInv, StageTypes
  <2>2. EncPath = SealedPath /\ SealedPath # archive
    BY <2>1, FileNames
  <2>3. /\ fs[EncPath].made = lastPack.made
        /\ fs[EncPath].files = Left(lastPack.missed)
    BY <2>1, <2>2 DEF CommandInv, StageInv, SealInv, IsPacked
  <2>4. /\ restored \in Archives /\ fs[EncPath] = Sealed(restored, command.password)
        /\ restored \in Content /\ command.password \in Keys
    BY <2>1, FilesThere, WholeContents DEF CommandInv, StageInv, StageTypes, UnpackInv, IsArchive
  <2> QED BY <2>3, <2>4, KeysOf
<1> QED BY <1>1, Invariant, PTL
=============================================================================

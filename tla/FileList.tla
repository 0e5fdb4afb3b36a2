------------------------------ MODULE FileList ------------------------------
(***************************************************************************)
(* expandPaths of file_utils.c: the inputs of a command, with directories  *)
(* replaced by the files below them.  A file system object is a node and a *)
(* path is the sequence of nodes on it: a symbolic link to a directory is  *)
(* a node with that directory's entries, so paths may go round in circles  *)
(* until they are too long.                                                *)
(***************************************************************************)
EXTENDS Integers, Sequences, FiniteSets

CONSTANTS Node,
          Kind,           \* Kind[n]: "file", "dir", "other" or "missing"
          Entries,        \* Entries[n]: what a directory holds
          Inputs,         \* input_paths
          FirstCapacity,  \* 32
          MaxPath,        \* nodes on a path that fits full_path
          MaxFailures     \* bound: system calls of one expansion that fail

ASSUME FileListAssumption ==
  /\ Kind \in [Node -> {"file", "dir", "other", "missing"}]
  /\ Entries \in [Node -> SUBSET Node]
  /\ Inputs \in Seq(Node) \ {<<>>}
  /\ FirstCapacity \in Nat \ {0} /\ MaxPath \in Nat \ {0} /\ MaxFailures \in Nat

VARIABLES
  expand,    \* "idle", "scan", or what expandPaths returned: "list" or "null"
  input,     \* loop variable of expandPaths
  stack,     \* calls of collectFilesRecursive: path, and entries not yet read
  paths,     \* the array, up to capacity
  count,
  missed,    \* paths that were given up, with a warning or without
  failures

listVars == <<expand, input, stack, paths, count, missed, failures>>

\* A slot that was never written, or has the NULL of a failed strdup.
Unset == <<>>

capacity == Len(paths)

-----------------------------------------------------------------------------
ListInit ==
  /\ expand = "idle"
  /\ input = 1 /\ stack = <<>>
  /\ paths = <<>> /\ count = 0
  /\ missed = {} /\ failures = 0

StartExpand ==
  /\ expand' = "scan"
  /\ input' = 1 /\ stack' = <<>>
  /\ paths' = <<>> /\ count' = 0
  /\ missed' = {} /\ failures' = 0

\* The array with the capacity that one more path needs.
Grown ==
  IF count < capacity THEN capacity
  ELSE IF capacity = 0 THEN FirstCapacity ELSE 2 * capacity

PathsOf(n) == [k \in 1 .. n |-> IF k <= capacity THEN paths[k] ELSE Unset]

Add(path) ==
  /\ paths' = [PathsOf(Grown) EXCEPT ![count + 1] = path]
  /\ count' = count + 1
  /\ UNCHANGED <<missed, failures>>

CallFails == failures < MaxFailures /\ failures' = failures + 1

\* Variant: the path is counted before strdup is tested.
CountAfterNoCopy_Counted == count + 1

CountAfterNoCopy == count

\* realloc or strdup fails.
AddFails(path) ==
  /\ CallFails
  /\ \/ count >= capacity /\ UNCHANGED <<paths, count>>
     \/ /\ paths' = [PathsOf(Grown) EXCEPT ![count + 1] = Unset]
        /\ count' = CountAfterNoCopy
  /\ missed' = missed \union {path}

Miss(path) == missed' = missed \union {path} /\ UNCHANGED <<paths, count>>

Frame(path) == [path |-> path, unread |-> Entries[path[Len(path)]]]

-----------------------------------------------------------------------------
(* expandPaths. *)

NextInput == expand = "scan" /\ stack = <<>> /\ input <= Len(Inputs)

\* Variant: an input that is skipped is looked at again.
AfterSkip_Again == input

AfterSkip == input + 1

\* The input is missing or its directory cannot be opened.
SkipInput ==
  /\ NextInput
  /\ \/ Kind[Inputs[input]] = "missing" /\ UNCHANGED failures
     \/ Kind[Inputs[input]] = "dir" /\ CallFails
  /\ Miss(<<Inputs[input]>>)
  /\ input' = AfterSkip
  /\ UNCHANGED <<expand, stack>>

ScanInput ==
  /\ NextInput
  /\ Kind[Inputs[input]] = "dir"
  /\ stack' = <<Frame(<<Inputs[input]>>)>>
  /\ input' = input + 1
  /\ UNCHANGED <<expand, paths, count, missed, failures>>

\* A path that is no directory, whatever it is; without memory the whole list is
\* given up.
AddInput ==
  /\ NextInput
  /\ Kind[Inputs[input]] \in {"file", "other"}
  /\ \/ Add(<<Inputs[input]>>) /\ UNCHANGED expand
     \/ AddFails(<<Inputs[input]>>) /\ expand' = "null"
  /\ input' = input + 1
  /\ UNCHANGED stack

ReturnList ==
  /\ expand = "scan" /\ stack = <<>> /\ input > Len(Inputs)
  /\ expand' = "list"
  /\ UNCHANGED <<input, stack, paths, count, missed, failures>>

-----------------------------------------------------------------------------
(* collectFilesRecursive. *)

Top == stack[Len(stack)]

\* readdir returns the entries in any order.
Reading(n) == expand = "scan" /\ stack # <<>> /\ n \in Top.unread

PathOf(n) == Append(Top.path, n)

ReadPast(n) == [stack EXCEPT ![Len(stack)].unread = @ \ {n}]

\* full_path is too long, a link leads nowhere, or stat or opendir fails.
SkipEntry(n) ==
  /\ Reading(n)
  /\ \/ Len(PathOf(n)) > MaxPath /\ UNCHANGED failures
     \/ Kind[n] = "missing" /\ UNCHANGED failures
     \/ CallFails
  /\ Miss(PathOf(n))
  /\ stack' = ReadPast(n)
  /\ UNCHANGED <<expand, input>>

\* Variant: everything but a directory is added, as it is among the inputs.
Collected_NotDir(n) == Kind[n] \in {"file", "other"}

Collected(n) == Kind[n] = "file"

AddEntry(n) ==
  /\ Reading(n) /\ Len(PathOf(n)) <= MaxPath /\ Collected(n)
  /\ Add(PathOf(n)) \/ AddFails(PathOf(n))
  /\ stack' = ReadPast(n)
  /\ UNCHANGED <<expand, input>>

IgnoreEntry(n) ==
  /\ Reading(n) /\ Len(PathOf(n)) <= MaxPath /\ Kind[n] = "other" /\ ~Collected(n)
  /\ stack' = ReadPast(n)
  /\ UNCHANGED <<expand, input, paths, count, missed, failures>>

DescendInto(n) ==
  /\ Reading(n) /\ Len(PathOf(n)) <= MaxPath /\ Kind[n] = "dir"
  /\ stack' = Append(ReadPast(n), Frame(PathOf(n)))
  /\ UNCHANGED <<expand, input, paths, count, missed, failures>>

CloseDirectory ==
  /\ expand = "scan" /\ stack # <<>> /\ Top.unread = {}
  /\ stack' = SubSeq(stack, 1, Len(stack) - 1)
  /\ UNCHANGED <<expand, input, paths, count, missed, failures>>

ExpandStep ==
  \/ SkipInput \/ ScanInput \/ AddInput \/ ReturnList
  \/ \E n \in Node : SkipEntry(n) \/ AddEntry(n) \/ IgnoreEntry(n) \/ DescendInto(n)
  \/ CloseDirectory
=============================================================================

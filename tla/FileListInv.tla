---------------------------- MODULE FileListInv ----------------------------
(***************************************************************************)
(* What is claimed about expandPaths.                                      *)
(***************************************************************************)
EXTENDS FileList

InputSet == {Inputs[k] : k \in DOMAIN Inputs}

Walk(len) ==
  {w \in [1 .. len -> Node] :
     /\ w[1] \in InputSet
     /\ \A k \in 1 .. len - 1 : Kind[w[k]] = "dir" /\ w[k + 1] \in Entries[w[k]]}

\* The paths of the regular files below the inputs, and of inputs that are
\* neither a directory nor missing.
Wanted ==
  UNION {{w \in Walk(len) : IF len = 1 THEN Kind[w[1]] \in {"file", "other"}
                                       ELSE Kind[w[len]] = "file"} : len \in 1 .. MaxPath}

Listed == {paths[k] : k \in 1 .. count}

Begins(p, q) == Len(p) <= Len(q) /\ SubSeq(q, 1, Len(p)) = p

\* No input is given twice.
DistinctInputs == \A i, k \in DOMAIN Inputs : Inputs[i] = Inputs[k] => i = k

-----------------------------------------------------------------------------
\* createArchive reads, and its callers free, the first count slots: none of
\* them is empty or beyond the array, also after a strdup or realloc that failed.
ListedPathsExist == count <= capacity /\ \A k \in 1 .. count : paths[k] # Unset

\* The list has every file below the inputs once, whatever order readdir uses and
\* however links lead back up, save what is below a path that was given up.
ExpandFindsEveryFile ==
  expand = "list" =>
    /\ Listed \subseteq Wanted /\ Cardinality(Listed) = count
    /\ \A w \in Wanted : w \in Listed <=> ~ \E p \in missed : Begins(p, w)
=============================================================================

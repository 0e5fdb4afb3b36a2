----------------------------- MODULE MCPipeline -----------------------------
(* Pipeline on small instances. *)
EXTENDS PipelineInv, TLC

CONSTANTS dir, up, f, pipe, gone

SomeNodes == {dir, up, f, pipe, gone}

\* dir holds a file, a link back to itself and a fifo, which is also given by
\* name, and so is something that is not there.
SomeKinds == dir :> "dir" @@ up :> "dir" @@ f :> "file" @@ pipe :> "other" @@ gone :> "missing"
InDir == {f, up, pipe}
SomeEntries == [n \in SomeNodes |-> IF n \in {dir, up} THEN InDir ELSE {}]
SomeInputs == <<dir, gone, pipe>>

ASSUME InputsDiffer == DistinctInputs

ShortName == <<"a">>
LongName == <<"a", "b">>
LongerName == <<"a", "b", "c">>
SomeNames == {ShortName, LongName, LongerName}
=============================================================================

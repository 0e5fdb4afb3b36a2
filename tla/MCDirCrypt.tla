----------------------------- MODULE MCDirCrypt -----------------------------
(* DirCrypt on directories of one and of two files. *)
EXTENDS DirCryptInv

F == <<"f">>
G == <<"g">>
FEnc == <<"f", ".enc">>

Limit == 3

\* With room for three units, a file of three is written over by its own task, and
\* one of four units writes into it.
Three == <<"f", "a", "b">>
Four == <<"f", "a", "b", "c">>

\* What tasks can make of f, and the two.
Names == {F} \union {F \o s : s \in UNION {[1 .. k -> {".enc", ".dec"}] : k \in 1 .. 2}}
             \union {Three, Four}

\* A file of fewer than 32 blocks, the last of them not whole.
OneFile == [n \in {F} |-> n]

\* The same, and a larger one of whole blocks that has the name of its output.
Both == [n \in {F, FEnc} |-> IF n = F THEN F ELSE G]

TooLong == [n \in {Three, Four} |-> IF n = Three THEN F ELSE G]

LastMarks == {"torn", "dec", "f"}
FirstMarks == {"torn", "g"}

Start(d, p) == [dir |-> d, plan |-> p]

OnePlainFile == {Start(OneFile, <<"encrypt", "decrypt">>)}

SomeStarts == {Start(OneFile, <<"encrypt", "decrypt">>), Start(Both, <<"encrypt">>),
               Start(Both, <<"decrypt">>), Start(TooLong, <<"encrypt">>)}

ASSUME PlansAreShort == TwoCalls
=============================================================================

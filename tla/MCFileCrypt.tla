---------------------------- MODULE MCFileCrypt ----------------------------
(* FileCrypt on small instances: bytes 0 .. 2 and blocks of two bytes. *)
EXTENDS FileCryptInv

\* A cipher that mixes the bytes of a block.
SmallEnc == [b \in Block |-> <<(b[2] + 1) % 3, (b[1] + b[2]) % 3>>]
SmallDec == [b \in Block |-> <<(b[2] + 4 - b[1]) % 3, (b[1] + 2) % 3>>]

\* Every content of up to two bytes, and longer ones, with and without a
\* beginning of padding at the end.
Short == UNION {[1 .. n -> Byte] : n \in 0 .. 2}
Long  == {<<0, 1, 2>>, <<2, 1, 1>>, <<0, 2, 2, 2>>, <<1, 0, 2, 1>>, <<2, 0, 1, 1, 0>>}

Plain == Short \union Long

\* What a decryption may find: plain files too, and all that was encrypted.
AllContents == Plain \union {Encrypted(s) : s \in Plain}

FewContents == {<<>>, <<1>>, <<0, 2>>, <<0, 1, 2>>, Encrypted(<<1>>), Encrypted(<<0, 2>>)}

\* A name without .enc, one with it, one whose output is cut off, and ".enc".
Names == {<<"f">>, <<"f", ".enc">>, <<"f", "f", "f">>, <<".enc">>}

\* A file that shrinks, and one that grows.
ShortAndLong == {<<1>>, <<0, 2, 2, 2>>}

OneName == {<<"f">>, <<"f", ".enc">>}
=============================================================================

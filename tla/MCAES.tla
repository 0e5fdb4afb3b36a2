-------------------------------- MODULE MCAES --------------------------------
(* AES on published examples and on passwords that are hard to tell apart. *)
EXTENDS AESFacts

\* FIPS-197 appendix B, SP 800-38A F.1.1 and the first KeySbox vector of the
\* AES algorithm validation suite.
FIPSKey == <<43, 126, 21, 22, 40, 174, 210, 166, 171, 247, 21, 136, 9, 207, 79, 60>>
SomeAnswers == {
  [key |-> FIPSKey,
   block |-> <<50, 67, 246, 168, 136, 90, 48, 141, 49, 49, 152, 162, 224, 55, 7, 52>>,
   cipher |-> <<57, 37, 132, 29, 2, 220, 9, 251, 220, 17, 133, 151, 25, 106, 11, 50>>],
  [key |-> FIPSKey,
   block |-> <<107, 193, 190, 226, 46, 64, 159, 150, 233, 61, 126, 17, 115, 147, 23, 42>>,
   cipher |-> <<58, 215, 123, 180, 13, 122, 54, 96, 168, 158, 202, 243, 36, 102, 239, 151>>],
  [key |-> FIPSKey,
   block |-> <<174, 45, 138, 87, 30, 3, 172, 156, 158, 183, 111, 172, 69, 175, 142, 81>>,
   cipher |-> <<245, 211, 213, 133, 3, 185, 105, 157, 231, 133, 137, 90, 150, 253, 186, 175>>],
  [key |-> <<16, 165, 136, 105, 215, 75, 229, 163, 116, 207, 134, 124, 251, 71, 56, 89>>,
   block |-> [i \in 1 .. 16 |-> 0],
   cipher |-> <<109, 37, 30, 105, 68, 176, 81, 224, 78, 170, 111, 180, 219, 247, 132, 101>>]}

\* The password that derive_key_from_password makes a key of.
Password(key) ==
  [i \in 1 .. 16 |-> Xor((key[i] \div 8) + 32 * (key[i] % 8), ((i - 1) * 27) % 256)]

Long == [i \in 1 .. 16 |-> 96 + i]
Upper == <<65, 66, 67, 68>>
Lower == <<97, 98, 99, 100>>

SomePasswords == {
  <<Long, Long>>, <<Long \o <<33>>, Long \o <<34, 35>>>>, <<Long, SubSeq(Long, 1, 15)>>,
  <<Lower, Lower>>, <<Lower, Upper>>, <<Upper, <<65, 66, 67>>>>, <<<<>>, Lower>>}

\* An ordinary block, and one of padding.
SomeBlocks == {[i \in 1 .. 16 |-> (37 * i) % 256], [i \in 1 .. 16 |-> 16]}

Case(b, p, q) == [block |-> b, password |-> p, other |-> q]

SomeCases ==
  {Case(a.block, Password(a.key), Password(a.key)) : a \in SomeAnswers}
  \union {Case(b, p[1], p[2]) : b \in SomeBlocks, p \in SomePasswords}
=============================================================================

----------------------------- MODULE HuffmanInv -----------------------------
(***************************************************************************)
(* What is claimed about the codes, and about a file that was compressed   *)
(* and decompressed.                                                       *)
(***************************************************************************)
EXTENDS Huffman

\* Two symbols or more, and no code longer than buildCanonicalCodes can hold.
Ordinary ==
  /\ Cardinality(Used) > 1
  /\ \A s \in Symbol : codes[s].length <= CodeWidth

HaveCodes == pc \in {"coded", "write", "stored", "decode", "restored"} /\ Used # {}

-----------------------------------------------------------------------------
(* Codes. *)

\* The lengths that some prefix code of the used symbols has.
KraftLengths ==
  LET longest == Cardinality(Used) - 1
  IN  {lens \in [Used -> 1 .. longest] :
         MapThenSumSet(LAMBDA s : 2^(longest - lens[s]), Used) <= 2^longest}

Cost(lens) == MapThenSumSet(LAMBDA s : Frequency(s) * lens[s], Used)

\* No code is the beginning of another one, and no prefix code makes the input
\* shorter: whatever ties there are among weights, the two nodes that get a
\* parent are the lightest.
OptimalPrefixCode ==
  /\ HaveCodes /\ Ordinary =>
       \A s \in Used : \A t \in Used \ {s} : ~IsPrefix(Code(s), Code(t))
  /\ pc = "coded" /\ Cardinality(Used) > 1 =>
       \A lens \in KraftLengths : Cost([s \in Used |-> codes[s].length]) <= Cost(lens)

\* The decoder, which has nothing but the lengths, finds the encoder's codes.
DecoderRebuildsCodes ==
  pc = "decode" /\ Used # {} /\ Ordinary => decoder = [s \in Symbol |-> codes[s].bits]

-----------------------------------------------------------------------------
(* Decoding. *)

\* When all codes were stored, nothing else is restored and nothing is rejected.
RestoresOrdinaryInput ==
  Used # {} /\ Ordinary /\ ~lost =>
    /\ pc = "restored" => out = input
    /\ pc # "rejected"

\* Whatever file is decoded, the row that is looked up is one of the table of
\* LengthLimit + 1 rows, and the rows were set up.
RowsAreThere ==
  pc = "decode" /\ current_length > 0 =>
    current_length <= LengthLimit /\ entries # <<>>

\* Every file that is taken up is compressed or refused, and every file that is
\* decoded, damaged or not, restored or refused.
WorkEnds == (pc \in {"count", "stored"}) ~> (pc \in Ended)

-----------------------------------------------------------------------------
(* What the documentation says, and the code does not do. *)

\* "Extract all files from archive": what was compressed without an error is
\* what decompression restores.
RestoresEveryInput ==
  Used # {} /\ ~lost =>
    /\ pc = "restored" => out = input
    /\ pc # "rejected"
=============================================================================

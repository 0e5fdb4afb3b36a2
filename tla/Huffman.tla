------------------------------ MODULE Huffman ------------------------------
(***************************************************************************)
(* A file on its way through compressToFile of archive.c, huffmanAlgorithm *)
(* and compressFile, and back through decompressFile; or a damaged file    *)
(* that decompressFile is given.                                           *)
(***************************************************************************)
EXTENDS CanonicalCodes

CONSTANTS Inputs,       \* contents: sequences of symbols
          Garbage,      \* what codes that were never written may be
          Damaged,      \* files that no compression wrote: [size, lens, stream]
          LengthLimit,  \* 256: lengths are stored in an unsigned char
          ByteBits,     \* 8
          ChunkBytes,   \* 4096: buffers of the bit writer and the byte writer
          OrderBase     \* 256: order of the first inner node

ASSUME HuffmanAssumption ==
  /\ Inputs \subseteq Seq(Symbol)
  /\ Garbage \subseteq [length : Nat, bits : 0 .. 2^WideWidth - 1]
  /\ Damaged \subseteq [size : Nat, lens : [Symbol -> 0 .. LengthLimit - 1], stream : Seq({0, 1})]
  /\ {LengthLimit, ByteBits, ChunkBytes} \subseteq Nat \ {0} /\ CodeWidth < LengthLimit
  /\ OrderBase \in Nat /\ OrderBase >= Cardinality(Symbol)

VARIABLES
  pc, input,
  activeNodes,  \* nodes without a parent: weight, order and the depth of their leaves
  next_order,
  codes,        \* for each symbol the length of its code and the code itself
  file,         \* the compressed file: size, lens and the stream of bits
  lost,         \* a write of codes was cut short, which nobody noticed
  (* decompressFile *)
  entries,
  decoder,      \* the decoder's codes
  bitpos, current_code, current_length,
  out           \* what was decoded

encoderVars == <<input, activeNodes, next_order, codes>>
fileVars == <<file, lost>>
tableVars == <<entries, decoder>>
readerVars == <<bitpos, current_code, current_length, out>>
vars == <<pc, encoderVars, fileVars, tableVars, readerVars>>

\* restored: status 0; rejected: the data are at fault; failed: a call failed.
Ended == {"restored", "rejected", "failed", "crashed"}

NoCodes == [s \in Symbol |-> [length |-> 0, bits |-> 0]]

NoFile == [size |-> 0, lens |-> [s \in Symbol |-> 0], stream |-> <<>>]

Init ==
  /\ \/ pc = "count" /\ input \in Inputs /\ file = NoFile
     \/ pc = "stored" /\ input = <<>> /\ file \in Damaged
  /\ activeNodes = {} /\ next_order = OrderBase
  /\ codes = NoCodes /\ lost = FALSE
  /\ entries = <<>> /\ decoder = [s \in Symbol |-> 0]
  /\ bitpos = 0 /\ current_code = 0 /\ current_length = 0
  /\ out = <<>>

Goto(label) == pc' = label

-----------------------------------------------------------------------------
(* The tree. *)

Frequency(s) == Cardinality({k \in DOMAIN input : input[k] = s})

Used == {s \in Symbol : Frequency(s) > 0}

\* Leaves are ordered by symbol.
Leaf(s) == [weight |-> Frequency(s),
            order  |-> Cardinality({t \in Used : t < s}),
            depth  |-> [t \in {s} |-> 0]]

\* An empty input gives no tree, which is an error; an input with one symbol a
\* tree whose codes nobody assigns.
InitializeTree ==
  /\ pc = "count"
  /\ activeNodes' = {Leaf(s) : s \in Used}
  /\ \/ Used = {} /\ UNCHANGED codes /\ Goto("failed")
     \/ Cardinality(Used) = 1 /\ codes' \in [Symbol -> Garbage] /\ Goto("coded")
     \/ Cardinality(Used) > 1 /\ UNCHANGED codes /\ Goto("merge")
  /\ UNCHANGED <<input, next_order, fileVars, tableVars, readerVars>>

\* createNode or the array of nodes: no memory.
OutOfMemory ==
  /\ pc \in {"count", "merge"}
  /\ Goto("failed")
  /\ UNCHANGED <<encoderVars, fileVars, tableVars, readerVars>>

\* Variant: nodes are compared by their order alone.
Before_OrderOnly(a, b) == a.order < b.order

\* nodeComparator.
Before(a, b) == a.weight < b.weight \/ (a.weight = b.weight /\ a.order < b.order)

First(nodes) == CHOOSE a \in nodes : \A b \in nodes \ {a} : Before(a, b)

Parent(a, b) ==
  [weight |-> a.weight + b.weight,
   order  |-> next_order,
   depth  |-> [s \in DOMAIN a.depth \union DOMAIN b.depth |->
                 1 + (IF s \in DOMAIN a.depth THEN a.depth[s] ELSE b.depth[s])]]

\* The two first nodes get a parent, which takes their place.
Merge ==
  /\ pc = "merge" /\ Cardinality(activeNodes) > 1
  /\ LET firstA == First(activeNodes)
         firstB == First(activeNodes \ {firstA})
     IN  activeNodes' = (activeNodes \ {firstA, firstB}) \union {Parent(firstA, firstB)}
  /\ next_order' = next_order + 1
  /\ UNCHANGED <<pc, input, codes, fileVars, tableVars, readerVars>>

\* assignCodes and buildCanonicalCodes.
AssignCodes ==
  /\ pc = "merge" /\ Cardinality(activeNodes) = 1
  /\ LET depth == First(activeNodes).depth
         lens  == [s \in Symbol |-> IF s \in DOMAIN depth THEN depth[s] ELSE 0]
         bits  == CanonicalBits(lens)
     IN  codes' = [s \in Symbol |-> [length |-> lens[s], bits |-> bits[s]]]
  /\ Goto("coded")
  /\ UNCHANGED <<input, activeNodes, next_order, fileVars, tableVars, readerVars>>

\* The results of calloc are not looked at.
AssignCodesCrashes ==
  /\ pc = "merge" /\ Cardinality(activeNodes) = 1
  /\ Goto("crashed")
  /\ UNCHANGED <<encoderVars, fileVars, tableVars, readerVars>>

-----------------------------------------------------------------------------
(* compressFile. *)

\* Magic, size, one byte for each length, and a byte for the trailing bits.
WriteHeader ==
  /\ pc = "coded"
  /\ file' = [size   |-> Len(input),
              lens   |-> [s \in Symbol |-> codes[s].length % LengthLimit],
              stream |-> <<>>]
  /\ Goto("write")
  /\ UNCHANGED <<encoderVars, lost, tableVars, readerVars>>

\* The file cannot be opened, the header or its last byte cannot be
\* written, or the file is gone afterwards.
WriteFails ==
  /\ pc \in {"coded", "write"}
  /\ Goto("failed")
  /\ UNCHANGED <<encoderVars, fileVars, tableVars, readerVars>>

Code(s) == BitsOf(codes[s].bits, codes[s].length)

Codes == FlattenSeq([k \in DOMAIN input |-> Code(input[k])])

BytesFor(n) == (n + ByteBits - 1) \div ByteBits

\* Variant: the bits of the last byte stay at its low end.
Byte_RightAligned(bits, b) ==
  LET n == Len(bits) - (b - 1) * ByteBits
      pad == IF n < ByteBits THEN ByteBits - n ELSE 0
  IN  [k \in 1 .. ByteBits |-> IF k <= pad THEN 0 ELSE bits[(b - 1) * ByteBits + k - pad]]

\* Byte b of the stream: the last one is filled up with zeros.
Byte(bits, b) ==
  [k \in 1 .. ByteBits |->
     IF (b - 1) * ByteBits + k <= Len(bits) THEN bits[(b - 1) * ByteBits + k] ELSE 0]

SameChunk(a, b) == (a - 1) \div ChunkBytes = (b - 1) \div ChunkBytes

\* What the writes may store of n bytes: of each chunk a beginning.
Stored(n) ==
  {S \in SUBSET (1 .. n) : \A b \in S : \A a \in 1 .. b : SameChunk(a, b) => a \in S}

\* Results of write are ignored.
WriteCodes ==
  /\ pc = "write"
  /\ LET bits == Codes
         n    == BytesFor(Len(bits))
     IN  \E S \in Stored(n) :
           /\ file' = [file EXCEPT !.stream =
                         FlattenSeq([b \in 1 .. n |-> IF b \in S THEN Byte(bits, b) ELSE <<>>])]
           /\ lost' = (S # 1 .. n)
  /\ Goto("stored")
  /\ UNCHANGED <<encoderVars, tableVars, readerVars>>

-----------------------------------------------------------------------------
(* decompressFile. *)

\* The header is read, the tables are built and the output is created.
ReadHeader ==
  /\ pc = "stored"
  /\ entries' = Entries(file.lens)
  /\ IF ShiftsDefined(file.lens)
     THEN decoder' = Reconstructed(file.lens)
     ELSE decoder' \in [Symbol -> 0 .. 2^WideWidth - 1]
  /\ Goto("decode")
  /\ UNCHANGED <<encoderVars, fileVars, readerVars>>

ReadHeaderFails ==
  /\ pc = "stored"
  /\ Goto("failed")
  /\ UNCHANGED <<encoderVars, fileVars, tableVars, readerVars>>

Decoding == pc = "decode" /\ Len(out) < file.size

\* Variant: the end of the file is taken for data that are still to come.
AtEndOfFile_Retry == "decode"

AtEndOfFile == "rejected"

NoMoreBits ==
  /\ Decoding /\ bitpos = Len(file.stream)
  /\ Goto(AtEndOfFile)
  /\ UNCHANGED <<encoderVars, fileVars, tableVars, readerVars>>

NextCode == (current_code * 2 + file.stream[bitpos + 1]) % 2^WideWidth

NextLength == current_length + 1

\* Variant: the length of the current code is not limited.
CodeTooLong_Never == FALSE

CodeTooLong == NextLength > LongestOf(file.lens)

CodeIs(code, n) ==
  /\ bitpos' = bitpos + 1
  /\ current_code' = code /\ current_length' = n

RejectCode ==
  /\ Decoding /\ bitpos < Len(file.stream)
  /\ CodeTooLong
  /\ CodeIs(NextCode, NextLength)
  /\ Goto("rejected")
  /\ UNCHANGED <<encoderVars, fileVars, tableVars, out>>

IsCode == Hit(file.lens, entries, decoder, NextCode, NextLength)

CodeGoesOn ==
  /\ Decoding /\ bitpos < Len(file.stream)
  /\ ~CodeTooLong /\ ~IsCode
  /\ CodeIs(NextCode, NextLength)
  /\ UNCHANGED <<pc, encoderVars, fileVars, tableVars, out>>

\* byteWriterPut writes when its buffer is full.
PutSymbol ==
  /\ Decoding /\ bitpos < Len(file.stream)
  /\ ~CodeTooLong /\ IsCode
  /\ out' = Append(out, Found(file.lens, entries, decoder, NextCode, NextLength))
  /\ \/ CodeIs(0, 0) /\ UNCHANGED pc
     \/ Len(out') % ChunkBytes = 0 /\ CodeIs(NextCode, NextLength) /\ Goto("failed")
  /\ UNCHANGED <<encoderVars, fileVars, tableVars>>

\* The rest of the buffer is written.
DecodeEnds ==
  /\ pc = "decode" /\ Len(out) >= file.size
  /\ \/ Goto("restored")
     \/ Len(out) % ChunkBytes # 0 /\ Goto("failed")
  /\ UNCHANGED <<encoderVars, fileVars, tableVars, readerVars>>

-----------------------------------------------------------------------------
Step ==
  \/ InitializeTree \/ Merge \/ AssignCodes
  \/ WriteHeader \/ WriteCodes
  \/ ReadHeader \/ NoMoreBits \/ RejectCode \/ CodeGoesOn \/ PutSymbol \/ DecodeEnds

Failure == OutOfMemory \/ AssignCodesCrashes \/ WriteFails \/ ReadHeaderFails

Terminated == pc \in Ended /\ UNCHANGED vars

Next == Step \/ Failure \/ Terminated

Spec == Init /\ [][Next]_vars

\* One thread works on a file; nothing has to fail.
FairSpec == Spec /\ WF_vars(Step)
=============================================================================

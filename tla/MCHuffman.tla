----------------------------- MODULE MCHuffman -----------------------------
(* Huffman on small instances. *)
EXTENDS HuffmanInv

Texts(n) == UNION {[1 .. k -> Symbol] : k \in 0 .. n}

\* A text with the given frequencies, in the order of the symbols.
TextOf(freq) ==
  FlattenSeq([i \in 1 .. Cardinality(Symbol) |-> [k \in 1 .. freq[i - 1] |-> i - 1]])

\* Every text of up to five symbols, and every choice of frequencies.
ManyInputs == Texts(5) \union {TextOf(f) : f \in [Symbol -> 0 .. 3]}

OneSymbol == {<<0>>, <<1, 1>>}

\* What the stack may hold: nothing, a usable code, a length beyond one byte.
StackValues == {[length |-> 0, bits |-> 0], [length |-> 1, bits |-> 1], [length |-> 9, bits |-> 3]}

ShortValues == {[length |-> 0, bits |-> 0], [length |-> 1, bits |-> 1]}

Nothing == {}

\* Tables of lengths that no encoder makes: with no codes, with too many short
\* ones or too few, and with a step of WideWidth or more; streams that end early.
BadLengths ==
  {<<0, 0, 0, 0>>, <<0, 0, 2, 0>>, <<1, 1, 1, 1>>, <<3, 1, 0, 2>>, <<2, 2, 1, 1>>,
   <<1, 0, 7, 0>>}

DamagedFiles ==
  [size : {0, 2}, lens : {[s \in Symbol |-> l[s + 1]] : l \in BadLengths},
   stream : {<<>>, <<0, 1, 1, 0>>, <<1, 0, 1, 1, 0, 1, 0, 0>>}]
=============================================================================

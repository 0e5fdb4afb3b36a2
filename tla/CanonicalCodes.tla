--------------------------- MODULE CanonicalCodes ---------------------------
(***************************************************************************)
(* Canonical Huffman codes, computed twice from the lengths of the codes:  *)
(* by the encoder (compress/src/huffman/huffman.c) and by the decoder      *)
(* (compress/utils/decompress_utils.c).                                    *)
(***************************************************************************)
EXTENDS Naturals, FiniteSets, Sequences, SequencesExt, FiniteSetsExt

CONSTANTS Symbol,     \* the bytes, 0 .. 255
          CodeWidth,  \* 32: bits of first_code in buildCanonicalCodes
          WideWidth   \* 64: bits of a code elsewhere

ASSUME CodeAssumption ==
  /\ Symbol \subseteq Nat /\ IsFiniteSet(Symbol)
  /\ CodeWidth \in Nat \ {0} /\ WideWidth \in Nat /\ CodeWidth <= WideWidth

\* In a table of lengths, 0 stands for no code.
Coded(lens) == {s \in Symbol : lens[s] > 0}

LongestOf(lens) == Max({lens[s] : s \in Symbol} \union {0})

BitsOf(code, n) == [k \in 1 .. n |-> (code \div 2^(n - k)) % 2]

-----------------------------------------------------------------------------
(* The encoder. *)

CountOf(lens, n) == Cardinality({s \in Coded(lens) : lens[s] = n})

\* Variant: the codes of the same length are skipped, not the shorter ones.
FirstCode_SameLength(lens) ==
  LET first[n \in 0 .. LongestOf(lens)] ==
        IF n = 0 THEN 0 ELSE ((first[n - 1] + CountOf(lens, n)) * 2) % 2^CodeWidth
  IN  first

\* first_code, unsigned, as it is before codes are handed out.
FirstCode(lens) ==
  LET first[n \in 0 .. LongestOf(lens)] ==
        IF n = 0 THEN 0
        ELSE ((first[n - 1] + CountOf(lens, n - 1)) * 2) % 2^CodeWidth
  IN  first

\* Symbols take the codes of their length in ascending order.
Rank(lens, s) == Cardinality({t \in Coded(lens) : lens[t] = lens[s] /\ t < s})

CanonicalBits(lens) ==
  LET first == FirstCode(lens)
  IN  [s \in Symbol |->
         IF lens[s] = 0 THEN 0 ELSE (first[lens[s]] + Rank(lens, s)) % 2^CodeWidth]

-----------------------------------------------------------------------------
(* The decoder. *)

\* compareEntries.
EntryBefore(lens, s, t) == lens[s] < lens[t] \/ (lens[s] = lens[t] /\ s < t)

\* Variant: entries are compared by their symbol alone.
Entries_BySymbol(lens) ==
  CHOOSE e \in [1 .. Cardinality(Coded(lens)) -> Coded(lens)] :
    \A i, j \in DOMAIN e : i < j => e[i] < e[j]

\* The coded symbols, sorted by qsort.
Entries(lens) ==
  CHOOSE e \in [1 .. Cardinality(Coded(lens)) -> Coded(lens)] :
    \A i, j \in DOMAIN e : i < j => EntryBefore(lens, e[i], e[j])

Longer(lens, e, i) == IF lens[e[i]] > lens[e[i - 1]] THEN lens[e[i]] - lens[e[i - 1]] ELSE 0

\* A shift by the width of the type or more is undefined.
ShiftsDefined(lens) ==
  LET e == Entries(lens) IN \A i \in 2 .. Len(e) : Longer(lens, e, i) < WideWidth

Reconstructed(lens) ==
  LET e == Entries(lens)
      code[i \in 1 .. Len(e)] ==
        IF i = 1 THEN 0 ELSE ((code[i - 1] + 1) * 2^Longer(lens, e, i)) % 2^WideWidth
  IN  [s \in Symbol |->
         IF lens[s] = 0 THEN 0 ELSE code[CHOOSE i \in 1 .. Len(e) : e[i] = s]]

\* The row of codes of length n: indices of entries.
Row(lens, e, n) == {i \in 1 .. Len(e) : lens[e[i]] = n}

\* The current code is one of the row's, counted from its first one; the
\* difference of unsigned numbers is small then.
Hit(lens, e, codes, current, n) ==
  LET row == Row(lens, e, n)
  IN  /\ row # {}
      /\ current >= codes[e[Min(row)]]
      /\ current - codes[e[Min(row)]] < Cardinality(row)

Found(lens, e, codes, current, n) ==
  LET start == Min(Row(lens, e, n)) IN e[start + (current - codes[e[start]])]
=============================================================================

--------------------------------- MODULE AES ---------------------------------
(***************************************************************************)
(* aes.c and key.c, with derive_key_from_password of file_ops.c: one block *)
(* is encrypted under the key of one password and decrypted under the key  *)
(* of another, one layer at a time.  Bytes are the numbers below 256, and  *)
(* the state is a function of row and column.                              *)
(***************************************************************************)
EXTENDS Integers, SequencesExt

CONSTANT Cases  \* the blocks and passwords: [block, password, other]

Octet == 0 .. 255
Index == 0 .. 3

ASSUME CasesAssumption ==
  \A c \in Cases : /\ c.block \in [1 .. 16 -> Octet]
                   /\ c.password \in Seq(Octet \ {0}) /\ c.other \in Seq(Octet \ {0})

VARIABLES input,     \* the case
          calls,     \* "encrypt" or "decrypt", the call that is being made
          words,     \* the words of expanded_key that are made
          layers,    \* the layers of the call that have been applied
          state,     \* the state between two layers
          trace      \* trace[k]: the state that layer k of encrypt was given

cipherVars == <<input, calls, words, layers, state, trace>>

-----------------------------------------------------------------------------
(* Arithmetic on bytes. *)

Bit(a, i) == (a \div 2^i) % 2

Xor(a, b) ==
  LET sum[i \in 0 .. 8] ==
        IF i = 0 THEN 0
        ELSE sum[i - 1] + (IF Bit(a, i - 1) = Bit(b, i - 1) THEN 0 ELSE 2^(i - 1))
  IN  sum[8]

TimesX(a) == IF a >= 128 THEN Xor((2 * a) % 256, 27) ELSE 2 * a

gf_mul(a, b) ==
  LET multiple[i \in 0 .. 7] == IF i = 0 THEN a ELSE TimesX(multiple[i - 1])
      product[i \in 0 .. 8] ==
        IF i = 0 THEN 0
        ELSE IF Bit(b, i - 1) = 1 THEN Xor(product[i - 1], multiple[i - 1])
        ELSE product[i - 1]
  IN  product[8]

\* sbox[a + 1] and inv_sbox[a + 1] are what the tables have for byte a.
sbox == <<
  99, 124, 119, 123, 242, 107, 111, 197, 48, 1, 103, 43, 254, 215, 171, 118,
  202, 130, 201, 125, 250, 89, 71, 240, 173, 212, 162, 175, 156, 164, 114, 192,
  183, 253, 147, 38, 54, 63, 247, 204, 52, 165, 229, 241, 113, 216, 49, 21,
  4, 199, 35, 195, 24, 150, 5, 154, 7, 18, 128, 226, 235, 39, 178, 117,
  9, 131, 44, 26, 27, 110, 90, 160, 82, 59, 214, 179, 41, 227, 47, 132,
  83, 209, 0, 237, 32, 252, 177, 91, 106, 203, 190, 57, 74, 76, 88, 207,
  208, 239, 170, 251, 67, 77, 51, 133, 69, 249, 2, 127, 80, 60, 159, 168,
  81, 163, 64, 143, 146, 157, 56, 245, 188, 182, 218, 33, 16, 255, 243, 210,
  205, 12, 19, 236, 95, 151, 68, 23, 196, 167, 126, 61, 100, 93, 25, 115,
  96, 129, 79, 220, 34, 42, 144, 136, 70, 238, 184, 20, 222, 94, 11, 219,
  224, 50, 58, 10, 73, 6, 36, 92, 194, 211, 172, 98, 145, 149, 228, 121,
  231, 200, 55, 109, 141, 213, 78, 169, 108, 86, 244, 234, 101, 122, 174, 8,
  186, 120, 37, 46, 28, 166, 180, 198, 232, 221, 116, 31, 75, 189, 139, 138,
  112, 62, 181, 102, 72, 3, 246, 14, 97, 53, 87, 185, 134, 193, 29, 158,
  225, 248, 152, 17, 105, 217, 142, 148, 155, 30, 135, 233, 206, 85, 40, 223,
  140, 161, 137, 13, 191, 230, 66, 104, 65, 153, 45, 15, 176, 84, 187, 22 >>

inv_sbox == <<
  82, 9, 106, 213, 48, 54, 165, 56, 191, 64, 163, 158, 129, 243, 215, 251,
  124, 227, 57, 130, 155, 47, 255, 135, 52, 142, 67, 68, 196, 222, 233, 203,
  84, 123, 148, 50, 166, 194, 35, 61, 238, 76, 149, 11, 66, 250, 195, 78,
  8, 46, 161, 102, 40, 217, 36, 178, 118, 91, 162, 73, 109, 139, 209, 37,
  114, 248, 246, 100, 134, 104, 152, 22, 212, 164, 92, 204, 93, 101, 182, 146,
  108, 112, 72, 80, 253, 237, 185, 218, 94, 21, 70, 87, 167, 141, 157, 132,
  144, 216, 171, 0, 140, 188, 211, 10, 247, 228, 88, 5, 184, 179, 69, 6,
  208, 44, 30, 143, 202, 63, 15, 2, 193, 175, 189, 3, 1, 19, 138, 107,
  58, 145, 17, 65, 79, 103, 220, 234, 151, 242, 207, 206, 240, 180, 230, 115,
  150, 172, 116, 34, 231, 173, 53, 133, 226, 249, 55, 232, 28, 117, 223, 110,
  71, 241, 26, 113, 29, 41, 197, 137, 111, 183, 98, 14, 170, 24, 190, 27,
  252, 86, 62, 75, 198, 210, 121, 32, 154, 219, 192, 254, 120, 205, 90, 244,
  31, 221, 168, 51, 136, 7, 199, 49, 177, 18, 16, 89, 39, 128, 236, 95,
  96, 81, 127, 169, 25, 181, 74, 13, 45, 229, 122, 159, 147, 201, 156, 239,
  160, 224, 59, 77, 174, 42, 245, 176, 200, 235, 187, 60, 131, 83, 153, 97,
  23, 43, 4, 126, 186, 119, 214, 38, 225, 105, 20, 99, 85, 33, 12, 125 >>

-----------------------------------------------------------------------------
(* Keys. *)

\* Variant: the bits that << 3 pushes out are not put back.
Rotated_ShiftOnly(b) == (8 * b) % 256

Rotated(b) == ((8 * b) % 256) + (b \div 32)

derive_key_from_password(password) ==
  [i \in 1 .. 16 |->
     Rotated(Xor(IF i <= Len(password) THEN password[i] ELSE 0, ((i - 1) * 27) % 256))]

round_constants == <<1, 2, 4, 8, 16, 32, 64, 128, 27, 54>>

\* shift_row_n: four bytes moved n places to the left.
Shifted(row, n) == [j \in Index |-> row[(j + n) % 4]]

\* Variant: the word goes through the table without being turned.
Mixed_NotTurned(word, i) ==
  IF i % 4 # 0 THEN word
  ELSE [j \in Index |-> Xor(sbox[word[j] + 1], IF j = 0 THEN round_constants[i \div 4] ELSE 0)]

\* What word i - 1 of the key contributes to word i.
Mixed(word, i) ==
  IF i % 4 # 0 THEN word
  ELSE [j \in Index |-> Xor(sbox[Shifted(word, 1)[j] + 1],
                            IF j = 0 THEN round_constants[i \div 4] ELSE 0)]

\* The first words of expanded_key are the key itself.
FirstWords(password) ==
  LET key == derive_key_from_password(password)
  IN  [w \in 0 .. 3 |-> [j \in Index |-> key[4 * w + j + 1]]]

\* Word i of the key schedule after the words before it.
NextWord(w, i) == [j \in Index |-> Xor(w[i - 4][j], Mixed(w[i - 1], i)[j])]

-----------------------------------------------------------------------------
(* Layers. *)

plaintext_to_state(bytes) == [p \in Index \X Index |-> bytes[p[1] + 4 * p[2] + 1]]

state_to_ciphertext(s) == [i \in 1 .. 16 |-> s[<<(i - 1) % 4, (i - 1) \div 4>>]]

sub_bytes(s) == [p \in DOMAIN s |-> sbox[s[p] + 1]]

inv_sub_bytes(s) == [p \in DOMAIN s |-> inv_sbox[s[p] + 1]]

Row(s, r) == [c \in Index |-> s[<<r, c>>]]

shift_rows(s) == [p \in DOMAIN s |-> Shifted(Row(s, p[1]), p[1])[p[2]]]

\* Variant: the rows go on to the left.
inv_shift_rows_Left(s) == shift_rows(s)

inv_shift_rows(s) == [p \in DOMAIN s |-> Shifted(Row(s, p[1]), (4 - p[1]) % 4)[p[2]]]

\* Every column times the matrix whose rows are turns of its first one.
Columns(s, first) ==
  [p \in DOMAIN s |->
     LET term(r) == gf_mul(first[(r - p[1] + 4) % 4], s[<<r, p[2]>>])
     IN  Xor(Xor(term(0), term(1)), Xor(term(2), term(3)))]

coefficients == 0 :> 2 @@ 1 :> 3 @@ 2 :> 1 @@ 3 :> 1

inv_coefficients == 0 :> 14 @@ 1 :> 11 @@ 2 :> 13 @@ 3 :> 9

mix_columns(s) == Columns(s, coefficients)

inv_mix_columns(s) == Columns(s, inv_coefficients)

add_round_key(s, w, round) == [p \in DOMAIN s |-> Xor(s[p], w[round + p[2]][p[1]])]

Apply(layer, s, w) ==
  CASE layer[1] = "add_round_key" -> add_round_key(s, w, layer[2])
    [] layer[1] = "sub_bytes" -> sub_bytes(s)
    [] layer[1] = "shift_rows" -> shift_rows(s)
    [] layer[1] = "mix_columns" -> mix_columns(s)
    [] layer[1] = "inv_sub_bytes" -> inv_sub_bytes(s)
    [] layer[1] = "inv_shift_rows" -> inv_shift_rows(s)
    [] layer[1] = "inv_mix_columns" -> inv_mix_columns(s)

EncryptLayers ==
  <<<<"add_round_key", 0>>>>
  \o FlattenSeq([round \in 1 .. 9 |->
       <<<<"sub_bytes">>, <<"shift_rows">>, <<"mix_columns">>, <<"add_round_key", round * 4>>>>])
  \o <<<<"sub_bytes">>, <<"shift_rows">>, <<"add_round_key", 40>>>>

DecryptLayers ==
  <<<<"add_round_key", 40>>, <<"inv_shift_rows">>, <<"inv_sub_bytes">>>>
  \o FlattenSeq([k \in 1 .. 9 |->
       <<<<"add_round_key", (10 - k) * 4>>, <<"inv_mix_columns">>, <<"inv_shift_rows">>,
         <<"inv_sub_bytes">>>>])
  \o <<<<"add_round_key", 0>>>>

LayersOf(call) == IF call = "encrypt" THEN EncryptLayers ELSE DecryptLayers

-----------------------------------------------------------------------------
CipherInit ==
  /\ input \in Cases
  /\ calls = "encrypt"
  /\ words = FirstWords(input.password)
  /\ layers = 0
  /\ state = plaintext_to_state(input.block)
  /\ trace = <<>>

MadeWords == Cardinality(DOMAIN words)

key_expansion ==
  /\ MadeWords < 44
  /\ words' = [i \in 0 .. MadeWords |->
                 IF i = MadeWords THEN NextWord(words, MadeWords) ELSE words[i]]
  /\ UNCHANGED <<input, calls, layers, state, trace>>

Layer ==
  /\ MadeWords = 44
  /\ layers < Len(LayersOf(calls))
  /\ layers' = layers + 1
  /\ state' = Apply(LayersOf(calls)[layers + 1], state, words)
  /\ trace' = IF calls = "encrypt" THEN Append(trace, state) ELSE trace
  /\ UNCHANGED <<input, calls, words>>

\* The ciphertext is the input of decrypt.
CallDecrypt ==
  /\ calls = "encrypt" /\ layers = Len(EncryptLayers)
  /\ calls' = "decrypt"
  /\ words' = FirstWords(input.other)
  /\ layers' = 0
  /\ state' = plaintext_to_state(state_to_ciphertext(state))
  /\ UNCHANGED <<input, trace>>

CipherDone ==
  /\ calls = "decrypt" /\ layers = Len(DecryptLayers)
  /\ UNCHANGED cipherVars

CipherNext == key_expansion \/ Layer \/ CallDecrypt \/ CipherDone

CipherSpec == CipherInit /\ [][CipherNext]_cipherVars
=============================================================================

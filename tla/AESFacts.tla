------------------------------ MODULE AESFacts ------------------------------
(***************************************************************************)
(* What the tables and the arithmetic of aes.c come to, for all bytes, and  *)
(* what the order of the layers is.  These are closed formulas over a few   *)
(* thousand cases: TLC evaluates each of them in full, in every run, and    *)
(* the proofs build on them.                                                *)
(***************************************************************************)
EXTENDS AESInv

BitIndex == 0 .. 7

Power == {1, 2, 4, 8, 16, 32, 64, 128}

XorAll(a, b, c, d) == Xor(Xor(a, b), Xor(c, d))

ASSUME XorIsBitwise ==
  \A a, b \in Octet :
    LET c == Xor(a, b)
    IN  c \in Octet /\ \A i \in BitIndex : Bit(c, i) = (Bit(a, i) + Bit(b, i)) % 2

ASSUME BytesAreBits ==
  /\ \A a \in Octet, i \in BitIndex : Bit(a, i) \in {0, 1}
  /\ \A a, b \in Octet : (\A i \in BitIndex : Bit(a, i) = Bit(b, i)) => a = b

ASSUME XorAddsPower ==
  \A n \in Power, b \in Octet : b < n => Xor(b, n) = b + n

ASSUME TablesAreInverse ==
  \A a \in Octet : /\ sbox[a + 1] \in Octet /\ inv_sbox[a + 1] \in Octet
                   /\ inv_sbox[sbox[a + 1] + 1] = a

ASSUME ProductsAreBytes ==
  \A k \in Index, a \in Octet :
    gf_mul(coefficients[k], a) \in Octet /\ gf_mul(inv_coefficients[k], a) \in Octet

ASSUME ProductsAdd ==
  \A k \in Index, a \in Octet, n \in Power :
    LET product(b) == gf_mul(inv_coefficients[k], b)
    IN  product(Xor(a, n)) = Xor(product(a), product(n))

\* The product of the two matrices, applied to a byte in row r.
ASSUME MatricesAreInverse ==
  \A p, r \in Index, x \in Octet :
    LET term(q) == gf_mul(inv_coefficients[(q - p + 4) % 4],
                          gf_mul(coefficients[(r - q + 4) % 4], x))
    IN  XorAll(term(0), term(1), term(2), term(3)) = IF p = r THEN x ELSE 0

\* A layer of decrypt undoes a layer of encrypt.
Undoes(d, e) ==
  \/ e = <<"sub_bytes">> /\ d = <<"inv_sub_bytes">>
  \/ e = <<"shift_rows">> /\ d = <<"inv_shift_rows">>
  \/ e = <<"mix_columns">> /\ d = <<"inv_mix_columns">>
  \/ \E round \in 0 .. 40 : e = <<"add_round_key", round>> /\ d = e

ASSUME LayersAreReversed ==
  /\ Len(EncryptLayers) = 40 /\ Len(DecryptLayers) = 40
  /\ \A k \in 1 .. 40 : Undoes(DecryptLayers[41 - k], EncryptLayers[k])
=============================================================================

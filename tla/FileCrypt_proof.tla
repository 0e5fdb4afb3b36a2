-------------------------- MODULE FileCrypt_proof --------------------------
(***************************************************************************)
(* Proofs of what becomes of the bytes of a file.  First the cipher of one *)
(* block, from the facts about single bytes in AESFacts: decrypt undoes    *)
(* encrypt under the same key, for every block and every password.  Then   *)
(* the file: decrypting what was encrypted gives back the bytes there      *)
(* were, for every cipher with an inverse, and the claims of FileCryptInv  *)
(* about one call of process_file_syscalls hold for every content, block   *)
(* size, number of threads and interleaving.                               *)
(***************************************************************************)
EXTENDS FileCryptInv, AESFacts, FiniteSetTheorems, SequenceTheorems, TLAPS

-----------------------------------------------------------------------------
(* Exclusive or. *)

\* The exclusive or of two bytes is a byte.
LEMMA XorIsByte == \A a, b \in Octet : Xor(a, b) \in Octet
BY XorIsBitwise

\* It does not depend on the order,
LEMMA XorCommutes == \A a, b \in Octet : Xor(a, b) = Xor(b, a)
<1> SUFFICES ASSUME NEW a \in Octet, NEW b \in Octet
             PROVE  Xor(a, b) = Xor(b, a)
  OBVIOUS
<1>1. Xor(a, b) \in Octet /\ Xor(b, a) \in Octet
  BY XorIsByte
<1>2. \A i \in BitIndex : Bit(Xor(a, b), i) = Bit(Xor(b, a), i)
  <2> TAKE i \in BitIndex
  <2>1. Bit(Xor(a, b), i) = (Bit(a, i) + Bit(b, i)) % 2 /\ Bit(Xor(b, a), i) = (Bit(b, i) + Bit(a, i)) % 2
    BY XorIsBitwise
  <2>2. Bit(a, i) \in {0, 1} /\ Bit(b, i) \in {0, 1}
    BY BytesAreBits
  <2> QED BY <2>1, <2>2
<1> QED BY <1>1, <1>2, BytesAreBits

\* nor on what is taken together first,
LEMMA XorAssociates == \A a, b, c \in Octet : Xor(Xor(a, b), c) = Xor(a, Xor(b, c))
<1> SUFFICES ASSUME NEW a \in Octet, NEW b \in Octet, NEW c \in Octet
             PROVE  Xor(Xor(a, b), c) = Xor(a, Xor(b, c))
  OBVIOUS
<1>1. /\ Xor(a, b) \in Octet /\ Xor(b, c) \in Octet
      /\ Xor(Xor(a, b), c) \in Octet /\ Xor(a, Xor(b, c)) \in Octet
  BY XorIsByte
<1>2. \A i \in BitIndex : Bit(Xor(Xor(a, b), c), i) = Bit(Xor(a, Xor(b, c)), i)
  <2> TAKE i \in BitIndex
  <2>1. Bit(Xor(a, b), i) = (Bit(a, i) + Bit(b, i)) % 2 /\ Bit(Xor(b, c), i) = (Bit(b, i) + Bit(c, i)) % 2
    BY XorIsBitwise
  <2>2. /\ Bit(Xor(Xor(a, b), c), i) = (Bit(Xor(a, b), i) + Bit(c, i)) % 2
        /\ Bit(Xor(a, Xor(b, c)), i) = (Bit(a, i) + Bit(Xor(b, c), i)) % 2
    BY <1>1, XorIsBitwise
  <2>3. Bit(a, i) \in {0, 1} /\ Bit(b, i) \in {0, 1} /\ Bit(c, i) \in {0, 1}
    BY BytesAreBits
  <2> QED BY <2>1, <2>2, <2>3
<1> QED BY <1>1, <1>2, BytesAreBits

\* and a byte takes itself away.
LEMMA XorUndoes == \A a, b \in Octet : Xor(Xor(a, b), b) = a /\ Xor(a, 0) = a
<1> SUFFICES ASSUME NEW a \in Octet, NEW b \in Octet
             PROVE  Xor(Xor(a, b), b) = a /\ Xor(a, 0) = a
  OBVIOUS
<1>1. Xor(a, b) \in Octet /\ Xor(Xor(a, b), b) \in Octet
  BY XorIsByte
<1>2. \A i \in BitIndex : Bit(Xor(Xor(a, b), b), i) = Bit(a, i)
  <2> TAKE i \in BitIndex
  <2>1. Bit(Xor(a, b), i) = (Bit(a, i) + Bit(b, i)) % 2
    BY XorIsBitwise
  <2>2. Bit(Xor(Xor(a, b), b), i) = (Bit(Xor(a, b), i) + Bit(b, i)) % 2
    BY <1>1, XorIsBitwise
  <2>3. Bit(a, i) \in {0, 1} /\ Bit(b, i) \in {0, 1}
    BY BytesAreBits
  <2> QED BY <2>1, <2>2, <2>3
<1>3. Xor(Xor(a, b), b) = a
  BY <1>1, <1>2, BytesAreBits
<1>4. 0 \in Octet /\ Xor(a, 0) \in Octet
  <2>1. 0 \in Octet
    BY DEF Octet
  <2> QED BY <2>1, XorIsByte
<1>5. \A i \in BitIndex : Bit(Xor(a, 0), i) = Bit(a, i)
  <2> TAKE i \in BitIndex
  <2>1. 1 \in Octet
    BY DEF Octet
  <2>2. Xor(0, 1) = 1
    BY <1>4, XorAddsPower DEF Power
  <2>3. Bit(Xor(a, 0), i) = (Bit(a, i) + Bit(0, i)) % 2 /\ Bit(1, i) = (Bit(0, i) + Bit(1, i)) % 2
    BY <1>4, <2>1, <2>2, XorIsBitwise
  <2>4. Bit(a, i) \in {0, 1} /\ Bit(0, i) \in {0, 1} /\ Bit(1, i) \in {0, 1}
    BY <1>4, <2>1, BytesAreBits
  <2> QED BY <2>3, <2>4
<1> QED BY <1>3, <1>4, <1>5, BytesAreBits

\* Four bytes in another order, two by two.
LEMMA Exchange ==
  \A a, b, c, d \in Octet : Xor(Xor(a, b), Xor(c, d)) = Xor(Xor(a, c), Xor(b, d))
<1> SUFFICES ASSUME NEW a \in Octet, NEW b \in Octet, NEW c \in Octet, NEW d \in Octet
             PROVE  Xor(Xor(a, b), Xor(c, d)) = Xor(Xor(a, c), Xor(b, d))
  OBVIOUS
<1>1. Xor(c, d) \in Octet /\ Xor(b, d) \in Octet /\ Xor(b, c) \in Octet
  BY XorIsByte
<1>2. Xor(Xor(a, b), Xor(c, d)) = Xor(a, Xor(b, Xor(c, d)))
  BY <1>1, XorAssociates
<1>3. Xor(b, Xor(c, d)) = Xor(Xor(b, c), d) /\ Xor(c, Xor(b, d)) = Xor(Xor(c, b), d)
  BY <1>1, XorAssociates
<1>4. Xor(b, c) = Xor(c, b)
  BY XorCommutes
<1>5. Xor(Xor(a, c), Xor(b, d)) = Xor(a, Xor(c, Xor(b, d)))
  BY <1>1, XorAssociates
<1> QED BY <1>2, <1>3, <1>4, <1>5

\* The sum of four bytes is a byte.
LEMMA XorAllIsByte == \A a, b, c, d \in Octet : XorAll(a, b, c, d) \in Octet
BY XorIsByte DEF XorAll

\* Sums add up term by term.
LEMMA XorAllsAdd ==
  ASSUME NEW a \in [Index -> Octet], NEW b \in [Index -> Octet]
  PROVE  Xor(XorAll(a[0], a[1], a[2], a[3]), XorAll(b[0], b[1], b[2], b[3]))
           = XorAll(Xor(a[0], b[0]), Xor(a[1], b[1]), Xor(a[2], b[2]), Xor(a[3], b[3]))
<1>1. \A j \in Index : a[j] \in Octet /\ b[j] \in Octet
  OBVIOUS
<1>2. 0 \in Index /\ 1 \in Index /\ 2 \in Index /\ 3 \in Index
  BY DEF Index
<1> DEFINE p == Xor(a[0], a[1])  q == Xor(a[2], a[3])
           r == Xor(b[0], b[1])  t == Xor(b[2], b[3])
<1>3. p \in Octet /\ q \in Octet /\ r \in Octet /\ t \in Octet
  BY <1>1, <1>2, XorIsByte
<1>4. Xor(Xor(p, q), Xor(r, t)) = Xor(Xor(p, r), Xor(q, t))
  <2> HIDE DEF p, q, r, t
  <2> QED BY <1>3, Exchange
<1>5. /\ Xor(p, r) = Xor(Xor(a[0], b[0]), Xor(a[1], b[1]))
      /\ Xor(q, t) = Xor(Xor(a[2], b[2]), Xor(a[3], b[3]))
  BY <1>1, <1>2, Exchange
<1> QED BY <1>4, <1>5 DEF XorAll

\* Sixteen bytes are summed up by rows or by columns.
LEMMA RowsOrColumns ==
  ASSUME NEW g \in [Index \X Index -> Octet]
  PROVE  XorAll(XorAll(g[<<0, 0>>], g[<<0, 1>>], g[<<0, 2>>], g[<<0, 3>>]), XorAll(g[<<1, 0>>], g[<<1, 1>>], g[<<1, 2>>], g[<<1, 3>>]),
             XorAll(g[<<2, 0>>], g[<<2, 1>>], g[<<2, 2>>], g[<<2, 3>>]), XorAll(g[<<3, 0>>], g[<<3, 1>>], g[<<3, 2>>], g[<<3, 3>>]))
           = XorAll(XorAll(g[<<0, 0>>], g[<<1, 0>>], g[<<2, 0>>], g[<<3, 0>>]), XorAll(g[<<0, 1>>], g[<<1, 1>>], g[<<2, 1>>], g[<<3, 1>>]),
                 XorAll(g[<<0, 2>>], g[<<1, 2>>], g[<<2, 2>>], g[<<3, 2>>]), XorAll(g[<<0, 3>>], g[<<1, 3>>], g[<<2, 3>>], g[<<3, 3>>]))
<1> DEFINE row(i) == [j \in Index |-> g[<<i, j>>]]
           both(i, k) == [j \in Index |-> Xor(g[<<i, j>>], g[<<k, j>>])]
           sum(f) == XorAll(f[0], f[1], f[2], f[3])
<1>1. \A i \in Index : row(i) \in [Index -> Octet]
  OBVIOUS
<1>2. \A i, k \in Index : both(i, k) \in [Index -> Octet]
  BY XorIsByte
<1>3. 0 \in Index /\ 1 \in Index /\ 2 \in Index /\ 3 \in Index
  BY DEF Index
<1>4. \A i, k \in Index : Xor(sum(row(i)), sum(row(k))) = sum(both(i, k))
  <2> TAKE i, k \in Index
  <2>1. \A j \in Index : row(i)[j] = g[<<i, j>>] /\ row(k)[j] = g[<<k, j>>] /\ both(i, k)[j] = Xor(g[<<i, j>>], g[<<k, j>>])
    OBVIOUS
  <2>2. Xor(sum(row(i)), sum(row(k)))
          = XorAll(Xor(row(i)[0], row(k)[0]), Xor(row(i)[1], row(k)[1]),
                Xor(row(i)[2], row(k)[2]), Xor(row(i)[3], row(k)[3]))
    <3> HIDE DEF row
    <3> QED BY <1>1, XorAllsAdd
  <2> QED BY <2>1, <2>2, <1>3
<1>5. Xor(sum(both(0, 1)), sum(both(2, 3)))
        = XorAll(Xor(both(0, 1)[0], both(2, 3)[0]), Xor(both(0, 1)[1], both(2, 3)[1]),
              Xor(both(0, 1)[2], both(2, 3)[2]), Xor(both(0, 1)[3], both(2, 3)[3]))
  <2> HIDE DEF both
  <2> QED BY <1>2, <1>3, XorAllsAdd
<1>6. \A j \in Index : Xor(both(0, 1)[j], both(2, 3)[j]) = XorAll(g[<<0, j>>], g[<<1, j>>], g[<<2, j>>], g[<<3, j>>])
  BY DEF XorAll
<1>7. \A i \in Index : sum(row(i)) = XorAll(g[<<i, 0>>], g[<<i, 1>>], g[<<i, 2>>], g[<<i, 3>>])
  BY <1>3
<1>8. Xor(Xor(sum(row(0)), sum(row(1))), Xor(sum(row(2)), sum(row(3))))
        = XorAll(XorAll(g[<<0, 0>>], g[<<1, 0>>], g[<<2, 0>>], g[<<3, 0>>]), XorAll(g[<<0, 1>>], g[<<1, 1>>], g[<<2, 1>>], g[<<3, 1>>]),
              XorAll(g[<<0, 2>>], g[<<1, 2>>], g[<<2, 2>>], g[<<3, 2>>]), XorAll(g[<<0, 3>>], g[<<1, 3>>], g[<<2, 3>>], g[<<3, 3>>]))
  <2>1. Xor(Xor(sum(row(0)), sum(row(1))), Xor(sum(row(2)), sum(row(3))))
          = Xor(sum(both(0, 1)), sum(both(2, 3)))
    <3> HIDE DEF sum
    <3> QED BY <1>3, <1>4
  <2> QED BY <2>1, <1>3, <1>5, <1>6
<1>9. XorAll(sum(row(0)), sum(row(1)), sum(row(2)), sum(row(3)))
        = Xor(Xor(sum(row(0)), sum(row(1))), Xor(sum(row(2)), sum(row(3))))
  <2> HIDE DEF sum
  <2> QED BY DEF XorAll
<1> QED
  <2> HIDE DEF sum, row
  <2> QED BY <1>3, <1>7, <1>8, <1>9

-----------------------------------------------------------------------------
(* Layers. *)

State == [Index \X Index -> Octet]

Product(k, b) == gf_mul(inv_coefficients[k], b)

\* A product adds up for bytes below n.
AddsBelow(k, n) ==
  \A a, b \in Octet : b < n => Product(k, Xor(a, b)) = Xor(Product(k, a), Product(k, b))

\* And so for one more bit.
LEMMA OneMoreBit ==
  ASSUME NEW k \in Index, NEW n \in Power, AddsBelow(k, n)
  PROVE  AddsBelow(k, 2 * n)
<1> SUFFICES ASSUME NEW a \in Octet, NEW b \in Octet, b < 2 * n, ~(b < n)
             PROVE  Product(k, Xor(a, b)) = Xor(Product(k, a), Product(k, b))
  BY DEF AddsBelow
<1> DEFINE c == b - n
<1>1. n \in Octet /\ c \in Octet /\ c < n /\ c + n = b
  BY DEF Octet, Power
<1> HIDE DEF c
<1>2. Xor(c, n) = b
  BY <1>1, XorAddsPower
<1>3. Xor(a, b) = Xor(Xor(a, c), n)
  BY <1>1, <1>2, XorAssociates
<1>4. Xor(a, c) \in Octet
  BY <1>1, XorIsByte
<1>5. \A x \in Octet : Product(k, Xor(x, n)) = Xor(Product(k, x), Product(k, n))
  BY ProductsAdd DEF Product
<1>6. Product(k, Xor(a, c)) = Xor(Product(k, a), Product(k, c))
  BY <1>1 DEF AddsBelow
<1>7. \A x \in Octet : Product(k, x) \in Octet
  BY ProductsAreBytes DEF Product
<1>8. Product(k, Xor(a, b)) = Xor(Xor(Product(k, a), Product(k, c)), Product(k, n))
  BY <1>3, <1>4, <1>5, <1>6
<1>9. Product(k, b) = Xor(Product(k, c), Product(k, n))
  BY <1>1, <1>2, <1>5
<1> QED BY <1>1, <1>7, <1>8, <1>9, XorAssociates

\* The products of inv_mix_columns are linear.
LEMMA ProductsAreLinear ==
  ASSUME NEW k \in Index, NEW a \in Octet, NEW b \in Octet
  PROVE  Product(k, Xor(a, b)) = Xor(Product(k, a), Product(k, b))
<1>1. AddsBelow(k, 1)
  <2> SUFFICES ASSUME NEW x \in Octet, NEW y \in Octet, y < 1
               PROVE  Product(k, Xor(x, y)) = Xor(Product(k, x), Product(k, y))
    BY DEF AddsBelow
  <2>1. y = 0
    BY DEF Octet
  <2>2. Xor(0, 1) = 1 /\ 0 \in Octet /\ 1 \in Octet /\ 1 \in Power
    <3>1. 0 \in Octet /\ 1 \in Octet /\ 1 \in Power
      BY DEF Octet, Power
    <3> QED BY <3>1, XorAddsPower
  <2>3. Product(k, 1) = Xor(Product(k, 0), Product(k, 1))
    BY <2>2, ProductsAdd DEF Product
  <2>4. Product(k, 0) \in Octet /\ Product(k, 1) \in Octet /\ Product(k, x) \in Octet
    BY <2>2, ProductsAreBytes DEF Product
  <2>5. Product(k, 0) = 0
    <3>1. Xor(Xor(Product(k, 0), Product(k, 1)), Product(k, 1)) = Product(k, 0)
      BY <2>4, XorUndoes
    <3>2. Xor(Xor(0, Product(k, 1)), Product(k, 1)) = 0
      BY <2>2, <2>4, XorUndoes
    <3>3. Xor(0, Product(k, 1)) = Product(k, 1)
      BY <2>2, <2>4, XorUndoes, XorCommutes
    <3> QED BY <2>3, <3>1, <3>2, <3>3
  <2> QED BY <2>1, <2>2, <2>4, <2>5, XorUndoes
<1>2. AddsBelow(k, 2) /\ AddsBelow(k, 4) /\ AddsBelow(k, 8) /\ AddsBelow(k, 16)
  <2>1. AddsBelow(k, 2)
    BY <1>1, OneMoreBit, 2 * 1 = 2 DEF Power
  <2>2. AddsBelow(k, 4)
    BY <2>1, OneMoreBit, 2 * 2 = 4 DEF Power
  <2>3. AddsBelow(k, 8)
    BY <2>2, OneMoreBit, 2 * 4 = 8 DEF Power
  <2>4. AddsBelow(k, 16)
    BY <2>3, OneMoreBit, 2 * 8 = 16 DEF Power
  <2> QED BY <2>1, <2>2, <2>3, <2>4
<1>3. AddsBelow(k, 32) /\ AddsBelow(k, 64) /\ AddsBelow(k, 128) /\ AddsBelow(k, 256)
  <2>1. AddsBelow(k, 32)
    BY <1>2, OneMoreBit, 2 * 16 = 32 DEF Power
  <2>2. AddsBelow(k, 64)
    BY <2>1, OneMoreBit, 2 * 32 = 64 DEF Power
  <2>3. AddsBelow(k, 128)
    BY <2>2, OneMoreBit, 2 * 64 = 128 DEF Power
  <2>4. AddsBelow(k, 256)
    BY <2>3, OneMoreBit, 2 * 128 = 256 DEF Power
  <2> QED BY <2>1, <2>2, <2>3, <2>4
<1>4. b < 256
  BY DEF Octet
<1> QED BY <1>3, <1>4 DEF AddsBelow

\* inv_mix_columns gives back every column.
LEMMA ColumnsComeBack ==
  ASSUME NEW s \in State
  PROVE  mix_columns(s) \in State /\ inv_mix_columns(mix_columns(s)) = s
<1> DEFINE m == mix_columns(s)
<1> DEFINE factor(q, r, c) == gf_mul(coefficients[(r - q + 4) % 4], s[<<r, c>>])
<1>1. \A q, r \in Index : (r - q + 4) % 4 \in Index
  BY DEF Index
<1>2. \A q, r, c \in Index : factor(q, r, c) \in Octet
  <2>1. \A r, c \in Index : s[<<r, c>>] \in Octet
    BY DEF State
  <2> QED BY <1>1, <2>1, ProductsAreBytes
<1>3. 0 \in Index /\ 1 \in Index /\ 2 \in Index /\ 3 \in Index
  BY DEF Index
<1>4. DOMAIN s = Index \X Index /\ DOMAIN m = Index \X Index
  BY DEF State, mix_columns, Columns
<1>5. \A q, c \in Index : m[<<q, c>>] = XorAll(factor(q, 0, c), factor(q, 1, c), factor(q, 2, c), factor(q, 3, c))
  <2> TAKE q, c \in Index
  <2>1. <<q, c>> \in DOMAIN s
    BY <1>4
  <2> QED BY <2>1 DEF mix_columns, Columns, XorAll
<1>6. m \in State
  <2>1. \A q, c \in Index : m[<<q, c>>] \in Octet
    <3> TAKE q, c \in Index
    <3>1. /\ factor(q, 0, c) \in Octet /\ factor(q, 1, c) \in Octet
          /\ factor(q, 2, c) \in Octet /\ factor(q, 3, c) \in Octet
      BY <1>2, <1>3
    <3>2. m[<<q, c>>] = XorAll(factor(q, 0, c), factor(q, 1, c), factor(q, 2, c), factor(q, 3, c))
      BY <1>5
    <3> HIDE DEF m, factor
    <3> QED BY <3>1, <3>2, XorAllIsByte
  <2>2. m = [x \in DOMAIN s |-> m[x]]
    BY DEF mix_columns, Columns
  <2>3. \A x \in Index \X Index : m[x] \in Octet
    <3> HIDE DEF m
    <3> QED BY <2>1
  <2> HIDE DEF m
  <2> QED BY <1>4, <2>2, <2>3 DEF State
<1>7. \A p, c \in Index : inv_mix_columns(m)[<<p, c>>] = s[<<p, c>>]
  <2> SUFFICES ASSUME NEW p \in Index, NEW c \in Index
               PROVE  inv_mix_columns(m)[<<p, c>>] = s[<<p, c>>]
    OBVIOUS
  <2> DEFINE turn(q) == (q - p + 4) % 4
  <2> DEFINE g == [x \in Index \X Index |-> Product(turn(x[1]), factor(x[1], x[2], c))]
  <2>1. \A q \in Index : turn(q) \in Index
    BY <1>1
  <2>2. \A q, r \in Index : g[<<q, r>>] = Product(turn(q), factor(q, r, c))
    OBVIOUS
  <2>3. g \in [Index \X Index -> Octet]
    <3>1. \A q, r \in Index : Product(turn(q), factor(q, r, c)) \in Octet
      BY <2>1, <1>2, ProductsAreBytes DEF Product
    <3> HIDE DEF turn, factor
    <3> QED BY <3>1
  <2>4. inv_mix_columns(m)[<<p, c>>]
          = XorAll(Product(turn(0), m[<<0, c>>]), Product(turn(1), m[<<1, c>>]),
                Product(turn(2), m[<<2, c>>]), Product(turn(3), m[<<3, c>>]))
    <3>1. <<p, c>> \in DOMAIN m
      BY <1>4
    <3> HIDE DEF m
    <3> QED BY <3>1 DEF inv_mix_columns, Columns, XorAll, Product
  <2>5. \A q \in Index : Product(turn(q), m[<<q, c>>]) = XorAll(g[<<q, 0>>], g[<<q, 1>>], g[<<q, 2>>], g[<<q, 3>>])
    <3> SUFFICES ASSUME NEW q \in Index
                 PROVE  Product(turn(q), m[<<q, c>>]) = XorAll(g[<<q, 0>>], g[<<q, 1>>], g[<<q, 2>>], g[<<q, 3>>])
      OBVIOUS
    <3> DEFINE f(r) == factor(q, r, c)
    <3>1. \A r \in Index : f(r) \in Octet
      BY <1>2
    <3>2. m[<<q, c>>] = XorAll(f(0), f(1), f(2), f(3))
      BY <1>5
    <3>3. \A r \in Index : g[<<q, r>>] = Product(turn(q), f(r))
      BY <2>2
    <3> HIDE DEF f, g, m
    <3>4. Product(turn(q), XorAll(f(0), f(1), f(2), f(3)))
            = Xor(Product(turn(q), Xor(f(0), f(1))), Product(turn(q), Xor(f(2), f(3))))
      <4>1. Xor(f(0), f(1)) \in Octet /\ Xor(f(2), f(3)) \in Octet
        BY <1>3, <3>1, XorIsByte
      <4> HIDE DEF turn
      <4> QED BY <2>1, <4>1, ProductsAreLinear DEF XorAll
    <3>5. /\ Product(turn(q), Xor(f(0), f(1))) = Xor(Product(turn(q), f(0)), Product(turn(q), f(1)))
          /\ Product(turn(q), Xor(f(2), f(3))) = Xor(Product(turn(q), f(2)), Product(turn(q), f(3)))
      <4> HIDE DEF turn
      <4> QED BY <2>1, <1>3, <3>1, ProductsAreLinear
    <3> QED BY <1>3, <3>2, <3>3, <3>4, <3>5 DEF XorAll
  <2>6. \A r \in Index : XorAll(g[<<0, r>>], g[<<1, r>>], g[<<2, r>>], g[<<3, r>>]) = IF p = r THEN s[<<r, c>>] ELSE 0
    <3> SUFFICES ASSUME NEW r \in Index
                 PROVE  XorAll(g[<<0, r>>], g[<<1, r>>], g[<<2, r>>], g[<<3, r>>]) = IF p = r THEN s[<<r, c>>] ELSE 0
      OBVIOUS
    <3>1. s[<<r, c>>] \in Octet
      BY DEF State
    <3>2. /\ g[<<0, r>>] = Product(turn(0), factor(0, r, c)) /\ g[<<1, r>>] = Product(turn(1), factor(1, r, c))
          /\ g[<<2, r>>] = Product(turn(2), factor(2, r, c)) /\ g[<<3, r>>] = Product(turn(3), factor(3, r, c))
      BY <1>3, <2>2
    <3> HIDE DEF g
    <3> QED BY <3>1, <3>2, MatricesAreInverse DEF Product
  <2>7. inv_mix_columns(m)[<<p, c>>]
          = XorAll(XorAll(g[<<0, 0>>], g[<<1, 0>>], g[<<2, 0>>], g[<<3, 0>>]), XorAll(g[<<0, 1>>], g[<<1, 1>>], g[<<2, 1>>], g[<<3, 1>>]),
                XorAll(g[<<0, 2>>], g[<<1, 2>>], g[<<2, 2>>], g[<<3, 2>>]), XorAll(g[<<0, 3>>], g[<<1, 3>>], g[<<2, 3>>], g[<<3, 3>>]))
    <3> HIDE DEF g, m, turn
    <3> QED BY <1>3, <2>3, <2>4, <2>5, RowsOrColumns
  <2> DEFINE x(r) == IF p = r THEN s[<<r, c>>] ELSE 0
  <2>8. inv_mix_columns(m)[<<p, c>>] = XorAll(x(0), x(1), x(2), x(3))
    <3> HIDE DEF g, m
    <3> QED BY <1>3, <2>6, <2>7
  <2>9. \A b \in Octet : /\ XorAll(b, 0, 0, 0) = b /\ XorAll(0, b, 0, 0) = b
                        /\ XorAll(0, 0, b, 0) = b /\ XorAll(0, 0, 0, b) = b
    <3> TAKE b \in Octet
    <3>1. 0 \in Octet
      BY DEF Octet
    <3>2. Xor(b, 0) = b /\ Xor(0, b) = b /\ Xor(0, 0) = 0
      BY <3>1, XorUndoes, XorCommutes
    <3> QED BY <3>2 DEF XorAll
  <2>10. s[<<p, c>>] \in Octet
    BY DEF State
  <2>11. p = 0 \/ p = 1 \/ p = 2 \/ p = 3
    BY DEF Index
  <2> QED BY <2>8, <2>9, <2>10, <2>11
<1>8. inv_mix_columns(m) = [x \in DOMAIN m |-> inv_mix_columns(m)[x]]
  BY DEF inv_mix_columns, Columns
<1> HIDE DEF m
<1>9. inv_mix_columns(m) = s
  <2> DEFINE w == inv_mix_columns(m)
  <2>1. \A x \in Index \X Index : w[x] = s[x]
    BY <1>7
  <2>2. w = [x \in Index \X Index |-> w[x]]
    BY <1>4, <1>8
  <2>3. s = [x \in Index \X Index |-> s[x]]
    BY DEF State
  <2> HIDE DEF w
  <2>4. w = s
    BY <2>1, <2>2, <2>3
  <2> QED BY <2>4 DEF w
<1> QED BY <1>6, <1>9 DEF m

\* A state and what is made of it, place by place.
LEMMA StateByPlace ==
  ASSUME NEW s, s = [x \in Index \X Index |-> s[x]],
         \A r, c \in Index : s[<<r, c>>] \in Octet
  PROVE  s \in State
<1>1. ASSUME NEW x \in Index \X Index
      PROVE  s[x] \in Octet
  <2>1. PICK r \in Index, c \in Index : x = <<r, c>>
    OBVIOUS
  <2> QED BY <2>1
<1> QED BY <1>1 DEF State

\* A state is what it has at its places.
LEMMA PlacesOfState == \A s \in State : s = [x \in Index \X Index |-> s[x]]
BY DEF State

\* inv_shift_rows turns every row back.
LEMMA RowsComeBack ==
  ASSUME NEW s \in State
  PROVE  shift_rows(s) \in State /\ inv_shift_rows(shift_rows(s)) = s
<1> DEFINE t == shift_rows(s)  u == inv_shift_rows(t)
<1>1. DOMAIN s = Index \X Index /\ DOMAIN t = Index \X Index /\ DOMAIN u = Index \X Index
  BY DEF State, shift_rows, inv_shift_rows
<1>2. t = [x \in Index \X Index |-> t[x]] /\ u = [x \in Index \X Index |-> u[x]]
  BY <1>1 DEF shift_rows, inv_shift_rows
<1>3. \A r, c \in Index : t[<<r, c>>] = s[<<r, (c + r) % 4>>]
  <2> TAKE r, c \in Index
  <2>1. <<r, c>> \in DOMAIN s /\ (c + r) % 4 \in Index
    BY <1>1 DEF Index
  <2> QED BY <2>1 DEF shift_rows, Shifted, Row
<1>4. \A r, c \in Index : u[<<r, c>>] = t[<<r, (c + ((4 - r) % 4)) % 4>>]
  <2> TAKE r, c \in Index
  <2> DEFINE n == (4 - r) % 4
  <2>1. <<r, c>> \in DOMAIN t /\ (c + n) % 4 \in Index
    BY <1>1 DEF Index
  <2>2. u[<<r, c>>] = Shifted(Row(t, r), n)[c]
    <3> HIDE DEF t
    <3> QED BY <2>1 DEF inv_shift_rows
  <2>3. Shifted(Row(t, r), n)[c] = t[<<r, (c + n) % 4>>]
    <3> HIDE DEF t, n
    <3> QED BY <2>1 DEF Shifted, Row
  <2> QED BY <2>2, <2>3
<1>5. \A r, c \in Index : (c + r) % 4 \in Index /\ (c + ((4 - r) % 4)) % 4 \in Index
                          /\ (((c + ((4 - r) % 4)) % 4) + r) % 4 = c
  BY DEF Index
<1> HIDE DEF t, u
<1>6. \A r, c \in Index : s[<<r, c>>] \in Octet
  BY DEF State
<1>7. \A r, c \in Index : t[<<r, c>>] \in Octet /\ u[<<r, c>>] = s[<<r, c>>]
  <2> TAKE r, c \in Index
  <2>1. (c + r) % 4 \in Index /\ (c + ((4 - r) % 4)) % 4 \in Index
    BY <1>5
  <2>2. t[<<r, c>>] = s[<<r, (c + r) % 4>>]
    BY <1>3
  <2> DEFINE j == (c + ((4 - r) % 4)) % 4
  <2>3. u[<<r, c>>] = t[<<r, j>>]
    BY <1>4
  <2>4. j \in Index /\ (j + r) % 4 = c
    BY <1>5
  <2> HIDE DEF j
  <2>5. t[<<r, j>>] = s[<<r, (j + r) % 4>>]
    BY <1>3, <2>4
  <2> QED BY <1>6, <2>1, <2>2, <2>3, <2>4, <2>5
<1>8. t \in State
  BY <1>2, <1>7, StateByPlace
<1>9. u = s
  <2>1. \A x \in Index \X Index : u[x] = s[x]
    BY <1>7
  <2>2. s = [x \in Index \X Index |-> s[x]]
    BY PlacesOfState
  <2> QED BY <1>2, <2>1, <2>2
<1> QED BY <1>8, <1>9 DEF t, u

\* inv_sub_bytes looks every byte up again.
LEMMA BytesComeBack ==
  ASSUME NEW s \in State
  PROVE  sub_bytes(s) \in State /\ inv_sub_bytes(sub_bytes(s)) = s
<1> DEFINE t == sub_bytes(s)  u == inv_sub_bytes(t)
<1>1. DOMAIN s = Index \X Index /\ DOMAIN t = Index \X Index /\ DOMAIN u = Index \X Index
  BY DEF State, sub_bytes, inv_sub_bytes
<1>2. t = [x \in Index \X Index |-> t[x]] /\ u = [x \in Index \X Index |-> u[x]]
  BY <1>1 DEF sub_bytes, inv_sub_bytes
<1>3. \A x \in Index \X Index : t[x] = sbox[s[x] + 1]
  BY <1>1 DEF sub_bytes
<1>4. \A x \in Index \X Index : u[x] = inv_sbox[t[x] + 1]
  BY <1>1 DEF inv_sub_bytes
<1> HIDE DEF t, u
<1>5. \A x \in Index \X Index : s[x] \in Octet
  BY DEF State
<1>6. \A x \in Index \X Index : t[x] \in Octet /\ u[x] = s[x]
  BY <1>3, <1>4, <1>5, TablesAreInverse
<1>7. t \in State
  BY <1>2, <1>6 DEF State
<1>8. u = s
  <2>1. s = [x \in Index \X Index |-> s[x]]
    BY PlacesOfState
  <2> QED BY <1>2, <1>6, <2>1
<1> QED BY <1>7, <1>8 DEF t, u

Words == [0 .. 43 -> [Index -> Octet]]

\* add_round_key undoes itself.
LEMMA KeysComeOff ==
  ASSUME NEW s \in State, NEW w \in Words, NEW round \in 0 .. 40
  PROVE  /\ add_round_key(s, w, round) \in State
         /\ add_round_key(add_round_key(s, w, round), w, round) = s
<1> DEFINE t == add_round_key(s, w, round)  u == add_round_key(t, w, round)
           key(x) == w[round + x[2]][x[1]]
<1>1. DOMAIN s = Index \X Index /\ DOMAIN t = Index \X Index
  BY DEF State, add_round_key
<1>2. t = [x \in Index \X Index |-> Xor(s[x], key(x))]
  BY <1>1 DEF add_round_key
<1>3. u = [x \in Index \X Index |-> Xor(t[x], key(x))]
  <2> HIDE DEF t
  <2> QED BY <1>1 DEF add_round_key
<1>4. \A x \in Index \X Index : key(x) \in Octet
  <2> SUFFICES ASSUME NEW r \in Index, NEW c \in Index
               PROVE  w[round + c][r] \in Octet
    OBVIOUS
  <2>1. round + c \in 0 .. 43
    BY DEF Index
  <2>2. w[round + c] \in [Index -> Octet]
    BY <2>1 DEF Words
  <2> QED BY <2>2
<1> HIDE DEF t, u, key
<1>5. \A x \in Index \X Index : s[x] \in Octet
  BY DEF State
<1>6. \A x \in Index \X Index : t[x] \in Octet /\ u[x] = s[x]
  BY <1>2, <1>3, <1>4, <1>5, XorIsByte, XorUndoes
<1>7. t \in State
  BY <1>2, <1>6 DEF State
<1>8. u = s
  <2>1. s = [x \in Index \X Index |-> s[x]]
    BY PlacesOfState
  <2>2. u = [x \in Index \X Index |-> u[x]]
    BY <1>3
  <2> QED BY <1>6, <2>1, <2>2
<1> QED BY <1>7, <1>8 DEF t, u

\* So each layer of decrypt takes back the layer of encrypt on the same place.
LEMMA LayerComesOff ==
  ASSUME NEW s \in State, NEW w \in Words, NEW k \in 1 .. 40
  PROVE  /\ Apply(EncryptLayers[k], s, w) \in State
         /\ Apply(DecryptLayers[41 - k], Apply(EncryptLayers[k], s, w), w) = s
<1> DEFINE e == EncryptLayers[k]  d == DecryptLayers[41 - k]
<1>1. Undoes(d, e)
  BY LayersAreReversed
<1> HIDE DEF e, d
<1>2. CASE e = <<"sub_bytes">> /\ d = <<"inv_sub_bytes">>
  BY <1>2, BytesComeBack DEF Apply, e, d
<1>3. CASE e = <<"shift_rows">> /\ d = <<"inv_shift_rows">>
  BY <1>3, RowsComeBack DEF Apply, e, d
<1>4. CASE e = <<"mix_columns">> /\ d = <<"inv_mix_columns">>
  BY <1>4, ColumnsComeBack DEF Apply, e, d
<1>5. CASE \E round \in 0 .. 40 : e = <<"add_round_key", round>> /\ d = e
  <2>1. PICK round \in 0 .. 40 : e = <<"add_round_key", round>> /\ d = e
    BY <1>5
  <2>2. \A t : Apply(e, t, w) = add_round_key(t, w, round) /\ Apply(d, t, w) = add_round_key(t, w, round)
    <3>1. e[1] = "add_round_key" /\ e[2] = round
      BY <2>1
    <3> QED BY <2>1, <3>1 DEF Apply
  <2>3. Apply(e, s, w) = add_round_key(s, w, round)
    BY <2>2
  <2>4. Apply(d, Apply(e, s, w), w) = add_round_key(add_round_key(s, w, round), w, round)
    BY <2>2, <2>3
  <2> QED BY <2>3, <2>4, KeysComeOff DEF e, d
<1> QED BY <1>1, <1>2, <1>3, <1>4, <1>5 DEF Undoes

-----------------------------------------------------------------------------
(* The key schedule. *)

\* The first n words of the schedule of a password.
IsSchedule(w, n, password) ==
  /\ w \in [0 .. n - 1 -> [Index -> Octet]]
  /\ \A i \in 0 .. 3 : w[i] = FirstWords(password)[i]
  /\ \A i \in 4 .. n - 1 : w[i] = NextWord(w, i)

\* A password gives a key of bytes.
LEMMA KeyIsBytes ==
  ASSUME NEW password \in Seq(Octet \ {0})
  PROVE  derive_key_from_password(password) \in [1 .. 16 -> Octet]
<1> SUFFICES ASSUME NEW i \in 1 .. 16
             PROVE  Rotated(Xor(IF i <= Len(password) THEN password[i] ELSE 0,
                                ((i - 1) * 27) % 256)) \in Octet
  BY DEF derive_key_from_password
<1> DEFINE a == IF i <= Len(password) THEN password[i] ELSE 0
           b == ((i - 1) * 27) % 256
<1>1. a \in Octet
  <2>1. 0 \in Octet
    BY DEF Octet
  <2>2. ASSUME i <= Len(password)
        PROVE  password[i] \in Octet
    <3>1. i \in DOMAIN password
      BY <2>2
    <3> QED BY <3>1
  <2> QED BY <2>1, <2>2
<1>2. b \in Octet
  BY DEF Octet
<1> HIDE DEF a, b
<1> DEFINE c == Xor(a, b)
<1>3. c \in Octet
  BY <1>1, <1>2, XorIsByte
<1> HIDE DEF c
<1>4. Rotated(c) \in Octet
  BY <1>3 DEF Rotated, Octet
<1> QED BY <1>4 DEF a, b, c

\* So its first words are.
LEMMA FirstWordsAreBytes ==
  ASSUME NEW password \in Seq(Octet \ {0})
  PROVE  FirstWords(password) \in [0 .. 3 -> [Index -> Octet]]
<1> DEFINE key == derive_key_from_password(password)
<1>1. key \in [1 .. 16 -> Octet]
  BY KeyIsBytes
<1>2. FirstWords(password) = [w \in 0 .. 3 |-> [j \in Index |-> key[4 * w + j + 1]]]
  BY DEF FirstWords
<1> HIDE DEF key
<1>3. \A w \in 0 .. 3, j \in Index : 4 * w + j + 1 \in 1 .. 16
  BY DEF Index
<1> QED BY <1>1, <1>2, <1>3

\* A word made of two words.
LEMMA NextWordIsBytes ==
  ASSUME NEW n \in 4 .. 43, NEW w \in [0 .. n - 1 -> [Index -> Octet]]
  PROVE  NextWord(w, n) \in [Index -> Octet]
<1>1. w[n - 4] \in [Index -> Octet] /\ w[n - 1] \in [Index -> Octet]
  OBVIOUS
<1> DEFINE word == w[n - 1]
<1> HIDE DEF word
<1>2. ASSUME NEW j \in Index
      PROVE  Mixed(word, n)[j] \in Octet
  <2>1. \A k \in Index : word[k] \in Octet
    BY <1>1 DEF word
  <2>2. CASE n % 4 # 0
    BY <2>1, <2>2 DEF Mixed
  <2>3. CASE n % 4 = 0
    <3>1. (j + 1) % 4 \in Index
      BY DEF Index
    <3>2. Shifted(word, 1)[j] \in Octet
      BY <2>1, <3>1 DEF Shifted
    <3>3. sbox[Shifted(word, 1)[j] + 1] \in Octet
      BY <3>2, TablesAreInverse
    <3> DEFINE c == IF j = 0 THEN round_constants[n \div 4] ELSE 0
    <3>4. c \in Octet
      <4>1. n \div 4 \in 1 .. 10
        OBVIOUS
      <4>2. \A k \in 1 .. 10 : round_constants[k] \in Octet
        <5> TAKE k \in 1 .. 10
        <5>1. k \in {1, 2, 3, 4, 5, 6, 7, 8, 9, 10}
          OBVIOUS
        <5>2. {1, 2, 4, 8, 16, 32, 64, 128, 27, 54} \subseteq Octet
          BY DEF Octet
        <5>3. round_constants[k] \in {1, 2, 4, 8, 16, 32, 64, 128, 27, 54}
          BY <5>1 DEF round_constants
        <5> QED BY <5>2, <5>3
      <4>3. 0 \in Octet
        BY DEF Octet
      <4> QED BY <4>1, <4>2, <4>3
    <3>5. Mixed(word, n)[j] = Xor(sbox[Shifted(word, 1)[j] + 1], c)
      BY <2>3 DEF Mixed
    <3> HIDE DEF c
    <3> QED BY <3>3, <3>4, <3>5, XorIsByte
  <2> QED BY <2>2, <2>3
<1>3. \A j \in Index : Xor(w[n - 4][j], Mixed(word, n)[j]) \in Octet
  BY <1>1, <1>2, XorIsByte
<1> QED BY <1>3 DEF NextWord, word

\* The length of a schedule that is being made.
LEMMA WordsMade ==
  ASSUME NEW n \in Nat, NEW w, DOMAIN w = 0 .. n - 1
  PROVE  Cardinality(DOMAIN w) = n
<1>1. Cardinality(0 .. n - 1) = n
  BY FS_Interval
<1> QED BY <1>1

-----------------------------------------------------------------------------
(* The calls: the inductive invariant. *)

SameKey == derive_key_from_password(input.password) = derive_key_from_password(input.other)

UsedPassword == IF calls = "encrypt" THEN input.password ELSE input.other

ScheduleInv == \E n \in 4 .. 44 : IsSchedule(words, n, UsedPassword)

\* The first n layers of encrypt lead from the block over the states t to c.
Leads(block, n, t, c, w) ==
  /\ t \in Seq(State) /\ Len(t) = n /\ c \in State
  /\ (IF n = 0 THEN c ELSE t[1]) = plaintext_to_state(block)
  /\ \A k \in 1 .. n : (IF k = n THEN c ELSE t[k + 1]) = Apply(EncryptLayers[k], t[k], w)

EncryptInv == calls = "encrypt" => Leads(input.block, layers, trace, state, words)

\* Under the same key decrypt makes the same schedule, and is where encrypt was.
DecryptInv ==
  calls = "decrypt" =>
    \E w \in Words, c \in State :
      /\ IsSchedule(w, 44, input.password) /\ Leads(input.block, 40, trace, c, w)
      /\ SameKey =>
           /\ \A i \in DOMAIN words : words[i] = w[i]
           /\ state = IF layers = 0 THEN c ELSE trace[41 - layers]

CipherIInv ==
  /\ input \in Cases /\ calls \in {"encrypt", "decrypt"} /\ layers \in 0 .. 40
  /\ layers > 0 => MadeWords = 44
  /\ ScheduleInv /\ EncryptInv /\ DecryptInv

-----------------------------------------------------------------------------
(* Steps. *)

\* What CipherIInv says of the words.
LEMMA WordsOf ==
  ASSUME CipherIInv
  PROVE  /\ \E n \in 4 .. 44 : /\ MadeWords = n /\ DOMAIN words = 0 .. n - 1
                               /\ IsSchedule(words, n, UsedPassword)
         /\ MadeWords = 44 => words \in Words /\ IsSchedule(words, 44, UsedPassword)
<1>1. PICK n \in 4 .. 44 : IsSchedule(words, n, UsedPassword)
  BY DEF CipherIInv, ScheduleInv
<1>2. DOMAIN words = 0 .. n - 1
  BY <1>1 DEF IsSchedule
<1>3. MadeWords = n
  BY <1>2, WordsMade DEF MadeWords
<1>4. MadeWords = 44 => words \in Words
  BY <1>1, <1>3 DEF IsSchedule, Words
<1> QED BY <1>1, <1>2, <1>3, <1>4

\* Passwords are sequences of bytes.
LEMMA Passwords ==
  ASSUME input \in Cases
  PROVE  /\ input.password \in Seq(Octet \ {0}) /\ input.other \in Seq(Octet \ {0})
         /\ input.block \in [1 .. 16 -> Octet]
BY CasesAssumption

\* The first words are a schedule that has been begun.
LEMMA ScheduleBegins ==
  ASSUME NEW p \in Seq(Octet \ {0})
  PROVE  IsSchedule(FirstWords(p), 4, p) /\ DOMAIN FirstWords(p) = 0 .. 3
BY FirstWordsAreBytes DEF IsSchedule

\* The block as a state, and back.
LEMMA BlockAsState ==
  /\ \A b \in [1 .. 16 -> Octet] :
       plaintext_to_state(b) \in State /\ state_to_ciphertext(plaintext_to_state(b)) = b
  /\ \A s \in State : plaintext_to_state(state_to_ciphertext(s)) = s
<1>1. ASSUME NEW b \in [1 .. 16 -> Octet]
      PROVE  plaintext_to_state(b) \in State /\ state_to_ciphertext(plaintext_to_state(b)) = b
  <2> DEFINE s == plaintext_to_state(b)
  <2>1. s = [x \in Index \X Index |-> s[x]]
    BY DEF plaintext_to_state
  <2>2. \A r, c \in Index : r + 4 * c + 1 \in 1 .. 16
    BY DEF Index
  <2>3. \A r, c \in Index : s[<<r, c>>] = b[r + 4 * c + 1]
    BY DEF plaintext_to_state
  <2> HIDE DEF s
  <2>4. s \in State
    <3>1. \A r, c \in Index : s[<<r, c>>] \in Octet
      BY <2>2, <2>3
    <3> QED BY <2>1, <3>1, StateByPlace
  <2>5. \A i \in 1 .. 16 :
          /\ (i - 1) % 4 \in Index /\ (i - 1) \div 4 \in Index
          /\ ((i - 1) % 4) + 4 * ((i - 1) \div 4) + 1 = i
    BY DEF Index
  <2>6. \A i \in 1 .. 16 : s[<<(i - 1) % 4, (i - 1) \div 4>>] = b[i]
    <3> TAKE i \in 1 .. 16
    <3> DEFINE r == (i - 1) % 4  c == (i - 1) \div 4
    <3>1. r \in Index /\ c \in Index /\ r + 4 * c + 1 = i
      BY <2>5
    <3> HIDE DEF r, c
    <3>2. s[<<r, c>>] = b[i]
      BY <2>3, <3>1
    <3> QED BY <3>2 DEF r, c
  <2>7. state_to_ciphertext(s) = [i \in 1 .. 16 |-> b[i]]
    BY <2>6 DEF state_to_ciphertext
  <2> QED BY <2>4, <2>7 DEF s
<1>2. ASSUME NEW s \in State
      PROVE  plaintext_to_state(state_to_ciphertext(s)) = s
  <2> DEFINE b == state_to_ciphertext(s)  t == plaintext_to_state(b)
  <2>1. \A i \in 1 .. 16 : b[i] = s[<<(i - 1) % 4, (i - 1) \div 4>>]
    BY DEF state_to_ciphertext
  <2>2. t = [x \in Index \X Index |-> t[x]]
    BY DEF plaintext_to_state
  <2>3. \A r, c \in Index : t[<<r, c>>] = b[r + 4 * c + 1]
    BY DEF plaintext_to_state
  <2>4. \A r, c \in Index : /\ r + 4 * c + 1 \in 1 .. 16
                            /\ ((r + 4 * c + 1) - 1) % 4 = r /\ ((r + 4 * c + 1) - 1) \div 4 = c
    BY DEF Index
  <2> HIDE DEF b, t
  <2>5. \A r, c \in Index : t[<<r, c>>] = s[<<r, c>>]
    <3> TAKE r, c \in Index
    <3> DEFINE i == r + 4 * c + 1
    <3>1. i \in 1 .. 16 /\ (i - 1) % 4 = r /\ (i - 1) \div 4 = c
      BY <2>4
    <3>2. t[<<r, c>>] = b[i]
      BY <2>3
    <3> HIDE DEF i
    <3> QED BY <2>1, <3>1, <3>2
  <2>6. \A x \in Index \X Index : t[x] = s[x]
    BY <2>5
  <2>7. s = [x \in Index \X Index |-> s[x]]
    BY PlacesOfState
  <2> QED BY <2>2, <2>6, <2>7 DEF t, b
<1> QED BY <1>1, <1>2

\* key_expansion makes a word; under the same key it is the word that encrypt used.
LEMMA KeyStep == CipherIInv /\ key_expansion => CipherIInv'
<1> SUFFICES ASSUME CipherIInv, key_expansion
             PROVE  CipherIInv'
  OBVIOUS
<1>1. PICK n \in 4 .. 44 : /\ MadeWords = n /\ DOMAIN words = 0 .. n - 1
                           /\ IsSchedule(words, n, UsedPassword)
  BY WordsOf
<1>2. n \in 4 .. 43 /\ layers = 0
  BY <1>1 DEF key_expansion, CipherIInv
<1>3. words' = [i \in 0 .. n |-> IF i = n THEN NextWord(words, n) ELSE words[i]]
  BY <1>1 DEF key_expansion
<1>4. /\ input' = input /\ calls' = calls /\ layers' = layers /\ state' = state /\ trace' = trace
  BY DEF key_expansion
<1>5. words'[n] = NextWord(words, n) /\ \A i \in 0 .. n - 1 : words'[i] = words[i]
  BY <1>2, <1>3
<1>6. words' \in [0 .. n -> [Index -> Octet]]
  <2>1. words \in [0 .. n - 1 -> [Index -> Octet]]
    BY <1>1 DEF IsSchedule
  <2>2. NextWord(words, n) \in [Index -> Octet]
    BY <1>2, <2>1, NextWordIsBytes
  <2>3. \A i \in 0 .. n : i = n \/ i \in 0 .. n - 1
    BY <1>2
  <2> QED BY <1>3, <2>1, <2>2, <2>3
<1>7. \A i \in 4 .. n : NextWord(words', i) = NextWord(words, i)
  <2> TAKE i \in 4 .. n
  <2>1. i - 4 \in 0 .. n - 1 /\ i - 1 \in 0 .. n - 1
    BY <1>2
  <2>2. words'[i - 4] = words[i - 4] /\ words'[i - 1] = words[i - 1]
    BY <1>5, <2>1
  <2> QED BY <2>2 DEF NextWord
<1>8. IsSchedule(words', n + 1, UsedPassword)
  <2>1. words' \in [0 .. (n + 1) - 1 -> [Index -> Octet]]
    <3>1. (n + 1) - 1 = n
      BY <1>2
    <3> QED BY <1>6, <3>1
  <2>2. \A i \in 0 .. 3 : words'[i] = FirstWords(UsedPassword)[i]
    BY <1>1, <1>2, <1>5 DEF IsSchedule
  <2>3. \A i \in 4 .. (n + 1) - 1 : words'[i] = NextWord(words', i)
    <3> TAKE i \in 4 .. (n + 1) - 1
    <3>1. i \in 4 .. n /\ (i = n \/ i \in 4 .. n - 1)
      BY <1>2
    <3>2. ASSUME i \in 4 .. n - 1
          PROVE  words'[i] = NextWord(words, i)
      <4>1. words[i] = NextWord(words, i)
        BY <1>1, <3>2 DEF IsSchedule
      <4>2. i \in 0 .. n - 1
        BY <1>2, <3>2
      <4> QED BY <1>5, <4>1, <4>2
    <3> QED BY <1>5, <1>7, <3>1, <3>2
  <2> QED BY <2>1, <2>2, <2>3 DEF IsSchedule
<1>9. ScheduleInv'
  <2>1. UsedPassword' = UsedPassword
    BY <1>4 DEF UsedPassword
  <2>2. n + 1 \in 4 .. 44
    BY <1>2
  <2> QED BY <1>8, <2>1, <2>2 DEF ScheduleInv
<1>10. EncryptInv'
  <2> SUFFICES ASSUME calls = "encrypt"
               PROVE  Leads(input.block, 0, trace, state, words')
    BY <1>2, <1>4 DEF EncryptInv
  <2>1. Leads(input.block, 0, trace, state, words)
    BY <1>2 DEF CipherIInv, EncryptInv
  <2> QED BY <2>1 DEF Leads
<1>11. DecryptInv'
  <2> SUFFICES ASSUME calls = "decrypt"
               PROVE  DecryptInv'
    BY <1>4 DEF DecryptInv
  <2>1. PICK w \in Words, c \in State :
          /\ IsSchedule(w, 44, input.password) /\ Leads(input.block, 40, trace, c, w)
          /\ SameKey =>
               /\ \A i \in DOMAIN words : words[i] = w[i]
               /\ state = IF layers = 0 THEN c ELSE trace[41 - layers]
    BY DEF CipherIInv, DecryptInv
  <2>2. ASSUME SameKey
        PROVE  \A i \in DOMAIN words' : words'[i] = w[i]
    <3>1. \A i \in 0 .. n - 1 : words'[i] = w[i]
      BY <1>1, <1>5, <2>1, <2>2
    <3>2. w[n] = NextWord(w, n)
      BY <1>2, <2>1 DEF IsSchedule
    <3>3. words'[n - 4] = w[n - 4] /\ words'[n - 1] = w[n - 1]
      BY <1>2, <3>1
    <3>4. NextWord(words', n) = NextWord(w, n)
      BY <3>3 DEF NextWord
    <3>5. words'[n] = w[n]
      BY <1>2, <1>5, <1>7, <3>2, <3>4
    <3>6. \A i \in DOMAIN words' : i = n \/ i \in 0 .. n - 1
      BY <1>2, <1>3
    <3> QED BY <3>1, <3>5, <3>6
  <2>3. Leads(input.block, 40, trace, c, w)'
    BY <1>4, <2>1 DEF Leads
  <2>4. SameKey' <=> SameKey
    BY <1>4 DEF SameKey
  <2>5. IsSchedule(w, 44, input'.password)
    BY <1>4, <2>1
  <2>6. SameKey' => \A i \in DOMAIN words' : words'[i] = w[i]
    BY <2>2, <2>4
  <2>7. SameKey' => state' = IF layers' = 0 THEN c ELSE trace'[41 - layers']
    BY <1>4, <2>1, <2>4
  <2> QED BY <2>1, <2>3, <2>5, <2>6, <2>7 DEF DecryptInv
<1>12. layers' > 0 => MadeWords' = 44
  BY <1>2, <1>4
<1> QED BY <1>4, <1>9, <1>10, <1>11, <1>12 DEF CipherIInv

\* CipherInit: the key is there, and no layer has been applied.
LEMMA InitStep == CipherInit => CipherIInv
<1> SUFFICES ASSUME CipherInit
             PROVE  CipherIInv
  OBVIOUS
<1>1. input.password \in Seq(Octet \ {0}) /\ input.block \in [1 .. 16 -> Octet]
  BY Passwords DEF CipherInit
<1>2. IsSchedule(words, 4, input.password) /\ DOMAIN words = 0 .. 3
  BY <1>1, ScheduleBegins DEF CipherInit
<1>3. ScheduleInv
  BY <1>2 DEF ScheduleInv, UsedPassword, CipherInit
<1>4. EncryptInv
  <2>1. Leads(input.block, 0, trace, state, words)
    BY <1>1, BlockAsState DEF CipherInit, Leads
  <2> QED BY <2>1 DEF EncryptInv, CipherInit
<1> QED BY <1>3, <1>4 DEF CipherIInv, DecryptInv, CipherInit

\* One more layer of encrypt.
LEMMA OneMoreLayer ==
  ASSUME NEW block, NEW n \in 0 .. 39, NEW t, NEW c, NEW w \in Words, Leads(block, n, t, c, w)
  PROVE  Leads(block, n + 1, Append(t, c), Apply(EncryptLayers[n + 1], c, w), w)
<1> DEFINE u == Append(t, c)
           d == Apply(EncryptLayers[n + 1], c, w)
<1>1. t \in Seq(State) /\ Len(t) = n /\ c \in State
  BY DEF Leads
<1>2. n + 1 \in 1 .. 40
  OBVIOUS
<1>3. d \in State
  BY <1>1, <1>2, LayerComesOff
<1>4. /\ u \in Seq(State) /\ Len(u) = n + 1 /\ u[n + 1] = c
      /\ \A k \in 1 .. n : u[k] = t[k]
  BY <1>1
<1> HIDE DEF u
<1>5. u[1] = plaintext_to_state(block)
  <2>1. CASE n = 0
    BY <1>4, <2>1 DEF Leads
  <2>2. CASE n # 0
    BY <1>4, <2>2 DEF Leads
  <2> QED BY <2>1, <2>2
<1>6. ASSUME NEW k \in 1 .. n
      PROVE  u[k + 1] = Apply(EncryptLayers[k], u[k], w)
  <2>1. u[k + 1] = IF k = n THEN c ELSE t[k + 1]
    <3>1. k = n \/ k + 1 \in 1 .. n
      OBVIOUS
    <3> QED BY <1>4, <3>1
  <2>2. (IF k = n THEN c ELSE t[k + 1]) = Apply(EncryptLayers[k], t[k], w)
    BY DEF Leads
  <2> QED BY <1>4, <2>1, <2>2
<1>7. u[n + 1] = c
  BY <1>4
<1> HIDE DEF d
<1>8. \A k \in 1 .. n + 1 :
        (IF k = n + 1 THEN d ELSE u[k + 1]) = Apply(EncryptLayers[k], u[k], w)
  <2> TAKE k \in 1 .. n + 1
  <2>1. CASE k = n + 1
    BY <1>7, <2>1 DEF d
  <2>2. CASE k # n + 1
    <3>1. k \in 1 .. n
      BY <2>2
    <3> QED BY <1>6, <2>2, <3>1
  <2> QED BY <2>1, <2>2
<1>9. n + 1 # 0
  OBVIOUS
<1>10. Leads(block, n + 1, u, d, w)
  BY <1>3, <1>4, <1>5, <1>8, <1>9 DEF Leads
<1> QED BY <1>10 DEF u, d

\* Layer in encrypt adds a layer; in decrypt, under the same key, it takes one off.
LEMMA LayerStep == CipherIInv /\ Layer => CipherIInv'
<1> SUFFICES ASSUME CipherIInv, Layer
             PROVE  CipherIInv'
  OBVIOUS
<1>1. words \in Words /\ IsSchedule(words, 44, UsedPassword)
  BY WordsOf DEF Layer
<1>2. Len(LayersOf(calls)) = 40
  BY LayersAreReversed DEF LayersOf
<1>3. layers \in 0 .. 39 /\ layers' = layers + 1 /\ layers' \in 0 .. 40
  BY <1>2 DEF Layer, CipherIInv
<1>4. input' = input /\ calls' = calls /\ words' = words /\ MadeWords' = 44
  BY DEF Layer, MadeWords
<1>5. ScheduleInv'
  BY <1>4 DEF CipherIInv, ScheduleInv, UsedPassword
<1>6. EncryptInv'
  <2> SUFFICES ASSUME calls = "encrypt"
               PROVE  Leads(input.block, layers', trace', state', words)
    BY <1>4 DEF EncryptInv
  <2>1. Leads(input.block, layers, trace, state, words)
    BY DEF CipherIInv, EncryptInv
  <2>2. /\ trace' = Append(trace, state)
        /\ state' = Apply(EncryptLayers[layers + 1], state, words)
    BY DEF Layer, LayersOf
  <2>3. Leads(input.block, layers + 1, Append(trace, state), Apply(EncryptLayers[layers + 1], state, words), words)
    BY <1>1, <1>3, <2>1, OneMoreLayer
  <2> QED BY <1>3, <1>4, <2>2, <2>3 DEF Leads
<1>7. DecryptInv'
  <2> SUFFICES ASSUME calls = "decrypt"
               PROVE  DecryptInv'
    BY <1>4 DEF DecryptInv
  <2>1. PICK w \in Words, c \in State :
          /\ IsSchedule(w, 44, input.password) /\ Leads(input.block, 40, trace, c, w)
          /\ SameKey =>
               /\ \A i \in DOMAIN words : words[i] = w[i]
               /\ state = IF layers = 0 THEN c ELSE trace[41 - layers]
    BY DEF CipherIInv, DecryptInv
  <2>2. trace' = trace /\ state' = Apply(DecryptLayers[layers + 1], state, words)
    BY DEF Layer, LayersOf
  <2>3. ASSUME SameKey
        PROVE  state' = trace[41 - layers']
    <3>1. words = w
      <4>1. DOMAIN words = 0 .. 43 /\ words = [i \in 0 .. 43 |-> words[i]]
        BY <1>1 DEF Words
      <4>2. w = [i \in 0 .. 43 |-> w[i]]
        BY DEF Words
      <4>3. \A i \in 0 .. 43 : words[i] = w[i]
        BY <2>1, <2>3, <4>1
      <4> QED BY <4>1, <4>2, <4>3
    <3> DEFINE k == 40 - layers
    <3>2. k \in 1 .. 40 /\ 41 - k = layers + 1 /\ 41 - layers' = k /\ (layers = 0 <=> k = 40)
          /\ 41 - layers = k + 1
      BY <1>3
    <3> HIDE DEF k
    <3>3. state = IF k = 40 THEN c ELSE trace[k + 1]
      BY <2>1, <2>3, <3>2
    <3>4. (IF k = 40 THEN c ELSE trace[k + 1]) = Apply(EncryptLayers[k], trace[k], w)
      BY <2>1, <3>2 DEF Leads
    <3>5. trace[k] \in State
      <4>1. trace \in Seq(State) /\ Len(trace) = 40
        BY <2>1 DEF Leads
      <4>2. k \in 1 .. 40
        BY <3>2
      <4>3. k \in 1 .. Len(trace)
        BY <4>1, <4>2
      <4> QED BY <4>1, <4>3, ElementOfSeq
    <3>6. Apply(DecryptLayers[41 - k], Apply(EncryptLayers[k], trace[k], w), w) = trace[k]
      BY <3>2, <3>5, LayerComesOff
    <3> QED BY <2>2, <3>1, <3>2, <3>3, <3>4, <3>6
  <2>4. Leads(input.block, 40, trace, c, w)'
    BY <1>4, <2>1, <2>2 DEF Leads
  <2>5. SameKey' <=> SameKey
    BY <1>4 DEF SameKey
  <2>6. IsSchedule(w, 44, input'.password)
    BY <1>4, <2>1
  <2>7. SameKey' => \A i \in DOMAIN words' : words'[i] = w[i]
    BY <1>4, <2>1, <2>5
  <2>8. SameKey' => state' = IF layers' = 0 THEN c ELSE trace'[41 - layers']
    BY <1>3, <2>2, <2>3, <2>5
  <2> QED BY <2>1, <2>4, <2>6, <2>7, <2>8 DEF DecryptInv
<1> QED BY <1>3, <1>4, <1>5, <1>6, <1>7 DEF CipherIInv

\* CallDecrypt begins with what encrypt ended with.
LEMMA CallDecryptStep == CipherIInv /\ CallDecrypt => CipherIInv'
<1> SUFFICES ASSUME CipherIInv, CallDecrypt
             PROVE  CipherIInv'
  OBVIOUS
<1>1. layers = 40 /\ layers' = 0 /\ calls = "encrypt" /\ calls' = "decrypt"
      /\ input' = input /\ trace' = trace /\ words' = FirstWords(input.other)
  BY LayersAreReversed DEF CallDecrypt
<1>2. MadeWords = 44
  BY <1>1 DEF CipherIInv
<1>3. words \in Words /\ IsSchedule(words, 44, input.password)
  BY <1>1, <1>2, WordsOf DEF UsedPassword
<1>4. Leads(input.block, 40, trace, state, words)
  BY <1>1 DEF CipherIInv, EncryptInv
<1>5. state \in State /\ state' = state
  <2>1. state \in State
    BY <1>4 DEF Leads
  <2> QED BY <2>1, BlockAsState DEF CallDecrypt
<1>6. IsSchedule(words', 4, input.other) /\ DOMAIN words' = 0 .. 3
  BY <1>1, Passwords, ScheduleBegins DEF CipherIInv
<1>7. ScheduleInv'
  <2>1. UsedPassword' = input.other
    BY <1>1 DEF UsedPassword
  <2> QED BY <1>6, <2>1 DEF ScheduleInv
<1>8. EncryptInv'
  BY <1>1 DEF EncryptInv
<1>9. DecryptInv'
  <2>1. SameKey' <=> SameKey
    BY <1>1 DEF SameKey
  <2>2. ASSUME SameKey
        PROVE  \A i \in DOMAIN words' : words'[i] = words[i]
    <3>1. FirstWords(input.other) = FirstWords(input.password)
      BY <2>2 DEF SameKey, FirstWords
    <3> QED BY <1>1, <1>3, <1>6, <3>1 DEF IsSchedule
  <2>3. Leads(input'.block, 40, trace', state, words) /\ IsSchedule(words, 44, input'.password)
    BY <1>1, <1>3, <1>4
  <2>4. \E w \in Words, c \in State :
          /\ IsSchedule(w, 44, input'.password) /\ Leads(input'.block, 40, trace', c, w)
          /\ SameKey' =>
               /\ \A i \in DOMAIN words' : words'[i] = w[i]
               /\ state' = IF layers' = 0 THEN c ELSE trace'[41 - layers']
    BY <1>1, <1>3, <1>5, <2>1, <2>2, <2>3
  <2> QED BY <2>4 DEF DecryptInv
<1>10. input' \in Cases
  BY <1>1 DEF CipherIInv
<1> QED BY <1>1, <1>7, <1>8, <1>9, <1>10 DEF CipherIInv

-----------------------------------------------------------------------------
(* What is claimed. *)

\* At every step the words are the schedule of the password in use, encrypt is
\* on its way from the block, and decrypt, under the same key, on the way back.
THEOREM CipherInvariant == CipherSpec => []CipherIInv
<1>1. CipherInit => CipherIInv
  BY InitStep
<1>2. CipherIInv /\ [CipherNext]_cipherVars => CipherIInv'
  <2> SUFFICES ASSUME CipherIInv, [CipherNext]_cipherVars
               PROVE  CipherIInv'
    OBVIOUS
  <2>1. CASE key_expansion
    BY <2>1, KeyStep
  <2>2. CASE Layer
    BY <2>2, LayerStep
  <2>3. CASE CallDecrypt
    BY <2>3, CallDecryptStep
  <2>4. CASE CipherDone \/ UNCHANGED cipherVars
    <3>1. /\ input' = input /\ calls' = calls /\ words' = words /\ layers' = layers
          /\ state' = state /\ trace' = trace
      BY <2>4 DEF CipherDone, cipherVars
    <3> QED BY <3>1 DEF CipherIInv, ScheduleInv, EncryptInv, DecryptInv, UsedPassword, SameKey, MadeWords
  <2> QED BY <2>1, <2>2, <2>3, <2>4 DEF CipherNext
<1> QED BY <1>1, <1>2, PTL DEF CipherSpec

\* Whatever the block and the passwords, if these give one key then every layer
\* of decrypt takes the state back to what the matching layer of encrypt had.
THEOREM Retraces == CipherSpec => []DecryptionRetraces
<1>1. CipherIInv => DecryptionRetraces
  <2> SUFFICES ASSUME CipherIInv, calls = "decrypt", layers > 0, SameKey
               PROVE  state = trace[Len(EncryptLayers) - layers + 1]
    BY DEF DecryptionRetraces, SameKey
  <2>1. state = trace[41 - layers]
    BY DEF CipherIInv, DecryptInv
  <2>2. Len(EncryptLayers) - layers + 1 = 41 - layers
    BY LayersAreReversed DEF CipherIInv
  <2> QED BY <2>1, <2>2
<1> QED BY <1>1, CipherInvariant, PTL

\* Passwords that are equal, or both missing, at each of their first 16 places.
SameStart(p, q) ==
  \A i \in 1 .. 16 : IF i \in DOMAIN p THEN i \in DOMAIN q /\ p[i] = q[i] ELSE i \notin DOMAIN q

\* Such passwords give one key.
LEMMA SameStartSameKey ==
  ASSUME NEW p \in Seq(Octet \ {0}), NEW q \in Seq(Octet \ {0}), SameStart(p, q)
  PROVE  derive_key_from_password(p) = derive_key_from_password(q)
<1> DEFINE at(r, i) == IF i <= Len(r) THEN r[i] ELSE 0
<1>1. \A i \in 1 .. 16 : at(p, i) = at(q, i)
  <2> TAKE i \in 1 .. 16
  <2>1. (i \in DOMAIN p <=> i <= Len(p)) /\ (i \in DOMAIN q <=> i <= Len(q))
    OBVIOUS
  <2> QED BY <2>1 DEF SameStart
<1>2. \A r : derive_key_from_password(r)
               = [i \in 1 .. 16 |-> Rotated(Xor(at(r, i), ((i - 1) * 27) % 256))]
  BY DEF derive_key_from_password
<1> HIDE DEF at
<1> QED BY <1>1, <1>2

\* A block that was encrypted is what decrypt ends with if the passwords agree on
\* their first 16 characters, whatever follows these: the half of PasswordsDecide
\* that does not depend on which keys there are.
SamePasswordOpens ==
  calls = "decrypt" /\ layers = Len(DecryptLayers) /\ SameStart(input.password, input.other)
  => state_to_ciphertext(state) = input.block

THEOREM Opens == CipherSpec => []SamePasswordOpens
<1>1. CipherIInv => SamePasswordOpens
  <2> SUFFICES ASSUME CipherIInv, calls = "decrypt", layers = 40,
                      SameStart(input.password, input.other)
               PROVE  state_to_ciphertext(state) = input.block
    BY LayersAreReversed DEF SamePasswordOpens
  <2>1. input.block \in [1 .. 16 -> Octet] /\ SameKey
    BY Passwords, SameStartSameKey DEF CipherIInv, SameKey
  <2>2. PICK w \in Words, c \in State :
          /\ Leads(input.block, 40, trace, c, w)
          /\ state = IF layers = 0 THEN c ELSE trace[41 - layers]
    BY <2>1 DEF CipherIInv, DecryptInv
  <2>3. state = trace[1]
    BY <2>2
  <2>4. trace[1] = plaintext_to_state(input.block)
    BY <2>2 DEF Leads
  <2> QED BY <2>1, <2>3, <2>4, BlockAsState
<1> QED BY <1>1, CipherInvariant, PTL

-----------------------------------------------------------------------------
(* The calls as functions on blocks. *)

\* A set of numbers that is not empty has a least one,
LEMMA Least == \A T \in SUBSET Nat : T # {} => \E m \in T : \A k \in T : m <= k
<1> SUFFICES ASSUME NEW T \in SUBSET Nat, T # {}
             PROVE  \E m \in T : \A k \in T : m <= k
  OBVIOUS
<1> DEFINE F == {0 .. k : k \in T}
<1>1. IsWellFoundedOn(StrictSubsetOrdering(Nat), FiniteSubsetsOf(Nat))
  BY FS_StrictSubsetOrderingWellFounded
<1>2. F \subseteq FiniteSubsetsOf(Nat) /\ F # {}
  <2>1. \A k \in T : 0 .. k \in SUBSET Nat /\ IsFiniteSet(0 .. k)
    <3> TAKE k \in T
    <3>1. IsFiniteSet(0 .. k)
      <4>1. 0 \in Int /\ k \in Int
        OBVIOUS
      <4> QED BY <4>1, FS_Interval
    <3> QED BY <3>1
  <2> QED BY <2>1 DEF FiniteSubsetsOf
<1>3. PICK x \in F : \A y \in F : ~(<<y, x>> \in StrictSubsetOrdering(Nat))
  <2> HIDE DEF F
  <2> QED BY <1>1, <1>2, WFMin
<1>4. PICK m \in T : x = 0 .. m
  OBVIOUS
<1>5. ASSUME NEW k \in T, k < m PROVE FALSE
  <2>1. 0 .. k \in F /\ 0 .. k \subseteq x /\ 0 .. k # x
    BY <1>4, <1>5
  <2>2. x \in SUBSET Nat
    BY <1>4
  <2>3. <<0 .. k, x>> \in StrictSubsetOrdering(Nat)
    BY <2>1, <2>2 DEF StrictSubsetOrdering
  <2> QED BY <1>3, <2>1, <2>3
<1> QED BY <1>5

\* and one that holds 0 and the successors of its members holds them all.
LEMMA Induct ==
  ASSUME NEW S \in SUBSET Nat, 0 \in S, \A n \in S : n + 1 \in S
  PROVE  S = Nat
<1> SUFFICES ASSUME Nat \ S # {}
             PROVE  FALSE
  OBVIOUS
<1>1. PICK m \in Nat \ S : \A k \in Nat \ S : m <= k
  BY Least
<1>2. m # 0 /\ m - 1 \in Nat /\ ~(m <= m - 1)
  <2>1. m \in Nat /\ m # 0
    OBVIOUS
  <2> QED BY <2>1
<1>3. m - 1 \in S
  BY <1>1, <1>2
<1> QED BY <1>2, <1>3

AESBlock == [1 .. 16 -> Octet]

\* What the layers of a call lead through from block b: t[k] follows layer k.
Through(ls, b, t, w) ==
  /\ t \in [0 .. 40 -> State] /\ t[0] = plaintext_to_state(b)
  /\ \A k \in 1 .. 40 : t[k] = Apply(ls[k], t[k - 1], w)

\* The layers of a call make block c of block b.
Makes(ls, b, c, w) == \E t : Through(ls, b, t, w) /\ c = state_to_ciphertext(t[40])

\* Each layer takes a state to a state.
TypedLayers(ls, w) == \A k \in 1 .. 40, s \in State : Apply(ls[k], s, w) \in State

\* The bytes of a state are a block.
LEMMA StateAsBlock == \A s \in State : state_to_ciphertext(s) \in AESBlock
<1> SUFFICES ASSUME NEW s \in State, NEW i \in 1 .. 16
             PROVE  s[<<(i - 1) % 4, (i - 1) \div 4>>] \in Octet
  BY DEF state_to_ciphertext, AESBlock
<1>1. (i - 1) % 4 \in Index /\ (i - 1) \div 4 \in Index
  BY DEF Index
<1> QED BY <1>1 DEF State

\* The inverse tables, turns and products make states of states.
LEMMA InverseLayers ==
  ASSUME NEW s \in State
  PROVE  inv_sub_bytes(s) \in State /\ inv_shift_rows(s) \in State /\ inv_mix_columns(s) \in State
<1>1. DOMAIN s = Index \X Index
  BY DEF State
<1>2. \A r, c \in Index : s[<<r, c>>] \in Octet
  BY DEF State
<1>3. inv_sub_bytes(s) \in State
  <2>1. \A x \in Index \X Index : s[x] \in Octet
    BY DEF State
  <2>2. \A x \in Index \X Index : inv_sbox[s[x] + 1] \in Octet
    BY <2>1, TablesAreInverse
  <2> QED BY <1>1, <2>2 DEF inv_sub_bytes, State
<1>4. inv_shift_rows(s) \in State
  <2> DEFINE t == inv_shift_rows(s)
  <2>1. t = [x \in Index \X Index |-> t[x]]
    BY <1>1 DEF inv_shift_rows
  <2>2. ASSUME NEW r \in Index, NEW c \in Index
        PROVE  t[<<r, c>>] \in Octet
    <3> DEFINE n == (4 - r) % 4
    <3>1. n \in Nat /\ (c + n) % 4 \in Index
      BY DEF Index
    <3>2. Shifted(Row(s, r), n) = [j \in Index |-> Row(s, r)[(j + n) % 4]]
      BY DEF Shifted
    <3>3. t[<<r, c>>] = Shifted(Row(s, r), n)[c]
      <4>1. <<r, c>> \in DOMAIN s
        BY <1>1
      <4> QED BY <4>1 DEF inv_shift_rows
    <3> HIDE DEF n, t
    <3>4. Shifted(Row(s, r), n)[c] = Row(s, r)[(c + n) % 4]
      BY <3>2
    <3>5. Row(s, r)[(c + n) % 4] = s[<<r, (c + n) % 4>>]
      BY <3>1 DEF Row
    <3> QED BY <1>2, <3>1, <3>3, <3>4, <3>5
  <2> HIDE DEF t
  <2>3. t \in State
    BY <2>1, <2>2, StateByPlace
  <2> QED BY <2>3 DEF t
<1>5. inv_mix_columns(s) \in State
  <2> DEFINE t == inv_mix_columns(s)
             f(p, r, c) == gf_mul(inv_coefficients[(r - p + 4) % 4], s[<<r, c>>])
  <2>1. t = [x \in Index \X Index |-> t[x]]
    BY <1>1 DEF inv_mix_columns, Columns
  <2>2. \A p, r \in Index : (r - p + 4) % 4 \in Index
    BY DEF Index
  <2>3. \A p, r, c \in Index : f(p, r, c) \in Octet
    BY <1>2, <2>2, ProductsAreBytes
  <2>4. 0 \in Index /\ 1 \in Index /\ 2 \in Index /\ 3 \in Index
    BY DEF Index
  <2>5. ASSUME NEW p \in Index, NEW c \in Index
        PROVE  t[<<p, c>>] \in Octet
    <3>1. <<p, c>> \in DOMAIN s
      BY <1>1
    <3>2. t[<<p, c>>] = XorAll(f(p, 0, c), f(p, 1, c), f(p, 2, c), f(p, 3, c))
      BY <3>1 DEF inv_mix_columns, Columns, XorAll
    <3> HIDE DEF t, f
    <3>3. f(p, 0, c) \in Octet /\ f(p, 1, c) \in Octet /\ f(p, 2, c) \in Octet /\ f(p, 3, c) \in Octet
      BY <2>3, <2>4
    <3> QED BY <3>2, <3>3, XorAllIsByte
  <2> HIDE DEF t
  <2>6. t \in State
    BY <2>1, <2>5, StateByPlace
  <2> QED BY <2>6 DEF t
<1> QED BY <1>3, <1>4, <1>5

\* So both calls are made of functions on states.
LEMMA LayersAreTyped ==
  ASSUME NEW w \in Words
  PROVE  TypedLayers(EncryptLayers, w) /\ TypedLayers(DecryptLayers, w)
<1>1. TypedLayers(EncryptLayers, w)
  BY LayerComesOff DEF TypedLayers
<1>2. ASSUME NEW k \in 1 .. 40, NEW s \in State
      PROVE  Apply(DecryptLayers[k], s, w) \in State
  <2> DEFINE d == DecryptLayers[k]  e == EncryptLayers[41 - k]
  <2>1. Undoes(d, e)
    <3>1. 41 - k \in 1 .. 40 /\ 41 - (41 - k) = k
      OBVIOUS
    <3>2. Undoes(DecryptLayers[41 - (41 - k)], EncryptLayers[41 - k])
      BY <3>1, LayersAreReversed
    <3> QED BY <3>1, <3>2
  <2> HIDE DEF d, e
  <2>2. CASE d = <<"inv_sub_bytes">>
    BY <2>2, InverseLayers DEF Apply, d
  <2>3. CASE d = <<"inv_shift_rows">>
    BY <2>3, InverseLayers DEF Apply, d
  <2>4. CASE d = <<"inv_mix_columns">>
    BY <2>4, InverseLayers DEF Apply, d
  <2>5. CASE \E round \in 0 .. 40 : d = <<"add_round_key", round>>
    <3>1. PICK round \in 0 .. 40 : d = <<"add_round_key", round>>
      BY <2>5
    <3>2. Apply(d, s, w) = add_round_key(s, w, round)
      <4>1. d[1] = "add_round_key" /\ d[2] = round
        BY <3>1
      <4> QED BY <4>1 DEF Apply
    <3> QED BY <3>2, KeysComeOff DEF d
  <2> QED BY <2>1, <2>2, <2>3, <2>4, <2>5 DEF Undoes
<1> QED BY <1>1, <1>2 DEF TypedLayers

\* A call ends, whatever the block,
LEMMA EveryBlockIsMade ==
  ASSUME NEW ls, NEW w, TypedLayers(ls, w), NEW b \in AESBlock
  PROVE  \E t : Through(ls, b, t, w)
<1> DEFINE Begins(t, n) == /\ t \in [0 .. n -> State] /\ t[0] = plaintext_to_state(b)
                           /\ \A k \in 1 .. n : t[k] = Apply(ls[k], t[k - 1], w)
           S == {n \in Nat : n <= 40 => \E t : Begins(t, n)}
<1>1. 0 \in S
  <2> DEFINE t == [k \in 0 .. 0 |-> plaintext_to_state(b)]
  <2>1. plaintext_to_state(b) \in State
    BY BlockAsState DEF AESBlock
  <2>2. t \in [0 .. 0 -> State] /\ t[0] = plaintext_to_state(b) /\ 1 .. 0 = {}
    BY <2>1
  <2> QED BY <2>2
<1>2. ASSUME NEW n \in S
      PROVE  n + 1 \in S
  <2> SUFFICES ASSUME n + 1 <= 40
               PROVE  \E t : Begins(t, n + 1)
    OBVIOUS
  <2>1. PICK t : Begins(t, n)
    OBVIOUS
  <2> DEFINE u == [k \in 0 .. n + 1 |-> IF k = n + 1 THEN Apply(ls[n + 1], t[n], w) ELSE t[k]]
  <2>2. Apply(ls[n + 1], t[n], w) \in State
    <3>1. t[n] \in State /\ n + 1 \in 1 .. 40
      BY <2>1
    <3> QED BY <3>1 DEF TypedLayers
  <2>3. u \in [0 .. n + 1 -> State]
    <3>1. \A k \in 0 .. n + 1 : k = n + 1 \/ k \in 0 .. n
      OBVIOUS
    <3> QED BY <2>1, <2>2, <3>1
  <2>4. u[0] = plaintext_to_state(b)
    BY <2>1
  <2>5. ASSUME NEW k \in 1 .. n + 1
        PROVE  u[k] = Apply(ls[k], u[k - 1], w)
    <3>1. CASE k = n + 1
      <4>1. u[k] = Apply(ls[n + 1], t[n], w) /\ u[k - 1] = t[n]
        BY <3>1
      <4> QED BY <3>1, <4>1
    <3>2. CASE k # n + 1
      <4>1. k \in 1 .. n /\ u[k] = t[k] /\ u[k - 1] = t[k - 1]
        BY <3>2
      <4> QED BY <2>1, <4>1
    <3> QED BY <3>1, <3>2
  <2> HIDE DEF u
  <2> QED BY <2>3, <2>4, <2>5
<1> HIDE DEF S
<1>3. S = Nat
  <2>1. S \in SUBSET Nat
    BY DEF S
  <2> QED BY <1>1, <1>2, <2>1, Induct
<1>4. 40 \in S
  BY <1>3
<1>5. \E t : Begins(t, 40)
  BY <1>4 DEF S
<1> QED BY <1>5 DEF Through

\* in one way only.
LEMMA CallIsAFunction ==
  ASSUME NEW ls, NEW w, NEW b, NEW t, NEW u, Through(ls, b, t, w), Through(ls, b, u, w)
  PROVE  t[40] = u[40]
<1> DEFINE S == {n \in Nat : n <= 40 => t[n] = u[n]}
<1>1. 0 \in S
  BY DEF Through
<1>2. ASSUME NEW n \in S
      PROVE  n + 1 \in S
  <2> SUFFICES ASSUME n + 1 <= 40
               PROVE  t[n + 1] = u[n + 1]
    OBVIOUS
  <2>1. t[n] = u[n] /\ n + 1 \in 1 .. 40 /\ (n + 1) - 1 = n
    OBVIOUS
  <2>2. t[n + 1] = Apply(ls[n + 1], t[(n + 1) - 1], w) /\ u[n + 1] = Apply(ls[n + 1], u[(n + 1) - 1], w)
    BY <2>1 DEF Through
  <2> QED BY <2>1, <2>2
<1> HIDE DEF S
<1>3. S = Nat
  <2>1. S \in SUBSET Nat
    BY DEF S
  <2> QED BY <1>1, <1>2, <2>1, Induct
<1> QED BY <1>3 DEF S

\* decrypt goes through the states of encrypt from the last to the first.
LEMMA CallGoesBack ==
  ASSUME NEW w \in Words, NEW b \in AESBlock, NEW t, Through(EncryptLayers, b, t, w)
  PROVE  Through(DecryptLayers, state_to_ciphertext(t[40]), [k \in 0 .. 40 |-> t[40 - k]], w)
<1> DEFINE u == [k \in 0 .. 40 |-> t[40 - k]]
<1>1. t \in [0 .. 40 -> State]
  BY DEF Through
<1>2. u \in [0 .. 40 -> State]
  <2>1. \A k \in 0 .. 40 : 40 - k \in 0 .. 40
    OBVIOUS
  <2> QED BY <1>1, <2>1
<1>3. u[0] = plaintext_to_state(state_to_ciphertext(t[40]))
  <2>1. u[0] = t[40] /\ t[40] \in State
    BY <1>1
  <2> QED BY <2>1, BlockAsState
<1>4. ASSUME NEW k \in 1 .. 40
      PROVE  u[k] = Apply(DecryptLayers[k], u[k - 1], w)
  <2> DEFINE j == 41 - k
  <2>1. j \in 1 .. 40 /\ 41 - j = k /\ u[k - 1] = t[j] /\ u[k] = t[j - 1] /\ j - 1 \in 0 .. 40
    OBVIOUS
  <2> HIDE DEF j, u
  <2>2. t[j] = Apply(EncryptLayers[j], t[j - 1], w) /\ t[j - 1] \in State
    BY <1>1, <2>1 DEF Through
  <2>3. Apply(DecryptLayers[41 - j], Apply(EncryptLayers[j], t[j - 1], w), w) = t[j - 1]
    BY <2>1, <2>2, LayerComesOff
  <2> QED BY <2>1, <2>2, <2>3
<1> HIDE DEF u
<1>5. Through(DecryptLayers, state_to_ciphertext(t[40]), u, w)
  BY <1>2, <1>3, <1>4 DEF Through
<1> QED BY <1>5 DEF u

\* key_expansion makes 44 words of every password.
LEMMA ScheduleExists ==
  ASSUME NEW p \in Seq(Octet \ {0})
  PROVE  \E w \in Words : IsSchedule(w, 44, p)
<1> DEFINE S == {n \in Nat : n <= 40 => \E w : IsSchedule(w, n + 4, p)}
<1>1. 0 \in S
  BY ScheduleBegins
<1>2. ASSUME NEW n \in S
      PROVE  n + 1 \in S
  <2> SUFFICES ASSUME n + 1 <= 40
               PROVE  \E w : IsSchedule(w, (n + 1) + 4, p)
    OBVIOUS
  <2>1. PICK w : IsSchedule(w, n + 4, p)
    OBVIOUS
  <2> DEFINE m == n + 4
  <2>2. m \in 4 .. 43 /\ (n + 1) + 4 = m + 1 /\ (m + 1) - 1 = m
    OBVIOUS
  <2> HIDE DEF m
  <2>3. /\ w \in [0 .. m - 1 -> [Index -> Octet]]
        /\ \A i \in 0 .. 3 : w[i] = FirstWords(p)[i]
        /\ \A i \in 4 .. m - 1 : w[i] = NextWord(w, i)
    BY <2>1 DEF IsSchedule, m
  <2> DEFINE v == [i \in 0 .. m |-> IF i = m THEN NextWord(w, m) ELSE w[i]]
  <2>4. NextWord(w, m) \in [Index -> Octet]
    BY <2>2, <2>3, NextWordIsBytes
  <2>5. v \in [0 .. m -> [Index -> Octet]]
    <3>1. \A i \in 0 .. m : i = m \/ i \in 0 .. m - 1
      BY <2>2
    <3> QED BY <2>3, <2>4, <3>1
  <2>6. \A i \in 0 .. m - 1 : v[i] = w[i]
    BY <2>2
  <2>7. \A i \in 0 .. 3 : v[i] = FirstWords(p)[i]
    BY <2>2, <2>3, <2>6
  <2>8. v[m] = NextWord(w, m)
    BY <2>2
  <2> HIDE DEF v
  <2>9. \A i \in 4 .. m : NextWord(v, i) = NextWord(w, i)
    <3>1. \A i \in 4 .. m : v[i - 4] = w[i - 4] /\ v[i - 1] = w[i - 1]
      BY <2>2, <2>6
    <3> QED BY <3>1 DEF NextWord
  <2>10. ASSUME NEW i \in 4 .. m
         PROVE  v[i] = NextWord(v, i)
    <3>1. CASE i = m
      BY <2>8, <2>9, <3>1
    <3>2. CASE i # m
      <4>1. i \in 4 .. m - 1 /\ i \in 0 .. m - 1
        BY <2>2, <3>2
      <4> QED BY <2>3, <2>6, <2>9, <4>1
    <3> QED BY <3>1, <3>2
  <2>11. IsSchedule(v, m + 1, p)
    BY <2>2, <2>5, <2>7, <2>10 DEF IsSchedule
  <2> QED BY <2>2, <2>11
<1> HIDE DEF S
<1>3. S = Nat
  <2>1. S \in SUBSET Nat
    BY DEF S
  <2> QED BY <1>1, <1>2, <2>1, Induct
<1>4. 40 \in S
  BY <1>3
<1>5. PICK w : IsSchedule(w, 44, p)
  BY <1>4 DEF S
<1>6. w \in Words
  <2>1. 44 - 1 = 43
    OBVIOUS
  <2> QED BY <1>5, <2>1 DEF IsSchedule, Words
<1> QED BY <1>5, <1>6

\* For every password the calls are functions on blocks, and decrypt is the
\* inverse of encrypt.
THEOREM AESIsACipher ==
  \A password \in Seq(Octet \ {0}) :
    \E w \in Words, enc, dec \in [AESBlock -> AESBlock] :
      /\ IsSchedule(w, 44, password)
      /\ \A b \in AESBlock : Makes(EncryptLayers, b, enc[b], w) /\ Makes(DecryptLayers, b, dec[b], w)
      /\ \A b \in AESBlock : dec[enc[b]] = b
<1> TAKE password \in Seq(Octet \ {0})
<1>1. PICK w \in Words : IsSchedule(w, 44, password)
  BY ScheduleExists
<1> DEFINE made(ls) == [b \in AESBlock |-> CHOOSE c \in AESBlock : Makes(ls, b, c, w)]
           enc == made(EncryptLayers)
           dec == made(DecryptLayers)
<1>2. ASSUME NEW ls, TypedLayers(ls, w)
      PROVE  \A b \in AESBlock : \E c \in AESBlock : Makes(ls, b, c, w)
  <2> TAKE b \in AESBlock
  <2>1. PICK t : Through(ls, b, t, w)
    BY <1>2, EveryBlockIsMade
  <2>2. t[40] \in State
    BY <2>1 DEF Through
  <2> QED BY <2>1, <2>2, StateAsBlock DEF Makes
<1>3. /\ enc \in [AESBlock -> AESBlock]
      /\ \A b \in AESBlock : Makes(EncryptLayers, b, enc[b], w)
  <2>1. \A b \in AESBlock : \E c \in AESBlock : Makes(EncryptLayers, b, c, w)
    BY <1>2, LayersAreTyped
  <2> QED BY <2>1
<1>4. /\ dec \in [AESBlock -> AESBlock]
      /\ \A b \in AESBlock : Makes(DecryptLayers, b, dec[b], w)
  <2>1. \A b \in AESBlock : \E c \in AESBlock : Makes(DecryptLayers, b, c, w)
    BY <1>2, LayersAreTyped
  <2> QED BY <2>1
<1> HIDE DEF enc, dec
<1>5. ASSUME NEW b \in AESBlock
      PROVE  dec[enc[b]] = b
  <2>1. enc[b] \in AESBlock
    BY <1>3
  <2>2. PICK t : Through(EncryptLayers, b, t, w) /\ enc[b] = state_to_ciphertext(t[40])
    BY <1>3 DEF Makes
  <2>3. PICK u : Through(DecryptLayers, enc[b], u, w) /\ dec[enc[b]] = state_to_ciphertext(u[40])
    BY <1>4, <2>1 DEF Makes
  <2> DEFINE v == [k \in 0 .. 40 |-> t[40 - k]]
  <2>4. Through(DecryptLayers, enc[b], v, w)
    BY <2>2, CallGoesBack
  <2>5. v[40] = t[0]
    OBVIOUS
  <2> HIDE DEF v
  <2>6. u[40] = v[40]
    BY <2>3, <2>4, CallIsAFunction
  <2>7. t[0] = plaintext_to_state(b)
    BY <2>2 DEF Through
  <2>8. state_to_ciphertext(plaintext_to_state(b)) = b
    BY BlockAsState DEF AESBlock
  <2> QED BY <2>3, <2>5, <2>6, <2>7, <2>8
<1> QED BY <1>1, <1>3, <1>4, <1>5

\* What PaddedBlocks takes for granted of its cipher on blocks of 16 bytes holds of
\* encrypt and decrypt of aes.c, under the key of any password.
THEOREM CipherIsAsAssumed ==
  MaxByte = 255 /\ BlockSize = 16 =>
    \A password \in Seq(Octet \ {0}) :
      \E w \in Words, enc, dec \in [Block -> Block] :
        /\ IsSchedule(w, 44, password)
        /\ \A b \in Block : Makes(EncryptLayers, b, enc[b], w) /\ Makes(DecryptLayers, b, dec[b], w)
        /\ \A b \in Block : dec[enc[b]] = b
<1>1. MaxByte = 255 /\ BlockSize = 16 => Block = AESBlock
  BY DEF Block, Byte, AESBlock, Octet
<1> QED BY <1>1, AESIsACipher

-----------------------------------------------------------------------------
(* Files. *)

USE BlockSizeAssumption

-----------------------------------------------------------------------------
(* Padding. *)

\* Division by the size of a block.
LEMMA DivMod ==
  ASSUME NEW n \in Nat
  PROVE  /\ n \div BlockSize \in Nat
         /\ n % BlockSize \in 0 .. BlockSize - 1
         /\ n = BlockSize * (n \div BlockSize) + (n % BlockSize)
OBVIOUS

\* Between one byte and one block is appended.
LEMMA PadLenRange ==
  ASSUME NEW n \in Nat
  PROVE  PadLen(n) \in 1 .. BlockSize
BY DivMod DEF PadLen

\* The bytes of a padded file.
LEMMA PadBytes ==
  ASSUME NEW s \in Seq(Byte), NEW p, p = PadLen(Len(s))
  PROVE  /\ Pad(s) \in Seq(Byte)
         /\ Len(Pad(s)) = Len(s) + p
         /\ \A k \in 1 .. Len(s) : Pad(s)[k] = s[k]
         /\ \A k \in Len(s) + 1 .. Len(s) + p : Pad(s)[k] = p
<1>1. p \in 1 .. BlockSize
  BY PadLenRange
<1>2. Padding(p) \in Seq(Byte) /\ Len(Padding(p)) = p /\ \A k \in 1 .. p : Padding(p)[k] = p
  BY <1>1 DEF Padding, Byte
<1>3. Pad(s) = s \o Padding(p)
  BY DEF Pad
<1>4. \A u \in Seq(Byte) :
        /\ s \o u \in Seq(Byte) /\ Len(s \o u) = Len(s) + Len(u)
        /\ \A k \in 1 .. Len(s) : (s \o u)[k] = s[k]
        /\ \A k \in Len(s) + 1 .. Len(s) + Len(u) : (s \o u)[k] = u[k - Len(s)]
  OBVIOUS
<1>5. \A k \in Len(s) + 1 .. Len(s) + p : k - Len(s) \in 1 .. p
  BY <1>1
<1> QED BY <1>2, <1>3, <1>4, <1>5

\* A padded file has valid padding, of the length that was appended.
LEMMA PadIsValid ==
  ASSUME NEW s \in Seq(Byte)
  PROVE  /\ ValidPadding(Pad(s))
         /\ Pad(s)[Len(Pad(s))] = PadLen(Len(s))
<1> DEFINE p == PadLen(Len(s))
           t == Pad(s)
<1>1. p \in 1 .. BlockSize
  BY PadLenRange
<1>2. /\ t \in Seq(Byte) /\ Len(t) = Len(s) + p
      /\ \A k \in Len(s) + 1 .. Len(s) + p : t[k] = p
  BY PadBytes
<1> HIDE DEF p, t
<1>3. t[Len(t)] = p /\ Len(t) \in Nat /\ Len(s) \in Nat
  BY <1>1, <1>2
<1>4. t # <<>> /\ p <= Len(t)
  BY <1>1, <1>2
<1>5. \A k \in Len(t) - p + 1 .. Len(t) : t[k] = p
  BY <1>1, <1>2
<1>6. ValidPadding(t)
  BY <1>1, <1>3, <1>4, <1>5 DEF ValidPadding
<1> QED BY <1>3, <1>6 DEF p, t

\* Unpadding inverts padding, whatever the file ends with.
THEOREM UnpadInvertsPad == \A s \in Seq(Byte) : Unpad(Pad(s)) = s
<1> TAKE s \in Seq(Byte)
<1> DEFINE p == PadLen(Len(s))
           t == Pad(s)
<1>1. p \in 1 .. BlockSize
  BY PadLenRange
<1>2. /\ t \in Seq(Byte) /\ Len(t) = Len(s) + p
      /\ \A k \in 1 .. Len(s) : t[k] = s[k]
  BY PadBytes
<1>3. ValidPadding(t) /\ t[Len(t)] = p
  BY PadIsValid
<1> HIDE DEF p, t
<1>4. Unpad(t) = SubSeq(t, 1, Len(t) - p)
  BY <1>3 DEF Unpad
<1>5. Len(t) - p = Len(s) /\ Len(s) \in Nat /\ Len(s) <= Len(t)
  BY <1>1, <1>2
<1>6. SubSeq(t, 1, Len(s)) = s
  BY <1>2, <1>5
<1> QED BY <1>4, <1>5, <1>6 DEF t
-----------------------------------------------------------------------------
(* Blocks. *)

\* The block of byte k, counted from 1, and its place in it.
LEMMA BlockOfByte ==
  ASSUME NEW k \in Nat \ {0}
  PROVE  /\ BlocksOf(k) \in Nat \ {0}
         /\ k - (BlocksOf(k) - 1) * BlockSize \in 1 .. BlockSize
<1>1. k - 1 \in Nat /\ k + BlockSize - 1 = (k - 1) + BlockSize
  OBVIOUS
<1>2. PICK q \in Nat, r \in 0 .. BlockSize - 1 : k - 1 = BlockSize * q + r
  BY <1>1, DivMod
<1>3. (k + BlockSize - 1) \div BlockSize = q + 1
  BY <1>1, <1>2
<1> QED BY <1>2, <1>3 DEF BlocksOf

\* Every byte of block i belongs to block i.
LEMMA ByteOfBlock ==
  ASSUME NEW i \in Nat \ {0}, NEW o \in 1 .. BlockSize
  PROVE  /\ (i - 1) * BlockSize + o \in Nat \ {0}
         /\ BlocksOf((i - 1) * BlockSize + o) = i
<1>1. (i - 1) * BlockSize \in Nat
  OBVIOUS
<1>2. (i - 1) * BlockSize + o + BlockSize - 1 = i * BlockSize + (o - 1)
  OBVIOUS
<1>3. (i * BlockSize + (o - 1)) \div BlockSize = i
  OBVIOUS
<1> QED BY <1>1, <1>2, <1>3 DEF BlocksOf

\* The bytes of n blocks are exactly the first n * BlockSize.
LEMMA BytesOfBlocks ==
  ASSUME NEW n \in Nat, NEW size \in Nat, size = n * BlockSize
  PROVE  /\ \A k \in 1 .. size : BlocksOf(k) \in 1 .. n
         /\ \A i \in 1 .. n, o \in 1 .. BlockSize :
              (i - 1) * BlockSize + o \in 1 .. size
<1>1. ASSUME NEW k \in 1 .. size
      PROVE  BlocksOf(k) \in 1 .. n
  <2> DEFINE i == BlocksOf(k)
  <2>1. i \in Nat \ {0} /\ k - (i - 1) * BlockSize \in 1 .. BlockSize
    BY BlockOfByte
  <2> HIDE DEF i
  <2>2. (i - 1) * BlockSize < n * BlockSize
    BY <2>1
  <2>3. i - 1 < n
    BY <2>1, <2>2
  <2> QED BY <2>1, <2>3 DEF i
<1>2. ASSUME NEW i \in 1 .. n, NEW o \in 1 .. BlockSize
      PROVE  (i - 1) * BlockSize + o \in 1 .. size
  <2>1. (i - 1) * BlockSize + BlockSize = i * BlockSize
    OBVIOUS
  <2>2. i * BlockSize <= n * BlockSize
    OBVIOUS
  <2> QED BY <2>1, <2>2
<1> QED BY <1>1, <1>2

\* A block of a sequence of n blocks is a block.
LEMMA BlockAtType ==
  ASSUME NEW s \in Seq(Byte), NEW n \in Nat, Len(s) = n * BlockSize, NEW i \in 1 .. n
  PROVE  BlockAt(s, i) \in Block
<1>1. \A o \in 1 .. BlockSize : (i - 1) * BlockSize + o \in 1 .. Len(s)
  BY BytesOfBlocks
<1>2. \A o \in 1 .. BlockSize : s[(i - 1) * BlockSize + o] \in Byte
  BY <1>1
<1> QED BY <1>2 DEF BlockAt, Block

\* Crypt replaces every block of a sequence of blocks by its image.
LEMMA CryptBlocks ==
  ASSUME NEW way \in Modes, NEW s \in Seq(Byte), NEW n \in Nat, Len(s) = n * BlockSize
  PROVE  /\ Crypt(way, s) \in Seq(Byte)
         /\ Len(Crypt(way, s)) = Len(s)
         /\ \A i \in 1 .. n : BlockAt(Crypt(way, s), i) = Cipher(way)[BlockAt(s, i)]
<1> DEFINE C == Cipher(way)
           t == Crypt(way, s)
<1>1. C \in [Block -> Block]
  BY CipherAssumption DEF Cipher, Modes
<1>2. ASSUME NEW k \in 1 .. Len(s)
      PROVE  C[BlockAt(s, BlocksOf(k))][k - (BlocksOf(k) - 1) * BlockSize] \in Byte
  <2>1. BlocksOf(k) \in 1 .. n
    BY BytesOfBlocks
  <2>2. k - (BlocksOf(k) - 1) * BlockSize \in 1 .. BlockSize
    <3>1. k \in Nat \ {0}
      OBVIOUS
    <3> QED BY <3>1, BlockOfByte
  <2>3. C[BlockAt(s, BlocksOf(k))] \in Block
    BY <1>1, <2>1, BlockAtType
  <2> HIDE DEF C
  <2> QED BY <2>2, <2>3 DEF Block
<1>3. t = [k \in 1 .. Len(s) |->
             C[BlockAt(s, BlocksOf(k))][k - (BlocksOf(k) - 1) * BlockSize]]
  BY DEF Crypt
<1> HIDE DEF C, t
<1>4. t \in Seq(Byte) /\ Len(t) = Len(s)
  <2>1. t \in [1 .. Len(s) -> Byte]
    BY <1>2, <1>3
  <2>2. Len(s) \in Nat
    OBVIOUS
  <2> QED BY <2>1, <2>2
<1>5. ASSUME NEW i \in 1 .. n
      PROVE  BlockAt(t, i) = C[BlockAt(s, i)]
  <2>1. C[BlockAt(s, i)] \in Block
    BY <1>1, BlockAtType
  <2>2. ASSUME NEW o \in 1 .. BlockSize
        PROVE  t[(i - 1) * BlockSize + o] = C[BlockAt(s, i)][o]
    <3> DEFINE k == (i - 1) * BlockSize + o
    <3>1. k \in 1 .. Len(s)
      BY BytesOfBlocks
    <3>2. BlocksOf(k) = i
      <4>1. i \in Nat \ {0}
        OBVIOUS
      <4> QED BY <4>1, ByteOfBlock
    <3>3. k - (i - 1) * BlockSize = o
      OBVIOUS
    <3> HIDE DEF k
    <3>4. t[k] = C[BlockAt(s, i)][o]
      BY <1>3, <3>1, <3>2, <3>3
    <3> QED BY <3>4 DEF k
  <2> QED BY <2>1, <2>2 DEF BlockAt, Block
<1> QED BY <1>4, <1>5 DEF C, t

\* Files of full blocks are the same when their blocks are.
LEMMA SameBlocks ==
  ASSUME NEW s \in Seq(Byte), NEW t \in Seq(Byte), NEW n \in Nat,
         Len(s) = n * BlockSize, Len(t) = n * BlockSize,
         \A i \in 1 .. n : BlockAt(s, i) = BlockAt(t, i)
  PROVE  s = t
<1>1. ASSUME NEW k \in 1 .. Len(s)
      PROVE  s[k] = t[k]
  <2> DEFINE i == BlocksOf(k)
             o == k - (i - 1) * BlockSize
  <2>1. i \in 1 .. n
    BY BytesOfBlocks
  <2>2. o \in 1 .. BlockSize
    <3>1. k \in Nat \ {0}
      OBVIOUS
    <3> QED BY <3>1, BlockOfByte
  <2> HIDE DEF i
  <2>3. (i - 1) * BlockSize + o = k
    BY <2>1
  <2> HIDE DEF o
  <2>4. BlockAt(s, i)[o] = s[k] /\ BlockAt(t, i)[o] = t[k]
    BY <2>2, <2>3 DEF BlockAt
  <2> QED BY <2>1, <2>4
<1> QED BY <1>1

\* Decrypting every block inverts encrypting every block.
THEOREM DecryptInvertsEncrypt ==
  \A s \in Seq(Byte) : \A n \in Nat :
    Len(s) = n * BlockSize => Crypt("decrypt", Crypt("encrypt", s)) = s
<1> SUFFICES ASSUME NEW s \in Seq(Byte), NEW n \in Nat, Len(s) = n * BlockSize
             PROVE  Crypt("decrypt", Crypt("encrypt", s)) = s
  OBVIOUS
<1> DEFINE t == Crypt("encrypt", s)
           u == Crypt("decrypt", t)
<1>1. /\ t \in Seq(Byte) /\ Len(t) = Len(s)
      /\ \A i \in 1 .. n : BlockAt(t, i) = Enc[BlockAt(s, i)]
  BY CryptBlocks DEF Modes, Cipher
<1> HIDE DEF t
<1>2. /\ u \in Seq(Byte) /\ Len(u) = Len(s)
      /\ \A i \in 1 .. n : BlockAt(u, i) = Dec[BlockAt(t, i)]
  BY <1>1, CryptBlocks DEF Modes, Cipher
<1> HIDE DEF u
<1>3. \A i \in 1 .. n : BlockAt(u, i) = BlockAt(s, i)
  BY <1>1, <1>2, BlockAtType, CipherAssumption
<1>4. u = s
  BY <1>1, <1>2, <1>3, SameBlocks
<1> QED BY <1>4 DEF t, u

\* Encryption writes whole blocks.
LEMMA PadIsAligned ==
  ASSUME NEW s \in Seq(Byte)
  PROVE  \E n \in Nat : Len(Pad(s)) = n * BlockSize
<1>1. Len(s) \in Nat
  OBVIOUS
<1>2. PICK q \in Nat, r \in 0 .. BlockSize - 1 :
        Len(s) = BlockSize * q + r /\ r = Len(s) % BlockSize
  BY <1>1, DivMod
<1>3. Len(Pad(s)) = Len(s) + PadLen(Len(s))
  BY PadBytes
<1>4. PadLen(Len(s)) = BlockSize - r
  BY <1>2 DEF PadLen
<1>5. Len(Pad(s)) = BlockSize * q + BlockSize
  <2>1. BlockSize * q \in Nat
    OBVIOUS
  <2>2. \A a, b \in Nat : a + b + (BlockSize - b) = a + BlockSize
    OBVIOUS
  <2>3. Len(s) = BlockSize * q + r /\ r \in Nat
    BY <1>2
  <2>4. Len(Pad(s)) = BlockSize * q + r + (BlockSize - r)
    BY <1>3, <1>4, <2>3
  <2> QED BY <2>1, <2>2, <2>3, <2>4
<1>6. BlockSize * q + BlockSize = (q + 1) * BlockSize
  OBVIOUS
<1> QED BY <1>5, <1>6

\* A file that was encrypted and then decrypted with the same key is the same
\* file, for every content, block size and pair of inverse ciphers.
THEOREM RoundTrip == \A s \in Seq(Byte) : Decrypted(Encrypted(s)) = s
<1> TAKE s \in Seq(Byte)
<1>1. Pad(s) \in Seq(Byte)
  BY PadBytes
<1>2. Crypt("decrypt", Crypt("encrypt", Pad(s))) = Pad(s)
  BY <1>1, PadIsAligned, DecryptInvertsEncrypt
<1> QED BY <1>2, UnpadInvertsPad DEF Decrypted, Encrypted
-----------------------------------------------------------------------------
(* One block at a time, as the tasks of a call do it. *)

\* The blocks of a file cover it, and all but the last are full.
LEMMA BlocksCover ==
  ASSUME NEW size \in Nat
  PROVE  /\ BlocksOf(size) \in Nat
         /\ size <= BlocksOf(size) * BlockSize
         /\ BlocksOf(size) * BlockSize < size + BlockSize
<1>1. size + BlockSize - 1 \in Nat
  OBVIOUS
<1>2. PICK q \in Nat, r \in 0 .. BlockSize - 1 :
        size + BlockSize - 1 = BlockSize * q + r /\ q = BlocksOf(size)
  BY <1>1, DivMod DEF BlocksOf
<1>3. BlockSize * q = q * BlockSize /\ q * BlockSize \in Nat
  OBVIOUS
<1> QED BY <1>2, <1>3

\* A file of n full blocks has n blocks.
LEMMA BlocksOfMultiple ==
  ASSUME NEW n \in Nat
  PROVE  BlocksOf(n * BlockSize) = n
<1>1. n * BlockSize \in Nat
  OBVIOUS
<1> DEFINE m == BlocksOf(n * BlockSize)
<1>2. m \in Nat /\ n * BlockSize <= m * BlockSize /\ m * BlockSize < n * BlockSize + BlockSize
  BY <1>1, BlocksCover
<1> HIDE DEF m
<1>3. n * BlockSize + BlockSize = (n + 1) * BlockSize
  OBVIOUS
<1>4. m < n + 1 /\ n <= m
  BY <1>2, <1>3
<1> QED BY <1>2, <1>4 DEF m

\* A longer file has no fewer blocks.
LEMMA BlocksOfMonotonic ==
  ASSUME NEW a \in Nat, NEW b \in Nat, a <= b
  PROVE  BlocksOf(a) <= BlocksOf(b)
<1> DEFINE m == BlocksOf(a)
           n == BlocksOf(b)
<1>1. m \in Nat /\ m * BlockSize < a + BlockSize
  BY BlocksCover
<1>2. n \in Nat /\ b <= n * BlockSize
  BY BlocksCover
<1> HIDE DEF m, n
<1>3. n * BlockSize + BlockSize = (n + 1) * BlockSize
  BY <1>2
<1>4. m * BlockSize < (n + 1) * BlockSize
  BY <1>1, <1>2, <1>3
<1>5. m < n + 1
  BY <1>1, <1>2, <1>4
<1> QED BY <1>1, <1>2, <1>5 DEF m, n

\* The bytes of two different blocks are different.
LEMMA OtherBlock ==
  ASSUME NEW i \in Nat \ {0}, NEW j \in Nat \ {0}, NEW o \in 1 .. BlockSize
  PROVE  InBlock((j - 1) * BlockSize + o, i) <=> i = j
<1>1. /\ (i - 1) * BlockSize \in Nat /\ i * BlockSize = (i - 1) * BlockSize + BlockSize
      /\ (j - 1) * BlockSize \in Nat /\ j * BlockSize = (j - 1) * BlockSize + BlockSize
  OBVIOUS
<1>2. CASE i = j
  BY <1>1, <1>2 DEF InBlock
<1>3. CASE j < i
  <2>1. j <= i - 1
    BY <1>3
  <2>2. j * BlockSize <= (i - 1) * BlockSize
    BY <2>1
  <2> QED BY <1>1, <1>3, <2>2 DEF InBlock
<1>4. CASE i < j
  <2>1. i <= j - 1
    BY <1>4
  <2>2. i * BlockSize <= (j - 1) * BlockSize
    BY <2>1
  <2> QED BY <1>1, <1>4, <2>2 DEF InBlock
<1> QED BY <1>2, <1>3, <1>4

\* A task replaces its block by the image and leaves all others alone.
LEMMA CryptOneBlock ==
  ASSUME NEW way \in Modes, NEW s \in Seq(Byte), NEW n \in Nat, n * BlockSize <= Len(s),
         NEW i \in 1 .. n
  PROVE  /\ CryptBlock(way, s, i) \in Seq(Byte)
         /\ Len(CryptBlock(way, s, i)) = Len(s)
         /\ \A j \in 1 .. n : BlockAt(CryptBlock(way, s, i), j) =
              IF j = i THEN Cipher(way)[BlockAt(s, i)] ELSE BlockAt(s, j)
<1> DEFINE image == Cipher(way)[BlockAt(s, i)]
           t == CryptBlock(way, s, i)
<1>1. \A j \in 1 .. n, o \in 1 .. BlockSize : (j - 1) * BlockSize + o \in 1 .. Len(s)
  <2>1. /\ n * BlockSize \in Nat
        /\ \A j \in 1 .. n, o \in 1 .. BlockSize : (j - 1) * BlockSize + o \in 1 .. n * BlockSize
    BY BytesOfBlocks
  <2> QED BY <2>1
<1>2. BlockAt(s, i) \in Block
  <2>1. \A o \in 1 .. BlockSize : s[(i - 1) * BlockSize + o] \in Byte
    BY <1>1
  <2> QED BY <2>1 DEF BlockAt, Block
<1>3. image \in Block
  BY <1>2, CipherAssumption DEF Cipher, Modes
<1>4. t = [k \in 1 .. Len(s) |->
             IF InBlock(k, i) THEN image[k - (i - 1) * BlockSize] ELSE s[k]]
  BY DEF CryptBlock
<1> HIDE DEF image, t
<1>5. t \in Seq(Byte) /\ Len(t) = Len(s)
  <2>1. ASSUME NEW k \in 1 .. Len(s), InBlock(k, i)
        PROVE  image[k - (i - 1) * BlockSize] \in Byte
    <3>1. (i - 1) * BlockSize \in Nat /\ i * BlockSize = (i - 1) * BlockSize + BlockSize
      OBVIOUS
    <3>2. k - (i - 1) * BlockSize \in 1 .. BlockSize
      BY <2>1, <3>1 DEF InBlock
    <3> QED BY <1>3, <3>2 DEF Block
  <2>2. t \in [1 .. Len(s) -> Byte] /\ Len(s) \in Nat
    BY <1>4, <2>1
  <2> QED BY <2>2
<1>6. ASSUME NEW j \in 1 .. n, NEW o \in 1 .. BlockSize
      PROVE  t[(j - 1) * BlockSize + o] =
               IF j = i THEN image[o] ELSE s[(j - 1) * BlockSize + o]
  <2> DEFINE k == (j - 1) * BlockSize + o
  <2>1. k \in 1 .. Len(s)
    BY <1>1
  <2>2. InBlock(k, i) <=> i = j
    <3>1. i \in Nat \ {0} /\ j \in Nat \ {0}
      OBVIOUS
    <3> QED BY <3>1, OtherBlock
  <2>3. i = j => k - (i - 1) * BlockSize = o
    OBVIOUS
  <2> HIDE DEF k
  <2>4. t[k] = IF j = i THEN image[o] ELSE s[k]
    BY <1>4, <2>1, <2>2, <2>3
  <2> QED BY <2>4 DEF k
<1>7. ASSUME NEW j \in 1 .. n
      PROVE  BlockAt(t, j) = IF j = i THEN image ELSE BlockAt(s, j)
  BY <1>3, <1>6 DEF BlockAt, Block
<1> QED BY <1>5, <1>7 DEF t, image

\* The padding that fits up to the end of a block is that of the bytes read.
LEMMA PaddingOf ==
  ASSUME NEW t \in Nat, NEW n \in Nat, NEW p \in 1 .. BlockSize, t + p = n * BlockSize
  PROVE  p = PadLen(t)
<1>1. PICK q \in Nat, r \in 0 .. BlockSize - 1 : t = BlockSize * q + r /\ r = t % BlockSize
  BY DivMod
<1>2. /\ BlockSize * q = q * BlockSize /\ q * BlockSize \in Nat /\ n * BlockSize \in Nat
      /\ (q + 1) * BlockSize = q * BlockSize + BlockSize
      /\ (q + 2) * BlockSize = q * BlockSize + BlockSize + BlockSize
  OBVIOUS
<1>3. q * BlockSize < n * BlockSize /\ n * BlockSize < (q + 2) * BlockSize
  BY <1>1, <1>2
<1>4. q < n /\ n < q + 2
  BY <1>3
<1>5. n = q + 1
  BY <1>4
<1> QED BY <1>1, <1>2, <1>5 DEF PadLen

\* The blocks of an aligned file have its size.
LEMMA AlignedSize ==
  ASSUME NEW t \in Nat, t % BlockSize = 0
  PROVE  BlocksOf(t) * BlockSize = t
<1>1. PICK q \in Nat, r \in 0 .. BlockSize - 1 : t = BlockSize * q + r /\ r = t % BlockSize
  BY DivMod
<1>2. BlockSize * q = q * BlockSize /\ q * BlockSize + 0 = q * BlockSize
  OBVIOUS
<1>3. t = q * BlockSize
  BY <1>1, <1>2
<1>4. BlocksOf(q * BlockSize) = q
  BY BlocksOfMultiple
<1> QED BY <1>3, <1>4

\* Bytes without their padding are bytes.
LEMMA UnpadType ==
  ASSUME NEW s \in Seq(Byte)
  PROVE  Unpad(s) \in Seq(Byte)
<1>1. CASE ValidPadding(s)
  <2>1. Len(s) - s[Len(s)] \in 0 .. Len(s)
    BY <1>1 DEF ValidPadding
  <2>2. Unpad(s) = SubSeq(s, 1, Len(s) - s[Len(s)])
    BY <1>1 DEF Unpad
  <2> QED BY <2>1, <2>2
<1>2. CASE ~ValidPadding(s)
  BY <1>2 DEF Unpad
<1> QED BY <1>1, <1>2

HIDE BlockSizeAssumption

-----------------------------------------------------------------------------
(* One call. *)

PoolFacts == INSTANCE JobPool_proof WITH Job <- 1 .. MaxBlocks, Width <- NumThreads

-----------------------------------------------------------------------------
(* The inductive invariant, in named parts. *)

Labels == {"open", "read", "pad", "pool", "submit", "wait", "destroy", "write",
           "store"} \union Ended

\* The blocks exist, and are those of a call that has not ended.
Processing == {"pool", "submit", "wait", "destroy", "write", "store"}

Types ==
  /\ pc \in Labels
  /\ mode \in Modes /\ filename \in Name
  /\ filename \in DOMAIN file
  /\ edits \in Nat /\ padded \in Nat /\ total \in Nat /\ index \in Nat \ {0}
  /\ buf \in Seq(Byte) /\ source \in Seq(Byte)
  /\ parallel \in BOOLEAN

\* The file while it may be read, and the buffer that was made for it.
ReadInv ==
  /\ pc \in {"open", "read"} => file[filename] \in Contents \union Rewrites
  /\ pc = "open" => total = 0 /\ edits = 0
  /\ mode = "encrypt" => \E n \in Nat : padded = n * BlockSize
  /\ BlocksOf(padded) <= MaxBlocks /\ BlocksOf(total) <= MaxBlocks
  /\ pc \in {"read", "pad"} =>
       /\ padded <= Len(buf) /\ total <= Len(buf)
       /\ edits = 0 => total <= padded
  /\ pc = "read" /\ edits = 0 => Len(file[filename]) <= padded
  /\ pc = "pad" => source = SubSeq(buf, 1, total)

\* What the cipher is applied to: what was read, with padding to encrypt it.
Base == IF mode = "encrypt" THEN Pad(source) ELSE source

\* The main thread has transformed block i, or a worker to which it was given.
Transformed(i) == i < index /\ (i \in Pool!Elements(accepted) => runs[i] = 1)

\* Every block is transformed once: what is not yet transformed is as it was read,
\* what is transformed is the image of what was read.
BlocksInv ==
  pc \in Processing =>
    /\ num_blocks * BlockSize <= Len(buf)
    /\ Aligned =>
         /\ Len(Base) = num_blocks * BlockSize
         /\ \A i \in 1 .. num_blocks :
              BlockAt(buf, i) = IF Transformed(i) THEN Cipher(mode)[BlockAt(Base, i)]
                                ELSE BlockAt(Base, i)

\* Where the main thread is and what it has done with the pool.
SubmitInv ==
  /\ \A i \in Pool!Elements(accepted) : i < index
  /\ pc \in {"open", "read", "pad", "pool"} =>
       phase \in {"new", "unwinding"} /\ index = 1 /\ ~parallel
  /\ pc = "submit" =>
       /\ index <= num_blocks + 1
       /\ IF parallel THEN phase = "open" ELSE accepted = <<>>
  /\ pc \in {"wait", "destroy", "write", "store"} => index = num_blocks + 1
  /\ pc = "wait" => phase = "waiting"
  /\ pc = "destroy" => phase \in {"open", "closing"}
  /\ pc \in {"write", "store"} => Pool!AllRun

IInv ==
  /\ Types /\ ReadInv /\ BlocksInv /\ SubmitInv /\ PoolFacts!PoolInv
  /\ OutputIsTheImage /\ CrashHasACause

-----------------------------------------------------------------------------
(* The pool. *)

\* The operators of the pool, as the call and as the facts about it name them.
LEMMA SamePool ==
  /\ \A s : Pool!Elements(s) = PoolFacts!Elements(s)
  /\ Pool!AllRun <=> PoolFacts!AllRun
  /\ Pool!InProgress = PoolFacts!InProgress
  /\ \A S : Pool!Cardinality(S) = PoolFacts!Cardinality(S)
BY DEF Pool!Cardinality, PoolFacts!Cardinality, Pool!Elements, PoolFacts!Elements, Pool!AllRun, PoolFacts!AllRun,
       Pool!InProgress, PoolFacts!InProgress

\* What a step of the call does to the pool is a step of the pool.
LEMMA PoolStep ==
  ASSUME PoolFacts!PoolInv, [Pool!Next]_poolVars
  PROVE  PoolFacts!PoolInv'
<1>1. [PoolFacts!Next]_(PoolFacts!poolVars)
  BY SamePool
  DEF poolVars, PoolFacts!poolVars, Pool!Next, PoolFacts!Next,
      Pool!Moves, PoolFacts!Moves, Pool!Open, PoolFacts!Open,
      Pool!OpenFails, PoolFacts!OpenFails, Pool!OpenUnwind, PoolFacts!OpenUnwind,
      Pool!Unwound, PoolFacts!Unwound, Pool!Abort, PoolFacts!Abort,
      Pool!Accept, PoolFacts!Accept, Pool!Refuse, PoolFacts!Refuse,
      Pool!Start, PoolFacts!Start, Pool!Run, PoolFacts!Run,
      Pool!Wait, PoolFacts!Wait, Pool!WaitReturns, PoolFacts!WaitReturns,
      Pool!Close, PoolFacts!Close, Pool!CloseReturns, PoolFacts!CloseReturns
<1> QED BY <1>1, PoolFacts!NextPool

\* Accepted jobs are numbers of blocks, and each has run once or not at all.
LEMMA PoolTypes ==
  ASSUME PoolFacts!PoolInv
  PROVE  /\ accepted \in Seq(1 .. MaxBlocks)
         /\ Pool!Elements(accepted) \subseteq 1 .. MaxBlocks
         /\ runs \in [1 .. MaxBlocks -> {0, 1}]
         /\ Pool!InProgress \subseteq Pool!Elements(accepted)
<1>1. accepted \in Seq(1 .. MaxBlocks) /\ runs \in [1 .. MaxBlocks -> {0, 1}]
  BY DEF PoolFacts!PoolInv, PoolFacts!PoolTypes
<1>2. Pool!Elements(accepted) \subseteq 1 .. MaxBlocks
  BY <1>1, FileAssumption DEF Pool!Elements
<1>3. PoolFacts!Elements(started) \subseteq PoolFacts!Elements(accepted)
  BY PoolFacts!StartedWasAccepted
<1>4. Pool!InProgress \subseteq Pool!Elements(accepted)
  BY <1>3, SamePool DEF PoolFacts!InProgress
<1> QED BY <1>1, <1>2, <1>4

-----------------------------------------------------------------------------
(* Reading. *)

\* The files that may be read, and what they are padded to, fit MaxBlocks blocks.
LEMMA ContentBounds ==
  ASSUME NEW c \in Contents \union Rewrites
  PROVE  /\ c \in Seq(Byte) /\ Len(c) \in Nat
         /\ BlocksOf(Len(c)) <= MaxBlocks
         /\ Len(c) + PadLen(Len(c)) \in Nat
         /\ BlocksOf(Len(c) + PadLen(Len(c))) <= MaxBlocks
         /\ \E n \in Nat : Len(c) + PadLen(Len(c)) = n * BlockSize
<1>1. c \in Seq(Byte) /\ Len(c) \in Nat /\ BlocksOf(Len(Pad(c))) <= MaxBlocks
  BY FileAssumption
<1>2. PadLen(Len(c)) \in Nat /\ Len(Pad(c)) = Len(c) + PadLen(Len(c))
  BY <1>1, PadLenRange, PadBytes
<1>3. BlocksOf(Len(c)) <= BlocksOf(Len(Pad(c)))
  <2>1. Len(c) <= Len(Pad(c)) /\ Len(Pad(c)) \in Nat
    BY <1>1, <1>2
  <2> QED BY <1>1, <2>1, BlocksOfMonotonic
<1>4. BlocksOf(Len(c)) \in Nat /\ BlocksOf(Len(Pad(c))) \in Nat /\ MaxBlocks \in Nat
  BY <1>1, <1>2, BlocksCover, FileAssumption
<1>5. \E n \in Nat : Len(Pad(c)) = n * BlockSize
  BY <1>1, PadIsAligned
<1> QED BY <1>1, <1>2, <1>3, <1>4, <1>5

\* open, fstat and calloc.
LEMMA OpenInputStep ==
  ASSUME IInv, OpenInput
  PROVE  IInv'
<1>1. /\ pc = "open" /\ pc' = "read" /\ padded' = PaddedSize(Len(file[filename]))
      /\ buf' = [k \in 1 .. padded' |-> 0]
      /\ UNCHANGED <<mode, filename, file, edits, total, source, index, parallel>>
      /\ UNCHANGED poolVars
  BY DEF OpenInput, Goto, callVars, fileVars
<1> DEFINE c == file[filename]
<1>2. c \in Contents \union Rewrites /\ total = 0 /\ edits = 0
  BY <1>1 DEF IInv, ReadInv
<1>3. /\ c \in Seq(Byte) /\ Len(c) \in Nat /\ padded' \in Nat /\ Len(c) <= padded'
      /\ BlocksOf(padded') <= MaxBlocks
      /\ mode = "encrypt" => \E n \in Nat : padded' = n * BlockSize
  <2>1. c \in Seq(Byte) /\ Len(c) \in Nat
    BY <1>2, ContentBounds
  <2>2. PadLen(Len(c)) \in Nat
    BY <2>1, PadLenRange
  <2>3. padded' = IF mode = "encrypt" THEN Len(c) + PadLen(Len(c)) ELSE Len(c)
    BY <1>1 DEF PaddedSize
  <2> HIDE DEF c
  <2> QED BY <1>2, <2>1, <2>2, <2>3, ContentBounds
<1>4. buf' \in Seq(Byte) /\ Len(buf') = padded'
  <2>1. buf' \in [1 .. padded' -> Byte]
    BY <1>1, BlockSizeAssumption DEF Byte
  <2> QED BY <1>1, <1>3, <2>1
<1>5. Types'
  BY <1>1, <1>3, <1>4 DEF IInv, Types, Labels
<1>6. ReadInv'
  BY <1>1, <1>2, <1>3, <1>4 DEF IInv, Types, ReadInv
<1>7. SubmitInv' /\ BlocksInv'
  BY <1>1 DEF IInv, SubmitInv, BlocksInv, Processing, poolVars, Pool!Elements, Pool!AllRun
<1>8. PoolFacts!PoolInv'
  BY <1>1, PoolStep DEF IInv
<1>9. OutputIsTheImage' /\ CrashHasACause'
  BY <1>1 DEF OutputIsTheImage, CrashHasACause
<1> QED BY <1>5, <1>6, <1>7, <1>8, <1>9 DEF IInv

\* A piece put into a sequence, over its end if need be.
LEMMA PutPiece ==
  ASSUME NEW s \in Seq(Byte), NEW n \in 0 .. Len(s), NEW piece \in Seq(Byte),
         NEW t, t = SubSeq(s, 1, n) \o piece \o SubSeq(s, n + Len(piece) + 1, Len(s))
  PROVE  t \in Seq(Byte) /\ n + Len(piece) <= Len(t) /\ Len(s) <= Len(t)
<1> DEFINE a == SubSeq(s, 1, n)
           m == n + Len(piece)
           z == SubSeq(s, m + 1, Len(s))
<1>1. Len(s) \in Nat /\ n \in Nat /\ m \in Nat /\ \A k \in 1 .. Len(s) : s[k] \in Byte
  OBVIOUS
<1>2. a \in Seq(Byte) /\ Len(a) = n
  BY <1>1, SubSeqProperties
<1>3. a \o piece \in Seq(Byte) /\ Len(a \o piece) = m
  BY <1>2, ConcatProperties
<1>4. t = (a \o piece) \o z
  OBVIOUS
<1> HIDE DEF a, m
<1>5. z \in Seq(Byte) /\ Len(z) = IF m + 1 <= Len(s) THEN Len(s) - (m + 1) + 1 ELSE 0
  <2>1. m + 1 \in Int /\ Len(s) \in Int /\ \A k \in m + 1 .. Len(s) : s[k] \in Byte
    BY <1>1
  <2> QED BY <2>1, SubSeqProperties
<1> HIDE DEF z
<1>6. Len(z) \in Nat /\ Len(s) <= m + Len(z)
  BY <1>1, <1>5
<1>7. t \in Seq(Byte) /\ Len(t) = m + Len(z)
  BY <1>3, <1>4, <1>5, ConcatProperties
<1>8. \A len : len = m + Len(z) => m <= len /\ Len(s) <= len
  BY <1>1, <1>6
<1> QED BY <1>7, <1>8 DEF m

\* One read stores at least a byte, and no more than the file has.
LEMMA ReadPieceStep ==
  ASSUME IInv, ReadPiece
  PROVE  IInv'
<1>1. /\ pc = "read" /\ total < Len(file[filename])
      /\ buf' = SubSeq(buf, 1, total) \o Piece \o SubSeq(buf, total + Len(Piece) + 1, Len(buf))
      /\ total' = total + Len(Piece)
      /\ pc' = pc \/ (total' > padded /\ pc' = "crashed")
      /\ UNCHANGED <<mode, filename, file, edits, padded, source, index, parallel>>
      /\ UNCHANGED poolVars
  <2>1. total >= Len(file[filename]) \/ total < Len(file[filename])
    BY ContentBounds DEF IInv, Types, ReadInv, ReadPiece
  <2> QED BY <2>1 DEF ReadPiece, EndOfFile, Goto, callVars, fileVars
<1> DEFINE c == file[filename]
<1>2. c \in Contents \union Rewrites /\ c \in Seq(Byte) /\ Len(c) \in Nat /\ BlocksOf(Len(c)) <= MaxBlocks
  BY <1>1, ContentBounds DEF IInv, ReadInv
<1>3. Piece \in Seq(Byte) /\ total' \in Nat /\ total' <= Len(c)
  <2> DEFINE n == Smaller(total + ReadSize, Len(c))
  <2>1. total \in Nat /\ total + 1 \in Int /\ ReadSize \in Nat \ {0}
    BY FileAssumption DEF IInv, Types
  <2>2. n \in Nat /\ total + 1 <= n /\ n <= Len(c)
    BY <1>1, <1>2, <2>1 DEF Smaller
  <2>3. Piece = SubSeq(c, total + 1, n)
    BY DEF Piece
  <2> HIDE DEF c, n
  <2>4. \A k \in total + 1 .. n : c[k] \in Byte
    BY <1>2, <2>1, <2>2
  <2>5. Piece \in Seq(Byte) /\ Len(Piece) = n - (total + 1) + 1
    BY <2>1, <2>2, <2>3, <2>4, SubSeqProperties
  <2> QED BY <1>1, <2>1, <2>2, <2>5
<1>4. buf' \in Seq(Byte) /\ total' <= Len(buf') /\ padded <= Len(buf')
  <2>1. /\ buf \in Seq(Byte) /\ total \in 0 .. Len(buf) /\ padded <= Len(buf)
        /\ Len(buf) \in Nat /\ padded \in Nat
    BY <1>1 DEF IInv, Types, ReadInv
  <2>2. /\ buf' \in Seq(Byte) /\ total + Len(Piece) <= Len(buf') /\ Len(buf) <= Len(buf')
    BY <1>1, <1>3, <2>1, PutPiece
  <2>3. Len(buf') \in Nat /\ total' = total + Len(Piece)
    BY <1>1, <2>2
  <2> QED BY <2>1, <2>2, <2>3
<1>5. BlocksOf(total') <= MaxBlocks
  <2>1. BlocksOf(total') <= BlocksOf(Len(c))
    BY <1>2, <1>3, BlocksOfMonotonic
  <2>2. BlocksOf(total') \in Nat /\ BlocksOf(Len(c)) \in Nat /\ MaxBlocks \in Nat
    BY <1>2, <1>3, BlocksCover, FileAssumption
  <2> QED BY <1>2, <2>1, <2>2
<1>6. Types'
  BY <1>1, <1>3, <1>4 DEF IInv, Types, Labels, Ended
<1>7. edits = 0 => total' <= padded
  BY <1>1, <1>2, <1>3 DEF IInv, Types, ReadInv
<1> HIDE DEF c
<1>8. ReadInv'
  BY <1>1, <1>4, <1>5, <1>7 DEF IInv, ReadInv
<1>9. SubmitInv' /\ BlocksInv'
  BY <1>1 DEF IInv, SubmitInv, BlocksInv, Processing, poolVars, Pool!Elements, Pool!AllRun
<1>10. PoolFacts!PoolInv'
  BY <1>1, PoolStep DEF IInv
<1>11. OutputIsTheImage' /\ CrashHasACause'
  <2>1. pc' = "crashed" => edits' > 0
    BY <1>1, <1>3, <1>7 DEF IInv, Types
  <2> QED BY <1>1, <2>1 DEF OutputIsTheImage, CrashHasACause
<1> QED BY <1>6, <1>8, <1>9, <1>10, <1>11 DEF IInv

\* read returns 0.
LEMMA ReadEndsStep ==
  ASSUME IInv, ReadEnds
  PROVE  IInv'
<1>1. /\ pc = "read" /\ pc' = "pad" /\ source' = SubSeq(buf, 1, total)
      /\ UNCHANGED <<mode, filename, file, edits, padded, total, buf, index, parallel>>
      /\ UNCHANGED poolVars
  BY DEF ReadEnds, Goto, callVars, fileVars
<1>2. source' \in Seq(Byte)
  <2>1. buf \in Seq(Byte) /\ total \in 0 .. Len(buf)
    BY <1>1 DEF IInv, Types, ReadInv
  <2> QED BY <1>1, <2>1
<1>3. Types'
  BY <1>1, <1>2 DEF IInv, Types, Labels
<1>4. ReadInv'
  BY <1>1 DEF IInv, ReadInv
<1>5. SubmitInv' /\ BlocksInv'
  BY <1>1 DEF IInv, SubmitInv, BlocksInv, Processing, poolVars, Pool!Elements, Pool!AllRun
<1>6. PoolFacts!PoolInv'
  BY <1>1, PoolStep DEF IInv
<1>7. OutputIsTheImage' /\ CrashHasACause'
  BY <1>1 DEF OutputIsTheImage, CrashHasACause
<1> QED BY <1>3, <1>4, <1>5, <1>6, <1>7 DEF IInv

\* Another process changes the input.
LEMMA EditStep ==
  ASSUME IInv, Edit
  PROVE  IInv'
<1>1. PICK c \in Rewrites : file' = [file EXCEPT ![filename] = c]
  BY DEF Edit
<1>2. /\ pc = "read" /\ edits' = edits + 1
      /\ UNCHANGED <<pc, mode, filename, padded, total, source, buf, index, parallel>>
      /\ UNCHANGED poolVars
  BY DEF Edit, callVars, readVars
<1>3. filename' \in DOMAIN file' /\ file'[filename'] = c /\ edits' > 0 /\ edits' \in Nat
  BY <1>1, <1>2 DEF IInv, Types
<1>4. Types'
  BY <1>2, <1>3 DEF IInv, Types
<1>5. ReadInv'
  BY <1>2, <1>3 DEF IInv, ReadInv
<1>6. SubmitInv' /\ BlocksInv'
  BY <1>2 DEF IInv, SubmitInv, BlocksInv, Processing, poolVars, Pool!Elements, Pool!AllRun
<1>7. PoolFacts!PoolInv'
  BY <1>2, PoolStep DEF IInv
<1>8. OutputIsTheImage' /\ CrashHasACause'
  BY <1>2 DEF OutputIsTheImage, CrashHasACause
<1> QED BY <1>4, <1>5, <1>6, <1>7, <1>8 DEF IInv

-----------------------------------------------------------------------------
(* Padding. *)

\* What is encrypted is what was read, padded, however the input has changed.
LEMMA AppendPaddingStep ==
  ASSUME IInv, AppendPadding
  PROVE  IInv'
<1>1. /\ pc = "pad" /\ mode = "encrypt" /\ PaddingFits
      /\ buf' = SubSeq(buf, 1, total) \o Padding(padded - total)
      /\ total' = padded /\ pc' = "pool"
      /\ UNCHANGED <<mode, filename, file, edits, padded, source, index, parallel>>
      /\ UNCHANGED poolVars
  BY DEF AppendPadding, Goto, callVars, fileVars
<1>2. /\ total \in Nat /\ padded \in Nat /\ buf \in Seq(Byte) /\ source \in Seq(Byte)
      /\ source = SubSeq(buf, 1, total) /\ total <= Len(buf)
      /\ padded - total \in 1 .. BlockSize
      /\ index = 1
  BY <1>1 DEF IInv, Types, ReadInv, SubmitInv, PaddingFits
<1>3. PICK n \in Nat : padded = n * BlockSize
  BY <1>1 DEF IInv, ReadInv
<1>4. Len(source) = total
  BY <1>2
<1>5. padded - total = PadLen(total)
  BY <1>2, <1>3, PaddingOf
<1>6. buf' = Pad(source)
  BY <1>1, <1>2, <1>4, <1>5 DEF Pad
<1>7. buf' \in Seq(Byte) /\ Len(buf') = padded
  <2>1. Len(Pad(source)) = total + PadLen(total) /\ Pad(source) \in Seq(Byte)
    BY <1>2, <1>4, PadBytes
  <2>2. total + PadLen(total) = padded
    BY <1>2, <1>5
  <2> QED BY <1>6, <2>1, <2>2
<1>8. BlocksOf(padded) = n
  BY <1>3, BlocksOfMultiple
<1>9. Types'
  BY <1>1, <1>2, <1>7 DEF IInv, Types, Labels
<1>10. ReadInv'
  BY <1>1 DEF IInv, ReadInv
<1>11. BlocksInv'
  <2>1. Base' = buf' /\ num_blocks' = n
    BY <1>1, <1>6, <1>8 DEF Base, num_blocks
  <2>2. \A i \in 1 .. n : ~Transformed(i)'
    BY <1>1, <1>2 DEF Transformed
  <2> QED BY <1>3, <1>7, <2>1, <2>2 DEF BlocksInv
<1>12. SubmitInv'
  BY <1>1 DEF IInv, SubmitInv, poolVars, Pool!Elements
<1>13. PoolFacts!PoolInv'
  BY <1>1, PoolStep DEF IInv
<1>14. OutputIsTheImage' /\ CrashHasACause'
  BY <1>1 DEF OutputIsTheImage, CrashHasACause
<1> QED BY <1>9, <1>10, <1>11, <1>12, <1>13, <1>14 DEF IInv

\* What is decrypted is what was read; only a file that is no sequence of blocks
\* reaches beyond the buffer.
LEMMA NoPaddingStep ==
  ASSUME IInv, NoPadding
  PROVE  IInv'
<1> DEFINE size == num_blocks * BlockSize
<1>1. /\ pc = "pad" /\ mode = "decrypt"
      /\ UNCHANGED <<mode, filename, file, edits, padded, total, source, index, parallel>>
      /\ UNCHANGED poolVars
      /\ \/ size <= Len(buf) /\ buf' = buf /\ pc' = "pool"
         \/ /\ ~ size <= Len(buf) /\ pc' \in {"pool", "crashed"}
            /\ \E rest \in Beyond : buf' = buf \o rest
  BY DEF NoPadding, Goto, callVars, fileVars, readVars
<1>2. /\ total \in Nat /\ buf \in Seq(Byte) /\ source \in Seq(Byte)
      /\ source = SubSeq(buf, 1, total) /\ total <= Len(buf) /\ Len(buf) \in Nat
      /\ index = 1
  BY <1>1 DEF IInv, Types, ReadInv, SubmitInv
<1>3. Len(source) = total /\ \A k \in 1 .. total : source[k] = buf[k]
  BY <1>2
<1>4. num_blocks \in Nat /\ total <= size /\ size \in Nat
  <2>1. num_blocks \in Nat /\ total <= size
    BY <1>2, BlocksCover DEF num_blocks
  <2> QED BY <2>1, BlockSizeAssumption
<1>5. total % BlockSize = 0 => size = total
  BY <1>2, AlignedSize DEF num_blocks
<1> HIDE DEF size
<1>6. buf' \in Seq(Byte) /\ size <= Len(buf')
  <2>1. CASE size <= Len(buf)
    BY <1>1, <1>2, <2>1
  <2>2. ASSUME NEW rest \in Beyond, buf' = buf \o rest, ~ size <= Len(buf)
        PROVE  buf' \in Seq(Byte) /\ size <= Len(buf')
    <3>1. size - Len(buf) \in Nat
      BY <1>2, <1>4, <2>2
    <3>2. rest \in [1 .. size - Len(buf) -> Byte]
      BY DEF Beyond, size
    <3>3. rest \in Seq(Byte) /\ Len(rest) = size - Len(buf)
      BY <3>1, <3>2
    <3>4. buf \o rest \in Seq(Byte) /\ Len(buf \o rest) = Len(buf) + Len(rest)
      BY <1>2, <3>3, ConcatProperties
    <3> QED BY <1>2, <1>4, <2>2, <3>3, <3>4
  <2> QED BY <1>1, <2>1, <2>2
<1>7. pc' = "crashed" => total % BlockSize # 0
  BY <1>1, <1>2, <1>5
<1>8. Types'
  BY <1>1, <1>6 DEF IInv, Types, Labels, Ended
<1>9. ReadInv'
  BY <1>1 DEF IInv, ReadInv
<1>10. BlocksInv'
  <2>1. num_blocks' = num_blocks
    BY <1>1 DEF num_blocks
  <2>2. ASSUME pc' = "pool", Aligned'
        PROVE  /\ Len(Base') = size
               /\ \A i \in 1 .. num_blocks : BlockAt(buf', i) = BlockAt(Base', i)
    <3>1. total % BlockSize = 0 /\ Base' = source
      BY <1>1, <1>3, <2>2 DEF Aligned, Base
    <3>2. size = total /\ buf' = buf
      BY <1>1, <1>2, <1>5, <3>1
    <3>3. \A i \in 1 .. num_blocks, o \in 1 .. BlockSize : (i - 1) * BlockSize + o \in 1 .. total
      BY <1>2, <1>4, <3>2, BytesOfBlocks DEF size
    <3>4. \A i \in 1 .. num_blocks : BlockAt(buf, i) = BlockAt(source, i)
      BY <1>3, <3>3 DEF BlockAt
    <3> QED BY <1>3, <3>1, <3>2, <3>4
  <2>3. \A i \in 1 .. num_blocks : ~Transformed(i)'
    BY <1>1, <1>2, <1>4 DEF Transformed
  <2> QED BY <1>1, <1>6, <2>1, <2>2, <2>3 DEF BlocksInv, Processing, size
<1>11. SubmitInv'
  BY <1>1 DEF IInv, SubmitInv, poolVars, Pool!Elements
<1>12. PoolFacts!PoolInv'
  BY <1>1, PoolStep DEF IInv
<1>13. OutputIsTheImage' /\ CrashHasACause'
  BY <1>1, <1>7 DEF OutputIsTheImage, CrashHasACause
<1> QED BY <1>8, <1>9, <1>10, <1>11, <1>12, <1>13 DEF IInv

-----------------------------------------------------------------------------
(* The blocks. *)

\* The image of a block is computed once, by the thread that was given the block,
\* and the other blocks stay as they are.
LEMMA OneMoreBlock ==
  ASSUME IInv, pc \in Processing, pc' \in Processing,
         UNCHANGED <<mode, source, total>>,
         NEW i \in 1 .. num_blocks, ~Transformed(i),
         buf' = CryptBlock(mode, buf, i),
         \A j \in 1 .. num_blocks : Transformed(j)' <=> Transformed(j) \/ j = i
  PROVE  BlocksInv' /\ buf' \in Seq(Byte)
<1>1. /\ mode \in Modes /\ buf \in Seq(Byte) /\ num_blocks \in Nat
      /\ num_blocks * BlockSize <= Len(buf)
  BY BlocksCover DEF IInv, Types, BlocksInv, num_blocks
<1>2. /\ buf' \in Seq(Byte) /\ Len(buf') = Len(buf)
      /\ \A j \in 1 .. num_blocks : BlockAt(buf', j) =
           IF j = i THEN Cipher(mode)[BlockAt(buf, i)] ELSE BlockAt(buf, j)
  BY <1>1, CryptOneBlock
<1>3. num_blocks' = num_blocks /\ (Aligned' <=> Aligned) /\ Base' = Base
  BY DEF num_blocks, Aligned, Base
<1>4. ASSUME Aligned, NEW j \in 1 .. num_blocks
      PROVE  BlockAt(buf', j) = IF Transformed(j)' THEN Cipher(mode)[BlockAt(Base, j)]
                                ELSE BlockAt(Base, j)
  <2>1. BlockAt(buf, j) = IF Transformed(j) THEN Cipher(mode)[BlockAt(Base, j)]
                          ELSE BlockAt(Base, j)
    BY <1>4 DEF IInv, BlocksInv
  <2> QED BY <1>2, <2>1
<1> QED BY <1>1, <1>2, <1>3, <1>4 DEF IInv, BlocksInv

\* A step that transforms no block.
LEMMA SameBuffer ==
  ASSUME IInv, pc \in Processing, UNCHANGED <<mode, source, total, buf>>,
         \A j \in 1 .. num_blocks : Transformed(j)' <=> Transformed(j)
  PROVE  BlocksInv'
<1>1. num_blocks' = num_blocks /\ (Aligned' <=> Aligned) /\ Base' = Base
  BY DEF num_blocks, Aligned, Base
<1> QED BY <1>1 DEF IInv, BlocksInv

\* The pool is made, or cannot be made.
LEMMA MakePoolStep ==
  ASSUME IInv, MakePool
  PROVE  IInv'
<1>1. /\ pc = "pool" /\ pc' \in {"pool", "submit", "crashed"}
      /\ UNCHANGED <<mode, filename, file, edits, padded, total, source, buf, index>>
      /\ UNCHANGED <<accepted, refused, started, runs>>
      /\ [Pool!Next]_poolVars
      /\ parallel' \in BOOLEAN
  BY DEF MakePool, Goto, callVars, fileVars, readVars, IInv, Types, poolVars, Pool!Next, Pool!Moves,
         Pool!Open, Pool!OpenFails, Pool!OpenUnwind, Pool!Unwound, Pool!Abort
<1>2. /\ pc' = "pool" => phase' \in {"new", "unwinding"} /\ ~parallel'
      /\ pc' = "submit" => (parallel' => phase' = "open")
      /\ pc' = "crashed" => phase' = "aborted"
  BY DEF MakePool, Goto, IInv, SubmitInv, poolVars, Pool!Moves,
         Pool!Open, Pool!OpenFails, Pool!OpenUnwind, Pool!Unwound, Pool!Abort
<1>3. index = 1 /\ num_blocks \in Nat /\ accepted = <<>>
  <2>1. num_blocks \in Nat
    BY BlocksCover DEF IInv, Types, num_blocks
  <2> QED BY <1>1, <2>1 DEF IInv, SubmitInv, PoolFacts!PoolInv, PoolFacts!PhaseInv
<1>4. Types'
  BY <1>1 DEF IInv, Types, Labels, Ended
<1>5. ReadInv'
  BY <1>1 DEF IInv, ReadInv
<1>6. BlocksInv'
  BY <1>1, SameBuffer DEF Transformed, Processing, Pool!Elements
<1>7. SubmitInv'
  <2>1. num_blocks' = num_blocks
    BY <1>1 DEF num_blocks
  <2> QED BY <1>1, <1>2, <1>3, <2>1 DEF IInv, SubmitInv, Pool!Elements
<1>8. PoolFacts!PoolInv'
  BY <1>1, PoolStep DEF IInv
<1>9. OutputIsTheImage' /\ CrashHasACause'
  BY <1>1, <1>2 DEF OutputIsTheImage, CrashHasACause
<1> QED BY <1>4, <1>5, <1>6, <1>7, <1>8, <1>9 DEF IInv

\* The main thread transforms the next block itself.
LEMMA CryptImmediatelyStep ==
  ASSUME IInv, CryptImmediately
  PROVE  IInv'
<1>1. /\ pc = "submit" /\ index <= num_blocks /\ index' = index + 1
      /\ buf' = CryptBlock(mode, buf, index)
      /\ UNCHANGED <<pc, mode, filename, file, edits, padded, total, source, parallel>>
      /\ UNCHANGED <<phase, accepted, started, runs>>
      /\ UNCHANGED poolVars \/ Pool!Refuse(index)
  BY DEF CryptImmediately, callVars, fileVars, readVars, poolVars, Pool!Refuse
<1>2. /\ index \in Nat \ {0} /\ num_blocks \in Nat /\ num_blocks' = num_blocks
      /\ num_blocks <= MaxBlocks /\ MaxBlocks \in Nat
      /\ \A i \in Pool!Elements(accepted) : i < index
  BY <1>1, BlocksCover, FileAssumption DEF IInv, Types, ReadInv, SubmitInv, num_blocks
<1>3. index \in 1 .. num_blocks /\ index \in 1 .. MaxBlocks
  BY <1>1, <1>2
<1>4. Pool!Elements(accepted)' = Pool!Elements(accepted)
  BY <1>1 DEF Pool!Elements
<1>5. ~Transformed(index)
  BY <1>2 DEF Transformed
<1>6. \A j \in 1 .. num_blocks : Transformed(j)' <=> Transformed(j) \/ j = index
  BY <1>1, <1>2, <1>4 DEF Transformed
<1>7. BlocksInv' /\ buf' \in Seq(Byte)
  BY <1>1, <1>3, <1>5, <1>6, OneMoreBlock DEF Processing
<1>8. Types'
  BY <1>1, <1>2, <1>7 DEF IInv, Types
<1>9. ReadInv'
  BY <1>1 DEF IInv, ReadInv
<1>10. SubmitInv'
  <2>1. Pool!Elements(accepted) \subseteq 1 .. MaxBlocks
    BY PoolTypes DEF IInv
  <2>2. \A i \in Pool!Elements(accepted)' : i < index'
    BY <1>1, <1>2, <1>4, <2>1
  <2> QED BY <1>1, <1>2, <2>2 DEF IInv, SubmitInv
<1>11. PoolFacts!PoolInv'
  <2>1. [Pool!Next]_poolVars
    BY <1>1, <1>3 DEF Pool!Next
  <2> QED BY <2>1, PoolStep DEF IInv
<1>12. OutputIsTheImage' /\ CrashHasACause'
  BY <1>1 DEF OutputIsTheImage, CrashHasACause
<1> QED BY <1>7, <1>8, <1>9, <1>10, <1>11, <1>12 DEF IInv

\* The pool takes the next block.
LEMMA SubmitBlockStep ==
  ASSUME IInv, SubmitBlock
  PROVE  IInv'
<1>1. /\ pc = "submit" /\ index <= num_blocks /\ index' = index + 1 /\ parallel
      /\ Pool!Accept(index)
      /\ UNCHANGED <<pc, mode, filename, file, edits, padded, total, source, buf, parallel>>
  BY DEF SubmitBlock, callVars, fileVars, readVars
<1>2. /\ index \in Nat \ {0} /\ num_blocks \in Nat /\ num_blocks' = num_blocks
      /\ num_blocks <= MaxBlocks /\ MaxBlocks \in Nat
      /\ \A i \in Pool!Elements(accepted) : i < index
  BY <1>1, BlocksCover, FileAssumption DEF IInv, Types, ReadInv, SubmitInv, num_blocks
<1>3. index \in 1 .. MaxBlocks
  BY <1>1, <1>2
<1>4. UNCHANGED <<phase, refused, started, runs>> /\ accepted' = Append(accepted, index)
  BY <1>1 DEF Pool!Accept
<1>5. Pool!Elements(accepted)' = Pool!Elements(accepted) \union {index}
  BY <1>3, <1>4, PoolTypes, PoolFacts!ElementsAppend, SamePool DEF IInv
<1>6. runs[index] = 0
  <2>1. index \notin PoolFacts!Elements(started)
    BY <1>2, PoolFacts!StartedWasAccepted, SamePool DEF IInv
  <2>2. runs[index] # 1
    BY <1>3, <2>1 DEF IInv, PoolFacts!PoolInv, PoolFacts!RunWasStarted
  <2> QED BY <1>3, <2>2, PoolTypes DEF IInv
<1>7. \A j \in 1 .. num_blocks : Transformed(j)' <=> Transformed(j)
  BY <1>1, <1>2, <1>4, <1>5, <1>6 DEF Transformed
<1>8. Types'
  BY <1>1, <1>2 DEF IInv, Types
<1>9. ReadInv'
  BY <1>1 DEF IInv, ReadInv
<1>10. BlocksInv'
  BY <1>1, <1>7, SameBuffer DEF Processing
<1>11. SubmitInv'
  <2>1. Pool!Elements(accepted) \subseteq 1 .. MaxBlocks
    BY PoolTypes DEF IInv
  <2>2. \A i \in Pool!Elements(accepted)' : i < index'
    BY <1>1, <1>2, <1>5, <2>1
  <2> QED BY <1>1, <1>2, <1>4, <2>2 DEF IInv, SubmitInv
<1>12. PoolFacts!PoolInv'
  <2>1. [Pool!Next]_poolVars
    BY <1>1, <1>3 DEF Pool!Next
  <2> QED BY <2>1, PoolStep DEF IInv
<1>13. OutputIsTheImage' /\ CrashHasACause'
  BY <1>1 DEF OutputIsTheImage, CrashHasACause
<1> QED BY <1>8, <1>9, <1>10, <1>11, <1>12, <1>13 DEF IInv

\* A worker takes a block from the queue.
LEMMA StartBlockStep ==
  ASSUME IInv, StartBlock
  PROVE  IInv'
<1>1. /\ pc \notin Ended /\ Pool!Start
      /\ UNCHANGED <<pc, mode, filename, file, edits, padded, total, source, buf, index, parallel>>
  BY DEF StartBlock, callVars, fileVars, readVars
<1>2. UNCHANGED <<phase, accepted, refused, runs>>
  BY <1>1 DEF Pool!Start
<1>3. Types' /\ ReadInv'
  BY <1>1 DEF IInv, Types, ReadInv
<1>4. BlocksInv'
  <2>1. CASE pc \in Processing
    BY <1>1, <1>2, <2>1, SameBuffer DEF Transformed, Pool!Elements
  <2>2. CASE pc \notin Processing
    BY <1>1, <2>2 DEF BlocksInv
  <2> QED BY <2>1, <2>2
<1>5. SubmitInv'
  <2>1. num_blocks' = num_blocks
    BY <1>1 DEF num_blocks
  <2> QED BY <1>1, <1>2, <2>1 DEF IInv, SubmitInv, Pool!Elements, Pool!AllRun
<1>6. PoolFacts!PoolInv'
  <2>1. [Pool!Next]_poolVars
    BY <1>1 DEF Pool!Next
  <2> QED BY <2>1, PoolStep DEF IInv
<1>7. OutputIsTheImage' /\ CrashHasACause'
  BY <1>1 DEF OutputIsTheImage, CrashHasACause, Ended
<1> QED BY <1>3, <1>4, <1>5, <1>6, <1>7 DEF IInv

\* A job is only in progress while the main thread may still wait for it.
LEMMA WorkingPhases ==
  ASSUME IInv, pc \notin Ended, NEW i \in Pool!InProgress
  PROVE  /\ pc \in {"submit", "wait", "destroy"}
         /\ i \in Pool!Elements(accepted) /\ i \in 1 .. num_blocks /\ runs[i] = 0
<1>1. i \in Pool!Elements(accepted) /\ i \in 1 .. MaxBlocks /\ runs[i] = 0
  BY PoolTypes DEF IInv, Pool!InProgress
<1>2. ~Pool!AllRun /\ accepted # <<>>
  BY <1>1 DEF Pool!AllRun, Pool!Elements
<1>3. pc \notin {"write", "store", "open", "read", "pad", "pool"}
  BY <1>2 DEF IInv, SubmitInv, PoolFacts!PoolInv, PoolFacts!PhaseInv
<1>4. pc \in {"submit", "wait", "destroy"}
  BY <1>3 DEF IInv, Types, Labels
<1>5. i < index /\ index <= num_blocks + 1 /\ num_blocks \in Nat /\ index \in Nat
  <2>1. num_blocks \in Nat /\ index \in Nat
    BY BlocksCover DEF IInv, Types, num_blocks
  <2>2. i < index /\ (index <= num_blocks + 1 \/ index = num_blocks + 1)
    BY <1>1, <1>4 DEF IInv, SubmitInv
  <2> QED BY <2>1, <2>2
<1> QED BY <1>1, <1>4, <1>5

\* A worker transforms the block that it was given.
LEMMA RunBlockStep ==
  ASSUME IInv, NEW i \in 1 .. MaxBlocks, RunBlock(i)
  PROVE  IInv'
<1>1. /\ pc \notin Ended /\ Pool!Run(i)
      /\ buf' = CryptBlock(mode, buf, i)
      /\ UNCHANGED <<pc, mode, filename, file, edits, padded, total, source, index, parallel>>
  BY DEF RunBlock, callVars, fileVars, readVars
<1>2. /\ UNCHANGED <<phase, accepted, refused, started>>
      /\ runs' = [runs EXCEPT ![i] = 1] /\ i \in Pool!InProgress
  BY <1>1 DEF Pool!Run
<1>3. /\ pc \in {"submit", "wait", "destroy"}
      /\ i \in Pool!Elements(accepted) /\ i \in 1 .. num_blocks /\ runs[i] = 0
  BY <1>1, <1>2, WorkingPhases
<1>4. /\ Pool!Elements(accepted)' = Pool!Elements(accepted)
      /\ Pool!Elements(accepted) \subseteq 1 .. MaxBlocks /\ runs \in [1 .. MaxBlocks -> {0, 1}]
  BY <1>2, PoolTypes DEF IInv, Pool!Elements
<1>5. ~Transformed(i)
  BY <1>3 DEF Transformed
<1>6. \A j \in 1 .. num_blocks : Transformed(j)' <=> Transformed(j) \/ j = i
  BY <1>1, <1>2, <1>3, <1>4 DEF Transformed, IInv, SubmitInv
<1>7. BlocksInv' /\ buf' \in Seq(Byte)
  BY <1>1, <1>3, <1>5, <1>6, OneMoreBlock DEF Processing
<1>8. Types'
  BY <1>1, <1>7 DEF IInv, Types
<1>9. ReadInv'
  BY <1>1, <1>3 DEF IInv, ReadInv
<1>10. SubmitInv'
  <2>1. num_blocks' = num_blocks
    BY <1>1 DEF num_blocks
  <2> QED BY <1>1, <1>2, <1>3, <1>4, <2>1 DEF IInv, SubmitInv
<1>11. PoolFacts!PoolInv'
  <2>1. [Pool!Next]_poolVars
    BY <1>1 DEF Pool!Next
  <2> QED BY <2>1, PoolStep DEF IInv
<1>12. OutputIsTheImage' /\ CrashHasACause'
  BY <1>1, <1>3 DEF OutputIsTheImage, CrashHasACause
<1> QED BY <1>7, <1>8, <1>9, <1>10, <1>11, <1>12 DEF IInv

\* The end of the submission, threadPoolWait and threadPoolDestroy.
LEMMA OwnerStep ==
  ASSUME IInv, SubmissionEnds \/ WaitReturns \/ DestroyPool
  PROVE  IInv'
<1>1. /\ UNCHANGED <<mode, filename, file, edits, padded, total, source, buf, index, parallel>>
      /\ UNCHANGED <<accepted, refused, started, runs>>
      /\ pc \in {"submit", "wait", "destroy"} /\ pc' \in {"wait", "destroy", "write"}
      /\ [Pool!Next]_poolVars
  BY DEF SubmissionEnds, WaitReturns, DestroyPool, Goto, callVars, fileVars, readVars,
         AfterSubmission, poolVars, Pool!Next,
         Pool!Wait, Pool!WaitReturns, Pool!Close, Pool!CloseReturns, Pool!Moves
<1>2. index' = num_blocks' + 1
  <2>1. /\ index \in Nat /\ num_blocks \in Nat /\ num_blocks' = num_blocks /\ index' = index
    BY <1>1, BlocksCover DEF IInv, Types, num_blocks
  <2>2. pc = "submit" => index > num_blocks /\ index <= num_blocks + 1
    BY DEF SubmissionEnds, WaitReturns, DestroyPool, IInv, SubmitInv
  <2>3. pc \in {"wait", "destroy"} => index = num_blocks + 1
    BY DEF IInv, SubmitInv
  <2> QED BY <1>1, <2>1, <2>2, <2>3
<1>3. /\ pc' = "wait" => phase' = "waiting"
      /\ pc' = "destroy" => phase' \in {"open", "closing"}
      /\ pc' = "write" => Pool!AllRun
  <2>1. CASE SubmissionEnds /\ parallel
    BY <2>1 DEF SubmissionEnds, Goto, AfterSubmission, Pool!Wait, Pool!Moves
  <2>2. CASE SubmissionEnds /\ ~parallel
    BY <2>2 DEF SubmissionEnds, Goto, IInv, SubmitInv, Pool!AllRun, Pool!Elements
  <2>3. CASE WaitReturns
    BY <2>3 DEF WaitReturns, Goto, Pool!WaitReturns, Pool!Moves
  <2>4. CASE DestroyPool
    BY <2>4 DEF DestroyPool, Goto, Pool!Close, Pool!CloseReturns, Pool!Moves
  <2> QED BY <2>1, <2>2, <2>3, <2>4
<1>4. Types'
  BY <1>1 DEF IInv, Types, Labels
<1>5. ReadInv'
  BY <1>1 DEF IInv, ReadInv
<1>6. BlocksInv'
  BY <1>1, SameBuffer DEF Transformed, Processing, Pool!Elements
<1>7. SubmitInv'
  <2>1. \A i \in Pool!Elements(accepted)' : i < index'
    BY <1>1 DEF IInv, SubmitInv, Pool!Elements
  <2>2. Pool!AllRun => Pool!AllRun'
    BY <1>1 DEF Pool!AllRun, Pool!Elements
  <2> QED BY <1>1, <1>2, <1>3, <2>1, <2>2 DEF SubmitInv
<1>8. PoolFacts!PoolInv'
  BY <1>1, PoolStep DEF IInv
<1>9. OutputIsTheImage' /\ CrashHasACause'
  BY <1>1 DEF OutputIsTheImage, CrashHasACause
<1> QED BY <1>4, <1>5, <1>6, <1>7, <1>8, <1>9 DEF IInv

-----------------------------------------------------------------------------
(* Writing. *)

\* When the pool is gone, the buffer holds the image of what was read.
LEMMA ResultIsImage ==
  ASSUME IInv, pc \in {"write", "store"}
  PROVE  /\ Result \in Seq(Byte)
         /\ Aligned => Result = Image
<1> DEFINE n == num_blocks
           size == n * BlockSize
           image == SubSeq(buf, 1, size)
<1>1. /\ n \in Nat /\ size \in Nat /\ size <= Len(buf)
      /\ buf \in Seq(Byte) /\ source \in Seq(Byte) /\ mode \in Modes
  <2>1. /\ total \in Nat /\ buf \in Seq(Byte) /\ source \in Seq(Byte) /\ mode \in Modes
    BY DEF IInv, Types
  <2>2. n \in Nat
    BY <2>1, BlocksCover DEF num_blocks
  <2> HIDE DEF n
  <2>3. size \in Nat
    BY <2>2, BlockSizeAssumption
  <2> USE DEF n
  <2>4. size <= Len(buf)
    BY DEF IInv, BlocksInv, Processing
  <2> QED BY <2>1, <2>2, <2>3, <2>4
<1>2. image \in Seq(Byte) /\ Len(image) = size /\ \A k \in 1 .. size : image[k] = buf[k]
  BY <1>1
<1>3. Result = IF mode = "encrypt" THEN image ELSE Unpad(image)
  BY DEF Result
<1>4. Result \in Seq(Byte)
  BY <1>2, <1>3, UnpadType
<1>5. ASSUME Aligned
      PROVE  image = Crypt(mode, Base)
  <2>1. Base \in Seq(Byte) /\ Len(Base) = size
    BY <1>1, <1>5, PadBytes DEF Base, IInv, BlocksInv, Processing
  <2>2. \A i \in 1 .. n : Transformed(i)
    BY <1>1 DEF Transformed, IInv, SubmitInv, Pool!AllRun
  <2>3. \A i \in 1 .. n : BlockAt(buf, i) = Cipher(mode)[BlockAt(Base, i)]
    BY <1>5, <2>2 DEF IInv, BlocksInv, Processing
  <2>4. \A i \in 1 .. n, o \in 1 .. BlockSize : (i - 1) * BlockSize + o \in 1 .. size
    BY <1>1, BytesOfBlocks
  <2>5. \A i \in 1 .. n : BlockAt(image, i) = BlockAt(buf, i)
    BY <1>2, <2>4 DEF BlockAt
  <2>6. /\ Crypt(mode, Base) \in Seq(Byte) /\ Len(Crypt(mode, Base)) = size
        /\ \A i \in 1 .. n : BlockAt(Crypt(mode, Base), i) = Cipher(mode)[BlockAt(Base, i)]
    BY <1>1, <2>1, CryptBlocks
  <2> HIDE DEF n, image
  <2>7. \A i \in 1 .. n : BlockAt(image, i) = BlockAt(Crypt(mode, Base), i)
    BY <2>3, <2>5, <2>6
  <2> QED BY <1>1, <1>2, <2>6, <2>7, SameBlocks
<1> HIDE DEF image
<1>6. Aligned => Result = Image
  BY <1>1, <1>3, <1>5 DEF Image, Base, Encrypted, Decrypted, Modes
<1> QED BY <1>4, <1>6

\* The output is created.
LEMMA OpenOutputStep ==
  ASSUME IInv, OpenOutput
  PROVE  IInv'
<1>1. /\ pc = "write" /\ pc' = "store" /\ Put(OutputName, <<>>)
      /\ UNCHANGED <<mode, filename, edits, padded, total, source, buf, index, parallel>>
      /\ UNCHANGED poolVars
  BY DEF OpenOutput, Goto, callVars, readVars
<1>2. filename' \in DOMAIN file'
  BY <1>1 DEF Put, IInv, Types
<1>3. Types'
  BY <1>1, <1>2 DEF IInv, Types, Labels
<1>4. ReadInv'
  BY <1>1 DEF IInv, ReadInv
<1>5. BlocksInv'
  BY <1>1, SameBuffer DEF Transformed, Processing, Pool!Elements, poolVars
<1>6. SubmitInv'
  <2>1. num_blocks' = num_blocks
    BY <1>1 DEF num_blocks
  <2> QED BY <1>1, <2>1 DEF IInv, SubmitInv, Pool!Elements, Pool!AllRun, poolVars
<1>7. PoolFacts!PoolInv'
  BY <1>1, PoolStep DEF IInv
<1>8. OutputIsTheImage' /\ CrashHasACause'
  BY <1>1 DEF OutputIsTheImage, CrashHasACause
<1> QED BY <1>3, <1>4, <1>5, <1>6, <1>7, <1>8 DEF IInv

\* Any number of the bytes of the result arrives in the output.
LEMMA WriteOutputStep ==
  ASSUME IInv, WriteOutput
  PROVE  IInv'
<1>1. /\ pc = "store" /\ pc' \in {"done", "failed"}
      /\ UNCHANGED <<mode, filename, edits, padded, total, source, buf, index, parallel>>
      /\ UNCHANGED poolVars
      /\ (UNCHANGED file /\ pc' = "failed")
           \/ \E n \in 0 .. Len(Result) : Put(OutputName, SubSeq(Result, 1, n))
  BY DEF WriteOutput, Goto, callVars, readVars
<1>2. filename' \in DOMAIN file'
  BY <1>1 DEF Put, IInv, Types
<1>3. Types'
  BY <1>1, <1>2 DEF IInv, Types, Labels, Ended
<1>4. ReadInv'
  BY <1>1 DEF IInv, ReadInv
<1>5. BlocksInv'
  BY <1>1 DEF BlocksInv, Processing
<1>6. SubmitInv'
  BY <1>1 DEF IInv, SubmitInv, Pool!Elements, poolVars
<1>7. PoolFacts!PoolInv'
  BY <1>1, PoolStep DEF IInv
<1>8. OutputIsTheImage'
  <2> SUFFICES ASSUME pc' = "done", Aligned'
               PROVE  /\ Len(file'[OutputName']) <= Len(Image')
                      /\ file'[OutputName'] = SubSeq(Image', 1, Len(file'[OutputName']))
    BY DEF OutputIsTheImage
  <2>1. OutputName' = OutputName /\ Image' = Image /\ Aligned
    BY <1>1 DEF OutputName, Image, Aligned
  <2>2. Result = Image /\ Image \in Seq(Byte)
    BY <1>1, <2>1, ResultIsImage
  <2>3. PICK n \in 0 .. Len(Result) : Put(OutputName, SubSeq(Result, 1, n))
    BY <1>1
  <2>4. file'[OutputName] = SubSeq(Image, 1, n)
    BY <2>2, <2>3 DEF Put
  <2>5. n \in Nat /\ n <= Len(Image) /\ Len(SubSeq(Image, 1, n)) = n
    BY <2>2, <2>3
  <2> QED BY <2>1, <2>4, <2>5
<1>9. CrashHasACause'
  BY <1>1 DEF CrashHasACause
<1> QED BY <1>3, <1>4, <1>5, <1>6, <1>7, <1>8, <1>9 DEF IInv

\* A system call fails, and the call returns.
LEMMA MainFailsStep ==
  ASSUME IInv, MainFails \/ AppendPaddingFails
  PROVE  IInv'
<1>1. /\ pc' = "failed" /\ pc # "failed"
      /\ UNCHANGED <<mode, filename, file, edits, padded, total, source, buf, index, parallel>>
      /\ UNCHANGED poolVars
  BY DEF MainFails, OpenInputFails, ReadFails, OpenOutputFails, AppendPaddingFails, Goto,
         callVars, fileVars, readVars
<1>2. Types'
  BY <1>1 DEF IInv, Types, Labels, Ended
<1>3. ReadInv'
  BY <1>1 DEF IInv, ReadInv
<1>4. BlocksInv' /\ SubmitInv'
  BY <1>1 DEF IInv, BlocksInv, Processing, SubmitInv, Pool!Elements, poolVars
<1>5. PoolFacts!PoolInv'
  BY <1>1, PoolStep DEF IInv
<1>6. OutputIsTheImage' /\ CrashHasACause'
  BY <1>1 DEF OutputIsTheImage, CrashHasACause
<1> QED BY <1>2, <1>3, <1>4, <1>5, <1>6 DEF IInv

-----------------------------------------------------------------------------
(* The invariant. *)

(* What process_file_syscalls starts with satisfies the invariant. *)
LEMMA InitIInv == Init => IInv
<1> SUFFICES ASSUME Init
             PROVE  IInv
  OBVIOUS
<1>1. /\ pc = "open" /\ mode \in Modes /\ filename \in Name
      /\ edits = 0 /\ padded = 0 /\ total = 0 /\ index = 1
      /\ buf = <<>> /\ source = <<>> /\ parallel = FALSE /\ Pool!Init
  BY DEF Init
<1>2. PICK c \in Contents : file = [n \in {filename} |-> c]
  BY DEF Init
<1>3. phase = "new" /\ accepted = <<>>
  BY <1>1 DEF Pool!Init
<1>4. Types
  <2>1. filename \in DOMAIN file
    BY <1>2
  <2>2. buf \in Seq(Byte) /\ source \in Seq(Byte)
    BY <1>1
  <2>3. pc \in Labels /\ parallel \in BOOLEAN
    BY <1>1 DEF Labels
  <2>4. edits \in Nat /\ padded \in Nat /\ total \in Nat /\ index \in Nat \ {0}
    BY <1>1
  <2> QED BY <1>1, <2>1, <2>2, <2>3, <2>4 DEF Types
<1>5. ReadInv
  <2>1. BlocksOf(0) = 0 /\ 0 = 0 * BlockSize
    BY BlocksOfMultiple, BlockSizeAssumption
  <2> QED BY <1>1, <1>2, <2>1, FileAssumption DEF ReadInv
<1>6. BlocksInv /\ SubmitInv
  BY <1>1, <1>3 DEF BlocksInv, Processing, SubmitInv, Pool!Elements
<1>7. PoolFacts!PoolInv
  BY <1>1, PoolFacts!InitPool DEF Pool!Init, PoolFacts!Init
<1>8. OutputIsTheImage /\ CrashHasACause
  BY <1>1 DEF OutputIsTheImage, CrashHasACause
<1> QED BY <1>4, <1>5, <1>6, <1>7, <1>8 DEF IInv

\* A step that changes nothing.
LEMMA StutterStep ==
  ASSUME IInv, UNCHANGED vars
  PROVE  IInv'
<1>1. /\ UNCHANGED <<pc, mode, filename, file, edits, padded, total, source, buf, index, parallel>>
      /\ UNCHANGED poolVars
  BY DEF vars, callVars, fileVars, readVars
<1>2. Types' /\ ReadInv'
  BY <1>1 DEF IInv, Types, ReadInv
<1>3. num_blocks' = num_blocks /\ Base' = Base /\ (Aligned' <=> Aligned)
  BY <1>1 DEF num_blocks, Base, Aligned
<1>4. UNCHANGED <<accepted, runs, phase>>
  BY <1>1 DEF poolVars
<1>5. BlocksInv'
  BY <1>1, <1>3, <1>4 DEF IInv, BlocksInv, Transformed, Pool!Elements
<1>6. SubmitInv'
  BY <1>1, <1>3, <1>4 DEF IInv, SubmitInv, Pool!Elements, Pool!AllRun
<1>7. PoolFacts!PoolInv'
  BY <1>1, PoolStep DEF IInv
<1>8. OutputIsTheImage' /\ CrashHasACause'
  BY <1>1, <1>4 DEF IInv, OutputIsTheImage, CrashHasACause, Aligned, Image, OutputName
<1> QED BY <1>2, <1>5, <1>6, <1>7, <1>8 DEF IInv

(* Every step of the call, of its pool and of the process that edits the input keeps it. *)
LEMMA NextIInv == IInv /\ [Next]_vars => IInv'
<1> SUFFICES ASSUME IInv, [Next]_vars
             PROVE  IInv'
  OBVIOUS
<1>1. CASE MainStep
  BY <1>1, OpenInputStep, ReadPieceStep, ReadEndsStep, AppendPaddingStep, MainFailsStep,
     NoPaddingStep, MakePoolStep, CryptImmediatelyStep, SubmitBlockStep, OwnerStep,
     OpenOutputStep, WriteOutputStep DEF MainStep
<1>2. CASE MainFails
  BY <1>2, MainFailsStep
<1>3. CASE StartBlock
  BY <1>3, StartBlockStep
<1>4. CASE \E i \in 1 .. MaxBlocks : RunBlock(i)
  BY <1>4, RunBlockStep
<1>5. CASE Edit
  BY <1>5, EditStep
<1>6. CASE Terminated \/ UNCHANGED vars
  BY <1>6, StutterStep DEF Terminated
<1> QED BY <1>1, <1>2, <1>3, <1>4, <1>5, <1>6 DEF Next

\* Every block that is not yet transformed is as it was read, every other one is
\* its image, whichever thread transforms what and in whatever order.
THEOREM Invariant == Spec => []IInv
BY InitIInv, NextIInv, PTL DEF Spec

\* What is written is the image of what was read, or the beginning of it, for
\* every content, cipher, number of threads and way to share the blocks.
THEOREM OutputCorrect == Spec => []OutputIsTheImage
<1>1. IInv => OutputIsTheImage
  BY DEF IInv
<1> QED BY <1>1, Invariant, PTL

\* The heap is only overrun when the input grows, or is no sequence of blocks.
THEOREM CrashExplained == Spec => []CrashHasACause
<1>1. IInv => CrashHasACause
  BY DEF IInv
<1> QED BY <1>1, Invariant, PTL

\* A call that decrypts what another one encrypted has the original to write.
THEOREM Decrypts == Spec => []DecryptsWhatWasEncrypted
<1>1. ASSUME IInv
      PROVE  DecryptsWhatWasEncrypted
  <2> SUFFICES ASSUME pc = "write", mode = "decrypt", NEW s \in Contents, source = Encrypted(s)
               PROVE  Result = s
    BY DEF DecryptsWhatWasEncrypted
  <2>1. s \in Seq(Byte) /\ Pad(s) \in Seq(Byte)
    BY FileAssumption, PadBytes
  <2>2. PICK n \in Nat : Len(Pad(s)) = n * BlockSize
    BY <2>1, PadIsAligned
  <2>3. Len(source) = n * BlockSize
    BY <2>1, <2>2, CryptBlocks DEF Encrypted, Modes
  <2>4. (n * BlockSize) % BlockSize = 0
    BY BlockSizeAssumption
  <2>5. Aligned
    BY <2>3, <2>4 DEF Aligned
  <2>6. Result = Decrypted(Encrypted(s))
    BY <1>1, <2>5, ResultIsImage DEF Image
  <2> QED BY <2>1, <2>6, RoundTrip
<1> QED BY <1>1, Invariant, PTL

-----------------------------------------------------------------------------
(* The input. *)

\* The name of the output is one unit longer or shorter than that of the input,
\* unless it is cut off.
LEMMA OtherName ==
  ASSUME NEW m \in Modes, NEW n \in Seq(STRING), NEW limit \in Nat \ {0},
         Cut(Output(m, n), limit) = n
  PROVE  Len(n) >= limit
<1> DEFINE o == Output(m, n)
           S == STRING \union {".enc", ".dec"}
<1>1. o \in Seq(S) /\ (Len(o) = Len(n) + 1 \/ Len(o) = Len(n) - 1)
  <2>1. n \in Seq(S)
    BY SeqMonotonic
  <2> HIDE DEF S
  <2>2. \A e \in S : Append(n, e) \in Seq(S) /\ Len(Append(n, e)) = Len(n) + 1
    BY <2>1, AppendProperties
  <2>3. ".enc" \in S /\ ".dec" \in S
    BY DEF S
  <2>4. HasEnc(n) => /\ SubSeq(n, 1, Len(n) - 1) \in Seq(S)
                     /\ Len(SubSeq(n, 1, Len(n) - 1)) = Len(n) - 1
    BY <2>1 DEF HasEnc
  <2> QED BY <2>2, <2>3, <2>4 DEF Output
<1> HIDE DEF S
<1>2. Len(n) \in Nat /\ Len(o) \in Nat /\ Len(o) # Len(n)
  BY <1>1
<1> HIDE DEF o
<1>3. CASE Len(o) < limit
  <2>1. Cut(o, limit) = SubSeq(o, 1, Len(o))
    BY <1>3 DEF Cut
  <2>2. Len(Cut(o, limit)) = Len(o)
    BY <1>1, <2>1
  <2> QED BY <1>2, <2>2 DEF o
<1>4. CASE ~ Len(o) < limit
  <2>1. Cut(o, limit) = SubSeq(o, 1, limit)
    BY <1>4 DEF Cut
  <2>2. Len(Cut(o, limit)) = limit
    BY <1>1, <1>2, <1>4, <2>1
  <2> QED BY <1>2, <2>2 DEF o
<1> QED BY <1>3, <1>4

\* The input is as the call found it, unless another process changes it or the
\* name of the output was cut off.
THEOREM InputUntouched == Spec => InputKept
<1>1. ASSUME IInv, [Next]_vars
      PROVE  [file'[filename] # file[filename] =>
                edits' # edits \/ Len(filename) >= NameLimit]_vars
  <2> SUFFICES ASSUME Next, file'[filename] # file[filename]
               PROVE  edits' # edits \/ Len(filename) >= NameLimit
    BY <1>1
  <2>1. mode \in Modes /\ filename \in Seq(STRING) /\ filename \in DOMAIN file /\ edits \in Nat
    BY <1>1, FileAssumption DEF IInv, Types
  <2>2. CASE Edit
    BY <2>1, <2>2 DEF Edit
  <2>3. CASE OpenOutput \/ WriteOutput
    <3>1. PICK c : Put(OutputName, c)
      BY <2>3 DEF OpenOutput, WriteOutput
    <3>2. OutputName = filename
      BY <2>1, <3>1 DEF Put
    <3> QED BY <2>1, <3>2, OtherName, FileAssumption DEF OutputName
  <2>4. CASE UNCHANGED file
    BY <2>4
  <2> QED BY <2>2, <2>3, <2>4
      DEF Next, MainStep, MainFails, Terminated, vars, fileVars, OpenInput, OpenInputFails,
          ReadPiece, ReadEnds, ReadFails, AppendPadding, AppendPaddingFails, NoPadding,
          MakePool, CryptImmediately, SubmitBlock, SubmissionEnds, WaitReturns, DestroyPool,
          OpenOutputFails, StartBlock, RunBlock
<1> QED BY <1>1, Invariant, PTL DEF Spec, InputKept
=============================================================================

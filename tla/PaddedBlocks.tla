---------------------------- MODULE PaddedBlocks ----------------------------
(***************************************************************************)
(* What process_file_syscalls of encrypt/src/file_ops.c does to the bytes  *)
(* of a file: PKCS#7 padding, and AES on every block by itself.  The cipher *)
(* under the key of the call is a pair of inverse functions on blocks.     *)
(***************************************************************************)
EXTENDS Naturals, Sequences

CONSTANTS MaxByte,    \* 255
          BlockSize,  \* AES_BLOCK_SIZE
          Enc, Dec    \* encrypt and decrypt of aes.c

Byte == 0 .. MaxByte

Block == [1 .. BlockSize -> Byte]

ASSUME BlockSizeAssumption ==
  /\ MaxByte \in Nat /\ BlockSize \in Nat \ {0}
  /\ BlockSize <= MaxByte

ASSUME CipherAssumption ==
  /\ Enc \in [Block -> Block] /\ Dec \in [Block -> Block]
  /\ \A b \in Block : Dec[Enc[b]] = b

Modes == {"encrypt", "decrypt"}

Cipher(mode) == IF mode = "encrypt" THEN Enc ELSE Dec

-----------------------------------------------------------------------------
(* Padding. *)

\* An aligned file gets a whole block of padding: the remainder is 0 then.
PadLen(size) == BlockSize - (size % BlockSize)

Padding(n) == [k \in 1 .. n |-> n]

Pad(s) == s \o Padding(PadLen(Len(s)))

\* Variant: the length of a whole block of padding is not accepted.
ValidPadding_NotFull(s) ==
  /\ s # <<>>
  /\ s[Len(s)] \in 1 .. BlockSize - 1 /\ s[Len(s)] <= Len(s)
  /\ \A k \in Len(s) - s[Len(s)] + 1 .. Len(s) : s[k] = s[Len(s)]

ValidPadding(s) ==
  /\ s # <<>>
  /\ s[Len(s)] \in 1 .. BlockSize /\ s[Len(s)] <= Len(s)
  /\ \A k \in Len(s) - s[Len(s)] + 1 .. Len(s) : s[k] = s[Len(s)]

\* Bytes without valid padding are kept as they are, with a warning.
Unpad(s) == IF ValidPadding(s) THEN SubSeq(s, 1, Len(s) - s[Len(s)]) ELSE s

-----------------------------------------------------------------------------
(* Blocks. *)

\* (total_bytes + AES_BLOCK_SIZE - 1) / AES_BLOCK_SIZE
BlocksOf(size) == (size + BlockSize - 1) \div BlockSize

BlockAt(s, i) == [k \in 1 .. BlockSize |-> s[(i - 1) * BlockSize + k]]

InBlock(k, i) == k \in (i - 1) * BlockSize + 1 .. i * BlockSize

\* s with block i replaced by its image under the cipher.
CryptBlock(mode, s, i) ==
  [k \in 1 .. Len(s) |->
     IF InBlock(k, i) THEN Cipher(mode)[BlockAt(s, i)][k - (i - 1) * BlockSize] ELSE s[k]]

\* s, of full blocks, with every block replaced.
Crypt(mode, s) ==
  [k \in 1 .. Len(s) |->
     Cipher(mode)[BlockAt(s, BlocksOf(k))][k - (BlocksOf(k) - 1) * BlockSize]]

Encrypted(s) == Crypt("encrypt", Pad(s))

Decrypted(s) == Unpad(Crypt("decrypt", s))
=============================================================================

------------------------------- MODULE AESInv -------------------------------
(***************************************************************************)
(* What is claimed about encrypt, decrypt and the derivation of keys.      *)
(***************************************************************************)
EXTENDS AES

\* Published examples: [key, block, cipher], each as 16 bytes.
CONSTANT KnownAnswers

Encrypting(n) == calls = "encrypt" /\ layers = n

-----------------------------------------------------------------------------
\* The tables, the field arithmetic, the key schedule and the order of the
\* layers together are AES-128: under the key of a published example encrypt
\* makes the published ciphertext of its block.
EncryptsAsAES ==
  \A a \in KnownAnswers :
    /\ Encrypting(Len(EncryptLayers))
    /\ a.key = derive_key_from_password(input.password) /\ a.block = input.block
    => state_to_ciphertext(state) = a.cipher

\* Under the same key every layer of decrypt takes the state back to what the
\* matching layer of encrypt was given, down to the block itself.
DecryptionRetraces ==
  /\ calls = "decrypt" /\ layers > 0
  /\ derive_key_from_password(input.password) = derive_key_from_password(input.other)
  => state = trace[Len(EncryptLayers) - layers + 1]

\* Passwords that agree on their first 16 characters are the same password, and
\* any other one, were it a single bit or one character shorter, does not give
\* the block back.
PasswordsDecide ==
  calls = "decrypt" /\ layers = Len(DecryptLayers) =>
    ( state_to_ciphertext(state) = input.block
      <=> \A i \in 1 .. 16 :
            IF i \in DOMAIN input.password
            THEN i \in DOMAIN input.other /\ input.password[i] = input.other[i]
            ELSE i \notin DOMAIN input.other )
=============================================================================

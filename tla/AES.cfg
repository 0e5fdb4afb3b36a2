SPECIFICATION CipherSpec
CONSTANTS
  Cases <- SomeCases
  KnownAnswers <- SomeAnswers
INVARIANTS
  EncryptsAsAES
  DecryptionRetraces
  PasswordsDecide

\* AES with every key size, decryption with the key the benchmark passes;
\* SM4 both ways
SPECIFICATION MCSpec
CONSTANTS
  UserKeys <- MCUserKeys
  Sizes = {128, 192, 256}
  Plaintexts <- MCPlaintexts
  DecryptWith = "rk"
  Sm4Blocks <- MCBlocks
INVARIANTS
  SchedulesAgree
  KeySchedules
  DecryptRetraces
  Sm4Retraces
PROPERTY EcbSpec

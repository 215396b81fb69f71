\* the ciphertext against that of aes_ecb_encrypt
SPECIFICATION MCSpec
CONSTANTS
  UserKeys <- MCUserKeys
  Sizes = {128}
  Plaintexts <- MCPlaintexts
  DecryptWith = "rk"
  Sm4Blocks <- MCBlocks
INVARIANT EncryptsAsAes

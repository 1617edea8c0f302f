SPECIFICATION Spec
CONSTANT MaxTyped = 6
CONSTANT MapLength = 2
CONSTANT MaxObjects = 2
CONSTANT Limit = 600
CONSTANT ByteBits = 2
CONSTANT BlockSize = 2
CONSTANT Xor <- XorBits
CONSTANT Cipher <- MCCipher
CONSTANT IV <- MCIV
CONSTANT PlainByte = {0, 3}
CONSTANT MaxBytes = 6
INVARIANT ReadsBack
INVARIANT ReadsGrammar
INVARIANT PiecesDoNotMatter
INVARIANT Deciphers
INVARIANT Exact
PROPERTY WritingEnds
CHECK_DEADLOCK FALSE

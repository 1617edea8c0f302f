---------------------------- MODULE CipherModes ----------------------------
(***************************************************************************)
(* The modes of operation of src/lib/crypto/modes.c over a block cipher.   *)
(* One side encrypts a text in pieces, the other decrypts it in pieces of  *)
(* its own: what goes from one piece to the next is in the contexts.       *)
(*                                                                         *)
(* A block is a tuple of BlockSize bytes of ByteBits bits.  The cipher of  *)
(* blocks is any bijection.  The stream ciphers that the file also makes   *)
(* of block ciphers have no state to model: their objects are never given  *)
(* the block cipher, which their setup needs.                              *)
(***************************************************************************)
EXTENDS Integers, Sequences, SequencesExt, FiniteSets, FiniteSetsExt

CONSTANTS
  ByteBits, BlockSize,
  Xor(_, _),   \* of two bytes
  Cipher,      \* the bijections of blocks that are tried
  IV,          \* the initialization vectors that are tried
  PlainByte,   \* the bytes of the texts that are tried
  MaxBytes     \* bound: the length of a text

VARIABLES
  mode, cipher, iv,
  sender, receiver,   \* contexts: block_cipher_mode_context_t
  plain, wire,        \* bytes that were encrypted, and what they became
  opened,             \* bytes that were decrypted
  end                 \* "padded" when the text was ended, "read" when that was read
cipherVars == <<mode, cipher, iv, sender, receiver, plain, wire, opened, end>>

BlockMode == {"ecb", "cbc", "cfb", "ofb", "ctr"}

Byte == 0..(2^ByteBits - 1)
Block == [1..BlockSize -> Byte]

\* A cipher tells blocks apart, and the padding of a block can be written in a byte.
CipherAssumption ==
  /\ BlockSize \in Nat \ {0} /\ 2^ByteBits \in Nat /\ BlockSize < 2^ByteBits
  /\ \A f \in Cipher : f \in [Block -> Block] /\ \A a, b \in Block : f[a] = f[b] => a = b
  /\ IV \subseteq Block /\ PlainByte \subseteq Byte
  /\ \A a, b \in Byte : Xor(a, b) \in Byte /\ Xor(a, b) = Xor(b, a) /\ Xor(Xor(a, b), b) = a

XorBlock(a, b) == [i \in 1..BlockSize |-> Xor(a[i], b[i])]

Enciphered(b) == cipher[b]
Deciphered(b) == CHOOSE p \in Block : cipher[p] = b

\* Variant: the bytes above the first one do not count.
CountedLow(ctr) == [ctr EXCEPT ![1] = (@ + 1) % 2^ByteBits]

\* The counter is a number of which the first byte is the lowest.
Counted(ctr) ==
  LET full == {i \in 1..BlockSize : \A j \in 1..i : ctr[j] = 2^ByteBits - 1}
  IN  [i \in 1..BlockSize |->
         IF i - 1 \in full \union {0} THEN (ctr[i] + 1) % 2^ByteBits ELSE ctr[i]]

Context(start) == [iv |-> start]
Result(c, v, out) == [ctx |-> [c EXCEPT !.iv = v], out |-> out]

-----------------------------------------------------------------------------
(* One block.                                                              *)

CbcEncrypt(c, b) == LET e == Enciphered(XorBlock(c.iv, b)) IN Result(c, e, e)
CbcDecrypt(c, b) == Result(c, b, XorBlock(Deciphered(b), c.iv))
\* Variant: what is fed back is the text, as in decryption.
CfbEncryptText(c, b) == Result(c, b, XorBlock(Enciphered(c.iv), b))

CfbEncrypt(c, b) == LET e == XorBlock(Enciphered(c.iv), b) IN Result(c, e, e)
CfbDecrypt(c, b) == Result(c, b, XorBlock(Enciphered(c.iv), b))
OfbOperate(c, b) == LET e == Enciphered(c.iv) IN Result(c, e, XorBlock(b, e))
CtrOperate(c, b) == Result(c, Counted(c.iv), XorBlock(b, Enciphered(c.iv)))

EncryptBlock(c, b) ==
  CASE mode = "ecb" -> Result(c, c.iv, Enciphered(b))
    [] mode = "cbc" -> CbcEncrypt(c, b)
    [] mode = "cfb" -> CfbEncrypt(c, b)
    [] mode = "ofb" -> OfbOperate(c, b)
    [] mode = "ctr" -> CtrOperate(c, b)

DecryptBlock(c, b) ==
  CASE mode = "ecb" -> Result(c, c.iv, Deciphered(b))
    [] mode = "cbc" -> CbcDecrypt(c, b)
    [] mode = "cfb" -> CfbDecrypt(c, b)
    [] mode = "ofb" -> OfbOperate(c, b)
    [] mode = "ctr" -> CtrOperate(c, b)

-----------------------------------------------------------------------------
(* Calls with several blocks.                                              *)

BlockAt(s, k) == [j \in 1..BlockSize |-> s[(k - 1) * BlockSize + j]]

Operated(encrypts, c, b) == IF encrypts THEN EncryptBlock(c, b) ELSE DecryptBlock(c, b)

\* The contexts before and after each of n blocks.
Contexts(encrypts, c, s, n) ==
  LET at[k \in 0..n] == IF k = 0 THEN c ELSE Operated(encrypts, at[k - 1], BlockAt(s, k)).ctx
  IN  at

Call(encrypts, c, s) ==
  LET n == Len(s) \div BlockSize
      at == Contexts(encrypts, c, s, n)
      of(k) == Operated(encrypts, at[k], BlockAt(s, k + 1)).out
  IN  [ctx |-> at[n],
       out |-> [i \in 1..Len(s) |-> of((i - 1) \div BlockSize)[((i - 1) % BlockSize) + 1]]]

\* Bytes are padded up to a whole number of blocks, by one at least.
Padded(s) ==
  LET missing == BlockSize - (Len(s) % BlockSize)
  IN  s \o [i \in 1..missing |-> missing]
Unpadded(s) == SubSeq(s, 1, Len(s) - Last(s))

WholeBlocks(n) == n % BlockSize = 0

CipherInit ==
  /\ mode \in BlockMode
  /\ cipher \in Cipher
  /\ iv \in IV
  /\ sender = Context(iv) /\ receiver = Context(iv)
  /\ plain = <<>> /\ wire = <<>> /\ opened = <<>> /\ end = "open"

Sent(s) ==
  LET e == Call(TRUE, sender, s)
  IN  wire' = wire \o e.out /\ sender' = e.ctx

\* crypto:encrypt-blocks
Encrypt(s) ==
  /\ end = "open" /\ WholeBlocks(Len(s))
  /\ Len(plain) + Len(s) <= MaxBytes
  /\ plain' = plain \o s
  /\ Sent(s)
  /\ UNCHANGED <<mode, cipher, iv, receiver, opened, end>>

\* crypto:encrypt-bytes: the last piece of a text.
EncryptBytes(s) ==
  /\ end = "open"
  /\ Len(plain) + Len(s) <= MaxBytes
  /\ plain' = plain \o s
  /\ end' = "padded"
  /\ Sent(Padded(s))
  /\ UNCHANGED <<mode, cipher, iv, receiver, opened>>

\* Where the padded piece begins, in bytes of the cipher text.
PaddedFrom == IF end = "padded" THEN Len(plain) - (Len(plain) % BlockSize) ELSE Len(wire)
Received(n) == Call(FALSE, receiver, SubSeq(wire, Len(opened) + 1, Len(opened) + n))

\* crypto:decrypt-blocks of the next n bytes.
Decrypt(n) ==
  /\ end # "read" /\ WholeBlocks(n)
  /\ Len(opened) + n <= PaddedFrom
  /\ opened' = opened \o Received(n).out
  /\ receiver' = Received(n).ctx
  /\ UNCHANGED <<mode, cipher, iv, sender, plain, wire, end>>

\* crypto:decrypt-bytes of all the rest.
DecryptBytes ==
  LET d == Received(Len(wire) - Len(opened))
  IN  /\ end = "padded" /\ WholeBlocks(Len(opened))
      /\ Last(d.out) <= BlockSize
      /\ opened' = opened \o Unpadded(d.out)
      /\ receiver' = d.ctx
      /\ end' = "read"
      /\ UNCHANGED <<mode, cipher, iv, sender, plain, wire>>

CipherNext ==
  \/ \E n \in 1..(2 * BlockSize) : \E s \in [1..n -> PlainByte] : Encrypt(s)
  \/ \E n \in 0..BlockSize : \E s \in [1..n -> PlainByte] : EncryptBytes(s)
  \/ \E n \in 1..(2 * BlockSize) : Decrypt(n)
  \/ DecryptBytes

CipherSpec == CipherInit /\ [][CipherNext]_cipherVars

-----------------------------------------------------------------------------
(* The modes as they are defined for a whole text.                         *)

Number(b) == MapThenSumSet(LAMBDA i : b[i] * 2^(ByteBits * (i - 1)), 1..BlockSize)
Counter(k) ==
  CHOOSE b \in Block : Number(b) = (Number(iv) + k) % 2^(ByteBits * BlockSize)

\* The blocks of the key stream of output feedback: the vector enciphered k times.
Feedback[k \in 0..MaxBytes] == IF k = 0 THEN iv ELSE Enciphered(Feedback[k - 1])

KeyStream(k) == IF mode = "ofb" THEN Feedback[k] ELSE Enciphered(Counter(k - 1))

Blocks(s) == [k \in 1..(Len(s) \div BlockSize) |-> BlockAt(s, k)]

\* What the text p becomes, byte by byte and block by block.
Textbook(p) ==
  LET b == Blocks(p)
      chained[k \in 0..Len(b)] ==
        CASE k = 0 -> iv
          [] k > 0 /\ mode = "ecb" -> Enciphered(b[k])
          [] k > 0 /\ mode = "cbc" -> Enciphered(XorBlock(b[k], chained[k - 1]))
          [] k > 0 /\ mode = "cfb" -> XorBlock(b[k], Enciphered(chained[k - 1]))
  IN  IF mode \in {"ecb", "cbc", "cfb"}
      THEN FlattenSeq([k \in 1..Len(b) |-> chained[k]])
      ELSE [i \in DOMAIN p |->
              Xor(p[i], KeyStream((i - 1) \div BlockSize + 1)[((i - 1) % BlockSize) + 1])]

\* However the text is cut, the cipher text is that of the whole text (modes.c).
AsWhole == end = "open" => wire = Textbook(plain)

\* However the text is cut on either side, what is decrypted is the text, and all of
\* it in the end, without the padding (modes.c, module.c).
Deciphers ==
  /\ IsPrefix(opened, plain)
  /\ end = "read" => opened = plain
=============================================================================

---------------------------- MODULE Sha256Stream ----------------------------
(***************************************************************************)
(* The C client's streaming SHA-256 (c/sha256.c: sha256_update,            *)
(* sha256_final, sha256_file): a message that arrives in chunks of any     *)
(* size is cut into blocks, padded and closed with its length.  Here the   *)
(* blocks passed to sha256_block are kept, joined, in hashed; module Sha256 *)
(* compresses them.  bit_count stays far below the 2^64 at which it wraps: *)
(* the files of an instance are short.                                     *)
(***************************************************************************)
EXTENDS Integers, Sequences

CONSTANTS
    Files,        \* the contents a file may have: sequences of bytes
    Chunk,        \* chunk sizes fread may return
    Block,        \* SHA256_BLOCK_SIZE
    LengthSize,   \* bytes of the length field (8 in the code)
    Radix         \* values of a byte of the length field (256 in the code)

ASSUME Sha256Assumption ==
    /\ Block \in Nat /\ LengthSize \in 1..(Block - 1)
    /\ Radix \in Nat \ {0, 1}
    /\ Chunk \subseteq Nat \ {0}
    /\ \A f \in Files : f \in Seq(Nat)

VARIABLES
    file,         \* the content of the file being hashed
    message,      \* the bytes passed to sha256_update by the caller
    hashed,       \* the bytes of the blocks passed to sha256_block
    buffer,       \* the first ctx->buffered bytes of ctx->buffer
    bit_count,
    bits,         \* sha256_final's copy of it
    pc

vars == <<file, message, hashed, buffer, bit_count, bits, pc>>

Smaller(m, n) == IF m < n THEN m ELSE n

\* Mutant: the bytes that completed a block are compressed and kept as well.
sha256_update_keeps(chunk) ==
    LET take == IF buffer # <<>> THEN Smaller(Len(chunk), Block - Len(buffer)) ELSE 0
        top == buffer \o SubSeq(chunk, 1, take)
        full == Len(top) = Block
        whole == ((Len(chunk) - take) \div Block) * Block
    IN  /\ hashed' = hashed \o (IF full THEN top ELSE <<>>)
                            \o SubSeq(chunk, take + 1, take + whole)
        /\ buffer' = IF full \/ buffer = <<>>
                       THEN SubSeq(chunk, whole + 1, Len(chunk)) ELSE top

\* Mutant: a block completed by topping up waits for the next chunk.
sha256_update_late(chunk) ==
    LET take == IF buffer # <<>> THEN Smaller(Len(chunk), Block - Len(buffer)) ELSE 0
        top == buffer \o SubSeq(chunk, 1, take)
        full == Len(top) = Block /\ take < Len(chunk)
        rest == SubSeq(chunk, take + 1, Len(chunk))
        whole == (Len(rest) \div Block) * Block
        left == SubSeq(rest, whole + 1, Len(rest))
    IN  /\ hashed' = hashed \o (IF full THEN top ELSE <<>>) \o SubSeq(rest, 1, whole)
        /\ buffer' = IF left # <<>> THEN left ELSE IF full THEN <<>> ELSE top

\* Mutant: ctx->buffered does not grow by the bytes that top up a partial block.
sha256_update_stuck(chunk) ==
    LET take == IF buffer # <<>> THEN Smaller(Len(chunk), Block - Len(buffer)) ELSE 0
        rest == SubSeq(chunk, take + 1, Len(chunk))
        whole == (Len(rest) \div Block) * Block
        left == SubSeq(rest, whole + 1, Len(rest))
    IN  /\ hashed' = hashed \o SubSeq(rest, 1, whole)
        /\ buffer' = IF left # <<>> THEN left ELSE buffer

\* Top up a partial block, take whole blocks from the chunk, keep what is left.
sha256_update(chunk) ==
    LET take == IF buffer # <<>> THEN Smaller(Len(chunk), Block - Len(buffer)) ELSE 0
        top == buffer \o SubSeq(chunk, 1, take)
        full == Len(top) = Block
        rest == SubSeq(chunk, take + 1, Len(chunk))
        whole == (Len(rest) \div Block) * Block
        left == SubSeq(rest, whole + 1, Len(rest))
    IN  /\ hashed' = hashed \o (IF full THEN top ELSE <<>>) \o SubSeq(rest, 1, whole)
        /\ buffer' = IF left # <<>> THEN left ELSE IF full THEN <<>> ELSE top

\* The caller's bytes count towards the length; sha256_final restores the count
\* after each byte of padding.
Counted(n) == bit_count + 8 * n

\* The length, most significant byte first: each byte is what is left of the
\* number once the bytes below it are shifted out.
LengthBytes(n) ==
    LET shifted[k \in 0..LengthSize] == IF k = 0 THEN n ELSE shifted[k - 1] \div Radix
    IN  [i \in 1..LengthSize |-> shifted[LengthSize - i] % Radix]

Init ==
    /\ file \in Files
    /\ message = <<>>
    /\ hashed = <<>>
    /\ buffer = <<>>
    /\ bit_count = 0
    /\ bits = 0
    /\ pc = "update"

\* sha256_file: one fread and one sha256_update.
Update ==
    /\ pc = "update"
    /\ Len(message) < Len(file)
    /\ \E n \in Chunk :
          LET got == Smaller(n, Len(file) - Len(message))
              chunk == SubSeq(file, Len(message) + 1, Len(message) + got)
          IN  /\ sha256_update(chunk)
              /\ message' = message \o chunk
              /\ bit_count' = Counted(got)
    /\ UNCHANGED <<file, bits, pc>>

\* fread stops at an error: sha256_file returns -1 and there is no digest.
ReadError ==
    /\ pc = "update"
    /\ pc' = "failed"
    /\ UNCHANGED <<file, message, hashed, buffer, bit_count, bits>>

\* Mutant: the length is read after the marker has been counted.
PadOneCounted ==
    /\ pc = "update"
    /\ message = file
    /\ bits' = Counted(1)
    /\ sha256_update(<<128>>)
    /\ bit_count' = bits'
    /\ pc' = "zeros"
    /\ UNCHANGED <<file, message>>

\* sha256_final: the end marker.
PadOne ==
    /\ pc = "update"
    /\ message = file
    /\ bits' = bit_count
    /\ sha256_update(<<128>>)
    /\ bit_count' = bits'
    /\ pc' = "zeros"
    /\ UNCHANGED <<file, message>>

\* Zeros up to the length field, into a new block if this one has no room.
PadZero ==
    /\ pc = "zeros"
    /\ Len(buffer) # Block - LengthSize
    /\ sha256_update(<<0>>)
    /\ bit_count' = bits
    /\ UNCHANGED <<file, message, bits, pc>>

PadLength ==
    /\ pc = "zeros"
    /\ Len(buffer) = Block - LengthSize
    /\ sha256_update(LengthBytes(bits))
    /\ bit_count' = Counted(LengthSize)
    /\ pc' = "done"
    /\ UNCHANGED <<file, message, bits>>

Next == Update \/ ReadError \/ PadOne \/ PadZero \/ PadLength

Spec == Init /\ [][Next]_vars

-----------------------------------------------------------------------------

TypeOK ==
    /\ file \in Files /\ message = SubSeq(file, 1, Len(message))
    /\ hashed \in Seq(Nat) /\ Len(hashed) % Block = 0
    /\ buffer \in Seq(Nat) /\ Len(buffer) < Block
    /\ bit_count \in Nat /\ bits \in Nat
    /\ pc \in {"update", "zeros", "done", "failed"}

\* However the message is cut into chunks, the bytes compressed and those
\* buffered are its bytes, in order: none lost, doubled or moved.
NothingLost == pc = "update" => hashed \o buffer = message

\* What FIPS 180-4 hashes: the message, a marker, the fewest zeros that fill the
\* last block, and the length in bits.
Padded(m) ==
    LET zeros == CHOOSE k \in 0..(Block - 1) :
                    (Len(m) + 1 + k + LengthSize) % Block = 0
    IN  m \o <<128>> \o [i \in 1..zeros |-> 0] \o LengthBytes(8 * Len(m))

\* When the digest is read off, exactly the padded message has been compressed.
HashesPadded == pc = "done" => hashed = Padded(file) /\ buffer = <<>>

=============================================================================

------------------------------- MODULE Sha256 -------------------------------
(***************************************************************************)
(* The C client's whole SHA-256: the stream of Sha256Stream with every     *)
(* block it completes compressed by sha256_block before the stream goes    *)
(* on, one iteration of that function's loops at a time.                   *)
(***************************************************************************)
EXTENDS Sha256Stream, Sha256Block

CONSTANT Known    \* the digest of each file, by an independent implementation

VARIABLES
    state,        \* ctx->state: eight words
    w,            \* the message schedule of the block being compressed
    v,            \* a, b, ..., h
    round,        \* rounds done on that block
    compressed    \* blocks compressed so far

block_vars == <<state, w, v, round, compressed>>
sha_vars == <<vars, block_vars>>

\* A block has been passed to sha256_block and not yet added into the state.
Busy == Block * compressed < Len(hashed)

ShaInit ==
    /\ Init
    /\ state = sha256_init
    /\ w = <<>>
    /\ v = sha256_init
    /\ round = 0
    /\ compressed = 0

Stream == ~Busy /\ Next /\ UNCHANGED block_vars

LoadBlock ==
    /\ Busy /\ w = <<>>
    /\ w' = Words(SubSeq(hashed, Block * compressed + 1, Block * (compressed + 1)))
    /\ UNCHANGED <<vars, state, v, round, compressed>>

\* The working variables are loaded once the schedule is complete; nothing reads
\* them earlier.
ExpandWord ==
    /\ Len(w) \in 16..63
    /\ w' = Append(w, Expanded(w))
    /\ v' = state
    /\ UNCHANGED <<vars, state, round, compressed>>

DoRound ==
    /\ Len(w) = 64 /\ round < 64
    /\ v' = Round(v, K[round + 1], w[round + 1])
    /\ round' = round + 1
    /\ UNCHANGED <<vars, state, w, compressed>>

\* Mutant: the working variables replace the state.
AddBlockReplaces ==
    /\ round = 64
    /\ state' = v
    /\ compressed' = compressed + 1
    /\ w' = <<>>
    /\ round' = 0
    /\ UNCHANGED <<vars, v>>

\* The working variables are added into the state; the block is done.
AddBlock ==
    /\ round = 64
    /\ state' = [i \in 1..8 |-> Plus(state[i], v[i])]
    /\ compressed' = compressed + 1
    /\ w' = <<>>
    /\ round' = 0
    /\ UNCHANGED <<vars, v>>

Compress == LoadBlock \/ ExpandWord \/ DoRound \/ AddBlock

ShaNext == Stream \/ Compress

\* Hashing is done by one thread and nothing in it waits.  The loops of
\* sha256_block have constant bounds: a block that is begun is finished.
ShaSpec ==
    /\ ShaInit /\ [][ShaNext]_sha_vars
    /\ WF_sha_vars(Stream) /\ []<>~Busy

-----------------------------------------------------------------------------

\* The digest that sha256_final stores is the one the Python side computes with
\* hashlib for the same file: what lets a C client and a Python server agree on
\* a transfer.
DigestAgrees ==
    pc = "done" /\ ~Busy => DigestBytes(state) = Known[file]

\* FIPS 180-4, 6.2.2: the first 16 + k words of the schedule of a block, the working
\* variables after k rounds, and the hash value after k blocks of a padded message.
Schedule(block, k) ==
    LET words[j \in 0..k] ==
            IF j = 0 THEN Words(block)
            ELSE LET before == words[j - 1] IN Append(before, Expanded(before))
    IN  words[k]

Rounds(hash, words, k) ==
    LET steps[j \in 0..k] ==
            IF j = 0 THEN <<hash>>
            ELSE LET before == steps[j - 1] IN Append(before, Round(before[j], K[j], words[j]))
    IN  steps[k][k + 1]

Compressed(hash, block) ==
    LET done == Rounds(hash, Schedule(block, 48), 64)
    IN  [i \in 1..8 |-> Plus(hash[i], done[i])]

HashValue(padded, k) ==
    LET hash[j \in 0..k] ==
            IF j = 0 THEN sha256_init
            ELSE Compressed(hash[j - 1], SubSeq(padded, Block * (j - 1) + 1, Block * j))
    IN  hash[k]

\* The state that sha256_final reads off is the standard's hash of the padded file:
\* it depends on the bytes of the file alone, not on how fread cut them, on what was
\* buffered, or on what an earlier block left in the schedule and the variables.
StateIsStandard ==
    pc = "done" /\ ~Busy =>
        state = HashValue(Padded(file), Len(Padded(file)) \div Block)

\* A file that can be read is hashed to the end: sha256_final's padding loop,
\* whose exit test is an inequality, stops.
HashingEnds == <>(pc = "failed" \/ (pc = "done" /\ ~Busy))

=============================================================================

---------------------------- MODULE Sha256Block ----------------------------
(***************************************************************************)
(* The arithmetic of the C client's SHA-256 (c/sha256.c: the macros, the   *)
(* tables and the loop bodies of sha256_block).  A uint32_t is the pair of *)
(* its halves, high half first, because a word of 32 bits is outside TLC's *)
(* integers; the arithmetic wraps as it does in C.                         *)
(***************************************************************************)
EXTENDS Integers, Sequences

Half == 65536

Plus(x, y) ==
    LET low == x[2] + y[2]
    IN  <<(x[1] + y[1] + low \div Half) % Half, low % Half>>

\* A half made bit by bit from the bits of two halves, by a truth table.
BitByBit(table, g, h) ==
    LET Bit(x, k) == (x \div 2 ^ k) % 2
        low[n \in 0..16] ==
            IF n = 0 THEN 0 ELSE low[n - 1] + table[Bit(g, n - 1), Bit(h, n - 1)] * 2 ^ (n - 1)
    IN  low[16]

Xor(g, h) == BitByBit([a, b \in 0..1 |-> (a + b) % 2], g, h)

And(g, h) == BitByBit([a, b \in 0..1 |-> a * b], g, h)

BitXor(x, y) == <<Xor(x[1], y[1]), Xor(x[2], y[2])>>

BitAnd(x, y) == <<And(x[1], y[1]), And(x[2], y[2])>>

BitNot(x) == <<Half - 1 - x[1], Half - 1 - x[2]>>

\* The n low bits of h, moved to the top of a half.
Carried(h, n) == (h % 2 ^ n) * 2 ^ (16 - n)

Shr(x, n) == <<x[1] \div 2 ^ n, x[2] \div 2 ^ n + Carried(x[1], n)>>

ROTR(x, n) ==
    LET y == IF n < 16 THEN x ELSE <<x[2], x[1]>>
        s == Shr(y, n % 16)
    IN  <<s[1] + Carried(y[2], n % 16), s[2]>>

CH(x, y, z) == BitXor(BitAnd(x, y), BitAnd(BitNot(x), z))
MAJ(x, y, z) == BitXor(BitXor(BitAnd(x, y), BitAnd(x, z)), BitAnd(y, z))
BSIG0(x) == BitXor(BitXor(ROTR(x, 2), ROTR(x, 13)), ROTR(x, 22))
BSIG1(x) == BitXor(BitXor(ROTR(x, 6), ROTR(x, 11)), ROTR(x, 25))

\* Mutant: the shift is taken for another rotation.
SSIG0_rotates(x) == BitXor(BitXor(ROTR(x, 7), ROTR(x, 18)), ROTR(x, 3))

SSIG0(x) == BitXor(BitXor(ROTR(x, 7), ROTR(x, 18)), Shr(x, 3))
SSIG1(x) == BitXor(BitXor(ROTR(x, 17), ROTR(x, 19)), Shr(x, 10))

K == <<
    <<\h428a, \h2f98>>, <<\h7137, \h4491>>, <<\hb5c0, \hfbcf>>, <<\he9b5, \hdba5>>,
    <<\h3956, \hc25b>>, <<\h59f1, \h11f1>>, <<\h923f, \h82a4>>, <<\hab1c, \h5ed5>>,
    <<\hd807, \haa98>>, <<\h1283, \h5b01>>, <<\h2431, \h85be>>, <<\h550c, \h7dc3>>,
    <<\h72be, \h5d74>>, <<\h80de, \hb1fe>>, <<\h9bdc, \h06a7>>, <<\hc19b, \hf174>>,
    <<\he49b, \h69c1>>, <<\hefbe, \h4786>>, <<\h0fc1, \h9dc6>>, <<\h240c, \ha1cc>>,
    <<\h2de9, \h2c6f>>, <<\h4a74, \h84aa>>, <<\h5cb0, \ha9dc>>, <<\h76f9, \h88da>>,
    <<\h983e, \h5152>>, <<\ha831, \hc66d>>, <<\hb003, \h27c8>>, <<\hbf59, \h7fc7>>,
    <<\hc6e0, \h0bf3>>, <<\hd5a7, \h9147>>, <<\h06ca, \h6351>>, <<\h1429, \h2967>>,
    <<\h27b7, \h0a85>>, <<\h2e1b, \h2138>>, <<\h4d2c, \h6dfc>>, <<\h5338, \h0d13>>,
    <<\h650a, \h7354>>, <<\h766a, \h0abb>>, <<\h81c2, \hc92e>>, <<\h9272, \h2c85>>,
    <<\ha2bf, \he8a1>>, <<\ha81a, \h664b>>, <<\hc24b, \h8b70>>, <<\hc76c, \h51a3>>,
    <<\hd192, \he819>>, <<\hd699, \h0624>>, <<\hf40e, \h3585>>, <<\h106a, \ha070>>,
    <<\h19a4, \hc116>>, <<\h1e37, \h6c08>>, <<\h2748, \h774c>>, <<\h34b0, \hbcb5>>,
    <<\h391c, \h0cb3>>, <<\h4ed8, \haa4a>>, <<\h5b9c, \hca4f>>, <<\h682e, \h6ff3>>,
    <<\h748f, \h82ee>>, <<\h78a5, \h636f>>, <<\h84c8, \h7814>>, <<\h8cc7, \h0208>>,
    <<\h90be, \hfffa>>, <<\ha450, \h6ceb>>, <<\hbef9, \ha3f7>>, <<\hc671, \h78f2>> >>

\* The first sixteen words of the schedule: the block, big-endian.
Words(block) ==
    [i \in 1..16 |-> <<block[4 * i - 3] * 256 + block[4 * i - 2],
                       block[4 * i - 1] * 256 + block[4 * i]>>]

\* Word i + 1 of the schedule, from the i words before it.
Expanded(w) ==
    LET i == Len(w) + 1
    IN  Plus(Plus(SSIG1(w[i - 2]), w[i - 7]), Plus(SSIG0(w[i - 15]), w[i - 16]))

\* One round on the working variables <<a, b, c, d, e, f, g, h>>.
Round(v, k, word) ==
    LET t1 == Plus(Plus(v[8], BSIG1(v[5])), Plus(CH(v[5], v[6], v[7]), Plus(k, word)))
        t2 == Plus(BSIG0(v[1]), MAJ(v[1], v[2], v[3]))
    IN  <<Plus(t1, t2), v[1], v[2], v[3], Plus(v[4], t1), v[5], v[6], v[7]>>

sha256_init == <<
    <<\h6a09, \he667>>, <<\hbb67, \hae85>>, <<\h3c6e, \hf372>>, <<\ha54f, \hf53a>>,
    <<\h510e, \h527f>>, <<\h9b05, \h688c>>, <<\h1f83, \hd9ab>>, <<\h5be0, \hcd19>> >>

\* The bytes of the state, big-endian: what sha256_final stores in digest.
DigestBytes(state) ==
    [n \in 1..32 |->
        LET word == state[(n + 3) \div 4]
            half == word[IF (n - 1) % 4 < 2 THEN 1 ELSE 2]
        IN  IF n % 2 = 1 THEN half \div 256 ELSE half % 256]

=============================================================================

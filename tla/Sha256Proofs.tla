---------------------------- MODULE Sha256Proofs ----------------------------
(***************************************************************************)
(* Proofs about Sha256Stream and Sha256, for every file, every sequence of *)
(* chunk sizes and every block and length-field size.                      *)
(***************************************************************************)
EXTENDS Sha256, SequenceTheorems, WellFoundedInduction, TLAPS

\* What a block may hold: bytes of a file and of a length field.
Data == Nat \cup {LengthBytes(n)[i] : n \in Nat, i \in 1..LengthSize}

Multiple(n) == \E k \in Nat : n = k * Block

-----------------------------------------------------------------------------
(* Induction over the natural numbers, from the library's theorem that a   *)
(* well-founded relation has minimal elements, and the bytes of the length *)
(* field, which LengthBytes takes from a recursive function.               *)

Less == {ss \in Nat \X Nat : ss[1] < ss[2]}

LEMMA LessWellFounded == IsWellFoundedOn(Less, Nat)
  BY NatLessThanWellFounded, Zenon DEF OpToRel, Less

LEMMA LeastElement ==
    ASSUME NEW T \in SUBSET Nat, T # {}
    PROVE  \E x \in T : \A y \in T : x <= y
<1>1. \A x, y \in Nat : <<y, x>> \in Less <=> y < x
  BY Zenon DEF Less
<1>2. PICK x \in T : \A y \in T : ~ (<<y, x>> \in Less)
  BY LessWellFounded, WFMin, Zenon
<1>3. \A y \in T : ~(y < x) /\ y \in Nat /\ x \in Nat
  BY <1>1, <1>2, Zenon
<1>. QED  BY <1>3

LEMMA Induction ==
    ASSUME NEW T \in SUBSET Nat, 0 \in T, \A m \in Nat : m \in T => m + 1 \in T
    PROVE  T = Nat
<1>. SUFFICES ASSUME Nat \ T # {} PROVE FALSE
  BY Zenon
<1>1. PICK x \in Nat \ T : \A y \in Nat \ T : x <= y
  BY LeastElement, Zenon
<1>2. x \in Nat /\ x # 0 /\ x \notin T
  BY <1>1, Zenon
<1>3. x - 1 \in Nat /\ x - 1 \in T
  BY <1>1, <1>2
<1>. QED  BY <1>2, <1>3

\* f is the number n with 0, 1, ..., m of its lowest bytes shifted out.
Shifts(n, m, f) ==
    f = [k \in 0..m |-> IF k = 0 THEN n ELSE f[k - 1] \div Radix]

LEMMA ShiftedNat == ASSUME NEW a \in Nat PROVE a \div Radix \in Nat
  BY Sha256Assumption, SMT

LEMMA ShiftsExist ==
    ASSUME NEW n \in Nat, NEW m \in Nat
    PROVE  \E f \in [0..m -> Nat] : Shifts(n, m, f)
<1>. DEFINE T == {j \in Nat : \E f \in [0..j -> Nat] : Shifts(n, j, f)}
<1>1. 0 \in T
  <2>1. Shifts(n, 0, [k \in 0..0 |-> n])
    BY DEF Shifts
  <2>. QED  BY <2>1, Zenon
<1>2. ASSUME NEW j \in Nat, j \in T PROVE j + 1 \in T
  <2>1. PICK g \in [0..j -> Nat] : Shifts(n, j, g)
    BY <1>2, Zenon
  <2>. DEFINE f == [k \in 0..(j + 1) |-> IF k = j + 1 THEN g[j] \div Radix ELSE g[k]]
  <2>2. f \in [0..(j + 1) -> Nat]
    <3>1. g[j] \div Radix \in Nat
      BY <2>1, ShiftedNat
    <3>2. \A k \in 0..(j + 1) : k # j + 1 => g[k] \in Nat
      BY <2>1
    <3>. QED  BY <3>1, <3>2, Zenon
  <2>3. \A k \in 0..j : g[k] = IF k = 0 THEN n ELSE g[k - 1] \div Radix
    BY <2>1, Zenon DEF Shifts
  <2>4. \A k \in 0..j : f[k] = g[k]
    OBVIOUS
  <2>5. f[j + 1] = f[j] \div Radix
    BY <2>4
  <2>6. ASSUME NEW k \in 0..(j + 1)
        PROVE  f[k] = IF k = 0 THEN n ELSE f[k - 1] \div Radix
    <3>1. CASE k = j + 1
      BY <2>5, <3>1
    <3>2. CASE k # j + 1
      BY <2>3, <2>4, <3>2
    <3>. QED  BY <3>1, <3>2, Zenon
  <2>. HIDE DEF f
  <2>7. Shifts(n, j + 1, f)
    BY <2>2, <2>6, Zenon DEF Shifts
  <2>. QED  BY <2>2, <2>7
<1>. HIDE DEF T
<1>3. T \in SUBSET Nat
  BY Zenon DEF T
<1>4. T = Nat
  BY <1>1, <1>2, <1>3, Induction, Zenon
<1>. QED  BY <1>4, Zenon DEF T

LEMMA ShiftsNat ==
    ASSUME NEW n \in Nat, NEW m \in Nat, NEW f, Shifts(n, m, f)
    PROVE  f \in [0..m -> Nat]
<1>. DEFINE T == {j \in Nat : j <= m => f[j] \in Nat}
<1>1. f = [k \in 0..m |-> IF k = 0 THEN n ELSE f[k - 1] \div Radix]
  BY Zenon DEF Shifts
<1>2. \A k \in 0..m : f[k] = IF k = 0 THEN n ELSE f[k - 1] \div Radix
  BY <1>1, Zenon
<1>3. 0 \in T
  BY <1>2
<1>4. ASSUME NEW j \in Nat, j \in T PROVE j + 1 \in T
  BY <1>2, <1>4, ShiftedNat
<1>5. T = Nat
  <2>. HIDE DEF T
  <2>1. T \in SUBSET Nat
    BY Zenon DEF T
  <2>. QED  BY <1>3, <1>4, <2>1, Induction, Zenon
<1>6. \A j \in 0..m : f[j] \in Nat
  BY <1>5
<1>7. f = [k \in 0..m |-> f[k]]
  BY <1>1, Zenon
<1>. QED  BY <1>6, <1>7, Zenon

\* Every byte of the length field is a number.
LEMMA LengthByte ==
    ASSUME NEW n \in Nat, NEW i \in 1..LengthSize
    PROVE  LengthBytes(n)[i] \in Nat
<1>. DEFINE shifted == CHOOSE f : Shifts(n, LengthSize, f)
<1>1. LengthSize \in Nat /\ Radix \in Nat \ {0}
  BY Sha256Assumption
<1>2. Shifts(n, LengthSize, shifted)
  <2>1. \E f : Shifts(n, LengthSize, f)
    BY <1>1, ShiftsExist, Zenon
  <2>. QED  BY <2>1, Zenon
<1>3. LengthBytes(n) = [j \in 1..LengthSize |-> shifted[LengthSize - j] % Radix]
  BY Zenon DEF LengthBytes, Shifts
<1>. HIDE DEF shifted
<1>4. shifted[LengthSize - i] \in Nat
  BY <1>1, <1>2, ShiftsNat
<1>. QED  BY <1>1, <1>3, <1>4

LEMMA DataIsNat == Data = Nat
  BY LengthByte DEF Data

-----------------------------------------------------------------------------
(* Arithmetic of blocks.                                                   *)

LEMMA DivMod ==
    ASSUME NEW n \in Nat
    PROVE  \E q \in Nat, r \in 0..(Block - 1) :
              q = n \div Block /\ r = n % Block /\ n = q * Block + r
<1>1. \A m \in Nat, b \in Nat \ {0} : \E q \in Nat, r \in 0..(b - 1) :
         q = m \div b /\ r = m % b /\ m = q * b + r
  BY Z3
<1>2. Block \in Nat \ {0}
  BY Sha256Assumption
<1>. QED  BY <1>1, <1>2, Zenon

LEMMA WholeFacts ==
    ASSUME NEW n \in Nat, NEW whole, whole = (n \div Block) * Block
    PROVE  /\ whole \in 0..n /\ n - whole < Block /\ Multiple(whole)
           /\ n < Block => whole = 0
<1>1. PICK q \in Nat, r \in 0..(Block - 1) : q = n \div Block /\ n = q * Block + r
  BY DivMod, Zenon
<1>2. whole = q * Block
  BY <1>1, Zenon
<1>3. whole \in Nat /\ n = whole + r
  BY <1>1, <1>2, Sha256Assumption
<1>4. Multiple(whole)
  BY <1>2, Zenon DEF Multiple
<1>5. n < Block => whole = 0
  <2>. SUFFICES ASSUME n < Block, q > 0 PROVE FALSE
    BY <1>2, Sha256Assumption
  <2>1. PICK d \in Nat : q = d + 1
    OBVIOUS
  <2>2. q * Block = d * Block + Block /\ d * Block >= 0
    BY <2>1, Sha256Assumption
  <2>. QED  BY <1>2, <1>3, <2>2, Sha256Assumption
<1>. QED  BY <1>3, <1>4, <1>5, Sha256Assumption

LEMMA MultipleAdd ==
    ASSUME NEW m \in Nat, NEW n \in Nat, Multiple(m), Multiple(n)
    PROVE  Multiple(m + n)
<1>1. PICK k \in Nat : m = k * Block
  BY Zenon DEF Multiple
<1>2. PICK l \in Nat : n = l * Block
  BY Zenon DEF Multiple
<1>3. m + n = (k + l) * Block /\ k + l \in Nat
  BY <1>1, <1>2, Sha256Assumption
<1>. QED  BY <1>3, Zenon DEF Multiple

LEMMA MultipleBlock == Multiple(0) /\ Multiple(Block)
<1>1. 0 = 0 * Block /\ Block = 1 * Block
  BY Sha256Assumption
<1>. QED  BY <1>1, Zenon DEF Multiple

LEMMA MultipleMod ==
    ASSUME NEW n \in Nat
    PROVE  Multiple(n) <=> n % Block = 0
<1>1. ASSUME n % Block = 0 PROVE Multiple(n)
  <2>1. PICK q \in Nat : n = q * Block + 0
    BY <1>1, DivMod
  <2>2. n = q * Block
    BY <2>1, Sha256Assumption
  <2>. QED  BY <2>2, Zenon DEF Multiple
<1>2. ASSUME Multiple(n) PROVE n % Block = 0
  <2>1. PICK k \in Nat : n = k * Block
    BY <1>2, Zenon DEF Multiple
  <2>2. (k * Block) % Block = 0
    BY <2>1, Sha256Assumption, SMT
  <2>. QED  BY <2>1, <2>2, Zenon
<1>. QED  BY <1>1, <1>2, Zenon

\* Two multiples of the block size less than a block apart are the same.
LEMMA MultipleUnique ==
    ASSUME NEW m \in Nat, NEW n \in Nat, Multiple(m), Multiple(n),
           m - n < Block, n - m < Block
    PROVE  m = n
<1>1. PICK k \in Nat : m = k * Block
  BY Zenon DEF Multiple
<1>2. PICK l \in Nat : n = l * Block
  BY Zenon DEF Multiple
<1>3. ASSUME NEW a \in Nat, NEW b \in Nat, a > b PROVE a * Block - b * Block >= Block
  <2>1. a * Block - b * Block = (a - b) * Block
    BY Sha256Assumption
  <2>2. PICK d \in Nat : a - b = d + 1
    BY <1>3
  <2>3. (d + 1) * Block = d * Block + Block /\ d * Block >= 0
    BY Sha256Assumption
  <2>. QED  BY <2>1, <2>2, <2>3, Sha256Assumption
<1>. QED  BY <1>1, <1>2, <1>3, Sha256Assumption

-----------------------------------------------------------------------------
(* Cutting and joining sequences.                                          *)

LEMMA Split ==
    ASSUME NEW S, NEW s \in Seq(S), NEW k \in 0..Len(s)
    PROVE  /\ SubSeq(s, 1, k) \in Seq(S) /\ Len(SubSeq(s, 1, k)) = k
           /\ SubSeq(s, k + 1, Len(s)) \in Seq(S)
           /\ Len(SubSeq(s, k + 1, Len(s))) = Len(s) - k
           /\ SubSeq(s, 1, k) \o SubSeq(s, k + 1, Len(s)) = s
<1>. DEFINE a == SubSeq(s, 1, k)
            b == SubSeq(s, k + 1, Len(s))
<1>1. Len(s) \in Nat /\ \A i \in 1..Len(s) : s[i] \in S
  BY ElementOfSeq, LenProperties, Zenon
<1>2. /\ a \in Seq(S) /\ Len(a) = k
      /\ \A i \in 1..k : a[i] = s[i]
  <2>1. \A i \in 1..k : s[i] \in S
    BY <1>1
  <2>. QED  BY <1>1, <2>1, SubSeqProperties
<1>3. /\ b \in Seq(S) /\ Len(b) = Len(s) - k
      /\ \A i \in 1..(Len(s) - k) : b[i] = s[k + i]
  <2>1. \A i \in (k + 1)..Len(s) : s[i] \in S
    BY <1>1
  <2>. QED  BY <1>1, <2>1, SubSeqProperties
<1>. HIDE DEF a, b
<1>4. /\ a \o b \in Seq(S) /\ Len(a \o b) = Len(s)
      /\ \A i \in 1..Len(s) : (a \o b)[i] = IF i <= k THEN a[i] ELSE b[i - k]
  BY <1>1, <1>2, <1>3
<1>5. \A i \in 1..Len(s) : (a \o b)[i] = s[i]
  BY <1>1, <1>2, <1>3, <1>4
<1>6. a \o b = s
  BY <1>1, <1>4, <1>5, SeqEqual, Zenon
<1>. QED  BY <1>2, <1>3, <1>6, Zenon DEF a, b

LEMMA Joined ==
    ASSUME NEW S, NEW s \in Seq(S), NEW t \in Seq(S)
    PROVE  /\ s \o t \in Seq(S) /\ Len(s \o t) = Len(s) + Len(t)
           /\ s \o <<>> = s /\ <<>> \o s = s
BY ConcatProperties, ConcatEmptySeq

\* Concatenation, opaque to the provers.
Cat(s, t) == s \o t

LEMMA CatClosed ==
    ASSUME NEW S, NEW s \in Seq(S), NEW t \in Seq(S)
    PROVE  Cat(s, t) \in Seq(S)
BY Joined, Zenon DEF Cat

LEMMA Assoc ==
    ASSUME NEW S, NEW s \in Seq(S), NEW t \in Seq(S), NEW u \in Seq(S)
    PROVE  Cat(Cat(s, t), u) = Cat(s, Cat(t, u))
BY SMTT(20) DEF Cat

\* A block topped up from a buffer, whole blocks, and what is left.
LEMMA Regrouped ==
    ASSUME NEW S, NEW h \in Seq(S), NEW b \in Seq(S), NEW x \in Seq(S),
           NEW y \in Seq(S), NEW z \in Seq(S)
    PROVE  Cat(Cat(Cat(h, Cat(b, x)), y), z) = Cat(Cat(h, b), Cat(x, Cat(y, z)))
<1>1. \A s, t \in Seq(S) : Cat(s, t) \in Seq(S)
  BY CatClosed, Zenon
<1>2. \A s, t, u \in Seq(S) : Cat(Cat(s, t), u) = Cat(s, Cat(t, u))
  BY Assoc
<1>3. Cat(h, Cat(b, x)) = Cat(Cat(h, b), x)
  BY <1>2
<1>4. PICK g \in Seq(S), yz \in Seq(S) : g = Cat(h, b) /\ yz = Cat(y, z)
  BY <1>1, Zenon
<1>5. PICK gx \in Seq(S) : gx = Cat(g, x)
  BY <1>1, Zenon
<1>6. Cat(Cat(gx, y), z) = Cat(gx, yz)
  BY <1>2, <1>4
<1>7. Cat(gx, yz) = Cat(g, Cat(x, yz))
  BY <1>2, <1>5
<1>. QED  BY <1>3, <1>4, <1>5, <1>6, <1>7, Zenon

-----------------------------------------------------------------------------
(* One call of sha256_update: the bytes go in order, at most a part of a   *)
(* block stays behind.                                                     *)

LEMMA EmptyOrNot ==
    ASSUME NEW S, NEW s \in Seq(S)
    PROVE  Len(s) \in Nat /\ (Len(s) = 0 <=> s = <<>>) /\ <<>> \in Seq(S) /\ Len(<<>>) = 0
BY EmptySeq, LenProperties, Zenon

\* g begins with h.
Extends(h, g) == Len(h) <= Len(g) /\ \A i \in 1..Len(h) : g[i] = h[i]

LEMMA JoinExtends ==
    ASSUME NEW S, NEW s \in Seq(S), NEW t \in Seq(S), NEW u \in Seq(S)
    PROVE  Extends(s, (s \o t) \o u) /\ Extends(s, s)
<1>1. /\ s \o t \in Seq(S) /\ Len(s \o t) = Len(s) + Len(t)
      /\ \A i \in 1..Len(s) : (s \o t)[i] = s[i]
  BY ConcatProperties, LenProperties
<1>2. /\ Len((s \o t) \o u) = Len(s \o t) + Len(u)
      /\ \A i \in 1..Len(s \o t) : ((s \o t) \o u)[i] = (s \o t)[i]
  BY <1>1, ConcatProperties, LenProperties
<1>. QED  BY <1>1, <1>2, LenProperties, SMTT(20) DEF Extends

LEMMA UpdateFacts ==
    ASSUME hashed \in Seq(Data), buffer \in Seq(Data), Len(buffer) < Block,
           Multiple(Len(hashed)), NEW chunk \in Seq(Data), sha256_update(chunk)
    PROVE  /\ hashed' \in Seq(Data) /\ buffer' \in Seq(Data) /\ Len(buffer') < Block
           /\ Multiple(Len(hashed'))
           /\ hashed' \o buffer' = (hashed \o buffer) \o chunk
           /\ Extends(hashed, hashed')
<1>. DEFINE take == IF buffer # <<>> THEN Smaller(Len(chunk), Block - Len(buffer)) ELSE 0
            x == SubSeq(chunk, 1, take)
            top == buffer \o x
            full == Len(top) = Block
            rest == SubSeq(chunk, take + 1, Len(chunk))
            whole == (Len(rest) \div Block) * Block
            mid == SubSeq(rest, 1, whole)
            left == SubSeq(rest, whole + 1, Len(rest))
<1>1. /\ hashed' = (hashed \o (IF full THEN top ELSE <<>>)) \o mid
      /\ buffer' = IF left # <<>> THEN left ELSE IF full THEN <<>> ELSE top
  BY Zenon DEF sha256_update
<1>2. /\ Len(chunk) \in Nat /\ Len(buffer) \in Nat /\ Len(hashed) \in Nat
      /\ Len(buffer) = 0 <=> buffer = <<>>
  BY EmptyOrNot, Zenon
<1>3. /\ take \in 0..Len(chunk)
      /\ buffer = <<>> => take = 0
      /\ buffer # <<>> => \/ take = Len(chunk) /\ Len(buffer) + take <= Block
                          \/ Len(buffer) + take = Block
  BY <1>2, Sha256Assumption DEF Smaller
<1>4. /\ x \in Seq(Data) /\ Len(x) = take
      /\ rest \in Seq(Data) /\ Len(rest) = Len(chunk) - take
      /\ x \o rest = chunk
  <2>. HIDE DEF take
  <2>. QED  BY <1>3, Split, ZenonT(30)
<1>5. /\ top \in Seq(Data) /\ Len(top) = Len(buffer) + take
  <2>. HIDE DEF take, x
  <2>. QED  BY <1>4, Joined, Zenon
<1>. HIDE DEF take, x, top, rest
<1>6. whole \in 0..Len(rest) /\ Len(rest) - whole < Block /\ Multiple(whole)
  <2>1. Len(rest) \in Nat
    BY <1>4, EmptyOrNot, Zenon
  <2>. QED  BY <2>1, WholeFacts, Zenon
<1>. HIDE DEF whole
<1>7. /\ mid \in Seq(Data) /\ Len(mid) = whole
      /\ left \in Seq(Data) /\ Len(left) = Len(rest) - whole
      /\ mid \o left = rest
  BY <1>4, <1>6, Split, ZenonT(30)
<1>. HIDE DEF mid, left
<1>8. /\ Len(top) \in Nat /\ Len(rest) \in Nat /\ Len(left) \in Nat
      /\ Len(left) = 0 <=> left = <<>>
      /\ Len(rest) = 0 <=> rest = <<>>
      /\ Len(top) = 0 <=> top = <<>>
      /\ Len(mid) = 0 <=> mid = <<>>
      /\ Len(<<>>) = 0 /\ <<>> \in Seq(Data)
  BY <1>4, <1>5, <1>7, EmptyOrNot, Zenon
<1>9. CASE full \/ buffer = <<>>
  <2>1. /\ hashed' = (hashed \o top) \o mid
        /\ buffer' = left
        /\ Len(top) = Block \/ Len(top) = 0
    <3>1. CASE full
      BY <3>1, <1>1, Zenon
    <3>2. CASE buffer = <<>> /\ ~full
      <4>1. top = <<>>
        BY <3>2, <1>2, <1>3, <1>5, <1>8
      <4>. QED  BY <3>2, <4>1, <1>1, <1>8, Zenon
    <3>. QED  BY <1>9, <3>1, <3>2, Zenon
  <2>2. /\ hashed \o top \in Seq(Data) /\ Len(hashed \o top) = Len(hashed) + Len(top)
    BY <1>5, Joined, Zenon
  <2>3. /\ hashed' \in Seq(Data) /\ Len(hashed') = (Len(hashed) + Len(top)) + whole
    <3>. DEFINE g == hashed \o top
    <3>1. g \in Seq(Data) /\ Len(g) = Len(hashed) + Len(top) /\ hashed' = g \o mid
      BY <2>1, <2>2, Zenon
    <3>. HIDE DEF g
    <3>2. g \o mid \in Seq(Data) /\ Len(g \o mid) = Len(g) + Len(mid)
      BY <1>7, <3>1, Joined, Zenon
    <3>. QED  BY <1>7, <3>1, <3>2, Zenon
  <2>4. Multiple(Len(top)) /\ Multiple(Len(hashed) + Len(top))
    BY <1>2, <1>8, <2>1, MultipleBlock, MultipleAdd, Zenon
  <2>5. Multiple(Len(hashed'))
    <3>1. Len(hashed) + Len(top) \in Nat /\ whole \in Nat
      BY <1>2, <1>6, <1>8
    <3>. QED  BY <1>6, <2>3, <2>4, <3>1, MultipleAdd, Zenon
  <2>6. Len(left) < Block
    BY <1>6, <1>7, Zenon
  <2>7. (((hashed \o top) \o mid) \o left) = (hashed \o buffer) \o chunk
    <3>1. Cat(Cat(Cat(hashed, Cat(buffer, x)), mid), left)
             = Cat(Cat(hashed, buffer), Cat(x, Cat(mid, left)))
      <4>1. x \in Seq(Data) /\ mid \in Seq(Data) /\ left \in Seq(Data)
        BY <1>4, <1>7, Zenon
      <4>2. \A h, b, c, y, z \in Seq(Data) :
               Cat(Cat(Cat(h, Cat(b, c)), y), z) = Cat(Cat(h, b), Cat(c, Cat(y, z)))
        BY Regrouped
      <4>. QED  BY <4>1, <4>2
    <3>2. Cat(x, Cat(mid, left)) = chunk
      BY <1>4, <1>7, SMTT(20) DEF Cat
    <3>. QED  BY <3>1, <3>2, Zenon DEF Cat, top
  <2>8. Extends(hashed, hashed')
    BY <1>5, <1>7, <2>1, JoinExtends, Zenon
  <2>. QED  BY <1>7, <2>1, <2>3, <2>5, <2>6, <2>7, <2>8, SMTT(20)
<1>10. CASE ~full /\ buffer # <<>>
  <2>1. take = Len(chunk) /\ Len(top) < Block /\ Len(rest) = 0
    <3>1. Len(top) # Block
      BY <1>10, Zenon
    <3>2. Len(buffer) + take <= Block /\ take = Len(chunk)
      BY <1>10, <1>2, <1>3, <1>5, <3>1, Zenon
    <3>3. Len(top) = Len(buffer) + take /\ Len(rest) = Len(chunk) - take
      BY <1>4, <1>5, Zenon
    <3>4. take \in Nat
      BY <1>2, <3>2, Zenon
    <3>5. Len(top) <= Block
      BY <3>2, <3>3, Zenon
    <3>6. Len(top) \in Nat /\ Block \in Nat
      BY <1>8, Sha256Assumption, Zenon
    <3>7. Len(top) < Block
      BY <3>1, <3>5, <3>6
    <3>8. Len(rest) = 0
      BY <3>2, <3>3, <3>4
    <3>. QED  BY <3>2, <3>7, <3>8, Zenon
  <2>2. rest = <<>> /\ mid = <<>> /\ left = <<>>
    BY <2>1, <1>6, <1>7, <1>8
  <2>3. x = chunk
    BY <2>2, <1>4, Joined, Zenon
  <2>4. hashed' = hashed /\ buffer' = buffer \o chunk
    BY <2>2, <2>3, <1>1, <1>10, Joined, Zenon DEF top
  <2>5. hashed \o (buffer \o chunk) = (hashed \o buffer) \o chunk
    <3>1. Cat(Cat(hashed, buffer), chunk) = Cat(hashed, Cat(buffer, chunk))
      BY Assoc
    <3>. QED  BY <3>1, Zenon DEF Cat
  <2>6. Extends(hashed, hashed')
    BY <2>4, JoinExtends, Zenon
  <2>. QED  BY <1>5, <2>1, <2>3, <2>4, <2>5, <2>6, Zenon DEF top
<1>. QED  BY <1>9, <1>10, Zenon

-----------------------------------------------------------------------------
(* The padding.                                                            *)

Zeros(k) == [i \in 1..k |-> 0]

ZeroCount(m) == CHOOSE k \in 0..(Block - 1) :
                   (Len(m) + 1 + k + LengthSize) % Block = 0

LEMMA ZerosFacts ==
    ASSUME NEW k \in Nat
    PROVE  /\ Zeros(k) \in Seq(Data) /\ Len(Zeros(k)) = k
           /\ Zeros(k) \o <<0>> = Zeros(k + 1)
<1>1. 0 \in Data
  BY DEF Data
<1>2. \A j \in Nat : Zeros(j) \in Seq(Data) /\ Len(Zeros(j)) = j
                      /\ \A i \in 1..j : Zeros(j)[i] = 0
  BY <1>1 DEF Zeros
<1>3. <<0>> \in Seq(Data) /\ Len(<<0>>) = 1 /\ <<0>>[1] = 0
  BY <1>1
<1>4. PICK z \in Seq(Data) : z = Zeros(k) /\ Len(z) = k /\ \A i \in 1..k : z[i] = 0
  BY <1>2, Zenon
<1>5. /\ z \o <<0>> \in Seq(Data) /\ Len(z \o <<0>>) = k + 1
      /\ \A i \in 1..(k + 1) : (z \o <<0>>)[i] = 0
  BY <1>3, <1>4
<1>6. z \o <<0>> = Zeros(k + 1)
  <2>1. k + 1 \in Nat
    OBVIOUS
  <2>. QED  BY <1>2, <1>5, <2>1, SeqEqual, Zenon
<1>. QED  BY <1>2, <1>4, <1>6, Zenon

LEMMA LengthFacts ==
    ASSUME NEW n \in Nat
    PROVE  LengthBytes(n) \in Seq(Data) /\ Len(LengthBytes(n)) = LengthSize
<1>1. LengthSize \in Nat
  BY Sha256Assumption
<1>2. PICK e : LengthBytes(n) = [i \in 1..LengthSize |-> e[i]]
  <2>1. LengthBytes(n) = [i \in 1..LengthSize |-> LengthBytes(n)[i]]
    BY DEF LengthBytes
  <2>. QED  BY <2>1, Zenon
<1>3. \A i \in 1..LengthSize : e[i] \in Data
  <2>. TAKE i \in 1..LengthSize
  <2>1. LengthBytes(n)[i] = e[i]
    BY <1>2, Zenon
  <2>2. LengthBytes(n)[i] \in Data
    BY DEF Data
  <2>. QED  BY <2>1, <2>2, Zenon
<1>4. [i \in 1..LengthSize |-> e[i]] \in Seq(Data)
  BY <1>1, <1>3
<1>5. Len([i \in 1..LengthSize |-> e[i]]) = LengthSize
  BY <1>1
<1>. QED  BY <1>2, <1>4, <1>5, Zenon

\* There is a number of zeros that fills the last block.
LEMMA ZeroCountFacts ==
    ASSUME NEW f \in Seq(Nat)
    PROVE  /\ ZeroCount(f) \in 0..(Block - 1)
           /\ Multiple(Len(f) + 1 + ZeroCount(f) + LengthSize)
<1>. DEFINE n == Len(f) + 1 + LengthSize
<1>1. Len(f) \in Nat /\ n \in Nat
  BY LenProperties, Sha256Assumption
<1>2. PICK q \in Nat, r \in 0..(Block - 1) : n = q * Block + r
  <2>. HIDE DEF n
  <2>. QED  BY <1>1, DivMod, Zenon
<1>3. \E k \in 0..(Block - 1) : Multiple(Len(f) + 1 + k + LengthSize)
  <2>1. CASE r = 0
    <3>1. Len(f) + 1 + 0 + LengthSize = q * Block
      BY <1>1, <1>2, <2>1, Sha256Assumption
    <3>2. Multiple(Len(f) + 1 + 0 + LengthSize)
      BY <3>1, Zenon DEF Multiple
    <3>. QED  BY <3>2, Sha256Assumption
  <2>2. CASE r # 0
    <3>1. (q + 1) * Block = q * Block + Block
      BY Sha256Assumption
    <3>2. Block - r \in 0..(Block - 1)
      BY <2>2, Sha256Assumption
    <3>3. Len(f) + 1 + (Block - r) + LengthSize = (q + 1) * Block
      <4>. DEFINE below == q * Block
      <4>1. below \in Nat /\ n = below + r /\ (q + 1) * Block = below + Block
        BY <1>2, <3>1, Sha256Assumption
      <4>. HIDE DEF below
      <4>. QED  BY <1>1, <4>1, Sha256Assumption
    <3>4. Multiple(Len(f) + 1 + (Block - r) + LengthSize)
      BY <3>3 DEF Multiple
    <3>. QED  BY <3>2, <3>4, Zenon
  <2>. QED  BY <2>1, <2>2, Zenon
<1>4. \A k \in 0..(Block - 1) : /\ Len(f) + 1 + k + LengthSize \in Nat
                               /\ Multiple(Len(f) + 1 + k + LengthSize)
                                    <=> (Len(f) + 1 + k + LengthSize) % Block = 0
  <2>. TAKE k \in 0..(Block - 1)
  <2>1. Len(f) + 1 + k + LengthSize \in Nat
    BY <1>1, Sha256Assumption
  <2>. QED  BY <2>1, MultipleMod, Zenon
<1>5. \E k \in 0..(Block - 1) : (Len(f) + 1 + k + LengthSize) % Block = 0
  <2>1. PICK k \in 0..(Block - 1) : Multiple(Len(f) + 1 + k + LengthSize)
    BY <1>3, Zenon
  <2>2. (Len(f) + 1 + k + LengthSize) % Block = 0
    <3>. DEFINE t == Len(f) + 1 + k + LengthSize
    <3>1. t \in Nat
      BY <1>1, Sha256Assumption
    <3>2. Multiple(t)
      BY <2>1, Zenon
    <3>. HIDE DEF t
    <3>3. t % Block = 0
      BY <3>1, <3>2, MultipleMod, Zenon
    <3>. QED  BY <3>3, Zenon DEF t
  <2>. QED  BY <2>2, Zenon
<1>6. ZeroCount(f) \in 0..(Block - 1) /\ (Len(f) + 1 + ZeroCount(f) + LengthSize) % Block = 0
  BY <1>5, Zenon DEF ZeroCount
<1>. QED  BY <1>4, <1>6, Zenon

-----------------------------------------------------------------------------
(* The invariant: what has been compressed and buffered, at each stage.    *)

Streams ==
    /\ file \in Files
    /\ hashed \in Seq(Data) /\ Multiple(Len(hashed))
    /\ buffer \in Seq(Data) /\ Len(buffer) < Block

Reads ==
    pc = "update" =>
        /\ hashed \o buffer = message
        /\ message \in Seq(Data) /\ Len(message) <= Len(file)
        /\ message = SubSeq(file, 1, Len(message))
        /\ bit_count = 8 * Len(message)

Pads ==
    pc = "zeros" =>
        /\ bits = 8 * Len(file)
        /\ \E k \in 0..ZeroCount(file) :
              hashed \o buffer = (file \o <<128>>) \o Zeros(k)

SInv == Streams /\ Reads /\ Pads /\ HashesPadded

LEMMA FileFacts ==
    ASSUME file \in Files
    PROVE  /\ file \in Seq(Nat) /\ file \in Seq(Data) /\ Len(file) \in Nat
           /\ <<128>> \in Seq(Data) /\ Len(<<128>>) = 1
           /\ <<0>> \in Seq(Data) /\ Len(<<0>>) = 1
           /\ file \o <<128>> \in Seq(Data) /\ Len(file \o <<128>>) = Len(file) + 1
<1>1. file \in Seq(Nat)
  BY Sha256Assumption, Zenon
<1>2. Nat \subseteq Data
  BY DEF Data
<1>3. file \in Seq(Data)
  BY <1>1, <1>2
<1>4. /\ <<128>> \in Seq(Data) /\ Len(<<128>>) = 1
      /\ <<0>> \in Seq(Data) /\ Len(<<0>>) = 1
  BY <1>2
<1>5. file \o <<128>> \in Seq(Data) /\ Len(file \o <<128>>) = Len(file) + 1
  BY <1>3, <1>4, Joined
<1>. QED  BY <1>1, <1>3, <1>4, <1>5, LenProperties, Zenon

LEMMA SInit == Init => SInv
<1>. SUFFICES ASSUME Init PROVE SInv
  BY Zenon
<1>1. <<>> \in Seq(Data) /\ Len(<<>>) = 0 /\ <<>> \o <<>> = <<>>
  BY EmptyOrNot, Joined
<1>2. Streams
  BY <1>1, MultipleBlock, Sha256Assumption DEF Init, Streams
<1>3. Reads
  <2>1. Len(file) \in Nat
    BY FileFacts, Zenon DEF Init
  <2>2. SubSeq(file, 1, 0) = <<>>
    BY SubSeqEmpty, FileFacts DEF Init
  <2>. QED  BY <1>1, <2>1, <2>2 DEF Init, Reads
<1>. QED  BY <1>2, <1>3, Zenon DEF Init, SInv, Pads, HashesPadded

\* A step that passes bytes to sha256_update keeps the blocks in shape.
LEMMA StreamStep ==
    ASSUME Streams, NEW chunk \in Seq(Data), sha256_update(chunk), UNCHANGED file
    PROVE  /\ Streams' /\ hashed' \o buffer' = (hashed \o buffer) \o chunk
           /\ Extends(hashed, hashed')
<1>1. /\ hashed' \in Seq(Data) /\ buffer' \in Seq(Data) /\ Len(buffer') < Block
      /\ Multiple(Len(hashed'))
      /\ hashed' \o buffer' = (hashed \o buffer) \o chunk
      /\ Extends(hashed, hashed')
  BY UpdateFacts, Zenon DEF Streams
<1>2. Len(buffer)' < Block /\ Multiple(Len(hashed))'
  BY <1>1, Zenon DEF Multiple
<1>. QED  BY <1>1, <1>2, Zenon DEF Streams

LEMMA UpdateStep == SInv /\ Update => SInv' /\ Extends(hashed, hashed')
<1>. SUFFICES ASSUME SInv, Update PROVE SInv' /\ Extends(hashed, hashed')
  BY Zenon
<1>1. PICK n \in Chunk :
         LET got == Smaller(n, Len(file) - Len(message))
             chunk == SubSeq(file, Len(message) + 1, Len(message) + got)
         IN  /\ sha256_update(chunk)
             /\ message' = message \o chunk
             /\ bit_count' = Counted(got)
  BY Zenon DEF Update
<1>. DEFINE m == Len(message)
            got == Smaller(n, Len(file) - m)
            chunk == SubSeq(file, m + 1, m + got)
<1>2. /\ pc = "update" /\ pc' = "update" /\ file' = file
      /\ m < Len(file)
      /\ sha256_update(chunk) /\ message' = message \o chunk
      /\ bit_count' = bit_count + 8 * got
  BY <1>1, Zenon DEF Update, Counted
<1>3. /\ Streams /\ message = SubSeq(file, 1, m) /\ message \in Seq(Data)
      /\ hashed \o buffer = message /\ bit_count = 8 * m
  BY <1>2, SMTT(20) DEF SInv, Reads
<1>4. /\ file \in Seq(Data) /\ Len(file) \in Nat /\ m \in Nat
  BY <1>3, FileFacts, LenProperties, Zenon DEF Streams
<1>5. got \in Nat /\ m + got <= Len(file)
  BY <1>2, <1>4, Sha256Assumption DEF Smaller
<1>. HIDE DEF got
<1>6. /\ chunk \in Seq(Data) /\ Len(chunk) = got
      /\ SubSeq(file, 1, m) \o chunk = SubSeq(file, 1, m + got)
  <2>1. PICK p \in Seq(Data) : /\ p = SubSeq(file, 1, m + got) /\ Len(p) = m + got
                               /\ \A i \in 1..(m + got) : p[i] = file[i]
    <3>1. m + got \in 0..Len(file) /\ \A i \in 1..Len(file) : file[i] \in Data
      BY <1>4, <1>5, ElementOfSeq
    <3>. DEFINE e == m + got
                q == SubSeq(file, 1, e)
    <3>2. e \in 0..Len(file)
      BY <3>1, Zenon
    <3>. HIDE DEF e
    <3>3. q \in Seq(Data) /\ Len(q) = e
      BY <1>4, <3>2, Split, Zenon
    <3>4. \A i \in 1..e : q[i] = file[i]
      BY <1>4, <3>2
    <3>. QED  BY <3>3, <3>4, Zenon DEF e
  <2>2. SubSeq(p, 1, m) = SubSeq(file, 1, m) /\ SubSeq(p, m + 1, m + got) = chunk
    BY <1>4, <1>5, <2>1
  <2>3. m \in 0..Len(p)
    BY <1>4, <1>5, <2>1
  <2>4. /\ SubSeq(p, m + 1, Len(p)) \in Seq(Data)
        /\ Len(SubSeq(p, m + 1, Len(p))) = Len(p) - m
        /\ SubSeq(p, 1, m) \o SubSeq(p, m + 1, Len(p)) = p
    BY <2>3, Split, ZenonT(30)
  <2>5. SubSeq(p, m + 1, Len(p)) = chunk /\ Len(p) - m = got
    BY <1>4, <1>5, <2>1, <2>2
  <2>. QED  BY <2>1, <2>2, <2>4, <2>5, Zenon
<1>. HIDE DEF chunk
<1>7. Streams' /\ hashed' \o buffer' = message \o chunk /\ Extends(hashed, hashed')
  BY <1>2, <1>3, <1>6, StreamStep, Zenon
<1>8. message \o chunk \in Seq(Data) /\ Len(message \o chunk) = m + got
  BY <1>3, <1>6, Joined, ZenonT(30)
<1>9. Reads'
  <2>1. Len(message') = m + got /\ message' = SubSeq(file', 1, m + got)
    BY <1>2, <1>3, <1>6, <1>8, Zenon
  <2>2. bit_count' = 8 * (m + got)
    BY <1>2, <1>3, <1>4, <1>5
  <2>. QED  BY <1>2, <1>5, <1>7, <1>8, <2>1, <2>2, Zenon DEF Reads
<1>. QED  BY <1>2, <1>7, <1>9, Zenon DEF SInv, Pads, HashesPadded

LEMMA PadOneStep == SInv /\ PadOne => SInv' /\ Extends(hashed, hashed')
<1>. SUFFICES ASSUME SInv, PadOne PROVE SInv' /\ Extends(hashed, hashed')
  OBVIOUS
<1>1. /\ pc = "update" /\ pc' = "zeros" /\ file' = file /\ message = file
      /\ bits' = bit_count /\ sha256_update(<<128>>)
  BY Zenon DEF PadOne
<1>2. Streams /\ hashed \o buffer = file /\ bit_count = 8 * Len(file)
  BY <1>1, Zenon DEF SInv, Reads
<1>3. /\ <<128>> \in Seq(Data) /\ file \o <<128>> \in Seq(Data) /\ file \in Seq(Nat)
  BY <1>2, FileFacts, Zenon DEF Streams
<1>4. Streams' /\ hashed' \o buffer' = file \o <<128>> /\ Extends(hashed, hashed')
  BY <1>1, <1>2, <1>3, StreamStep, Zenon
<1>5. file \o <<128>> = (file \o <<128>>) \o Zeros(0)
  <2>1. Zeros(0) = <<>>
    BY ZerosFacts, EmptyOrNot, Zenon
  <2>2. PICK g \in Seq(Data) : g = file \o <<128>>
    BY <1>3, Zenon
  <2>3. g \o <<>> = g
    BY Joined, Zenon
  <2>. QED  BY <2>1, <2>2, <2>3, Zenon
<1>6. Pads'
  <2>1. 0 \in 0..ZeroCount(file)
    BY <1>3, ZeroCountFacts, Sha256Assumption
  <2>2. \E k \in 0..ZeroCount(file) : hashed' \o buffer' = (file \o <<128>>) \o Zeros(k)
    BY <1>4, <1>5, <2>1, SMTT(20)
  <2>3. bits' = 8 * Len(file)
    BY <1>1, <1>2, Zenon
  <2>. QED  BY <1>1, <2>2, <2>3, Zenon DEF Pads, ZeroCount
<1>. QED  BY <1>1, <1>4, <1>6, Zenon DEF SInv, Reads, HashesPadded

\* k zeros of the padding are in.
PaddedBy(k) == hashed \o buffer = (file \o <<128>>) \o Zeros(k)

\* Where the padding stands: the buffer is at the length field exactly when all
\* the zeros are in.
LEMMA PadPlace ==
    ASSUME Streams, NEW k \in 0..ZeroCount(file), PaddedBy(k)
    PROVE  /\ k \in Nat /\ ZeroCount(file) \in Nat
           /\ Len(buffer) = Block - LengthSize <=> k = ZeroCount(file)
<1>. DEFINE h == Len(hashed)
            b == Len(buffer)
            f == Len(file)
            z == ZeroCount(file)
<1>1. /\ h \in Nat /\ b \in Nat /\ b < Block /\ Multiple(h)
  BY LenProperties, Zenon DEF Streams
<1>2. /\ f \in Nat /\ z \in 0..(Block - 1) /\ Multiple(f + 1 + z + LengthSize)
      /\ file \o <<128>> \in Seq(Data) /\ Len(file \o <<128>>) = f + 1
  BY FileFacts, ZeroCountFacts, Zenon DEF Streams
<1>3. k \in Nat /\ z \in Nat /\ k <= z
  BY <1>2, Sha256Assumption
<1>4. h + b = f + 1 + k
  <2>1. PICK g \in Seq(Data) : g = file \o <<128>> /\ Len(g) = f + 1
    BY <1>2, Zenon
  <2>2. Zeros(k) \in Seq(Data) /\ Len(Zeros(k)) = k
    BY <1>3, ZerosFacts, Zenon
  <2>3. Len(g \o Zeros(k)) = f + 1 + k
    BY <2>1, <2>2, Joined
  <2>4. Len(hashed \o buffer) = h + b
    BY Joined, ZenonT(30) DEF Streams
  <2>. QED  BY <2>1, <2>3, <2>4, Zenon DEF PaddedBy
<1>. HIDE DEF h, b, f, z
<1>5. b = Block - LengthSize => k = z
  <2>. HAVE b = Block - LengthSize
  <2>1. h + Block = f + 1 + k + LengthSize
    BY <1>1, <1>2, <1>3, <1>4, Sha256Assumption
  <2>2. Multiple(h + Block)
    BY <1>1, MultipleBlock, MultipleAdd, Sha256Assumption, Zenon
  <2>3. h + Block = f + 1 + z + LengthSize
    <3>1. /\ h + Block \in Nat /\ f + 1 + z + LengthSize \in Nat
          /\ (h + Block) - (f + 1 + z + LengthSize) < Block
          /\ (f + 1 + z + LengthSize) - (h + Block) < Block
      BY <1>1, <1>2, <1>3, <2>1, Sha256Assumption
    <3>. QED  BY <1>2, <2>2, <3>1, MultipleUnique, Zenon
  <2>. QED  BY <1>2, <1>3, <2>1, <2>3, Sha256Assumption
<1>6. k = z => b = Block - LengthSize
  <2>. HAVE k = z
  <2>1. f + 1 + z + LengthSize = h + b + LengthSize
    BY <1>1, <1>2, <1>3, <1>4, Sha256Assumption, Zenon
  <2>2. Multiple(h + Block)
    BY <1>1, MultipleBlock, MultipleAdd, Sha256Assumption, Zenon
  <2>3. h + b + LengthSize = h + Block
    <3>1. /\ h + Block \in Nat /\ h + b + LengthSize \in Nat
          /\ (h + Block) - (h + b + LengthSize) < Block
          /\ (h + b + LengthSize) - (h + Block) < Block
      BY <1>1, Sha256Assumption
    <3>. QED  BY <1>2, <2>1, <2>2, <3>1, MultipleUnique, Zenon
  <2>. QED  BY <1>1, <2>3, Sha256Assumption
<1>. QED  BY <1>3, <1>5, <1>6, Zenon DEF b, z

LEMMA PadZeroStep == SInv /\ PadZero => SInv' /\ Extends(hashed, hashed')
<1>. SUFFICES ASSUME SInv, PadZero PROVE SInv' /\ Extends(hashed, hashed')
  OBVIOUS
<1>1. /\ pc = "zeros" /\ pc' = "zeros" /\ file' = file /\ bits' = bits
      /\ Len(buffer) # Block - LengthSize /\ sha256_update(<<0>>)
  BY Zenon DEF PadZero
<1>2. Streams /\ bits = 8 * Len(file)
  BY <1>1, Zenon DEF SInv, Pads
<1>3. PICK k \in 0..ZeroCount(file) : hashed \o buffer = (file \o <<128>>) \o Zeros(k)
  BY <1>1, Zenon DEF SInv, Pads
<1>4. k \in Nat /\ k + 1 \in 0..ZeroCount(file)
  <2>1. k \in Nat /\ ZeroCount(file) \in Nat /\ k # ZeroCount(file)
    BY <1>1, <1>2, <1>3, PadPlace, Zenon DEF PaddedBy
  <2>. QED  BY <2>1
<1>5. /\ <<0>> \in Seq(Data) /\ file \o <<128>> \in Seq(Data)
  BY <1>2, FileFacts, Zenon DEF Streams
<1>6. /\ Streams' /\ hashed' \o buffer' = ((file \o <<128>>) \o Zeros(k)) \o <<0>>
      /\ Extends(hashed, hashed')
  BY <1>1, <1>2, <1>3, <1>5, StreamStep, Zenon
<1>7. ((file \o <<128>>) \o Zeros(k)) \o <<0>> = (file \o <<128>>) \o Zeros(k + 1)
  <2>1. Zeros(k) \in Seq(Data) /\ Cat(Zeros(k), <<0>>) = Zeros(k + 1)
    BY <1>4, ZerosFacts, Zenon DEF Cat
  <2>2. PICK g \in Seq(Data) : g = file \o <<128>>
    BY <1>5, Zenon
  <2>3. Cat(Cat(g, Zeros(k)), <<0>>) = Cat(g, Zeros(k + 1))
    <3>1. Cat(Cat(g, Zeros(k)), <<0>>) = Cat(g, Cat(Zeros(k), <<0>>))
      <4>1. PICK z \in Seq(Data), o \in Seq(Data) : z = Zeros(k) /\ o = <<0>>
        BY <1>5, <2>1, Zenon
      <4>2. Cat(Cat(g, z), o) = Cat(g, Cat(z, o))
        BY Assoc
      <4>. QED  BY <4>1, <4>2, Zenon
    <3>. QED  BY <2>1, <3>1, Zenon
  <2>. QED  BY <2>2, <2>3, Zenon DEF Cat
<1>8. Pads'
  BY <1>1, <1>2, <1>4, <1>6, <1>7, Zenon DEF Pads, ZeroCount
<1>. QED  BY <1>1, <1>6, <1>8, Zenon DEF SInv, Reads, HashesPadded

\* The length field completes the last block, which leaves the buffer empty.
LEMMA PadLengthStep == SInv /\ PadLength => SInv' /\ Extends(hashed, hashed')
<1>. SUFFICES ASSUME SInv, PadLength PROVE SInv' /\ Extends(hashed, hashed')
  OBVIOUS
<1>1. /\ pc = "zeros" /\ pc' = "done" /\ file' = file
      /\ Len(buffer) = Block - LengthSize /\ sha256_update(LengthBytes(bits))
  BY Zenon DEF PadLength
<1>2. Streams /\ bits = 8 * Len(file)
  BY <1>1, Zenon DEF SInv, Pads
<1>3. PICK k \in 0..ZeroCount(file) : hashed \o buffer = (file \o <<128>>) \o Zeros(k)
  BY <1>1, Zenon DEF SInv, Pads
<1>4. k = ZeroCount(file)
  BY <1>1, <1>2, <1>3, PadPlace, Zenon DEF PaddedBy
<1>5. Len(file) \in Nat /\ bits \in Nat
  BY <1>2, FileFacts DEF Streams
<1>6. PICK l \in Seq(Data) : l = LengthBytes(bits) /\ Len(l) = LengthSize
  BY <1>5, LengthFacts, Zenon
<1>7. Streams' /\ hashed' \o buffer' = (hashed \o buffer) \o l /\ Extends(hashed, hashed')
  BY <1>1, <1>2, <1>6, StreamStep, Zenon
<1>8. buffer' = <<>>
  <2>. DEFINE h == Len(hashed)
              hh == Len(hashed')
              bb == Len(buffer')
  <2>1. /\ h \in Nat /\ hh \in Nat /\ bb \in Nat /\ bb < Block
        /\ Multiple(h) /\ Multiple(hh)
    <3>1. hashed' \in Seq(Data) /\ buffer' \in Seq(Data) /\ Len(buffer') < Block
          /\ Multiple(Len(hashed'))
      BY <1>7, Zenon DEF Streams, Multiple
    <3>. QED  BY <1>2, <3>1, LenProperties, Zenon DEF Streams
  <2>2. hh + bb = h + Block
    <3>1. PICK g \in Seq(Data) : g = hashed \o buffer /\ Len(g) = h + (Block - LengthSize)
      <4>1. /\ hashed \o buffer \in Seq(Data)
            /\ Len(hashed \o buffer) = Len(hashed) + Len(buffer)
        BY <1>2, Joined, ZenonT(30) DEF Streams
      <4>. QED  BY <1>1, <4>1, Zenon
    <3>2. Len(g \o l) = h + (Block - LengthSize) + LengthSize
      BY <1>6, <3>1, Joined
    <3>3. Len(hashed' \o buffer') = hh + bb
      BY <1>7, Joined DEF Streams
    <3>. QED  BY <1>7, <2>1, <3>1, <3>2, <3>3, Sha256Assumption
  <2>. HIDE DEF h, hh, bb
  <2>3. h + Block \in Nat /\ Multiple(h + Block)
    BY <2>1, MultipleBlock, MultipleAdd, Sha256Assumption
  <2>4. hh = h + Block
    BY <2>1, <2>2, <2>3, MultipleUnique, Sha256Assumption
  <2>5. bb = 0
    BY <2>1, <2>2, <2>3, <2>4
  <2>. QED  BY <1>7, <2>5, EmptyOrNot, Zenon DEF bb, Streams
<1>9. hashed' = Padded(file)
  <2>1. hashed' = hashed' \o buffer'
    BY <1>7, <1>8, Joined, Zenon DEF Streams
  <2>2. hashed' = ((file \o <<128>>) \o Zeros(ZeroCount(file))) \o LengthBytes(8 * Len(file))
    BY <1>2, <1>3, <1>4, <1>6, <1>7, <2>1, Zenon
  <2>. QED  BY <2>2, Zenon DEF Padded, Zeros, ZeroCount
<1>10. HashesPadded'
  BY <1>1, <1>8, <1>9, Zenon DEF HashesPadded
<1>. QED  BY <1>1, <1>7, <1>10, Zenon DEF SInv, Reads, Pads

LEMMA SInvStep == SInv /\ [Next]_vars => SInv'
<1>. SUFFICES ASSUME SInv, [Next]_vars PROVE SInv'
  BY Zenon
<1>1. CASE UNCHANGED vars
  <2>1. /\ file' = file /\ message' = message /\ hashed' = hashed /\ buffer' = buffer
        /\ bit_count' = bit_count /\ bits' = bits /\ pc' = pc
    BY <1>1, Zenon DEF vars
  <2>2. Streams' /\ Reads'
    BY <2>1, Zenon DEF SInv, Streams, Reads, Multiple
  <2>3. Pads'
    BY <2>1, ZenonT(30) DEF SInv, Pads, ZeroCount
  <2>4. HashesPadded'
    BY <2>1, Zenon DEF SInv, HashesPadded
  <2>. QED  BY <2>2, <2>3, <2>4, Zenon DEF SInv
<1>2. CASE ReadError
  BY <1>2, Zenon DEF SInv, Streams, Reads, Pads, HashesPadded, ReadError, Multiple
<1>. QED  BY <1>1, <1>2, UpdateStep, PadOneStep, PadZeroStep, PadLengthStep, Zenon DEF Next

\* sha256_update never loses, doubles or moves a byte, for every file, every way
\* fread may cut it and every block size.
THEOREM NothingIsLost == Spec => []NothingLost
<1>1. SInv => NothingLost
  BY Zenon DEF SInv, Reads, NothingLost
<1>. QED  BY <1>1, SInit, SInvStep, PTL DEF Spec

\* What sha256_final compresses is the message padded as FIPS 180-4 says, for
\* every file length: the marker and the length field may need a block of their
\* own, and the loop stops at the first place the field fits.
THEOREM PaddingIsExact == Spec => []HashesPadded
<1>1. SInv => HashesPadded
  BY Zenon DEF SInv
<1>. QED  BY <1>1, SInit, SInvStep, PTL DEF Spec

LEMMA TypesStep == SInv /\ TypeOK /\ SInv' /\ [Next]_vars => TypeOK'
<1>. SUFFICES ASSUME SInv, TypeOK, SInv', [Next]_vars PROVE TypeOK'
  BY Zenon
<1>1. /\ file' \in Files /\ hashed' \in Seq(Nat) /\ Len(hashed') % Block = 0
      /\ buffer' \in Seq(Nat) /\ Len(buffer') < Block
  <2>1. /\ file' \in Files /\ hashed' \in Seq(Data) /\ Multiple(Len(hashed'))
        /\ buffer' \in Seq(Data) /\ Len(buffer') < Block
    BY Zenon DEF SInv, Streams, Multiple
  <2>. QED  BY <2>1, DataIsNat, MultipleMod, LenProperties, Zenon
<1>2. CASE Update
  <2>1. pc' = "update" /\ bits' = bits
    BY <1>2, Zenon DEF Update
  <2>2. /\ message' \in Seq(Data) /\ bit_count' = 8 * Len(message')
        /\ message' = SubSeq(file', 1, Len(message'))
    BY <2>1, Zenon DEF SInv, Reads
  <2>3. bit_count' \in Nat
    BY <2>2, LenProperties
  <2>. QED  BY <1>1, <2>1, <2>2, <2>3, Zenon DEF TypeOK
<1>3. CASE ~Update
  <2>1. message' = message /\ file' = file
    BY <1>3, Zenon DEF Next, vars, ReadError, PadOne, PadZero, PadLength
  <2>2. bit_count' \in Nat /\ bits' \in Nat
    BY <1>3, Sha256Assumption, SMTT(20)
       DEF TypeOK, Next, vars, ReadError, PadOne, PadZero, PadLength, Counted
  <2>3. pc' \in {"update", "zeros", "done", "failed"}
    BY <1>3, Zenon DEF TypeOK, Next, vars, ReadError, PadOne, PadZero, PadLength
  <2>. QED  BY <1>1, <2>1, <2>2, <2>3, Zenon DEF TypeOK
<1>. QED  BY <1>2, <1>3, Zenon

\* sha256_update never lets the buffer reach a whole block and compresses whole
\* blocks only, and sha256_file has read a beginning of the file, nothing else.
THEOREM StreamTypesOK == Spec => []TypeOK
<1>1. Init => TypeOK
  <2>. SUFFICES ASSUME Init PROVE TypeOK
    OBVIOUS
  <2>1. SInv
    BY SInit, Zenon
  <2>2. file \in Files /\ message = SubSeq(file, 1, Len(message))
    BY <2>1, Zenon DEF SInv, Reads, Streams, Init
  <2>3. /\ hashed \in Seq(Nat) /\ Len(hashed) % Block = 0
        /\ buffer \in Seq(Nat) /\ Len(buffer) < Block
    BY <2>1, DataIsNat, MultipleMod, LenProperties, Zenon DEF SInv, Streams
  <2>. QED  BY <2>2, <2>3, Zenon DEF Init, TypeOK
<1>. QED  BY <1>1, SInit, SInvStep, TypesStep, PTL DEF Spec


-----------------------------------------------------------------------------
(* The recursive definitions of the standard's schedule, rounds and hash   *)
(* value, as equations.  A computation is named by a tuple, so that one    *)
(* induction serves all three.                                             *)

From(c) ==
    CASE c[1] = "schedule" -> Words(c[2])
      [] c[1] = "rounds"   -> <<c[2]>>
      [] OTHER             -> sha256_init

Then(c, j, x) ==
    CASE c[1] = "schedule" -> Append(x, Expanded(x))
      [] c[1] = "rounds"   -> Append(x, Round(x[j], K[j], c[3][j]))
      [] OTHER             -> Compressed(x, SubSeq(c[2], Block * (j - 1) + 1, Block * j))

\* f is what computation c has after 0, 1, ..., m steps.
Computes(c, m, f) ==
    f = [j \in 0..m |-> IF j = 0 THEN From(c) ELSE Then(c, j, f[j - 1])]

LEMMA ComputationExists ==
    ASSUME NEW c, NEW m \in Nat
    PROVE  \E f : Computes(c, m, f)
<1>. DEFINE T == {j \in Nat : \E f : Computes(c, j, f)}
<1>1. 0 \in T
  <2>1. Computes(c, 0, [k \in 0..0 |-> From(c)])
    BY DEF Computes
  <2>. QED  BY <2>1, Zenon
<1>2. ASSUME NEW j \in Nat, j \in T PROVE j + 1 \in T
  <2>1. PICK g : Computes(c, j, g)
    BY <1>2, Zenon
  <2>. DEFINE f == [k \in 0..(j + 1) |-> IF k = j + 1 THEN Then(c, j + 1, g[j]) ELSE g[k]]
  <2>2. \A k \in 0..j : g[k] = IF k = 0 THEN From(c) ELSE Then(c, k, g[k - 1])
    BY <2>1, Zenon DEF Computes
  <2>3. ASSUME NEW k \in 0..(j + 1)
        PROVE  f[k] = IF k = 0 THEN From(c) ELSE Then(c, k, f[k - 1])
    <3>1. CASE k = j + 1
      <4>1. k # 0 /\ k - 1 = j /\ f[k - 1] = g[j] /\ f[k] = Then(c, j + 1, g[j])
        BY <3>1
      <4>. QED  BY <3>1, <4>1, Zenon
    <3>2. CASE k # j + 1
      <4>1. k \in 0..j /\ f[k] = g[k]
        BY <3>2
      <4>2. k # 0 => k - 1 \in 0..(j + 1) /\ k - 1 # j + 1
        BY <4>1
      <4>3. k # 0 => f[k - 1] = g[k - 1]
        BY <4>2, Zenon
      <4>. QED  BY <2>2, <4>1, <4>3, Zenon
    <3>. QED  BY <3>1, <3>2, Zenon
  <2>4. Computes(c, j + 1, f)
    <3>1. f = [k \in 0..(j + 1) |-> f[k]]
      BY Zenon
    <3>. HIDE DEF f
    <3>2. f = [k \in 0..(j + 1) |-> IF k = 0 THEN From(c) ELSE Then(c, k, f[k - 1])]
      BY <2>3, <3>1, Zenon
    <3>. QED  BY <3>2, Zenon DEF Computes
  <2>. QED  BY <2>4
<1>. HIDE DEF T
<1>3. T = Nat
  <2>1. T \in SUBSET Nat
    BY Zenon DEF T
  <2>. QED  BY <1>1, <1>2, <2>1, Induction, Zenon
<1>. QED  BY <1>3, Zenon DEF T

\* Two computations with the same beginning and the same steps agree.
LEMMA ComputationsAgree ==
    ASSUME NEW c, NEW d, NEW m \in Nat, NEW n \in Nat, m <= n, NEW f, NEW g,
           Computes(c, m, f), Computes(d, n, g), From(c) = From(d),
           \A j \in 1..m : \A x : Then(c, j, x) = Then(d, j, x)
    PROVE  \A j \in 0..m : f[j] = g[j]
<1>. DEFINE T == {j \in Nat : j <= m => f[j] = g[j]}
<1>1. /\ \A k \in 0..m : f[k] = IF k = 0 THEN From(c) ELSE Then(c, k, f[k - 1])
      /\ \A k \in 0..n : g[k] = IF k = 0 THEN From(d) ELSE Then(d, k, g[k - 1])
  BY Zenon DEF Computes
<1>2. 0 \in T
  <2>1. 0 \in 0..m /\ 0 \in 0..n
    OBVIOUS
  <2>. QED  BY <1>1, <2>1, Zenon
<1>3. ASSUME NEW j \in Nat, j \in T PROVE j + 1 \in T
  <2>. SUFFICES ASSUME j + 1 <= m PROVE f[j + 1] = g[j + 1]
    OBVIOUS
  <2>1. /\ j + 1 \in 0..m /\ j + 1 \in 0..n /\ j + 1 \in 1..m /\ j + 1 # 0
        /\ (j + 1) - 1 = j /\ f[j] = g[j]
    BY <1>3
  <2>2. f[j + 1] = Then(c, j + 1, f[j]) /\ g[j + 1] = Then(d, j + 1, g[j])
    BY <1>1, <2>1, Zenon
  <2>. QED  BY <2>1, <2>2, Zenon
<1>. HIDE DEF T
<1>4. T = Nat
  <2>1. T \in SUBSET Nat
    BY Zenon DEF T
  <2>. QED  BY <1>2, <1>3, <2>1, Induction, Zenon
<1>. QED  BY <1>4 DEF T

\* One more step.
LEMMA ComputationStep ==
    ASSUME NEW c, NEW m \in Nat, NEW f, NEW g, Computes(c, m, f), Computes(c, m + 1, g)
    PROVE  /\ f[0] = From(c)
           /\ g[m + 1] = Then(c, m + 1, f[m])
<1>1. \A j \in 0..m : f[j] = g[j]
  BY ComputationsAgree
<1>2. g[m + 1] = Then(c, m + 1, g[m])
  <2>1. m + 1 \in 0..(m + 1) /\ m + 1 # 0 /\ (m + 1) - 1 = m
    OBVIOUS
  <2>. QED  BY <2>1, Zenon DEF Computes
<1>3. f[0] = From(c)
  BY DEF Computes
<1>. QED  BY <1>1, <1>2, <1>3

\* A sequence of n values, whatever they are.
Values(s, n) == s \in Seq({s[i] : i \in 1..n}) /\ Len(s) = n

\* Item n of s is x.
ItemIs(s, n, x) == s[n] = x

LEMMA ValuesAppend ==
    ASSUME NEW n \in Nat, NEW s, Values(s, n), NEW x
    PROVE  Values(Append(s, x), n + 1) /\ ItemIs(Append(s, x), n + 1, x)
<1>. DEFINE S == {s[i] : i \in 1..n} \cup {x}
<1>1. s \in Seq(S) /\ x \in S /\ Len(s) = n
  BY DEF Values
<1>. HIDE DEF S
<1>2. /\ Append(s, x) \in Seq(S) /\ Len(Append(s, x)) = n + 1
      /\ Append(s, x)[n + 1] = x
  BY <1>1, AppendProperties, Zenon
<1>. DEFINE a == Append(s, x)
<1>3. a \in Seq(S) /\ Len(a) = n + 1
  BY <1>2, Zenon
<1>. HIDE DEF a
<1>4. Values(a, n + 1)
  <2>1. a = [i \in 1..(n + 1) |-> a[i]]
    BY <1>3, LenProperties, Zenon
  <2>2. a \in Seq({a[i] : i \in 1..(n + 1)})
    BY <2>1, SeqDef
  <2>. QED  BY <1>3, <2>2, Zenon DEF Values
<1>. QED  BY <1>2, <1>4, Zenon DEF a, ItemIs


Schedules(block, m, f) ==
    f = [j \in 0..m |-> IF j = 0 THEN Words(block)
                        ELSE LET before == f[j - 1] IN Append(before, Expanded(before))]

LEMMA ScheduleComputes ==
    ASSUME NEW block, NEW m \in Nat
    PROVE  \E f : Computes(<<"schedule", block>>, m, f) /\ f[m] = Schedule(block, m)
<1>. DEFINE c == <<"schedule", block>>
            words == CHOOSE f : Schedules(block, m, f)
<1>1. From(c) = Words(block) /\ \A j, x : Then(c, j, x) = Append(x, Expanded(x))
  BY Zenon DEF From, Then
<1>2. \A f : Schedules(block, m, f) <=> Computes(c, m, f)
  <2>. HIDE DEF c
  <2>. QED  BY <1>1, ZenonT(30) DEF Schedules, Computes
<1>3. \E f : Schedules(block, m, f)
  BY <1>2, ComputationExists, Zenon
<1>4. Schedules(block, m, words)
  BY <1>3, Zenon
<1>5. Schedule(block, m) = words[m]
  BY Zenon DEF Schedule, Schedules
<1>. QED  BY <1>2, <1>4, <1>5, Zenon

LEMMA ScheduleEquations ==
    ASSUME NEW block, NEW m \in Nat
    PROVE  /\ Schedule(block, 0) = Words(block)
           /\ Schedule(block, m + 1)
                = Append(Schedule(block, m), Expanded(Schedule(block, m)))
<1>. DEFINE c == <<"schedule", block>>
<1>1. From(c) = Words(block) /\ \A j, x : Then(c, j, x) = Append(x, Expanded(x))
  BY DEF From, Then
<1>2. PICK f0 : Computes(c, 0, f0) /\ f0[0] = Schedule(block, 0)
  BY ScheduleComputes, Zenon
<1>3. PICK f : Computes(c, m, f) /\ f[m] = Schedule(block, m)
  BY ScheduleComputes, Zenon
<1>4. PICK g : Computes(c, m + 1, g) /\ g[m + 1] = Schedule(block, m + 1)
  BY ScheduleComputes
<1>. HIDE DEF c
<1>5. f0[0] = From(c)
  BY <1>2 DEF Computes
<1>6. g[m + 1] = Then(c, m + 1, f[m])
  BY <1>3, <1>4, ComputationStep, Zenon
<1>. QED  BY <1>1, <1>2, <1>3, <1>4, <1>5, <1>6, Zenon

RoundSteps(hash, words, m, f) ==
    f = [j \in 0..m |-> IF j = 0 THEN <<hash>>
                        ELSE LET before == f[j - 1]
                             IN  Append(before, Round(before[j], K[j], words[j]))]

LEMMA RoundsCompute ==
    ASSUME NEW hash, NEW words, NEW m \in Nat
    PROVE  \E f : /\ Computes(<<"rounds", hash, words>>, m, f)
                  /\ f[m][m + 1] = Rounds(hash, words, m)
<1>. DEFINE c == <<"rounds", hash, words>>
            steps == CHOOSE f : RoundSteps(hash, words, m, f)
<1>1. /\ From(c) = <<hash>>
      /\ \A j, x : Then(c, j, x) = Append(x, Round(x[j], K[j], words[j]))
  BY Zenon DEF From, Then
<1>2. \A f : RoundSteps(hash, words, m, f) <=> Computes(c, m, f)
  <2>. HIDE DEF c
  <2>. QED  BY <1>1, Zenon DEF RoundSteps, Computes
<1>3. \E f : RoundSteps(hash, words, m, f)
  BY <1>2, ComputationExists, Zenon
<1>4. RoundSteps(hash, words, m, steps)
  BY <1>3, Zenon
<1>5. Rounds(hash, words, m) = steps[m][m + 1]
  BY Zenon DEF Rounds, RoundSteps
<1>. QED  BY <1>2, <1>4, <1>5, Zenon

\* The rounds done so far are kept in order.
LEMMA RoundValues ==
    ASSUME NEW hash, NEW words, NEW m \in Nat, NEW f,
           Computes(<<"rounds", hash, words>>, m, f)
    PROVE  \A j \in 0..m : Values(f[j], j + 1)
<1>. DEFINE c == <<"rounds", hash, words>>
            T == {j \in Nat : j <= m => Values(f[j], j + 1)}
<1>1. /\ From(c) = <<hash>>
      /\ \A j, x : Then(c, j, x) = Append(x, Round(x[j], K[j], words[j]))
  BY Zenon DEF From, Then
<1>2. Computes(c, m, f)
  BY Zenon
<1>. HIDE DEF c
<1>3. \A k \in 0..m : f[k] = IF k = 0 THEN From(c) ELSE Then(c, k, f[k - 1])
  BY <1>2, Zenon DEF Computes
<1>4. 0 \in T
  <2>1. Values(<<hash>>, 1)
    BY DEF Values
  <2>2. f[0] = <<hash>>
    <3>1. 0 \in 0..m
      OBVIOUS
    <3>. QED  BY <1>1, <1>3, <3>1, Zenon
  <2>3. Values(f[0], 0 + 1)
    BY <2>1, <2>2
  <2>. QED  BY <2>3, Zenon
<1>5. ASSUME NEW j \in Nat, j \in T PROVE j + 1 \in T
  <2>. SUFFICES ASSUME j + 1 <= m PROVE Values(f[j + 1], (j + 1) + 1)
    OBVIOUS
  <2>1. j + 1 \in 0..m /\ j + 1 # 0 /\ (j + 1) - 1 = j /\ Values(f[j], j + 1)
    BY <1>5
  <2>2. f[j + 1] = Then(c, j + 1, f[j])
    BY <1>3, <2>1, Zenon
  <2>3. f[j + 1] = Append(f[j], Round(f[j][j + 1], K[j + 1], words[j + 1]))
    BY <1>1, <2>2, Zenon
  <2>4. \A x : Values(Append(f[j], x), (j + 1) + 1)
    BY <2>1, ValuesAppend
  <2>. QED  BY <2>3, <2>4, Zenon
<1>. HIDE DEF T
<1>6. T = Nat
  <2>1. T \in SUBSET Nat
    BY Zenon DEF T
  <2>. QED  BY <1>4, <1>5, <2>1, Induction, Zenon
<1>. QED  BY <1>6 DEF T

LEMMA RoundsEquations ==
    ASSUME NEW hash, NEW words, NEW m \in Nat
    PROVE  /\ Rounds(hash, words, 0) = hash
           /\ Rounds(hash, words, m + 1)
                = Round(Rounds(hash, words, m), K[m + 1], words[m + 1])
<1>. DEFINE c == <<"rounds", hash, words>>
<1>1. /\ From(c) = <<hash>>
      /\ \A j, x : Then(c, j, x) = Append(x, Round(x[j], K[j], words[j]))
  BY DEF From, Then
<1>2. PICK f0 : Computes(c, 0, f0) /\ f0[0][0 + 1] = Rounds(hash, words, 0)
  BY RoundsCompute, Zenon
<1>3. PICK f : Computes(c, m, f) /\ f[m][m + 1] = Rounds(hash, words, m)
  BY RoundsCompute, Zenon
<1>4. PICK g : Computes(c, m + 1, g) /\ g[m + 1][(m + 1) + 1] = Rounds(hash, words, m + 1)
  BY RoundsCompute
<1>5. Values(f[m], m + 1)
  BY <1>3, RoundValues
<1>. HIDE DEF c
<1>6. f0[0] = From(c)
  BY <1>2 DEF Computes
<1>7. g[m + 1] = Then(c, m + 1, f[m])
  BY <1>3, <1>4, ComputationStep, Zenon
<1>8. g[m + 1] = Append(f[m], Round(f[m][m + 1], K[m + 1], words[m + 1]))
  BY <1>1, <1>7, Zenon
<1>9. g[m + 1][(m + 1) + 1] = Round(f[m][m + 1], K[m + 1], words[m + 1])
  <2>1. m + 1 \in Nat
    OBVIOUS
  <2>2. \A x : ItemIs(Append(f[m], x), (m + 1) + 1, x)
    BY <1>5, <2>1, ValuesAppend, Zenon
  <2>3. ItemIs(g[m + 1], (m + 1) + 1, Round(f[m][m + 1], K[m + 1], words[m + 1]))
    BY <1>8, <2>2, Zenon
  <2>. QED  BY <2>3, Zenon DEF ItemIs
<1>10. <<hash>>[0 + 1] = hash
  OBVIOUS
<1>. QED  BY <1>1, <1>2, <1>3, <1>4, <1>6, <1>9, <1>10, Zenon


HashValues(padded, m, f) ==
    f = [j \in 0..m |->
            IF j = 0 THEN sha256_init
            ELSE Compressed(f[j - 1], SubSeq(padded, Block * (j - 1) + 1, Block * j))]

LEMMA HashValueComputes ==
    ASSUME NEW padded, NEW m \in Nat
    PROVE  \E f : Computes(<<"hash", padded>>, m, f) /\ f[m] = HashValue(padded, m)
<1>. DEFINE c == <<"hash", padded>>
            hash == CHOOSE f : HashValues(padded, m, f)
<1>1. /\ From(c) = sha256_init
      /\ \A j, x : Then(c, j, x)
                     = Compressed(x, SubSeq(padded, Block * (j - 1) + 1, Block * j))
  BY Zenon DEF From, Then
<1>2. \A f : HashValues(padded, m, f) <=> Computes(c, m, f)
  <2>. HIDE DEF c
  <2>. QED  BY <1>1, Zenon DEF HashValues, Computes
<1>3. \E f : HashValues(padded, m, f)
  BY <1>2, ComputationExists, Zenon
<1>4. HashValues(padded, m, hash)
  BY <1>3
<1>5. HashValue(padded, m) = hash[m]
  BY Zenon DEF HashValue, HashValues
<1>. QED  BY <1>2, <1>4, <1>5, Zenon

LEMMA HashValueEquations ==
    ASSUME NEW padded, NEW m \in Nat
    PROVE  /\ HashValue(padded, 0) = sha256_init
           /\ HashValue(padded, m + 1)
                = Compressed(HashValue(padded, m),
                             SubSeq(padded, Block * m + 1, Block * (m + 1)))
<1>. DEFINE c == <<"hash", padded>>
<1>1. /\ From(c) = sha256_init
      /\ \A j, x : Then(c, j, x)
                     = Compressed(x, SubSeq(padded, Block * (j - 1) + 1, Block * j))
  BY DEF From, Then
<1>2. PICK f0 : Computes(c, 0, f0) /\ f0[0] = HashValue(padded, 0)
  BY HashValueComputes, Zenon
<1>3. PICK f : Computes(c, m, f) /\ f[m] = HashValue(padded, m)
  BY HashValueComputes, Zenon
<1>4. PICK g : Computes(c, m + 1, g) /\ g[m + 1] = HashValue(padded, m + 1)
  BY HashValueComputes
<1>. HIDE DEF c
<1>5. f0[0] = From(c)
  BY <1>2 DEF Computes
<1>6. g[m + 1] = Then(c, m + 1, f[m])
  BY <1>3, <1>4, ComputationStep
<1>7. (m + 1) - 1 = m
  OBVIOUS
<1>. QED  BY <1>1, <1>2, <1>3, <1>4, <1>5, <1>6, <1>7, Zenon

\* r is the range p..q of the sequence s.
IsRange(r, s, p, q) ==
    /\ r \in Seq(Data)
    /\ Len(r) = IF p <= q THEN q - p + 1 ELSE 0
    /\ \A i \in 1 .. q - p + 1 : r[i] = s[p + i - 1]

\* What a range that lies within a sequence is.
LEMMA RangeOf ==
    ASSUME NEW s \in Seq(Data), NEW p \in Nat, NEW q \in Nat, p >= 1, q <= Len(s)
    PROVE  IsRange(SubSeq(s, p, q), s, p, q)
<1>1. \A i \in p..q : i \in 1..Len(s)
  BY LenProperties
<1>2. \A i \in p..q : s[i] \in Data
  BY <1>1, ElementOfSeq, Zenon
<1>3. p \in Int /\ q \in Int
  OBVIOUS
<1>4. SubSeq(s, p, q) \in Seq(Data)
  BY <1>2, <1>3, SubSeqProperties, Zenon
<1>5. Len(SubSeq(s, p, q)) = IF p <= q THEN q - p + 1 ELSE 0
  BY <1>2, <1>3, SubSeqProperties
<1>6. \A i \in 1 .. q - p + 1 : SubSeq(s, p, q)[i] = s[p + i - 1]
  BY <1>2, <1>3, SubSeqProperties
<1>. QED  BY <1>4, <1>5, <1>6, Zenon DEF IsRange

\* A range that lies within a sequence is the same in every sequence that
\* begins with it.
LEMMA SubSeqOfPrefix ==
    ASSUME NEW h \in Seq(Data), NEW g \in Seq(Data), NEW p \in Nat, NEW q \in Nat,
           p >= 1, q <= Len(h), Len(h) <= Len(g), \A i \in 1..Len(h) : g[i] = h[i]
    PROVE  SubSeq(h, p, q) = SubSeq(g, p, q)
<1>1. Len(h) \in Nat /\ Len(g) \in Nat
  BY LenProperties, Zenon
<1>2. q <= Len(g)
  BY <1>1
<1>3. PICK s : s = SubSeq(h, p, q) /\ IsRange(s, h, p, q)
  BY RangeOf, Zenon
<1>4. PICK t : t = SubSeq(g, p, q) /\ IsRange(t, g, p, q)
  BY <1>2, RangeOf, Zenon
<1>5. \A i \in 1..Len(s) : s[i] = t[i]
  <2>1. ASSUME NEW i \in 1..Len(s)
        PROVE  i \in 1 .. q - p + 1 /\ p + i - 1 \in 1..Len(h)
    BY <1>1, <1>3, SMTT(20) DEF IsRange
  <2>. QED  BY <2>1, <1>3, <1>4, Zenon DEF IsRange
<1>. QED  BY <1>3, <1>4, <1>5, SeqEqual, Zenon DEF IsRange

\* The hash value after m blocks depends on those blocks only.
LEMMA HashValueOfPrefix ==
    ASSUME NEW h \in Seq(Data), NEW g \in Seq(Data), Extends(h, g),
           NEW m \in Nat, Block * m <= Len(h)
    PROVE  HashValue(g, m) = HashValue(h, m)
<1>. DEFINE c == <<"hash", h>>
            d == <<"hash", g>>
<1>1. /\ From(c) = sha256_init /\ From(d) = sha256_init
      /\ \A j, x : Then(c, j, x) = Compressed(x, SubSeq(h, Block * (j - 1) + 1, Block * j))
      /\ \A j, x : Then(d, j, x) = Compressed(x, SubSeq(g, Block * (j - 1) + 1, Block * j))
  BY Zenon DEF From, Then
<1>2. PICK f : Computes(c, m, f) /\ f[m] = HashValue(h, m)
  BY HashValueComputes, Zenon
<1>3. PICK e : Computes(d, m, e) /\ e[m] = HashValue(g, m)
  BY HashValueComputes, Zenon
<1>4. ASSUME NEW j \in 1..m
      PROVE  SubSeq(h, Block * (j - 1) + 1, Block * j) = SubSeq(g, Block * (j - 1) + 1, Block * j)
  <2>1. Block * j <= Block * m /\ Block * j \in Nat /\ Block * (j - 1) \in Nat
    BY Sha256Assumption
  <2>2. PICK p \in Nat, q \in Nat : p = Block * (j - 1) + 1 /\ q = Block * j
    BY <2>1
  <2>3. q <= Len(h) /\ p >= 1
    BY <2>1, <2>2, Sha256Assumption, LenProperties, SMTT(20)
  <2>4. Len(h) <= Len(g) /\ \A i \in 1..Len(h) : g[i] = h[i]
    BY Zenon DEF Extends
  <2>5. SubSeq(h, p, q) = SubSeq(g, p, q)
    BY <2>3, <2>4, SubSeqOfPrefix, ZenonT(30)
  <2>. QED  BY <2>2, <2>5, Zenon
<1>. HIDE DEF c, d
<1>5. \A j \in 1..m : \A x : Then(c, j, x) = Then(d, j, x)
  BY <1>1, <1>4, ZenonT(30)
<1>6. \A j \in 0..m : f[j] = e[j]
  BY <1>1, <1>2, <1>3, <1>5, ComputationsAgree
<1>. QED  BY <1>2, <1>3, <1>6

LEMMA WordsFacts ==
    ASSUME NEW block
    PROVE  Values(Words(block), 16) /\ Words(block) # <<>>
<1>. DEFINE s == Words(block)
<1>1. s = [i \in 1..16 |-> s[i]]
  BY Zenon DEF Words
<1>. HIDE DEF s
<1>2. s \in Seq({s[i] : i \in 1..16}) /\ Len(s) = 16
  BY <1>1, SeqDef
<1>3. s # <<>>
  <2>1. Len(s) # 0 /\ Len(<<>>) = 0
    BY <1>2
  <2>. QED  BY <2>1, Zenon
<1>. QED  BY <1>2, <1>3, Zenon DEF s, Values


-----------------------------------------------------------------------------
(* The loops of sha256_block, between the steps of the stream.             *)

\* The block in work, and where the schedule and the rounds on it stand.
Current == SubSeq(hashed, Block * compressed + 1, Block * (compressed + 1))

InWork(k) ==
    /\ w = Schedule(Current, k) /\ Values(w, 16 + k)
    /\ k < 48 => round = 0
    /\ k = 48 => round \in 0..64 /\ v = Rounds(state, w, round)

\* The blocks done are in the state, and the one in work has come that far.
Loops ==
    /\ compressed \in Nat /\ Block * compressed <= Len(hashed)
    /\ state = HashValue(hashed, compressed)
    /\ w = <<>> => round = 0
    /\ w # <<>> => Busy /\ \E k \in 0..48 : InWork(k)

LEMMA LoopsInit == ShaInit => Loops
<1>. SUFFICES ASSUME ShaInit PROVE Loops
  OBVIOUS
<1>1. hashed = <<>> /\ compressed = 0 /\ w = <<>> /\ round = 0 /\ state = sha256_init
  BY Zenon DEF ShaInit, Init
<1>2. HashValue(hashed, 0) = sha256_init
  BY HashValueEquations, Zenon
<1>3. Block * 0 = 0 /\ Len(<<>>) = 0
  BY Sha256Assumption
<1>. QED  BY <1>1, <1>2, <1>3 DEF Loops

\* A step of the stream only lengthens what there is to compress.
LEMMA StreamExtends == SInv /\ Next => SInv' /\ Extends(hashed, hashed')
<1>. SUFFICES ASSUME SInv, Next PROVE SInv' /\ Extends(hashed, hashed')
  OBVIOUS
<1>1. CASE ReadError
  <2>1. hashed' = hashed /\ hashed \in Seq(Data)
    BY <1>1, Zenon DEF ReadError, SInv, Streams
  <2>. QED  BY <1>1, <2>1, JoinExtends, SInvStep, Zenon
<1>. QED  BY <1>1, UpdateStep, PadOneStep, PadZeroStep, PadLengthStep, Zenon DEF Next

LEMMA LoopsStream == SInv /\ Loops /\ Stream => Loops'
<1>. SUFFICES ASSUME SInv, Loops, Stream PROVE Loops'
  BY Zenon
<1>1. /\ ~Busy /\ w' = w /\ v' = v /\ state' = state /\ round' = round
      /\ compressed' = compressed
  BY Zenon DEF Stream, block_vars
<1>2. w = <<>> /\ round = 0 /\ compressed \in Nat /\ Block * compressed <= Len(hashed)
      /\ state = HashValue(hashed, compressed)
  BY <1>1, Zenon DEF Loops
<1>3. SInv' /\ Extends(hashed, hashed')
  BY StreamExtends, Zenon DEF Stream
<1>4. hashed \in Seq(Data) /\ hashed' \in Seq(Data)
  BY <1>3, Zenon DEF SInv, Streams
<1>5. HashValue(hashed', compressed) = HashValue(hashed, compressed)
  BY <1>2, <1>3, <1>4, HashValueOfPrefix, Zenon
<1>6. Block * compressed <= Len(hashed')
  <2>1. Len(hashed) <= Len(hashed') /\ Len(hashed) \in Nat /\ Len(hashed') \in Nat
    BY <1>3, <1>4, LenProperties, Zenon DEF Extends
  <2>2. Block * compressed \in Nat
    BY <1>2, Sha256Assumption
  <2>. QED  BY <1>2, <2>1, <2>2, SMTT(20)
<1>. QED  BY <1>1, <1>2, <1>5, <1>6, Zenon DEF Loops

LEMMA LoopsLoad == Loops /\ LoadBlock => Loops'
<1>. SUFFICES ASSUME Loops, LoadBlock PROVE Loops'
  BY Zenon
<1>1. /\ Busy /\ w = <<>> /\ w' = Words(Current) /\ hashed' = hashed
      /\ v' = v /\ state' = state /\ round' = round /\ compressed' = compressed
  BY Zenon DEF LoadBlock, vars, Current
<1>2. Current' = Current /\ Busy'
  BY <1>1, Zenon DEF Current, Busy
<1>3. Values(w', 16) /\ w' # <<>> /\ w' = Schedule(Current, 0)
  BY <1>1, WordsFacts, ScheduleEquations, Zenon
<1>4. InWork(0)'
  BY <1>1, <1>2, <1>3 DEF InWork, Loops
<1>5. 0 \in 0..48
  OBVIOUS
<1>6. \E k \in 0..48 : InWork(k)'
  BY <1>4, <1>5, Zenon
<1>. QED  BY <1>1, <1>2, <1>3, <1>6, Zenon DEF Loops


LEMMA LoopsExpand == Loops /\ ExpandWord => Loops'
<1>. SUFFICES ASSUME Loops, ExpandWord PROVE Loops'
  OBVIOUS
<1>1. /\ Len(w) \in 16..63 /\ w' = Append(w, Expanded(w)) /\ v' = state /\ hashed' = hashed
      /\ state' = state /\ round' = round /\ compressed' = compressed
  BY Zenon DEF ExpandWord, vars
<1>2. w # <<>>
  <2>1. Len(w) # 0 /\ Len(<<>>) = 0
    BY <1>1, SMTT(20)
  <2>. QED  BY <2>1, Zenon
<1>3. PICK k \in 0..48 : InWork(k)
  BY <1>2, Zenon DEF Loops
<1>4. Current' = Current /\ Busy'
  BY <1>1, <1>2, Zenon DEF Current, Busy, Loops
<1>5. k \in Nat /\ k + 1 \in 0..48 /\ k < 48 /\ 16 + k \in Nat
  BY <1>1, <1>3 DEF InWork, Values
<1>6. w' = Schedule(Current, k + 1)
  BY <1>1, <1>3, <1>5, ScheduleEquations, Zenon DEF InWork
<1>7. Values(w', 16 + (k + 1))
  <2>1. Values(Append(w, Expanded(w)), (16 + k) + 1)
    BY <1>3, <1>5, ValuesAppend, Zenon DEF InWork
  <2>2. (16 + k) + 1 = 16 + (k + 1)
    BY <1>5
  <2>. QED  BY <1>1, <2>1, <2>2, Zenon
<1>8. w' # <<>>
  <2>1. Len(w') # 0 /\ Len(<<>>) = 0
    BY <1>5, <1>7 DEF Values
  <2>. QED  BY <2>1, Zenon
<1>9. round = 0 /\ v' = Rounds(state, w', 0)
  BY <1>1, <1>3, <1>5, RoundsEquations, Zenon DEF InWork
<1>10. \E j \in 0..48 : InWork(j)'
  <2>1. InWork(k + 1)'
    BY <1>1, <1>4, <1>6, <1>7, <1>9, SMTT(20) DEF InWork
  <2>. QED  BY <1>5, <2>1, Zenon
<1>. QED  BY <1>1, <1>4, <1>8, <1>10, Zenon DEF Loops

LEMMA LoopsRound == Loops /\ DoRound => Loops'
<1>. SUFFICES ASSUME Loops, DoRound PROVE Loops'
  OBVIOUS
<1>1. /\ Len(w) = 64 /\ round < 64 /\ v' = Round(v, K[round + 1], w[round + 1])
      /\ round' = round + 1 /\ hashed' = hashed
      /\ state' = state /\ w' = w /\ compressed' = compressed
  BY Zenon DEF DoRound, vars
<1>2. w # <<>>
  <2>1. Len(w) # 0 /\ Len(<<>>) = 0
    BY <1>1
  <2>. QED  BY <2>1, Zenon
<1>3. PICK k \in 0..48 : InWork(k)
  BY <1>2 DEF Loops
<1>4. Current' = Current /\ Busy'
  BY <1>1, <1>2, Zenon DEF Current, Busy, Loops
<1>5. k = 48
  <2>1. Len(w) = 16 + k
    BY <1>3, Zenon DEF InWork, Values
  <2>2. 16 + k = 64
    BY <1>1, <2>1, Zenon
  <2>. QED  BY <1>3, <2>2
<1>6. round \in Nat /\ round + 1 \in 0..64 /\ v = Rounds(state, w, round)
  BY <1>1, <1>3, <1>5, SMTT(20) DEF InWork
<1>7. v' = Rounds(state, w, round + 1)
  BY <1>1, <1>6, RoundsEquations, SMTT(20)
<1>8. InWork(48)'
  BY <1>1, <1>3, <1>4, <1>5, <1>6, <1>7, SMTT(20) DEF InWork
<1>9. \E j \in 0..48 : InWork(j)'
  BY <1>8
<1>. QED  BY <1>1, <1>2, <1>4, <1>9, Zenon DEF Loops

LEMMA LoopsAdd == SInv /\ Loops /\ AddBlock => Loops'
<1>. SUFFICES ASSUME SInv, Loops, AddBlock PROVE Loops'
  OBVIOUS
<1>1. /\ round = 64 /\ state' = [i \in 1..8 |-> Plus(state[i], v[i])]
      /\ compressed' = compressed + 1 /\ w' = <<>> /\ round' = 0 /\ hashed' = hashed
  BY Zenon DEF AddBlock, vars
<1>2. w # <<>> /\ Busy /\ compressed \in Nat /\ state = HashValue(hashed, compressed)
  BY <1>1 DEF Loops
<1>3. PICK k \in 0..48 : InWork(k)
  BY <1>2, Zenon DEF Loops
<1>4. v = Rounds(state, Schedule(Current, 48), 64)
  BY <1>1, <1>3 DEF InWork
<1>5. state' = Compressed(state, Current)
  BY <1>1, <1>4, Zenon DEF Compressed
<1>6. state' = HashValue(hashed', compressed + 1)
  BY <1>1, <1>2, <1>5, HashValueEquations, SMTT(20) DEF Current
<1>7. Block * (compressed + 1) <= Len(hashed)
  <2>1. PICK n \in Nat : Len(hashed) = n * Block
    BY Zenon DEF SInv, Streams, Multiple
  <2>2. Block * compressed < n * Block
    BY <1>2, <2>1, Zenon DEF Busy
  <2>3. compressed < n
    BY <1>2, <2>2, Sha256Assumption, SMTT(20)
  <2>4. Block * (compressed + 1) <= n * Block
    BY <1>2, <2>3, Sha256Assumption
  <2>. QED  BY <2>1, <2>4, Zenon
<1>. QED  BY <1>1, <1>2, <1>6, <1>7 DEF Loops

LEMMA LoopsStep == SInv /\ Loops /\ [ShaNext]_sha_vars => Loops'
<1>. SUFFICES ASSUME SInv, Loops, [ShaNext]_sha_vars PROVE Loops'
  BY Zenon
<1>1. CASE UNCHANGED sha_vars
  <2>1. /\ hashed' = hashed /\ w' = w /\ v' = v /\ state' = state /\ round' = round
        /\ compressed' = compressed
    BY <1>1, Zenon DEF sha_vars, block_vars, vars
  <2>. QED  BY <2>1, Zenon DEF Loops, InWork, Current, Busy
<1>. QED  BY <1>1, LoopsStream, LoopsLoad, LoopsExpand, LoopsRound, LoopsAdd, Zenon
          DEF ShaNext, Compress

\* Compressing a block leaves the stream where it is.
LEMMA ShaStepOfStream == [ShaNext]_sha_vars => [Next]_vars
  BY Zenon DEF ShaNext, Stream, Compress, LoadBlock, ExpandWord, DoRound, AddBlock, sha_vars

\* sha256_update hands over its blocks in order and waits for each: with sha256_block
\* spelled out, the stream is the one the theorems above are about.
THEOREM BlocksLeaveStream == ShaSpec => Spec
<1>1. ShaInit => Init
  BY Zenon DEF ShaInit
<1>. QED  BY <1>1, ShaStepOfStream, PTL DEF ShaSpec, Spec

\* The state that sha256_final reads off is the hash FIPS 180-4 defines for the
\* padded file, for every file and every way it is read: the loops of sha256_block
\* start each block from a fresh schedule and from the state the last one left.
THEOREM HashIsStandard == ShaSpec => []StateIsStandard
<1>1. ShaInit => SInv /\ Loops
  BY SInit, LoopsInit, Zenon DEF ShaInit
<1>2. SInv /\ Loops /\ [ShaNext]_sha_vars => SInv' /\ Loops'
  BY LoopsStep, ShaStepOfStream, SInvStep, Zenon
<1>3. SInv /\ Loops => StateIsStandard
  <2>. SUFFICES ASSUME SInv, Loops, pc = "done", ~Busy
                PROVE  state = HashValue(Padded(file), Len(Padded(file)) \div Block)
    BY Zenon DEF StateIsStandard
  <2>1. hashed = Padded(file) /\ hashed \in Seq(Data)
    BY Zenon DEF SInv, Streams, HashesPadded
  <2>2. /\ compressed \in Nat /\ state = HashValue(hashed, compressed)
        /\ Block * compressed = Len(hashed)
    BY <2>1, Sha256Assumption, LenProperties DEF Loops, Busy
  <2>3. Len(hashed) \div Block = compressed
    BY <2>2, Sha256Assumption
  <2>. QED  BY <2>1, <2>2, <2>3, Zenon
<1>. QED  BY <1>1, <1>2, <1>3, PTL DEF ShaSpec

=============================================================================

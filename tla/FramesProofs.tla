---------------------------- MODULE FramesProofs ----------------------------
(***************************************************************************)
(* Proofs about Frames: that both codecs undo what the sender packed, and  *)
(* that the messages arrive whole, in order and unrefused, however TCP     *)
(* cuts the stream.                                                        *)
(***************************************************************************)
EXTENDS Frames, SequenceTheorems, WellFoundedInduction, TLAPS

-----------------------------------------------------------------------------
(* Induction, and functions defined by recursion.                          *)

Less == {ss \in Nat \X Nat : ss[1] < ss[2]}

LEMMA LessWellFounded == IsWellFoundedOn(Less, Nat)
  BY NatLessThanWellFounded, Zenon DEF OpToRel, Less

LEMMA Induction ==
    ASSUME NEW U \in SUBSET Nat, 0 \in U, \A m \in Nat : m \in U => m + 1 \in U
    PROVE  U = Nat
<1>. SUFFICES ASSUME Nat \ U # {} PROVE FALSE
  BY Zenon
<1>1. \A x, y \in Nat : <<y, x>> \in Less <=> y < x
  BY Zenon DEF Less
<1>2. PICK x \in Nat \ U : \A y \in Nat \ U : ~ (<<y, x>> \in Less)
  <2>1. Nat \ U \subseteq Nat
    BY Zenon
  <2>. QED  BY <2>1, LessWellFounded, WFMin, Zenon
<1>3. x \in Nat /\ x # 0 /\ x \notin U
  BY <1>2, Zenon
<1>4. \A y \in Nat \ U : ~(y < x)
  BY <1>1, <1>2, Zenon
<1>5. x - 1 \in Nat /\ x - 1 \in U
  BY <1>3, <1>4
<1>. QED  BY <1>3, <1>5

\* A function on 0..n is defined by its value at 0 and a step on a set S.
Recursive(a, n, G, f) == \A k \in 0..n : f[k] = IF k = 0 THEN a ELSE G[k][f[k - 1]]

LEMMA Recursion ==
    ASSUME NEW S, NEW a \in S, NEW n \in Nat, NEW G \in [1..n -> [S -> S]]
    PROVE  \E f \in [0..n -> S] : Recursive(a, n, G, f)
<1>. DEFINE Good(j, f) == \A k \in 0..j : f[k] = IF k = 0 THEN a ELSE G[k][f[k - 1]]
            U == {j \in Nat : j <= n => \E f \in [0..j -> S] : Good(j, f)}
<1>1. 0 \in U
  <2>1. [k \in 0..0 |-> a] \in [0..0 -> S] /\ Good(0, [k \in 0..0 |-> a])
    OBVIOUS
  <2>. QED  BY <2>1, Zenon
<1>2. ASSUME NEW j \in Nat, j \in U PROVE j + 1 \in U
  <2>. SUFFICES ASSUME j + 1 <= n PROVE \E f \in [0..(j + 1) -> S] : Good(j + 1, f)
    OBVIOUS
  <2>1. PICK g \in [0..j -> S] : Good(j, g)
    BY <1>2
  <2>. DEFINE f == [k \in 0..(j + 1) |-> IF k = j + 1 THEN G[j + 1][g[j]] ELSE g[k]]
  <2>2. G[j + 1][g[j]] \in S
    BY <2>1
  <2>3. f \in [0..(j + 1) -> S]
    <3>1. \A k \in 0..(j + 1) : k # j + 1 => g[k] \in S
      BY <2>1
    <3>. QED  BY <2>2, <3>1, Zenon
  <2>4. (\A k \in 0..j : f[k] = g[k]) /\ f[j + 1] = G[j + 1][g[j]]
    OBVIOUS
  <2>. HIDE DEF f
  <2>5. ASSUME NEW k \in 0..(j + 1) PROVE f[k] = IF k = 0 THEN a ELSE G[k][f[k - 1]]
    <3>1. CASE k = j + 1
      BY <2>4, <3>1
    <3>2. CASE k # j + 1
      BY <2>1, <2>4, <3>2
    <3>. QED  BY <3>1, <3>2, Zenon
  <2>. QED  BY <2>3, <2>5, Zenon
<1>3. U = Nat
  <2>. HIDE DEF U
  <2>1. U \in SUBSET Nat
    BY Zenon DEF U
  <2>. QED  BY <1>1, <1>2, <2>1, Induction, Zenon
<1>4. n \in U
  BY <1>3, Zenon
<1>. QED  BY <1>4 DEF Recursive

-----------------------------------------------------------------------------
(* Numbers.                                                                *)

Down(x) == x \div 256

LEMMA DownFacts ==
    ASSUME NEW x \in Nat
    PROVE  Down(x) \in Nat /\ x % 256 \in 0..255 /\ Down(x) * 256 + (x % 256) = x
<1>1. \A m \in Nat, b \in Nat \ {0} : \E q \in Nat, r \in 0..(b - 1) :
         q = m \div b /\ r = m % b /\ m = q * b + r
  BY Z3
<1>2. PICK q \in Nat, r \in 0..(256 - 1) : q = x \div 256 /\ r = x % 256 /\ x = q * 256 + r
  BY <1>1
<1>3. q \in Nat /\ r \in 0..255 /\ q * 256 + r = x
  BY <1>2
<1>. QED  BY <1>2, <1>3, ZenonT(30) DEF Down

Shifts(n, k, f) == f = [i \in 0..k |-> IF i = 0 THEN n ELSE Down(f[i - 1])]

LEMMA ShiftsExist ==
    ASSUME NEW n \in Nat, NEW k \in Nat
    PROVE  \E f \in [0..k -> Nat] : Shifts(n, k, f)
<1>. DEFINE G == [i \in 1..k |-> [x \in Nat |-> Down(x)]]
<1>1. \A x \in Nat : Down(x) \in Nat
  BY DownFacts, ZenonT(30)
<1>2. G \in [1..k -> [Nat -> Nat]]
  BY <1>1, Zenon
<1>3. \A i \in 1..k, x \in Nat : G[i][x] = Down(x)
  BY Zenon
<1>. HIDE DEF G
<1>4. PICK f \in [0..k -> Nat] : Recursive(n, k, G, f)
  BY <1>2, Recursion, Zenon
<1>5. \A i \in 0..k : f[i] = IF i = 0 THEN n ELSE Down(f[i - 1])
  <2>1. \A i \in 0..k : f[i] = IF i = 0 THEN n ELSE G[i][f[i - 1]]
    BY <1>4, Zenon DEF Recursive
  <2>2. \A i \in 1..k : f[i - 1] \in Nat
    OBVIOUS
  <2>. QED  BY <1>3, <2>1, <2>2
<1>. QED  BY <1>5, Zenon DEF Shifts

LEMMA ShiftsAgree ==
    ASSUME NEW n, NEW k \in Nat, NEW f, Shifts(n, k, f),
           NEW m \in Nat, NEW g, Shifts(n, m, g), k <= m
    PROVE  \A i \in 0..k : f[i] = g[i]
<1>. DEFINE U == {i \in Nat : i <= k => f[i] = g[i]}
<1>1. \A i \in 0..k : f[i] = IF i = 0 THEN n ELSE Down(f[i - 1])
  BY Zenon DEF Shifts
<1>2. \A i \in 0..m : g[i] = IF i = 0 THEN n ELSE Down(g[i - 1])
  BY Zenon DEF Shifts
<1>3. 0 \in U
  BY <1>1, <1>2
<1>4. ASSUME NEW i \in Nat, i \in U PROVE i + 1 \in U
  BY <1>1, <1>2, <1>4
<1>5. U = Nat
  <2>. HIDE DEF U
  <2>1. U \in SUBSET Nat
    BY Zenon DEF U
  <2>. QED  BY <1>3, <1>4, <2>1, Induction, Zenon
<1>. QED  BY <1>5

LEMMA ShiftedIs ==
    ASSUME NEW n \in Nat, NEW m \in Nat, NEW g, Shifts(n, m, g), NEW k \in 0..m
    PROVE  Shifted(n, k) = g[k]
<1>. DEFINE f == CHOOSE f : Shifts(n, k, f)
<1>1. \E h : Shifts(n, k, h)
  <2>1. k \in Nat
    OBVIOUS
  <2>. QED  BY <2>1, ShiftsExist, Zenon
<1>2. Shifts(n, k, f)
  BY <1>1, Zenon
<1>3. Shifted(n, k) = f[k]
  BY Zenon DEF Shifted, Shifts, Down
<1>. HIDE DEF f
<1>. QED  BY <1>2, <1>3, ShiftsAgree

\* Each shift drops the lowest byte.
LEMMA ShiftFacts ==
    ASSUME NEW n \in Nat
    PROVE  /\ Shifted(n, 0) = n
           /\ \A k \in Nat : /\ Shifted(n, k) \in Nat
                             /\ Shifted(n, k + 1) = Down(Shifted(n, k))
<1>1. ASSUME NEW k \in Nat
      PROVE  /\ Shifted(n, 0) = n /\ Shifted(n, k) \in Nat
             /\ Shifted(n, k + 1) = Down(Shifted(n, k))
  <2>0. k + 1 \in Nat
    OBVIOUS
  <2>1. PICK f \in [0..(k + 1) -> Nat] : Shifts(n, k + 1, f)
    BY <2>0, ShiftsExist, Zenon
  <2>2. \A i \in 0..(k + 1) : f[i] = IF i = 0 THEN n ELSE Down(f[i - 1])
    BY <2>1, Zenon DEF Shifts
  <2>3. \A i \in 0..(k + 1) : Shifted(n, i) = f[i]
    BY <2>1, ShiftedIs
  <2>. QED  BY <2>1, <2>2, <2>3
<1>. QED  BY <1>1, Zenon

LEMMA BigEndianFacts ==
    ASSUME NEW n \in Nat, NEW size \in Nat
    PROVE  BigEndian(n, size) \in Seq(Byte) /\ Len(BigEndian(n, size)) = size
<1>1. ASSUME NEW i \in 1..size PROVE Shifted(n, size - i) % 256 \in Byte
  <2>1. size - i \in Nat
    OBVIOUS
  <2>2. Shifted(n, size - i) \in Nat
    BY <2>1, ShiftFacts, Zenon
  <2>. QED  BY <2>2, DownFacts, ZenonT(30) DEF Byte
<1>. QED  BY <1>1 DEF BigEndian

\* rtrv_get_u16 and rtrv_get_u64 read back what rtrv_put_u16 and rtrv_put_u64 wrote, if
\* it fits the field.
LEMMA NumberRoundTrip ==
    ASSUME NEW size \in Nat, NEW n \in Fitting(size)
    PROVE  Number(BigEndian(n, size)) = n
<1>. DEFINE b == BigEndian(n, size)
            Value(f) == f = [k \in 0..Len(b) |-> IF k = 0 THEN 0 ELSE f[k - 1] * 256 + b[k]]
            value == CHOOSE f : Value(f)
            U == {k \in Nat : k <= size => value[k] = Shifted(n, size - k)}
<1>1. n \in Nat /\ Shifted(n, size) = 0 /\ Len(b) = size
  BY BigEndianFacts, Zenon DEF Fitting
<1>2. \A i \in 1..size : b[i] = Shifted(n, size - i) % 256
  BY Zenon DEF BigEndian
<1>3. \A i \in 1..size : b[i] \in Nat
  <2>1. b \in Seq(Byte)
    BY <1>1, BigEndianFacts, Zenon
  <2>2. \A i \in 1..size : b[i] \in Byte
    BY <1>1, <2>1, ElementOfSeq, Zenon
  <2>3. \A x \in Byte : x \in Nat
    BY DEF Byte
  <2>. QED  BY <2>2, <2>3, Zenon
<1>. HIDE DEF b
<1>4. \E f : Value(f)
  <2>. DEFINE G == [i \in 1..size |-> [x \in Nat |-> x * 256 + b[i]]]
  <2>1. \A i \in 1..size, x \in Nat : x * 256 + b[i] \in Nat
    BY <1>3
  <2>2. G \in [1..size -> [Nat -> Nat]]
    BY <2>1, Zenon
  <2>3. \A i \in 1..size, x \in Nat : G[i][x] = x * 256 + b[i]
    BY Zenon
  <2>. HIDE DEF G
  <2>4. PICK f \in [0..size -> Nat] : Recursive(0, size, G, f)
    BY <2>2, Recursion, Zenon
  <2>5. \A k \in 0..size : f[k] = IF k = 0 THEN 0 ELSE f[k - 1] * 256 + b[k]
    <3>1. \A k \in 0..size : f[k] = IF k = 0 THEN 0 ELSE G[k][f[k - 1]]
      BY <2>4, Zenon DEF Recursive
    <3>2. ASSUME NEW k \in 0..size, k # 0 PROVE G[k][f[k - 1]] = f[k - 1] * 256 + b[k]
      <4>1. k \in 1..size /\ f[k - 1] \in Nat
        BY <3>2
      <4>. QED  BY <2>3, <4>1, ZenonT(30)
    <3>. QED  BY <3>1, <3>2, ZenonT(30)
  <2>6. f = [k \in 0..Len(b) |-> IF k = 0 THEN 0 ELSE f[k - 1] * 256 + b[k]]
    BY <1>1, <2>5
  <2>. QED  BY <2>6, ZenonT(30)
<1>5. Value(value)
  BY <1>4, Zenon
<1>6. Number(b) = value[size]
  BY <1>1, Zenon DEF Number
<1>. HIDE DEF value
<1>7. \A k \in 0..size : value[k] = IF k = 0 THEN 0 ELSE value[k - 1] * 256 + b[k]
  BY <1>1, <1>5
<1>8. 0 \in U
  BY <1>1, <1>7
<1>9. ASSUME NEW k \in Nat, k \in U PROVE k + 1 \in U
  <2>. SUFFICES ASSUME k + 1 <= size PROVE value[k + 1] = Shifted(n, size - (k + 1))
    OBVIOUS
  <2>. DEFINE low == Shifted(n, size - (k + 1))
  <2>1. value[k + 1] = value[k] * 256 + b[k + 1]
    BY <1>7
  <2>2. value[k] = Shifted(n, size - k)
    BY <1>9
  <2>3. b[k + 1] = low % 256
    BY <1>2
  <2>4. low \in Nat /\ Shifted(n, size - k) = Down(low)
    <3>1. PICK j \in Nat : j = size - (k + 1) /\ j + 1 = size - k
      OBVIOUS
    <3>2. Shifted(n, j) \in Nat /\ Shifted(n, j + 1) = Down(Shifted(n, j))
      BY <1>1, <3>1, ShiftFacts, ZenonT(30)
    <3>. QED  BY <3>1, <3>2, Zenon
  <2>. HIDE DEF low
  <2>5. Down(low) * 256 + (low % 256) = low
    BY <2>4, DownFacts, ZenonT(30)
  <2>6. value[k] = Down(low)
    BY <2>2, <2>4, Zenon
  <2>7. value[k + 1] = low
    BY <2>1, <2>3, <2>5, <2>6
  <2>. QED  BY <2>7, Zenon DEF low
<1>10. U = Nat
  <2>. HIDE DEF U
  <2>1. U \in SUBSET Nat
    BY Zenon DEF U
  <2>. QED  BY <1>8, <1>9, <2>1, Induction, Zenon
<1>11. value[size] = Shifted(n, size - size)
  BY <1>10
<1>. QED  BY <1>1, <1>6, <1>11, ShiftFacts DEF b


-----------------------------------------------------------------------------
(* Fields of a sequence of bytes.                                          *)

LEMMA Found ==
    ASSUME NEW S, NEW s \in Seq(S), NEW b \in Seq(S), NEW m \in Nat, m + Len(b) <= Len(s),
           \A i \in 1..Len(b) : s[m + i] = b[i]
    PROVE  SubSeq(s, m + 1, m + Len(b)) = b
<1>. DEFINE t == SubSeq(s, m + 1, m + Len(b))
<1>1. Len(s) \in Nat /\ Len(b) \in Nat
  BY LenProperties, Zenon
<1>2. m + 1 \in Int /\ m + Len(b) \in Int /\ \A i \in (m + 1)..(m + Len(b)) : s[i] \in S
  BY <1>1, ElementOfSeq
<1>3. /\ t \in Seq(S)
      /\ Len(t) = IF m + 1 <= m + Len(b) THEN m + Len(b) - (m + 1) + 1 ELSE 0
      /\ \A i \in 1..(m + Len(b) - (m + 1) + 1) : t[i] = s[m + 1 + i - 1]
  BY <1>2, SubSeqProperties
<1>. HIDE DEF t
<1>4. Len(t) = Len(b)
  BY <1>1, <1>3
<1>5. \A i \in 1..Len(t) : t[i] = b[i]
  BY <1>1, <1>3, <1>4
<1>6. t = b
  BY <1>3, <1>4, <1>5, SeqEqual, Zenon
<1>. QED  BY <1>6, Zenon DEF t

LEMMA Joins ==
    ASSUME NEW S, NEW s \in Seq(S), NEW t \in Seq(S)
    PROVE  /\ s \o t \in Seq(S) /\ Len(s) \in Nat /\ Len(t) \in Nat
           /\ Len(s \o t) = Len(s) + Len(t)
           /\ \A i \in 1..Len(s) : (s \o t)[i] = s[i]
           /\ \A i \in 1..Len(t) : (s \o t)[Len(s) + i] = t[i]
<1>1. Len(s) \in Nat /\ Len(t) \in Nat
  BY LenProperties, Zenon
<1>. QED  BY <1>1, ConcatProperties

\* Four fields, each where the lengths of those before it put it.
Laid(s, x, y, z, w) ==
    /\ Len(s) = Len(x) + Len(y) + Len(z) + Len(w)
    /\ SubSeq(s, 1, Len(x)) = x
    /\ SubSeq(s, Len(x) + 1, Len(x) + Len(y)) = y
    /\ SubSeq(s, Len(x) + Len(y) + 1, Len(x) + Len(y) + Len(z)) = z
    /\ SubSeq(s, Len(x) + Len(y) + Len(z) + 1, Len(s)) = w

LEMMA Layout ==
    ASSUME NEW S, NEW x \in Seq(S), NEW y \in Seq(S), NEW z \in Seq(S), NEW w \in Seq(S)
    PROVE  /\ (x \o y) \o (z \o w) \in Seq(S)
           /\ Laid((x \o y) \o (z \o w), x, y, z, w)
<1>. DEFINE s == (x \o y) \o (z \o w)
<1>. DEFINE l == x \o y
            r == z \o w
<1>1. /\ l \in Seq(S) /\ Len(x) \in Nat /\ Len(y) \in Nat /\ Len(l) = Len(x) + Len(y)
      /\ \A i \in 1..Len(x) : l[i] = x[i]
      /\ \A i \in 1..Len(y) : l[Len(x) + i] = y[i]
  BY Joins
<1>2. /\ r \in Seq(S) /\ Len(z) \in Nat /\ Len(w) \in Nat /\ Len(r) = Len(z) + Len(w)
      /\ \A i \in 1..Len(z) : r[i] = z[i]
      /\ \A i \in 1..Len(w) : r[Len(z) + i] = w[i]
  BY Joins
<1>. HIDE DEF l, r
<1>3. /\ s \in Seq(S) /\ Len(s) = Len(l) + Len(r)
      /\ \A i \in 1..Len(l) : s[i] = l[i]
      /\ \A i \in 1..Len(r) : s[Len(l) + i] = r[i]
  BY <1>1, <1>2, Joins DEF l, r
<1>. HIDE DEF s
<1>4. SubSeq(s, 1, Len(x)) = x
  <2>1. \A i \in 1..Len(x) : s[0 + i] = x[i]
    BY <1>1, <1>3
  <2>2. 0 \in Nat /\ 0 + Len(x) <= Len(s)
    BY <1>1, <1>2, <1>3
  <2>3. SubSeq(s, 0 + 1, 0 + Len(x)) = x
    BY <1>3, <2>1, <2>2, Found, Zenon
  <2>. QED  BY <1>1, <2>3
<1>5. SubSeq(s, Len(x) + 1, Len(x) + Len(y)) = y
  <2>1. \A i \in 1..Len(y) : s[Len(x) + i] = y[i]
    BY <1>1, <1>3, SMTT(20)
  <2>2. Len(x) + Len(y) <= Len(s)
    BY <1>1, <1>2, <1>3
  <2>. QED  BY <1>1, <1>3, <2>1, <2>2, Found, Zenon
<1>6. SubSeq(s, Len(x) + Len(y) + 1, Len(x) + Len(y) + Len(z)) = z
  <2>1. \A i \in 1..Len(z) : s[Len(l) + i] = z[i]
    BY <1>1, <1>2, <1>3, SMTT(20)
  <2>2. Len(l) \in Nat /\ Len(l) + Len(z) <= Len(s)
    BY <1>1, <1>2, <1>3
  <2>3. SubSeq(s, Len(l) + 1, Len(l) + Len(z)) = z
    BY <1>3, <2>1, <2>2, Found, Zenon
  <2>. QED  BY <1>1, <2>3, Zenon
<1>7. SubSeq(s, Len(x) + Len(y) + Len(z) + 1, Len(s)) = w
  <2>. DEFINE m == Len(l) + Len(z)
  <2>1. m \in Nat /\ m = Len(x) + Len(y) + Len(z) /\ Len(s) = m + Len(w)
    BY <1>1, <1>2, <1>3
  <2>2. \A i \in 1..Len(w) : s[m + i] = w[i]
    <3>. SUFFICES ASSUME NEW i \in 1..Len(w) PROVE s[m + i] = w[i]
      BY Zenon
    <3>1. Len(z) + i \in 1..Len(r) /\ m + i = Len(l) + (Len(z) + i)
      BY <1>1, <1>2
    <3>. QED  BY <1>2, <1>3, <3>1, Zenon
  <2>. HIDE DEF m
  <2>3. m + Len(w) <= Len(s)
    BY <1>2, <2>1
  <2>4. SubSeq(s, m + 1, m + Len(w)) = w
    BY <1>3, <2>1, <2>2, <2>3, Found, Zenon
  <2>. QED  BY <2>1, <2>4, Zenon
<1>8. Len(s) = Len(x) + Len(y) + Len(z) + Len(w)
  BY <1>1, <1>2, <1>3
<1>. QED  BY <1>3, <1>4, <1>5, <1>6, <1>7, <1>8, Zenon DEF Laid, s


-----------------------------------------------------------------------------
(* What the reader unpacks is what was packed.                             *)

LEMMA TextFacts ==
    ASSUME NEW t \in Text
    PROVE  /\ t \in Seq(Byte) /\ Len(t) \in Nat
           /\ BigEndian(Len(t), 2) \in Seq(Byte) /\ Len(BigEndian(Len(t), 2)) = 2
           /\ Number(BigEndian(Len(t), 2)) = Len(t)
<1>1. t \in Seq(Byte) /\ Len(t) \in Nat /\ Len(t) \in Fitting(2)
  BY LenProperties, Zenon DEF Text
<1>2. 2 \in Nat
  BY Zenon
<1>. QED  BY <1>1, <1>2, BigEndianFacts, NumberRoundTrip, Zenon

LEMMA LongFacts ==
    ASSUME NEW v \in Fitting(LongSize)
    PROVE  /\ BigEndian(v, LongSize) \in Seq(Byte) /\ Len(BigEndian(v, LongSize)) = LongSize
           /\ Number(BigEndian(v, LongSize)) = v
<1>1. LongSize \in Nat /\ v \in Nat
  BY FramesAssumption, Zenon DEF Fitting
<1>. QED  BY <1>1, BigEndianFacts, NumberRoundTrip, Zenon

\* A number, a hash or token, and a name: the payloads of GET and PUT.
Fields(s, v, h, name) ==
    /\ WellNamed(s, LongSize + Len(h))
    /\ Number(SubSeq(s, 1, 1 + LongSize - 1)) = v
    /\ SubSeq(s, LongSize + 1, LongSize + Len(h)) = h
    /\ From(s, LongSize + Len(h) + 3) = name

LEMMA NamedRoundTrip ==
    ASSUME NEW v \in Fitting(LongSize), NEW h \in Seq(Byte), NEW name \in Text,
           NEW s, s = BigEndian(v, LongSize) \o h \o Counted(name)
    PROVE  s \in Seq(Byte) /\ Fields(s, v, h, name)
<1>. DEFINE x == BigEndian(v, LongSize)
            z == BigEndian(Len(name), 2)
<1>1. LongSize \in Nat /\ Len(h) \in Nat
  BY FramesAssumption, LenProperties, Zenon
<1>2. x \in Seq(Byte) /\ Len(x) = LongSize /\ Number(x) = v
  BY LongFacts, Zenon
<1>3. name \in Seq(Byte) /\ Len(name) \in Nat /\ z \in Seq(Byte) /\ Len(z) = 2 /\ Number(z) = Len(name)
  BY TextFacts, Zenon
<1>4. s = (x \o h) \o (z \o name)
  BY Zenon DEF Counted
<1>. HIDE DEF x, z
<1>5. /\ s \in Seq(Byte) /\ Len(s) = Len(x) + Len(h) + Len(z) + Len(name)
      /\ SubSeq(s, 1, Len(x)) = x
      /\ SubSeq(s, Len(x) + 1, Len(x) + Len(h)) = h
      /\ SubSeq(s, Len(x) + Len(h) + 1, Len(x) + Len(h) + Len(z)) = z
      /\ SubSeq(s, Len(x) + Len(h) + Len(z) + 1, Len(s)) = name
  <2>1. (x \o h) \o (z \o name) \in Seq(Byte) /\ Laid((x \o h) \o (z \o name), x, h, z, name)
    BY <1>2, <1>3, Layout, Zenon
  <2>. QED  BY <1>4, <2>1, Zenon DEF Laid
<1>6. 1 + LongSize - 1 = Len(x) /\ LongSize + Len(h) + 3 = Len(x) + Len(h) + Len(z) + 1
  BY <1>1, <1>2, <1>3
<1>7. LongSize + Len(h) + 1 = Len(x) + Len(h) + 1 /\ LongSize + Len(h) + 2 = Len(x) + Len(h) + Len(z)
  BY <1>1, <1>2, <1>3, Zenon
<1>8. Number(SubSeq(s, LongSize + Len(h) + 1, LongSize + Len(h) + 2)) = Len(name)
  BY <1>3, <1>5, <1>7, Zenon
<1>9. WellNamed(s, LongSize + Len(h))
  <2>. DEFINE k == LongSize + Len(h)
  <2>1. k \in Nat /\ Len(s) = k + 2 + Len(name) /\ Len(s) >= k + 2
    BY <1>1, <1>2, <1>3, <1>5
  <2>2. Len(s) = k + 2 + Number(SubSeq(s, k + 1, k + 2))
    BY <1>8, <2>1, Zenon
  <2>. QED  BY <2>1, <2>2, Zenon DEF WellNamed
<1>10. Number(SubSeq(s, 1, 1 + LongSize - 1)) = v
  BY <1>2, <1>5, <1>6, Zenon
<1>11. From(s, LongSize + Len(h) + 3) = name
  BY <1>5, <1>6, Zenon DEF From
<1>12. SubSeq(s, LongSize + 1, LongSize + Len(h)) = h
  BY <1>2, <1>5, Zenon
<1>. QED  BY <1>5, <1>9, <1>10, <1>11, <1>12, Zenon DEF Fields

\* A reason and a text, for either client.
LEMMA ErrorRoundTrip ==
    ASSUME NEW r \in Byte, NEW t \in Text, NEW s, s = <<r>> \o Counted(t)
    PROVE  LET e == [type |-> "ERROR", form |-> "error", reason |-> r, text |-> t]
           IN  s \in Seq(Byte) /\ rtrv_report_error(s) = e /\ unpack_error(s) = e
<1>. DEFINE x == <<r>>
            z == BigEndian(Len(t), 2)
            none == <<>>
<1>1. t \in Seq(Byte) /\ Len(t) \in Nat /\ z \in Seq(Byte) /\ Len(z) = 2 /\ Number(z) = Len(t)
  BY TextFacts, Zenon
<1>2. x \in Seq(Byte) /\ Len(x) = 1 /\ x[1] = r /\ none \in Seq(Byte) /\ Len(none) = 0
  OBVIOUS
<1>3. x \o none = x
  BY <1>2, ConcatEmptySeq, Zenon
<1>4. s = (x \o none) \o (z \o t)
  BY <1>3, Zenon DEF Counted
<1>. HIDE DEF x, z, none
<1>5. /\ s \in Seq(Byte) /\ Len(s) = Len(x) + Len(none) + Len(z) + Len(t)
      /\ SubSeq(s, Len(x) + Len(none) + 1, Len(x) + Len(none) + Len(z)) = z
      /\ SubSeq(s, Len(x) + Len(none) + Len(z) + 1, Len(s)) = t
  <2>1. (x \o none) \o (z \o t) \in Seq(Byte) /\ Laid((x \o none) \o (z \o t), x, none, z, t)
    BY <1>1, <1>2, Layout, Zenon
  <2>. QED  BY <1>4, <2>1, Zenon DEF Laid
<1>6. Len(s) = 3 + Len(t) /\ SubSeq(s, 2, 3) = z /\ SubSeq(s, 4, Len(s)) = t
  BY <1>1, <1>2, <1>5
<1>7. s[1] = r
  <2>1. s = x \o (z \o t) /\ z \o t \in Seq(Byte)
    BY <1>1, <1>3, <1>4, Joins, Zenon
  <2>2. \A i \in 1..Len(x) : s[i] = x[i]
    BY <1>2, <2>1, Joins
  <2>. QED  BY <1>2, <2>2
<1>8. Number(SubSeq(s, 2, 3)) = Len(t)
  BY <1>1, <1>6, Zenon
<1>9. SubSeq(s, 4, 3 + Number(SubSeq(s, 2, 3))) = t
  BY <1>6, <1>8, Zenon
<1>10. ~(Len(s) < 3 \/ Number(SubSeq(s, 2, 3)) + 3 > Len(s)) /\ Number(SubSeq(s, 2, 3)) + 3 = Len(s)
  <2>1. \A n : n = Len(t) => ~(Len(s) < 3 \/ n + 3 > Len(s)) /\ n + 3 = Len(s)
    BY <1>1, <1>6
  <2>. QED  BY <1>8, <2>1, Zenon
<1>11. rtrv_report_error(s) = [type |-> "ERROR", form |-> "error", reason |-> r, text |-> t]
  BY <1>7, <1>9, <1>10, Zenon DEF rtrv_report_error
<1>12. unpack_error(s) = [type |-> "ERROR", form |-> "error", reason |-> r, text |-> t]
  BY <1>6, <1>7, <1>10, Zenon DEF unpack_error, From
<1>. QED  BY <1>5, <1>11, <1>12, Zenon


-----------------------------------------------------------------------------
(* A sequence put together piece by piece.                                 *)

\* f[k] is the first k pieces, joined.
Chained(n, f, g) == \A k \in 1..n : f[k] = f[k - 1] \o g[k]

\* What has been put together stays where it is.
Begins(f, k, m) == Len(f[k]) <= Len(f[m]) /\ \A i \in 1..Len(f[k]) : f[m][i] = f[k][i]

LEMMA Stays ==
    ASSUME NEW S, NEW n \in Nat, NEW f \in [0..n -> Seq(S)], NEW g \in [1..n -> Seq(S)],
           Chained(n, f, g), NEW k \in 0..n, NEW m \in k..n
    PROVE  Begins(f, k, m)
<1>. DEFINE Here(d) == Len(f[k]) <= Len(f[k + d]) /\ \A i \in 1..Len(f[k]) : f[k + d][i] = f[k][i]
            U == {d \in Nat : k + d <= n => Here(d)}
<1>1. \A j \in 0..n : f[j] \in Seq(S) /\ Len(f[j]) \in Nat
  BY LenProperties, Zenon
<1>2. 0 \in U
  BY <1>1
<1>3. ASSUME NEW d \in Nat, d \in U PROVE d + 1 \in U
  <2>. SUFFICES ASSUME k + (d + 1) <= n PROVE Here(d + 1)
    OBVIOUS
  <2>1. Here(d)
    BY <1>3
  <2>2. PICK j \in 0..n : j = k + d /\ j + 1 \in 1..n /\ j + 1 = k + (d + 1) /\ (j + 1) - 1 = j
    OBVIOUS
  <2>3. f[j + 1] = f[j] \o g[j + 1]
    BY <2>2, Zenon DEF Chained
  <2>4. /\ Len(f[j + 1]) = Len(f[j]) + Len(g[j + 1]) /\ Len(g[j + 1]) \in Nat
        /\ \A i \in 1..Len(f[j]) : f[j + 1][i] = f[j][i]
    BY <1>1, <2>2, <2>3, Joins
  <2>5. Len(f[k]) <= Len(f[j]) /\ \A i \in 1..Len(f[k]) : f[j][i] = f[k][i]
    BY <2>1, <2>2, Zenon
  <2>6. Len(f[k]) <= Len(f[j + 1])
    BY <1>1, <2>2, <2>4, <2>5
  <2>7. \A i \in 1..Len(f[k]) : i \in 1..Len(f[j])
    BY <1>1, <2>2, <2>5
  <2>8. \A i \in 1..Len(f[k]) : f[j + 1][i] = f[k][i]
    BY <2>4, <2>5, <2>7, Zenon
  <2>. QED  BY <2>2, <2>6, <2>8, Zenon
<1>4. U = Nat
  <2>. HIDE DEF U
  <2>1. U \in SUBSET Nat
    BY Zenon DEF U
  <2>. QED  BY <1>2, <1>3, <2>1, Induction, Zenon
<1>5. PICK d \in Nat : m = k + d
  <2>1. m - k \in Nat /\ m = k + (m - k)
    OBVIOUS
  <2>. QED  BY <2>1, Zenon
<1>6. Here(d)
  <2>1. d \in U
    BY <1>4, Zenon
  <2>2. k + d <= n
    BY <1>5
  <2>. QED  BY <2>1, <2>2, Zenon
<1>. QED  BY <1>5, <1>6, Zenon DEF Begins

\* Piece k comes right after the first k - 1, in all that is put together of m pieces.
After(f, g, k, m) ==
    /\ Len(f[k - 1]) \in Nat /\ Len(f[k]) \in Nat /\ Len(g[k]) \in Nat /\ Len(f[m]) \in Nat
    /\ Len(f[k]) = Len(f[k - 1]) + Len(g[k])
    /\ Len(f[k - 1]) + Len(g[k]) <= Len(f[m])

Holds(f, g, k, m) == \A i \in 1..Len(g[k]) : f[m][Len(f[k - 1]) + i] = g[k][i]

LEMMA PieceAt ==
    ASSUME NEW S, NEW n \in Nat, NEW f \in [0..n -> Seq(S)], NEW g \in [1..n -> Seq(S)],
           Chained(n, f, g), NEW k \in 1..n, NEW m \in k..n
    PROVE  After(f, g, k, m) /\ Holds(f, g, k, m)
<1>1. k - 1 \in 0..n /\ k \in 0..n /\ m \in 0..n
  OBVIOUS
<1>2. f[k - 1] \in Seq(S) /\ g[k] \in Seq(S) /\ f[m] \in Seq(S) /\ f[k] = f[k - 1] \o g[k]
  BY <1>1, Zenon DEF Chained
<1>3. /\ Len(f[k - 1]) \in Nat /\ Len(g[k]) \in Nat /\ Len(f[m]) \in Nat
      /\ Len(f[k]) = Len(f[k - 1]) + Len(g[k])
      /\ \A i \in 1..Len(g[k]) : f[k][Len(f[k - 1]) + i] = g[k][i]
  BY <1>2, Joins
<1>4. Len(f[k]) <= Len(f[m]) /\ \A i \in 1..Len(f[k]) : f[m][i] = f[k][i]
  <2>1. Begins(f, k, m)
    BY <1>1, Stays, Zenon
  <2>. QED  BY <2>1, Zenon DEF Begins
<1>5. \A i \in 1..Len(g[k]) : Len(f[k - 1]) + i \in 1..Len(f[k])
  BY <1>3
<1>6. \A i \in 1..Len(g[k]) : f[m][Len(f[k - 1]) + i] = g[k][i]
  BY <1>3, <1>4, <1>5, Zenon
<1>7. Len(f[k]) \in Nat /\ Len(f[k - 1]) + Len(g[k]) <= Len(f[m])
  BY <1>3, <1>4
<1>. QED  BY <1>3, <1>6, <1>7, Zenon DEF After, Holds


-----------------------------------------------------------------------------
(* Listings.                                                               *)

\* What handle_list adds for name k.
Added(names, k) == (IF k > 1 THEN <<0>> ELSE <<>>) \o names[k]

Join(names, f) ==
    f = [k \in 0..Len(names) |->
            IF k = 0 THEN <<>> ELSE f[k - 1] \o (IF k > 1 THEN <<0>> ELSE <<>>) \o names[k]]

LEMMA EntryFacts ==
    ASSUME NEW e \in Entry
    PROVE  /\ e \in Seq(Byte) /\ Len(e) \in Nat \ {0}
           /\ \A i \in 1..Len(e) : e[i] # 0
<1>1. e \in Seq(1..255) /\ e # <<>>
  BY Zenon DEF Entry
<1>2. 1..255 \subseteq Byte
  BY DEF Byte
<1>3. \A i \in 1..Len(e) : e[i] \in 1..255
  BY <1>1, ElementOfSeq, Zenon
<1>4. e \in Seq(Byte)
  BY <1>1, <1>2, SeqMonotonic, Zenon
<1>5. Len(e) \in Nat \ {0}
  BY <1>1, EmptySeq, Zenon
<1>6. \A i \in 1..Len(e) : e[i] # 0
  <2>1. 0 \notin 1..255
    OBVIOUS
  <2>. QED  BY <1>3, <2>1, Zenon
<1>. QED  BY <1>4, <1>5, <1>6, Zenon

Cat(s, t) == s \o t

LEMMA Regrouped ==
    ASSUME NEW S PROVE \A s, t, u \in Seq(S) : Cat(Cat(s, t), u) = Cat(s, Cat(t, u))
  BY SMTT(20) DEF Cat

LEMMA AddedFacts ==
    ASSUME NEW names \in Seq(Entry), NEW k \in 1..Len(names)
    PROVE  /\ names[k] \in Entry /\ Added(names, k) \in Seq(Byte)
           /\ \A x \in Seq(Byte) :
                 /\ x \o Added(names, k) \in Seq(Byte)
                 /\ x \o (IF k > 1 THEN <<0>> ELSE <<>>) \o names[k] = x \o Added(names, k)
<1>. DEFINE sep == IF k > 1 THEN <<0>> ELSE <<>>
<1>1. names[k] \in Entry
  BY ElementOfSeq, Zenon
<1>2. names[k] \in Seq(Byte)
  BY <1>1, EntryFacts, Zenon
<1>3. sep \in Seq(Byte)
  <2>1. 0 \in Byte
    BY DEF Byte
  <2>2. <<0>> \in Seq(Byte) /\ <<>> \in Seq(Byte)
    BY <2>1
  <2>. QED  BY <2>2, Zenon
<1>. HIDE DEF sep
<1>4. sep \o names[k] \in Seq(Byte)
  BY <1>2, <1>3, ConcatProperties, Zenon
<1>5. \A x \in Seq(Byte) : /\ x \o (sep \o names[k]) \in Seq(Byte)
                           /\ (x \o sep) \o names[k] = x \o (sep \o names[k])
  <2>. SUFFICES ASSUME NEW x \in Seq(Byte)
                PROVE  /\ x \o (sep \o names[k]) \in Seq(Byte)
                       /\ (x \o sep) \o names[k] = x \o (sep \o names[k])
    BY Zenon
  <2>1. x \o (sep \o names[k]) \in Seq(Byte)
    BY <1>4, ConcatProperties, Zenon
  <2>2. (x \o sep) \o names[k] = x \o (sep \o names[k])
    <3>1. Cat(Cat(x, sep), names[k]) = Cat(x, Cat(sep, names[k]))
      BY <1>2, <1>3, Regrouped
    <3>. QED  BY <3>1, Zenon DEF Cat
  <2>. QED  BY <2>1, <2>2, Zenon
<1>. QED  BY <1>1, <1>4, <1>5, Zenon DEF Added, sep

\* The payload of a listing, name by name.
LEMMA JoinedFacts ==
    ASSUME NEW names \in Seq(Entry), NEW n, n = Len(names),
           NEW g, g = [k \in 1..n |-> Added(names, k)]
    PROVE  /\ n \in Nat /\ g \in [1..n -> Seq(Byte)]
           /\ \E f \in [0..n -> Seq(Byte)] :
                 f[0] = <<>> /\ Chained(n, f, g) /\ Joined(names) = f[n]
<1>1. n \in Nat
  BY LenProperties, Zenon
<1>2. \A k \in 1..n : g[k] = Added(names, k) /\ g[k] \in Seq(Byte)
  BY AddedFacts, Zenon
<1>3. g \in [1..n -> Seq(Byte)]
  BY <1>2, Zenon
<1>. DEFINE G == [k \in 1..n |-> [x \in Seq(Byte) |-> x \o g[k]]]
            join == CHOOSE f : Join(names, f)
            U == {k \in Nat : k <= n => join[k] \in Seq(Byte)}
<1>4. \A k \in 1..n, x \in Seq(Byte) : x \o g[k] \in Seq(Byte)
  BY <1>2, ConcatProperties, Zenon
<1>5. \A k \in 1..n, x \in Seq(Byte) :
         x \o (IF k > 1 THEN <<0>> ELSE <<>>) \o names[k] = x \o g[k]
  BY <1>2, AddedFacts, Zenon
<1>6. \E f : Join(names, f)
  <2>1. G \in [1..n -> [Seq(Byte) -> Seq(Byte)]]
    BY <1>4, Zenon
  <2>2. \A k \in 1..n, x \in Seq(Byte) : G[k][x] = x \o g[k]
    BY Zenon
  <2>3. <<>> \in Seq(Byte)
    OBVIOUS
  <2>. HIDE DEF G
  <2>4. PICK f \in [0..n -> Seq(Byte)] : Recursive(<<>>, n, G, f)
    BY <1>1, <2>1, <2>3, Recursion, Zenon
  <2>5. ASSUME NEW k \in 0..n
        PROVE  f[k] = IF k = 0 THEN <<>>
                      ELSE f[k - 1] \o (IF k > 1 THEN <<0>> ELSE <<>>) \o names[k]
    <3>1. k # 0 => k \in 1..n /\ f[k - 1] \in Seq(Byte)
      BY <1>1
    <3>2. f[k] = IF k = 0 THEN <<>> ELSE G[k][f[k - 1]]
      BY <2>4, Zenon DEF Recursive
    <3>3. k # 0 => G[k][f[k - 1]] = f[k - 1] \o (IF k > 1 THEN <<0>> ELSE <<>>) \o names[k]
      <4>. SUFFICES ASSUME k # 0
                    PROVE  G[k][f[k - 1]] = f[k - 1] \o (IF k > 1 THEN <<0>> ELSE <<>>) \o names[k]
        BY Zenon
      <4>1. G[k][f[k - 1]] = f[k - 1] \o g[k]
        BY <2>2, <3>1, Zenon
      <4>2. f[k - 1] \o (IF k > 1 THEN <<0>> ELSE <<>>) \o names[k] = f[k - 1] \o g[k]
        BY <1>5, <3>1, Zenon
      <4>. QED  BY <4>1, <4>2, Zenon
    <3>. QED  BY <3>2, <3>3, Zenon
  <2>6. f = [k \in 0..n |-> f[k]]
    BY Zenon
  <2>7. Join(names, f)
    BY <2>5, <2>6, Zenon DEF Join
  <2>. QED  BY <2>7, Zenon
<1>7. Join(names, join)
  BY <1>6, Zenon
<1>8. Joined(names) = join[n]
  BY Zenon DEF Joined, Join
<1>. HIDE DEF join
<1>9. \A k \in 0..n : join[k] = IF k = 0 THEN <<>>
                      ELSE join[k - 1] \o (IF k > 1 THEN <<0>> ELSE <<>>) \o names[k]
  BY <1>7, Zenon DEF Join
<1>10. join[0] = <<>>
  BY <1>1, <1>9
<1>11. 0 \in U
  <2>1. <<>> \in Seq(Byte)
    OBVIOUS
  <2>. QED  BY <1>10, <2>1, Zenon
<1>12. ASSUME NEW k \in Nat, k \in U PROVE k + 1 \in U
  <2>. SUFFICES ASSUME k + 1 <= n PROVE join[k + 1] \in Seq(Byte)
    OBVIOUS
  <2>1. PICK j \in 1..n : j = k + 1 /\ j \in 0..n /\ j # 0 /\ j - 1 = k /\ join[k] \in Seq(Byte)
    BY <1>1, <1>12
  <2>2. join[j] = join[k] \o (IF j > 1 THEN <<0>> ELSE <<>>) \o names[j]
    BY <1>9, <2>1, Zenon
  <2>3. join[j] = join[k] \o g[j]
    BY <1>5, <2>1, <2>2, Zenon
  <2>. QED  BY <1>4, <2>1, <2>3, Zenon
<1>13. U = Nat
  <2>. HIDE DEF U
  <2>1. U \in SUBSET Nat
    BY Zenon DEF U
  <2>. QED  BY <1>11, <1>12, <2>1, Induction, Zenon
<1>14. \A k \in 0..n : join[k] \in Seq(Byte)
  BY <1>1, <1>13
<1>15. join \in [0..n -> Seq(Byte)]
  <2>1. join = [k \in 0..n |-> join[k]]
    BY <1>7, Zenon DEF Join
  <2>. QED  BY <1>14, <2>1, Zenon
<1>16. ASSUME NEW k \in 1..n PROVE join[k] = join[k - 1] \o g[k]
  <2>1. k \in 0..n /\ k # 0 /\ k - 1 \in 0..n
    BY <1>1
  <2>. QED  BY <1>5, <1>9, <1>14, <2>1, Zenon
<1>. QED  BY <1>1, <1>3, <1>8, <1>10, <1>15, <1>16, Zenon DEF Chained


\* A piece of the listing: the name, after a zero byte if it is not the first.
Shape(piece, name, k) ==
    /\ k = 1 => piece = name
    /\ k > 1 => /\ Len(piece) = Len(name) + 1 /\ piece[1] = 0
                /\ \A d \in 1..Len(name) : piece[1 + d] = name[d]

LEMMA AddedShape ==
    ASSUME NEW names \in Seq(Entry), NEW k \in 1..Len(names)
    PROVE  Shape(Added(names, k), names[k], k)
<1>1. names[k] \in Seq(Byte)
  BY AddedFacts, EntryFacts, Zenon
<1>2. CASE k = 1
  <2>1. Added(names, k) = <<>> \o names[k]
    BY <1>2 DEF Added
  <2>2. Added(names, k) = names[k]
    BY <1>1, <2>1, ConcatEmptySeq, Zenon
  <2>. QED  BY <1>2, <2>2 DEF Shape
<1>3. CASE k # 1
  <2>. DEFINE zero == <<0>>
  <2>1. zero \in Seq(Byte) /\ Len(zero) = 1 /\ zero[1] = 0
    BY DEF Byte
  <2>2. k > 1 /\ Len(names[k]) \in Nat
    BY <1>1, <1>3, LenProperties
  <2>3. Added(names, k) = zero \o names[k]
    BY <2>2, Zenon DEF Added
  <2>. HIDE DEF zero
  <2>4. /\ Len(Added(names, k)) = Len(zero) + Len(names[k])
        /\ \A i \in 1..Len(zero) : Added(names, k)[i] = zero[i]
        /\ \A d \in 1..Len(names[k]) : Added(names, k)[Len(zero) + d] = names[k][d]
    BY <1>1, <2>1, <2>3, Joins, SMTT(20)
  <2>5. /\ Len(Added(names, k)) = Len(names[k]) + 1 /\ Added(names, k)[1] = 0
        /\ \A d \in 1..Len(names[k]) : Added(names, k)[1 + d] = names[k][d]
    BY <2>1, <2>2, <2>4
  <2>. QED  BY <1>3, <2>5, Zenon DEF Shape
<1>. QED  BY <1>2, <1>3, Zenon

\* Where name k is in the listing P, if q is the place of the zero byte, or of the
\* end, after each name.
Placed(names, P, q, k) ==
    /\ q[k] = q[k - 1] + Len(names[k]) + 1
    /\ q[k] <= Len(P) + 1
    /\ \A d \in 1..Len(names[k]) : P[q[k - 1] + d] = names[k][d]
    /\ k = Len(names) => q[k] = Len(P) + 1
    /\ k < Len(names) => q[k] <= Len(P) /\ P[q[k]] = 0

LEMMA ListLayout ==
    ASSUME NEW names \in Seq(Entry), NEW n, n = Len(names), NEW P, P = Joined(names)
    PROVE  /\ n \in Nat /\ P \in Seq(Byte) /\ (n = 0 => P = <<>>)
           /\ \E q \in [0..n -> Nat] : q[0] = 0 /\ \A k \in 1..n : Placed(names, P, q, k)
<1>. DEFINE g == [k \in 1..n |-> Added(names, k)]
<1>1. /\ n \in Nat /\ g \in [1..n -> Seq(Byte)]
      /\ \E f \in [0..n -> Seq(Byte)] : f[0] = <<>> /\ Chained(n, f, g) /\ P = f[n]
  BY JoinedFacts, Zenon
<1>2. \A k \in 1..n : g[k] = Added(names, k)
  BY Zenon
<1>. HIDE DEF g
<1>3. PICK f \in [0..n -> Seq(Byte)] : f[0] = <<>> /\ Chained(n, f, g) /\ P = f[n]
  BY <1>1, Zenon
<1>. DEFINE q == [k \in 0..n |-> IF k = 0 THEN 0 ELSE Len(f[k]) + 1]
<1>4. \A k \in 0..n : Len(f[k]) \in Nat
  BY LenProperties, Zenon
<1>5. q \in [0..n -> Nat] /\ \A k \in 0..n : q[k] = IF k = 0 THEN 0 ELSE Len(f[k]) + 1
  BY <1>4
<1>. HIDE DEF q
<1>6. Len(f[0]) = 0 /\ q[0] = 0
  BY <1>1, <1>3, <1>5
<1>7. \A k \in 1..n : After(f, g, k, n) /\ Holds(f, g, k, n)
  <2>. SUFFICES ASSUME NEW k \in 1..n PROVE After(f, g, k, n) /\ Holds(f, g, k, n)
    BY Zenon
  <2>1. n \in k..n
    BY <1>1
  <2>. QED  BY <1>1, <1>3, <2>1, PieceAt, Zenon
<1>8. \A k \in 1..n : names[k] \in Seq(Byte) /\ Len(names[k]) \in Nat /\ Shape(g[k], names[k], k)
  BY <1>2, AddedFacts, EntryFacts, AddedShape, Zenon
<1>9. ASSUME NEW k \in 1..n PROVE Placed(names, P, q, k)
  <2>0. /\ After(f, g, k, n) /\ Holds(f, g, k, n)
        /\ Len(names[k]) \in Nat /\ Shape(g[k], names[k], k)
    BY <1>7, <1>8, Zenon
  <2>1. k \in 0..n /\ k # 0 /\ k - 1 \in 0..n
    BY <1>1
  <2>7. PICK A \in Nat, B \in Nat, C \in Nat, L \in Nat :
           /\ A = Len(f[k - 1]) /\ B = Len(g[k]) /\ C = Len(P) /\ L = Len(names[k])
           /\ Len(f[k]) = A + B /\ A + B <= C
    BY <1>3, <2>0, Zenon DEF After
  <2>2. q[k] = Len(f[k]) + 1 /\ q[k] \in Nat
    BY <1>5, <2>1, <1>4, Zenon
  <2>3. q[k] = q[k - 1] + Len(names[k]) + 1 /\ \A d \in 1..Len(names[k]) : P[q[k - 1] + d] = names[k][d]
    <3>1. CASE k = 1
      <4>1. g[k] = names[k] /\ k - 1 = 0
        BY <2>0, <3>1 DEF Shape
      <4>. QED  BY <1>3, <1>6, <2>0, <2>2, <4>1, ZenonT(30) DEF After, Holds
    <3>2. CASE k # 1
      <4>1. /\ Len(g[k]) = Len(names[k]) + 1
            /\ \A d \in 1..Len(names[k]) : g[k][1 + d] = names[k][d]
        <5>1. k > 1
          BY <3>2
        <5>. QED  BY <2>0, <5>1, Zenon DEF Shape
      <4>2. q[k - 1] = Len(f[k - 1]) + 1
        BY <1>5, <2>1, <3>2
      <4>3. ASSUME NEW d \in 1..Len(names[k]) PROVE P[q[k - 1] + d] = names[k][d]
        <5>1. 1 + d \in 1..Len(g[k]) /\ q[k - 1] + d = Len(f[k - 1]) + (1 + d)
          <6>1. B = L + 1 /\ q[k - 1] = A + 1 /\ d \in 1..L
            BY <2>7, <4>1, <4>2, Zenon
          <6>2. 1 + d \in 1..B /\ q[k - 1] + d = A + (1 + d)
            BY <6>1
          <6>. QED  BY <2>7, <6>2, Zenon
        <5>. QED  BY <1>3, <2>0, <4>1, <5>1, Zenon DEF Holds
      <4>4. B = L + 1 /\ q[k - 1] = A + 1 /\ q[k] = (A + B) + 1
        BY <2>7, <2>2, <4>1, <4>2, Zenon
      <4>5. q[k] = q[k - 1] + L + 1
        BY <4>4
      <4>. QED  BY <2>7, <4>3, <4>5, Zenon
    <3>. QED  BY <3>1, <3>2, Zenon
  <2>4. q[k] <= Len(P) + 1
    <3>1. q[k] = (A + B) + 1
      BY <2>7, <2>2, Zenon
    <3>2. A + B <= C
      BY <2>7, Zenon
    <3>3. q[k] <= C + 1
      BY <3>1, <3>2
    <3>. QED  BY <2>7, <3>3, Zenon
  <2>5. k = n => q[k] = Len(P) + 1
    BY <1>3, <2>2, Zenon
  <2>6. ASSUME k < n PROVE q[k] <= Len(P) /\ P[q[k]] = 0
    <3>1. PICK j \in 1..n : j = k + 1 /\ j - 1 = k /\ j > 1
      BY <1>1, <2>6
    <3>2. Len(g[j]) = Len(names[j]) + 1 /\ g[j][1] = 0
      BY <1>8, <3>1, Zenon DEF Shape
    <3>3. After(f, g, j, n) /\ Holds(f, g, j, n) /\ Len(names[j]) \in Nat
      BY <1>7, <1>8, Zenon
    <3>4. 1 \in 1..Len(g[j])
      BY <3>2, <3>3 DEF After
    <3>5. Len(f[k]) + Len(g[j]) <= Len(P) /\ P[Len(f[k]) + 1] = g[j][1]
      BY <1>3, <3>1, <3>3, <3>4, Zenon DEF After, Holds
    <3>. QED  BY <1>3, <1>4, <2>1, <2>2, <3>2, <3>3, <3>5, SMTT(20) DEF After
  <2>. QED  BY <2>3, <2>4, <2>5, <2>6, Zenon DEF Placed
<1>10. P \in Seq(Byte) /\ (n = 0 => P = <<>>)
  <2>1. n \in 0..n
    BY <1>1
  <2>. QED  BY <1>3, <2>1, Zenon
<1>. QED  BY <1>1, <1>5, <1>6, <1>9, <1>10, Zenon


\* One step of the walk of do_list, from the names so far and the start of the next.
WalkStep(P, i, x) ==
    IF i < Len(P) + 1 /\ P[i] # 0 THEN x
    ELSE [names |-> IF i > x.start THEN Append(x.names, SubSeq(P, x.start, i - 1)) ELSE x.names,
          start |-> i + 1]

Nothing == [names |-> <<>>, start |-> 1]

Walk(P, f) == f = [i \in 0..(Len(P) + 1) |-> IF i = 0 THEN Nothing ELSE WalkStep(P, i, f[i - 1])]

WalkState == [names : Seq(Seq(Byte)), start : Nat \ {0}]

LEMMA WalkStepType ==
    ASSUME NEW P \in Seq(Byte), NEW i \in 1..(Len(P) + 1), NEW x \in WalkState
    PROVE  WalkStep(P, i, x) \in WalkState
<1>1. x.names \in Seq(Seq(Byte)) /\ x.start \in Nat \ {0} /\ Len(P) \in Nat
  BY LenProperties, Zenon DEF WalkState
<1>2. i + 1 \in Nat \ {0} /\ i - 1 \in Int /\ x.start \in Int
  BY <1>1
<1>3. \A j \in x.start..(i - 1) : P[j] \in Byte
  BY <1>1
<1>4. SubSeq(P, x.start, i - 1) \in Seq(Byte)
  BY <1>2, <1>3, SubSeqProperties, Zenon
<1>. DEFINE more == Append(x.names, SubSeq(P, x.start, i - 1))
<1>5. more \in Seq(Seq(Byte))
  BY <1>1, <1>4, AppendProperties, Zenon
<1>. HIDE DEF more
<1>6. [names |-> IF i > x.start THEN more ELSE x.names, start |-> i + 1] \in WalkState
  <2>1. (IF i > x.start THEN more ELSE x.names) \in Seq(Seq(Byte))
    BY <1>1, <1>5, Zenon
  <2>. QED  BY <1>2, <2>1, Zenon DEF WalkState
<1>. QED  BY <1>6, Zenon DEF WalkStep, more

\* w is the walk through P.
Walks(P, w) == w[0] = Nothing /\ \A i \in 1..(Len(P) + 1) : w[i] = WalkStep(P, i, w[i - 1])

LEMMA WalkFacts ==
    ASSUME NEW P \in Seq(Byte)
    PROVE  \E w : Walks(P, w) /\ do_list(P) = w[Len(P) + 1].names
<1>. DEFINE n == Len(P) + 1
            G == [i \in 1..n |-> [x \in WalkState |-> WalkStep(P, i, x)]]
            walk == CHOOSE f : Walk(P, f)
<1>1. n \in Nat
  BY LenProperties
<1>2. Nothing \in WalkState
  <2>1. <<>> \in Seq(Seq(Byte)) /\ 1 \in Nat \ {0}
    OBVIOUS
  <2>. QED  BY <2>1, Zenon DEF WalkState, Nothing
<1>3. \A i \in 1..n, x \in WalkState : WalkStep(P, i, x) \in WalkState
  BY WalkStepType, Zenon
<1>4. G \in [1..n -> [WalkState -> WalkState]]
  BY <1>3, Zenon
<1>5. \A i \in 1..n, x \in WalkState : G[i][x] = WalkStep(P, i, x)
  BY Zenon
<1>. HIDE DEF G
<1>6. \E f : Walk(P, f)
  <2>1. PICK f \in [0..n -> WalkState] : Recursive(Nothing, n, G, f)
    BY <1>1, <1>2, <1>4, Recursion, Zenon
  <2>2. ASSUME NEW i \in 0..n
        PROVE  f[i] = IF i = 0 THEN Nothing ELSE WalkStep(P, i, f[i - 1])
    <3>1. i # 0 => i \in 1..n /\ i - 1 \in 0..n
      BY <1>1
    <3>2. f[i] = IF i = 0 THEN Nothing ELSE G[i][f[i - 1]]
      BY <2>1, Zenon DEF Recursive
    <3>3. i # 0 => G[i][f[i - 1]] = WalkStep(P, i, f[i - 1])
      BY <1>5, <3>1, Zenon
    <3>. QED  BY <3>2, <3>3, Zenon
  <2>3. f = [i \in 0..n |-> f[i]]
    BY Zenon
  <2>4. Walk(P, f)
    BY <2>2, <2>3, Zenon DEF Walk
  <2>. QED  BY <2>4, Zenon
<1>7. Walk(P, walk)
  BY <1>6, Zenon
<1>8. do_list(P) = walk[n].names
  BY Zenon DEF do_list, Walk, WalkStep, Nothing
<1>. HIDE DEF walk
<1>9. \A i \in 0..n : walk[i] = IF i = 0 THEN Nothing ELSE WalkStep(P, i, walk[i - 1])
  BY <1>7, Zenon DEF Walk
<1>10. walk[0] = Nothing
  BY <1>1, <1>9
<1>11. ASSUME NEW i \in 1..n PROVE walk[i] = WalkStep(P, i, walk[i - 1])
  <2>1. i \in 0..n /\ i # 0
    BY <1>1
  <2>. QED  BY <1>9, <2>1, Zenon
<1>. QED  BY <1>8, <1>10, <1>11, Zenon DEF Walks

LEMMA OneMore ==
    ASSUME NEW S, NEW s \in Seq(S), NEW k \in Nat, k + 1 <= Len(s)
    PROVE  Append(SubSeq(s, 1, k), s[k + 1]) = SubSeq(s, 1, k + 1)
<1>. DEFINE a == SubSeq(s, 1, k)
            b == SubSeq(s, 1, k + 1)
<1>1. Len(s) \in Nat /\ s[k + 1] \in S /\ \A i \in 1..(k + 1) : s[i] \in S
  BY LenProperties
<1>2. a \in Seq(S) /\ Len(a) = k /\ \A i \in 1..k : a[i] = s[i]
  BY <1>1
<1>3. b \in Seq(S) /\ Len(b) = k + 1 /\ \A i \in 1..(k + 1) : b[i] = s[i]
  BY <1>1
<1>. HIDE DEF a, b
<1>4. /\ Append(a, s[k + 1]) \in Seq(S) /\ Len(Append(a, s[k + 1])) = Len(a) + 1
      /\ \A i \in 1..Len(a) : Append(a, s[k + 1])[i] = a[i]
      /\ Append(a, s[k + 1])[Len(a) + 1] = s[k + 1]
  BY <1>1, <1>2, AppendProperties
<1>. DEFINE c == Append(a, s[k + 1])
<1>. HIDE DEF c
<1>5. c \in Seq(S) /\ Len(c) = k + 1 /\ \A i \in 1..k : c[i] = s[i]
  BY <1>2, <1>4, Zenon DEF c
<1>6. c[k + 1] = s[k + 1]
  BY <1>2, <1>4, Zenon DEF c
<1>7. \A i \in 1..Len(c) : c[i] = b[i]
  BY <1>3, <1>5, <1>6
<1>8. c = b
  BY <1>3, <1>5, <1>7, SeqEqual, Zenon
<1>. QED  BY <1>8, Zenon DEF a, b, c


\* After the first k names.
Reached(names, q, w, k) == w[q[k]] = [names |-> SubSeq(names, 1, k), start |-> q[k] + 1]

\* The walk from the end of one name to the end of the next.
LEMMA WalkName ==
    ASSUME NEW names \in Seq(Entry), NEW P \in Seq(Byte), NEW q \in [0..Len(names) -> Nat],
           NEW w, Walks(P, w), NEW k \in Nat, NEW j \in 1..Len(names), j = k + 1,
           Placed(names, P, q, j), Reached(names, q, w, k)
    PROVE  Reached(names, q, w, j)
<1>. DEFINE n == Len(names)
<1>0. /\ \A i \in 1..(Len(P) + 1) : w[i] = WalkStep(P, i, w[i - 1])
      /\ w[q[k]] = [names |-> SubSeq(names, 1, k), start |-> q[k] + 1]
  BY Zenon DEF Walks, Reached
<1>. DEFINE name == names[j]
            L == Len(name)
            p == q[k]
            V == {d \in Nat : d <= L => w[p + d] = w[p]}
<1>1. names[j] \in Entry
  BY ElementOfSeq, Zenon
<1>2. name \in Seq(Byte) /\ L \in Nat \ {0} /\ (\A i \in 1..L : name[i] # 0) /\ Len(P) \in Nat
  BY <1>1, EntryFacts, LenProperties, Zenon
<1>3. n \in Nat /\ k \in 0..n /\ j - 1 = k
  BY LenProperties
<1>4. p \in Nat /\ q[j] \in Nat
  <2>1. j \in 0..n
    BY <1>3
  <2>. QED  BY <1>3, <2>1, Zenon
<1>5. /\ q[j] = p + L + 1 /\ q[j] <= Len(P) + 1
      /\ \A d \in 1..L : P[p + d] = name[d]
      /\ j = n => q[j] = Len(P) + 1
      /\ j < n => q[j] <= Len(P) /\ P[q[j]] = 0
  BY <1>3, Zenon DEF Placed
<1>. HIDE DEF name, L, p
<1>6. 0 \in V
  BY <1>4
<1>7. ASSUME NEW d \in Nat, d \in V PROVE d + 1 \in V
  <2>. SUFFICES ASSUME d + 1 <= L PROVE w[p + (d + 1)] = w[p]
    OBVIOUS
  <2>1. PICK i \in 1..(Len(P) + 1) : i = p + (d + 1) /\ i < Len(P) + 1 /\ i - 1 = p + d
    BY <1>2, <1>4, <1>5
  <2>2. d + 1 \in 1..L /\ d <= L
    BY <1>2
  <2>3. P[i] # 0
    BY <1>2, <1>5, <2>1, <2>2, Zenon
  <2>4. w[i] = w[p + d]
    BY <1>0, <2>1, <2>3, Zenon DEF WalkStep
  <2>5. w[p + d] = w[p]
    BY <1>7, <2>2, Zenon
  <2>. QED  BY <2>1, <2>4, <2>5, Zenon
<1>8. V = Nat
  <2>. HIDE DEF V
  <2>1. V \in SUBSET Nat
    BY Zenon DEF V
  <2>. QED  BY <1>6, <1>7, <2>1, Induction, Zenon
<1>9. w[p + L] = w[p]
  <2>1. L \in V /\ L <= L
    BY <1>2, <1>8, SMTT(20)
  <2>. QED  BY <2>1, Zenon
<1>10. PICK i \in 1..(Len(P) + 1) : i = q[j] /\ i - 1 = p + L /\ i > p + 1
  BY <1>2, <1>4, <1>5
<1>11. ~(i < Len(P) + 1 /\ P[i] # 0)
  <2>1. CASE j = n
    BY <1>5, <1>10, <2>1
  <2>2. CASE j # n
    BY <1>3, <1>5, <1>10, <2>2
  <2>. QED  BY <2>1, <2>2, Zenon
<1>. DEFINE x == w[p]
<1>12. x.names = SubSeq(names, 1, k) /\ x.start = p + 1
  BY <1>0 DEF p
<1>13. w[i] = [names |-> Append(x.names, SubSeq(P, x.start, i - 1)), start |-> i + 1]
  <2>1. w[i] = WalkStep(P, i, x)
    BY <1>0, <1>9, <1>10, Zenon
  <2>2. i > x.start
    BY <1>10, <1>12, Zenon
  <2>. HIDE DEF x
  <2>. QED  BY <1>11, <2>1, <2>2, Zenon DEF WalkStep
<1>14. SubSeq(P, x.start, i - 1) = name
  <2>1. p + L <= Len(P)
    BY <1>2, <1>4, <1>5
  <2>2. SubSeq(P, p + 1, p + L) = name
    BY <1>2, <1>4, <1>5, <2>1, Found, Zenon DEF L
  <2>. QED  BY <1>10, <1>12, <2>2, Zenon
<1>15. Append(SubSeq(names, 1, k), name) = SubSeq(names, 1, j)
  <2>1. k + 1 <= Len(names)
    BY <1>3
  <2>. QED  BY <2>1, OneMore, Zenon DEF name
<1>. QED  BY <1>10, <1>12, <1>13, <1>14, <1>15, Zenon DEF Reached

\* do_list takes apart what handle_list put together.
LEMMA ListRoundTrip ==
    ASSUME NEW names \in Seq(Entry)
    PROVE  Joined(names) \in Seq(Byte) /\ do_list(Joined(names)) = names
<1>. DEFINE n == Len(names)
            P == Joined(names)
<1>1. /\ n \in Nat /\ P \in Seq(Byte) /\ (n = 0 => P = <<>>)
      /\ \E q \in [0..n -> Nat] : q[0] = 0 /\ \A k \in 1..n : Placed(names, P, q, k)
  BY ListLayout, Zenon
<1>2. PICK q \in [0..n -> Nat] : q[0] = 0 /\ \A k \in 1..n : Placed(names, P, q, k)
  BY <1>1, Zenon
<1>3. PICK w : Walks(P, w) /\ do_list(P) = w[Len(P) + 1].names
  BY <1>1, WalkFacts, Zenon
<1>. HIDE DEF n, P
<1>. DEFINE U == {k \in Nat : k <= n => Reached(names, q, w, k)}
<1>4. 0 \in U
  <2>1. SubSeq(names, 1, 0) = <<>> /\ 0 + 1 = 1
    BY SubSeqEmpty
  <2>2. Reached(names, q, w, 0)
    BY <1>2, <1>3, <2>1, Zenon DEF Nothing, Walks, Reached
  <2>. QED  BY <2>2, Zenon
<1>5. ASSUME NEW k \in Nat, k \in U PROVE k + 1 \in U
  <2>. SUFFICES ASSUME k + 1 <= n PROVE Reached(names, q, w, k + 1)
    OBVIOUS
  <2>1. PICK j \in 1..n : j = k + 1
    BY <1>1
  <2>2. Reached(names, q, w, k)
    BY <1>1, <1>5
  <2>3. Reached(names, q, w, j)
    BY <1>1, <1>2, <1>3, <2>1, <2>2, WalkName, Zenon DEF n
  <2>. QED  BY <2>1, <2>3, Zenon
<1>6. U = Nat
  <2>. HIDE DEF U
  <2>1. U \in SUBSET Nat
    BY Zenon DEF U
  <2>. QED  BY <1>4, <1>5, <2>1, Induction, Zenon
<1>7. Reached(names, q, w, n)
  <2>1. n \in U
    BY <1>1, <1>6, Zenon
  <2>2. n <= n
    BY <1>1
  <2>. QED  BY <2>1, <2>2, Zenon
<1>8. do_list(P) = names
  <2>1. CASE n = 0
    <3>1. P = <<>> /\ names = <<>>
      BY <1>1, <2>1, EmptySeq, Zenon DEF n
    <3>2. Len(P) + 1 = 1 /\ 1 \in 1..(Len(P) + 1) /\ 1 - 1 = 0
      BY <3>1
    <3>3. w[1] = WalkStep(P, 1, w[0]) /\ w[0] = Nothing
      BY <1>3, <3>2, Zenon DEF Walks
    <3>4. w[1].names = <<>>
      BY <3>2, <3>3 DEF WalkStep, Nothing
    <3>. QED  BY <1>3, <3>1, <3>2, <3>4, Zenon
  <2>2. CASE n # 0
    <3>1. n \in 1..n
      BY <1>1, <2>2
    <3>2. q[n] = Len(P) + 1
      BY <1>2, <3>1, Zenon DEF Placed, n
    <3>3. SubSeq(names, 1, n) = names
      BY SubSeqFull, Zenon DEF n
    <3>4. w[Len(P) + 1].names = SubSeq(names, 1, n)
      BY <1>7, <3>2 DEF Reached
    <3>. QED  BY <1>3, <3>3, <3>4, Zenon
  <2>. QED  BY <2>1, <2>2, Zenon
<1>. QED  BY <1>1, <1>8, Zenon DEF P


-----------------------------------------------------------------------------
(* Every message.                                                          *)

LEMMA TypeBytes ==
    ASSUME NEW m \in Message
    PROVE  /\ m.type \in DOMAIN T /\ T[m.type] \in Byte /\ T[m.type] \in {T[t] : t \in DOMAIN T}
           /\ m # Malformed
<1>1. m.type \in {"HELLO", "LIST", "QUIT", "OK", "GET", "PUT", "ERROR"}
  BY Zenon DEF Message
<1>2. m.form \in {"empty", "get", "put", "resume", "names", "error"}
  BY Zenon DEF Message
<1>3. DOMAIN T = {"LIST", "GET", "PUT", "HELLO", "QUIT", "OK", "ERROR"}
  BY Zenon DEF T
<1>4. \A t \in DOMAIN T : T[t] \in Byte
  BY <1>3 DEF T, Byte
<1>5. m # Malformed
  BY <1>2 DEF Malformed
<1>. QED  BY <1>1, <1>3, <1>4, <1>5, Zenon

\* What either reader makes of a payload is the message it was packed from.
LEMMA RoundTrip ==
    ASSUME NEW m \in Message, kind \in {"c", "py"}
    PROVE  Payload(m) \in Seq(Byte) /\ Unpacked(T[m.type], m.form, Payload(m)) = m
<1>. DEFINE s == Payload(m)
<1>1. CASE m \in [type : {"HELLO", "LIST", "QUIT", "OK"}, form : {"empty"}]
  <2>1. m.form = "empty" /\ m = [type |-> m.type, form |-> "empty"]
    BY <1>1, Zenon
  <2>2. s = <<>> /\ s \in Seq(Byte)
    BY <2>1 DEF Payload
  <2>3. (CHOOSE t \in DOMAIN T : T[t] = T[m.type]) = m.type
    BY <1>1 DEF T
  <2>4. T[m.type] \notin {T.ERROR, T.GET, T.PUT}
    BY <1>1 DEF T
  <2>5. Unpacked(T[m.type], "empty", s) = [type |-> CHOOSE t \in DOMAIN T : T[t] = T[m.type], form |-> "empty"]
    BY <2>4, Zenon DEF Unpacked
  <2>. QED  BY <2>1, <2>2, <2>3, <2>5, Zenon
<1>2. CASE m \in [type : {"GET"}, form : {"get"}, offset : Fitting(LongSize),
                  token : Bytes(TokenSize), name : Text]
  <2>1. /\ m = [type |-> "GET", form |-> "get", offset |-> m.offset, token |-> m.token, name |-> m.name]
        /\ m.type = "GET" /\ m.form = "get" /\ m.offset \in Fitting(LongSize)
        /\ m.token \in Bytes(TokenSize) /\ m.name \in Text
    BY <1>2, Zenon
  <2>2. Len(m.token) = TokenSize
    BY <2>1, Zenon DEF Bytes
  <2>3. s = BigEndian(m.offset, LongSize) \o m.token \o Counted(m.name)
    BY <2>1, Zenon DEF Payload
  <2>. HIDE DEF s
  <2>4. /\ s \in Seq(Byte) /\ WellNamed(s, LongSize + TokenSize)
        /\ Number(SubSeq(s, 1, 1 + LongSize - 1)) = m.offset
        /\ SubSeq(s, LongSize + 1, LongSize + TokenSize) = m.token
        /\ From(s, LongSize + TokenSize + 3) = m.name
    <3>1. s \in Seq(Byte) /\ Fields(s, m.offset, m.token, m.name)
      <4>1. m.offset \in Fitting(LongSize) /\ m.token \in Seq(Byte) /\ m.name \in Text
        BY <2>1, Zenon DEF Bytes
      <4>. QED  BY <4>1, <2>3, NamedRoundTrip, Zenon
    <3>. QED  BY <2>2, <3>1, Zenon DEF Fields
  <2>5. T[m.type] = T.GET /\ T.GET # T.ERROR /\ T.GET # T.PUT /\ T.GET # T.OK
    BY <2>1 DEF T
  <2>. QED  BY <2>1, <2>4, <2>5, Zenon DEF Unpacked, s
<1>3. CASE m \in [type : {"PUT"}, form : {"put"}, size : Fitting(LongSize),
                  digest : Bytes(HashSize), name : Text]
  <2>1. /\ m = [type |-> "PUT", form |-> "put", size |-> m.size, digest |-> m.digest, name |-> m.name]
        /\ m.type = "PUT" /\ m.form = "put" /\ m.size \in Fitting(LongSize)
        /\ m.digest \in Bytes(HashSize) /\ m.name \in Text
    BY <1>3, Zenon
  <2>2. Len(m.digest) = HashSize
    BY <2>1, Zenon DEF Bytes
  <2>3. s = BigEndian(m.size, LongSize) \o m.digest \o Counted(m.name)
    BY <2>1, Zenon DEF Payload
  <2>. HIDE DEF s
  <2>4. /\ s \in Seq(Byte) /\ WellNamed(s, LongSize + HashSize)
        /\ Number(SubSeq(s, 1, 1 + LongSize - 1)) = m.size
        /\ SubSeq(s, LongSize + 1, LongSize + HashSize) = m.digest
        /\ From(s, LongSize + HashSize + 3) = m.name
    <3>1. s \in Seq(Byte) /\ Fields(s, m.size, m.digest, m.name)
      <4>1. m.size \in Fitting(LongSize) /\ m.digest \in Seq(Byte) /\ m.name \in Text
        BY <2>1, Zenon DEF Bytes
      <4>. QED  BY <4>1, <2>3, NamedRoundTrip, Zenon
    <3>. QED  BY <2>2, <3>1, Zenon DEF Fields
  <2>5. T[m.type] = T.PUT /\ T.PUT # T.ERROR /\ T.PUT # T.GET /\ T.PUT # T.OK
    BY <2>1 DEF T
  <2>. QED  BY <2>1, <2>4, <2>5, Zenon DEF Unpacked, s
<1>4. CASE m \in [type : {"OK"}, form : {"resume"}, offset : Fitting(LongSize)]
  <2>1. /\ m = [type |-> "OK", form |-> "resume", offset |-> m.offset]
        /\ m.type = "OK" /\ m.form = "resume" /\ m.offset \in Fitting(LongSize)
    BY <1>4, Zenon
  <2>2. s = BigEndian(m.offset, LongSize)
    BY <2>1, Zenon DEF Payload
  <2>. HIDE DEF s
  <2>3. LongSize \in Nat /\ s \in Seq(Byte) /\ Len(s) = LongSize /\ Number(s) = m.offset
    BY <2>1, <2>2, LongFacts, FramesAssumption, Zenon
  <2>4. ~(Len(s) < LongSize)
    BY <2>3
  <2>5. Leading(s, LongSize) = s
    BY <2>3, <2>4, SubSeqFull, Zenon DEF Leading
  <2>6. T[m.type] = T.OK /\ T.OK # T.ERROR /\ T.OK # T.GET /\ T.OK # T.PUT
    BY <2>1 DEF T
  <2>. QED  BY <2>1, <2>3, <2>4, <2>5, <2>6, Zenon DEF Unpacked, s
<1>5. CASE m \in [type : {"OK"}, form : {"names"}, names : Seq(Entry)]
  <2>1. /\ m = [type |-> "OK", form |-> "names", names |-> m.names]
        /\ m.type = "OK" /\ m.form = "names" /\ m.names \in Seq(Entry)
    BY <1>5, Zenon
  <2>2. s = Joined(m.names)
    BY <2>1, Zenon DEF Payload
  <2>. HIDE DEF s
  <2>3. s \in Seq(Byte) /\ do_list(s) = m.names
    BY <2>1, <2>2, ListRoundTrip, Zenon
  <2>4. T[m.type] = T.OK /\ T.OK # T.ERROR /\ T.OK # T.GET /\ T.OK # T.PUT
    BY <2>1 DEF T
  <2>. QED  BY <2>1, <2>3, <2>4, Zenon DEF Unpacked, s
<1>6. CASE m \in [type : {"ERROR"}, form : {"error"}, reason : Byte, text : Text]
  <2>1. /\ m = [type |-> "ERROR", form |-> "error", reason |-> m.reason, text |-> m.text]
        /\ m.type = "ERROR" /\ m.form = "error" /\ m.reason \in Byte /\ m.text \in Text
    BY <1>6, Zenon
  <2>2. s = <<m.reason>> \o Counted(m.text)
    BY <2>1, Zenon DEF Payload
  <2>. HIDE DEF s
  <2>3. s \in Seq(Byte) /\ rtrv_report_error(s) = m /\ unpack_error(s) = m
    BY <2>1, <2>2, ErrorRoundTrip, Zenon
  <2>4. T[m.type] = T.ERROR /\ T.ERROR # T.OK /\ T.ERROR # T.GET /\ T.ERROR # T.PUT
    BY <2>1 DEF T
  <2>. QED  BY <2>1, <2>3, <2>4, Zenon DEF Unpacked, s
<1>. QED  BY <1>1, <1>2, <1>3, <1>4, <1>5, <1>6, Zenon DEF Message


-----------------------------------------------------------------------------
(* Frames in a stream.                                                     *)

HeaderOf(m) == Magic \o <<version, T[m.type]>> \o BigEndian(Len(Payload(m)), LongSize)

\* What rtrv_read_frame_header reads from a header.
HeaderSays(h, m) ==
    /\ h \in Seq(Byte) /\ Len(h) = HeaderSize
    /\ SubSeq(h, 1, 4) = Magic /\ h[5] = version /\ h[6] = T[m.type]
    /\ Number(From(h, 7)) = Len(Payload(m))

LEMMA HeadFacts ==
    ASSUME NEW m \in Message, Len(Payload(m)) \in Fitting(LongSize), version \in {2, 3}
    PROVE  HeaderSays(HeaderOf(m), m) /\ rtrv_write_frame(m) = Cat(HeaderOf(m), Payload(m))
<1>. DEFINE x == Magic
            y == <<version, T[m.type]>>
            z == BigEndian(Len(Payload(m)), LongSize)
            none == <<>>
            h == HeaderOf(m)
<1>1. x \in Seq(Byte) /\ Len(x) = 4
  BY DEF Magic, Byte
<1>2. y \in Seq(Byte) /\ Len(y) = 2 /\ y[1] = version /\ y[2] = T[m.type]
  <2>1. version \in Byte
    BY DEF Byte
  <2>. QED  BY <2>1, TypeBytes
<1>3. z \in Seq(Byte) /\ Len(z) = LongSize /\ Number(z) = Len(Payload(m)) /\ LongSize \in Nat
  BY LongFacts, FramesAssumption, Zenon
<1>4. none \in Seq(Byte) /\ Len(none) = 0
  OBVIOUS
<1>5. h = (x \o y) \o z
  BY Zenon DEF HeaderOf
<1>6. z = z \o none
  BY <1>3, ConcatEmptySeq, Zenon
<1>7. rtrv_write_frame(m) = Cat(h, Payload(m))
  BY Zenon DEF rtrv_write_frame, Cat, HeaderOf
<1>. HIDE DEF x, y, z, none, h
<1>8. h \in Seq(Byte) /\ Laid(h, x, y, z, none)
  <2>1. h = (x \o y) \o (z \o none)
    BY <1>5, <1>6, Zenon
  <2>. QED  BY <1>1, <1>2, <1>3, <1>4, <2>1, Layout, Zenon
<1>9. Len(h) = HeaderSize
  <2>1. Len(h) = Len(x) + Len(y) + Len(z) + Len(none)
    BY <1>8, Zenon DEF Laid
  <2>. QED  BY <1>1, <1>2, <1>3, <1>4, <2>1, SMTT(20) DEF HeaderSize
<1>10. SubSeq(h, 1, 4) = x
  BY <1>1, <1>8, Zenon DEF Laid
<1>11. SubSeq(h, 5, 6) = y
  <2>1. SubSeq(h, Len(x) + 1, Len(x) + Len(y)) = y
    BY <1>8, Zenon DEF Laid
  <2>2. Len(x) + 1 = 5 /\ Len(x) + Len(y) = 6
    BY <1>1, <1>2
  <2>. QED  BY <2>1, <2>2, Zenon
<1>12. h[5] = y[1] /\ h[6] = y[2]
  <2>1. Len(h) \in Nat /\ 6 <= Len(h)
    BY <1>3, <1>9 DEF HeaderSize
  <2>2. \A i \in 5..6 : h[i] \in Byte
    BY <1>8, <2>1, ElementOfSeq
  <2>3. \A i \in 1..(6 - 5 + 1) : SubSeq(h, 5, 6)[i] = h[5 + i - 1]
    BY <2>2, SubSeqProperties
  <2>. QED  BY <1>11, <2>3
<1>13. From(h, 7) = z
  <2>1. SubSeq(h, Len(x) + Len(y) + 1, Len(x) + Len(y) + Len(z)) = z
    BY <1>8, Zenon DEF Laid
  <2>2. Len(x) + Len(y) + 1 = 7 /\ Len(x) + Len(y) + Len(z) = Len(h)
    BY <1>1, <1>2, <1>3, <1>9 DEF HeaderSize
  <2>. QED  BY <2>1, <2>2, Zenon DEF From
<1>14. HeaderSays(h, m)
  BY <1>2, <1>3, <1>8, <1>9, <1>10, <1>12, <1>13, Zenon DEF HeaderSays, x
<1>. QED  BY <1>7, <1>14, Zenon DEF h

\* A header of the reader's version is refused only for the cap.
LEMMA HeadAccepted ==
    ASSUME NEW m \in Message, NEW h, HeaderSays(h, m), version = Version, Fits(m)
    PROVE  Acceptable(h)
<1>1. h[6] \in {T.HELLO, T.QUIT, T.LIST} => Len(Payload(m)) = 0
  <2>. SUFFICES ASSUME h[6] \in {T.HELLO, T.QUIT, T.LIST} PROVE Len(Payload(m)) = 0
    BY Zenon
  <2>1. T[m.type] \in {T.HELLO, T.QUIT, T.LIST}
    BY Zenon DEF HeaderSays
  <2>2. m.type \in {"HELLO", "LIST", "QUIT", "OK", "GET", "PUT", "ERROR"}
    BY Zenon DEF Message
  <2>3. m.type \in {"HELLO", "LIST", "QUIT"}
    BY <2>1, <2>2 DEF T
  <2>4. m.form = "empty"
    BY <2>3, Zenon DEF Message
  <2>. QED  BY <2>4, Zenon DEF Payload
<1>2. Number(From(h, 7)) = Len(Payload(m)) /\ Len(Payload(m)) <= Cap
  BY Zenon DEF HeaderSays, Fits
<1>3. /\ SubSeq(h, 1, 4) = Magic /\ h[5] = Version
      /\ h[6] \in {T[t] : t \in DOMAIN T}
  <2>1. T[m.type] \in {T[t] : t \in DOMAIN T}
    BY TypeBytes, Zenon
  <2>. QED  BY <2>1, Zenon DEF HeaderSays
<1>. QED  BY <1>1, <1>2, <1>3, Zenon DEF Acceptable

\* The reader can take a message: the versions agree and it is under the cap.
Sound(m) == version = Version /\ Fits(m)

\* Only the header of such a message is accepted.
LEMMA AcceptedHead ==
    ASSUME NEW m \in Message, NEW h, HeaderSays(h, m), Acceptable(h)
    PROVE  Sound(m)
<1>1. version = Version
  BY Zenon DEF HeaderSays, Acceptable
<1>2. Len(Payload(m)) = 0 \/ Len(Payload(m)) <= Cap
  BY Zenon DEF HeaderSays, Acceptable
<1>3. Len(Payload(m)) <= Cap
  BY <1>2, FramesAssumption
<1>. QED  BY <1>1, <1>3, Zenon DEF Sound, Fits


LEMMA CatFacts ==
    ASSUME NEW S, NEW s \in Seq(S), NEW t \in Seq(S)
    PROVE  /\ Cat(s, t) \in Seq(S) /\ Len(s) \in Nat /\ Len(t) \in Nat
           /\ Len(Cat(s, t)) = Len(s) + Len(t)
  BY Joins, Zenon DEF Cat

LEMMA CatNothing ==
    ASSUME NEW S, NEW s \in Seq(S)
    PROVE  Cat(s, <<>>) = s /\ Cat(<<>>, s) = s
<1>1. s \o <<>> = s /\ <<>> \o s = s
  BY ConcatEmptySeq, Zenon
<1>. QED  BY <1>1, Zenon DEF Cat

Glued(w, s, t) ==
    /\ Len(s) \in Nat /\ Len(t) \in Nat /\ Len(w) = Len(s) + Len(t)
    /\ \A i \in 1..Len(s) : w[i] = s[i]
    /\ \A i \in 1..Len(t) : w[Len(s) + i] = t[i]

LEMMA CatGlued ==
    ASSUME NEW S, NEW s \in Seq(S), NEW t \in Seq(S)
    PROVE  Glued(Cat(s, t), s, t)
  BY Joins DEF Glued, Cat

\* Two ways to split the same bytes at the same place.
LEMMA SameSplit ==
    ASSUME NEW S, NEW a \in Seq(S), NEW b \in Seq(S), NEW u \in Seq(S), NEW v \in Seq(S),
           Cat(a, b) = Cat(u, v), Len(a) = Len(u)
    PROVE  a = u /\ b = v
<1>. DEFINE w == Cat(a, b)
<1>0. Glued(w, a, b) /\ Glued(w, u, v)
  BY CatGlued, Zenon
<1>. HIDE DEF w
<1>1. /\ Len(a) \in Nat /\ Len(b) \in Nat /\ Len(w) = Len(a) + Len(b)
      /\ \A i \in 1..Len(a) : w[i] = a[i]
      /\ \A i \in 1..Len(b) : w[Len(a) + i] = b[i]
  BY <1>0, Zenon DEF Glued
<1>2. /\ Len(u) \in Nat /\ Len(v) \in Nat /\ Len(w) = Len(u) + Len(v)
      /\ \A i \in 1..Len(u) : w[i] = u[i]
      /\ \A i \in 1..Len(v) : w[Len(u) + i] = v[i]
  BY <1>0, Zenon DEF Glued
<1>3. Len(b) = Len(v)
  BY <1>1, <1>2
<1>4. \A i \in 1..Len(a) : a[i] = u[i]
  BY <1>1, <1>2, Zenon
<1>5. \A i \in 1..Len(b) : b[i] = v[i]
  BY <1>1, <1>2, <1>3, Zenon
<1>6. a = u
  BY <1>4, SeqEqual, Zenon
<1>7. b = v
  BY <1>3, <1>5, SeqEqual, Zenon
<1>. QED  BY <1>6, <1>7, Zenon

\* The first bytes and the others.
LEMMA Taken ==
    ASSUME NEW S, NEW w \in Seq(S), NEW n \in Nat, n <= Len(w)
    PROVE  /\ SubSeq(w, 1, n) \in Seq(S) /\ From(w, n + 1) \in Seq(S)
           /\ Len(SubSeq(w, 1, n)) = n /\ Cat(SubSeq(w, 1, n), From(w, n + 1)) = w
<1>. DEFINE a == SubSeq(w, 1, n)
            b == From(w, n + 1)
<1>1. Len(w) \in Nat /\ n + 1 \in Int /\ \A i \in 1..Len(w) : w[i] \in S
  BY LenProperties, ElementOfSeq
<1>2. \A i \in 1..n : w[i] \in S
  BY <1>1
<1>3. \A i \in (n + 1)..Len(w) : w[i] \in S
  BY <1>1
<1>4. a \in Seq(S) /\ Len(a) = n /\ \A i \in 1..n : a[i] = w[i]
  <2>1. /\ a \in Seq(S) /\ Len(a) = (IF 1 <= n THEN n - 1 + 1 ELSE 0)
        /\ \A i \in 1..(n - 1 + 1) : a[i] = w[1 + i - 1]
    BY <1>2, SubSeqProperties
  <2>. HIDE DEF a
  <2>. QED  BY <2>1
<1>5. /\ b \in Seq(S) /\ Len(b) = Len(w) - n
      /\ \A i \in 1..Len(b) : b[i] = w[n + i]
  <2>1. /\ b \in Seq(S)
        /\ Len(b) = (IF n + 1 <= Len(w) THEN Len(w) - (n + 1) + 1 ELSE 0)
        /\ \A i \in 1..(Len(w) - (n + 1) + 1) : b[i] = w[n + 1 + i - 1]
    BY <1>1, <1>3, SubSeqProperties, SMTT(20) DEF From
  <2>. HIDE DEF b
  <2>2. Len(b) = Len(w) - n
    BY <1>1, <2>1
  <2>. QED  BY <1>1, <2>1, <2>2
<1>. HIDE DEF a, b
<1>6. /\ a \o b \in Seq(S) /\ Len(a \o b) = Len(a) + Len(b)
      /\ \A i \in 1..Len(a) : (a \o b)[i] = a[i]
      /\ \A i \in 1..Len(b) : (a \o b)[Len(a) + i] = b[i]
  BY <1>4, <1>5, Joins, SMTT(20)
<1>. DEFINE c == a \o b
<1>. HIDE DEF c
<1>7. Len(c) = Len(w)
  BY <1>1, <1>4, <1>5, <1>6, SMTT(20) DEF c
<1>8. ASSUME NEW i \in 1..Len(c) PROVE c[i] = w[i]
  <2>1. CASE i <= n
    <3>1. i \in 1..n
      BY <1>1, <1>7, <2>1
    <3>. QED  BY <1>4, <1>6, <3>1, Zenon DEF c
  <2>2. CASE ~(i <= n)
    <3>1. PICK d \in 1..Len(b) : i = n + d
      <4>1. i - n \in 1..Len(b) /\ i = n + (i - n)
        BY <1>1, <1>5, <1>7, <2>2
      <4>. QED  BY <4>1, Zenon
    <3>. QED  BY <1>4, <1>5, <1>6, <3>1, Zenon DEF c
  <2>. QED  BY <2>1, <2>2, Zenon
<1>9. c = w
  <2>1. c \in Seq(S)
    BY <1>6, Zenon DEF c
  <2>. QED  BY <1>7, <1>8, <2>1, SeqEqual, Zenon
<1>. QED  BY <1>4, <1>5, <1>9, Zenon DEF a, b, c, Cat

\* Later bytes follow earlier ones.
Extends(f, k, m, r) == f[m] = Cat(f[k], r)

LEMMA Later ==
    ASSUME NEW S, NEW n \in Nat, NEW f \in [0..n -> Seq(S)], NEW g \in [1..n -> Seq(S)],
           Chained(n, f, g), NEW k \in 0..n, NEW m \in k..n
    PROVE  \E r \in Seq(S) : Extends(f, k, m, r)
<1>1. k \in 0..n /\ m \in 0..n /\ f[k] \in Seq(S) /\ f[m] \in Seq(S)
  OBVIOUS
<1>2. Len(f[k]) \in Nat /\ Len(f[k]) <= Len(f[m]) /\ \A i \in 1..Len(f[k]) : f[m][i] = f[k][i]
  <2>1. Begins(f, k, m) /\ Len(f[k]) \in Nat
    BY <1>1, Stays, LenProperties, Zenon
  <2>. QED  BY <2>1, Zenon DEF Begins
<1>3. SubSeq(f[m], 1, Len(f[k])) = f[k]
  <2>1. /\ 0 + Len(f[k]) <= Len(f[m]) /\ \A i \in 1..Len(f[k]) : f[m][0 + i] = f[k][i]
        /\ 0 + 1 = 1 /\ 0 + Len(f[k]) = Len(f[k]) /\ 0 \in Nat
    BY <1>2
  <2>2. SubSeq(f[m], 0 + 1, 0 + Len(f[k])) = f[k]
    BY <1>1, <2>1, Found, Zenon
  <2>. QED  BY <2>1, <2>2, Zenon
<1>4. /\ From(f[m], Len(f[k]) + 1) \in Seq(S)
      /\ Cat(SubSeq(f[m], 1, Len(f[k])), From(f[m], Len(f[k]) + 1)) = f[m]
  BY <1>1, <1>2, Taken, Zenon
<1>. QED  BY <1>3, <1>4, Zenon DEF Extends


-----------------------------------------------------------------------------
(* The framing invariant.                                                  *)

\* What Init chooses, and nothing changes.
Planned ==
    /\ plan \in Seq(Message) /\ kind \in {"c", "py"} /\ version \in {2, 3}
    /\ \A k \in 1..Len(plan) : Len(Payload(plan[k])) \in Fitting(LongSize)

\* f[k] is the first k frames, as bytes.
Stream(f) ==
    /\ f \in [0..Len(plan) -> Seq(Byte)] /\ f[0] = <<>>
    /\ \A k \in 1..Len(plan) : f[k] = Cat(f[k - 1], Cat(HeaderOf(plan[k]), Payload(plan[k])))

\* What the reader is done with: whole frames, and perhaps a header.
Consumed(f) ==
    IF header = NoHeader THEN f[Len(got)]
    ELSE Cat(f[Len(got)], HeaderOf(plan[Len(got) + 1]))

\* Nothing is missing, added or out of place between what the reader is done with
\* and what the sender has begun: lost is what a broken connection swallowed.
InPlace(f, lost) ==
    /\ Cat(Consumed(f), Cat(buf, Cat(wire, lost))) = f[sent]
    /\ ~cut => lost = out

Halfway ==
    /\ Len(got) < sent
    /\ header = [type |-> T[plan[Len(got) + 1].type], len |-> Len(Payload(plan[Len(got) + 1]))]
    /\ header.len > 0

FramesInv ==
    /\ Planned
    /\ sent \in 0..Len(plan) /\ Len(got) \in 0..sent /\ got = SubSeq(plan, 1, Len(got))
    /\ buf \in Seq(Byte) /\ wire \in Seq(Byte) /\ out \in Seq(Byte)
    /\ Len(buf) <= Wanted /\ cut \in BOOLEAN /\ failed \in BOOLEAN
    /\ header = NoHeader \/ Halfway
    /\ OnlyJustRefusals
    /\ ~failed => \E f, lost : Stream(f) /\ lost \in Seq(Byte) /\ InPlace(f, lost)

\* The messages of a plan are among those the programs pack.
LEMMA InitPlanned == Init => Planned
<1>. SUFFICES ASSUME Init PROVE Planned
  BY Zenon
<1>1. PICK n \in 0..MaxMessages :
         \/ plan \in [1..n -> Requests] /\ kind = "py"
         \/ plan \in [1..n -> Replies] /\ kind \in {"c", "py"}
  BY Zenon DEF Init
<1>. DEFINE All == Requests \cup Replies
<1>2. n \in Nat /\ plan \in [1..n -> All] /\ kind \in {"c", "py"}
  BY <1>1, FramesAssumption
<1>3. \A k \in 1..n : plan[k] \in All
  BY <1>2, Zenon
<1>4. \A m \in All : m \in Message /\ Len(Payload(m)) \in Fitting(LongSize)
  BY MessagesAssumption, Zenon
<1>5. plan \in [1..n -> Message]
  BY <1>2, <1>3, <1>4, Zenon
<1>6. plan \in Seq(Message) /\ Len(plan) = n
  BY <1>2, <1>5
<1>7. version \in {2, 3}
  BY DEF Init, Version
<1>. QED  BY <1>2, <1>3, <1>4, <1>6, <1>7, Zenon DEF Planned

\* The frame of a message of the plan.
LEMMA FrameOf ==
    ASSUME Planned, NEW k \in 1..Len(plan)
    PROVE  /\ plan[k] \in Message /\ HeaderSays(HeaderOf(plan[k]), plan[k])
           /\ HeaderOf(plan[k]) \in Seq(Byte) /\ Len(HeaderOf(plan[k])) = HeaderSize
           /\ Payload(plan[k]) \in Seq(Byte) /\ Len(Payload(plan[k])) \in Nat
           /\ Unpacked(T[plan[k].type], plan[k].form, Payload(plan[k])) = plan[k]
           /\ plan[k] # Malformed
           /\ rtrv_write_frame(plan[k]) = Cat(HeaderOf(plan[k]), Payload(plan[k]))
           /\ Cat(HeaderOf(plan[k]), Payload(plan[k])) \in Seq(Byte)
<1>. DEFINE m == plan[k]
<1>1. m \in Message
  BY ElementOfSeq, Zenon DEF Planned
<1>2. Len(Payload(m)) \in Fitting(LongSize) /\ version \in {2, 3} /\ kind \in {"c", "py"}
  BY Zenon DEF Planned
<1>. HIDE DEF m
<1>3. HeaderSays(HeaderOf(m), m) /\ rtrv_write_frame(m) = Cat(HeaderOf(m), Payload(m))
  BY <1>1, <1>2, HeadFacts, Zenon
<1>4. HeaderOf(m) \in Seq(Byte) /\ Len(HeaderOf(m)) = HeaderSize
  BY <1>3, Zenon DEF HeaderSays
<1>5. Payload(m) \in Seq(Byte) /\ Unpacked(T[m.type], m.form, Payload(m)) = m
  BY <1>1, <1>2, RoundTrip, Zenon
<1>6. m # Malformed
  BY <1>1, TypeBytes, Zenon
<1>7. Cat(HeaderOf(m), Payload(m)) \in Seq(Byte) /\ Len(Payload(m)) \in Nat
  BY <1>4, <1>5, CatFacts, Zenon
<1>. QED  BY <1>1, <1>3, <1>4, <1>5, <1>6, <1>7, Zenon DEF m

\* Every plan has its bytes.
LEMMA StreamExists ==
    ASSUME Planned
    PROVE  \E f : Stream(f)
<1>. DEFINE n == Len(plan)
            g == [k \in 1..n |-> Cat(HeaderOf(plan[k]), Payload(plan[k]))]
            G == [k \in 1..n |-> [x \in Seq(Byte) |-> Cat(x, g[k])]]
<1>1. n \in Nat
  BY LenProperties, Zenon DEF Planned
<1>2. \A k \in 1..n : g[k] = Cat(HeaderOf(plan[k]), Payload(plan[k])) /\ g[k] \in Seq(Byte)
  BY FrameOf, Zenon
<1>. HIDE DEF g
<1>3. \A k \in 1..n, x \in Seq(Byte) : Cat(x, g[k]) \in Seq(Byte)
  BY <1>2, CatFacts, Zenon
<1>4. G \in [1..n -> [Seq(Byte) -> Seq(Byte)]]
  BY <1>3, Zenon
<1>5. \A k \in 1..n, x \in Seq(Byte) : G[k][x] = Cat(x, g[k])
  BY Zenon
<1>6. <<>> \in Seq(Byte)
  OBVIOUS
<1>. HIDE DEF G
<1>7. PICK f \in [0..n -> Seq(Byte)] : Recursive(<<>>, n, G, f)
  BY <1>1, <1>4, <1>6, Recursion, Zenon
<1>8. f[0] = <<>>
  <2>1. 0 \in 0..n
    BY <1>1
  <2>. QED  BY <1>7, <2>1, Zenon DEF Recursive
<1>9. ASSUME NEW k \in 1..n PROVE f[k] = Cat(f[k - 1], Cat(HeaderOf(plan[k]), Payload(plan[k])))
  <2>1. k \in 0..n /\ k # 0 /\ k - 1 \in 0..n
    BY <1>1
  <2>2. f[k] = G[k][f[k - 1]] /\ f[k - 1] \in Seq(Byte)
    BY <1>7, <2>1, Zenon DEF Recursive
  <2>. QED  BY <1>2, <1>5, <2>2, Zenon
<1>. QED  BY <1>7, <1>8, <1>9, Zenon DEF Stream


\* What comes after the first j frames, if more have been begun.
Follows(f, s, j, q) == f[s] = Cat(f[j], Cat(HeaderOf(plan[j + 1]), Cat(Payload(plan[j + 1]), q)))

LEMMA NextFrame ==
    ASSUME Planned, NEW f, Stream(f), NEW s \in 0..Len(plan), NEW j \in 0..Len(plan), j < s
    PROVE  \E q \in Seq(Byte) : Follows(f, s, j, q)
<1>. DEFINE n == Len(plan)
            g == [k \in 1..n |-> Cat(HeaderOf(plan[k]), Payload(plan[k]))]
            h == HeaderOf(plan[j + 1])
            p == Payload(plan[j + 1])
<1>1. n \in Nat
  BY LenProperties, Zenon DEF Planned
<1>2. j + 1 \in 1..n /\ j + 1 \in 0..n /\ (j + 1) - 1 = j /\ s \in (j + 1)..n
  BY <1>1
<1>3. g \in [1..n -> Seq(Byte)] /\ \A k \in 1..n : g[k] = Cat(HeaderOf(plan[k]), Payload(plan[k]))
  <2>1. \A k \in 1..n : Cat(HeaderOf(plan[k]), Payload(plan[k])) \in Seq(Byte)
    BY FrameOf, Zenon
  <2>. QED  BY <2>1, Zenon
<1>4. f \in [0..n -> Seq(Byte)] /\ \A k \in 1..n : f[k] = Cat(f[k - 1], g[k])
  BY <1>3, Zenon DEF Stream
<1>5. h \in Seq(Byte) /\ p \in Seq(Byte)
  BY <1>2, FrameOf, Zenon
<1>6. g[j + 1] = Cat(h, p) /\ f[j] \in Seq(Byte) /\ f[j + 1] = Cat(f[j], g[j + 1])
  BY <1>2, <1>3, <1>4, Zenon
<1>. HIDE DEF n, g, h, p
<1>7. Chained(n, f, g)
  BY <1>4, Zenon DEF Chained, Cat
<1>8. PICK q \in Seq(Byte) : f[s] = Cat(f[j + 1], q)
  <2>1. f \in [0..n -> Seq(Byte)] /\ g \in [1..n -> Seq(Byte)]
    BY <1>3, <1>4, Zenon
  <2>2. j + 1 \in 0..n /\ s \in (j + 1)..n
    BY <1>2, Zenon
  <2>3. \E q \in Seq(Byte) : Extends(f, j + 1, s, q)
    BY <1>1, <1>7, <2>1, <2>2, Later, Zenon
  <2>. QED  BY <2>3, Zenon DEF Extends
<1>9. Cat(p, q) \in Seq(Byte) /\ Cat(h, p) \in Seq(Byte)
  BY <1>5, CatFacts, Zenon
<1>10. Cat(Cat(f[j], Cat(h, p)), q) = Cat(f[j], Cat(Cat(h, p), q))
  BY <1>6, <1>9, Regrouped, SMTT(20)
<1>11. Cat(Cat(h, p), q) = Cat(h, Cat(p, q))
  BY <1>5, Regrouped
<1>. QED  BY <1>6, <1>8, <1>10, <1>11, Zenon DEF h, p, Follows

\* As many bytes as a header has, after whole frames, are the next header.
LEMMA HeaderNext ==
    ASSUME Planned, NEW f, Stream(f), NEW s \in 0..Len(plan), NEW j \in 0..s,
           NEW b \in Seq(Byte), NEW r \in Seq(Byte),
           Len(b) = HeaderSize, f[s] = Cat(f[j], Cat(b, r))
    PROVE  /\ j < s /\ b = HeaderOf(plan[j + 1])
           /\ f[s] = Cat(Cat(f[j], HeaderOf(plan[j + 1])), r)
<1>1. Len(plan) \in Nat /\ j \in 0..Len(plan) /\ j \in Nat /\ s \in Nat
  BY LenProperties DEF Planned
<1>2. f[j] \in Seq(Byte) /\ f[s] \in Seq(Byte)
  BY <1>1, Zenon DEF Stream
<1>3. Cat(b, r) \in Seq(Byte) /\ Len(b) \in Nat /\ Len(r) \in Nat /\ Len(Cat(b, r)) = Len(b) + Len(r)
  BY CatFacts, Zenon
<1>4. j < s
  <2>1. Len(f[s]) = Len(f[j]) + Len(Cat(b, r)) /\ Len(f[j]) \in Nat
    <3>1. Cat(b, r) \in Seq(Byte)
      BY <1>3, Zenon
    <3>2. Len(Cat(f[j], Cat(b, r))) = Len(f[j]) + Len(Cat(b, r)) /\ Len(f[j]) \in Nat
      BY <1>2, <3>1, CatFacts, Zenon
    <3>. QED  BY <3>2, Zenon
  <2>2. PICK A \in Nat, B \in Nat, C \in Nat : A = Len(f[j]) /\ B = Len(b) /\ C = Len(r)
    BY <1>3, <2>1, Zenon
  <2>3. Len(f[s]) # Len(f[j])
    <3>1. Len(f[s]) = A + (B + C) /\ B = HeaderSize
      BY <1>3, <2>1, <2>2, Zenon
    <3>2. B > 0
      BY <3>1, FramesAssumption, SMTT(20) DEF HeaderSize
    <3>3. A + (B + C) # A
      BY <3>2
    <3>. QED  BY <2>2, <3>1, <3>3, Zenon
  <2>4. j # s
    BY <2>3, Zenon
  <2>. QED  BY <1>1, <2>4
<1>. DEFINE h == HeaderOf(plan[j + 1])
            p == Payload(plan[j + 1])
<1>5. PICK q \in Seq(Byte) : f[s] = Cat(f[j], Cat(h, Cat(p, q)))
  <2>1. \E q \in Seq(Byte) : Follows(f, s, j, q)
    BY <1>1, <1>4, NextFrame, Zenon
  <2>. QED  BY <2>1, Zenon DEF Follows
<1>6. h \in Seq(Byte) /\ Len(h) = HeaderSize /\ p \in Seq(Byte)
  <2>1. j + 1 \in 1..Len(plan)
    BY <1>1, <1>4
  <2>. QED  BY <2>1, FrameOf, Zenon
<1>. HIDE DEF h, p
<1>7. Cat(p, q) \in Seq(Byte) /\ Cat(h, Cat(p, q)) \in Seq(Byte)
  BY <1>6, CatFacts, Zenon
<1>8. Cat(b, r) = Cat(h, Cat(p, q))
  <2>1. Cat(f[j], Cat(b, r)) = Cat(f[j], Cat(h, Cat(p, q))) /\ Cat(b, r) \in Seq(Byte)
    BY <1>3, <1>5, Zenon
  <2>. QED  BY <1>2, <1>7, <2>1, SameSplit, Zenon
<1>9. b = h
  BY <1>6, <1>7, <1>8, SameSplit, Zenon
<1>10. Cat(f[j], Cat(b, r)) = Cat(Cat(f[j], b), r)
  BY <1>2, Regrouped
<1>. QED  BY <1>4, <1>9, <1>10, Zenon DEF h

\* As many bytes as the header said, after the header, are the payload.
LEMMA PayloadNext ==
    ASSUME Planned, NEW f, Stream(f), NEW s \in 0..Len(plan), NEW j \in 0..s, j < s,
           NEW b \in Seq(Byte), NEW r \in Seq(Byte), Len(b) = Len(Payload(plan[j + 1])),
           f[s] = Cat(Cat(f[j], HeaderOf(plan[j + 1])), Cat(b, r))
    PROVE  b = Payload(plan[j + 1]) /\ f[s] = Cat(f[j + 1], r)
<1>1. Len(plan) \in Nat /\ j \in 0..Len(plan) /\ j + 1 \in 1..Len(plan) /\ (j + 1) - 1 = j
  BY LenProperties DEF Planned
<1>2. f[j] \in Seq(Byte)
  BY <1>1, Zenon DEF Stream
<1>. DEFINE h == HeaderOf(plan[j + 1])
            p == Payload(plan[j + 1])
<1>3. PICK q \in Seq(Byte) : f[s] = Cat(f[j], Cat(h, Cat(p, q)))
  <2>1. \E q \in Seq(Byte) : Follows(f, s, j, q)
    BY <1>1, NextFrame, Zenon
  <2>. QED  BY <2>1, Zenon DEF Follows
<1>4. h \in Seq(Byte) /\ p \in Seq(Byte)
  BY <1>1, FrameOf, Zenon
<1>5. f[j + 1] = Cat(f[j], Cat(h, p))
  BY <1>1, Zenon DEF Stream
<1>6. f[s] = Cat(Cat(f[j], h), Cat(b, r)) /\ Len(b) = Len(p)
  BY Zenon
<1>. HIDE DEF h, p
<1>7. /\ Cat(p, q) \in Seq(Byte) /\ Cat(b, r) \in Seq(Byte)
      /\ Cat(f[j], h) \in Seq(Byte)
  BY <1>2, <1>4, CatFacts, Zenon
<1>8. Cat(f[j], Cat(h, Cat(p, q))) = Cat(Cat(f[j], h), Cat(p, q))
  BY <1>2, <1>4, <1>7, Regrouped, SMTT(20)
<1>9. Cat(b, r) = Cat(p, q)
  <2>1. Cat(Cat(f[j], h), Cat(b, r)) = Cat(Cat(f[j], h), Cat(p, q))
    BY <1>3, <1>6, <1>8, Zenon
  <2>. QED  BY <1>7, <2>1, SameSplit, Zenon
<1>10. b = p
  BY <1>4, <1>6, <1>9, SameSplit, Zenon
<1>11. Cat(Cat(f[j], h), Cat(p, r)) = Cat(f[j], Cat(h, Cat(p, r)))
  <2>1. Cat(p, r) \in Seq(Byte)
    BY <1>4, CatFacts, Zenon
  <2>. QED  BY <1>2, <1>4, <2>1, Regrouped, SMTT(20)
<1>12. Cat(h, Cat(p, r)) = Cat(Cat(h, p), r)
  BY <1>4, Regrouped
<1>13. Cat(f[j], Cat(Cat(h, p), r)) = Cat(Cat(f[j], Cat(h, p)), r)
  <2>1. Cat(h, p) \in Seq(Byte)
    BY <1>4, CatFacts, Zenon
  <2>. QED  BY <1>2, <2>1, Regrouped, SMTT(20)
<1>. QED  BY <1>5, <1>6, <1>10, <1>11, <1>12, <1>13, Zenon DEF p


\* Bytes taken from the front of w go to the end of a; nothing else moves.
MoveKeeps(S, a, w, l, n) ==
    /\ Cat(a, SubSeq(w, 1, n)) \in Seq(S) /\ From(w, n + 1) \in Seq(S)
    /\ Cat(Cat(a, SubSeq(w, 1, n)), Cat(From(w, n + 1), l)) = Cat(a, Cat(w, l))

LEMMA Moves ==
    ASSUME NEW S, NEW a \in Seq(S), NEW w \in Seq(S), NEW l \in Seq(S), NEW n \in Nat, n <= Len(w)
    PROVE  MoveKeeps(S, a, w, l, n)
<1>. DEFINE x == SubSeq(w, 1, n)
            y == From(w, n + 1)
<1>1. x \in Seq(S) /\ y \in Seq(S) /\ Cat(x, y) = w
  BY Taken, Zenon
<1>. HIDE DEF x, y
<1>2. Cat(a, x) \in Seq(S) /\ Cat(y, l) \in Seq(S)
  BY <1>1, CatFacts, Zenon
<1>3. Cat(Cat(a, x), Cat(y, l)) = Cat(a, Cat(x, Cat(y, l)))
  BY <1>1, <1>2, Regrouped, SMTT(20)
<1>4. Cat(x, Cat(y, l)) = Cat(Cat(x, y), l)
  BY <1>1, Regrouped
<1>. QED  BY <1>1, <1>2, <1>3, <1>4, Zenon DEF x, y, MoveKeeps

LEMMA InitFrames == Init => FramesInv
<1>. SUFFICES ASSUME Init PROVE FramesInv
  OBVIOUS
<1>1. Planned
  BY InitPlanned, Zenon
<1>2. /\ sent = 0 /\ out = <<>> /\ wire = <<>> /\ cut = FALSE
      /\ buf = <<>> /\ header = NoHeader /\ got = <<>> /\ failed = FALSE
  BY Zenon DEF Init
<1>3. Len(plan) \in Nat /\ Len(got) = 0 /\ Len(buf) = 0 /\ <<>> \in Seq(Byte)
  BY <1>1, <1>2, LenProperties, SMTT(20) DEF Planned
<1>4. sent \in 0..Len(plan) /\ Len(got) \in 0..sent
  BY <1>2, <1>3
<1>5. got = SubSeq(plan, 1, Len(got))
  BY <1>1, <1>2, <1>3, SMTT(20) DEF Planned
<1>6. Len(buf) <= Wanted
  BY <1>2, <1>3, FramesAssumption, SMTT(20) DEF Wanted, HeaderSize
<1>7. PICK f : Stream(f)
  BY <1>1, StreamExists, Zenon
<1>8. InPlace(f, <<>>)
  <2>1. f[0] = <<>>
    BY <1>7, Zenon DEF Stream
  <2>2. Consumed(f) = <<>> /\ f[sent] = <<>>
    BY <1>2, <1>3, <2>1, Zenon DEF Consumed
  <2>3. Cat(<<>>, <<>>) = <<>>
    BY <1>3, CatNothing, Zenon
  <2>. QED  BY <1>2, <2>2, <2>3, Zenon DEF InPlace
<1>9. OnlyJustRefusals
  BY <1>2, Zenon DEF OnlyJustRefusals
<1>. QED  BY <1>1, <1>2, <1>3, <1>4, <1>5, <1>6, <1>7, <1>8, <1>9, Zenon DEF FramesInv

\* The plan and its bytes do not change.
LEMMA SamePlan ==
    ASSUME Planned, UNCHANGED <<kind, version, plan>>
    PROVE  Planned' /\ \A f : Stream(f) => Stream(f)'
<1>1. Planned'
  BY Zenon DEF Planned
<1>2. \A m : HeaderOf(m)' = HeaderOf(m)
  BY Zenon DEF HeaderOf
<1>. QED  BY <1>1, <1>2, Zenon DEF Stream

LEMMA SendStep ==
    ASSUME FramesInv, Send
    PROVE  FramesInv'
<1>1. PICK n \in Segment : /\ n <= Len(out) /\ wire' = wire \o SubSeq(out, 1, n)
                           /\ out' = From(out, n + 1)
  BY Zenon DEF Send
<1>2. /\ ~cut /\ UNCHANGED <<kind, version, plan, sent, cut, buf, header, got, failed>>
  BY Zenon DEF Send, reader_vars
<1>3. Planned' /\ \A f : Stream(f) => Stream(f)'
  BY <1>2, SamePlan, Zenon DEF FramesInv
<1>4. n \in Nat /\ wire \in Seq(Byte) /\ out \in Seq(Byte) /\ <<>> \in Seq(Byte)
  BY FramesAssumption DEF FramesInv
<1>5. /\ wire' = Cat(wire, SubSeq(out, 1, n)) /\ wire' \in Seq(Byte) /\ out' \in Seq(Byte)
      /\ Cat(wire', out') = Cat(wire, out)
  <2>0. MoveKeeps(Byte, wire, out, <<>>, n)
    BY <1>1, <1>4, Moves, Zenon
  <2>1. /\ Cat(wire, SubSeq(out, 1, n)) \in Seq(Byte) /\ From(out, n + 1) \in Seq(Byte)
        /\ Cat(Cat(wire, SubSeq(out, 1, n)), Cat(From(out, n + 1), <<>>)) = Cat(wire, Cat(out, <<>>))
    BY <2>0, Zenon DEF MoveKeeps
  <2>2. Cat(out, <<>>) = out /\ Cat(From(out, n + 1), <<>>) = From(out, n + 1)
    BY <1>4, <2>1, CatNothing, Zenon
  <2>3. wire' = Cat(wire, SubSeq(out, 1, n))
    BY <1>1, Zenon DEF Cat
  <2>. QED  BY <1>1, <2>1, <2>2, <2>3, Zenon
<1>6. /\ sent' \in 0..Len(plan') /\ Len(got') \in 0..sent' /\ got' = SubSeq(plan', 1, Len(got'))
      /\ buf' \in Seq(Byte) /\ Len(buf') <= Wanted' /\ cut' \in BOOLEAN /\ failed' \in BOOLEAN
  BY <1>2, Zenon DEF FramesInv, Wanted
<1>7. header' = NoHeader \/ Halfway'
  BY <1>2, Zenon DEF FramesInv, Halfway
<1>8. OnlyJustRefusals'
  BY <1>2, Zenon DEF FramesInv, OnlyJustRefusals
<1>9. ASSUME ~failed'
      PROVE  \E f, lost : Stream(f)' /\ lost \in Seq(Byte) /\ InPlace(f, lost)'
  <2>1. PICK f, lost : Stream(f) /\ lost \in Seq(Byte) /\ InPlace(f, lost)
    BY <1>2, <1>9, Zenon DEF FramesInv
  <2>2. lost = out /\ Cat(Consumed(f), Cat(buf, Cat(wire, out))) = f[sent]
    BY <1>2, <2>1, Zenon DEF InPlace
  <2>3. Consumed(f)' = Consumed(f)
    BY <1>2, Zenon DEF Consumed, HeaderOf
  <2>4. PICK left \in Seq(Byte) : left = out'
    BY <1>5, Zenon
  <2>5. Cat(Consumed(f)', Cat(buf', Cat(wire', left))) = f[sent']
    BY <1>2, <1>5, <2>2, <2>3, <2>4, Zenon
  <2>6. InPlace(f, left)'
    BY <2>4, <2>5, Zenon DEF InPlace
  <2>. QED  BY <1>3, <2>1, <2>4, <2>6, Zenon
<1>. QED  BY <1>3, <1>5, <1>6, <1>7, <1>8, <1>9, Zenon DEF FramesInv


LEMMA WriteFrameStep ==
    ASSUME FramesInv, WriteFrame
    PROVE  FramesInv'
<1>1. /\ ~cut /\ out = <<>> /\ sent < Len(plan)
      /\ out' = rtrv_write_frame(plan[sent + 1]) /\ sent' = sent + 1
      /\ UNCHANGED <<kind, version, plan, wire, cut, buf, header, got, failed>>
  BY Zenon DEF WriteFrame, reader_vars
<1>2. Planned /\ Planned' /\ \A f : Stream(f) => Stream(f)'
  BY <1>1, SamePlan, Zenon DEF FramesInv
<1>3. /\ Len(plan) \in Nat /\ sent \in Nat /\ Len(got) \in Nat /\ Len(got) <= sent
      /\ sent + 1 \in 1..Len(plan) /\ (sent + 1) - 1 = sent
  BY <1>1, LenProperties DEF FramesInv, Planned
<1>4. sent' \in 0..Len(plan') /\ Len(got') \in 0..sent'
  BY <1>1, <1>3
<1>5. PICK frame \in Seq(Byte) : frame = Cat(HeaderOf(plan[sent + 1]), Payload(plan[sent + 1])) /\ out' = frame
  BY <1>1, <1>2, <1>3, FrameOf, Zenon
<1>6. /\ got' = SubSeq(plan', 1, Len(got')) /\ buf' \in Seq(Byte) /\ wire' \in Seq(Byte)
      /\ Len(buf') <= Wanted' /\ cut' \in BOOLEAN /\ failed' \in BOOLEAN
  BY <1>1, Zenon DEF FramesInv, Wanted
<1>7. header' = NoHeader \/ Halfway'
  <2>1. CASE header = NoHeader
    BY <1>1, <2>1, Zenon
  <2>2. CASE Halfway
    BY <1>1, <1>3, <2>2, SMTT(20) DEF Halfway
  <2>. QED  BY <2>1, <2>2, Zenon DEF FramesInv
<1>8. OnlyJustRefusals'
  BY <1>1, Zenon DEF FramesInv, OnlyJustRefusals
<1>9. ASSUME ~failed'
      PROVE  \E f, lost : Stream(f)' /\ lost \in Seq(Byte) /\ InPlace(f, lost)'
  <2>1. PICK f, lost : Stream(f) /\ lost \in Seq(Byte) /\ InPlace(f, lost)
    BY <1>1, <1>9, Zenon DEF FramesInv
  <2>. DEFINE c == Consumed(f)
  <2>2. lost = <<>> /\ Cat(c, Cat(buf, Cat(wire, lost))) = f[sent]
    BY <1>1, <2>1, Zenon DEF InPlace
  <2>3. Consumed(f)' = c
    BY <1>1, Zenon DEF Consumed, HeaderOf
  <2>4. c \in Seq(Byte)
    <3>1. Len(got) \in 0..Len(plan)
      BY <1>3
    <3>2. f[Len(got)] \in Seq(Byte)
      BY <2>1, <3>1, Zenon DEF Stream
    <3>3. CASE header = NoHeader
      BY <3>2, <3>3, Zenon DEF Consumed
    <3>4. CASE header # NoHeader
      <4>1. Len(got) + 1 \in 1..Len(plan)
        BY <1>3, <3>4 DEF FramesInv, Halfway
      <4>2. HeaderOf(plan[Len(got) + 1]) \in Seq(Byte)
        BY <1>2, <4>1, FrameOf, Zenon
      <4>. QED  BY <3>2, <3>4, <4>2, CatFacts, Zenon DEF Consumed
    <3>. QED  BY <3>3, <3>4, Zenon
  <2>. HIDE DEF c
  <2>5. buf \in Seq(Byte) /\ wire \in Seq(Byte) /\ Cat(wire, <<>>) = wire
    BY CatNothing, Zenon DEF FramesInv
  <2>6. Cat(c, Cat(buf, wire)) = f[sent]
    BY <2>2, <2>5, Zenon
  <2>7. f[sent + 1] = Cat(f[sent], frame)
    BY <1>3, <1>5, <2>1, Zenon DEF Stream
  <2>8. Cat(Cat(c, Cat(buf, wire)), frame) = Cat(c, Cat(buf, Cat(wire, frame)))
    <3>1. Cat(buf, wire) \in Seq(Byte)
      BY <2>5, CatFacts, Zenon
    <3>2. Cat(Cat(c, Cat(buf, wire)), frame) = Cat(c, Cat(Cat(buf, wire), frame))
      BY <2>4, <3>1, Regrouped, SMTT(20)
    <3>3. Cat(Cat(buf, wire), frame) = Cat(buf, Cat(wire, frame))
      BY <2>5, Regrouped
    <3>. QED  BY <3>2, <3>3, Zenon
  <2>9. Cat(Consumed(f)', Cat(buf', Cat(wire', frame))) = f[sent']
    <3>1. buf' = buf /\ wire' = wire /\ sent' = sent + 1
      BY <1>1, Zenon
    <3>. QED  BY <2>3, <2>6, <2>7, <2>8, <3>1, Zenon
  <2>10. InPlace(f, frame)'
    BY <1>5, <2>9, Zenon DEF InPlace
  <2>. QED  BY <1>2, <2>1, <2>10, Zenon
<1>. QED  BY <1>2, <1>4, <1>5, <1>6, <1>7, <1>8, <1>9, Zenon DEF FramesInv

LEMMA CutStep ==
    ASSUME FramesInv, Cut
    PROVE  FramesInv'
<1>1. PICK n \in 0..Len(wire) : wire' = SubSeq(wire, 1, n)
  BY Zenon DEF Cut
<1>2. cut' = TRUE /\ UNCHANGED <<kind, version, plan, sent, out, buf, header, got, failed>>
  BY Zenon DEF Cut, reader_vars
<1>3. Planned' /\ \A f : Stream(f) => Stream(f)'
  BY <1>2, SamePlan, Zenon DEF FramesInv
<1>4. n \in Nat /\ n <= Len(wire) /\ wire \in Seq(Byte)
  BY <1>1, LenProperties, SMTT(20) DEF FramesInv
<1>5. PICK gone \in Seq(Byte) : wire' \in Seq(Byte) /\ Cat(wire', gone) = wire
  BY <1>1, <1>4, Taken, Zenon
<1>6. /\ sent' \in 0..Len(plan') /\ Len(got') \in 0..sent' /\ got' = SubSeq(plan', 1, Len(got'))
      /\ buf' \in Seq(Byte) /\ out' \in Seq(Byte) /\ Len(buf') <= Wanted' /\ cut' \in BOOLEAN
      /\ failed' \in BOOLEAN
  BY <1>2, Zenon DEF FramesInv, Wanted
<1>7. header' = NoHeader \/ Halfway'
  BY <1>2, Zenon DEF FramesInv, Halfway
<1>8. OnlyJustRefusals'
  BY <1>2, Zenon DEF OnlyJustRefusals
<1>9. ASSUME ~failed'
      PROVE  \E f, lost : Stream(f)' /\ lost \in Seq(Byte) /\ InPlace(f, lost)'
  <2>1. PICK f, lost : Stream(f) /\ lost \in Seq(Byte) /\ InPlace(f, lost)
    BY <1>2, <1>9, Zenon DEF FramesInv
  <2>2. PICK more \in Seq(Byte) : more = Cat(gone, lost)
    BY <2>1, CatFacts, Zenon
  <2>3. Cat(wire', more) = Cat(wire, lost)
    <3>1. Cat(Cat(wire', gone), lost) = Cat(wire', Cat(gone, lost))
      BY <1>5, <2>1, Regrouped, SMTT(20)
    <3>. QED  BY <1>5, <2>2, <3>1, Zenon
  <2>4. Consumed(f)' = Consumed(f)
    BY <1>2, Zenon DEF Consumed, HeaderOf
  <2>5. Cat(Consumed(f)', Cat(buf', Cat(wire', more))) = f[sent']
    BY <1>2, <2>1, <2>3, <2>4, Zenon DEF InPlace
  <2>6. InPlace(f, more)'
    BY <1>2, <2>5, Zenon DEF InPlace
  <2>. QED  BY <1>3, <2>1, <2>2, <2>6, Zenon
<1>. QED  BY <1>3, <1>5, <1>6, <1>7, <1>8, <1>9, Zenon DEF FramesInv

LEMMA RecvEndStep ==
    ASSUME FramesInv, RecvEnd
    PROVE  FramesInv'
<1>1. /\ cut /\ failed' = TRUE
      /\ UNCHANGED <<kind, version, plan, sent, out, wire, cut, buf, header, got>>
  BY Zenon DEF RecvEnd
<1>2. Planned'
  BY <1>1, SamePlan, Zenon DEF FramesInv
<1>3. OnlyJustRefusals'
  BY <1>1, Zenon DEF OnlyJustRefusals
<1>4. header' = NoHeader \/ Halfway'
  BY <1>1, Zenon DEF FramesInv, Halfway
<1>5. Len(buf') <= Wanted'
  BY <1>1, Zenon DEF FramesInv, Wanted
<1>. QED  BY <1>1, <1>2, <1>3, <1>4, <1>5, Zenon DEF FramesInv


LEMMA OneMoreMessage ==
    ASSUME Planned, NEW j \in 0..Len(plan), j < Len(plan), got = SubSeq(plan, 1, j)
    PROVE  /\ Append(got, plan[j + 1]) = SubSeq(plan, 1, j + 1)
           /\ Len(Append(got, plan[j + 1])) = j + 1
<1>1. /\ plan \in Seq(Message) /\ Len(plan) \in Nat /\ 1 \in 1..Len(plan)
      /\ j + 1 \in 1..Len(plan) /\ (j + 1) - 1 = j /\ j \in Nat /\ j <= Len(plan)
  BY LenProperties DEF Planned
<1>2. plan[j + 1] \in Message
  BY <1>1, ElementOfSeq, Zenon
<1>3. got \in Seq(Message) /\ Len(got) = j
  BY <1>1, Taken, Zenon
<1>4. SubSeq(plan, 1, j + 1) = SubSeq(plan, 1, (j + 1) - 1) \o <<plan[j + 1]>>
  BY <1>1, SubSeqRecursiveSecond, Zenon
<1>5. Append(got, plan[j + 1]) = got \o <<plan[j + 1]>> /\ Len(Append(got, plan[j + 1])) = Len(got) + 1
  BY <1>2, <1>3, AppendIsConcat, AppendProperties, Zenon
<1>. QED  BY <1>1, <1>3, <1>4, <1>5, Zenon

\* Where the bytes are after a recv that does not make the reader give up.
LEMMA StillInPlace ==
    ASSUME FramesInv, UNCHANGED <<kind, version, plan, sent, out, cut>>, failed' = FALSE,
           wire' \in Seq(Byte), buf' \in Seq(Byte), Len(buf') <= Wanted',
           header' = NoHeader \/ Halfway',
           got' = SubSeq(plan, 1, Len(got')), Len(got') \in 0..sent,
           NEW f, Stream(f), NEW lost \in Seq(Byte), ~cut => lost = out,
           Cat(Consumed(f)', Cat(buf', Cat(wire', lost))) = f[sent]
    PROVE  FramesInv'
<1>1. Planned' /\ Stream(f)'
  BY SamePlan, Zenon DEF FramesInv
<1>2. InPlace(f, lost)'
  BY Zenon DEF InPlace
<1>3. OnlyJustRefusals'
  BY Zenon DEF OnlyJustRefusals
<1>4. /\ sent' \in 0..Len(plan') /\ Len(got') \in 0..sent' /\ got' = SubSeq(plan', 1, Len(got'))
      /\ out' \in Seq(Byte) /\ cut' \in BOOLEAN /\ failed' \in BOOLEAN
  BY Zenon DEF FramesInv
<1>. QED  BY <1>1, <1>2, <1>3, <1>4, Zenon DEF FramesInv

\* What the messages see of one recv: nothing, a refusal, a header or the message.
Outcome(m) ==
    \/ UNCHANGED <<header, got, failed>>
    \/ Len(got) < sent /\ ~Sound(m) /\ failed' = TRUE /\ UNCHANGED <<header, got>>
    \/ Sound(m) /\ UNCHANGED <<got, failed>>
    \/ /\ Len(got) < sent /\ (header = NoHeader => Sound(m))
       /\ got' = Append(got, m) /\ header' = NoHeader /\ UNCHANGED failed

\* A whole message has been unpacked: it is the next one of the plan.
LEMMA Complete ==
    ASSUME FramesInv, UNCHANGED <<kind, version, plan, sent, out, cut>>, ~failed, Len(got) < sent,
           Unpack(T[plan[Len(got) + 1].type], Payload(plan[Len(got) + 1])),
           wire' \in Seq(Byte), buf' = <<>>, header' = NoHeader,
           NEW f, Stream(f), NEW lost \in Seq(Byte), ~cut => lost = out,
           f[sent] = Cat(f[Len(got) + 1], Cat(wire', lost))
    PROVE  FramesInv' /\ got' = Append(got, plan[Len(got) + 1]) /\ failed' = failed
<1>. DEFINE j == Len(got)
            m == plan[j + 1]
<1>1. /\ Planned /\ Len(plan) \in Nat /\ j \in Nat /\ j \in 0..Len(plan) /\ j < Len(plan)
      /\ sent \in 0..Len(plan) /\ j + 1 \in 1..Len(plan) /\ j + 1 \in 0..sent
      /\ got = SubSeq(plan, 1, j)
  BY LenProperties, SMTT(20) DEF FramesInv, Planned
<1>2. Unpacked(T[m.type], m.form, Payload(m)) = m /\ m # Malformed
  BY <1>1, FrameOf, Zenon
<1>3. got' = Append(got, m) /\ failed' = failed
  BY <1>2, Zenon DEF Unpack
<1>4. got' = SubSeq(plan, 1, j + 1) /\ Len(got') = j + 1
  BY <1>1, <1>3, OneMoreMessage, Zenon
<1>5. failed' = FALSE
  BY <1>3, Zenon DEF FramesInv
<1>6. <<>> \in Seq(Byte) /\ Len(<<>>) = 0 /\ HeaderSize \in Nat
  BY FramesAssumption, SMTT(20) DEF HeaderSize
<1>7. buf' \in Seq(Byte) /\ Len(buf') <= Wanted'
  BY <1>6 DEF Wanted
<1>8. Consumed(f)' = f[j + 1]
  BY <1>4, Zenon DEF Consumed
<1>9. Cat(buf', Cat(wire', lost)) = Cat(wire', lost)
  <2>1. Cat(wire', lost) \in Seq(Byte)
    BY CatFacts, Zenon
  <2>. QED  BY <2>1, CatNothing, Zenon
<1>10. Cat(Consumed(f)', Cat(buf', Cat(wire', lost))) = f[sent]
  BY <1>8, <1>9, Zenon
<1>11. got' = SubSeq(plan, 1, Len(got')) /\ Len(got') \in 0..sent
  BY <1>1, <1>4, Zenon
<1>12. FramesInv'
  BY <1>5, <1>7, <1>10, <1>11, StillInPlace, Zenon
<1>. QED  BY <1>3, <1>12, Zenon


\* One recv.  The bytes that arrive are the next ones of the stream; once a header
\* or a payload is whole, it is the one the sender wrote.
LEMMA RecvStep ==
    ASSUME FramesInv, Recv
    PROVE  FramesInv' /\ Outcome(plan[Len(got) + 1])
<1>1. PICK n \in Segment : /\ n <= Len(wire) /\ n <= Wanted - Len(buf) /\ wire' = From(wire, n + 1)
                           /\ \/ More(buf \o SubSeq(wire, 1, n))
                              \/ HeaderWhole(buf \o SubSeq(wire, 1, n))
                              \/ PayloadWhole(buf \o SubSeq(wire, 1, n))
  BY Zenon DEF Recv
<1>2. ~failed /\ UNCHANGED <<kind, version, plan, sent, out, cut>>
  BY Zenon DEF Recv
<1>3. /\ n \in Nat /\ buf \in Seq(Byte) /\ wire \in Seq(Byte) /\ <<>> \in Seq(Byte) /\ Planned
      /\ sent \in 0..Len(plan) /\ Len(got) \in 0..sent /\ got = SubSeq(plan, 1, Len(got))
      /\ header = NoHeader \/ Halfway
  BY FramesAssumption DEF FramesInv
<1>4. PICK f, lost : Stream(f) /\ lost \in Seq(Byte) /\ InPlace(f, lost)
  BY <1>2, Zenon DEF FramesInv
<1>5. /\ Cat(Consumed(f), Cat(buf, Cat(wire, lost))) = f[sent] /\ (~cut => lost = out)
  BY <1>4, Zenon DEF InPlace
<1>. DEFINE bytes == buf \o SubSeq(wire, 1, n)
            j == Len(got)
            m == plan[j + 1]
<1>6. /\ bytes \in Seq(Byte) /\ wire' \in Seq(Byte)
      /\ Cat(Consumed(f), Cat(bytes, Cat(wire', lost))) = f[sent]
  <2>1. MoveKeeps(Byte, buf, wire, lost, n)
    BY <1>1, <1>3, <1>4, Moves, Zenon
  <2>2. bytes = Cat(buf, SubSeq(wire, 1, n))
    BY Zenon DEF Cat
  <2>. QED  BY <1>1, <1>5, <2>1, <2>2, Zenon DEF MoveKeeps
<1>7. More(bytes) \/ HeaderWhole(bytes) \/ PayloadWhole(bytes)
  BY <1>1, Zenon
<1>. HIDE DEF bytes
<1>8. Cat(wire', lost) \in Seq(Byte) /\ Len(bytes) \in Nat /\ Len(plan) \in Nat
  BY <1>3, <1>4, <1>6, CatFacts, LenProperties, Zenon DEF Planned
<1>9. HeaderSize \in Nat /\ Len(<<>>) = 0
  BY FramesAssumption DEF HeaderSize
<1>10. CASE More(bytes)
  <2>1. Len(bytes) < Wanted /\ buf' = bytes /\ UNCHANGED <<header, got, failed>>
    BY <1>10, Zenon DEF More
  <2>2. Wanted' = Wanted /\ Wanted \in Nat
    <3>1. header # NoHeader => header.len \in Nat
      <4>. SUFFICES ASSUME header # NoHeader PROVE header.len \in Nat
        BY Zenon
      <4>1. j + 1 \in 1..Len(plan) /\ header.len = Len(Payload(m))
        BY <1>3, <1>8, SMTT(20) DEF Halfway
      <4>. QED  BY <1>3, <4>1, FrameOf, Zenon
    <3>. QED  BY <1>9, <2>1, <3>1, Zenon DEF Wanted
  <2>3. Len(buf') <= Wanted'
    BY <1>8, <2>1, <2>2
  <2>4. Consumed(f)' = Consumed(f)
    BY <1>2, <2>1, Zenon DEF Consumed, HeaderOf
  <2>5. header' = NoHeader \/ Halfway'
    BY <1>2, <1>3, <2>1, Zenon DEF Halfway
  <2>6. got' = SubSeq(plan, 1, Len(got')) /\ Len(got') \in 0..sent /\ buf' \in Seq(Byte)
    BY <1>3, <1>6, <2>1, Zenon
  <2>7. failed' = FALSE
    BY <1>2, <2>1, Zenon DEF FramesInv
  <2>8. Cat(Consumed(f)', Cat(buf', Cat(wire', lost))) = f[sent]
    BY <1>6, <2>1, <2>4, Zenon
  <2>9. FramesInv'
    BY <1>2, <1>4, <1>5, <1>6, <2>3, <2>5, <2>6, <2>7, <2>8, StillInPlace, Zenon
  <2>. QED  BY <2>1, <2>9, Zenon DEF Outcome
<1>11. CASE HeaderWhole(bytes)
  <2>1. header = NoHeader /\ Len(bytes) = HeaderSize /\ buf' = <<>>
    BY <1>11, Zenon DEF HeaderWhole
  <2>2. f[sent] = Cat(f[j], Cat(bytes, Cat(wire', lost)))
    BY <1>6, <2>1, Zenon DEF Consumed
  <2>3. /\ j < sent /\ bytes = HeaderOf(m) /\ f[sent] = Cat(Cat(f[j], HeaderOf(m)), Cat(wire', lost))
    <3>1. PICK r \in Seq(Byte) : r = Cat(wire', lost)
      BY <1>8, Zenon
    <3>2. sent \in 0..Len(plan) /\ j \in 0..sent /\ Planned /\ Stream(f)
      BY <1>3, <1>4, Zenon
    <3>3. Len(bytes) = HeaderSize /\ f[sent] = Cat(f[j], Cat(bytes, r)) /\ bytes \in Seq(Byte)
      BY <1>6, <2>1, <2>2, <3>1, Zenon
    <3>. HIDE DEF j, m
    <3>4. j < sent /\ bytes = HeaderOf(plan[j + 1]) /\ f[sent] = Cat(Cat(f[j], HeaderOf(plan[j + 1])), r)
      BY <3>2, <3>3, HeaderNext, Zenon
    <3>. QED  BY <3>1, <3>4, Zenon DEF m
  <2>4. j + 1 \in 1..Len(plan) /\ (j + 1) - 1 = j
    BY <1>3, <1>8, <2>3, SMTT(20)
  <2>5. /\ m \in Message /\ HeaderSays(bytes, m) /\ HeaderOf(m) \in Seq(Byte)
        /\ Payload(m) \in Seq(Byte) /\ Len(Payload(m)) \in Nat
    BY <1>3, <2>3, <2>4, FrameOf, Zenon
  <2>6. bytes[6] = T[m.type] /\ Number(From(bytes, 7)) = Len(Payload(m))
    BY <2>5, Zenon DEF HeaderSays
  <2>. HIDE DEF m
  <2>7. CASE ~Acceptable(bytes) /\ failed' = TRUE /\ UNCHANGED <<header, got>>
    <3>1. OnlyJustRefusals'
      <4>1. version # Version \/ ~Fits(m)
        BY <2>5, <2>7, HeadAccepted, Zenon
      <4>. QED  BY <1>2, <2>7, <4>1, Zenon DEF OnlyJustRefusals, Fits, m
    <3>2. Planned'
      BY <1>2, <1>3, SamePlan, Zenon
    <3>3. Len(buf') <= Wanted' /\ buf' \in Seq(Byte)
      BY <1>3, <1>9, <2>1, <2>7, SMTT(20) DEF Wanted
    <3>4. /\ sent' \in 0..Len(plan') /\ Len(got') \in 0..sent' /\ got' = SubSeq(plan', 1, Len(got'))
          /\ out' \in Seq(Byte) /\ cut' \in BOOLEAN /\ header' = NoHeader
      BY <1>2, <2>1, <2>7, Zenon DEF FramesInv
    <3>5. ~Sound(m)
      BY <2>5, <2>7, HeadAccepted, Zenon DEF Sound
    <3>6. Outcome(m)
      BY <2>3, <2>7, <3>5, Zenon DEF Outcome
    <3>7. FramesInv'
      BY <1>6, <2>7, <3>1, <3>2, <3>3, <3>4, Zenon DEF FramesInv
    <3>. QED  BY <3>6, <3>7, Zenon DEF m
  <2>8. CASE /\ Acceptable(bytes) /\ Len(Payload(m)) > 0
             /\ header' = [type |-> bytes[6], len |-> Len(Payload(m))]
             /\ UNCHANGED <<got, failed>>
    <3>1. Halfway' /\ header'.len = Len(Payload(m)) /\ header'.len > 0
      BY <1>2, <2>3, <2>6, <2>8, Zenon DEF Halfway, m
    <3>2. header' # NoHeader
      BY <3>1, SMTT(20) DEF NoHeader
    <3>3. Len(buf') <= Wanted' /\ buf' \in Seq(Byte)
      BY <1>3, <1>9, <2>1, <2>5, <3>1, <3>2, SMTT(20) DEF Wanted
    <3>4. Consumed(f)' = Cat(f[j], HeaderOf(m))
      BY <1>2, <2>8, <3>2, Zenon DEF Consumed, HeaderOf, m
    <3>5. Cat(buf', Cat(wire', lost)) = Cat(wire', lost)
      BY <1>8, <2>1, CatNothing, Zenon
    <3>6. Cat(Consumed(f)', Cat(buf', Cat(wire', lost))) = f[sent]
      BY <2>3, <3>4, <3>5, Zenon
    <3>7. got' = SubSeq(plan, 1, Len(got')) /\ Len(got') \in 0..sent
      BY <1>3, <2>8, Zenon
    <3>8. failed' = FALSE
      BY <1>2, <2>8, Zenon DEF FramesInv
    <3>9. Sound(m)
      BY <2>5, <2>8, AcceptedHead, Zenon
    <3>10. FramesInv'
      BY <1>2, <1>4, <1>5, <1>6, <3>1, <3>3, <3>6, <3>7, <3>8, StillInPlace, Zenon
    <3>. QED  BY <2>8, <3>9, <3>10, Zenon DEF Outcome, m
  <2>9. CASE Acceptable(bytes) /\ Len(Payload(m)) = 0 /\ Unpack(bytes[6], <<>>) /\ UNCHANGED header
    <3>1. Payload(m) = <<>>
      BY <2>5, <2>9, EmptySeq, Zenon
    <3>2. f[j + 1] = Cat(f[j], HeaderOf(m))
      <4>1. f[j + 1] = Cat(f[j], Cat(HeaderOf(m), Payload(m)))
        BY <1>4, <2>4, Zenon DEF Stream, m
      <4>2. Cat(HeaderOf(m), <<>>) = HeaderOf(m)
        BY <2>5, CatNothing, Zenon
      <4>. QED  BY <3>1, <4>1, <4>2, Zenon
    <3>3. Unpack(T[m.type], Payload(m)) /\ header' = NoHeader
      BY <2>1, <2>6, <2>9, <3>1, Zenon
    <3>4. f[sent] = Cat(f[j + 1], Cat(wire', lost))
      BY <2>3, <3>2, Zenon
    <3>5. FramesInv' /\ got' = Append(got, m) /\ failed' = failed
      BY <1>2, <1>4, <1>5, <1>6, <2>1, <2>3, <3>3, <3>4, Complete, Zenon DEF m
    <3>6. Sound(m)
      BY <2>5, <2>9, AcceptedHead, Zenon
    <3>. QED  BY <2>3, <3>3, <3>5, <3>6, Zenon DEF Outcome, m
  <2>10. LET len == Number(From(bytes, 7))
         IN  \/ ~Acceptable(bytes) /\ failed' = TRUE /\ UNCHANGED <<header, got>>
             \/ /\ Acceptable(bytes) /\ len > 0
                /\ header' = [type |-> bytes[6], len |-> len]
                /\ UNCHANGED <<got, failed>>
             \/ Acceptable(bytes) /\ len = 0 /\ Unpack(bytes[6], <<>>) /\ UNCHANGED header
    BY <1>11, Zenon DEF HeaderWhole
  <2>. QED  BY <2>6, <2>7, <2>8, <2>9, <2>10, Zenon
<1>12. CASE PayloadWhole(bytes)
  <2>1. /\ header # NoHeader /\ Len(bytes) = header.len /\ Unpack(header.type, bytes)
        /\ buf' = <<>> /\ header' = NoHeader
    BY <1>12, Zenon DEF PayloadWhole
  <2>2. j < sent /\ header.type = T[m.type] /\ header.len = Len(Payload(m))
    BY <1>3, <2>1 DEF Halfway
  <2>3. f[sent] = Cat(Cat(f[j], HeaderOf(m)), Cat(bytes, Cat(wire', lost)))
    BY <1>6, <2>1, Zenon DEF Consumed
  <2>4. Len(bytes) = Len(Payload(m))
    BY <2>1, <2>2, Zenon
  <2>5. bytes = Payload(m) /\ f[sent] = Cat(f[j + 1], Cat(wire', lost))
    <3>1. PICK r \in Seq(Byte) : r = Cat(wire', lost)
      BY <1>8, Zenon
    <3>2. sent \in 0..Len(plan) /\ j \in 0..sent /\ j < sent /\ Planned /\ Stream(f)
      BY <1>3, <1>4, <2>2, Zenon
    <3>3. /\ Len(bytes) = Len(Payload(plan[j + 1])) /\ bytes \in Seq(Byte)
          /\ f[sent] = Cat(Cat(f[j], HeaderOf(plan[j + 1])), Cat(bytes, r))
      BY <1>6, <2>3, <2>4, <3>1, Zenon
    <3>. HIDE DEF j, m
    <3>4. bytes = Payload(plan[j + 1]) /\ f[sent] = Cat(f[j + 1], r)
      BY <3>2, <3>3, PayloadNext, Zenon
    <3>. QED  BY <3>1, <3>4, Zenon DEF m
  <2>6. Unpack(T[m.type], Payload(m))
    BY <2>1, <2>2, <2>5, Zenon
  <2>7. FramesInv' /\ got' = Append(got, m) /\ failed' = failed
    BY <1>2, <1>4, <1>5, <1>6, <2>1, <2>2, <2>5, <2>6, Complete, Zenon
  <2>. QED  BY <2>1, <2>2, <2>7, Zenon DEF Outcome
<1>. QED  BY <1>7, <1>10, <1>11, <1>12, Zenon


LEMMA FramesInvariant == Spec => []FramesInv
<1>1. FramesInv /\ [Next]_vars => FramesInv'
  <2>. SUFFICES ASSUME FramesInv, [Next]_vars PROVE FramesInv'
    BY Zenon
  <2>1. CASE WriteFrame
    BY <2>1, WriteFrameStep, Zenon
  <2>2. CASE Send
    BY <2>2, SendStep, Zenon
  <2>3. CASE Cut
    BY <2>3, CutStep
  <2>4. CASE Recv
    BY <2>4, RecvStep, Zenon
  <2>5. CASE RecvEnd
    BY <2>5, RecvEndStep
  <2>6. CASE UNCHANGED vars
    <3>1. UNCHANGED <<kind, version, plan, sent, out, wire, cut, buf, header, got, failed>>
      BY <2>6, Zenon DEF vars
    <3>2. Planned' /\ \A f : Stream(f) => Stream(f)'
      BY <3>1, SamePlan, Zenon DEF FramesInv
    <3>3. \A f : Consumed(f)' = Consumed(f)
      BY <3>1, Zenon DEF Consumed, HeaderOf
    <3>4. \A f, lost : InPlace(f, lost) => InPlace(f, lost)'
      BY <3>1, <3>3, Zenon DEF InPlace
    <3>5. (header' = NoHeader \/ Halfway') /\ Wanted' = Wanted
      BY <3>1, Zenon DEF FramesInv, Halfway, Wanted
    <3>6. OnlyJustRefusals'
      BY <3>1, Zenon DEF FramesInv, OnlyJustRefusals
    <3>7. ~failed' => \E f, lost : Stream(f)' /\ lost \in Seq(Byte) /\ InPlace(f, lost)'
      BY <3>1, <3>2, <3>4, Zenon DEF FramesInv
    <3>8. /\ sent' \in 0..Len(plan') /\ Len(got') \in 0..sent' /\ got' = SubSeq(plan', 1, Len(got'))
          /\ buf' \in Seq(Byte) /\ wire' \in Seq(Byte) /\ out' \in Seq(Byte)
          /\ Len(buf') <= Wanted' /\ cut' \in BOOLEAN /\ failed' \in BOOLEAN
      BY <3>1, <3>5, Zenon DEF FramesInv
    <3>. QED  BY <3>2, <3>5, <3>6, <3>7, <3>8, Zenon DEF FramesInv
  <2>. QED  BY <2>1, <2>2, <2>3, <2>4, <2>5, <2>6, Zenon DEF Next
<1>. QED  BY <1>1, InitFrames, PTL DEF Spec

-----------------------------------------------------------------------------

\* Counters, buffer and flags stay in their ranges: neither reader takes more bytes
\* than rtrv_read_exact was asked for.
THEOREM TypesOK == Spec => []TypeOK
<1>1. FramesInv => TypeOK
  <2>. SUFFICES ASSUME FramesInv PROVE TypeOK
    BY Zenon
  <2>1. Len(plan) \in Nat
    BY LenProperties, Zenon DEF FramesInv, Planned
  <2>2. Len(got) <= sent
    BY <2>1, SMTT(20) DEF FramesInv
  <2>. QED  BY <2>2, Zenon DEF FramesInv, TypeOK
<1>. QED  BY <1>1, FramesInvariant, PTL

\* For messages of any length, sends and receives of any size and a connection that
\* breaks anywhere, what the reader has unpacked is the beginning of what the sender
\* packed, field by field (rtrv_write_all, rtrv_read_exact and both codecs).
THEOREM MessagesArriveIntact == Spec => []MessagesIntact
<1>1. FramesInv => MessagesIntact
  BY Zenon DEF FramesInv, MessagesIntact
<1>. QED  BY <1>1, FramesInvariant, PTL

\* Neither reader gives up on a frame that the other side packed, unless the
\* connection has ended, the versions differ or the frame is over the cap.
THEOREM RefusalsAreJust == Spec => []OnlyJustRefusals
<1>1. FramesInv => OnlyJustRefusals
  BY Zenon DEF FramesInv
<1>. QED  BY <1>1, FramesInvariant, PTL


-----------------------------------------------------------------------------
(* The framing implements the channel of whole messages.                   *)

\* A payload is read only for a message the reader can take.
HeaderSound == header # NoHeader => Sound(plan[Len(got) + 1])

\* The messages begun so far.
Begun == SubSeq(plan, 1, sent)

LEMMA PrefixFacts ==
    ASSUME NEW S, NEW p \in Seq(S), NEW n \in 0..Len(p)
    PROVE  /\ SubSeq(p, 1, n) \in Seq(S) /\ Len(SubSeq(p, 1, n)) = n
           /\ \A k \in 1..n : SubSeq(p, 1, n)[k] = p[k]
<1>1. Len(p) \in Nat /\ n \in Nat /\ n <= Len(p)
  BY LenProperties
<1>2. \A k \in 1..n : p[k] \in S
  BY <1>1, ElementOfSeq, SMTT(20)
<1>3. \A k \in 1..(n - 1 + 1) : SubSeq(p, 1, n)[k] = p[1 + k - 1]
  BY <1>1, <1>2, SubSeqProperties, SMTT(20)
<1>4. \A k \in 1..n : SubSeq(p, 1, n)[k] = p[k]
  BY <1>1, <1>3
<1>. QED  BY <1>1, <1>4, Taken, Zenon

LEMMA BegunFacts ==
    ASSUME FramesInv
    PROVE  /\ Len(plan) \in Nat /\ sent \in Nat /\ Len(got) \in Nat
           /\ Begun \in Seq(Message) /\ Len(Begun) = sent
           /\ \A k \in 1..sent : Begun[k] = plan[k]
<1>1. /\ plan \in Seq(Message) /\ Len(plan) \in Nat /\ sent \in Nat /\ Len(got) \in Nat
      /\ sent \in 0..Len(plan)
  BY LenProperties DEF FramesInv, Planned
<1>. QED  BY <1>1, PrefixFacts, Zenon DEF Begun

\* Beginning one more message leaves the earlier ones in place.
LEMMA BegunGrows ==
    ASSUME FramesInv, plan' = plan, sent < Len(plan), sent' = sent + 1
    PROVE  Len(Begun') = Len(Begun) + 1 /\ SubSeq(Begun', 1, Len(Begun)) = Begun
<1>1. /\ sent \in Nat /\ Begun \in Seq(Message) /\ Len(Begun) = sent
      /\ \A k \in 1..sent : Begun[k] = plan[k]
  BY BegunFacts, Zenon
<1>2. /\ Begun' \in Seq(Message) /\ Len(Begun') = sent + 1
      /\ \A k \in 1..(sent + 1) : Begun'[k] = plan[k]
  <2>1. sent + 1 \in 0..Len(plan) /\ plan \in Seq(Message)
    BY BegunFacts DEF FramesInv, Planned
  <2>. QED  BY <2>1, PrefixFacts, Zenon DEF Begun
<1>3. 0 + Len(Begun) <= Len(Begun') /\ \A i \in 1..Len(Begun) : Begun'[0 + i] = Begun[i]
  BY <1>1, <1>2
<1>4. SubSeq(Begun', 0 + 1, 0 + Len(Begun)) = Begun
  BY <1>1, <1>2, <1>3, Found, Zenon
<1>. QED  BY <1>1, <1>2, <1>4, SMTT(20)

LEMMA HeaderSoundStep ==
    ASSUME FramesInv, HeaderSound, [Next]_vars
    PROVE  HeaderSound'
<1>1. CASE Recv
  <2>1. UNCHANGED <<version, plan>> /\ Outcome(plan[Len(got) + 1])
    BY <1>1, RecvStep, Zenon DEF Recv
  <2>. QED  BY <2>1, Zenon DEF Outcome, HeaderSound, Sound
<1>2. CASE UNCHANGED <<version, plan, header, got>>
  BY <1>2, Zenon DEF HeaderSound, Sound
<1>3. CASE WriteFrame \/ Send \/ Cut \/ RecvEnd \/ UNCHANGED vars
  BY <1>2, <1>3, Zenon DEF WriteFrame, Send, Cut, RecvEnd, reader_vars, vars
<1>. QED  BY <1>1, <1>3, Zenon DEF Next

LEMMA ChannelStep ==
    ASSUME FramesInv, HeaderSound, [Next]_vars
    PROVE  [Messages!Next]_<<Begun, got, version = Version, cut, failed>>
<1>. DEFINE m == plan[Len(got) + 1]
<1>1. /\ Len(plan) \in Nat /\ sent \in Nat /\ Len(got) \in Nat /\ Len(Begun) = sent
      /\ \A k \in 1..sent : Begun[k] = plan[k]
  BY BegunFacts, Zenon
<1>2. Len(got) < sent => Begun[Len(got) + 1] = m
  BY <1>1
<1>. HIDE DEF m
<1>3. CASE WriteFrame
  <2>1. ~cut /\ sent < Len(plan) /\ sent' = sent + 1 /\ UNCHANGED <<plan, version, got, cut, failed>>
    BY <1>3, Zenon DEF WriteFrame, reader_vars
  <2>2. Len(Begun') = Len(Begun) + 1 /\ SubSeq(Begun', 1, Len(Begun)) = Begun
    BY <2>1, BegunGrows, Zenon
  <2>3. Messages!Write
    BY <2>1, <2>2, Zenon DEF Messages!Write, Begun
  <2>. QED  BY <2>3, Zenon DEF Messages!Next
<1>4. CASE Cut
  BY <1>4, Zenon DEF Cut, reader_vars, Messages!Next, Messages!End, Begun
<1>5. CASE RecvEnd
  BY <1>5, Zenon DEF RecvEnd, Messages!Next, Messages!GiveUp, Begun
<1>6. CASE Recv
  <2>1. ~failed /\ UNCHANGED <<version, plan, sent, cut>> /\ Begun' = Begun
    BY <1>6, Zenon DEF Recv, Begun
  <2>2. Outcome(m)
    BY <1>6, RecvStep, Zenon DEF m
  <2>3. CASE UNCHANGED <<got, failed>>
    BY <2>1, <2>3, Zenon
  <2>4. CASE Len(got) < sent /\ ~Sound(m) /\ failed' = TRUE /\ UNCHANGED got
    <3>1. Messages!InTransit /\ ~(version = Version /\ Fits(Messages!Due))
      BY <1>1, <1>2, <2>4, Zenon DEF Messages!InTransit, Messages!Due, Sound, Begun
    <3>2. Messages!GiveUp
      BY <2>1, <2>4, <3>1, Zenon DEF Messages!GiveUp, Begun
    <3>. QED  BY <3>2, Zenon DEF Messages!Next
  <2>5. CASE /\ Len(got) < sent /\ (header = NoHeader => Sound(m))
             /\ got' = Append(got, m) /\ UNCHANGED failed
    <3>1. Sound(m)
      BY <2>5, Zenon DEF HeaderSound, m
    <3>2. Messages!InTransit /\ Messages!Due = m
      BY <1>1, <1>2, <2>5, Zenon DEF Messages!InTransit, Messages!Due, Begun
    <3>3. Messages!Deliver
      BY <2>1, <2>5, <3>1, <3>2, Zenon DEF Messages!Deliver, Sound, Begun
    <3>. QED  BY <3>3, Zenon DEF Messages!Next
  <2>. QED  BY <2>2, <2>3, <2>4, <2>5, Zenon DEF Outcome
<1>7. CASE Send \/ UNCHANGED vars
  BY <1>7, Zenon DEF Send, vars, reader_vars, Begun
<1>. QED  BY <1>3, <1>4, <1>5, <1>6, <1>7, Zenon DEF Next

\* Messages of any length, written, cut into pieces, read and unpacked by either
\* implementation, behave as the channel that module Session builds on: whole, in
\* order, each once, and refused only when they must be.
THEOREM ChannelRefined == Spec => ChannelSpec
<1>1. Init => HeaderSound /\ Messages!Init
  <2>. SUFFICES ASSUME Init PROVE HeaderSound /\ Messages!Init
    BY Zenon
  <2>1. /\ sent = 0 /\ cut = FALSE /\ header = NoHeader /\ got = <<>> /\ failed = FALSE
    BY Zenon DEF Init
  <2>2. SubSeq(plan, 1, sent) = <<>>
    BY <2>1, SubSeqEmpty
  <2>. QED  BY <2>1, <2>2, Zenon DEF HeaderSound, Messages!Init
<1>2. FramesInv /\ HeaderSound /\ [Next]_vars
        => [Messages!Next]_<<SubSeq(plan, 1, sent), got, version = Version, cut, failed>>
  BY ChannelStep, Zenon DEF Begun
<1>3. FramesInv /\ HeaderSound /\ [Next]_vars => HeaderSound'
  BY HeaderSoundStep, Zenon
<1>. QED
  BY <1>1, <1>2, <1>3, FramesInvariant, PTL DEF Spec, ChannelSpec, Messages!Spec


=============================================================================

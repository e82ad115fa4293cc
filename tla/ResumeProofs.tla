---------------------------- MODULE ResumeProofs ----------------------------
(***************************************************************************)
(* Proofs about what Download keeps between attempts: a partial only       *)
(* grows, and it is the beginning of the file its token names, in mild     *)
(* weather and if no two files share a token.  They rest on the types and  *)
(* the invariants of DownloadProofs.                                       *)
(***************************************************************************)
EXTENDS DownloadProofs

-----------------------------------------------------------------------------
(* What a client writes goes to the end of the file.                       *)

LEMMA WrittenAtEnd ==
    ASSUME NEW S, NEW s \in Seq(S), NEW bytes \in Seq(S)
    PROVE  WrittenAt(s, Len(s), bytes) = s \o bytes
<1>1. CASE bytes = <<>>
  BY <1>1, ConcatEmptySeq, Zenon DEF WrittenAt
<1>2. CASE bytes # <<>>
  <2>1. Len(s) \in Nat /\ Len(bytes) \in Nat
    BY LenProperties, Zenon
  <2>2. Larger(Len(s), Len(s) + Len(bytes)) = Len(s) + Len(bytes)
    BY <2>1 DEF Larger
  <2>3. WrittenAt(s, Len(s), bytes) =
           [j \in 1..(Len(s) + Len(bytes)) |->
               IF j \in (Len(s) + 1)..(Len(s) + Len(bytes)) THEN bytes[j - Len(s)]
               ELSE IF j <= Len(s) THEN s[j] ELSE Zero]
    BY <1>2, <2>2 DEF WrittenAt
  <2>4. s \o bytes = [j \in 1..(Len(s) + Len(bytes)) |->
                         IF j <= Len(s) THEN s[j] ELSE bytes[j - Len(s)]]
    <3>1. /\ s \o bytes \in Seq(S) /\ Len(s \o bytes) = Len(s) + Len(bytes)
          /\ \A j \in 1..(Len(s) + Len(bytes)) :
                (s \o bytes)[j] = IF j <= Len(s) THEN s[j] ELSE bytes[j - Len(s)]
      BY ConcatProperties
    <3>2. s \o bytes = [j \in 1..(Len(s) + Len(bytes)) |-> (s \o bytes)[j]]
      <4>. DEFINE u == s \o bytes
      <4>1. u \in Seq(S) /\ Len(u) = Len(s) + Len(bytes)
        BY <3>1, Zenon
      <4>. HIDE DEF u
      <4>2. u = [j \in 1..Len(u) |-> u[j]]
        BY <4>1, LenProperties
      <4>. QED  BY <4>1, <4>2, Zenon DEF u
    <3>. QED  BY <3>1, <3>2, Zenon
  <2>5. \A j \in 1..(Len(s) + Len(bytes)) :
           (IF j \in (Len(s) + 1)..(Len(s) + Len(bytes)) THEN bytes[j - Len(s)]
            ELSE IF j <= Len(s) THEN s[j] ELSE Zero)
           = IF j <= Len(s) THEN s[j] ELSE bytes[j - Len(s)]
    BY <2>1
  <2>. QED  BY <2>3, <2>4, <2>5
<1>. QED  BY <1>1, <1>2, Zenon

\* No two clients write to one file.
Sole == \A c, t \in Client : fd[c] # None /\ fd[c] = fd[t] => c = t

\* A client that starts from nothing has filled its file as far as it has come.
Filled(c) ==
    pc[c] = "body" /\ meta[c].start = 0 =>
        Len(data[fd[c]]) + Len(buf[c]) + remaining[c] = meta[c].size

FillInv == Sole /\ \A c \in Client : Filled(c)

LEMMA FlushAppends ==
    ASSUME Typed, NEW c \in Client, Filled(c), pc[c] = "body", NEW bytes \in Seq(Byte)
    PROVE  /\ Flushed(c, bytes)[fd[c]] = data[fd[c]] \o bytes
           /\ \A i \in Inode \ {fd[c]} : Flushed(c, bytes)[i] = data[i]
<1>1. /\ fd[c] \in Inode
      /\ Flushed(c, bytes)[fd[c]] = WrittenAt(data[fd[c]], At(c), bytes)
      /\ \A i \in Inode \ {fd[c]} : Flushed(c, bytes)[i] = data[i]
  BY FlushedTyped, Zenon
<1>2. data[fd[c]] \in Seq(Byte) /\ buf[c] \in Seq(Byte) /\ remaining[c] \in Nat
  BY <1>1, Zenon DEF Typed, Streams
<1>3. Len(data[fd[c]]) \in Nat /\ Len(buf[c]) \in Nat
  BY <1>2, LenProperties, Zenon
<1>4. At(c) = Len(data[fd[c]])
  <2>1. CASE meta[c].start > 0
    BY <2>1, Zenon DEF At
  <2>2. CASE ~(meta[c].start > 0)
    <3>1. meta[c].size \in Nat /\ meta[c].start = 0
      BY <2>2 DEF Typed, Sized, Told
    <3>2. Len(data[fd[c]]) + Len(buf[c]) + remaining[c] = meta[c].size
      BY <3>1, Zenon DEF Filled
    <3>3. At(c) = meta[c].size - remaining[c] - Len(buf[c])
      BY <2>2, Zenon DEF At
    <3>. DEFINE l == Len(data[fd[c]])
                b == Len(buf[c])
                k == remaining[c]
                z == meta[c].size
    <3>4. /\ l \in Nat /\ b \in Nat /\ k \in Nat /\ z \in Nat /\ l + b + k = z
          /\ At(c) = z - k - b
      BY <1>2, <1>3, <3>1, <3>2, <3>3, Zenon
    <3>. HIDE DEF l, b, k, z
    <3>5. At(c) = l
      BY <3>4
    <3>. QED  BY <3>5, Zenon DEF l
  <2>. QED  BY <2>1, <2>2, Zenon
<1>. QED  BY <1>1, <1>2, <1>4, WrittenAtEnd, Zenon

\* The file an attempt opens is open nowhere else.
LEMMA OpenedAlone ==
    ASSUME Control, Apart, Heap, NEW c \in Client, Creates(c), NEW t \in Client, t # c
    PROVE  fd[t] # fd'[c]
<1>1. PICK i \in Inode : (dir[Partial(c)] = i \/ i \in FreeInode) /\ fd'[c] = i
  BY Zenon DEF Creates
<1>2. i # None
  BY DownloadAssumption, Zenon
<1>3. i \in FreeInode => fd[t] # i
  BY Zenon DEF FreeInode, Unused
<1>4. ASSUME dir[Partial(c)] = i, fd[t] = i PROVE FALSE
  <2>1. pc[c] \in Told /\ pc[t] \in Told /\ Partial(c) \in Path
    BY <1>2, <1>4, PartialFacts, Zenon DEF Creates, Control, Knows, Told
  <2>2. Partial(c) = Partial(t)
    BY <1>2, <1>4, <2>1, Zenon DEF Heap, OwnInv
  <2>. QED  BY <2>1, <2>2, PartialsDiffer, Zenon
<1>. QED  BY <1>1, <1>3, <1>4, Zenon

LEMMA SoleStep ==
    ASSUME IInv, Sole, NEW c \in Client, Step(c)
    PROVE  Sole'
<1>. USE DEF IInv
<1>1. Frame(c)
  BY FrameStep, Zenon DEF Control
<1>2. ASSUME NEW t \in Client, t # c, fd'[c] # None PROVE fd'[c] # fd'[t]
  <2>1. CASE Creates(c)
    <3>1. fd[t] # fd'[c]
      BY <1>2, <2>1, OpenedAlone, Zenon
    <3>. QED  BY <1>1, <1>2, <3>1, Zenon DEF Frame
  <2>2. CASE ~Creates(c)
    <3>1. fd'[c] = fd[c]
      BY <1>2, <2>2, EffectStep, Zenon DEF Quiet, Unlinks, Writes, Renames
    <3>. QED  BY <1>1, <1>2, <3>1, Zenon DEF Frame, Sole
  <2>. QED  BY <2>1, <2>2, Zenon
<1>3. ASSUME NEW s \in Client, NEW t \in Client, s # c, t # c, fd'[s] # None, fd'[s] = fd'[t]
      PROVE  s = t
  <2>1. fd'[s] = fd[s] /\ fd'[t] = fd[t]
    BY <1>1, <1>3, Zenon DEF Frame
  <2>. QED  BY <1>3, <2>1, Zenon DEF Sole
<1>. QED  BY <1>2, <1>3, Zenon DEF Sole

LEMMA FilledOthers ==
    ASSUME IInv, Typed, FillInv, NEW c \in Client, Step(c), NEW t \in Client, t # c
    PROVE  Filled(t)'
<1>. USE DEF IInv
<1>1. Frame(c)
  BY FrameStep, Zenon DEF Control
<1>2. /\ pc'[t] = pc[t] /\ meta'[t] = meta[t] /\ fd'[t] = fd[t]
      /\ buf'[t] = buf[t] /\ remaining'[t] = remaining[t]
  BY <1>1, FrameIO, Zenon DEF Frame
<1>3. ASSUME pc[t] = "body" PROVE data'[fd[t]] = data[fd[t]]
  <2>1. fd[t] # None /\ fd[t] \in Inode
    BY <1>3, Zenon DEF Control, Knows, Shape
  <2>2. CASE Quiet(c) \/ Unlinks(c) \/ Renames(c)
    BY <2>2, Zenon DEF Quiet, Unlinks, Renames
  <2>3. CASE Creates(c)
    <3>1. fd[t] # fd'[c]
      BY <2>3, OpenedAlone, Zenon
    <3>2. \A j \in Inode \ {fd'[c]} : data'[j] = data[j]
      BY <2>3, Zenon DEF Creates
    <3>. QED  BY <2>1, <3>1, <3>2, Zenon
  <2>4. CASE Writes(c)
    <3>1. fd[t] # fd[c]
      BY <2>1, Zenon DEF FillInv, Sole
    <3>. QED  BY <2>1, <2>4, <3>1, Zenon DEF Writes
  <2>. QED  BY <2>2, <2>3, <2>4, EffectStep, Zenon
<1>4. Filled(t)
  BY Zenon DEF FillInv
<1>. QED  BY <1>2, <1>3, <1>4, Zenon DEF Filled

LEMMA FilledOwn ==
    ASSUME Typed, NEW c \in Client, Filled(c), Step(c)
    PROVE  Filled(c)'
<1>. USE DEF Typed
<1>1. CASE pc'[c] # "body"
  BY <1>1, Zenon DEF Filled
<1>2. CASE Create(c)
  <2>. SUFFICES ASSUME meta'[c].start = 0
                PROVE  Len(data'[fd'[c]]) + Len(buf'[c]) + remaining'[c] = meta'[c].size
    BY Zenon DEF Filled
  <2>1. /\ pc[c] = "create" /\ buf' = buf /\ meta' = meta
        /\ remaining'[c] = meta[c].size - meta[c].start
    BY <1>2, Zenon DEF Create, Streams
  <2>2. buf'[c] = <<>> /\ meta[c].size \in Nat /\ meta[c].start = 0
    BY <2>1, Zenon DEF Counted, Sized, Told
  <2>3. data'[fd'[c]] = <<>>
    <3>1. Partial(c) \in Path
      BY <2>1, PartialFacts, Zenon DEF Told
    <3>2. (IF Exists(Partial(c)) THEN {dir[Partial(c)]} ELSE FreeInode) \subseteq Inode
      BY <3>1 DEF Exists, FreeInode, Unused, Control, Shape
    <3>3. ~(meta[c].start > 0)
      BY <2>2
    <3>4. PICK i \in Inode : data' = [data EXCEPT ![i] = <<>>] /\ fd' = [fd EXCEPT ![c] = i]
      BY <1>2, <3>2, <3>3, Zenon DEF Create
    <3>. QED  BY <3>4, Zenon DEF Streams, Control, Shape
  <2>4. Len(data'[fd'[c]]) = 0 /\ Len(buf'[c]) = 0
    BY <2>2, <2>3, Empty, Zenon
  <2>. QED  BY <2>1, <2>2, <2>4
<1>3. CASE Recv(c)
  <2>. SUFFICES ASSUME meta'[c].start = 0
                PROVE  Len(data'[fd'[c]]) + Len(buf'[c]) + remaining'[c] = meta'[c].size
    BY Zenon DEF Filled
  <2>1. pc[c] = "body" /\ meta' = meta /\ fd' = fd
    BY <1>3, Zenon DEF Recv
  <2>2. PICK k \in 1..Len(wire[c]), chunk \in Seq(Byte) :
           /\ Len(chunk) = k
           /\ remaining' = [remaining EXCEPT ![c] = @ - k]
           /\ \/ buf' = [buf EXCEPT ![c] = @ \o chunk] /\ data' = data
              \/ buf' = [buf EXCEPT ![c] = <<>>] /\ data' = Flushed(c, buf[c] \o chunk)
    BY <1>3, RecvFacts, Zenon
  <2>3. fd[c] \in Inode /\ buf[c] \in Seq(Byte) /\ remaining[c] \in Nat /\ wire[c] \in Seq(Byte)
    BY <2>1, Zenon DEF Streams, Control, Knows, Shape
  <2>4. data[fd[c]] \in Seq(Byte) /\ buf[c] \o chunk \in Seq(Byte)
        /\ Len(buf[c] \o chunk) = Len(buf[c]) + k
    BY <2>2, <2>3, Joins, Zenon DEF Streams
  <2>5. Len(data[fd[c]]) \in Nat /\ Len(buf[c]) \in Nat /\ k \in Nat
    BY <2>3, <2>4, LenProperties
  <2>6. \/ Len(data'[fd[c]]) = Len(data[fd[c]]) /\ Len(buf'[c]) = Len(buf[c]) + k
        \/ Len(data'[fd[c]]) = Len(data[fd[c]]) + (Len(buf[c]) + k) /\ Len(buf'[c]) = 0
    <3>1. CASE buf' = [buf EXCEPT ![c] = @ \o chunk] /\ data' = data
      <4>1. buf'[c] = buf[c] \o chunk
        BY <3>1, Zenon DEF Streams
      <4>. QED  BY <2>4, <3>1, <4>1, Zenon
    <3>2. CASE buf' = [buf EXCEPT ![c] = <<>>] /\ data' = Flushed(c, buf[c] \o chunk)
      <4>1. buf'[c] = <<>>
        BY <3>2, Zenon DEF Streams
      <4>2. data'[fd[c]] = data[fd[c]] \o (buf[c] \o chunk)
        BY <2>1, <2>4, <3>2, FlushAppends, Zenon
      <4>3. Len(data'[fd[c]]) = Len(data[fd[c]]) + Len(buf[c] \o chunk)
        BY <2>4, <4>2, Joins, Zenon
      <4>. QED  BY <2>4, <4>1, <4>3, Empty, Zenon
    <3>. QED  BY <2>2, <3>1, <3>2, Zenon
  <2>7. remaining'[c] = remaining[c] - k
    BY <2>2, Zenon DEF Streams
  <2>8. Len(data[fd[c]]) + Len(buf[c]) + remaining[c] = meta[c].size
    BY <2>1, Zenon DEF Filled
  <2>. QED
    <3>. DEFINE l == Len(data[fd[c]])
                b == Len(buf[c])
                n == remaining[c]
                l1 == Len(data'[fd[c]])
                b1 == Len(buf'[c])
    <3>1. /\ l \in Nat /\ b \in Nat /\ n \in Nat /\ k \in Nat
          /\ (l1 = l /\ b1 = b + k) \/ (l1 = l + (b + k) /\ b1 = 0)
      BY <2>3, <2>5, <2>6, Zenon
    <3>. HIDE DEF l, b, n, l1, b1
    <3>2. l1 + b1 + (n - k) = l + b + n
      BY <3>1
    <3>. QED  BY <2>1, <2>7, <2>8, <3>2, Zenon DEF l, b, n, l1, b1
<1>4. pc'[c] = "body" => Create(c) \/ Recv(c)
  <2>1. CASE Exit(c)
    BY <2>1, ExitFd, Zenon DEF Control
  <2>2. CASE Begins(c) /\ ~Exit(c)
    BY <2>2, BeginFacts, Zenon DEF Begun, Control, Shape
  <2>3. CASE (ServeStat(c) \/ ServeHash(c) \/ ServeOpen(c) \/ Drop(c) \/ Close(c) \/ Verify(c))
             /\ ~Exit(c)
    BY <2>3, Zenon DEF ServeStat, ServeHash, ServeOpen, Drop, Close, Verify, Goto, Control, Shape
  <2>4. ~Exit(c) => ~Rename(c) /\ ~Lost(c) /\ ~Kill(c) /\ ~CreateFails(c)
    BY Zenon DEF Rename, Lost, Kill, CreateFails
  <2>. QED  BY <2>1, <2>2, <2>3, <2>4, Zenon DEF Step, Attempt, Begins
<1>. QED  BY <1>1, <1>2, <1>3, <1>4, Zenon

LEMMA FillInit == Init => FillInv
  BY Zenon DEF Init, FillInv, Sole, Filled

LEMMA FillStep ==
    ASSUME Typed, IInv, FillInv, [Next]_vars
    PROVE  FillInv'
<1>1. ASSUME NEW c \in Client, Step(c) PROVE FillInv'
  BY <1>1, SoleStep, FilledOwn, FilledOthers, Zenon DEF FillInv
<1>2. CASE (\E r \in Remote : Replace(r)) \/ CalmDown \/ UNCHANGED vars
  <2>1. UNCHANGED <<data, pc, meta, fd, remaining, buf>>
    BY <1>2, Zenon DEF Replace, CalmDown, vars, fsvars, iovars
  <2>. QED  BY <2>1, Zenon DEF FillInv, Sole, Filled
<1>. QED  BY <1>1, <1>2, Zenon DEF Next, Step

-----------------------------------------------------------------------------
(* A partial only grows.                                                   *)

LEMMA PrefixOfJoin ==
    ASSUME NEW S, NEW s \in Seq(S), NEW t \in Seq(S)
    PROVE  IsPrefixOf(s, s \o t)
<1>1. /\ s \o t \in Seq(S) /\ Len(s \o t) = Len(s) + Len(t)
      /\ \A i \in 1..Len(s) : (s \o t)[i] = s[i]
  BY ConcatProperties
<1>2. Len(s) \in Nat /\ Len(t) \in Nat
  BY LenProperties, Zenon
<1>3. SubSeq(s \o t, 1, Len(s)) = s
  <2>1. \A i \in 1..Len(s) : (s \o t)[i] \in S
    BY <1>1
  <2>2. /\ SubSeq(s \o t, 1, Len(s)) \in Seq(S)
        /\ Len(SubSeq(s \o t, 1, Len(s))) = Len(s)
        /\ \A i \in 1..Len(s) : SubSeq(s \o t, 1, Len(s))[i] = s[i]
    <3>. DEFINE u == s \o t
    <3>1. \A i \in 1..Len(s) : u[i] \in S /\ u[i] = s[i]
      BY <1>1, <2>1, Zenon
    <3>. HIDE DEF u
    <3>2. /\ SubSeq(u, 1, Len(s)) \in Seq(S)
          /\ Len(SubSeq(u, 1, Len(s))) = Len(s)
          /\ \A i \in 1..Len(s) : SubSeq(u, 1, Len(s))[i] = u[i]
      BY <1>2, <3>1, SubSeqProperties
    <3>. QED  BY <3>1, <3>2, Zenon DEF u
  <2>. QED  BY <2>2, SeqEqual, Zenon
<1>. QED  BY <1>1, <1>2, <1>3 DEF IsPrefixOf

LEMMA PrefixOfSelf ==
    ASSUME NEW S, NEW s \in Seq(S)
    PROVE  IsPrefixOf(s, s)
  BY SubSeqFull, LenProperties DEF IsPrefixOf

\* The bytes of a partial that keeps its name stay, and more may follow them.
LEMMA GrowStep ==
    ASSUME PlainNames, Typed, LinkInv, OneInv, NEW c \in Client, Filled(c), Step(c),
           NEW p \in PartialPath, dir[p] # None, dir'[p] # None
    PROVE  IsPrefixOf(data[dir[p]], data'[dir'[p]])
<1>. USE DEF Typed
<1>1. p \in Path /\ dir[p] \in Inode
  BY Zenon DEF Path, Control, Shape
<1>2. data[dir[p]] \in Seq(Byte)
  BY <1>1, Zenon DEF Streams
<1>3. IsPrefixOf(data[dir[p]], data[dir[p]])
  BY <1>2, PrefixOfSelf, Zenon
<1>4. CASE UNCHANGED <<dir, data>>
  BY <1>3, <1>4, Zenon
<1>5. CASE data' = data /\ \E q \in Path : dir' = [dir EXCEPT ![q] = None]
  BY <1>1, <1>3, <1>5, Zenon DEF Control, Shape
<1>6. CASE dir' = dir /\ pc[c] = "body" /\ \E bytes \in Seq(Byte) : data' = Flushed(c, bytes)
  <2>1. PICK bytes \in Seq(Byte) : data' = Flushed(c, bytes)
    BY <1>6, Zenon
  <2>2. /\ data'[fd[c]] = data[fd[c]] \o bytes
        /\ \A i \in Inode \ {fd[c]} : data'[i] = data[i]
    BY <1>6, <2>1, FlushAppends, Zenon
  <2>3. CASE fd[c] = dir[p]
    <3>1. data'[dir'[p]] = data[dir[p]] \o bytes
      BY <1>6, <2>2, <2>3, Zenon
    <3>. QED  BY <1>2, <3>1, PrefixOfJoin, Zenon
  <2>4. CASE fd[c] # dir[p]
    <3>1. data'[dir'[p]] = data[dir[p]]
      BY <1>1, <1>6, <2>2, <2>4, Zenon
    <3>. QED  BY <1>3, <3>1, Zenon
  <2>. QED  BY <2>3, <2>4, Zenon
<1>7. CASE Begins(c) \/ ServeStat(c) \/ ServeHash(c) \/ ServeOpen(c) \/ Kill(c) \/ CreateFails(c)
  BY <1>4, <1>7, Zenon DEF Begins, Begin, ServeStat, ServeHash, ServeOpen, Kill, CreateFails, fsvars
<1>8. CASE Drop(c)
  <2>1. existing[c] \in Path
    BY <1>8, Zenon DEF Drop, Control, Shape, Knows, Path
  <2>. QED  BY <1>4, <1>5, <1>8, <2>1, Zenon DEF Drop
<1>9. CASE Create(c)
  <2>1. Partial(c) \in PartialPath /\ Partial(c)[1] = job[c].dest /\ pc[c] = "create"
    BY <1>9, CreatedAt, Zenon
  <2>2. PICK i \in IF Exists(Partial(c)) THEN {dir[Partial(c)]} ELSE FreeInode :
           /\ dir' = [dir EXCEPT ![Partial(c)] = i]
           /\ data' = [data EXCEPT ![i] =
                  IF Exists(Partial(c)) /\ meta[c].start > 0 THEN @ ELSE <<>>]
    BY <1>9, Zenon DEF Create
  <2>3. CASE p = Partial(c)
    <3>1. Exists(p) /\ p \in PartialsAt(job[c].dest)
      BY <2>1, <2>3, Zenon DEF Exists, PartialsAt
    <3>2. meta[c].start # 0
      BY <2>1, <3>1, Zenon DEF OneInv, Offered
    <3>3. meta[c].start > 0
      BY <2>1, <3>2 DEF Sized, Told
    <3>4. i = dir[p] /\ data' = [data EXCEPT ![i] = data[i]]
      BY <2>2, <2>3, <3>1, <3>3, Zenon
    <3>5. data' = data /\ dir' = dir
      BY <1>1, <2>2, <2>3, <3>4 DEF Streams, Control, Shape
    <3>. QED  BY <1>4, <3>5, Zenon
  <2>4. CASE p # Partial(c)
    <3>1. Partial(c) \in Path
      BY <2>1, Zenon DEF Path
    <3>2. i # dir[p]
      BY <1>1, <2>2, <2>4, <3>1, Zenon DEF LinkInv, FreeInode, Unused, Exists
    <3>3. dir'[p] = dir[p] /\ data'[dir[p]] = data[dir[p]]
      BY <1>1, <2>2, <2>4, <3>2, Zenon DEF Streams, Control, Shape
    <3>. QED  BY <1>3, <3>3, Zenon
  <2>. QED  BY <2>3, <2>4, Zenon
<1>10. CASE Recv(c)
  <2>1. pc[c] = "body" /\ buf[c] \in Seq(Byte) /\ dir' = dir
    BY <1>10, Zenon DEF Recv, Streams
  <2>2. PICK chunk \in Seq(Byte) : data' = data \/ data' = Flushed(c, buf[c] \o chunk)
    BY <1>10, RecvFacts, Zenon
  <2>3. buf[c] \o chunk \in Seq(Byte)
    BY <2>1, Joins, Zenon
  <2>. QED  BY <1>4, <1>6, <2>1, <2>2, <2>3, Zenon
<1>11. CASE Close(c) \/ (Lost(c) /\ pc[c] = "body")
  <2>1. pc[c] = "body" /\ buf[c] \in Seq(Byte)
    BY <1>11, Zenon DEF Close, Streams
  <2>. QED  BY <1>6, <1>11, <2>1, Zenon DEF Close, Lost
<1>12. CASE Lost(c) /\ pc[c] # "body"
  BY <1>4, <1>12, Zenon DEF Lost
<1>13. CASE Verify(c)
  <2>1. Partial(c) \in Path
    BY <1>13, PartialFacts, Zenon DEF Verify, Told
  <2>. QED  BY <1>4, <1>5, <1>13, <2>1, Zenon DEF Verify
<1>14. CASE Rename(c)
  <2>1. job[c].dest \in Dest /\ Partial(c) \in Path
    BY <1>14, PartialFacts, Zenon DEF Rename, Told
  <2>2. p # job[c].dest /\ job[c].dest \in Path
    BY <2>1, DestsApart, Zenon
  <2>3. dir'[p] = dir[p] /\ data' = data
    BY <1>1, <1>14, <2>1, <2>2, Zenon DEF Rename, Control, Shape
  <2>. QED  BY <1>3, <2>3, Zenon
<1>. QED  BY <1>7, <1>8, <1>9, <1>10, <1>11, <1>12, <1>13, <1>14, Zenon DEF Step, Attempt, Begins

\* No attempt of either client shortens or overwrites what an earlier one has saved
\* at a local name: find_partial finds it, and it is opened for appending or dropped
\* first.  The server's files may change and bytes be damaged; the names do not extend
\* one another, and a partial that is to be removed is removed.
THEOREM PartialsGrow ==
    ASSUME Exclusive, ~RemoveFaults, Extends = {}, PlainNames
    PROVE  Spec => PartialsOnlyGrow
<1>. DEFINE Grow == \A p \in PartialPath : dir[p] # None /\ dir'[p] # None =>
                       IsPrefixOf(data[dir[p]], data'[dir'[p]])
<1>1. Init => Typed /\ IInv /\ OneInv /\ FillInv
  BY TypedInit, InitHolds, OneInit, FillInit, Zenon
<1>2. Typed /\ IInv /\ OneInv /\ FillInv /\ [Next]_vars => Typed' /\ IInv' /\ OneInv' /\ FillInv'
  BY TypedStep, IInvStep, OneStep, FillStep, Zenon DEF IInv
<1>3. Typed /\ IInv /\ OneInv /\ FillInv /\ [Next]_vars => [Grow]_vars
  <2>. SUFFICES ASSUME Typed, IInv, OneInv, FillInv, Next, NEW p \in PartialPath,
                       dir[p] # None, dir'[p] # None
                PROVE  IsPrefixOf(data[dir[p]], data'[dir'[p]])
    BY Zenon
  <2>1. ASSUME NEW c \in Client, Step(c) PROVE IsPrefixOf(data[dir[p]], data'[dir'[p]])
    BY <2>1, GrowStep, Zenon DEF IInv, Heap, FillInv
  <2>2. CASE (\E r \in Remote : Replace(r)) \/ CalmDown
    <3>1. UNCHANGED <<dir, data>>
      BY <2>2, Zenon DEF Replace, CalmDown, fsvars
    <3>2. data[dir[p]] \in Seq(Byte)
      BY DEF Typed, Control, Shape, Streams, Path
    <3>. QED  BY <3>1, <3>2, PrefixOfSelf, Zenon
  <2>. QED  BY <2>1, <2>2, Zenon DEF Next, Step
<1>. QED  BY <1>1, <1>2, <1>3, PTL DEF Spec, PartialsOnlyGrow

-----------------------------------------------------------------------------
(* A partial is the beginning of its file.                                 *)

DistinctTokens == \A x, y \in Content : TokenOf[Sha(x)] = TokenOf[Sha(y)] => x = y

\* The file the attempt is for.
Source(c) == store[job[c].remote]

\* Until the answer, the partial that was found is as long as the offset sent.  The
\* answer describes the file.  The bytes in the partial, those not yet flushed and
\* those on their way are always the file.
Serves(c) ==
    /\ pc[c] \in Told \cup {"hash"} => Source(c) \in Content /\ meta[c].size = Len(Source(c))
    /\ pc[c] \in Told => meta[c].digest = Sha(Source(c))
    /\ pc[c] \in Serving /\ existing[c] # None =>
          Exists(existing[c]) /\ offset[c] = Len(data[dir[existing[c]]])
    /\ pc[c] = "open" => meta[c].start \in {0, offset[c]}
    /\ pc[c] = "drop" => meta[c].start = 0
    /\ pc[c] \in {"drop", "create"} =>
          wire[c] = SubSeq(Source(c), meta[c].start + 1, Len(Source(c)))
    /\ pc[c] = "create" /\ meta[c].start # 0 =>
          Exists(Partial(c)) /\ meta[c].start = Len(data[dir[Partial(c)]])
    /\ pc[c] # "body" => buf[c] = <<>>
    /\ pc[c] = "body" =>
          /\ dir[Partial(c)] = fd[c]
          /\ (data[fd[c]] \o buf[c]) \o wire[c] = Source(c)
          /\ remaining[c] = Len(wire[c])

PrefixInv == PartialIsPrefix /\ (weather = "mild" => \A c \in Client : Serves(c))

LEMMA PrefixInit == Init => PrefixInv
<1>. SUFFICES ASSUME Init PROVE PrefixInv
  BY Zenon
<1>1. \A p \in PartialPath : ~Exists(p)
  BY Zenon DEF Init, Exists, Path
<1>2. \A c \in Client : pc[c] = "off" /\ buf[c] = <<>>
  BY Zenon DEF Init
<1>3. PartialIsPrefix
  BY <1>1, Zenon DEF PartialIsPrefix
<1>4. \A c \in Client : Serves(c)
  BY <1>2, Zenon DEF Serves, Told, Serving
<1>. QED  BY <1>3, <1>4, Zenon DEF PrefixInv

LEMMA Divided ==
    ASSUME NEW S, NEW w \in Seq(S), NEW k \in 0..Len(w)
    PROVE  /\ SubSeq(w, 1, k) \in Seq(S) /\ SubSeq(w, k + 1, Len(w)) \in Seq(S)
           /\ SubSeq(w, 1, k) \o SubSeq(w, k + 1, Len(w)) = w
           /\ Len(SubSeq(w, k + 1, Len(w))) = Len(w) - k
<1>1. Len(w) \in Nat /\ k \in Nat /\ k + 1 \in Nat \ {0}
  BY LenProperties
<1>2. SubSeq(w, 1, k) \in Seq(S) /\ SubSeq(w, k + 1, Len(w)) \in Seq(S)
  BY <1>1, Slice
<1>3. SubSeq(w, 1, k) \o SubSeq(w, k + 1, Len(w)) = SubSeq(w, 1, Len(w))
  <2>1. 1 \in 1..(Len(w) + 1) /\ k \in (1 - 1)..Len(w) /\ Len(w) \in k..Len(w)
    BY <1>1
  <2>. QED  BY <2>1, ConcatAdjacentSubSeq, Zenon
<1>4. \A i \in (k + 1)..Len(w) : w[i] \in S
  BY <1>1
<1>5. Len(SubSeq(w, k + 1, Len(w))) = IF k + 1 <= Len(w) THEN Len(w) - (k + 1) + 1 ELSE 0
  BY <1>1, <1>4, SubSeqProperties
<1>6. Len(SubSeq(w, k + 1, Len(w))) = Len(w) - k
  BY <1>1, <1>5
<1>7. SubSeq(w, 1, Len(w)) = w
  BY SubSeqFull, Zenon
<1>. QED  BY <1>2, <1>3, <1>6, <1>7, Zenon

Cat(s, t) == s \o t

LEMMA CatFacts ==
    ASSUME NEW S
    PROVE  /\ \A s, t \in Seq(S) : Cat(s, t) \in Seq(S)
           /\ \A s, t, u \in Seq(S) : Cat(Cat(s, t), u) = Cat(s, Cat(t, u))
           /\ \A s \in Seq(S) : Cat(s, <<>>) = s /\ Cat(<<>>, s) = s
<1>1. \A s, t \in Seq(S) : Cat(s, t) \in Seq(S)
  BY Joins, Zenon DEF Cat
<1>2. \A s, t, u \in Seq(S) : Cat(Cat(s, t), u) = Cat(s, Cat(t, u))
  BY SMTT(20) DEF Cat
<1>3. \A s \in Seq(S) : Cat(s, <<>>) = s /\ Cat(<<>>, s) = s
  BY ConcatEmptySeq, Zenon DEF Cat
<1>. QED  BY <1>1, <1>2, <1>3, Zenon

\* A chunk moves from the wire to the buffer, and on to the file.
LEMMA Moved ==
    ASSUME NEW S, NEW d \in Seq(S), NEW b \in Seq(S), NEW w \in Seq(S),
           NEW chunk \in Seq(S), NEW left \in Seq(S), Cat(chunk, left) = w
    PROVE  /\ Cat(Cat(d, Cat(b, chunk)), left) = Cat(Cat(d, b), w)
           /\ Cat(Cat(Cat(d, Cat(b, chunk)), <<>>), left) = Cat(Cat(d, b), w)
<1>1. Cat(d, Cat(b, chunk)) \in Seq(S) /\ Cat(b, chunk) \in Seq(S)
  BY CatFacts, Zenon
<1>2. Cat(Cat(d, Cat(b, chunk)), left) = Cat(d, Cat(Cat(b, chunk), left))
  BY <1>1, CatFacts
<1>3. Cat(Cat(b, chunk), left) = Cat(b, w)
  BY CatFacts
<1>4. Cat(d, Cat(b, w)) = Cat(Cat(d, b), w)
  BY CatFacts
<1>5. Cat(Cat(d, Cat(b, chunk)), <<>>) = Cat(d, Cat(b, chunk))
  BY <1>1, CatFacts, Zenon
<1>. QED  BY <1>2, <1>3, <1>4, <1>5, Zenon

\* An attempt touches no partial but those of its local name.
LEMMA Elsewhere ==
    ASSUME PlainNames, Typed, LinkInv, OwnInv, OneInv, NEW c \in Client, Step(c),
           NEW p \in PartialPath, pc[c] = "off" \/ p[1] # job[c].dest
    PROVE  dir'[p] = dir[p] /\ (dir[p] # None => data'[dir[p]] = data[dir[p]])
<1>. USE DEF Typed
<1>1. p \in Path /\ (dir[p] # None => dir[p] \in Inode)
  BY Zenon DEF Path, Control, Shape
<1>2. CASE Begins(c) \/ ServeStat(c) \/ ServeHash(c) \/ ServeOpen(c) \/ Kill(c) \/ CreateFails(c)
  BY <1>2, Zenon DEF Begins, Begin, ServeStat, ServeHash, ServeOpen, Kill, CreateFails, fsvars
<1>3. CASE Drop(c)
  <2>1. existing[c] # p
    BY <1>3, Zenon DEF Drop, Control, Knows, OneInv, Offered
  <2>. QED  BY <1>1, <1>3, <2>1, Zenon DEF Drop, Control, Shape
<1>4. ASSUME pc[c] \in Told PROVE p # Partial(c)
  BY <1>4, PartialFacts DEF Told
<1>5. CASE Create(c)
  <2>1. p # Partial(c) /\ Partial(c) \in Path
    BY <1>4, <1>5, PartialFacts, Zenon DEF Create, Told
  <2>2. PICK i \in IF Exists(Partial(c)) THEN {dir[Partial(c)]} ELSE FreeInode :
           /\ dir' = [dir EXCEPT ![Partial(c)] = i]
           /\ data' = [data EXCEPT ![i] =
                  IF Exists(Partial(c)) /\ meta[c].start > 0 THEN @ ELSE <<>>]
    BY <1>5, Zenon DEF Create
  <2>3. dir[p] # None => i # dir[p]
    BY <1>1, <2>1, <2>2, Zenon DEF LinkInv, FreeInode, Unused, Exists
  <2>. QED  BY <1>1, <2>1, <2>2, <2>3, Zenon DEF Streams, Control, Shape
<1>6. CASE Recv(c) \/ Close(c) \/ Lost(c)
  <2>1. dir' = dir
    BY <1>6, Zenon DEF Recv, Close, Lost
  <2>2. CASE pc[c] = "body"
    <3>1. fd[c] # None /\ fd[c] \in Inode /\ dir[p] # fd[c]
      BY <1>1, <1>4, <2>2 DEF Control, Knows, Shape, OwnInv, Told
    <3>2. \E bytes : data' = data \/ data' = Flushed(c, bytes)
      BY <1>6, <2>2, Zenon DEF Recv, Close, Lost
    <3>. QED  BY <1>1, <2>1, <3>1, <3>2, Zenon DEF Flushed, Streams
  <2>3. CASE pc[c] # "body"
    BY <1>6, <2>1, <2>3, Zenon DEF Recv, Close, Lost
  <2>. QED  BY <2>2, <2>3, Zenon
<1>7. CASE Verify(c)
  <2>1. p # Partial(c)
    BY <1>4, <1>7, Zenon DEF Verify, Told
  <2>. QED  BY <1>1, <1>7, <2>1, Zenon DEF Verify, Control, Shape
<1>8. CASE Rename(c)
  <2>1. p # Partial(c) /\ p # job[c].dest
    BY <1>4, <1>8, PartialFacts, DestsApart, Zenon DEF Rename, Told
  <2>. QED  BY <1>1, <1>8, <2>1, Zenon DEF Rename, Control, Shape
<1>. QED  BY <1>2, <1>3, <1>5, <1>6, <1>7, <1>8, Zenon DEF Step, Attempt, Begins

LEMMA ServesOthers ==
    ASSUME weather = "mild", PlainNames, Typed, Apart, LinkInv, OwnInv, OneInv, PrefixInv,
           NEW c \in Client, Step(c), NEW t \in Client, t # c
    PROVE  Serves(t)'
<1>1. /\ pc'[t] = pc[t] /\ job'[t] = job[t] /\ meta'[t] = meta[t] /\ fd'[t] = fd[t]
      /\ existing'[t] = existing[t] /\ offset'[t] = offset[t]
  BY FrameStep, Zenon DEF Typed, Control, Frame
<1>2. /\ wire'[t] = wire[t] /\ buf'[t] = buf[t] /\ remaining'[t] = remaining[t]
      /\ Source(t)' = Source(t)
  BY <1>1, FrameIO, Zenon DEF Source
<1>3. Partial(t)' = Partial(t)
  BY <1>1, PartialKept, Zenon
<1>4. Serves(t)
  BY Zenon DEF PrefixInv
<1>5. CASE pc[t] = "off"
  BY <1>1, <1>2, <1>4, <1>5, Zenon DEF Serves, Told, Serving
<1>6. CASE pc[t] # "off"
  <2>1. ASSUME NEW p \in PartialPath, p[1] = job[t].dest
        PROVE  dir'[p] = dir[p] /\ (dir[p] # None => data'[dir[p]] = data[dir[p]])
    <3>1. pc[c] = "off" \/ p[1] # job[c].dest
      BY <1>6, <2>1, Zenon DEF Apart
    <3>. QED  BY <3>1, Elsewhere, Zenon
  <2>2. ASSUME pc[t] \in Told
        PROVE  /\ dir'[Partial(t)] = dir[Partial(t)]
               /\ dir[Partial(t)] # None => data'[dir[Partial(t)]] = data[dir[Partial(t)]]
    <3>1. Partial(t) \in PartialPath /\ Partial(t)[1] = job[t].dest
      BY <2>2, PartialFacts DEF Typed
    <3>. QED  BY <2>1, <3>1, Zenon
  <2>3. ASSUME existing[t] # None
        PROVE  /\ dir'[existing[t]] = dir[existing[t]]
               /\ dir[existing[t]] # None =>
                     data'[dir[existing[t]]] = data[dir[existing[t]]]
    <3>1. existing[t] \in PartialPath /\ existing[t][1] = job[t].dest
      BY <1>6, <2>3 DEF Typed, Control, Shape, OneInv, Offered
    <3>. QED  BY <2>1, <3>1, Zenon
  <2>4. CASE pc[t] \in Serving
    <3>1. ASSUME existing[t] # None
          PROVE  dir'[existing[t]] # None /\ offset[t] = Len(data'[dir'[existing[t]]])
      <4>1. dir[existing[t]] # None /\ offset[t] = Len(data[dir[existing[t]]])
        BY <1>4, <2>4, <3>1, Zenon DEF Serves, Exists
      <4>. QED  BY <2>3, <3>1, <4>1, Zenon
    <3>. QED  BY <1>1, <1>2, <1>4, <2>4, <3>1, Zenon DEF Serves, Serving, Told, Exists
  <2>5. CASE pc[t] \in {"drop", "verify", "rename"}
    BY <1>1, <1>2, <1>4, <2>5, Zenon DEF Serves, Serving, Told
  <2>6. CASE pc[t] = "create"
    <3>1. meta[t].start # 0 =>
             Exists(Partial(t))' /\ meta[t].start = Len(data'[dir'[Partial(t)]])
      BY <1>3, <1>4, <2>2, <2>6, Zenon DEF Serves, Exists, Told
    <3>. QED  BY <1>1, <1>2, <1>3, <1>4, <2>6, <3>1, Zenon DEF Serves, Serving, Told
  <2>7. CASE pc[t] = "body"
    <3>1. dir[Partial(t)] = fd[t] /\ fd[t] # None
      BY <1>4, <2>7, Zenon DEF Serves, Typed, Control, Knows
    <3>2. dir'[Partial(t)] = fd[t] /\ data'[fd[t]] = data[fd[t]]
      BY <2>2, <2>7, <3>1, Zenon DEF Told
    <3>. QED  BY <1>1, <1>2, <1>3, <1>4, <2>7, <3>2, Zenon DEF Serves, Serving, Told
  <2>. QED  BY <1>6, <2>4, <2>5, <2>6, <2>7, Zenon DEF Typed, Control, Shape, PC
<1>. QED  BY <1>5, <1>6, Zenon

\* What a client receives from the file it asked for.
LEMMA ServedBody ==
    ASSUME weather = "mild", Typed, OneInv, NEW c \in Client, Serves(c), ServeOpen(c)
    PROVE  /\ wire' = [wire EXCEPT ![c] =
                 SubSeq(Source(c), meta[c].start + 1, Len(Source(c)))]
           /\ UNCHANGED <<store, dir, data, job, existing, offset, meta, buf>>
           /\ \/ pc'[c] = "drop" /\ meta[c].start = 0
              \/ pc'[c] = "create" /\ (meta[c].start # 0 => existing[c] = Partial(c))
<1>1. pc[c] = "open" /\ Source(c) \in Content /\ meta[c].size = Len(Source(c))
  BY Zenon DEF ServeOpen, Serves, Told
<1>2. Source(c) # None
  BY <1>1, DownloadAssumption, Zenon
<1>3. Smaller(meta[c].size, Len(Source(c))) = Len(Source(c))
  BY <1>1, Zenon DEF Smaller
<1>4. wire' = [wire EXCEPT ![c] =
         SubSeq(Source(c), meta[c].start + 1, Smaller(meta[c].size, Len(Source(c))))]
  BY <1>2, Zenon DEF ServeOpen, Source
<1>5. UNCHANGED <<store, dir, data, job, existing, offset, meta, buf>>
  BY Zenon DEF ServeOpen, fsvars, reqvars
<1>6. pc' = [pc EXCEPT ![c] = IF meta[c].start = 0 /\ existing[c] # None
                              THEN "drop" ELSE "create"]
  BY Zenon DEF ServeOpen, Goto
<1>7. \/ pc'[c] = "drop" /\ meta[c].start = 0
      \/ pc'[c] = "create" /\ (meta[c].start # 0 => existing[c] = Partial(c))
  BY <1>1, <1>6, Zenon DEF Typed, Control, Shape, OneInv, Offered
<1>. QED  BY <1>3, <1>4, <1>5, <1>7, Zenon


LEMMA ServesExit ==
    ASSUME Typed, NEW c \in Client, Exit(c)
    PROVE  Serves(c)'
<1>1. pc'[c] = "off" /\ buf'[c] = <<>>
  BY Zenon DEF Typed, Control, Shape, Streams, Exit, Goto
<1>. QED  BY <1>1, Zenon DEF Serves, Told, Serving

\* The request and the answer.
LEMMA ServesAsked ==
    ASSUME Typed, NEW c \in Client, Serves(c), Begins(c) \/ ServeStat(c) \/ ServeHash(c),
           ~Exit(c)
    PROVE  Serves(c)'
<1>. USE DEF Typed
<1>0. UNCHANGED <<store, dir, data, buf, wire>>
  BY Zenon DEF Begins, Begin, ServeStat, ServeHash, fsvars, iovars
<1>1. CASE Begins(c)
  <2>1. PICK r \in Remote, d \in Dest : Begun(c, r, d)
    BY <1>1, BeginFacts, Zenon
  <2>2. pc[c] = "off" /\ pc'[c] = "stat"
    BY <2>1, Zenon DEF Begun, Control, Shape
  <2>3. /\ existing'[c] = find_partial(c, d)
        /\ existing'[c] # None => offset'[c] = Len(data[dir[existing'[c]]])
    BY <2>1, Zenon DEF Begun, Control, Shape
  <2>4. existing'[c] # None => Exists(existing'[c])
    BY <2>3, FoundExists, Zenon
  <2>. QED  BY <1>0, <2>2, <2>3, <2>4, Zenon DEF Serves, Told, Exists
<1>2. CASE ServeStat(c)
  <2>1. /\ pc[c] = "stat" /\ pc'[c] = "hash" /\ UNCHANGED <<job, existing, offset>>
        /\ Source(c) # None
        /\ meta'[c] = [size |-> Len(Source(c)), start |-> 0, digest |-> None]
    BY <1>2, Zenon DEF ServeStat, Goto, reqvars, Source, Control, Shape
  <2>2. Source(c) \in Content /\ Source(c)' = Source(c)
    BY <1>0, <2>1 DEF Source, Control, Shape, Knows
  <2>3. meta'[c].size = Len(Source(c))
    BY <2>1
  <2>. QED  BY <1>0, <2>1, <2>2, <2>3, Zenon DEF Serves, Told, Serving, Exists
<1>3. CASE ServeHash(c)
  <2>1. /\ pc[c] = "hash" /\ pc'[c] = "open" /\ UNCHANGED <<job, existing, offset>>
        /\ meta' = [meta EXCEPT ![c].digest = Sha(Source(c)),
              ![c].start = IF offset[c] # 0 /\ partial_token(existing[c]) = TokenOf[Sha(Source(c))]
                           THEN offset[c] ELSE 0]
    BY <1>3, Zenon DEF ServeHash, Goto, reqvars, Source, Control, Shape
  <2>2. meta[c] = [size |-> meta[c].size, start |-> meta[c].start, digest |-> meta[c].digest]
    BY <2>1, Zenon DEF Control, Knows
  <2>3. /\ meta'[c].size = meta[c].size /\ meta'[c].digest = Sha(Source(c))
        /\ meta'[c].start \in {0, offset[c]}
    BY <2>1, <2>2, Zenon DEF Control, Shape
  <2>4. Source(c)' = Source(c)
    BY <1>0, <2>1, Zenon DEF Source
  <2>. QED  BY <1>0, <2>1, <2>3, <2>4, Zenon DEF Serves, Told, Serving, Exists
<1>. QED  BY <1>1, <1>2, <1>3, Zenon

\* The body is on its way, and the client makes room for it.
LEMMA ServesSent ==
    ASSUME weather = "mild", Typed, OneInv, NEW c \in Client, Serves(c),
           ServeOpen(c) \/ Drop(c), ~Exit(c)
    PROVE  Serves(c)'
<1>. USE DEF Typed
<1>1. CASE ServeOpen(c)
  <2>1. /\ wire' = [wire EXCEPT ![c] = SubSeq(Source(c), meta[c].start + 1, Len(Source(c)))]
        /\ UNCHANGED <<store, dir, data, job, existing, offset, meta, buf>>
        /\ \/ pc'[c] = "drop" /\ meta[c].start = 0
           \/ pc'[c] = "create" /\ (meta[c].start # 0 => existing[c] = Partial(c))
    BY <1>1, ServedBody, Zenon
  <2>2. Source(c)' = Source(c) /\ Partial(c)' = Partial(c) /\ pc[c] = "open"
    BY <1>1, <2>1, PartialKept, Zenon DEF Source, ServeOpen
  <2>3. wire'[c] = SubSeq(Source(c), meta[c].start + 1, Len(Source(c)))
    BY <2>1, Zenon DEF Streams
  <2>4. /\ Source(c) \in Content /\ meta[c].size = Len(Source(c))
        /\ meta[c].digest = Sha(Source(c)) /\ buf[c] = <<>>
    BY <2>2, Zenon DEF Serves, Told
  <2>5. pc'[c] = "create" /\ meta[c].start # 0 =>
           dir[Partial(c)] # None /\ meta[c].start = Len(data[dir[Partial(c)]])
    <3>. SUFFICES ASSUME pc'[c] = "create", meta[c].start # 0
                  PROVE  dir[Partial(c)] # None /\ meta[c].start = Len(data[dir[Partial(c)]])
      BY Zenon
    <3>1. meta[c].start = offset[c] /\ existing[c] = Partial(c)
      BY <2>1, <2>2, Zenon DEF Serves
    <3>2. existing[c] # None
      BY <2>2, <3>1, PartialFacts, DownloadAssumption, Zenon DEF Told, PartialPath
    <3>. QED  BY <2>2, <3>1, <3>2, Zenon DEF Serves, Serving, Exists
  <2>. QED  BY <2>1, <2>2, <2>3, <2>4, <2>5, Zenon DEF Serves, Told, Serving, Exists
<1>2. CASE Drop(c)
  <2>1. /\ pc[c] = "drop" /\ pc'[c] = "create"
        /\ UNCHANGED <<store, data, job, existing, offset, meta, wire, buf>>
    BY <1>2, Zenon DEF Drop, Goto, reqvars, iovars, Control, Shape
  <2>2. Source(c)' = Source(c)
    BY <2>1, Zenon DEF Source
  <2>. QED  BY <2>1, <2>2, Zenon DEF Serves, Told, Serving
<1>. QED  BY <1>1, <1>2, Zenon

\* What the partial held when it is opened is the beginning of the file.
LEMMA Resumed ==
    ASSUME weather = "mild", DistinctTokens, Typed, PartialIsPrefix, NEW c \in Client, Serves(c),
           pc[c] = "create", meta[c].start # 0
    PROVE  data[dir[Partial(c)]] = SubSeq(Source(c), 1, meta[c].start)
<1>1. Partial(c) \in PartialPath /\ partial_token(Partial(c)) = TokenOf[meta[c].digest]
  BY PartialFacts DEF Typed, Told, partial_token
<1>2. /\ Exists(Partial(c)) /\ meta[c].start = Len(data[dir[Partial(c)]])
      /\ meta[c].digest = Sha(Source(c)) /\ Source(c) \in Content
  BY Zenon DEF Serves, Told
<1>3. PICK x \in Content : /\ TokenOf[Sha(x)] = TokenOf[Sha(Source(c))]
                           /\ IsPrefixOf(data[dir[Partial(c)]], x)
  BY <1>1, <1>2, Zenon DEF PartialIsPrefix
<1>4. x = Source(c)
  BY <1>2, <1>3, Zenon DEF DistinctTokens
<1>. QED  BY <1>2, <1>3, <1>4, Zenon DEF IsPrefixOf

LEMMA ServesCreated ==
    ASSUME weather = "mild", DistinctTokens, Typed, PartialIsPrefix, NEW c \in Client, Serves(c),
           Create(c)
    PROVE  Serves(c)'
<1>. USE DEF Typed
<1>. DEFINE y == Source(c)
            start == meta[c].start
<1>1. /\ pc[c] = "create" /\ pc'[c] = "body" /\ UNCHANGED <<store, job, meta, wire, buf>>
      /\ remaining'[c] = meta[c].size - start
  BY Zenon DEF Create, Goto, reqvars, Control, Shape, Streams
<1>2. /\ y \in Seq(Byte) /\ Len(y) \in Nat /\ y \in Content
      /\ meta[c].size = Len(y) /\ start \in 0..Len(y)
      /\ wire[c] = SubSeq(y, start + 1, Len(y)) /\ buf[c] = <<>>
      /\ meta[c].digest = Sha(y)
  BY <1>1, ContentBytes, Zenon DEF Serves, Told, Sized
<1>3. Source(c)' = Source(c) /\ Partial(c)' = Partial(c) /\ Partial(c) \in Path
  BY <1>1, PartialKept, PartialFacts, Zenon DEF Source, Told
<1>4. PICK i \in Inode :
         /\ dir'[Partial(c)] = i /\ fd'[c] = i
         /\ data'[i] = IF Exists(Partial(c)) /\ start > 0 THEN data[dir[Partial(c)]] ELSE <<>>
  <2>1. PICK i \in IF Exists(Partial(c)) THEN {dir[Partial(c)]} ELSE FreeInode :
           /\ dir' = [dir EXCEPT ![Partial(c)] = i]
           /\ data' = [data EXCEPT ![i] = IF Exists(Partial(c)) /\ start > 0 THEN @ ELSE <<>>]
           /\ fd' = [fd EXCEPT ![c] = i]
    BY Zenon DEF Create
  <2>2. i \in Inode /\ (Exists(Partial(c)) => i = dir[Partial(c)])
    BY <1>3, <2>1 DEF Exists, FreeInode, Unused, Control, Shape
  <2>3. dir'[Partial(c)] = i /\ fd'[c] = i
    BY <1>3, <2>1, Zenon DEF Control, Shape
  <2>4. data'[i] = IF Exists(Partial(c)) /\ start > 0 THEN data[dir[Partial(c)]] ELSE <<>>
    BY <2>1, <2>2, Zenon DEF Streams
  <2>. QED  BY <2>2, <2>3, <2>4, Zenon
<1>5. /\ SubSeq(y, 1, start) \in Seq(Byte) /\ SubSeq(y, start + 1, Len(y)) \in Seq(Byte)
      /\ SubSeq(y, 1, start) \o SubSeq(y, start + 1, Len(y)) = y
      /\ Len(SubSeq(y, start + 1, Len(y))) = Len(y) - start
  <2>. HIDE DEF y, start
  <2>. QED  BY <1>2, Divided, Zenon
<1>6. data'[i] = SubSeq(y, 1, start)
  <2>1. CASE start = 0
    <3>1. SubSeq(y, 1, start) = <<>>
      BY <2>1, SubSeqEmpty, SMTT(20)
    <3>. QED  BY <1>4, <2>1, <3>1
  <2>2. CASE start # 0
    <3>1. Exists(Partial(c)) /\ data[dir[Partial(c)]] = SubSeq(y, 1, start)
      BY <1>1, <2>2, Resumed, Zenon DEF Serves
    <3>. QED  BY <1>2, <1>4, <2>2, <3>1
  <2>. QED  BY <2>1, <2>2, Zenon
<1>. HIDE DEF y, start
<1>7. (data'[i] \o buf[c]) \o wire[c] = y
  <2>1. SubSeq(y, 1, start) \o <<>> = SubSeq(y, 1, start)
    BY <1>5, ConcatEmptySeq, Zenon
  <2>. QED  BY <1>2, <1>5, <1>6, <2>1, Zenon
<1>8. remaining'[c] = Len(wire[c])
  BY <1>1, <1>2, <1>5, Zenon
<1>. QED  BY <1>1, <1>2, <1>3, <1>4, <1>7, <1>8, Zenon DEF Serves, Told, Serving, y


LEMMA ServesReceived ==
    ASSUME weather = "mild", Typed, NEW c \in Client, Filled(c), Serves(c), Recv(c)
    PROVE  Serves(c)'
<1>. USE DEF Typed
<1>1. pc[c] = "body" /\ pc'[c] = "body" /\ UNCHANGED <<store, dir, job, meta, fd>>
  BY Zenon DEF Recv, reqvars
<1>2. Source(c)' = Source(c) /\ Partial(c)' = Partial(c)
  BY <1>1, PartialKept, Zenon DEF Source
<1>3. /\ wire[c] \in Seq(Byte) /\ Len(wire[c]) \in Nat /\ buf[c] \in Seq(Byte)
      /\ fd[c] \in Inode /\ data[fd[c]] \in Seq(Byte)
  BY <1>1, LenProperties DEF Streams, Control, Knows, Shape
<1>4. PICK k \in 1..Len(wire[c]), chunk \in Seq(Byte) :
         /\ chunk = SubSeq(wire[c], 1, k)
         /\ wire' = [wire EXCEPT ![c] = SubSeq(@, k + 1, Len(@))]
         /\ remaining' = [remaining EXCEPT ![c] = @ - k]
         /\ \/ buf' = [buf EXCEPT ![c] = @ \o chunk] /\ data' = data
            \/ buf' = [buf EXCEPT ![c] = <<>>] /\ data' = Flushed(c, buf[c] \o chunk)
  BY RecvFacts, Zenon
<1>5. /\ wire'[c] = SubSeq(wire[c], k + 1, Len(wire[c]))
      /\ remaining'[c] = remaining[c] - k
  BY <1>4, Zenon DEF Streams
<1>6. k \in 0..Len(wire[c])
  BY <1>3
<1>7. Len(wire'[c]) = Len(wire[c]) - k
  BY <1>3, <1>5, <1>6, Divided, Zenon
<1>8. (data'[fd[c]] \o buf'[c]) \o wire'[c] = (data[fd[c]] \o buf[c]) \o wire[c]
  <2>1. /\ (data[fd[c]] \o (buf[c] \o chunk)) \o wire'[c] = (data[fd[c]] \o buf[c]) \o wire[c]
        /\ ((data[fd[c]] \o (buf[c] \o chunk)) \o <<>>) \o wire'[c]
              = (data[fd[c]] \o buf[c]) \o wire[c]
    <3>. DEFINE d == data[fd[c]]
                left == wire'[c]
    <3>1. chunk \in Seq(Byte) /\ left \in Seq(Byte) /\ Cat(chunk, left) = wire[c]
      <4>1. wire[c] \in Seq(Byte)
        BY <1>3, Zenon
      <4>2. /\ SubSeq(wire[c], 1, k) \in Seq(Byte)
            /\ SubSeq(wire[c], k + 1, Len(wire[c])) \in Seq(Byte)
            /\ SubSeq(wire[c], 1, k) \o SubSeq(wire[c], k + 1, Len(wire[c])) = wire[c]
        BY <1>6, <4>1, Divided, Zenon
      <4>3. chunk = SubSeq(wire[c], 1, k) /\ left = SubSeq(wire[c], k + 1, Len(wire[c]))
        BY <1>4, <1>5, Zenon
      <4>. QED  BY <4>2, <4>3, Zenon DEF Cat
    <3>2. d \in Seq(Byte) /\ buf[c] \in Seq(Byte) /\ wire[c] \in Seq(Byte)
      BY <1>3, Zenon
    <3>. HIDE DEF d, left
    <3>3. /\ Cat(Cat(d, Cat(buf[c], chunk)), left) = Cat(Cat(d, buf[c]), wire[c])
          /\ Cat(Cat(Cat(d, Cat(buf[c], chunk)), <<>>), left) = Cat(Cat(d, buf[c]), wire[c])
      BY <3>1, <3>2, Moved, SMTT(20)
    <3>. QED  BY <3>3, Zenon DEF Cat, d, left
  <2>2. CASE buf' = [buf EXCEPT ![c] = @ \o chunk] /\ data' = data
    <3>1. buf'[c] = buf[c] \o chunk
      BY <2>2, Zenon DEF Streams
    <3>. QED  BY <2>1, <2>2, <3>1, Zenon
  <2>3. CASE buf' = [buf EXCEPT ![c] = <<>>] /\ data' = Flushed(c, buf[c] \o chunk)
    <3>1. buf'[c] = <<>>
      BY <2>3, Zenon DEF Streams
    <3>2. buf[c] \o chunk \in Seq(Byte)
      BY <1>3, Joins, Zenon
    <3>3. data'[fd[c]] = data[fd[c]] \o (buf[c] \o chunk)
      BY <1>1, <2>3, <3>2, FlushAppends, Zenon
    <3>. QED  BY <2>1, <3>1, <3>3, Zenon
  <2>. QED  BY <1>4, <2>2, <2>3, Zenon
<1>9. /\ dir[Partial(c)] = fd[c] /\ (data[fd[c]] \o buf[c]) \o wire[c] = Source(c)
      /\ remaining[c] = Len(wire[c]) /\ Source(c) \in Content
      /\ meta[c].size = Len(Source(c)) /\ meta[c].digest = Sha(Source(c))
  BY <1>1, Zenon DEF Serves, Told
<1>10. /\ (data'[fd[c]] \o buf'[c]) \o wire'[c] = Source(c)
       /\ remaining'[c] = Len(wire'[c])
  BY <1>5, <1>7, <1>8, <1>9, Zenon
<1>. QED  BY <1>1, <1>2, <1>9, <1>10, Zenon DEF Serves, Told, Serving

LEMMA ServesOwn ==
    ASSUME weather = "mild", DistinctTokens, Typed, OneInv, PrefixInv,
           NEW c \in Client, Filled(c), Step(c)
    PROVE  Serves(c)'
<1>1. Serves(c) /\ PartialIsPrefix
  BY Zenon DEF PrefixInv
<1>2. CASE Exit(c)
  BY <1>2, ServesExit, Zenon
<1>3. CASE (Begins(c) \/ ServeStat(c) \/ ServeHash(c)) /\ ~Exit(c)
  BY <1>1, <1>3, ServesAsked, Zenon
<1>4. CASE (ServeOpen(c) \/ Drop(c)) /\ ~Exit(c)
  BY <1>1, <1>4, ServesSent, Zenon
<1>5. CASE Create(c)
  BY <1>1, <1>5, ServesCreated, Zenon
<1>6. CASE Recv(c)
  BY <1>1, <1>6, ServesReceived, Zenon
<1>7. CASE (Close(c) \/ Verify(c)) /\ ~Exit(c)
  <2>1. /\ pc[c] \in Told /\ pc'[c] \in {"verify", "rename"} /\ UNCHANGED <<store, job, meta>>
        /\ buf'[c] = <<>>
    BY <1>1, <1>7, ZenonT(30) DEF Close, Verify, Goto, reqvars, iovars, Typed, Control, Shape, Streams,
                      Serves, Told
  <2>2. Source(c)' = Source(c)
    BY <2>1, Zenon DEF Source
  <2>. QED  BY <1>1, <2>1, <2>2, Zenon DEF Serves, Told, Serving
<1>8. ~Exit(c) => ~Rename(c) /\ ~Lost(c) /\ ~Kill(c) /\ ~CreateFails(c)
  BY Zenon DEF Rename, Lost, Kill, CreateFails
<1>. QED  BY <1>2, <1>3, <1>4, <1>5, <1>6, <1>7, <1>8, Zenon DEF Step, Attempt, Begins

\* What a client writes is the beginning of the file it asked for.
LEMMA WrittenPrefix ==
    ASSUME weather = "mild", Typed, NEW c \in Client, Filled(c), Serves(c), pc[c] = "body",
           Recv(c) \/ Close(c) \/ Lost(c)
    PROVE  /\ fd[c] \in Inode /\ Source(c) \in Content
           /\ dir' = dir /\ \A i \in Inode \ {fd[c]} : data'[i] = data[i]
           /\ IsPrefixOf(data'[fd[c]], Source(c))
<1>. USE DEF Typed
<1>1. /\ wire[c] \in Seq(Byte) /\ buf[c] \in Seq(Byte)
      /\ fd[c] \in Inode /\ data[fd[c]] \in Seq(Byte)
  BY DEF Streams, Control, Knows, Shape
<1>2. /\ Source(c) \in Content /\ (data[fd[c]] \o buf[c]) \o wire[c] = Source(c)
  BY Zenon DEF Serves, Told
<1>3. dir' = dir
  BY Zenon DEF Recv, Close, Lost
<1>4. CASE Recv(c)
  <2>1. Serves(c)'
    BY <1>4, ServesReceived, Zenon
  <2>2. pc'[c] = "body" /\ fd' = fd /\ Source(c)' = Source(c)
    BY <1>4, Zenon DEF Recv, reqvars, Source
  <2>3. (data'[fd[c]] \o buf'[c]) \o wire'[c] = Source(c)
    BY <2>1, <2>2, Zenon DEF Serves
  <2>4. Streams'
    BY <1>4, StreamsStep, Zenon DEF Step, Attempt, Begins
  <2>5. data'[fd[c]] \in Seq(Byte) /\ buf'[c] \in Seq(Byte) /\ wire'[c] \in Seq(Byte)
    BY <1>1, <2>4, Zenon DEF Streams
  <2>6. /\ buf'[c] \o wire'[c] \in Seq(Byte)
        /\ data'[fd[c]] \o (buf'[c] \o wire'[c]) = Source(c)
    <3>1. \A d, b, w \in Seq(Byte) : Cat(Cat(d, b), w) = Cat(d, Cat(b, w))
      BY CatFacts, Zenon
    <3>. QED  BY <2>3, <2>5, <3>1, Joins, Zenon DEF Cat
  <2>7. IsPrefixOf(data'[fd[c]], Source(c))
    BY <2>5, <2>6, PrefixOfJoin, Zenon
  <2>8. \A i \in Inode \ {fd[c]} : data'[i] = data[i]
    BY <1>1, <1>4, Zenon DEF Recv, Flushed, Streams
  <2>. QED  BY <1>1, <1>2, <1>3, <2>7, <2>8, Zenon
<1>5. CASE Close(c) \/ Lost(c)
  <2>1. data' = Flushed(c, buf[c])
    BY <1>5, Zenon DEF Close, Lost
  <2>2. data'[fd[c]] = data[fd[c]] \o buf[c] /\ \A i \in Inode \ {fd[c]} : data'[i] = data[i]
    BY <1>1, <2>1, FlushAppends, Zenon
  <2>3. data[fd[c]] \o buf[c] \in Seq(Byte)
    BY <1>1, Joins, Zenon
  <2>4. IsPrefixOf(data[fd[c]] \o buf[c], (data[fd[c]] \o buf[c]) \o wire[c])
    BY <1>1, <2>3, PrefixOfJoin, Zenon
  <2>. QED  BY <1>1, <1>2, <1>3, <2>2, <2>4, Zenon
<1>. QED  BY <1>4, <1>5, Zenon

LEMMA PrefixStep ==
    ASSUME weather = "mild", DistinctTokens, PlainNames, Typed, LinkInv, OwnInv, OneInv,
           PrefixInv, NEW c \in Client, Filled(c), Step(c)
    PROVE  PartialIsPrefix'
<1>. USE DEF Typed
<1>. SUFFICES ASSUME NEW p \in PartialPath, dir'[p] # None
              PROVE  \E x \in Content : /\ TokenOf[Sha(x)] = partial_token(p)
                                        /\ IsPrefixOf(data'[dir'[p]], x)
  BY Zenon DEF PartialIsPrefix, Exists
<1>1. Serves(c) /\ p \in Path
  BY Zenon DEF PrefixInv, Path
<1>2. CASE dir'[p] = dir[p] /\ data'[dir[p]] = data[dir[p]]
  BY <1>2, Zenon DEF PrefixInv, PartialIsPrefix, Exists
<1>3. ASSUME pc[c] \in Told, p = Partial(c)
      PROVE  /\ TokenOf[Sha(Source(c))] = partial_token(p)
             /\ Source(c) \in Content
  <2>1. p = <<job[c].dest, TokenOf[meta[c].digest]>>
    BY <1>3, PartialFacts, Zenon
  <2>2. meta[c].digest = Sha(Source(c)) /\ Source(c) \in Content
    BY <1>1, <1>3, Zenon DEF Serves
  <2>3. partial_token(p) = TokenOf[meta[c].digest]
    BY <2>1, Zenon DEF partial_token
  <2>. QED  BY <2>2, <2>3, Zenon
<1>4. CASE pc[c] = "off" \/ p[1] # job[c].dest
  <2>1. dir'[p] = dir[p] /\ data'[dir[p]] = data[dir[p]]
    BY <1>4, Elsewhere, Zenon
  <2>. QED  BY <1>2, <2>1, Zenon
<1>5. CASE Create(c)
  <2>1. Serves(c)' /\ pc'[c] = "body" /\ pc[c] = "create"
    BY <1>1, <1>5, ServesCreated, Zenon DEF PrefixInv, Create, Goto, Control, Shape
  <2>2. Streams' /\ Control'
    BY StreamsStep, ControlStep, Zenon
  <2>3. CASE p = Partial(c)
    <3>1. /\ Source(c)' = Source(c) /\ Partial(c)' = p /\ dir'[p] = fd'[c]
          /\ (data'[fd'[c]] \o buf'[c]) \o wire'[c] = Source(c)
      BY <1>5, <2>1, <2>3, PartialKept, Zenon DEF Serves, Create, reqvars, Source
    <3>2. data'[fd'[c]] \in Seq(Byte) /\ buf'[c] \in Seq(Byte) /\ wire'[c] \in Seq(Byte)
      BY <1>1, <2>2, <3>1, Zenon DEF Streams, Control, Shape
    <3>3. buf'[c] = <<>> /\ data'[fd'[c]] \o <<>> = data'[fd'[c]]
      BY <1>1, <1>5, <2>1, <3>2, ConcatEmptySeq, Zenon DEF Serves, Create
    <3>4. data'[fd'[c]] \o wire'[c] = Source(c)
      BY <3>1, <3>3, Zenon
    <3>5. IsPrefixOf(data'[dir'[p]], Source(c))
      BY <3>1, <3>2, <3>4, PrefixOfJoin, Zenon
    <3>. QED  BY <1>3, <2>1, <2>3, <3>5, Zenon DEF Told
  <2>4. CASE p # Partial(c)
    <3>1. Partial(c) \in Path
      BY <1>5, CreatedAt, Zenon DEF Path
    <3>2. PICK i \in IF Exists(Partial(c)) THEN {dir[Partial(c)]} ELSE FreeInode :
             /\ dir' = [dir EXCEPT ![Partial(c)] = i]
             /\ data' = [data EXCEPT ![i] =
                    IF Exists(Partial(c)) /\ meta[c].start > 0 THEN @ ELSE <<>>]
      BY <1>5, Zenon DEF Create
    <3>3. dir'[p] = dir[p] /\ dir[p] \in Inode
      BY <1>1, <2>4, <3>2, Zenon DEF Control, Shape
    <3>4. i # dir[p]
      BY <1>1, <2>4, <3>1, <3>2, <3>3, Zenon DEF LinkInv, FreeInode, Unused, Exists
    <3>5. data'[dir[p]] = data[dir[p]]
      BY <3>2, <3>3, <3>4, Zenon DEF Streams
    <3>. QED  BY <1>2, <3>3, <3>5, Zenon
  <2>. QED  BY <2>3, <2>4, Zenon
<1>6. CASE (Recv(c) \/ Close(c) \/ Lost(c)) /\ pc[c] = "body"
  <2>1. /\ fd[c] \in Inode /\ Source(c) \in Content
        /\ dir' = dir /\ \A i \in Inode \ {fd[c]} : data'[i] = data[i]
        /\ IsPrefixOf(data'[fd[c]], Source(c))
    BY <1>1, <1>6, WrittenPrefix, Zenon
  <2>2. CASE dir[p] = fd[c]
    <3>1. p = Partial(c)
      BY <1>1, <2>1, <2>2, DownloadAssumption, Zenon DEF OwnInv
    <3>. QED  BY <1>3, <1>6, <2>1, <2>2, <3>1, Zenon DEF Told
  <2>3. CASE dir[p] # fd[c]
    <3>1. dir[p] \in Inode
      BY <1>1, <2>1, Zenon DEF Control, Shape
    <3>. QED  BY <1>2, <2>1, <2>3, <3>1, Zenon
  <2>. QED  BY <2>2, <2>3, Zenon
<1>7. CASE data' = data /\ dir'[p] = dir[p]
  BY <1>2, <1>7, Zenon
<1>8. CASE Begins(c) \/ ServeStat(c) \/ ServeHash(c) \/ ServeOpen(c) \/ Kill(c) \/ CreateFails(c)
           \/ (Lost(c) /\ pc[c] # "body")
  BY <1>7, <1>8, Zenon DEF Begins, Begin, ServeStat, ServeHash, ServeOpen, Kill, CreateFails, Lost, fsvars
<1>9. CASE Drop(c) \/ Verify(c)
  <2>1. data' = data
    BY <1>9, Zenon DEF Drop, Verify
  <2>2. dir'[p] = dir[p]
    BY <1>1, <1>9, Zenon DEF Drop, Verify, Control, Shape
  <2>. QED  BY <1>7, <2>1, <2>2, Zenon
<1>10. CASE Rename(c)
  <2>1. p # job[c].dest
    BY <1>10, PartialFacts, DestsApart, Zenon DEF Rename, Told
  <2>2. data' = data /\ dir'[p] = dir[p]
    BY <1>1, <1>10, <2>1, Zenon DEF Rename, Control, Shape
  <2>. QED  BY <1>7, <2>2, Zenon
<1>11. Recv(c) \/ Close(c) => pc[c] = "body"
  BY Zenon DEF Recv, Close
<1>. QED  BY <1>5, <1>6, <1>8, <1>9, <1>10, <1>11, Zenon DEF Step, Attempt, Begins

\* Whatever sequence of losses and kills, of either client, a partial is left by, it
\* is the beginning of the file its token names, so that the server's answer to the
\* next request is the rest of it, as long as the weather is mild.  The names do not
\* extend one another, a partial that is to be removed is removed, and no two files
\* share the eight bytes of their hash that name a partial.
THEOREM PartialsArePrefixes ==
    ASSUME Exclusive, ~RemoveFaults, Extends = {}, PlainNames, DistinctTokens
    PROVE  Spec => []PartialIsPrefix
<1>. DEFINE Inv == Typed /\ IInv /\ OneInv /\ FillInv /\ PrefixInv
<1>1. Init => Inv
  BY TypedInit, InitHolds, OneInit, FillInit, PrefixInit, Zenon
<1>2. Inv /\ [Next]_vars => Inv'
  <2>. SUFFICES ASSUME Inv, [Next]_vars PROVE Inv'
    BY Zenon
  <2>1. Typed' /\ IInv' /\ OneInv' /\ FillInv'
    BY TypedStep, IInvStep, OneStep, FillStep, Zenon DEF IInv
  <2>2. CASE weather' # "mild"
    BY <2>1, <2>2, Zenon DEF PrefixInv, PartialIsPrefix
  <2>3. ASSUME weather' = "mild", NEW c \in Client, Step(c) PROVE PrefixInv'
    <3>1. weather = "mild" /\ Apart /\ LinkInv /\ OwnInv /\ Filled(c)
      BY <2>3, WeatherStep, Zenon DEF IInv, Heap, FillInv
    <3>2. PartialIsPrefix' /\ Serves(c)'
      BY <2>3, <3>1, PrefixStep, ServesOwn, Zenon
    <3>3. \A t \in Client \ {c} : Serves(t)'
      BY <2>3, <3>1, ServesOthers, Zenon
    <3>. QED  BY <3>2, <3>3, Zenon DEF PrefixInv
  <2>4. CASE UNCHANGED vars
    <3>1. UNCHANGED <<store, dir, data, pc, job, existing, offset, meta, wire, fd,
                      remaining, buf, weather>>
      BY <2>4, Zenon DEF vars
    <3>2. \A c \in Client : Partial(c)' = Partial(c) /\ Source(c)' = Source(c)
      BY <3>1, PartialKept, Zenon DEF Source
    <3>3. PartialIsPrefix'
      BY <3>1, Zenon DEF PrefixInv, PartialIsPrefix, Exists
    <3>4. ASSUME weather = "mild", NEW c \in Client PROVE Serves(c)'
      <4>1. Serves(c) /\ Partial(c)' = Partial(c) /\ Source(c)' = Source(c)
        BY <3>2, <3>4, Zenon DEF PrefixInv
      <4>. QED  BY <3>1, <4>1, Zenon DEF Serves, Exists
    <3>. QED  BY <2>1, <3>1, <3>3, <3>4, Zenon DEF PrefixInv
  <2>5. (\E r \in Remote : Replace(r)) \/ CalmDown => weather' # "mild"
    BY Zenon DEF Replace, CalmDown
  <2>. QED  BY <2>1, <2>2, <2>3, <2>4, <2>5, Zenon DEF Next, Step
<1>3. Inv => PartialIsPrefix
  BY Zenon DEF PrefixInv
<1>. QED  BY <1>1, <1>2, <1>3, PTL DEF Spec

=============================================================================

--------------------------- MODULE DownloadProofs ---------------------------
(***************************************************************************)
(* Proofs about Download, for any number of clients, names, contents and   *)
(* sizes, whatever is lost, killed, replaced, damaged or misread, and      *)
(* whatever partials the Python client's glob finds.  The two conditions   *)
(* are that attempts at one local name never overlap and that no local     *)
(* name is spelled like a partial.  The types need neither.                *)
(***************************************************************************)
EXTENDS Download, SequenceTheorems, TLAPS

\* No local name is the name of some download's partial file.
PlainNames == Dest \cap PartialPath = {}

-----------------------------------------------------------------------------
(* The inductive invariant.                                                *)

\* The client knows the hash the server stated.
Told == {"open", "drop", "create", "body", "verify", "rename"}

Shape ==
    /\ store \in [Remote -> Content \cup {None}]
    /\ dir \in [Path -> Inode \cup {None}]
    /\ data = [i \in Inode |-> data[i]]
    /\ pc \in [Client -> PC]
    /\ job = [c \in Client |-> job[c]]
    /\ existing \in [Client -> PartialPath \cup {None}]
    /\ offset = [c \in Client |-> offset[c]]
    /\ meta = [c \in Client |-> meta[c]]
    /\ fd \in [Client -> Inode \cup {None}]
    /\ claimed = [d \in Dest |-> claimed[d]]

\* What an attempt knows of its request and of the server's answer, and when it
\* has a file open.
Knows(c) ==
    /\ pc[c] = "off" => job[c] = None
    /\ pc[c] # "off" => job[c] \in [remote : Remote, dest : Dest]
    /\ pc[c] \in Told \cup {"hash"} =>
          meta[c] = [size |-> meta[c].size, start |-> meta[c].start,
                     digest |-> meta[c].digest]
    /\ pc[c] \in Told => meta[c].digest \in Digest
    /\ pc[c] = "drop" => existing[c] # None
    /\ pc[c] = "body" <=> fd[c] # None

Control == Shape /\ \A c \in Client : Knows(c)

\* Attempts under way are at different local names.
Apart ==
    \A c, t \in Client : pc[c] # "off" /\ pc[t] # "off" /\ job[c].dest = job[t].dest => c = t

\* No file has two names.
LinkInv == \A p, q \in Path : dir[p] # None /\ dir[p] = dir[q] => p = q

\* The file a client writes to has no name but its partial's, and may have lost
\* that one: another attempt may have found and dropped it.
OwnInv ==
    \A c \in Client, p \in Path : fd[c] # None /\ dir[p] = fd[c] => p = Partial(c)

\* From verification to renaming the partial is the verified file.
VerifiedInv ==
    \A c \in Client : pc[c] = "rename" /\ Exists(Partial(c)) =>
        Sha(data[dir[Partial(c)]]) = meta[c].digest

Heap == LinkInv /\ OwnInv /\ VerifiedInv /\ DestVerified

IInv == Control /\ Apart /\ Heap

-----------------------------------------------------------------------------

LEMMA PartialFacts ==
    ASSUME Control, NEW c \in Client, pc[c] \in Told
    PROVE  /\ Partial(c) \in PartialPath
           /\ Partial(c) \in Path
           /\ Partial(c) = <<job[c].dest, TokenOf[meta[c].digest]>>
           /\ job[c].dest \in Dest
<1>1. job[c].dest \in Dest
  BY Zenon DEF Control, Knows, Told
<1>2. meta[c].digest \in Digest
  BY Zenon DEF Control, Knows
<1>3. TokenOf[meta[c].digest] \in Token
  BY <1>2, DownloadAssumption, Zenon
<1>. QED  BY <1>1, <1>3, Zenon DEF Partial, partial_name, PartialPath, Path

LEMMA FindFacts ==
    ASSUME NEW c \in Client, NEW d \in Dest
    PROVE  find_partial(c, d) \in PartialPath \cup {None}
<1>. DEFINE matches == Matches(c, d)
<1>1. matches \subseteq PartialPath
  BY Zenon DEF Matches
<1>. HIDE DEF matches
<1>2. CASE \E p \in matches : matches = {p}
  <2>1. (CHOOSE p \in matches : TRUE) \in matches
    BY <1>2, Zenon
  <2>. QED  BY <1>1, <1>2, <2>1, Zenon DEF find_partial, matches
<1>3. CASE ~ \E p \in matches : matches = {p}
  BY <1>3, Zenon DEF find_partial, matches
<1>. QED  BY <1>2, <1>3, Zenon

LEMMA InitHolds == Init => IInv
<1>. SUFFICES ASSUME Init PROVE IInv
  BY Zenon
<1>1. Shape
  BY Zenon DEF Init, Shape, PC, Serving
<1>2. \A c \in Client : pc[c] = "off" /\ job[c] = None /\ fd[c] = None
  BY Zenon DEF Init
<1>3. Control
  BY <1>1, <1>2, Zenon DEF Control, Knows, Told
<1>4. \A p \in Path : dir[p] = None
  BY Zenon DEF Init
<1>5. Apart
  BY <1>2, Zenon DEF Apart
<1>6. LinkInv /\ OwnInv
  BY <1>2, <1>4, Zenon DEF LinkInv, OwnInv
<1>7. VerifiedInv
  BY <1>2, Zenon DEF VerifiedInv
<1>8. DestVerified
  BY <1>4, Zenon DEF DestVerified, Exists, Path
<1>. QED  BY <1>3, <1>5, <1>6, <1>7, <1>8, Zenon DEF IInv, Heap

-----------------------------------------------------------------------------
(* What one step of one attempt does.                                      *)

Step(c) == Attempt(c) \/ Kill(c)

Begins(c) == \E d \in Dest : Begin(c, d)

\* What an attempt starts from when there is something to fetch.
Begun(c, r, d) ==
    /\ ~Exists(d) /\ ~(Exclusive /\ Busy(d))
    /\ job' = [job EXCEPT ![c] = [remote |-> r, dest |-> d]]
    /\ existing' = [existing EXCEPT ![c] = find_partial(c, d)]
    /\ offset' = [offset EXCEPT ![c] =
          IF find_partial(c, d) = None THEN 0 ELSE Len(data[dir[find_partial(c, d)]])]
    /\ pc[c] = "off" /\ pc' = [pc EXCEPT ![c] = "stat"]
    /\ UNCHANGED <<store, dir, data, meta, wire, fd, remaining, buf, claimed>>

LEMMA BeginFacts ==
    ASSUME NEW c \in Client, Begins(c), ~Exit(c)
    PROVE  \E r \in Remote, d \in Dest : Begun(c, r, d)
  BY Zenon DEF Begins, Begin, Begun, Goto, fsvars, iovars

\* An attempt touches nothing of another one.
Frame(c) ==
    \A t \in Client \ {c} :
        pc'[t] = pc[t] /\ job'[t] = job[t] /\ meta'[t] = meta[t] /\ fd'[t] = fd[t]
        /\ existing'[t] = existing[t] /\ offset'[t] = offset[t]

LEMMA FrameStep ==
    ASSUME Shape, NEW c \in Client, Step(c)
    PROVE  Frame(c)
<1>. SUFFICES ASSUME NEW t \in Client, t # c
              PROVE  pc'[t] = pc[t] /\ job'[t] = job[t] /\ meta'[t] = meta[t]
                     /\ fd'[t] = fd[t] /\ existing'[t] = existing[t]
                     /\ offset'[t] = offset[t]
  BY Zenon DEF Frame
<1>1. CASE Begins(c) \/ ServeStat(c) \/ ServeHash(c) \/ ServeOpen(c)
  BY <1>1, Zenon DEF Begins, Begin, ServeStat, ServeHash, ServeOpen, Exit, Goto, reqvars, iovars, Shape
<1>2. CASE Drop(c) \/ Create(c) \/ Recv(c)
  BY <1>2, Zenon DEF Drop, Create, Recv, Exit, Goto, reqvars, iovars, Shape
<1>3. CASE Close(c) \/ Verify(c) \/ Rename(c)
  BY <1>3, Zenon DEF Close, Verify, Rename, Exit, Goto, reqvars, iovars, Shape
<1>4. CASE Lost(c) \/ Kill(c) \/ CreateFails(c)
  BY <1>4, Zenon DEF Lost, Kill, CreateFails, Exit, Goto, Shape
<1>. QED  BY <1>1, <1>2, <1>3, <1>4, Zenon DEF Step, Attempt, Begins

LEMMA ExitKnows ==
    ASSUME Shape, NEW c \in Client, Exit(c)
    PROVE  Knows(c)' /\ pc'[c] = "off"
BY Zenon DEF Shape, Exit, Goto, Knows, Told

\* The parts of Shape that only Exit changes, or leaves alone.
LEMMA ExitShape ==
    ASSUME Shape, NEW c \in Client, Exit(c)
    PROVE  /\ pc' \in [Client -> PC]
           /\ job' = [t \in Client |-> job'[t]]
           /\ existing' \in [Client -> PartialPath \cup {None}]
           /\ offset' = [t \in Client |-> offset'[t]]
           /\ meta' = [t \in Client |-> meta'[t]]
           /\ fd' \in [Client -> Inode \cup {None}]
BY Zenon DEF Shape, Exit, Goto, PC

LEMMA ShapeStep ==
    ASSUME Control, NEW c \in Client, Step(c)
    PROVE  Shape'
<1>. USE DEF Control
<1>1. CASE Begins(c)
  <2>1. UNCHANGED <<store, fsvars, claimed>>
    BY <1>1, Zenon DEF Begins, Begin
  <2>2. CASE Exit(c)
    BY <2>1, <2>2, ExitShape, Zenon DEF Shape, fsvars
  <2>3. CASE ~Exit(c)
    <3>1. PICK r \in Remote, d \in Dest : Begun(c, r, d)
      BY <1>1, <2>3, BeginFacts, Zenon
    <3>2. existing' \in [Client -> PartialPath \cup {None}]
      BY <3>1, FindFacts, Zenon DEF Begun, Shape
    <3>. QED  BY <2>1, <3>1, <3>2, Zenon DEF Begun, Shape, fsvars, PC, Serving
  <2>. QED  BY <2>2, <2>3, Zenon
<1>2. CASE ServeStat(c) \/ ServeHash(c)
  <2>1. UNCHANGED <<store, fsvars, claimed>>
    BY <1>2, Zenon DEF ServeStat, ServeHash
  <2>2. CASE Exit(c)
    BY <2>1, <2>2, ExitShape, Zenon DEF Shape, fsvars
  <2>3. CASE ~Exit(c)
    BY <1>2, <2>1, <2>3 DEF ServeStat, ServeHash, Shape, fsvars, reqvars, iovars, Goto, PC, Serving
  <2>. QED  BY <2>2, <2>3, Zenon
<1>3. CASE ServeOpen(c)
  BY <1>3, Zenon DEF ServeOpen, Shape, fsvars, reqvars, Goto, PC
<1>4. CASE Drop(c)
  <2>1. UNCHANGED <<store, data, claimed>> /\ dir' \in [Path -> Inode \cup {None}]
    BY <1>4, Zenon DEF Drop, Shape
  <2>2. CASE Exit(c)
    BY <2>1, <2>2, ExitShape, Zenon DEF Shape
  <2>3. CASE ~Exit(c)
    BY <1>4, <2>1, <2>3, Zenon DEF Drop, Shape, reqvars, iovars, Goto, PC
  <2>. QED  BY <2>2, <2>3
<1>5. CASE Create(c)
  <2>1. Partial(c) \in Path
    BY <1>5, PartialFacts, Zenon DEF Create, Told
  <2>2. PICK i \in Inode :
           /\ dir' = [dir EXCEPT ![Partial(c)] = i]
           /\ data' = [data EXCEPT ![i] =
                  IF Exists(Partial(c)) /\ meta[c].start > 0 THEN @ ELSE <<>>]
           /\ fd' = [fd EXCEPT ![c] = i]
    <3>1. dir[Partial(c)] \in Inode \cup {None}
      BY <2>1, Zenon DEF Shape
    <3>2. (IF Exists(Partial(c)) THEN {dir[Partial(c)]} ELSE FreeInode) \subseteq Inode
      BY <3>1, Zenon DEF Exists, FreeInode, Unused
    <3>. QED  BY <1>5, <3>2, Zenon DEF Create
  <2>3. UNCHANGED <<store, reqvars, meta, claimed>> /\ Goto(c, "body")
    BY <1>5, Zenon DEF Create
  <2>4. dir' \in [Path -> Inode \cup {None}] /\ fd' \in [Client -> Inode \cup {None}]
    BY <2>2, Zenon DEF Shape
  <2>5. data' = [j \in Inode |-> data'[j]]
    BY <2>2, Zenon DEF Shape
  <2>. QED  BY <2>3, <2>4, <2>5, Zenon DEF Shape, reqvars, Goto, PC
<1>6. CASE Recv(c) \/ Close(c)
  <2>1. data' = [j \in Inode |-> data'[j]]
    BY <1>6, Zenon DEF Recv, Close, Flushed, Shape
  <2>2. UNCHANGED <<store, dir, reqvars, meta, claimed>>
    BY <1>6, Zenon DEF Recv, Close
  <2>3. pc' \in [Client -> PC] /\ fd' \in [Client -> Inode \cup {None}]
    BY <1>6, Zenon DEF Recv, Close, Shape, Goto, PC
  <2>. QED  BY <2>1, <2>2, <2>3, Zenon DEF Shape, reqvars
<1>7. CASE Verify(c)
  <2>1. UNCHANGED <<store, data, claimed>> /\ dir' \in [Path -> Inode \cup {None}]
    BY <1>7, Zenon DEF Verify, Shape
  <2>2. CASE Exit(c)
    BY <2>1, <2>2, ExitShape DEF Shape
  <2>3. CASE ~Exit(c)
    BY <1>7, <2>1, <2>3, Zenon DEF Verify, Shape, reqvars, iovars, Goto, PC
  <2>. QED  BY <2>2, <2>3
<1>8. CASE Rename(c)
  <2>1. Partial(c) \in Path /\ dir[Partial(c)] \in Inode \cup {None}
    BY <1>8, PartialFacts, Zenon DEF Rename, Told, Shape
  <2>2. UNCHANGED <<store, data>> /\ Exit(c)
    BY <1>8, Zenon DEF Rename
  <2>3. dir' \in [Path -> Inode \cup {None}] /\ claimed' = [d \in Dest |-> claimed'[d]]
    BY <1>8, <2>1, Zenon DEF Rename, Shape
  <2>. QED  BY <2>2, <2>3, ExitShape, Zenon DEF Shape
<1>9. CASE Lost(c) \/ Kill(c) \/ CreateFails(c)
  <2>1. data' = [j \in Inode |-> data'[j]] /\ Exit(c) /\ UNCHANGED <<store, dir, claimed>>
    BY <1>9, Zenon DEF Lost, Kill, CreateFails, Flushed, Shape, fsvars
  <2>. QED  BY <2>1, ExitShape, Zenon DEF Shape
<1>. QED  BY <1>1, <1>2, <1>3, <1>4, <1>5, <1>6, <1>7, <1>8, <1>9, Zenon DEF Step, Attempt, Begins

LEMMA KnowsStep ==
    ASSUME Control, NEW c \in Client, Step(c), Shape'
    PROVE  Knows(c)'
<1>1. CASE Exit(c)
  BY <1>1, ExitKnows, Zenon DEF Control
<1>2. CASE ~Exit(c)
  <2>. USE <1>2 DEF Control, Shape, Goto, Knows, Told
  <2>1. CASE Begins(c)
    <3>1. PICK r \in Remote, d \in Dest : Begun(c, r, d)
      BY <2>1, BeginFacts, Zenon
    <3>. QED  BY <3>1 DEF Begun
  <2>2. CASE ServeStat(c)
    BY <2>2 DEF ServeStat, reqvars, iovars
  <2>3. CASE ServeHash(c)
    <3>. DEFINE content == store[job[c].remote]
    <3>1. content \in Content /\ Sha(content) \in Digest
      BY <2>3 DEF ServeHash, Digest
    <3>2. meta'[c].digest = Sha(content)
          /\ meta'[c] = [size |-> meta'[c].size, start |-> meta'[c].start,
                         digest |-> meta'[c].digest]
      BY <2>3 DEF ServeHash
    <3>. QED  BY <2>3, <3>1, <3>2, Zenon DEF ServeHash, reqvars, iovars
  <2>4. CASE ServeOpen(c)
    BY <2>4, Zenon DEF ServeOpen, reqvars
  <2>5. CASE Drop(c)
    BY <2>5, Zenon DEF Drop, reqvars, iovars
  <2>6. CASE Create(c)
    <3>1. fd'[c] # None
      <4>1. Partial(c) \in Path
        BY <2>6, PartialFacts, Zenon DEF Create
      <4>2. (IF Exists(Partial(c)) THEN {dir[Partial(c)]} ELSE FreeInode) \subseteq Inode
        BY <4>1 DEF Exists, FreeInode, Unused
      <4>. QED  BY <2>6, <4>2, DownloadAssumption DEF Create
    <3>. QED  BY <2>6, <3>1, Zenon DEF Create, reqvars
  <2>7. CASE Recv(c)
    BY <2>7, Zenon DEF Recv, reqvars
  <2>8. CASE Close(c)
    BY <2>8, Zenon DEF Close, reqvars
  <2>9. CASE Verify(c)
    BY <2>9, Zenon DEF Verify, reqvars, iovars
  <2>10. ~Rename(c) /\ ~Lost(c) /\ ~Kill(c) /\ ~CreateFails(c)
    BY Zenon DEF Rename, Lost, Kill, CreateFails
  <2>. QED  BY <2>1, <2>2, <2>3, <2>4, <2>5, <2>6, <2>7, <2>8, <2>9, <2>10, Zenon DEF Step, Attempt, Begins
<1>. QED  BY <1>1, <1>2, Zenon

LEMMA ControlStep ==
    ASSUME Control, NEW c \in Client, Step(c)
    PROVE  Control'
<1>1. Shape'
  BY ShapeStep, Zenon
<1>2. Knows(c)'
  BY <1>1, KnowsStep, Zenon
<1>3. ASSUME NEW t \in Client, t # c PROVE Knows(t)'
  BY <1>3, FrameStep DEF Control, Frame, Knows
<1>. QED  BY <1>1, <1>2, <1>3, Zenon DEF Control

-----------------------------------------------------------------------------
(* Attempts stay apart.                                                    *)

\* Only Begin gives an attempt a local name, and not one that is in use.
LEMMA JobStep ==
    ASSUME Control, NEW c \in Client, Step(c)
    PROVE  \/ pc'[c] = "off"
           \/ pc[c] # "off" /\ job'[c] = job[c]
           \/ Exclusive => ~Busy(job'[c].dest)
<1>1. CASE Exit(c)
  BY <1>1, ExitKnows, Zenon DEF Control
<1>2. CASE Begins(c) /\ ~Exit(c)
  <2>1. PICK r \in Remote, d \in Dest : Begun(c, r, d)
    BY <1>2, BeginFacts, Zenon
  <2>. QED  BY <2>1 DEF Begun, Control, Shape
<1>3. CASE ~Begins(c) /\ ~Exit(c)
  BY <1>3, Zenon DEF Step, Attempt, Begins, ServeStat, ServeHash, ServeOpen, Drop, Create, Recv, Close,
              Verify, Rename, Lost, Kill, CreateFails, reqvars
<1>. QED  BY <1>1, <1>2, <1>3, Zenon

LEMMA ApartStep ==
    ASSUME Exclusive, Control, Apart, NEW c \in Client, Step(c)
    PROVE  Apart'
<1>1. ASSUME NEW t \in Client, t # c, pc'[c] # "off", pc'[t] # "off",
             job'[c].dest = job'[t].dest
      PROVE  FALSE
  <2>1. pc[t] # "off" /\ job'[t] = job[t]
    BY <1>1, FrameStep, Zenon DEF Control, Frame
  <2>2. job[t] # None
    BY <2>1, DownloadAssumption, Zenon DEF Control, Knows
  <2>3. Busy(job'[c].dest)
    BY <1>1, <2>1, <2>2, Zenon DEF Busy
  <2>4. pc[c] # "off" /\ job'[c] = job[c]
    BY <1>1, <2>3, JobStep, Zenon
  <2>. QED  BY <1>1, <2>1, <2>4, Zenon DEF Apart
<1>2. ASSUME NEW s \in Client, NEW t \in Client, pc'[s] # "off", pc'[t] # "off",
             job'[s].dest = job'[t].dest, s # t, s # c, t # c
      PROVE  FALSE
  BY <1>2, FrameStep DEF Control, Frame, Apart
<1>. QED  BY <1>1, <1>2, Zenon DEF Apart

\* Two attempts never have the same partial.
LEMMA PartialsDiffer ==
    ASSUME Control, Apart, NEW c \in Client, NEW t \in Client, c # t,
           pc[c] \in Told, pc[t] \in Told
    PROVE  Partial(c) # Partial(t)
<1>1. job[c].dest # job[t].dest
  BY Zenon DEF Apart, Told
<1>. QED  BY <1>1, PartialFacts

-----------------------------------------------------------------------------
(* What a step does to the local files.                                    *)

\* An attempt may end in the state in which it renames only with the hash checked.
Checked(c) ==
    pc'[c] = "rename" =>
        /\ pc[c] \in Told /\ job'[c] = job[c] /\ meta'[c] = meta[c]
        /\ Exists(Partial(c)) => Sha(data[dir[Partial(c)]]) = meta[c].digest

Quiet(c) ==
    /\ UNCHANGED <<dir, data, claimed>>
    /\ fd'[c] = None
    /\ Checked(c)

Unlinks(c) ==
    /\ \E p \in PartialPath : dir' = [dir EXCEPT ![p] = None]
    /\ UNCHANGED <<data, claimed>>
    /\ fd'[c] = None /\ pc'[c] # "rename"

Creates(c) ==
    /\ pc[c] \in Told /\ job'[c] = job[c] /\ meta'[c] = meta[c]
    /\ pc'[c] = "body"
    /\ \E i \in Inode :
          /\ dir[Partial(c)] = i \/ i \in FreeInode
          /\ dir' = [dir EXCEPT ![Partial(c)] = i]
          /\ \A j \in Inode \ {i} : data'[j] = data[j]
          /\ fd'[c] = i
    /\ UNCHANGED claimed

Writes(c) ==
    /\ fd[c] # None
    /\ \A j \in Inode \ {fd[c]} : data'[j] = data[j]
    /\ UNCHANGED <<dir, claimed>>
    /\ pc'[c] # "rename"
    /\ fd'[c] # None => fd'[c] = fd[c] /\ job'[c] = job[c] /\ meta'[c] = meta[c]

Renames(c) ==
    LET p == Partial(c)
        d == job[c].dest
    IN  /\ pc[c] = "rename" /\ Exists(p)
        /\ dir' = [dir EXCEPT ![d] = dir[p], ![p] = None]
        /\ claimed' = [claimed EXCEPT ![d] = meta[c].digest]
        /\ data' = data
        /\ fd'[c] = None /\ pc'[c] = "off"

LEMMA ExitFd ==
    ASSUME Shape, NEW c \in Client, Exit(c)
    PROVE  fd'[c] = None /\ pc'[c] = "off"
BY Zenon DEF Shape, Exit, Goto

LEMMA EffectStep ==
    ASSUME Control, NEW c \in Client, Step(c)
    PROVE  Quiet(c) \/ Unlinks(c) \/ Creates(c) \/ Writes(c) \/ Renames(c)
<1>. USE DEF Control
<1>1. CASE Begins(c) \/ ServeStat(c) \/ ServeHash(c) \/ ServeOpen(c) \/ Kill(c) \/ CreateFails(c)
  <2>1. UNCHANGED <<dir, data, claimed>>
    BY <1>1, Zenon DEF Begins, Begin, ServeStat, ServeHash, ServeOpen, Kill, CreateFails, fsvars
  <2>2. CASE Exit(c)
    BY <2>1, <2>2, ExitFd, Zenon DEF Quiet, Checked
  <2>3. CASE ~Exit(c)
    <3>1. pc[c] # "body" /\ pc'[c] # "rename" /\ fd' = fd
      BY <1>1, <2>3, Zenon DEF Begins, Begin, ServeStat, ServeHash, ServeOpen, Kill, CreateFails, iovars, Goto, Shape
    <3>. QED  BY <2>1, <3>1, Zenon DEF Quiet, Checked, Knows
  <2>. QED  BY <2>2, <2>3, Zenon
<1>2. CASE Drop(c)
  <2>1. existing[c] \in PartialPath
    BY <1>2, Zenon DEF Drop, Knows, Shape
  <2>2. CASE dir' = [dir EXCEPT ![existing[c]] = None] /\ Goto(c, "create") /\ UNCHANGED iovars
    BY <1>2, <2>1, <2>2, Zenon DEF Drop, Unlinks, Goto, Knows, Shape, iovars
  <2>3. CASE Exit(c) /\ dir' = dir
    BY <1>2, <2>3, ExitFd, Zenon DEF Drop, Quiet, Checked
  <2>4. CASE dir' = dir /\ Goto(c, "create") /\ UNCHANGED iovars
    BY <1>2, <2>4, Zenon DEF Drop, Quiet, Checked, Goto, Knows, Shape, iovars
  <2>. QED  BY <1>2, <2>2, <2>3, <2>4, Zenon DEF Drop
<1>3. CASE Create(c)
  <2>1. pc[c] \in Told /\ Partial(c) \in Path
    BY <1>3, PartialFacts, Zenon DEF Create, Told
  <2>2. dir[Partial(c)] \in Inode \cup {None}
    BY <2>1, Zenon DEF Shape
  <2>3. PICK i \in IF Exists(Partial(c)) THEN {dir[Partial(c)]} ELSE FreeInode :
           /\ dir' = [dir EXCEPT ![Partial(c)] = i]
           /\ data' = [data EXCEPT ![i] =
                  IF Exists(Partial(c)) /\ meta[c].start > 0 THEN @ ELSE <<>>]
           /\ fd' = [fd EXCEPT ![c] = i]
    BY <1>3, Zenon DEF Create
  <2>4. i \in Inode /\ (dir[Partial(c)] = i \/ i \in FreeInode)
    BY <2>2, <2>3, Zenon DEF Exists, FreeInode, Unused
  <2>5. fd'[c] = i
    BY <2>3, Zenon DEF Shape
  <2>6. \A j \in Inode \ {i} : data'[j] = data[j]
    BY <2>3, Zenon DEF Shape
  <2>7. pc'[c] = "body" /\ job' = job /\ meta' = meta /\ claimed' = claimed
    BY <1>3, Zenon DEF Create, Goto, reqvars, Shape
  <2>. QED  BY <2>1, <2>3, <2>4, <2>5, <2>6, <2>7, Zenon DEF Creates
<1>4. CASE Recv(c) \/ Close(c)
  <2>1. fd[c] # None /\ fd[c] \in Inode
    BY <1>4, Zenon DEF Recv, Close, Knows, Shape
  <2>2. \A j \in Inode \ {fd[c]} : data'[j] = data[j]
    BY <1>4, <2>1, Zenon DEF Recv, Close, Flushed, Shape
  <2>3. UNCHANGED <<dir, claimed, job, meta>>
    BY <1>4, Zenon DEF Recv, Close, reqvars
  <2>4. pc'[c] # "rename" /\ (fd'[c] # None => fd'[c] = fd[c])
    BY <1>4, Zenon DEF Recv, Close, Goto, Shape
  <2>. QED  BY <2>1, <2>2, <2>3, <2>4, Zenon DEF Writes
<1>5. CASE Verify(c)
  <2>1. fd[c] = None /\ pc[c] \in Told
    BY <1>5, Zenon DEF Verify, Knows, Told
  <2>2. CASE /\ Exists(Partial(c)) /\ Sha(data[dir[Partial(c)]]) = meta[c].digest
             /\ UNCHANGED <<dir, reqvars, meta, iovars>>
    BY <1>5, <2>1, <2>2, Zenon DEF Verify, Quiet, Checked, reqvars, iovars
  <2>3. CASE Exit(c) /\ dir' = [dir EXCEPT ![Partial(c)] = None]
    BY <1>5, <2>1, <2>3, PartialFacts, ExitFd, Zenon DEF Verify, Unlinks
  <2>. QED  BY <1>5, <2>2, <2>3, Zenon DEF Verify
<1>6. CASE Rename(c)
  BY <1>6, ExitFd, Zenon DEF Rename, Renames, Quiet, Checked
<1>7. CASE Lost(c)
  <2>1. Exit(c) /\ UNCHANGED <<dir, claimed>>
    BY <1>7, Zenon DEF Lost
  <2>2. CASE pc[c] = "body"
    <3>1. fd[c] # None /\ fd[c] \in Inode
      BY <2>2, Zenon DEF Knows, Shape
    <3>2. \A j \in Inode \ {fd[c]} : data'[j] = data[j]
      BY <1>7, <2>2, <3>1, Zenon DEF Lost, Flushed, Shape
    <3>. QED  BY <2>1, <3>1, <3>2, ExitFd, Zenon DEF Writes
  <2>3. CASE pc[c] # "body"
    BY <1>7, <2>1, <2>3, ExitFd, Zenon DEF Lost, Quiet, Checked
  <2>. QED  BY <2>2, <2>3, Zenon
<1>. QED  BY <1>1, <1>2, <1>3, <1>4, <1>5, <1>6, <1>7, Zenon DEF Step, Attempt, Begins

\* The partial of an attempt that is not touched keeps its name.
LEMMA PartialKept ==
    ASSUME NEW t \in Client, job'[t] = job[t], meta'[t] = meta[t]
    PROVE  Partial(t)' = Partial(t)
BY Zenon DEF Partial, partial_name

LEMMA DestsApart ==
    ASSUME PlainNames, NEW d \in Dest, NEW p \in PartialPath
    PROVE  d # p /\ d \in Path /\ p \in Path
BY Zenon DEF PlainNames, Path

-----------------------------------------------------------------------------
(* Each effect preserves the invariant of the files.                       *)

LEMMA QuietStep ==
    ASSUME Control, Heap, NEW c \in Client, Frame(c), Quiet(c)
    PROVE  Heap'
<1>. USE DEF Heap, Quiet
<1>1. LinkInv' /\ DestVerified'
  BY Zenon DEF LinkInv, DestVerified, Exists
<1>2. OwnInv'
  <2>. SUFFICES ASSUME NEW t \in Client, NEW p \in Path, fd'[t] # None, dir'[p] = fd'[t]
                PROVE  p = Partial(t)'
    BY Zenon DEF OwnInv
  <2>1. t # c /\ fd[t] = fd'[t] /\ dir[p] = fd[t]
    BY Zenon DEF Frame
  <2>2. Partial(t)' = Partial(t)
    BY <2>1, PartialKept, Zenon DEF Frame
  <2>. QED  BY <2>1, <2>2, Zenon DEF OwnInv
<1>3. VerifiedInv'
  <2>. SUFFICES ASSUME NEW t \in Client, pc'[t] = "rename", Exists(Partial(t))'
                PROVE  Sha(data'[dir'[Partial(t)']]) = meta'[t].digest
    BY Zenon DEF VerifiedInv
  <2>1. meta'[t] = meta[t] /\ Partial(t)' = Partial(t)
    BY PartialKept, Zenon DEF Frame, Checked
  <2>2. Exists(Partial(t))
    BY <2>1, Zenon DEF Exists
  <2>3. CASE t = c
    BY <2>1, <2>2, <2>3, Zenon DEF Checked
  <2>4. CASE t # c
    BY <2>1, <2>2, <2>4, Zenon DEF Frame, VerifiedInv
  <2>. QED  BY <2>3, <2>4, Zenon
<1>. QED  BY <1>1, <1>2, <1>3, Zenon

LEMMA UnlinksStep ==
    ASSUME PlainNames, Control, Heap, NEW c \in Client, Frame(c), Unlinks(c)
    PROVE  Heap'
<1>. USE DEF Heap, Unlinks
<1>1. PICK p \in PartialPath : dir' = [dir EXCEPT ![p] = None]
  BY Zenon
<1>2. \A q \in Path : dir'[q] # None => dir'[q] = dir[q] /\ dir[q] # None
  BY <1>1, Zenon DEF Control, Shape
<1>3. LinkInv'
  BY <1>2, Zenon DEF LinkInv
<1>4. DestVerified'
  <2>. SUFFICES ASSUME NEW d \in Dest, dir'[d] # None
                PROVE  Sha(data'[dir'[d]]) = claimed'[d]
    BY Zenon DEF DestVerified, Exists
  <2>. QED  BY <1>2, DestsApart, Zenon DEF DestVerified, Exists, Path
<1>5. OwnInv'
  <2>. SUFFICES ASSUME NEW t \in Client, NEW q \in Path, fd'[t] # None, dir'[q] = fd'[t]
                PROVE  q = Partial(t)'
    BY Zenon DEF OwnInv
  <2>1. t # c /\ fd[t] = fd'[t] /\ dir[q] = fd[t]
    BY <1>2, Zenon DEF Frame
  <2>2. Partial(t)' = Partial(t)
    BY <2>1, PartialKept, Zenon DEF Frame
  <2>. QED  BY <2>1, <2>2, Zenon DEF OwnInv
<1>6. VerifiedInv'
  <2>. SUFFICES ASSUME NEW t \in Client, pc'[t] = "rename", dir'[Partial(t)'] # None
                PROVE  Sha(data'[dir'[Partial(t)']]) = meta'[t].digest
    BY Zenon DEF VerifiedInv, Exists
  <2>1. t # c /\ pc[t] = "rename" /\ meta'[t] = meta[t] /\ Partial(t)' = Partial(t)
    BY PartialKept, Zenon DEF Frame
  <2>2. Partial(t) \in Path
    BY <2>1, PartialFacts, Zenon DEF Told
  <2>3. dir'[Partial(t)] = dir[Partial(t)] /\ Exists(Partial(t))
    BY <1>2, <2>1, <2>2, Zenon DEF Exists
  <2>. QED  BY <2>1, <2>3 DEF VerifiedInv
<1>. QED  BY <1>3, <1>4, <1>5, <1>6, Zenon

LEMMA CreatesStep ==
    ASSUME PlainNames, Control, Apart, Heap, NEW c \in Client, Frame(c), Creates(c)
    PROVE  Heap'
<1>. USE DEF Heap
<1>. DEFINE p == Partial(c)
<1>1. p \in PartialPath /\ p \in Path /\ pc[c] \in Told /\ p' = p
  BY PartialFacts, PartialKept, Zenon DEF Creates
<1>2. PICK i \in Inode :
         /\ dir[p] = i \/ i \in FreeInode
         /\ dir' = [dir EXCEPT ![p] = i]
         /\ \A j \in Inode \ {i} : data'[j] = data[j]
         /\ fd'[c] = i
  BY Zenon DEF Creates
<1>. HIDE DEF p
<1>3. /\ dir'[p] = i
      /\ \A q \in Path \ {p} : dir'[q] = dir[q] /\ dir[q] # i
  <2>1. dir'[p] = i /\ \A q \in Path \ {p} : dir'[q] = dir[q]
    BY <1>1, <1>2, Zenon DEF Control, Shape
  <2>2. i # None
    BY DownloadAssumption, Zenon
  <2>3. \A q \in Path \ {p} : dir[q] # i
    BY <1>1, <1>2, <2>2, Zenon DEF LinkInv, FreeInode, Unused
  <2>. QED  BY <2>1, <2>3, Zenon
<1>4. \A t \in Client \ {c} : fd[t] # i
  <2>. SUFFICES ASSUME NEW t \in Client, t # c, fd[t] = i, dir[p] = i PROVE FALSE
    BY <1>2, Zenon DEF FreeInode, Unused
  <2>1. fd[t] # None
    BY DownloadAssumption, Zenon
  <2>2. p = Partial(t) /\ pc[t] \in Told
    BY <1>1, <2>1, Zenon DEF OwnInv, Control, Knows, Told
  <2>. QED  BY <1>1, <2>2, PartialsDiffer, Zenon DEF p
<1>5. LinkInv'
  BY <1>3, Zenon DEF LinkInv
<1>6. DestVerified'
  <2>. SUFFICES ASSUME NEW d \in Dest, dir'[d] # None
                PROVE  Sha(data'[dir'[d]]) = claimed'[d]
    BY Zenon DEF DestVerified, Exists
  <2>1. dir'[d] = dir[d] /\ dir[d] # i /\ dir[d] \in Inode
    BY <1>1, <1>3, DestsApart DEF Control, Shape
  <2>2. data'[dir[d]] = data[dir[d]]
    BY <1>2, <2>1, Zenon
  <2>3. claimed' = claimed
    BY Zenon DEF Creates
  <2>4. Sha(data[dir[d]]) = claimed[d]
    BY <2>1, Zenon DEF DestVerified, Exists
  <2>. QED  BY <2>1, <2>2, <2>3, <2>4, Zenon
<1>7. OwnInv'
  <2>. SUFFICES ASSUME NEW t \in Client, NEW q \in Path, fd'[t] # None, dir'[q] = fd'[t]
                PROVE  q = Partial(t)'
    BY Zenon DEF OwnInv
  <2>1. CASE t = c
    BY <1>1, <1>2, <1>3, <2>1, Zenon DEF p
  <2>2. CASE t # c
    <3>1. fd'[t] = fd[t] /\ Partial(t)' = Partial(t) /\ fd[t] # i
      BY <1>4, <2>2, PartialKept, Zenon DEF Frame
    <3>2. dir[q] = fd[t]
      BY <1>3, <3>1, Zenon
    <3>. QED  BY <3>1, <3>2, Zenon DEF OwnInv
  <2>. QED  BY <2>1, <2>2, Zenon
<1>8. VerifiedInv'
  <2>. SUFFICES ASSUME NEW t \in Client, pc'[t] = "rename", dir'[Partial(t)'] # None
                PROVE  Sha(data'[dir'[Partial(t)']]) = meta'[t].digest
    BY Zenon DEF VerifiedInv, Exists
  <2>1. t # c
    BY Zenon DEF Creates
  <2>2. pc[t] = "rename" /\ meta'[t] = meta[t] /\ Partial(t)' = Partial(t)
    BY <2>1, PartialKept, Zenon DEF Frame
  <2>3. Partial(t) \in Path /\ Partial(t) # p
    BY <1>1, <2>1, <2>2, PartialFacts, PartialsDiffer, Zenon DEF Told, p
  <2>4. dir'[Partial(t)] = dir[Partial(t)] /\ dir[Partial(t)] # i
        /\ dir[Partial(t)] \in Inode
    BY <1>3, <2>2, <2>3 DEF Control, Shape
  <2>. QED  BY <1>2, <2>2, <2>4 DEF VerifiedInv, Exists
<1>. QED  BY <1>5, <1>6, <1>7, <1>8, Zenon

LEMMA WritesStep ==
    ASSUME PlainNames, Control, Apart, Heap, NEW c \in Client, Frame(c), Writes(c)
    PROVE  Heap'
<1>. USE DEF Heap
<1>1. pc[c] \in Told /\ Partial(c) \in PartialPath
  BY PartialFacts, Zenon DEF Writes, Control, Knows, Told
<1>2. \A q \in Path : q # Partial(c) /\ dir[q] # None =>
         data'[dir[q]] = data[dir[q]]
  BY Zenon DEF Writes, OwnInv, Control, Shape
<1>3. LinkInv'
  BY Zenon DEF Writes, LinkInv
<1>4. DestVerified'
  BY <1>1, <1>2, DestsApart, Zenon DEF Writes, DestVerified, Exists
<1>5. OwnInv'
  <2>. SUFFICES ASSUME NEW t \in Client, NEW q \in Path, fd'[t] # None, dir'[q] = fd'[t]
                PROVE  q = Partial(t)'
    BY Zenon DEF OwnInv
  <2>1. fd'[t] = fd[t] /\ Partial(t)' = Partial(t)
    BY PartialKept, Zenon DEF Frame, Writes
  <2>. QED  BY <2>1, Zenon DEF OwnInv, Writes
<1>6. VerifiedInv'
  <2>. SUFFICES ASSUME NEW t \in Client, pc'[t] = "rename", dir'[Partial(t)'] # None
                PROVE  Sha(data'[dir'[Partial(t)']]) = meta'[t].digest
    BY Zenon DEF VerifiedInv, Exists
  <2>1. t # c
    BY Zenon DEF Writes
  <2>2. pc[t] = "rename" /\ meta'[t] = meta[t] /\ Partial(t)' = Partial(t)
    BY <2>1, PartialKept, Zenon DEF Frame
  <2>3. Partial(t) \in Path /\ Partial(t) # Partial(c)
    BY <1>1, <2>1, <2>2, PartialFacts, PartialsDiffer, Zenon DEF Told
  <2>. QED  BY <1>2, <2>2, <2>3, Zenon DEF VerifiedInv, Exists, Writes
<1>. QED  BY <1>3, <1>4, <1>5, <1>6, Zenon

LEMMA RenamesStep ==
    ASSUME PlainNames, Control, Apart, Heap, NEW c \in Client, Frame(c), Renames(c)
    PROVE  Heap'
<1>. USE DEF Heap
<1>. DEFINE p == Partial(c)
            d == job[c].dest
<1>1. p \in PartialPath /\ p \in Path /\ pc[c] \in Told /\ d \in Dest
  BY PartialFacts, Zenon DEF Renames, Told
<1>2. d # p /\ d \in Path
  BY <1>1, DestsApart, Zenon
<1>3. /\ dir' = [dir EXCEPT ![d] = dir[p], ![p] = None]
      /\ claimed' = [claimed EXCEPT ![d] = meta[c].digest]
      /\ data' = data /\ dir[p] # None
  BY Zenon DEF Renames, Exists
<1>4. Sha(data[dir[p]]) = meta[c].digest
  BY Zenon DEF VerifiedInv, Renames
<1>. HIDE DEF p, d
<1>5. /\ dir'[d] = dir[p] /\ dir'[p] = None
      /\ \A q \in Path \ {p, d} : dir'[q] = dir[q]
  BY <1>1, <1>2, <1>3, Zenon DEF Control, Shape
<1>6. \A q \in Path \ {p} : dir[q] # dir[p]
  BY <1>1, <1>3, Zenon DEF LinkInv
<1>7. LinkInv'
  BY <1>5, <1>6 DEF LinkInv
<1>8. DestVerified'
  <2>. SUFFICES ASSUME NEW e \in Dest, dir'[e] # None
                PROVE  Sha(data'[dir'[e]]) = claimed'[e]
    BY Zenon DEF DestVerified, Exists
  <2>1. CASE e = d
    BY <1>1, <1>3, <1>4, <1>5, <2>1, Zenon DEF Control, Shape
  <2>2. CASE e # d
    <3>1. dir'[e] = dir[e]
      BY <1>1, <1>5, <2>2, DestsApart, Zenon
    <3>2. claimed'[e] = claimed[e]
      BY <1>3, <2>2, Zenon DEF Control, Shape
    <3>. QED  BY <1>3, <3>1, <3>2, Zenon DEF DestVerified, Exists
  <2>. QED  BY <2>1, <2>2, Zenon
<1>9. ASSUME NEW t \in Client, fd'[t] # None
      PROVE  t # c /\ fd'[t] = fd[t] /\ Partial(t)' = Partial(t) /\ fd[t] # dir[p]
  <2>1. t # c
    BY <1>9, Zenon DEF Renames
  <2>2. fd'[t] = fd[t] /\ Partial(t)' = Partial(t)
    BY <2>1, PartialKept, Zenon DEF Frame
  <2>3. pc[t] \in Told
    BY <1>9, <2>2, Zenon DEF Control, Knows, Told
  <2>4. Partial(t) # p
    BY <1>1, <2>1, <2>3, PartialsDiffer, Zenon DEF p
  <2>5. fd[t] # dir[p]
    BY <1>1, <1>9, <2>2, <2>4, Zenon DEF OwnInv
  <2>. QED  BY <2>1, <2>2, <2>5, Zenon
<1>10. OwnInv'
  <2>. SUFFICES ASSUME NEW t \in Client, NEW q \in Path, fd'[t] # None, dir'[q] = fd'[t]
                PROVE  q = Partial(t)'
    BY DEF OwnInv
  <2>1. dir[q] = fd[t]
    BY <1>5, <1>9, Zenon
  <2>. QED  BY <1>9, <2>1, Zenon DEF OwnInv
<1>11. VerifiedInv'
  <2>. SUFFICES ASSUME NEW t \in Client, pc'[t] = "rename", dir'[Partial(t)'] # None
                PROVE  Sha(data'[dir'[Partial(t)']]) = meta'[t].digest
    BY DEF VerifiedInv, Exists
  <2>1. t # c
    BY Zenon DEF Renames
  <2>2. pc[t] = "rename" /\ meta'[t] = meta[t] /\ Partial(t)' = Partial(t)
    BY <2>1, PartialKept DEF Frame
  <2>3. Partial(t) \in PartialPath /\ Partial(t) \in Path /\ Partial(t) # p
    BY <1>1, <2>1, <2>2, PartialFacts, PartialsDiffer, Zenon DEF Told, p
  <2>4. Partial(t) # d
    BY <1>1, <2>3, DestsApart, Zenon
  <2>5. dir'[Partial(t)] = dir[Partial(t)]
    BY <1>5, <2>3, <2>4, Zenon
  <2>. QED  BY <1>3, <2>2, <2>5, Zenon DEF VerifiedInv, Exists
<1>. QED  BY <1>7, <1>8, <1>10, <1>11

-----------------------------------------------------------------------------

LEMMA IInvStep ==
    ASSUME Exclusive, PlainNames, IInv, [Next]_vars
    PROVE  IInv'
<1>. USE DEF IInv
<1>1. ASSUME NEW c \in Client, Step(c) PROVE IInv'
  <2>1. Control' /\ Apart' /\ Frame(c)
    BY <1>1, ControlStep, ApartStep, FrameStep, Zenon DEF Control
  <2>2. Quiet(c) \/ Unlinks(c) \/ Creates(c) \/ Writes(c) \/ Renames(c)
    BY <1>1, EffectStep, Zenon
  <2>3. Heap'
    BY <2>1, <2>2, QuietStep, UnlinksStep, CreatesStep, WritesStep, RenamesStep, Zenon
  <2>. QED  BY <2>1, <2>3, Zenon
<1>2. CASE UNCHANGED <<dir, data, pc, job, existing, offset, meta, fd, claimed>>
           /\ store' \in [Remote -> Content \cup {None}]
  <2>1. Control' /\ Apart'
    BY <1>2, Zenon DEF Control, Shape, Knows, Apart
  <2>2. \A c \in Client : Partial(c)' = Partial(c)
    BY <1>2, PartialKept, Zenon
  <2>3. Heap'
    BY <1>2, <2>2, Zenon DEF Heap, LinkInv, OwnInv, VerifiedInv, DestVerified, Exists
  <2>. QED  BY <2>1, <2>3, Zenon
<1>3. CASE \E r \in Remote : Replace(r)
  BY <1>2, <1>3 DEF Replace, fsvars, reqvars, iovars, Control, Shape
<1>4. CASE CalmDown \/ UNCHANGED vars
  BY <1>2, <1>4, Zenon DEF CalmDown, vars, fsvars, reqvars, iovars, Control, Shape
<1>. QED  BY <1>1, <1>3, <1>4, Zenon DEF Next, Step

\* Nothing is presented as finished until its hash checks out, and nothing touches
\* it afterwards: what do_get and rtrv_do_get have renamed to a local name keeps
\* the hash it was verified against.
THEOREM DownloadsVerified ==
    ASSUME Exclusive, PlainNames
    PROVE  Spec => []DestVerified
<1>1. Init => IInv
  BY InitHolds, Zenon
<1>2. IInv /\ [Next]_vars => IInv'
  BY IInvStep, Zenon
<1>3. IInv => DestVerified
  BY Zenon DEF IInv, Heap
<1>. QED  BY <1>1, <1>2, <1>3, PTL DEF Spec

\* The file a client writes to has no name but its own partial's: another client
\* can neither present it as finished nor take it for the partial of another name.
THEOREM PartialsOwned ==
    ASSUME Exclusive, PlainNames
    PROVE  Spec => []OwnInv
<1>1. Init => IInv
  BY InitHolds
<1>2. IInv /\ [Next]_vars => IInv'
  BY IInvStep
<1>3. IInv => OwnInv
  BY Zenon DEF IInv, Heap
<1>. QED  BY <1>1, <1>2, <1>3, PTL DEF Spec

-----------------------------------------------------------------------------
(* The downloads implement the write-once local names of VerifiedFiles.    *)

\* What an attempt under way is to deliver is not there yet, and only what is
\* there has been reported.
Vacant ==
    /\ \A c \in Client : pc[c] # "off" => ~Exists(job[c].dest)
    /\ \A d \in Dest : ~Exists(d) => claimed[d] = None

\* Only renaming concerns a local name, and only the one the attempt is for.
LEMMA DestEntry ==
    ASSUME PlainNames, Control, NEW c \in Client,
           Quiet(c) \/ Unlinks(c) \/ Creates(c) \/ Writes(c) \/ Renames(c),
           NEW d \in Dest, Renames(c) => d # job[c].dest
    PROVE  dir'[d] = dir[d] /\ claimed'[d] = claimed[d]
<1>. USE DEF Control
<1>0. d \in Path
  BY Zenon DEF Path
<1>1. CASE Quiet(c) \/ Writes(c)
  BY <1>1, Zenon DEF Quiet, Writes
<1>2. CASE Unlinks(c)
  <2>1. PICK p \in PartialPath : dir' = [dir EXCEPT ![p] = None]
    BY <1>2, Zenon DEF Unlinks
  <2>2. d # p
    BY DestsApart, Zenon
  <2>. QED  BY <1>0, <1>2, <2>1, <2>2, Zenon DEF Unlinks, Shape
<1>3. CASE Creates(c)
  <2>1. PICK i \in Inode : dir' = [dir EXCEPT ![Partial(c)] = i]
    BY <1>3, Zenon DEF Creates
  <2>2. d # Partial(c)
    BY <1>3, PartialFacts, DestsApart, Zenon DEF Creates
  <2>. QED  BY <1>0, <1>3, <2>1, <2>2, Zenon DEF Creates, Shape
<1>4. CASE Renames(c)
  <2>1. d # Partial(c) /\ d # job[c].dest
    BY <1>4, PartialFacts, DestsApart, Zenon DEF Renames, Told
  <2>2. dir'[d] = dir[d]
    BY <1>0, <1>4, <2>1, Zenon DEF Renames, Shape
  <2>3. claimed'[d] = claimed[d]
    BY <1>4, <2>1, Zenon DEF Renames, Shape
  <2>. QED  BY <2>2, <2>3, Zenon
<1>. QED  BY <1>1, <1>2, <1>3, <1>4, Zenon

\* A file under a local name is never written to.
LEMMA DestContent ==
    ASSUME PlainNames, IInv, NEW c \in Client,
           Quiet(c) \/ Unlinks(c) \/ Creates(c) \/ Writes(c) \/ Renames(c),
           NEW d \in Dest, dir[d] # None
    PROVE  data'[dir[d]] = data[dir[d]]
<1>. USE DEF IInv, Control, Heap
<1>0. d \in Path /\ dir[d] \in Inode
  BY Zenon DEF Path, Shape
<1>1. CASE Quiet(c) \/ Unlinks(c) \/ Renames(c)
  BY <1>1, Zenon DEF Quiet, Unlinks, Renames
<1>2. CASE Creates(c)
  <2>1. PICK i \in Inode : /\ dir[Partial(c)] = i \/ i \in FreeInode
                           /\ \A j \in Inode \ {i} : data'[j] = data[j]
    BY <1>2, Zenon DEF Creates
  <2>2. Partial(c) \in Path /\ d # Partial(c)
    BY <1>2, PartialFacts, DestsApart, Zenon DEF Creates
  <2>3. dir[d] # i
    BY <1>0, <2>1, <2>2, Zenon DEF FreeInode, Unused, LinkInv
  <2>. QED  BY <1>0, <2>1, <2>3, Zenon
<1>3. CASE Writes(c)
  <2>1. pc[c] \in Told
    BY <1>3, Zenon DEF Writes, Knows, Told
  <2>2. d # Partial(c)
    BY <2>1, PartialFacts, DestsApart, Zenon
  <2>3. dir[d] # fd[c]
    BY <1>0, <1>3, <2>2, Zenon DEF Writes, OwnInv
  <2>. QED  BY <1>0, <1>3, <2>3, Zenon DEF Writes
<1>. QED  BY <1>1, <1>2, <1>3, Zenon

\* An attempt takes on only a local name that does not exist.
LEMMA BeginVacant ==
    ASSUME Control, NEW c \in Client, Step(c), pc'[c] # "off",
           ~(pc[c] # "off" /\ job'[c] = job[c])
    PROVE  dir[job'[c].dest] = None
<1>1. ~Exit(c)
  BY ExitKnows, Zenon DEF Control
<1>2. CASE Begins(c)
  <2>1. PICK r \in Remote, d \in Dest : Begun(c, r, d)
    BY <1>1, <1>2, BeginFacts, Zenon
  <2>2. job'[c] = [remote |-> r, dest |-> d] /\ dir[d] = None
    BY <2>1, Zenon DEF Begun, Exists, Control, Shape
  <2>. QED  BY <2>2
<1>3. CASE ~Begins(c)
  BY <1>1, <1>3, Zenon DEF Step, Attempt, Begins, ServeStat, ServeHash, ServeOpen, Drop, Create, Recv,
              Close, Verify, Rename, Lost, Kill, CreateFails, reqvars
<1>. QED  BY <1>2, <1>3, Zenon

LEMMA VacantStep ==
    ASSUME Exclusive, PlainNames, IInv, Vacant, NEW c \in Client, Step(c)
    PROVE  Vacant'
<1>. USE DEF IInv
<1>1. Quiet(c) \/ Unlinks(c) \/ Creates(c) \/ Writes(c) \/ Renames(c)
  BY EffectStep, Zenon
<1>2. Frame(c) /\ Control'
  BY FrameStep, ControlStep, Zenon DEF Control
<1>3. ASSUME NEW t \in Client, pc'[t] # "off" PROVE dir'[job'[t].dest] = None
  <2>1. job'[t].dest \in Dest
    BY <1>2, <1>3, Zenon DEF Control, Knows
  <2>2. dir[job'[t].dest] = None
    <3>1. CASE pc[t] # "off" /\ job'[t] = job[t]
      BY <3>1, Zenon DEF Vacant, Exists
    <3>2. CASE t # c
      BY <1>2, <1>3, <3>1, <3>2, Zenon DEF Frame
    <3>3. CASE t = c /\ ~(pc[t] # "off" /\ job'[t] = job[t])
      BY <1>3, <3>3, BeginVacant, Zenon DEF Exists
    <3>. QED  BY <3>1, <3>2, <3>3, Zenon
  <2>3. ASSUME Renames(c) PROVE job'[t].dest # job[c].dest
    <3>1. t # c /\ pc[c] # "off"
      BY <1>3, <2>3, Zenon DEF Renames
    <3>2. pc[t] # "off" /\ job'[t] = job[t]
      BY <1>2, <1>3, <3>1, Zenon DEF Frame
    <3>. QED  BY <3>1, <3>2, Zenon DEF Apart
  <2>. QED  BY <1>1, <2>1, <2>2, <2>3, DestEntry, Zenon
<1>4. ASSUME NEW d \in Dest, dir'[d] = None PROVE claimed'[d] = None
  <2>1. CASE Renames(c) /\ d = job[c].dest
    <3>1. dir'[d] = dir[Partial(c)] /\ dir[Partial(c)] # None
      <4>1. d # Partial(c) /\ d \in Path /\ Partial(c) \in Path
        BY <2>1, PartialFacts, DestsApart, Zenon DEF Renames, Told
      <4>. QED  BY <2>1, <4>1, Zenon DEF Renames, Exists, Control, Shape
    <3>. QED  BY <1>4, <3>1, Zenon
  <2>2. CASE ~(Renames(c) /\ d = job[c].dest)
    <3>1. dir'[d] = dir[d] /\ claimed'[d] = claimed[d]
      BY <1>1, <2>2, DestEntry, Zenon
    <3>. QED  BY <1>4, <3>1, Zenon DEF Vacant, Exists
  <2>. QED  BY <2>1, <2>2, Zenon
<1>. QED  BY <1>3, <1>4, Zenon DEF Vacant, Exists

\* The downloads of all clients implement VerifiedFiles: a rename is its Deliver,
\* and every other step leaves every finished file, and what was said of it, alone.
THEOREM FilesRefined ==
    ASSUME Exclusive, PlainNames
    PROVE  Spec => FilesSpec
<1>. DEFINE files == [d \in Dest |-> IF Exists(d) THEN data[dir[d]] ELSE None]
            FInv == IInv /\ Vacant
<1>1. Init => FInv /\ Files!Init
  <2>. SUFFICES ASSUME Init PROVE FInv /\ Files!Init
    BY Zenon
  <2>1. \A d \in Dest : dir[d] = None
    BY Zenon DEF Init, Path
  <2>2. files = [d \in Dest |-> None]
    BY <2>1, Zenon DEF Exists
  <2>3. Vacant
    BY Zenon DEF Init, Vacant
  <2>. QED  BY <2>2, <2>3, InitHolds, Zenon DEF Init, Files!Init
<1>2. FInv /\ [Next]_vars => FInv'
  <2>. SUFFICES ASSUME FInv, [Next]_vars PROVE FInv'
    BY Zenon
  <2>1. CASE \E c \in Client : Step(c)
    BY <2>1, IInvStep, VacantStep, Zenon
  <2>2. CASE UNCHANGED <<dir, pc, job, claimed>>
    BY <2>2, IInvStep, Zenon DEF Vacant, Exists
  <2>3. CASE (\E r \in Remote : Replace(r)) \/ CalmDown \/ UNCHANGED vars
    BY <2>2, <2>3, Zenon DEF Replace, CalmDown, vars, fsvars, reqvars
  <2>. QED  BY <2>1, <2>3, Zenon DEF Next, Step
<1>3. FInv /\ FInv' /\ [Next]_vars => [Files!Next]_<<files, claimed>>
  <2>. SUFFICES ASSUME FInv, FInv', [Next]_vars PROVE [Files!Next]_<<files, claimed>>
    BY Zenon
  <2>0. /\ claimed = [d \in Dest |-> claimed[d]] /\ claimed' = [d \in Dest |-> claimed'[d]]
        /\ files = [d \in Dest |-> files[d]] /\ files' = [d \in Dest |-> files'[d]]
    BY Zenon DEF IInv, Control, Shape
  <2>1. ASSUME NEW c \in Client, Step(c) PROVE [Files!Next]_<<files, claimed>>
    <3>1. Quiet(c) \/ Unlinks(c) \/ Creates(c) \/ Writes(c) \/ Renames(c)
      BY <2>1, EffectStep, Zenon DEF IInv
    <3>2. ASSUME NEW d \in Dest, Renames(c) => d # job[c].dest
          PROVE  files'[d] = files[d] /\ claimed'[d] = claimed[d]
      <4>1. dir'[d] = dir[d] /\ claimed'[d] = claimed[d]
        BY <3>1, <3>2, DestEntry, Zenon DEF IInv
      <4>2. dir[d] # None => data'[dir[d]] = data[dir[d]]
        BY <3>1, DestContent, Zenon
      <4>. QED  BY <4>1, <4>2, Zenon DEF Exists
    <3>3. CASE ~Renames(c)
      <4>1. files' = files /\ claimed' = claimed
        BY <2>0, <3>2, <3>3, Zenon
      <4>. QED  BY <4>1, Zenon
    <3>4. CASE Renames(c)
      <4>1. PICK d \in Dest : d = job[c].dest
        BY <3>4, PartialFacts, Zenon DEF Renames, Told, IInv
      <4>2. /\ pc[c] = "rename" /\ dir[Partial(c)] # None /\ data' = data
            /\ dir' = [dir EXCEPT ![d] = dir[Partial(c)], ![Partial(c)] = None]
            /\ claimed' = [claimed EXCEPT ![d] = meta[c].digest]
        BY <3>4, <4>1, Zenon DEF Renames, Exists
      <4>3. dir[d] = None /\ claimed[d] = None
        BY <4>1, <4>2, Zenon DEF Vacant, Exists
      <4>4. d # Partial(c) /\ d \in Path /\ Partial(c) \in Path
        BY <4>2, PartialFacts, DestsApart, Zenon DEF Told, IInv
      <4>5. dir'[d] = dir[Partial(c)]
        BY <4>2, <4>4, Zenon DEF IInv, Control, Shape
      <4>6. files[d] = None /\ files'[d] = data[dir[Partial(c)]]
        BY <4>2, <4>3, <4>5, Zenon DEF Exists
      <4>7. Sha(files'[d]) = meta[c].digest
        BY <4>2, <4>6, Zenon DEF IInv, Heap, VerifiedInv, Exists
      <4>8. meta[c].digest \in Digest
        BY <4>2, Zenon DEF IInv, Control, Knows, Told
      <4>9. files' = [files EXCEPT ![d] = files'[d]]
        <5>1. \A e \in Dest : e # d => files'[e] = files[e]
          BY <3>2, <4>1, Zenon
        <5>. HIDE DEF files
        <5>. QED  BY <2>0, <5>1, Zenon
      <4>10. Files!Deliver(d)
        BY <4>2, <4>3, <4>6, <4>7, <4>8, <4>9, Zenon DEF Files!Deliver
      <4>. QED  BY <4>10, Zenon DEF Files!Next
    <3>. QED  BY <3>3, <3>4, Zenon
  <2>2. CASE UNCHANGED <<dir, data, claimed>>
    BY <2>2, Zenon DEF Exists
  <2>3. CASE (\E r \in Remote : Replace(r)) \/ CalmDown \/ UNCHANGED vars
    BY <2>2, <2>3, Zenon DEF Replace, CalmDown, vars, fsvars
  <2>. QED  BY <2>1, <2>3, Zenon DEF Next, Step
<1>. QED  BY <1>1, <1>2, <1>3, PTL DEF Spec, FilesSpec, Files!Spec

-----------------------------------------------------------------------------
(* One partial per local name, when no local name extends another and what *)
(* is to be removed is removed.                                            *)

PartialsAt(d) == {p \in PartialPath : Exists(p) /\ p[1] = d}

\* Until it creates its partial, an attempt knows the partial at its local name; and
\* the server has it resume only the one whose name it will open.  To start from
\* nothing it has dropped what it found.
Offered(c) ==
    /\ pc[c] # "off" =>
          /\ offset[c] # 0 => existing[c] # None
          /\ existing[c] # None => existing[c][1] = job[c].dest
    /\ pc[c] \in Serving \cup {"drop"} => PartialsAt(job[c].dest) \subseteq {existing[c]}
    /\ pc[c] = "open" /\ meta[c].start # 0 => existing[c] = Partial(c)
    /\ pc[c] = "create" => PartialsAt(job[c].dest) \subseteq {Partial(c)}
    /\ pc[c] = "create" /\ meta[c].start = 0 => PartialsAt(job[c].dest) = {}

OneInv == AtMostOnePartial /\ \A c \in Client : Offered(c)

LEMMA OneInit == Init => OneInv
<1>. SUFFICES ASSUME Init PROVE OneInv
  OBVIOUS
<1>1. \A p \in Path : ~Exists(p)
  BY Zenon DEF Init, Exists
<1>2. \A c \in Client : pc[c] = "off"
  BY Zenon DEF Init
<1>3. AtMostOnePartial
  BY <1>1, Zenon DEF AtMostOnePartial, Path
<1>4. \A c \in Client : Offered(c)
  BY <1>2, Zenon DEF Offered, Serving
<1>. QED  BY <1>3, <1>4, Zenon DEF OneInv

\* The only new partial is the one an attempt creates at its local name.
LEMMA NewPartial ==
    ASSUME PlainNames, Control, NEW c \in Client, Step(c), NEW p \in PartialPath,
           Exists(p)', ~Exists(p)
    PROVE  Create(c) /\ p = Partial(c)
<1>. USE DEF Exists
<1>1. p \in Path
  BY Zenon DEF Path
<1>2. dir' # dir
  BY Zenon
<1>3. CASE Drop(c)
  BY <1>1, <1>3, Zenon DEF Drop, Control, Shape
<1>4. CASE Create(c)
  BY <1>1, <1>4, Zenon DEF Create, Control, Shape
<1>5. CASE Verify(c)
  BY <1>1, <1>5, Zenon DEF Verify, Control, Shape
<1>6. CASE Rename(c)
  <2>1. job[c].dest \in Dest
    BY <1>6, PartialFacts, Zenon DEF Rename, Told
  <2>2. p # job[c].dest
    BY <2>1, DestsApart, Zenon
  <2>. QED  BY <1>1, <1>2, <1>6, <2>2, Zenon DEF Rename, Control, Shape
<1>7. Drop(c) \/ Create(c) \/ Verify(c) \/ Rename(c)
  BY <1>2, Zenon DEF Step, Attempt, Begins, Begin, ServeStat, ServeHash, ServeOpen, Recv, Close, Lost,
              Kill, CreateFails, fsvars
<1>. QED  BY <1>3, <1>4, <1>5, <1>6, <1>7, Zenon

LEMMA CreatedAt ==
    ASSUME Control, NEW c \in Client, Create(c)
    PROVE  Partial(c) \in PartialPath /\ Partial(c)[1] = job[c].dest /\ pc[c] = "create"
BY PartialFacts DEF Create, Told

LEMMA AtMostOneStep ==
    ASSUME PlainNames, Control, OneInv, NEW c \in Client, Step(c)
    PROVE  AtMostOnePartial'
<1>. SUFFICES ASSUME NEW p \in PartialPath, NEW q \in PartialPath,
                     Exists(p)', Exists(q)', p[1] = q[1]
              PROVE  p = q
  BY Zenon DEF AtMostOnePartial
<1>1. CASE Exists(p) /\ Exists(q)
  BY <1>1, Zenon DEF OneInv, AtMostOnePartial
<1>2. ASSUME NEW a \in PartialPath, NEW b \in PartialPath, Exists(a)', Exists(b)',
             a[1] = b[1], ~Exists(a)
      PROVE  a = b
  <2>1. Create(c) /\ a = Partial(c)
    BY <1>2, NewPartial, Zenon
  <2>2. a[1] = job[c].dest /\ PartialsAt(job[c].dest) \subseteq {a}
    BY <2>1, CreatedAt, Zenon DEF OneInv, Offered
  <2>3. CASE Exists(b)
    BY <1>2, <2>2, <2>3, Zenon DEF PartialsAt
  <2>4. CASE ~Exists(b)
    BY <1>2, <2>1, <2>4, NewPartial, Zenon
  <2>. QED  BY <2>3, <2>4, Zenon
<1>. QED  BY <1>1, <1>2, Zenon

LEMMA OfferedOthers ==
    ASSUME PlainNames, Control, Apart, OneInv, NEW c \in Client, Step(c),
           NEW t \in Client, t # c
    PROVE  Offered(t)'
<1>1. /\ pc'[t] = pc[t] /\ job'[t] = job[t] /\ meta'[t] = meta[t]
      /\ existing'[t] = existing[t] /\ offset'[t] = offset[t]
  BY FrameStep, Zenon DEF Control, Frame
<1>2. Partial(t)' = Partial(t)
  BY <1>1, PartialKept, Zenon
<1>3. ASSUME pc[t] # "off"
      PROVE  PartialsAt(job[t].dest)' \subseteq PartialsAt(job[t].dest)
  <2>. SUFFICES ASSUME NEW p \in PartialPath, Exists(p)', p[1] = job[t].dest, ~Exists(p)
                PROVE  FALSE
    BY <1>1, Zenon DEF PartialsAt
  <2>1. p[1] = job[c].dest /\ pc[c] = "create"
    BY NewPartial, CreatedAt, Zenon
  <2>. QED  BY <1>3, <2>1, Zenon DEF Apart
<1>4. pc[t] \in Serving \cup {"drop", "create"} => pc[t] # "off"
  BY Zenon DEF Serving
<1>. QED  BY <1>1, <1>2, <1>3, <1>4, Zenon DEF OneInv, Offered

\* With no name extending another, find_partial finds the partial if there is one.
LEMMA FoundOne ==
    ASSUME Extends = {}, AtMostOnePartial, NEW c \in Client, NEW d \in Dest
    PROVE  LET found == find_partial(c, d)
           IN  PartialsAt(d) \subseteq {found} /\ (found # None => found[1] = d)
<1>1. Matches(c, d) = PartialsAt(d)
  BY Zenon DEF Matches, PartialsAt
<1>2. CASE PartialsAt(d) = {}
  BY <1>1, <1>2, Zenon DEF find_partial
<1>3. ASSUME NEW p \in PartialsAt(d)
      PROVE  find_partial(c, d) = p /\ PartialsAt(d) = {p}
  <2>1. PartialsAt(d) = {p}
    BY <1>3, Zenon DEF AtMostOnePartial, PartialsAt
  <2>2. (CHOOSE q \in {p} : TRUE) = p
    BY Zenon
  <2>3. \E q \in PartialsAt(d) : PartialsAt(d) = {q}
    BY <2>1, Zenon
  <2>. QED  BY <1>1, <2>1, <2>2, <2>3, Zenon DEF find_partial
<1>4. \A p \in PartialsAt(d) : p[1] = d
  BY Zenon DEF PartialsAt
<1>. QED  BY <1>2, <1>3, <1>4, Zenon

LEMMA OfferedOwn ==
    ASSUME ~RemoveFaults, Extends = {}, PlainNames, Control, OneInv,
           NEW c \in Client, Step(c)
    PROVE  Offered(c)'
<1>1. CASE Exit(c)
  <2>1. pc'[c] = "off"
    BY <1>1, ExitFd, Zenon DEF Control
  <2>. QED  BY <2>1, Zenon DEF Offered, Serving
<1>2. CASE Begins(c) /\ ~Exit(c)
  <2>0. PICK r \in Remote, d \in Dest : Begun(c, r, d)
    BY <1>2, BeginFacts, Zenon
  <2>1. /\ job'[c].dest = d
        /\ existing'[c] = find_partial(c, d)
        /\ offset'[c] # 0 => existing'[c] # None
        /\ pc'[c] = "stat"
    BY <2>0, Zenon DEF Begun, Control, Shape
  <2>2. PartialsAt(d)' = PartialsAt(d)
    BY <2>0, Zenon DEF Begun, PartialsAt, Exists
  <2>3. PartialsAt(d) \subseteq {existing'[c]} /\ (existing'[c] # None => existing'[c][1] = d)
    BY <2>1, FoundOne, Zenon DEF OneInv
  <2>. QED  BY <2>1, <2>2, <2>3, Zenon DEF Offered
<1>3. CASE (ServeStat(c) \/ ServeHash(c) \/ ServeOpen(c)) /\ ~Exit(c)
  <2>1. UNCHANGED <<job, existing, offset>> /\ pc[c] \in Serving
    BY <1>3, Zenon DEF ServeStat, ServeHash, ServeOpen, reqvars, Serving
  <2>2. PartialsAt(job[c].dest)' = PartialsAt(job[c].dest)
    BY <1>3, <2>1, Zenon DEF ServeStat, ServeHash, ServeOpen, PartialsAt, Exists, fsvars
  <2>3. PartialsAt(job[c].dest) \subseteq {existing[c]}
    BY <2>1, Zenon DEF OneInv, Offered
  <2>4. /\ offset[c] # 0 => existing[c] # None
        /\ existing[c] # None => existing[c][1] = job[c].dest
    BY <2>1, Zenon DEF OneInv, Offered, Serving
  <2>5. CASE ServeStat(c)
    <3>1. pc'[c] = "hash"
      BY <1>3, <2>5, Zenon DEF ServeStat, Goto, Control, Shape
    <3>. QED  BY <2>1, <2>2, <2>3, <2>4, <3>1, Zenon DEF Offered
  <2>6. CASE ServeHash(c)
    <3>. DEFINE digest == Sha(store[job[c].remote])
    <3>1. pc'[c] = "open"
      BY <1>3, <2>6, Zenon DEF ServeHash, Goto, Control, Shape
    <3>2. /\ meta'[c].digest = digest
          /\ meta'[c].start # 0 =>
                offset[c] # 0 /\ partial_token(existing[c]) = TokenOf[digest]
      <4>1. meta' = [meta EXCEPT
                 ![c].digest = digest,
                 ![c].start = IF offset[c] # 0 /\ partial_token(existing[c]) = TokenOf[digest]
                              THEN offset[c] ELSE 0]
        BY <1>3, <2>6, Zenon DEF ServeHash
      <4>2. meta[c] = [size |-> meta[c].size, start |-> meta[c].start,
                       digest |-> meta[c].digest]
        BY <2>6, Zenon DEF ServeHash, Control, Knows
      <4>. HIDE DEF digest
      <4>. QED  BY <4>1, <4>2, Zenon DEF Control, Shape
    <3>. HIDE DEF digest
    <3>3. ASSUME meta'[c].start # 0 PROVE existing[c] = Partial(c)'
      <4>1. existing[c] \in PartialPath
        BY <2>4, <3>2, <3>3, Zenon DEF Control, Shape
      <4>2. existing[c] = <<existing[c][1], existing[c][2]>>
        BY <4>1 DEF PartialPath
      <4>3. existing[c][1] = job[c].dest /\ existing[c][2] = TokenOf[digest]
        BY <2>4, <3>2, <3>3, Zenon DEF partial_token
      <4>. QED  BY <2>1, <3>2, <4>2, <4>3, Zenon DEF Partial, partial_name
    <3>. QED  BY <2>1, <2>2, <2>3, <2>4, <3>1, <3>3, Zenon DEF Offered
  <2>7. CASE ServeOpen(c)
    <3>1. Partial(c)' = Partial(c) /\ pc[c] = "open"
      BY <2>1, <2>7, PartialKept, Zenon DEF ServeOpen
    <3>2. CASE meta[c].start = 0 /\ existing[c] # None
      <4>1. pc'[c] = "drop"
        BY <2>7, <3>2 DEF ServeOpen, Goto, Control, Shape
      <4>. QED  BY <2>1, <2>2, <2>3, <2>4, <4>1, Zenon DEF Offered
    <3>3. CASE ~(meta[c].start = 0 /\ existing[c] # None)
      <4>1. pc'[c] = "create"
        BY <2>7, <3>3, Zenon DEF ServeOpen, Goto, Control, Shape
      <4>2. PartialsAt(job[c].dest) \subseteq {Partial(c)}
        <5>1. CASE meta[c].start # 0
          BY <2>3, <3>1, <5>1, Zenon DEF OneInv, Offered
        <5>2. CASE existing[c] = None
          BY <2>3, <5>2, DownloadAssumption, Zenon DEF PartialsAt, PartialPath
        <5>. QED  BY <3>3, <5>1, <5>2, Zenon
      <4>3. meta[c].start = 0 => PartialsAt(job[c].dest) = {}
        BY <2>3, <3>3, DownloadAssumption DEF PartialsAt, PartialPath
      <4>4. meta' = meta
        BY <2>7, Zenon DEF ServeOpen
      <4>. QED  BY <2>1, <2>2, <2>4, <3>1, <4>1, <4>2, <4>3, <4>4, Zenon DEF Offered, Serving
    <3>. QED  BY <3>2, <3>3, Zenon
  <2>. QED  BY <1>3, <2>5, <2>6, <2>7, Zenon
<1>4. CASE Drop(c) /\ ~Exit(c)
  <2>1. /\ UNCHANGED <<job, existing, offset>> /\ pc[c] = "drop" /\ pc'[c] = "create"
        /\ dir' = [dir EXCEPT ![existing[c]] = None]
    BY <1>4, Zenon DEF Drop, Goto, reqvars, Control, Shape
  <2>2. existing[c] \in Path
    BY <2>1 DEF Control, Knows, Shape, Path
  <2>3. PartialsAt(job[c].dest) \subseteq {existing[c]}
    BY <2>1, Zenon DEF OneInv, Offered
  <2>4. PartialsAt(job[c].dest)' = {}
    BY <2>1, <2>2, <2>3, Zenon DEF PartialsAt, Exists, Control, Shape, Path
  <2>5. /\ offset[c] # 0 => existing[c] # None
        /\ existing[c] # None => existing[c][1] = job[c].dest
    BY <2>1, Zenon DEF OneInv, Offered
  <2>. QED  BY <2>1, <2>4, <2>5, Zenon DEF Offered, Serving
<1>5. CASE (Create(c) \/ Recv(c) \/ Close(c) \/ Verify(c)) /\ ~Exit(c)
  <2>1. /\ UNCHANGED <<job, existing, offset>> /\ pc[c] # "off"
        /\ pc'[c] \in {"body", "verify", "rename"}
    BY <1>5, Zenon DEF Create, Recv, Close, Verify, Goto, reqvars, Control, Shape
  <2>. QED  BY <2>1, Zenon DEF OneInv, Offered, Serving
<1>6. ~Exit(c) => ~Rename(c) /\ ~Lost(c) /\ ~Kill(c) /\ ~CreateFails(c)
  BY Zenon DEF Rename, Lost, Kill, CreateFails
<1>. QED  BY <1>1, <1>2, <1>3, <1>4, <1>5, <1>6, Zenon DEF Step, Attempt, Begins

LEMMA OneStep ==
    ASSUME Exclusive, ~RemoveFaults, Extends = {}, PlainNames, Control, Apart, OneInv,
           [Next]_vars
    PROVE  OneInv'
<1>1. ASSUME NEW c \in Client, Step(c) PROVE OneInv'
  BY <1>1, AtMostOneStep, OfferedOthers, OfferedOwn, Zenon DEF OneInv
<1>2. CASE UNCHANGED <<dir, pc, job, existing, offset, meta>>
  <2>1. \A c \in Client : Partial(c)' = Partial(c)
    BY <1>2, PartialKept, Zenon
  <2>. QED  BY <1>2, <2>1 DEF OneInv, AtMostOnePartial, Offered, PartialsAt, Exists
<1>3. CASE (\E r \in Remote : Replace(r)) \/ CalmDown \/ UNCHANGED vars
  BY <1>2, <1>3, Zenon DEF Replace, CalmDown, vars, fsvars, reqvars
<1>. QED  BY <1>1, <1>3, Zenon DEF Next, Step

\* A local name never has two partials, so that find_partial never gives up bytes
\* that could be resumed, whatever attempts are lost or killed and in whatever order
\* the Python and the C client take turns.  The names do not extend one another, and
\* a partial that is to be removed is removed.
THEOREM OnePartial ==
    ASSUME Exclusive, ~RemoveFaults, Extends = {}, PlainNames
    PROVE  Spec => []AtMostOnePartial
<1>1. Init => IInv /\ OneInv
  BY InitHolds, OneInit, Zenon
<1>2. IInv /\ OneInv /\ [Next]_vars => IInv' /\ OneInv'
  BY IInvStep, OneStep, Zenon DEF IInv
<1>3. OneInv => AtMostOnePartial
  BY Zenon DEF OneInv
<1>. QED  BY <1>1, <1>2, <1>3, PTL DEF Spec

-----------------------------------------------------------------------------
(* Sequences of bytes.                                                     *)

LEMMA Slice ==
    ASSUME NEW S, NEW s \in Seq(S), NEW m \in Nat \ {0}, NEW n \in 0..Len(s)
    PROVE  SubSeq(s, m, n) \in Seq(S)
<1>1. \A i \in m..n : s[i] \in S
  BY LenProperties
<1>2. n \in Int /\ m \in Int
  BY LenProperties
<1>. QED  BY <1>1, <1>2, SubSeqProperties, Zenon

LEMMA Joins ==
    ASSUME NEW S, NEW s \in Seq(S), NEW t \in Seq(S)
    PROVE  /\ s \o t \in Seq(S)
           /\ Len(s) \in Nat /\ Len(t) \in Nat /\ Len(s \o t) = Len(s) + Len(t)
  BY ConcatProperties, LenProperties, Zenon

LEMMA Empty == ASSUME NEW S PROVE <<>> \in Seq(S) /\ Len(<<>>) = 0
  OBVIOUS

LEMMA SmallerFacts ==
    ASSUME NEW m \in Nat, NEW n \in Nat
    PROVE  Smaller(m, n) \in Nat /\ Smaller(m, n) <= m /\ Smaller(m, n) <= n
  BY DEF Smaller

-----------------------------------------------------------------------------
(* Types.                                                                  *)

Streams ==
    /\ data \in [Inode -> Seq(Byte)]
    /\ wire \in [Client -> Seq(Byte)]
    /\ buf \in [Client -> Seq(Byte)]
    /\ remaining \in [Client -> Nat]
    /\ offset \in [Client -> Nat]

\* The server's answer is within the size it measured.
Sized(c) ==
    /\ pc[c] \in {"off", "stat"} => meta[c] = None
    /\ pc[c] \in Told \cup {"hash"} =>
          /\ meta[c].size \in Nat /\ meta[c].start \in 0..meta[c].size
          /\ meta[c].digest \in Digest \cup {None}
    /\ pc[c] = "hash" => offset[c] <= meta[c].size

\* What a client is to write from now on fits between its start and the end.
Counted(c) ==
    /\ pc[c] # "body" => buf[c] = <<>>
    /\ pc[c] = "body" => Len(buf[c]) + remaining[c] <= meta[c].size - meta[c].start

Rest ==
    claimed \in [Dest -> Digest \cup {None}] /\ weather \in {"mild", "rough", "calm"}

Typed == Control /\ Streams /\ (\A c \in Client : Sized(c) /\ Counted(c)) /\ Rest

LEMMA ContentBytes ==
    ASSUME NEW x \in Content
    PROVE  x \in Seq(Byte) /\ Len(x) \in Nat
  BY DownloadAssumption, LenProperties, Zenon

LEMMA GarbageByte == Garbage \in Byte /\ Zero \in Byte
  BY Zenon DEF Byte

LEMMA TypedInit == Init => Typed
<1>. SUFFICES ASSUME Init PROVE Typed
  OBVIOUS
<1>1. Control
  BY InitHolds, Zenon DEF IInv
<1>2. Streams
  BY Empty, Zenon DEF Init, Streams
<1>3. Rest
  BY Zenon DEF Init, Rest
<1>4. \A c \in Client : Sized(c) /\ Counted(c)
  BY Zenon DEF Init, Sized, Counted, Told
<1>. QED  BY <1>1, <1>2, <1>3, <1>4, Zenon DEF Typed

\* What find_partial returns is a partial that exists.
LEMMA FoundExists ==
    ASSUME NEW c \in Client, NEW d \in Dest, find_partial(c, d) # None
    PROVE  find_partial(c, d) \in PartialPath /\ Exists(find_partial(c, d))
<1>. DEFINE matches == Matches(c, d)
<1>1. \A p \in matches : p \in PartialPath /\ Exists(p)
  BY Zenon DEF Matches
<1>. HIDE DEF matches
<1>2. \E p \in matches : matches = {p}
  BY Zenon DEF find_partial, matches
<1>3. find_partial(c, d) = CHOOSE p \in matches : TRUE
  BY <1>2, Zenon DEF find_partial, matches
<1>4. find_partial(c, d) \in matches
  BY <1>2, <1>3, Zenon
<1>. QED  BY <1>1, <1>4, Zenon

LEMMA ExitStreams ==
    ASSUME Streams, NEW c \in Client, Exit(c), data' \in [Inode -> Seq(Byte)]
    PROVE  Streams'
<1>1. <<>> \in Seq(Byte)
  BY Empty, Zenon
<1>. QED  BY <1>1, Zenon DEF Streams, Exit

LEMMA ExitSized ==
    ASSUME Control, NEW c \in Client, Exit(c)
    PROVE  Sized(c)'
  BY Zenon DEF Control, Shape, Exit, Goto, Sized, Told

\* One read of the body: k bytes leave the wire, and as many are written, the same
\* ones if nothing damages them.
LEMMA RecvFacts ==
    ASSUME Typed, NEW c \in Client, Recv(c)
    PROVE  \E k \in 1..Len(wire[c]), chunk \in Seq(Byte) :
              /\ k <= remaining[c] /\ Len(chunk) = k
              /\ weather # "rough" => chunk = SubSeq(wire[c], 1, k)
              /\ wire' = [wire EXCEPT ![c] = SubSeq(@, k + 1, Len(@))]
              /\ remaining' = [remaining EXCEPT ![c] = @ - k]
              /\ \/ buf' = [buf EXCEPT ![c] = @ \o chunk] /\ data' = data
                 \/ buf' = [buf EXCEPT ![c] = <<>>] /\ data' = Flushed(c, buf[c] \o chunk)
<1>1. PICK k \in ReadSizes(c) :
         \E chunk \in {SubSeq(wire[c], 1, k)} \cup
                      (IF weather = "rough" THEN {[j \in 1..k |-> Garbage]} ELSE {}) :
              /\ wire' = [wire EXCEPT ![c] = SubSeq(@, k + 1, Len(@))]
              /\ remaining' = [remaining EXCEPT ![c] = @ - k]
              /\ \/ buf' = [buf EXCEPT ![c] = @ \o chunk] /\ data' = data
                 \/ buf' = [buf EXCEPT ![c] = <<>>] /\ data' = Flushed(c, buf[c] \o chunk)
  BY Zenon DEF Recv
<1>2. PICK chunk \in {SubSeq(wire[c], 1, k)} \cup
                      (IF weather = "rough" THEN {[j \in 1..k |-> Garbage]} ELSE {}) :
              /\ wire' = [wire EXCEPT ![c] = SubSeq(@, k + 1, Len(@))]
              /\ remaining' = [remaining EXCEPT ![c] = @ - k]
              /\ \/ buf' = [buf EXCEPT ![c] = @ \o chunk] /\ data' = data
                 \/ buf' = [buf EXCEPT ![c] = <<>>] /\ data' = Flushed(c, buf[c] \o chunk)
  BY <1>1, Zenon
<1>3. /\ wire[c] \in Seq(Byte) /\ Len(wire[c]) \in Nat /\ remaining[c] \in Nat
      /\ ChunkSize \in Nat
  BY DownloadAssumption, LenProperties, Zenon DEF Typed, Streams
<1>4. k \in 1..Len(wire[c]) /\ k <= remaining[c]
  <2>. DEFINE want == Smaller(ChunkSize, remaining[c])
  <2>1. want \in Nat /\ want <= remaining[c]
    BY <1>3, SmallerFacts, Zenon
  <2>2. k \in 1..Smaller(want, Len(wire[c])) \/ (k = want /\ k \in 1..Len(wire[c]))
    BY Zenon DEF ReadSizes
  <2>. HIDE DEF want
  <2>3. Smaller(want, Len(wire[c])) \in 0..want /\ Smaller(want, Len(wire[c])) <= Len(wire[c])
    BY <1>3, <2>1 DEF Smaller
  <2>. QED  BY <1>3, <2>1, <2>2, <2>3
<1>5. chunk \in Seq(Byte) /\ Len(chunk) = k
  <2>1. SubSeq(wire[c], 1, k) \in Seq(Byte)
    BY <1>3, <1>4, Slice
  <2>2. Len(SubSeq(wire[c], 1, k)) = k
    BY <1>3, <1>4
  <2>3. [j \in 1..k |-> Garbage] \in Seq(Byte) /\ Len([j \in 1..k |-> Garbage]) = k
    BY <1>4, GarbageByte
  <2>. QED  BY <1>2, <2>1, <2>2, <2>3, Zenon
<1>6. weather # "rough" => chunk = SubSeq(wire[c], 1, k)
  BY <1>2, Zenon
<1>. QED  BY <1>2, <1>4, <1>5, <1>6, Zenon

\* Where Flushed writes.
At(c) ==
    IF meta[c].start > 0 THEN Len(data[fd[c]])
    ELSE meta[c].size - remaining[c] - Len(buf[c])

LEMMA WrittenTyped ==
    ASSUME NEW s \in Seq(Byte), NEW at \in Nat, NEW bytes \in Seq(Byte)
    PROVE  WrittenAt(s, at, bytes) \in Seq(Byte)
<1>1. Len(s) \in Nat /\ Len(bytes) \in Nat
  BY LenProperties, Zenon
<1>2. Larger(Len(s), at + Len(bytes)) \in Nat
  BY <1>1 DEF Larger
<1>3. ASSUME NEW j \in 1..Larger(Len(s), at + Len(bytes))
      PROVE  (IF j \in (at + 1)..(at + Len(bytes)) THEN bytes[j - at]
              ELSE IF j <= Len(s) THEN s[j] ELSE Zero) \in Byte
  <2>1. j \in (at + 1)..(at + Len(bytes)) => bytes[j - at] \in Byte
    BY <1>1
  <2>2. j <= Len(s) => s[j] \in Byte
    BY <1>1, <1>2
  <2>. QED  BY <2>1, <2>2, GarbageByte, Zenon
<1>. DEFINE n == Larger(Len(s), at + Len(bytes))
            f == [j \in 1..n |-> IF j \in (at + 1)..(at + Len(bytes)) THEN bytes[j - at]
                                 ELSE IF j <= Len(s) THEN s[j] ELSE Zero]
<1>4. f \in [1..n -> Byte]
  BY <1>3, Zenon
<1>5. WrittenAt(s, at, bytes) \in {s, f}
  BY Zenon DEF WrittenAt
<1>. HIDE DEF f, n
<1>6. f \in Seq(Byte)
  BY <1>2, <1>4 DEF n
<1>. QED  BY <1>5, <1>6, Zenon

LEMMA FlushedTyped ==
    ASSUME Typed, NEW c \in Client, pc[c] = "body", NEW bytes \in Seq(Byte)
    PROVE  /\ fd[c] \in Inode /\ At(c) \in Nat
           /\ Flushed(c, bytes) \in [Inode -> Seq(Byte)]
           /\ Flushed(c, bytes)[fd[c]] = WrittenAt(data[fd[c]], At(c), bytes)
           /\ \A i \in Inode \ {fd[c]} : Flushed(c, bytes)[i] = data[i]
<1>. USE DEF Typed
<1>1. fd[c] \in Inode
  BY Zenon DEF Control, Knows, Shape
<1>2. data[fd[c]] \in Seq(Byte) /\ buf[c] \in Seq(Byte) /\ remaining[c] \in Nat
  BY <1>1, Zenon DEF Streams
<1>3. Len(data[fd[c]]) \in Nat /\ Len(buf[c]) \in Nat
  BY <1>2, LenProperties, Zenon
<1>4. /\ meta[c].size \in Nat /\ meta[c].start \in 0..meta[c].size
      /\ Len(buf[c]) + remaining[c] <= meta[c].size - meta[c].start
  BY Zenon DEF Sized, Counted, Told
<1>5. At(c) \in Nat
  <2>. DEFINE b == Len(buf[c])
              k == remaining[c]
              z == meta[c].size
              a == meta[c].start
              l == Len(data[fd[c]])
  <2>1. /\ b \in Nat /\ k \in Nat /\ z \in Nat /\ a \in 0..z /\ l \in Nat /\ b + k <= z - a
        /\ At(c) = IF a > 0 THEN l ELSE z - k - b
    BY <1>2, <1>3, <1>4, Zenon DEF At
  <2>. HIDE DEF b, k, z, a, l
  <2>. QED  BY <2>1
<1>6. WrittenAt(data[fd[c]], At(c), bytes) \in Seq(Byte)
  BY <1>2, <1>5, WrittenTyped, Zenon
<1>7. Flushed(c, bytes) = [data EXCEPT ![fd[c]] = WrittenAt(data[fd[c]], At(c), bytes)]
  BY Zenon DEF Flushed, At
<1>. QED  BY <1>1, <1>5, <1>6, <1>7, Zenon DEF Streams

LEMMA StreamsStep ==
    ASSUME Typed, NEW c \in Client, Step(c)
    PROVE  Streams'
<1>. USE DEF Typed
<1>1. CASE Exit(c)
  <2>1. data' = data \/ (pc[c] = "body" /\ data' = Flushed(c, buf[c]))
    <3>1. pc'[c] = "off"
      BY <1>1, ExitFd, Zenon DEF Control
    <3>2. ~ServeOpen(c) /\ ~Create(c) /\ ~Recv(c) /\ ~Close(c)
      BY <3>1, Zenon DEF ServeOpen, Create, Recv, Close, Goto, Control, Shape
    <3>3. Lost(c) => data' = data \/ (pc[c] = "body" /\ data' = Flushed(c, buf[c]))
      BY Zenon DEF Lost
    <3>4. Begins(c) \/ ServeStat(c) \/ ServeHash(c) \/ Drop(c) \/ Verify(c) \/ Rename(c)
          \/ Kill(c) \/ CreateFails(c) => data' = data
      BY Zenon DEF Begins, Begin, ServeStat, ServeHash, Drop, Verify, Rename, Kill, CreateFails, fsvars
    <3>. QED  BY <3>2, <3>3, <3>4, Zenon DEF Step, Attempt, Begins
  <2>2. data' \in [Inode -> Seq(Byte)]
    <3>1. data \in [Inode -> Seq(Byte)] /\ buf[c] \in Seq(Byte)
      BY Zenon DEF Streams, Control, Shape
    <3>2. pc[c] = "body" => Flushed(c, buf[c]) \in [Inode -> Seq(Byte)]
      BY <3>1, FlushedTyped, Zenon
    <3>. QED  BY <2>1, <3>1, <3>2, Zenon
  <2>. QED  BY <1>1, <2>2, ExitStreams, Zenon
<1>2. CASE Begins(c) /\ ~Exit(c)
  <2>1. PICK r \in Remote, d \in Dest : Begun(c, r, d)
    BY <1>2, BeginFacts, Zenon
  <2>2. find_partial(c, d) # None => Len(data[dir[find_partial(c, d)]]) \in Nat
    <3>. SUFFICES ASSUME find_partial(c, d) # None
                  PROVE  data[dir[find_partial(c, d)]] \in Seq(Byte)
      BY LenProperties, Zenon
    <3>1. dir[find_partial(c, d)] \in Inode
      BY FoundExists DEF Exists, Control, Shape, Path
    <3>. QED  BY <3>1, Zenon DEF Streams
  <2>. QED  BY <2>1, <2>2, Zenon DEF Begun, Streams
<1>3. CASE (ServeStat(c) \/ ServeHash(c) \/ Drop(c) \/ Verify(c)) /\ ~Exit(c)
  BY <1>3, Zenon DEF ServeStat, ServeHash, Drop, Verify, fsvars, reqvars, iovars, Streams
<1>4. CASE ServeOpen(c)
  <2>. DEFINE content == store[job[c].remote]
              body == SubSeq(content, meta[c].start + 1, Smaller(meta[c].size, Len(content)))
  <2>1. ASSUME content # None PROVE body \in Seq(Byte) /\ Len(body) \in Nat
    <3>1. content \in Content
      <4>1. job[c].remote \in Remote
        BY <1>4, Zenon DEF ServeOpen, Control, Knows
      <4>2. store \in [Remote -> Content \cup {None}]
        BY Zenon DEF Control, Shape
      <4>. QED  BY <2>1, <4>1, <4>2, Zenon
    <3>2. content \in Seq(Byte) /\ Len(content) \in Nat
      BY <3>1, ContentBytes, Zenon
    <3>3. meta[c].size \in Nat /\ meta[c].start \in Nat
      <4>1. pc[c] = "open"
        BY <1>4, Zenon DEF ServeOpen
      <4>. QED  BY <4>1 DEF Sized, Told
    <3>. HIDE DEF content
    <3>4. Smaller(meta[c].size, Len(content)) \in 0..Len(content)
      BY <3>2, <3>3 DEF Smaller
    <3>5. meta[c].start + 1 \in Nat \ {0}
      BY <3>3
    <3>. QED  BY <3>2, <3>4, <3>5, Slice, LenProperties, Zenon
  <2>2. <<Garbage>> \in Seq(Byte)
    BY GarbageByte
  <2>3. \A k \in 0..(Len(body) - 1) :
           content # None => Append(SubSeq(body, 1, k), Garbage) \in Seq(Byte)
    <3>. SUFFICES ASSUME content # None, NEW k \in 0..(Len(body) - 1)
                  PROVE  Append(SubSeq(body, 1, k), Garbage) \in Seq(Byte)
      BY Zenon
    <3>1. body \in Seq(Byte) /\ Len(body) \in Nat
      BY <2>1, Zenon
    <3>. HIDE DEF body
    <3>2. SubSeq(body, 1, k) \in Seq(Byte)
      BY <3>1, Slice
    <3>. QED  BY <3>2, GarbageByte, AppendProperties, Zenon
  <2>4. \E w \in Seq(Byte) : wire' = [wire EXCEPT ![c] = w]
    BY <1>4, <2>1, <2>2, <2>3, Zenon DEF ServeOpen
  <2>5. UNCHANGED <<data, buf, remaining, offset>>
    BY <1>4, Zenon DEF ServeOpen, fsvars, reqvars
  <2>. QED  BY <2>4, <2>5, Zenon DEF Streams
<1>5. CASE Create(c)
  <2>1. meta[c].size - meta[c].start \in Nat
    BY <1>5 DEF Create, Sized, Told
  <2>2. data' \in [Inode -> Seq(Byte)]
    <3>1. PICK i : \/ data' = [data EXCEPT ![i] = data[i]]
                   \/ data' = [data EXCEPT ![i] = <<>>]
      BY <1>5, Zenon DEF Create
    <3>2. <<>> \in Seq(Byte)
      BY Empty, Zenon
    <3>. QED  BY <3>1, <3>2, Zenon DEF Streams
  <2>. QED  BY <1>5, <2>1, <2>2, Zenon DEF Create, reqvars, Streams
<1>6. CASE Recv(c)
  <2>1. PICK k \in 1..Len(wire[c]), chunk \in Seq(Byte) :
              /\ k <= remaining[c]
              /\ wire' = [wire EXCEPT ![c] = SubSeq(@, k + 1, Len(@))]
              /\ remaining' = [remaining EXCEPT ![c] = @ - k]
              /\ \/ buf' = [buf EXCEPT ![c] = @ \o chunk] /\ data' = data
                 \/ buf' = [buf EXCEPT ![c] = <<>>] /\ data' = Flushed(c, buf[c] \o chunk)
    BY <1>6, RecvFacts, Zenon
  <2>2. wire[c] \in Seq(Byte) /\ Len(wire[c]) \in Nat /\ remaining[c] \in Nat
        /\ buf[c] \in Seq(Byte) /\ fd[c] \in Inode
    <3>1. pc[c] = "body"
      BY <1>6, Zenon DEF Recv
    <3>2. wire[c] \in Seq(Byte) /\ remaining[c] \in Nat /\ buf[c] \in Seq(Byte)
      BY Zenon DEF Streams
    <3>3. fd[c] \in Inode
      BY <3>1, Zenon DEF Control, Knows, Shape
    <3>. QED  BY <3>2, <3>3, LenProperties, Zenon
  <2>3. SubSeq(wire[c], k + 1, Len(wire[c])) \in Seq(Byte)
    BY <2>2, Slice
  <2>4. wire' \in [Client -> Seq(Byte)] /\ remaining' \in [Client -> Nat]
    BY <2>1, <2>2, <2>3, SMTT(20) DEF Streams
  <2>5. buf[c] \o chunk \in Seq(Byte)
    BY <2>2, Joins, Zenon
  <2>6. Flushed(c, buf[c] \o chunk) \in [Inode -> Seq(Byte)]
    BY <1>6, <2>5, FlushedTyped, Zenon DEF Recv
  <2>7. buf' \in [Client -> Seq(Byte)] /\ data' \in [Inode -> Seq(Byte)]
    <3>1. <<>> \in Seq(Byte)
      BY Empty, Zenon
    <3>2. CASE buf' = [buf EXCEPT ![c] = @ \o chunk] /\ data' = data
      BY <2>5, <3>2, Zenon DEF Streams
    <3>3. CASE buf' = [buf EXCEPT ![c] = <<>>] /\ data' = Flushed(c, buf[c] \o chunk)
      BY <2>6, <3>1, <3>3, Zenon DEF Streams
    <3>. QED  BY <2>1, <3>2, <3>3, Zenon
  <2>. QED  BY <1>6, <2>4, <2>7, Zenon DEF Recv, reqvars, Streams
<1>7. CASE Close(c)
  <2>1. Flushed(c, buf[c]) \in [Inode -> Seq(Byte)]
    BY <1>7, FlushedTyped, Zenon DEF Close, Streams
  <2>. QED  BY <1>7, <2>1, Empty, Zenon DEF Close, reqvars, Streams
<1>8. ~Exit(c) => ~Rename(c) /\ ~Lost(c) /\ ~Kill(c) /\ ~CreateFails(c)
  BY Zenon DEF Rename, Lost, Kill, CreateFails
<1>. QED  BY <1>1, <1>2, <1>3, <1>4, <1>5, <1>6, <1>7, <1>8, Zenon DEF Step, Attempt, Begins


LEMMA SizedStep ==
    ASSUME Typed, NEW c \in Client, Step(c)
    PROVE  Sized(c)'
<1>. USE DEF Typed
<1>1. CASE Exit(c)
  BY <1>1, ExitSized, Zenon
<1>2. CASE Begins(c) /\ ~Exit(c)
  <2>1. pc[c] = "off" /\ pc'[c] = "stat" /\ meta' = meta
    BY <1>2, BeginFacts, Zenon DEF Begun, Control, Shape
  <2>. QED  BY <2>1, Zenon DEF Sized, Told
<1>3. CASE ServeStat(c) /\ ~Exit(c)
  <2>. DEFINE content == store[job[c].remote]
  <2>1. /\ pc'[c] = "hash" /\ offset' = offset
        /\ content # None /\ offset[c] <= Len(content)
        /\ meta'[c] = [size |-> Len(content), start |-> 0, digest |-> None]
    BY <1>3, Zenon DEF ServeStat, Goto, reqvars, Control, Shape
  <2>2. Len(content) \in Nat
    <3>1. content \in Content
      BY <1>3, <2>1 DEF ServeStat, Control, Shape, Knows
    <3>. QED  BY <3>1, ContentBytes, Zenon
  <2>. HIDE DEF content
  <2>3. /\ meta'[c].size = Len(content) /\ meta'[c].start = 0 /\ meta'[c].digest = None
    <3>. DEFINE r == [size |-> Len(content), start |-> 0, digest |-> None]
    <3>1. r.size = Len(content) /\ r.start = 0 /\ r.digest = None
      BY Zenon
    <3>. QED  BY <2>1, <3>1, Zenon
  <2>. QED  BY <2>1, <2>2, <2>3 DEF Sized, Told
<1>4. CASE ServeHash(c) /\ ~Exit(c)
  <2>. DEFINE content == store[job[c].remote]
  <2>1. /\ pc[c] = "hash" /\ pc'[c] = "open" /\ content # None
        /\ meta' = [meta EXCEPT ![c].digest = Sha(content),
              ![c].start = IF offset[c] # 0 /\ partial_token(existing[c]) = TokenOf[Sha(content)]
                           THEN offset[c] ELSE 0]
    BY <1>4, Zenon DEF ServeHash, Goto, Control, Shape
  <2>2. Sha(content) \in Digest
    BY <2>1 DEF Control, Shape, Knows, Digest
  <2>. HIDE DEF content
  <2>3. meta[c] = [size |-> meta[c].size, start |-> meta[c].start, digest |-> meta[c].digest]
    BY <2>1, Zenon DEF Control, Knows
  <2>4. /\ meta'[c].size = meta[c].size /\ meta'[c].digest = Sha(content)
        /\ meta'[c].start \in {0, offset[c]}
    BY <2>1, <2>3, Zenon DEF Control, Shape
  <2>5. offset[c] \in Nat /\ meta[c].size \in Nat /\ offset[c] <= meta[c].size
    BY <2>1, Zenon DEF Sized, Streams
  <2>6. meta'[c].start \in 0..meta[c].size
    BY <2>4, <2>5
  <2>. QED  BY <2>1, <2>2, <2>4, <2>5, <2>6, Zenon DEF Sized, Told
<1>5. CASE (ServeOpen(c) \/ Drop(c) \/ Create(c) \/ Recv(c) \/ Close(c) \/ Verify(c)) /\ ~Exit(c)
  <2>1. meta' = meta /\ pc[c] \in Told /\ pc'[c] \in Told
    BY <1>5, Zenon DEF ServeOpen, Drop, Create, Recv, Close, Verify, Goto, Told, Control, Shape
  <2>. QED  BY <2>1, Zenon DEF Sized, Told
<1>6. ~Exit(c) => ~Rename(c) /\ ~Lost(c) /\ ~Kill(c) /\ ~CreateFails(c)
  BY DEF Rename, Lost, Kill, CreateFails
<1>. QED  BY <1>1, <1>2, <1>3, <1>4, <1>5, <1>6, Zenon DEF Step, Attempt, Begins

LEMMA FrameIO ==
    ASSUME Typed, NEW c \in Client, Step(c), NEW t \in Client, t # c
    PROVE  /\ wire'[t] = wire[t] /\ buf'[t] = buf[t] /\ remaining'[t] = remaining[t]
           /\ store' = store
<1>. USE DEF Typed, Streams
<1>1. CASE Begins(c) \/ ServeStat(c) \/ ServeHash(c) \/ ServeOpen(c)
  BY <1>1, Zenon DEF Begins, Begin, ServeStat, ServeHash, ServeOpen, Exit, iovars
<1>2. CASE Drop(c) \/ Create(c) \/ Close(c)
  BY <1>2, Zenon DEF Drop, Create, Close, Exit, iovars
<1>3. CASE Recv(c)
  BY <1>3, ZenonT(30) DEF Recv
<1>4. CASE Verify(c) \/ Rename(c) \/ Lost(c) \/ Kill(c) \/ CreateFails(c)
  BY <1>4, Zenon DEF Verify, Rename, Lost, Kill, CreateFails, Exit, iovars
<1>. QED  BY <1>1, <1>2, <1>3, <1>4, Zenon DEF Step, Attempt, Begins

LEMMA CountedStep ==
    ASSUME Typed, NEW c \in Client, Step(c)
    PROVE  Counted(c)'
<1>. USE DEF Typed
<1>1. CASE Exit(c)
  BY <1>1, Zenon DEF Exit, Goto, Control, Shape, Streams, Counted
<1>2. CASE Begins(c) /\ ~Exit(c)
  <2>1. pc[c] = "off" /\ pc'[c] = "stat" /\ buf' = buf
    BY <1>2, BeginFacts, Zenon DEF Begun, Control, Shape
  <2>. QED  BY <2>1, Zenon DEF Counted
<1>3. CASE (ServeStat(c) \/ ServeHash(c) \/ ServeOpen(c) \/ Drop(c) \/ Verify(c)) /\ ~Exit(c)
  <2>1. pc[c] # "body" /\ pc'[c] # "body" /\ buf' = buf
    BY <1>3, Zenon DEF ServeStat, ServeHash, ServeOpen, Drop, Verify, Goto, iovars, Control, Shape
  <2>. QED  BY <2>1, Zenon DEF Counted
<1>4. CASE Create(c)
  <2>1. /\ pc[c] = "create" /\ pc'[c] = "body" /\ buf' = buf /\ meta' = meta
        /\ remaining'[c] = meta[c].size - meta[c].start
    BY <1>4, Zenon DEF Create, Goto, Control, Shape, Streams
  <2>2. buf'[c] = <<>> /\ meta[c].size \in Nat /\ meta[c].start \in 0..meta[c].size
    BY <2>1, Zenon DEF Counted, Sized, Told
  <2>3. Len(buf'[c]) = 0
    BY <2>2, Empty, Zenon
  <2>. QED  BY <2>1, <2>2, <2>3 DEF Counted
<1>5. CASE Recv(c)
  <2>1. pc[c] = "body" /\ pc' = pc /\ meta' = meta
    BY <1>5, Zenon DEF Recv
  <2>2. PICK k \in 1..Len(wire[c]), chunk \in Seq(Byte) :
           /\ k <= remaining[c] /\ Len(chunk) = k
           /\ remaining' = [remaining EXCEPT ![c] = @ - k]
           /\ \/ buf' = [buf EXCEPT ![c] = @ \o chunk]
              \/ buf' = [buf EXCEPT ![c] = <<>>]
    BY <1>5, RecvFacts, Zenon
  <2>3. /\ Len(wire[c]) \in Nat /\ remaining[c] \in Nat /\ buf[c] \in Seq(Byte)
        /\ Len(buf[c]) \in Nat
    BY LenProperties, Zenon DEF Streams
  <2>4. Len(buf[c] \o chunk) = Len(buf[c]) + k
    BY <2>2, <2>3, Joins, Zenon
  <2>5. remaining'[c] = remaining[c] - k /\ buf'[c] \in {buf[c] \o chunk, <<>>}
    BY <2>2, Zenon DEF Streams
  <2>6. Len(buf'[c]) \in {Len(buf[c]) + k, 0}
    BY <2>4, <2>5, Empty, Zenon
  <2>7. /\ meta[c].size \in Nat /\ meta[c].start \in Nat
        /\ Len(buf[c]) + remaining[c] <= meta[c].size - meta[c].start
    BY <2>1 DEF Sized, Counted, Told
  <2>8. Len(buf'[c]) + remaining'[c] <= meta[c].size - meta[c].start
    <3>. DEFINE b == Len(buf[c])
                n == remaining[c]
                z == meta[c].size
                a == meta[c].start
                m == Len(buf'[c])
    <3>1. /\ b \in Nat /\ n \in Nat /\ z \in Nat /\ a \in Nat /\ k \in Nat
          /\ b + n <= z - a /\ m \in {b + k, 0} /\ k <= n
      BY <2>2, <2>3, <2>6, <2>7
    <3>. HIDE DEF b, n, z, a, m
    <3>2. m + (n - k) <= z - a
      BY <3>1
    <3>. QED  BY <2>5, <3>2, Zenon DEF b, n, z, a, m
  <2>. QED  BY <2>1, <2>8, Zenon DEF Counted
<1>6. CASE Close(c)
  BY <1>6, Zenon DEF Close, Goto, Control, Shape, Streams, Counted
<1>7. ~Exit(c) => ~Rename(c) /\ ~Lost(c) /\ ~Kill(c) /\ ~CreateFails(c)
  BY Zenon DEF Rename, Lost, Kill, CreateFails
<1>. QED  BY <1>1, <1>2, <1>3, <1>4, <1>5, <1>6, <1>7, Zenon DEF Step, Attempt, Begins

LEMMA WeatherStep ==
    ASSUME NEW c \in Client, Step(c)
    PROVE  weather' = weather
  BY Zenon DEF Step, Attempt, Begins, Begin, ServeStat, ServeHash, ServeOpen, Drop, Create, Recv, Close,
         Verify, Rename, Lost, Kill, CreateFails

LEMMA RestStep ==
    ASSUME Typed, NEW c \in Client, Step(c)
    PROVE  Rest'
<1>. USE DEF Typed
<1>1. weather' = weather
  BY WeatherStep, Zenon
<1>2. CASE Rename(c)
  <2>1. meta[c].digest \in Digest
    BY <1>2, Zenon DEF Rename, Control, Knows, Told
  <2>. QED  BY <1>1, <1>2, <2>1, Zenon DEF Rename, Rest
<1>3. CASE ~Rename(c)
  <2>1. claimed' = claimed
    BY <1>3, Zenon DEF Step, Attempt, Begins, Begin, ServeStat, ServeHash, ServeOpen, Drop, Create, Recv,
                Close, Verify, Lost, Kill, CreateFails
  <2>. QED  BY <1>1, <2>1, Zenon DEF Rest
<1>. QED  BY <1>2, <1>3, Zenon

LEMMA TypedStep == Typed /\ [Next]_vars => Typed'
<1>. SUFFICES ASSUME Typed, [Next]_vars PROVE Typed'
  BY Zenon
<1>1. ASSUME NEW c \in Client, Step(c) PROVE Typed'
  <2>1. Control' /\ Streams' /\ Rest' /\ Sized(c)' /\ Counted(c)'
    BY <1>1, ControlStep, StreamsStep, RestStep, SizedStep, CountedStep, Zenon DEF Typed
  <2>2. ASSUME NEW t \in Client, t # c PROVE Sized(t)' /\ Counted(t)'
    <3>1. /\ pc'[t] = pc[t] /\ meta'[t] = meta[t] /\ offset'[t] = offset[t]
          /\ buf'[t] = buf[t] /\ remaining'[t] = remaining[t]
      BY <1>1, <2>2, FrameStep, FrameIO, Zenon DEF Typed, Control, Frame
    <3>. QED  BY <3>1, Zenon DEF Typed, Sized, Counted
  <2>. QED  BY <2>1, <2>2, Zenon DEF Typed
<1>2. CASE /\ UNCHANGED <<dir, data, pc, job, existing, offset, meta, wire, fd, remaining,
                          buf, claimed>>
           /\ store' \in [Remote -> Content \cup {None}] /\ weather' \in {"mild", "rough", "calm"}
  <2>1. Control'
    BY <1>2, Zenon DEF Typed, Control, Shape, Knows
  <2>2. Streams' /\ Rest'
    BY <1>2, Zenon DEF Typed, Streams, Rest
  <2>3. \A c \in Client : Sized(c)' /\ Counted(c)'
    BY <1>2, Zenon DEF Typed, Sized, Counted
  <2>. QED  BY <2>1, <2>2, <2>3, Zenon DEF Typed
<1>3. CASE \E r \in Remote : Replace(r)
  <2>1. store' \in [Remote -> Content \cup {None}]
    BY <1>3, Zenon DEF Replace, Typed, Control, Shape
  <2>. QED  BY <1>2, <1>3, <2>1, Zenon DEF Replace, fsvars, reqvars, iovars, Typed, Rest
<1>4. CASE CalmDown \/ UNCHANGED vars
  BY <1>2, <1>4, Zenon DEF CalmDown, vars, fsvars, reqvars, iovars, Typed, Rest, Control, Shape
<1>. QED  BY <1>1, <1>3, <1>4, Zenon DEF Next, Step

\* Every byte of a partial is one of some file, a damaged one or a hole's, the
\* counts of bytes to come never go below zero, a connection has its answer exactly
\* from the server's stat on, and a partial is open exactly while its body is read.
\* No condition: attempts may overlap, files change and bytes be damaged.
THEOREM TypesOK == Spec => []TypeOK
<1>1. Typed => TypeOK
  <2>. SUFFICES ASSUME Typed PROVE TypeOK
    BY Zenon
  <2>1. /\ store \in [Remote -> Content \cup {None}]
        /\ dir \in [Path -> Inode \cup {None}]
        /\ pc \in [Client -> PC] /\ fd \in [Client -> Inode \cup {None}]
    BY Zenon DEF Typed, Control, Shape
  <2>2. \A i \in Inode : data[i] \in Seq(Byte)
    BY Zenon DEF Typed, Streams
  <2>3. ASSUME NEW c \in Client
        PROVE  /\ job[c] = None <=> pc[c] = "off"
               /\ existing[c] \in PartialPath \cup {None}
               /\ offset[c] \in Nat /\ remaining[c] \in Nat
               /\ fd[c] = None <=> pc[c] # "body"
    BY DownloadAssumption DEF Typed, Control, Shape, Knows, Streams
  <2>4. ASSUME NEW c \in Client
        PROVE  meta[c] = None <=> pc[c] \in {"off", "stat"}
    <3>1. pc[c] \in {"off", "stat"} => meta[c] = None
      BY Zenon DEF Typed, Sized
    <3>2. ASSUME pc[c] \notin {"off", "stat"} PROVE meta[c] # None
      <4>1. pc[c] \in Told \cup {"hash"}
        BY <2>1, <3>2, Zenon DEF PC, Serving, Told
      <4>2. /\ meta[c].size \in Nat /\ meta[c].start \in Nat
            /\ meta[c].digest \in Digest \cup {None}
            /\ meta[c] = [size |-> meta[c].size, start |-> meta[c].start,
                          digest |-> meta[c].digest]
        BY <4>1 DEF Typed, Control, Knows, Sized
      <4>3. meta[c] \in [size : Nat, start : Nat, digest : Digest \cup {None}]
        BY <4>2, Zenon
      <4>. QED  BY <4>3, DownloadAssumption, Zenon
    <3>. QED  BY <3>1, <3>2, Zenon
  <2>5. Rest
    BY Zenon DEF Typed
  <2>. QED  BY <2>1, <2>2, <2>3, <2>4, <2>5, Zenon DEF TypeOK, Rest
<1>. QED  BY <1>1, TypedInit, TypedStep, PTL DEF Spec

=============================================================================

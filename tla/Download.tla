------------------------------ MODULE Download ------------------------------
(***************************************************************************)
(* GET, end to end: do_get of the Python client (retriever/client.py) and  *)
(* rtrv_do_get of the C client (c/transfer.c) against the server's         *)
(* handle_get (retriever/server.py).                                       *)
(*                                                                         *)
(* Each client is a program run again and again on one local directory.    *)
(* An attempt offers the server the partial file it finds, is told the     *)
(* size, starting offset and hash of the whole file, appends the body to a *)
(* partial named after that hash, and renames it once its hash checks out. *)
(* Connections are lost and clients killed at any time; the file behind a  *)
(* remote name may be replaced, bytes corrupted and server reads fail.     *)
(* A local operation that fails and is noticed leaves what a kill leaves.  *)
(***************************************************************************)
EXTENDS Integers, Sequences

CONSTANTS
    Client,       \* client programs
    Kind,         \* client -> "py" or "c"
    Exclusive,    \* whether attempts at one local name never overlap
    Remote,       \* names of files on the server
    Content,      \* what those files may hold
    Dest,         \* local names
    LongDest,     \* those whose partial's name is longer than a file name may be
    Extends,      \* pairs <<d, e>> of local names, e being d, a dot and more
    Token,
    TokenOf,      \* the first TOKEN_SIZE bytes of a hash
    Sha(_),
    ChunkSize,    \* bytes one read asks for (65536 in the code)
    Inode,
    None,
    Garbage,      \* a byte no file holds
    Zero,         \* the byte read where nothing was written
    Unstable,     \* whether server files, server reads and the network may change bytes
    RemoveFaults  \* whether the C client's remove may fail, which it does not notice

Digest == {Sha(x) : x \in Content}

Byte == (UNION {{x[j] : j \in DOMAIN x} : x \in Content}) \cup {Garbage, Zero}

ASSUME DownloadAssumption ==
    /\ Kind \in [Client -> {"py", "c"}]
    /\ Exclusive \in BOOLEAN /\ Unstable \in BOOLEAN /\ RemoveFaults \in BOOLEAN
    /\ Content \subseteq Seq(Byte)
    /\ Extends \subseteq Dest \X Dest /\ LongDest \subseteq Dest
    /\ TokenOf \in [Digest -> Token]
    /\ ChunkSize \in Nat \ {0}
    /\ None \notin Inode /\ None \notin Content
    /\ None \notin [remote : Remote, dest : Dest] /\ None \notin Dest \X Token
    /\ None \notin [size : Nat, start : Nat, digest : Digest \cup {None}]

VARIABLES
    store,        \* remote name -> content, or None
    dir,          \* local path -> inode, or None
    data,         \* inode -> bytes
    pc,
    job,          \* the remote and the local name of each attempt
    existing,     \* the partial find_partial found, or None
    offset,       \* what the request asks for
    meta,         \* size, start and digest of the reply
    wire,         \* body bytes on their way to the client
    fd,           \* inode the client has open for writing
    remaining,    \* body bytes the client still expects
    buf,          \* bytes written to the file object, not yet flushed
    claimed,      \* local name -> hash it was reported verified against
    weather       \* "mild": losses and kills; "rough": damage too; "calm": neither

fsvars == <<dir, data>>
reqvars == <<job, existing, offset>>
iovars == <<wire, fd, remaining, buf>>
vars == <<store, dir, data, pc, job, existing, offset, meta, wire, fd, remaining,
          buf, claimed, weather>>

-----------------------------------------------------------------------------

PartialPath == Dest \X Token

Path == Dest \cup PartialPath

Exists(path) == dir[path] # None

partial_name(dest, digest) == <<dest, TokenOf[digest]>>

partial_token(path) == path[2]

\* The Python client looks with the glob .<dest>.*.part, which also matches the
\* partials of names that extend dest; the C client checks the length as well.
Matches(c, dest) ==
    {p \in PartialPath :
        /\ Exists(p)
        /\ p[1] = dest \/ (Kind[c] = "py" /\ <<dest, p[1]>> \in Extends)}

\* The partial to resume from, when there is exactly one to choose.
find_partial(c, dest) ==
    LET matches == Matches(c, dest)
    IN  IF \E p \in matches : matches = {p} THEN CHOOSE p \in matches : TRUE ELSE None

Partial(c) == partial_name(job[c].dest, meta[c].digest)

Busy(dest) == \E c \in Client : job[c] # None /\ job[c].dest = dest

Unused ==
    {i \in Inode : (\A p \in Path : dir[p] # i) /\ (\A c \in Client : fd[c] # i)}

\* The inode of the next new file: which of the unused ones it is makes no difference.
FreeInode == {i \in Unused : i = CHOOSE j \in Unused : TRUE}

Smaller(m, n) == IF m < n THEN m ELSE n

Larger(m, n) == IF m < n THEN n ELSE m

Serving == {"stat", "hash", "open"}

PC == {"off", "drop", "create", "body", "verify", "rename"} \cup Serving

Goto(c, label) == pc' = [pc EXCEPT ![c] = label]

\* The program exits: its connection and its file are closed.
Exit(c) ==
    /\ Goto(c, "off")
    /\ job' = [job EXCEPT ![c] = None]
    /\ existing' = [existing EXCEPT ![c] = None]
    /\ offset' = [offset EXCEPT ![c] = 0]
    /\ meta' = [meta EXCEPT ![c] = None]
    /\ wire' = [wire EXCEPT ![c] = <<>>]
    /\ fd' = [fd EXCEPT ![c] = None]
    /\ remaining' = [remaining EXCEPT ![c] = 0]
    /\ buf' = [buf EXCEPT ![c] = <<>>]

Init ==
    /\ store \in [Remote -> Content \cup {None}]
    /\ dir = [p \in Path |-> None]
    /\ data = [i \in Inode |-> <<>>]
    /\ pc = [c \in Client |-> "off"]
    /\ job = [c \in Client |-> None]
    /\ existing = [c \in Client |-> None]
    /\ offset = [c \in Client |-> 0]
    /\ meta = [c \in Client |-> None]
    /\ wire = [c \in Client |-> <<>>]
    /\ fd = [c \in Client |-> None]
    /\ remaining = [c \in Client |-> 0]
    /\ buf = [c \in Client |-> <<>>]
    /\ claimed = [d \in Dest |-> None]
    /\ weather \in (IF Unstable THEN {"mild", "rough"} ELSE {"mild"})

-----------------------------------------------------------------------------
(* The client asks.                                                        *)

Begin(c, d) ==
    /\ pc[c] = "off"
    /\ \/ /\ Exists(d)
          /\ Exit(c)
       \/ /\ ~Exists(d)
          /\ ~(Exclusive /\ Busy(d))
          /\ \E r \in Remote : job' = [job EXCEPT ![c] = [remote |-> r, dest |-> d]]
          /\ LET found == find_partial(c, d)
             IN  /\ existing' = [existing EXCEPT ![c] = found]
                 /\ offset' = [offset EXCEPT ![c] =
                       IF found = None THEN 0 ELSE Len(data[dir[found]])]
          /\ Goto(c, "stat")
          /\ UNCHANGED <<meta, iovars>>
    /\ UNCHANGED <<store, fsvars, claimed, weather>>

-----------------------------------------------------------------------------
(* The server answers: handle_get.                                         *)

\* Mutant: the offset is not compared with the size.
ServeStatUnchecked(c) ==
    LET content == store[job[c].remote]
    IN  /\ pc[c] = "stat"
        /\ \/ /\ content = None
              /\ Exit(c)
           \/ /\ content # None
              /\ meta' = [meta EXCEPT ![c] =
                    [size |-> Len(content), start |-> 0, digest |-> None]]
              /\ Goto(c, "hash")
              /\ UNCHANGED <<reqvars, iovars>>
        /\ UNCHANGED <<store, fsvars, claimed, weather>>

\* isfile, getsize and the check of the offset, which precedes the token's.
ServeStat(c) ==
    LET content == store[job[c].remote]
        sound == content # None /\ offset[c] <= Len(content)
    IN  /\ pc[c] = "stat"
        /\ \/ /\ ~sound
              /\ Exit(c)
           \/ /\ sound
              /\ meta' = [meta EXCEPT ![c] =
                    [size |-> Len(content), start |-> 0, digest |-> None]]
              /\ Goto(c, "hash")
              /\ UNCHANGED <<reqvars, iovars>>
        /\ UNCHANGED <<store, fsvars, claimed, weather>>

\* The whole file is hashed; the offset is honoured if the token is that of
\* the hash.  The header and the metadata are sent.
ServeHash(c) ==
    LET content == store[job[c].remote]
        digest == Sha(content)
        same == offset[c] # 0 /\ partial_token(existing[c]) = TokenOf[digest]
    IN  /\ pc[c] = "hash"
        /\ \/ /\ content = None
              /\ Exit(c)
           \/ /\ content # None
              /\ meta' = [meta EXCEPT
                    ![c].digest = digest,
                    ![c].start = IF same THEN offset[c] ELSE 0]
              /\ Goto(c, "open")
              /\ UNCHANGED <<reqvars, iovars>>
        /\ UNCHANGED <<store, fsvars, claimed, weather>>

\* Mutant: the file is streamed from its beginning, without the seek.
ServeOpenNoSeek(c) ==
    LET content == store[job[c].remote]
        body == SubSeq(content, 1, Smaller(meta[c].size - meta[c].start, Len(content)))
    IN  /\ pc[c] = "open"
        /\ \/ content # None /\ wire' = [wire EXCEPT ![c] = body]
           \/ content = None /\ wire' = [wire EXCEPT ![c] = <<Garbage>>]
        /\ Goto(c, IF meta[c].start = 0 /\ existing[c] # None THEN "drop" ELSE "create")
        /\ UNCHANGED <<store, fsvars, reqvars, meta, fd, remaining, buf, claimed, weather>>

\* The file is opened again and streamed.  An error now is reported with an
\* ERROR frame in the middle of the body, which the client takes for file bytes.
ServeOpen(c) ==
    LET content == store[job[c].remote]
        body == SubSeq(content, meta[c].start + 1, Smaller(meta[c].size, Len(content)))
    IN  /\ pc[c] = "open"
        /\ \/ content # None /\ wire' = [wire EXCEPT ![c] = body]
           \/ content = None /\ wire' = [wire EXCEPT ![c] = <<Garbage>>]
           \/ /\ content # None /\ weather = "rough"
              /\ \E k \in 0..(Len(body) - 1) :
                    wire' = [wire EXCEPT ![c] = Append(SubSeq(body, 1, k), Garbage)]
        /\ Goto(c, IF meta[c].start = 0 /\ existing[c] # None THEN "drop" ELSE "create")
        /\ UNCHANGED <<store, fsvars, reqvars, meta, fd, remaining, buf, claimed, weather>>

-----------------------------------------------------------------------------
(* The client receives, verifies and renames.                              *)

\* Mutant: the useless partial is left where it is.
DropKeeps(c) ==
    /\ pc[c] = "drop"
    /\ Goto(c, "create")
    /\ UNCHANGED <<store, fsvars, reqvars, meta, iovars, claimed, weather>>

\* The bytes found belong to another file.  Only Python minds if they are gone
\* already, or cannot be removed: that ends its attempt.
Drop(c) ==
    LET p == existing[c]
    IN  /\ pc[c] = "drop"
        /\ \/ /\ Exists(p) \/ Kind[c] = "c"
              /\ dir' = [dir EXCEPT ![p] = None]
              /\ Goto(c, "create")
              /\ UNCHANGED <<reqvars, meta, iovars>>
           \/ /\ RemoveFaults /\ weather # "calm" /\ Kind[c] = "c"
              /\ Goto(c, "create")
              /\ UNCHANGED <<dir, reqvars, meta, iovars>>
           \/ /\ ~Exists(p) /\ Kind[c] = "py"
              /\ Exit(c)
              /\ UNCHANGED dir
        /\ UNCHANGED <<store, data, claimed, weather>>

\* Mutant: the partial is always opened with "wb".
CreateTruncates(c) ==
    LET p == Partial(c)
    IN  /\ pc[c] = "create" /\ job[c].dest \notin LongDest
        /\ \E i \in IF Exists(p) THEN {dir[p]} ELSE FreeInode :
              /\ dir' = [dir EXCEPT ![p] = i]
              /\ data' = [data EXCEPT ![i] = <<>>]
              /\ fd' = [fd EXCEPT ![c] = i]
        /\ remaining' = [remaining EXCEPT ![c] = meta[c].size - meta[c].start]
        /\ Goto(c, "body")
        /\ UNCHANGED <<store, reqvars, meta, wire, buf, claimed, weather>>

\* Mutant: the body is written under the local name itself.
CreateInPlace(c) ==
    LET d == job[c].dest
    IN  /\ pc[c] = "create" /\ d \notin LongDest
        /\ \E i \in IF Exists(d) THEN {dir[d]} ELSE FreeInode :
              /\ dir' = [dir EXCEPT ![d] = i]
              /\ data' = [data EXCEPT ![i] = <<>>]
              /\ fd' = [fd EXCEPT ![c] = i]
        /\ remaining' = [remaining EXCEPT ![c] = meta[c].size - meta[c].start]
        /\ Goto(c, "body")
        /\ UNCHANGED <<store, reqvars, meta, wire, buf, claimed, weather>>

\* open(partial, "ab" if start else "wb")
Create(c) ==
    LET p == Partial(c)
    IN  /\ pc[c] = "create" /\ job[c].dest \notin LongDest
        /\ \E i \in IF Exists(p) THEN {dir[p]} ELSE FreeInode :
              /\ dir' = [dir EXCEPT ![p] = i]
              /\ data' = [data EXCEPT ![i] =
                    IF Exists(p) /\ meta[c].start > 0 THEN @ ELSE <<>>]
              /\ fd' = [fd EXCEPT ![c] = i]
        /\ remaining' = [remaining EXCEPT ![c] = meta[c].size - meta[c].start]
        /\ Goto(c, "body")
        /\ UNCHANGED <<store, reqvars, meta, wire, buf, claimed, weather>>

\* The partial cannot be opened: the file system refuses its name each time, or
\* something is wrong this time.
CreateFails(c) ==
    /\ pc[c] = "create"
    /\ job[c].dest \in LongDest \/ weather # "calm"
    /\ Exit(c)
    /\ UNCHANGED <<store, fsvars, claimed, weather>>

\* The bytes s of a file after some are written behind the first at ones.
WrittenAt(s, at, bytes) ==
    IF bytes = <<>> THEN s
    ELSE [j \in 1..Larger(Len(s), at + Len(bytes)) |->
             IF j \in (at + 1)..(at + Len(bytes)) THEN bytes[j - at]
             ELSE IF j <= Len(s) THEN s[j] ELSE Zero]

\* A file opened with "ab" is written at its end, whoever made it longer; one opened
\* with "wb" behind what the client itself has written.
Flushed(c, bytes) ==
    LET s == data[fd[c]]
        at == IF meta[c].start > 0 THEN Len(s)
              ELSE meta[c].size - remaining[c] - Len(buf[c])
    IN  [data EXCEPT ![fd[c]] = WrittenAt(s, at, bytes)]

\* How many bytes one read of the body yields: what there is, for Python; for
\* C, exactly what it asked for.
ReadSizes(c) ==
    LET want == Smaller(ChunkSize, remaining[c])
    IN  IF Kind[c] = "py" THEN 1..Smaller(want, Len(wire[c]))
        ELSE {want} \cap 1..Len(wire[c])

Recv(c) ==
    /\ pc[c] = "body"
    /\ remaining[c] > 0
    /\ \E k \in ReadSizes(c) :
          \E chunk \in {SubSeq(wire[c], 1, k)} \cup
                       (IF weather = "rough" THEN {[j \in 1..k |-> Garbage]} ELSE {}) :
             /\ wire' = [wire EXCEPT ![c] = SubSeq(@, k + 1, Len(@))]
             /\ remaining' = [remaining EXCEPT ![c] = @ - k]
             /\ \/ /\ buf' = [buf EXCEPT ![c] = @ \o chunk]
                   /\ UNCHANGED data
                \/ /\ buf' = [buf EXCEPT ![c] = <<>>]
                   /\ data' = Flushed(c, buf[c] \o chunk)
    /\ UNCHANGED <<store, dir, pc, reqvars, meta, fd, claimed, weather>>

Close(c) ==
    /\ pc[c] = "body"
    /\ remaining[c] = 0
    /\ data' = Flushed(c, buf[c])
    /\ buf' = [buf EXCEPT ![c] = <<>>]
    /\ fd' = [fd EXCEPT ![c] = None]
    /\ Goto(c, "verify")
    /\ UNCHANGED <<store, dir, reqvars, meta, wire, remaining, claimed, weather>>

\* Mutant: the hash of what was received is not compared.
VerifyUnchecked(c) ==
    /\ pc[c] = "verify"
    /\ Exists(Partial(c))
    /\ Goto(c, "rename")
    /\ UNCHANGED <<store, fsvars, reqvars, meta, iovars, claimed, weather>>

\* Mutant: a partial with the wrong hash is kept.
VerifyKeeps(c) ==
    LET p == Partial(c)
        good == Exists(p) /\ Sha(data[dir[p]]) = meta[c].digest
    IN  /\ pc[c] = "verify"
        /\ \/ /\ good
              /\ Goto(c, "rename")
              /\ UNCHANGED <<reqvars, meta, iovars>>
           \/ /\ ~good
              /\ Exit(c)
        /\ UNCHANGED <<store, fsvars, claimed, weather>>

Verify(c) ==
    LET p == Partial(c)
        good == Exists(p) /\ Sha(data[dir[p]]) = meta[c].digest
    IN  /\ pc[c] = "verify"
        /\ \/ /\ good
              /\ Goto(c, "rename")
              /\ UNCHANGED <<dir, reqvars, meta, iovars>>
           \/ /\ ~good
              /\ Exit(c)
              /\ dir' = [dir EXCEPT ![p] = None]
        /\ UNCHANGED <<store, data, claimed, weather>>

\* os.replace and rename take the name over if it exists by now.
Rename(c) ==
    LET p == Partial(c)
        d == job[c].dest
    IN  /\ pc[c] = "rename"
        /\ \/ /\ Exists(p)
              /\ dir' = [dir EXCEPT ![d] = dir[p], ![p] = None]
              /\ claimed' = [claimed EXCEPT ![d] = meta[c].digest]
              /\ Exit(c)
           \/ /\ ~Exists(p)
              /\ Exit(c)
              /\ UNCHANGED <<dir, claimed>>
        /\ UNCHANGED <<store, data, weather>>

-----------------------------------------------------------------------------
(* What goes wrong.                                                        *)

\* The client's read fails: the connection is cut, or the peer has nothing more
\* to send and one side times out.  What the file object holds is flushed.
Lost(c) ==
    /\ \/ pc[c] \in Serving /\ weather # "calm"
       \/ pc[c] = "body" /\ remaining[c] > 0 /\ (weather # "calm" \/ ReadSizes(c) = {})
    /\ data' = IF pc[c] = "body" THEN Flushed(c, buf[c]) ELSE data
    /\ Exit(c)
    /\ UNCHANGED <<store, dir, claimed, weather>>

\* The client is killed: what its file object holds is gone.
Kill(c) ==
    /\ weather # "calm"
    /\ pc[c] # "off"
    /\ Exit(c)
    /\ UNCHANGED <<store, fsvars, claimed, weather>>

\* The file behind a remote name is replaced, or removed.
Replace(r) ==
    /\ weather = "rough"
    /\ \E content \in Content \cup {None} :
          store' = [store EXCEPT ![r] = content]
    /\ UNCHANGED <<fsvars, pc, reqvars, meta, iovars, claimed, weather>>

CalmDown ==
    /\ weather # "calm"
    /\ weather' = "calm"
    /\ UNCHANGED <<store, fsvars, pc, reqvars, meta, iovars, claimed>>

-----------------------------------------------------------------------------

Attempt(c) ==
    \/ \E d \in Dest : Begin(c, d)
    \/ ServeStat(c) \/ ServeHash(c) \/ ServeOpen(c) \/ Drop(c) \/ Create(c)
    \/ CreateFails(c) \/ Recv(c) \/ Close(c) \/ Verify(c) \/ Rename(c) \/ Lost(c)

Next ==
    \/ \E c \in Client : Attempt(c) \/ Kill(c)
    \/ \E r \in Remote : Replace(r)
    \/ CalmDown

Spec == Init /\ [][Next]_vars

\* An attempt under way goes on or times out, and the user keeps trying each name,
\* with the one client or the other.
FairSpec ==
    /\ Spec
    /\ \A c \in Client : WF_vars(Attempt(c))
    /\ \A d \in Dest : SF_vars(\E c \in Client : Begin(c, d))

-----------------------------------------------------------------------------

TypeOK ==
    /\ store \in [Remote -> Content \cup {None}]
    /\ dir \in [Path -> Inode \cup {None}]
    /\ \A i \in Inode : data[i] \in Seq(Byte)
    /\ pc \in [Client -> PC]
    /\ \A c \in Client :
          /\ job[c] = None <=> pc[c] = "off"
          /\ existing[c] \in PartialPath \cup {None}
          /\ offset[c] \in Nat /\ remaining[c] \in Nat
          /\ meta[c] = None <=> pc[c] \in {"off", "stat"}
          /\ fd[c] = None <=> pc[c] # "body"
    /\ fd \in [Client -> Inode \cup {None}]
    /\ claimed \in [Dest -> Digest \cup {None}]
    /\ weather \in {"mild", "rough", "calm"}

\* What a client has reported as downloaded and verified is, from then on, a
\* file with the hash the server stated for it: nothing is presented as
\* finished until its hash checks out, and no later attempt touches it.
DestVerified ==
    \A d \in Dest : Exists(d) => Sha(data[dir[d]]) = claimed[d]

IsPrefixOf(s, t) == Len(s) <= Len(t) /\ s = SubSeq(t, 1, Len(s))

\* A partial left by any sequence of losses and kills, of either client, is the
\* beginning of the file its token names, so that resuming it can succeed: do_get
\* and rtrv_do_get append exactly what handle_get sends from the offset they state.
PartialIsPrefix ==
    weather = "mild" => \A p \in PartialPath : Exists(p) =>
        \E x \in Content :
            TokenOf[Sha(x)] = partial_token(p) /\ IsPrefixOf(data[dir[p]], x)

\* A local name has at most one partial: with two, find_partial would find
\* none and the bytes of both would be lost for good.
AtMostOnePartial ==
    \A p, q \in PartialPath : Exists(p) /\ Exists(q) /\ p[1] = q[1] => p = q

\* No attempt shortens or overwrites a partial that keeps its name: what was saved
\* is resumed from or, when it is of no use, removed.
PartialsOnlyGrow ==
    [][\A p \in PartialPath : dir[p] # None /\ dir'[p] # None =>
          IsPrefixOf(data[dir[p]], data'[dir'[p]])]_vars

\* What the downloads implement: local names that are delivered once, whole and
\* verified, and left alone by every later attempt.
Files == INSTANCE VerifiedFiles
    WITH files <- [d \in Dest |-> IF Exists(d) THEN data[dir[d]] ELSE None],
         told <- claimed

FilesSpec == Files!Spec

\* Once the network and the server's files are left alone, trying again ends with
\* the file in place.
DownloadFinishes ==
    weather = "calm" /\ (\A r \in Remote : store[r] # None) ~> \A d \in Dest : Exists(d)

\* A partial that is larger than a remote file.
Oversize ==
    \E p \in PartialPath, r \in Remote :
        Exists(p) /\ store[r] # None /\ Len(data[dir[p]]) > Len(store[r])

\* The same, with the two ways in which do_get and rtrv_do_get can fail for good: a
\* name whose partial the file system does not take, and a partial larger than what
\* is asked for.  No damage, loss or replacement leaves any other trap behind.
OnlyOversizeStalls ==
    weather = "calm" /\ (\A r \in Remote : store[r] # None)
        ~> (\A d \in Dest \ LongDest : Exists(d)) \/ Oversize

=============================================================================

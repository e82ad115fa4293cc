------------------------------- MODULE Upload -------------------------------
(***************************************************************************)
(* The server's upload path (retriever/server.py: handle_put and           *)
(* _receive_upload): threads that share one directory and the _in_flight   *)
(* set, each receiving a PUT into a partial file, verifying its hash and   *)
(* publishing it under the requested name with os.link.                    *)
(*                                                                         *)
(* The directory maps paths to inodes, because publication makes a second  *)
(* hard link to the partial's inode before the partial's name is removed.  *)
(* The client is arbitrary: it may state any size and hash, send any       *)
(* bytes, and vanish at any time.  The process may be killed and restarted *)
(* at any time; a killed process loses what its file objects had buffered. *)
(***************************************************************************)
EXTENDS Integers, Sequences

CONSTANTS
    Session,         \* connection threads (at most MAX_CLIENTS of them)
    Name,            \* file names a client may state
    LegalName,       \* the ones check_filename accepts
    LongName,        \* legal names whose partial's name exceeds NAME_MAX
    Digest,          \* SHA-256 hashes a client may state
    Token,           \* resume tokens: hash prefixes
    TokenOf,         \* the first TOKEN_SIZE bytes of a hash
    Byte,
    FileSize,        \* sizes a client may state
    MAX_FILE_SIZE,
    ChunkSize,       \* most bytes one recv returns (65536 in the code)
    Inode,
    None,
    DiskFaults,      \* whether system calls on files may fail
    UnlinkFaults,    \* whether the removal of a published partial may fail, too
    Sha(_)           \* SHA-256, uninterpreted: nothing below needs more

ASSUME UploadAssumption ==
    /\ LongName \subseteq LegalName /\ LegalName \subseteq Name
    /\ TokenOf \in [Digest -> Token]
    /\ FileSize \subseteq Nat /\ MAX_FILE_SIZE \in Nat
    /\ ChunkSize \in Nat \ {0}
    /\ None \notin Inode /\ None \notin Session
    /\ DiskFaults \in BOOLEAN /\ UnlinkFaults \in BOOLEAN

ASSUME ContentAssumption == None \notin Seq(Byte)

VARIABLES
    up,              \* the server process is running
    dir,             \* path -> inode, or None where there is no entry
    data,            \* inode -> bytes the file holds
    in_flight,       \* partials some thread is receiving into
    in_flight_lock,  \* thread holding _in_flight_lock, or None
    pc,              \* where each thread is
    req,             \* the PUT request each thread is handling
    fd,              \* inode each thread has open for appending
    written,         \* bytes of the file each thread accounts for
    buf,             \* bytes written to the file object, not yet flushed
    reply,           \* last verdict sent on each connection
    acked            \* name -> hashes acknowledged with the final OK

fsvars == <<dir, data>>
lockvars == <<in_flight, in_flight_lock>>
iovars == <<fd, written, buf>>
vars == <<up, dir, data, in_flight, in_flight_lock, pc, req, fd, written, buf,
          reply, acked>>

-----------------------------------------------------------------------------

PartialPath == LegalName \X Token

Path == LegalName \cup PartialPath

Request == [name : Name, digest : Digest, file_size : FileSize]

\* Mutant: the whole hash in the partial's name, not its first TOKEN_SIZE bytes.
partial_name_whole_hash(name, digest) == <<name, digest>>

\* The token in the name ties a partial to the content it is a part of.
partial_name(name, digest) == <<name, TokenOf[digest]>>

check_filename(name) == name \in LegalName

sha256_file(path) == Sha(data[dir[path]])

Exists(path) == dir[path] # None

Unlinked(path) == [dir EXCEPT ![path] = None]

\* Inodes the file system may hand out: no entry and no open file refers to it.
FreeInode ==
    {i \in Inode : (\A p \in Path : dir[p] # i) /\ (\A s \in Session : fd[s] # i)}

Chunks(n) == UNION {[1..k -> Byte] : k \in 1..n}

Smaller(m, n) == IF m < n THEN m ELSE n

Partial(s) == partial_name(req[s].name, req[s].digest)

\* The try block of handle_put: the thread's partial is in _in_flight.
Receiving == {"resume", "open", "body", "verify", "link", "unlink", "verdict",
              "release", "unwind", "raise"}

PC == {"off", "command", "lock", "admit"} \cup Receiving

Verdict == {"OK", "MALFORMED", "BAD_NAME", "TOO_LARGE", "ALREADY_EXISTS", "CORRUPT",
            "INTERNAL"}

-----------------------------------------------------------------------------

Goto(s, label) == pc' = [pc EXCEPT ![s] = label]

Send(s, verdict) == reply' = [reply EXCEPT ![s] = verdict]

Init ==
    /\ up = FALSE
    /\ dir = [p \in Path |-> None]
    /\ data = [i \in Inode |-> <<>>]
    /\ in_flight = {}
    /\ in_flight_lock = None
    /\ pc = [s \in Session |-> "off"]
    /\ req = [s \in Session |-> None]
    /\ fd = [s \in Session |-> None]
    /\ written = [s \in Session |-> 0]
    /\ buf = [s \in Session |-> <<>>]
    /\ reply = [s \in Session |-> None]
    /\ acked = [n \in LegalName |-> <<>>]

\* start_server: partials older than PARTIAL_MAX_AGE are swept before the first
\* connection is accepted.  Which ones are old is left open.
Start ==
    /\ ~up
    /\ up' = TRUE
    /\ \E stale \in SUBSET {p \in PartialPath : Exists(p)} :
          dir' = [p \in Path |-> IF p \in stale THEN None ELSE dir[p]]
    /\ UNCHANGED <<data, lockvars, pc, req, iovars, reply, acked>>

\* The process is killed: files stay, memory (buffered bytes included) does not.
Crash ==
    /\ up
    /\ up' = FALSE
    /\ in_flight' = {}
    /\ in_flight_lock' = None
    /\ pc' = [s \in Session |-> "off"]
    /\ req' = [s \in Session |-> None]
    /\ fd' = [s \in Session |-> None]
    /\ written' = [s \in Session |-> 0]
    /\ buf' = [s \in Session |-> <<>>]
    /\ reply' = [s \in Session |-> None]
    /\ UNCHANGED <<fsvars, acked>>

\* A connection is accepted and its HELLO answered.
Accept(s) ==
    /\ up
    /\ pc[s] = "off"
    /\ Goto(s, "command")
    /\ Send(s, None)
    /\ UNCHANGED <<up, fsvars, lockvars, req, iovars, acked>>

\* The thread is back at the top of handle_client's loop, or has closed.
Finished(s, label) ==
    /\ Goto(s, label)
    /\ req' = [req EXCEPT ![s] = None]
    /\ fd' = [fd EXCEPT ![s] = None]
    /\ written' = [written EXCEPT ![s] = 0]
    /\ buf' = [buf EXCEPT ![s] = <<>>]

\* A payload that is not laid out as a PUT is a protocol violation: handle_client
\* answers it and closes.
PutMalformed(s) ==
    /\ pc[s] = "command"
    /\ Finished(s, "off")
    /\ Send(s, "MALFORMED")
    /\ UNCHANGED <<up, fsvars, lockvars, acked>>

\* The checks handle_put makes before it touches the shared set, in its order.
\* A refusal leaves the session open for the next command.
PutRefuse(s) ==
    /\ pc[s] = "command"
    /\ \E r \in Request :
          \/ /\ ~check_filename(r.name)
             /\ Send(s, "BAD_NAME")
          \/ /\ check_filename(r.name)
             /\ r.file_size > MAX_FILE_SIZE
             /\ Send(s, "TOO_LARGE")
          \/ /\ check_filename(r.name)
             /\ r.file_size <= MAX_FILE_SIZE
             /\ Exists(r.name)
             /\ Send(s, "ALREADY_EXISTS")
    /\ UNCHANGED <<up, fsvars, lockvars, pc, req, iovars, acked>>

\* Mutant: no existence check before the upload.
PutAcceptUnchecked(s) ==
    /\ pc[s] = "command"
    /\ \E r \in Request :
          /\ check_filename(r.name)
          /\ r.file_size <= MAX_FILE_SIZE
          /\ req' = [req EXCEPT ![s] = r]
    /\ Goto(s, "lock")
    /\ Send(s, None)
    /\ UNCHANGED <<up, fsvars, lockvars, iovars, acked>>

\* The existence check is advisory: the name may be taken any time after it.
PutAccept(s) ==
    /\ pc[s] = "command"
    /\ \E r \in Request :
          /\ check_filename(r.name)
          /\ r.file_size <= MAX_FILE_SIZE
          /\ ~Exists(r.name)
          /\ req' = [req EXCEPT ![s] = r]
    /\ Goto(s, "lock")
    /\ Send(s, None)
    /\ UNCHANGED <<up, fsvars, lockvars, iovars, acked>>

PutLock(s) ==
    /\ pc[s] = "lock"
    /\ in_flight_lock = None
    /\ in_flight_lock' = s
    /\ Goto(s, "admit")
    /\ UNCHANGED <<up, fsvars, in_flight, req, iovars, reply, acked>>

\* Mutant: the claim is recorded, and not checked.
PutAdmitUnchecked(s) ==
    /\ pc[s] = "admit"
    /\ in_flight' = in_flight \cup {Partial(s)}
    /\ in_flight_lock' = None
    /\ Goto(s, "resume")
    /\ UNCHANGED <<up, fsvars, req, iovars, reply, acked>>

\* Nobody receives into this partial: claim it.
PutAdmit(s) ==
    /\ pc[s] = "admit"
    /\ Partial(s) \notin in_flight
    /\ in_flight' = in_flight \cup {Partial(s)}
    /\ in_flight_lock' = None
    /\ Goto(s, "resume")
    /\ UNCHANGED <<up, fsvars, req, iovars, reply, acked>>

\* Mutant: the lock is not released when the reply cannot be sent.
PutBusyKeepsLock(s) ==
    /\ pc[s] = "admit"
    /\ Partial(s) \in in_flight
    /\ \/ Finished(s, "command") /\ Send(s, "ALREADY_EXISTS") /\ in_flight_lock' = None
       \/ Finished(s, "off") /\ Send(s, None) /\ UNCHANGED in_flight_lock
    /\ UNCHANGED <<up, fsvars, in_flight, acked>>

\* Somebody does: refuse.  The reply is sent with the lock held, and the lock
\* is released whether or not the send succeeds.
PutBusy(s) ==
    /\ pc[s] = "admit"
    /\ Partial(s) \in in_flight
    /\ in_flight_lock' = None
    /\ \/ Finished(s, "command") /\ Send(s, "ALREADY_EXISTS")
       \/ Finished(s, "off") /\ Send(s, None)
    /\ UNCHANGED <<up, fsvars, in_flight, acked>>

\* Mutant: a partial larger than the stated size is appended to.
PutResumeKeepsOversize(s) ==
    LET p == Partial(s)
        have == IF Exists(p) THEN Len(data[dir[p]]) ELSE 0
    IN  /\ pc[s] = "resume"
        /\ written' = [written EXCEPT ![s] = IF have > req[s].file_size THEN 0 ELSE have]
        /\ Goto(s, "open")
        /\ UNCHANGED <<up, dir, data, lockvars, req, fd, buf, reply, acked>>

\* What the partial holds is where the client resumes; a partial larger than
\* the stated size is removed.  The resume offset is sent.
PutResume(s) ==
    LET p == Partial(s)
        have == IF Exists(p) THEN Len(data[dir[p]]) ELSE 0
    IN  /\ pc[s] = "resume"
        /\ \/ /\ have <= req[s].file_size
              /\ written' = [written EXCEPT ![s] = have]
              /\ UNCHANGED dir
           \/ /\ have > req[s].file_size
              /\ written' = [written EXCEPT ![s] = 0]
              /\ dir' = Unlinked(p)
        /\ Goto(s, "open")
        /\ UNCHANGED <<up, data, lockvars, req, fd, buf, reply, acked>>

\* open(partial, "ab") creates the file where there is none.
PutOpen(s) ==
    LET p == Partial(s)
    IN  /\ pc[s] = "open"
        /\ req[s].name \notin LongName
        /\ \/ /\ Exists(p)
              /\ fd' = [fd EXCEPT ![s] = dir[p]]
              /\ UNCHANGED fsvars
           \/ /\ ~Exists(p)
              /\ \E i \in FreeInode :
                    /\ dir' = [dir EXCEPT ![p] = i]
                    /\ data' = [data EXCEPT ![i] = <<>>]
                    /\ fd' = [fd EXCEPT ![s] = i]
        /\ Goto(s, "body")
        /\ UNCHANGED <<up, lockvars, req, written, buf, reply, acked>>

Flushed(s, bytes) == [data EXCEPT ![fd[s]] = @ \o bytes]

\* One recv and one out.write: the bytes stay in the file object's buffer, or
\* the buffer goes to the end of the file.
PutRecv(s) ==
    /\ pc[s] = "body"
    /\ written[s] < req[s].file_size
    /\ \E chunk \in Chunks(Smaller(ChunkSize, req[s].file_size - written[s])) :
          /\ written' = [written EXCEPT ![s] = @ + Len(chunk)]
          /\ \/ /\ buf' = [buf EXCEPT ![s] = @ \o chunk]
                /\ UNCHANGED data
             \/ /\ buf' = [buf EXCEPT ![s] = <<>>]
                /\ data' = Flushed(s, buf[s] \o chunk)
    /\ UNCHANGED <<up, dir, lockvars, pc, req, fd, reply, acked>>

\* The body is complete; leaving the with block flushes and closes the file.
PutClose(s) ==
    /\ pc[s] = "body"
    /\ written[s] >= req[s].file_size
    /\ data' = Flushed(s, buf[s])
    /\ buf' = [buf EXCEPT ![s] = <<>>]
    /\ fd' = [fd EXCEPT ![s] = None]
    /\ Goto(s, "verify")
    /\ UNCHANGED <<up, dir, lockvars, req, written, reply, acked>>

\* Mutant: the hash is not compared.
PutVerifyUnchecked(s) ==
    /\ pc[s] = "verify"
    /\ Exists(Partial(s))
    /\ Goto(s, "link")
    /\ UNCHANGED <<up, fsvars, lockvars, req, iovars, reply, acked>>

PutVerify(s) ==
    LET p == Partial(s)
    IN  /\ pc[s] = "verify"
        /\ Exists(p)
        /\ \/ /\ sha256_file(p) = req[s].digest
              /\ Goto(s, "link")
              /\ UNCHANGED <<dir, reply>>
           \/ /\ sha256_file(p) # req[s].digest
              /\ dir' = Unlinked(p)
              /\ Send(s, "CORRUPT")
              /\ Goto(s, "release")
        /\ UNCHANGED <<up, data, lockvars, req, iovars, acked>>

\* Mutant: publication by os.replace, which takes the name from its file.
PutLinkReplaces(s) ==
    LET p == Partial(s)
    IN  /\ pc[s] = "link"
        /\ Exists(p)
        /\ dir' = [dir EXCEPT ![req[s].name] = dir[p]]
        /\ Goto(s, "unlink")
        /\ UNCHANGED <<up, data, lockvars, req, iovars, reply, acked>>

\* os.link(partial, name) is atomic and fails if the name is taken.
PutLink(s) ==
    LET p == Partial(s)
        name == req[s].name
    IN  /\ pc[s] = "link"
        /\ Exists(p)
        /\ \/ /\ ~Exists(name)
              /\ dir' = [dir EXCEPT ![name] = dir[p]]
              /\ Goto(s, "unlink")
              /\ UNCHANGED reply
           \/ /\ Exists(name)
              /\ dir' = Unlinked(p)
              /\ Send(s, "ALREADY_EXISTS")
              /\ Goto(s, "release")
        /\ UNCHANGED <<up, data, lockvars, req, iovars, acked>>

\* Mutant: a partial that cannot be removed is left, and the upload acknowledged.
PutUnlinkIgnoresFailure(s) ==
    /\ pc[s] = "unlink"
    /\ Exists(Partial(s))
    /\ dir' \in {dir, Unlinked(Partial(s))}
    /\ Goto(s, "verdict")
    /\ UNCHANGED <<up, data, lockvars, req, iovars, reply, acked>>

PutUnlink(s) ==
    /\ pc[s] = "unlink"
    /\ Exists(Partial(s))
    /\ dir' = Unlinked(Partial(s))
    /\ Goto(s, "verdict")
    /\ UNCHANGED <<up, data, lockvars, req, iovars, reply, acked>>

PutOk(s) ==
    /\ pc[s] = "verdict"
    /\ Send(s, "OK")
    /\ acked' = [acked EXCEPT ![req[s].name] = Append(@, req[s].digest)]
    /\ Goto(s, "release")
    /\ UNCHANGED <<up, fsvars, lockvars, req, iovars>>

\* Mutant: the claim is given up after a return only, not in a finally clause.
PutReleaseOnReturn(s) ==
    /\ in_flight_lock = None
    /\ \/ /\ pc[s] = "release"
          /\ Finished(s, "command")
          /\ in_flight' = in_flight \ {Partial(s)}
          /\ UNCHANGED reply
       \/ /\ pc[s] = "unwind"
          /\ Finished(s, "off")
          /\ UNCHANGED <<in_flight, reply>>
       \/ /\ pc[s] = "raise"
          /\ Finished(s, "off")
          /\ Send(s, "INTERNAL")
          /\ UNCHANGED in_flight
    /\ UNCHANGED <<up, fsvars, in_flight_lock, acked>>

\* The finally clause of handle_put, after a return, a lost connection or an
\* OSError; handle_client answers the last with INTERNAL, and closes on both.
PutRelease(s) ==
    /\ in_flight_lock = None
    /\ \/ pc[s] = "release" /\ Finished(s, "command") /\ UNCHANGED reply
       \/ pc[s] = "unwind" /\ Finished(s, "off") /\ UNCHANGED reply
       \/ pc[s] = "raise" /\ Finished(s, "off") /\ Send(s, "INTERNAL")
    /\ in_flight' = in_flight \ {Partial(s)}
    /\ UNCHANGED <<up, fsvars, in_flight_lock, acked>>

-----------------------------------------------------------------------------

\* Mutant: what the file object had buffered is dropped with the connection.
DisconnectDropsBuffer(s) ==
    \/ /\ pc[s] = "command"
       /\ Finished(s, "off")
       /\ Send(s, None)
       /\ UNCHANGED <<up, fsvars, lockvars, acked>>
    \/ /\ pc[s] \in {"open", "body", "verdict", "release"}
       /\ buf' = [buf EXCEPT ![s] = <<>>]
       /\ fd' = [fd EXCEPT ![s] = None]
       /\ Goto(s, "unwind")
       /\ Send(s, None)
       /\ UNCHANGED <<up, fsvars, lockvars, req, written, acked>>

\* The socket fails, closes early or stays silent for SOCKET_TIMEOUT while the
\* thread reads or writes it.  Inside the body the with block still flushes
\* what arrived, and the partial is kept.
Disconnect(s) ==
    \/ /\ pc[s] = "command"
       /\ Finished(s, "off")
       /\ Send(s, None)
       /\ UNCHANGED <<up, fsvars, lockvars, acked>>
    \/ /\ pc[s] \in {"open", "body", "verdict", "release"}
       /\ data' = IF pc[s] = "body" THEN Flushed(s, buf[s]) ELSE data
       /\ buf' = [buf EXCEPT ![s] = <<>>]
       /\ fd' = [fd EXCEPT ![s] = None]
       /\ Goto(s, "unwind")
       /\ Send(s, None)
       /\ UNCHANGED <<up, dir, lockvars, req, written, acked>>

\* A call on a file raises OSError.  Buffered bytes may be lost when the flush
\* is what failed.
Raise(s) ==
    /\ \/ data' = IF pc[s] = "body" THEN Flushed(s, buf[s]) ELSE data
       \/ UNCHANGED data
    /\ buf' = [buf EXCEPT ![s] = <<>>]
    /\ fd' = [fd EXCEPT ![s] = None]
    /\ Goto(s, "raise")
    /\ UNCHANGED <<up, dir, lockvars, req, written, reply, acked>>

\* A full or failing disk, or a directory that no longer permits removal.
DiskError(s) ==
    /\ \/ DiskFaults /\ pc[s] \in {"resume", "open", "body", "verify", "link"}
       \/ UnlinkFaults /\ pc[s] = "unlink"
    /\ Raise(s)

\* ENAMETOOLONG, and the partial's entry gone from under the thread.
PathError(s) ==
    /\ \/ pc[s] = "open" /\ req[s].name \in LongName
       \/ pc[s] \in {"verify", "link", "unlink"} /\ ~Exists(Partial(s))
    /\ Raise(s)

-----------------------------------------------------------------------------

\* What a thread does by itself, needing neither its client nor the lock.
Run(s) ==
    \/ PutAdmit(s) \/ PutBusy(s) \/ PutResume(s) \/ PutOpen(s) \/ PutClose(s)
    \/ PutVerify(s) \/ PutLink(s) \/ PutUnlink(s) \/ PutOk(s) \/ PathError(s)

SessionNext(s) ==
    \/ Accept(s) \/ PutMalformed(s) \/ PutRefuse(s) \/ PutAccept(s) \/ PutLock(s) \/ Run(s)
    \/ PutRecv(s) \/ PutRelease(s) \/ Disconnect(s) \/ DiskError(s)

Next == Start \/ Crash \/ \E s \in Session : SessionNext(s)

Spec == Init /\ [][Next]_vars

\* Threads are scheduled; a recv returns, fails or times out; a thread that
\* wants the lock gets it if it is free again and again.
Fairness ==
    \A s \in Session :
        /\ WF_vars(Run(s))
        /\ WF_vars(PutRecv(s) \/ Disconnect(s))
        /\ SF_vars(PutLock(s))
        /\ SF_vars(PutRelease(s))

FairSpec == Spec /\ Fairness

-----------------------------------------------------------------------------

TypeOK ==
    /\ up \in BOOLEAN
    /\ dir \in [Path -> Inode \cup {None}]
    /\ data \in [Inode -> Seq(Byte)]
    /\ in_flight \in SUBSET PartialPath
    /\ in_flight_lock \in Session \cup {None}
    /\ pc \in [Session -> PC]
    /\ req \in [Session -> Request \cup {None}]
    /\ fd \in [Session -> Inode \cup {None}]
    /\ written \in [Session -> Nat]
    /\ buf \in [Session -> Seq(Byte)]
    /\ reply \in [Session -> Verdict \cup {None}]
    /\ acked \in [LegalName -> Seq(Digest)]

\* _in_flight holds exactly the partials of the threads inside handle_put's try
\* block, and no two such threads share one: whatever way an upload ends, its
\* claim is given up with it and nobody else's is.
ClaimsAreExact ==
    /\ in_flight = {Partial(s) : s \in {t \in Session : pc[t] \in Receiving}}
    /\ \A s, t \in Session :
          s # t /\ pc[s] \in Receiving /\ pc[t] \in Receiving
             => Partial(s) # Partial(t)

\* While a body is being received, the bytes the thread has accounted for are
\* the ones in its file and buffer and no others, and never more than stated:
\* no second writer, and no resume from a stale size.
ReceivedBytesAccounted ==
    \A s \in Session : pc[s] = "body" =>
        /\ written[s] = Len(data[fd[s]]) + Len(buf[s])
        /\ written[s] <= req[s].file_size

\* No thread has a published file open for appending, although a killed server
\* leaves the published name and its partial as two links to one file.
PublishedNotOpen ==
    \A s \in Session, n \in LegalName : fd[s] # None => dir[n] # fd[s]

\* When a published partial cannot be removed, a thread that passed the existence
\* check before may open it and append to the published file; but then handle_put
\* has answered INTERNAL: a file whose name was acknowledged is open in no thread.
AcknowledgedNotOpen ==
    \A s \in Session, n \in LegalName :
        fd[s] # None /\ dir[n] = fd[s] => acked[n] = <<>>

\* A final OK is given at most once per name, and for good: the name exists and
\* its content has the acknowledged hash, whatever is uploaded or killed later.
AcknowledgedIsStored ==
    \A n \in LegalName :
        /\ Len(acked[n]) <= 1
        /\ acked[n] # <<>> => Exists(n) /\ Sha(data[dir[n]]) = acked[n][1]

\* A lost connection costs no byte that arrived: the partial then holds
\* everything the thread had received, for the next attempt to resume from.
InterruptedBytesKept ==
    [][\A s \in Session : pc[s] = "body" /\ pc'[s] = "unwind" =>
          /\ dir'[Partial(s)] = fd[s]
          /\ Len(data'[fd[s]]) = written[s]]_vars

\* What the uploads implement: a store in which a name is written once, with
\* content that has a stated hash, and never changes.
Store == INSTANCE WriteOnceStore
    WITH store <- [n \in LegalName |-> IF Exists(n) THEN data[dir[n]] ELSE None]

StoreSpec == Store!Spec

\* Every upload ends and gives up its partial, and every thread that asks for
\* the lock gets an answer, however clients behave.
UploadsEnd ==
    \A s \in Session :
        /\ pc[s] \in Receiving ~> pc[s] \notin Receiving
        /\ pc[s] = "lock" ~> pc[s] # "lock"

=============================================================================

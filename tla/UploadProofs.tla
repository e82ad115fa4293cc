---------------------------- MODULE UploadProofs ----------------------------
(***************************************************************************)
(* Proofs about Upload, for any number of threads, names, hashes and sizes.*)
(* Types and claims are unconditional.  The rest needs that no legal name  *)
(* is spelled like a partial.  Only that published files are not opened,   *)
(* and so never change, needs that the removal of a published partial does *)
(* not fail.                                                               *)
(***************************************************************************)
EXTENDS Upload, TLAPS

\* No legal name is the name of some upload's partial file.
PlainNames == LegalName \cap PartialPath = {}

-----------------------------------------------------------------------------
(* The inductive invariant.                                                *)

\* Inside handle_put, past its checks.
Putting == {"lock", "admit"} \cup Receiving

\* A thread inside handle_put has a request whose name passed check_filename.
RequestInv ==
    \A s \in Session : pc[s] \in Putting =>
        req[s] \in Request /\ req[s].name \in LegalName

\* No thread survives the process: partials are swept with nobody using them.
DownInv == ~up => \A s \in Session : pc[s] = "off"

\* The lock's holder is the thread inside its critical section.
LockInv ==
    \A s \in Session : pc[s] = "admit" <=> in_flight_lock = s

\* A thread has a file open, and bytes buffered, only while it receives a body.
FileInv ==
    \A s \in Session :
        /\ pc[s] = "body" => fd[s] # None /\ dir[Partial(s)] = fd[s]
        /\ pc[s] # "body" => fd[s] = None /\ buf[s] = <<>>

\* The size the resume offset was computed from is still the partial's size when
\* the partial is opened.
ResumeInv ==
    \A s \in Session : pc[s] = "open" =>
        /\ written[s] = IF Exists(Partial(s)) THEN Len(data[dir[Partial(s)]]) ELSE 0
        /\ written[s] <= req[s].file_size

\* From verification to publication the partial is the verified file.
Verified(s) ==
    /\ pc[s] \in {"verify", "link", "unlink"} => Exists(Partial(s))
    /\ pc[s] \in {"link", "unlink"} => sha256_file(Partial(s)) = req[s].digest
    /\ pc[s] = "unlink" => dir[req[s].name] = dir[Partial(s)]
    /\ pc[s] = "verdict" => /\ Exists(req[s].name)
                            /\ sha256_file(req[s].name) = req[s].digest

VerifiedInv == \A s \in Session : Verified(s)

\* Some thread has acknowledged the name or is about to.
Acknowledging(n) ==
    \/ acked[n] # <<>>
    \/ \E s \in Session : pc[s] \in {"unlink", "verdict"} /\ req[s].name = n

\* Two entries are links to one file only between publication and the removal of
\* the partial, or after a crash there; then no thread can be headed for that
\* partial, because its name is taken.  If the removal failed, some may be, but the
\* name is never acknowledged.
SharedPartial(p, n) ==
    /\ p[1] = n
    /\ \/ \E s \in Session : pc[s] = "unlink" /\ Partial(s) = p
       \/ \A s \in Session : pc[s] \in Putting => Partial(s) # p
       \/ UnlinkFaults /\ ~Acknowledging(n)

LinkInv ==
    /\ \A p, q \in PartialPath : dir[p] = dir[q] /\ Exists(p) => p = q
    /\ \A m, n \in LegalName : dir[m] = dir[n] /\ Exists(m) => m = n
    /\ \A p \in PartialPath, n \in LegalName :
          dir[p] = dir[n] /\ Exists(p) => SharedPartial(p, n)

\* The thread that published a name is the one that will acknowledge it.
AckInv ==
    \A s \in Session : pc[s] \in {"unlink", "verdict"} =>
        /\ acked[req[s].name] = <<>>
        /\ \A t \in Session : t # s /\ pc[t] \in {"unlink", "verdict"} =>
              req[t].name # req[s].name

IInv ==
    /\ TypeOK
    /\ RequestInv
    /\ DownInv
    /\ LockInv
    /\ ClaimsAreExact
    /\ FileInv
    /\ ResumeInv
    /\ ReceivedBytesAccounted
    /\ VerifiedInv
    /\ LinkInv
    /\ AckInv
    /\ AcknowledgedIsStored

-----------------------------------------------------------------------------
(* Facts about the operators.                                              *)

\* The partial of a thread inside handle_put is a path of the directory, and so
\* is the name it will be published under.
LEMMA PathFacts ==
    ASSUME TypeOK, RequestInv, NEW s \in Session, pc[s] \in Putting
    PROVE  /\ req[s] \in Request
           /\ req[s].name \in LegalName /\ req[s].name \in Path
           /\ req[s].digest \in Digest /\ req[s].file_size \in Nat
           /\ Partial(s) \in PartialPath /\ Partial(s) \in Path
           /\ Partial(s)[1] = req[s].name
BY UploadAssumption, Zenon
DEF TypeOK, RequestInv, Request, Partial, partial_name, PartialPath, Path

\* A chunk that recv returns is a nonempty sequence of bytes within its limit.
LEMMA ChunkFacts ==
    ASSUME NEW n \in Nat, NEW chunk \in Chunks(n)
    PROVE  chunk \in Seq(Byte) /\ Len(chunk) \in 1..n
<1>1. PICK k \in 1..n : chunk \in [1..k -> Byte]
  BY Zenon DEF Chunks
<1>. QED
  BY <1>1

\* A recv never asks for more than what is left of the body.
LEMMA SmallerBound ==
    ASSUME NEW m \in Nat, NEW n \in Nat
    PROVE  Smaller(m, n) \in 0..n
BY DEF Smaller

\* Flushing keeps a file a sequence of bytes.
LEMMA SeqFacts ==
    /\ <<>> \in Seq(Byte) /\ <<>> \in Seq(Digest)
    /\ \A b, c \in Seq(Byte) :
          /\ b \o c \in Seq(Byte)
          /\ Len(b) \in Nat /\ Len(b \o c) = Len(b) + Len(c)
          /\ b \o <<>> = b
    /\ Len(<<>>) = 0
OBVIOUS

\* The first acknowledgement of a name makes a list of one.
LEMMA SingletonFacts ==
    \A d : Append(<<>>, d) = <<d>> /\ Len(<<d>>) <= 1 /\ <<d>>[1] = d
OBVIOUS

\* A flush moves bytes from the buffer to the file and changes no total.
LEMMA FlushedLength ==
    \A d, b, c \in Seq(Byte) :
        Len(d \o (b \o c)) + Len(<<>>) = Len(d) + Len(b) + Len(c)
OBVIOUS

-----------------------------------------------------------------------------
(* Types, requests and the lock.                                           *)

\* A thread that receives a body has a file open.
OpenInv == \A s \in Session : pc[s] = "body" => fd[s] # None

Base == TypeOK /\ RequestInv /\ OpenInv

\* The base of the type invariant holds of an empty directory and idle threads.
LEMMA BaseInit == Init => Base /\ FileInv
<1>. SUFFICES ASSUME Init PROVE Base /\ FileInv
  BY Zenon
<1>1. TypeOK
  BY UploadAssumption, SeqFacts, Zenon DEF Init, TypeOK, PC
<1>2. RequestInv /\ OpenInv /\ FileInv
  BY UploadAssumption, Zenon DEF Init, RequestInv, OpenInv, FileInv, Putting, Receiving
<1>. QED
  BY <1>1, <1>2, Zenon DEF Base

\* A thread that leaves handle_put leaves well-typed bookkeeping behind.
LEMMA FinishedType ==
    ASSUME TypeOK, NEW s \in Session, NEW label \in PC, Finished(s, label)
    PROVE  /\ pc' \in [Session -> PC]
           /\ req' \in [Session -> Request \cup {None}]
           /\ fd' \in [Session -> Inode \cup {None}]
           /\ written' \in [Session -> Nat]
           /\ buf' \in [Session -> Seq(Byte)]
BY SeqFacts, Zenon DEF Finished, Goto, TypeOK

\* Appending to an open file keeps data a function to sequences of bytes.
LEMMA FlushedType ==
    ASSUME TypeOK, NEW s \in Session, fd[s] # None, NEW bytes \in Seq(Byte)
    PROVE  /\ Flushed(s, bytes) \in [Inode -> Seq(Byte)]
           /\ Flushed(s, bytes)[fd[s]] = data[fd[s]] \o bytes
           /\ \A i \in Inode : i # fd[s] => Flushed(s, bytes)[i] = data[i]
BY SeqFacts, Zenon DEF Flushed, TypeOK

\* Every step of the server keeps the variables' types.
LEMMA TypeStep == Base /\ [Next]_vars => TypeOK'
<1>. SUFFICES ASSUME Base, [Next]_vars PROVE TypeOK'
  BY Zenon
<1>. USE UploadAssumption, SeqFacts DEF Base, Goto, Send, fsvars, lockvars, iovars
<1>1. CASE Start
  BY <1>1, Zenon DEF Start, TypeOK
<1>2. CASE Crash
  BY <1>2, Zenon DEF Crash, TypeOK, PC
<1>3. ASSUME NEW s \in Session, SessionNext(s) PROVE TypeOK'
  <2>1. CASE Accept(s)
    BY <2>1, Zenon DEF Accept, TypeOK, PC
  <2>2. CASE PutRefuse(s)
    BY <2>2, Zenon DEF PutRefuse, TypeOK, PC, Verdict
  <2>22. CASE PutMalformed(s)
    BY <2>22, FinishedType, Zenon DEF PutMalformed, TypeOK, PC, Verdict
  <2>3. CASE PutAccept(s)
    BY <2>3 DEF PutAccept, TypeOK, PC
  <2>4. CASE PutLock(s)
    BY <2>4, Zenon DEF PutLock, TypeOK, PC
  <2>5. CASE PutAdmit(s)
    BY <2>5, PathFacts DEF PutAdmit, TypeOK, PC, Receiving, Putting
  <2>6. CASE PutBusy(s)
    BY <2>6, FinishedType, Zenon DEF PutBusy, TypeOK, PC, Verdict
  <2>7. CASE PutResume(s)
    <3>1. Partial(s) \in Path
      BY <2>7, PathFacts, Zenon DEF PutResume, Receiving, Putting
    <3>2. Exists(Partial(s)) => Len(data[dir[Partial(s)]]) \in Nat
      BY <3>1, Zenon DEF Exists, TypeOK
    <3>3. written' \in [Session -> Nat]
      <4>1. PICK n \in Nat : written' = [written EXCEPT ![s] = n]
        BY <2>7, <3>2, Zenon DEF PutResume
      <4>. QED
        BY <4>1, Zenon DEF TypeOK
    <3>4. dir' \in [Path -> Inode \cup {None}]
      BY <2>7, Zenon DEF PutResume, Unlinked, TypeOK
    <3>. QED
      BY <2>7, <3>3, <3>4, Zenon DEF PutResume, TypeOK, PC, Receiving
  <2>8. CASE PutOpen(s)
    <3>1. Partial(s) \in Path
      BY <2>8, PathFacts, Zenon DEF PutOpen, Receiving, Putting
    <3>2. ASSUME Exists(Partial(s)), fd' = [fd EXCEPT ![s] = dir[Partial(s)]],
                 UNCHANGED <<dir, data>>
          PROVE  TypeOK'
      <4>1. fd' \in [Session -> Inode \cup {None}]
        BY <3>1, <3>2, Zenon DEF TypeOK
      <4>. QED
        BY <2>8, <3>2, <4>1, Zenon DEF PutOpen, TypeOK, PC, Receiving
    <3>3. ASSUME NEW i \in Inode, dir' = [dir EXCEPT ![Partial(s)] = i],
                 data' = [data EXCEPT ![i] = <<>>], fd' = [fd EXCEPT ![s] = i]
          PROVE  TypeOK'
      BY <2>8, <3>1, <3>3, Zenon DEF PutOpen, TypeOK, PC, Receiving
    <3>. QED
      BY <2>8, <3>2, <3>3, Zenon DEF PutOpen, FreeInode
  <2>9. CASE PutClose(s)
    BY <2>9, Zenon DEF PutClose, Flushed, TypeOK, PC, Receiving, OpenInv
  <2>10. CASE PutVerify(s)
    BY <2>10, Zenon DEF PutVerify, Unlinked, TypeOK, PC, Receiving, Verdict
  <2>11. CASE PutLink(s)
    <3>1. Partial(s) \in Path /\ req[s].name \in Path
      BY <2>11, PathFacts, Zenon DEF PutLink, Receiving, Putting
    <3>2. dir' \in [Path -> Inode \cup {None}]
      BY <2>11, <3>1, Zenon DEF PutLink, Unlinked, TypeOK
    <3>. QED
      BY <2>11, <3>2, Zenon DEF PutLink, TypeOK, PC, Receiving, Verdict
  <2>12. CASE PutUnlink(s)
    BY <2>12, Zenon DEF PutUnlink, Unlinked, TypeOK, PC, Receiving
  <2>13. CASE PutOk(s)
    BY <2>13, PathFacts DEF PutOk, TypeOK, PC, Receiving, Putting, Verdict
  <2>14. CASE PathError(s)
    BY <2>14, Zenon DEF PathError, Raise, Flushed, TypeOK, PC, Receiving, OpenInv
  <2>15. CASE PutRecv(s)
    <3>1. req[s].file_size \in Nat /\ written[s] \in Nat /\ fd[s] # None
      BY <2>15, PathFacts, Zenon DEF PutRecv, Receiving, Putting, OpenInv, TypeOK
    <3>2. Smaller(ChunkSize, req[s].file_size - written[s]) \in Nat
      BY <2>15, <3>1 DEF PutRecv, Smaller
    <3>3. PICK chunk \in Chunks(Smaller(ChunkSize, req[s].file_size - written[s])) :
             /\ written' = [written EXCEPT ![s] = @ + Len(chunk)]
             /\ \/ /\ buf' = [buf EXCEPT ![s] = @ \o chunk]
                   /\ UNCHANGED data
                \/ /\ buf' = [buf EXCEPT ![s] = <<>>]
                   /\ data' = Flushed(s, buf[s] \o chunk)
      BY <2>15, Zenon DEF PutRecv
    <3>4. chunk \in Seq(Byte) /\ Len(chunk) \in Nat /\ buf[s] \o chunk \in Seq(Byte)
      BY <3>2, ChunkFacts, Zenon DEF TypeOK
    <3>5. data' \in [Inode -> Seq(Byte)]
      <4>1. CASE data' = data
        BY <4>1, Zenon DEF TypeOK
      <4>2. CASE data' = Flushed(s, buf[s] \o chunk)
        BY <3>1, <3>4, <4>2, FlushedType, Zenon
      <4>. QED
        BY <3>3, <4>1, <4>2, Zenon
    <3>6. buf' \in [Session -> Seq(Byte)]
      <4>1. CASE buf' = [buf EXCEPT ![s] = @ \o chunk]
        BY <3>4, <4>1, Zenon DEF TypeOK
      <4>2. CASE buf' = [buf EXCEPT ![s] = <<>>]
        BY <4>2, Zenon DEF TypeOK
      <4>. QED
        BY <3>3, <4>1, <4>2, Zenon
    <3>7. written' \in [Session -> Nat]
      BY <3>3, <3>4 DEF TypeOK
    <3>. QED
      BY <2>15, <3>5, <3>6, <3>7, Zenon DEF PutRecv, TypeOK
  <2>16. CASE PutRelease(s)
    <3>1. in_flight' \in SUBSET PartialPath
      BY <2>16, Zenon DEF PutRelease, TypeOK
    <3>. QED
      BY <2>16, <3>1, FinishedType, Zenon DEF PutRelease, TypeOK, PC, Verdict
  <2>17. CASE Disconnect(s)
    <3>1. data' \in [Inode -> Seq(Byte)]
      BY <2>17, FlushedType DEF Disconnect, TypeOK, OpenInv
    <3>2. CASE pc[s] = "command"
      BY <2>17, <3>2, FinishedType, Zenon DEF Disconnect, TypeOK, PC
    <3>3. CASE pc[s] # "command"
      <4>1. /\ buf' = [buf EXCEPT ![s] = <<>>] /\ fd' = [fd EXCEPT ![s] = None]
            /\ pc' = [pc EXCEPT ![s] = "unwind"] /\ reply' = [reply EXCEPT ![s] = None]
            /\ UNCHANGED <<up, dir, in_flight, in_flight_lock, req, written, acked>>
        BY <2>17, <3>3, Zenon DEF Disconnect
      <4>. QED
        BY <3>1, <4>1, Zenon DEF TypeOK, PC, Receiving
    <3>. QED
      BY <3>2, <3>3, Zenon
  <2>18. CASE DiskError(s)
    <3>1. data' \in [Inode -> Seq(Byte)]
      BY <2>18, FlushedType DEF DiskError, Raise, TypeOK, OpenInv
    <3>. QED
      BY <2>18, <3>1, Zenon DEF DiskError, Raise, TypeOK, PC, Receiving
  <2>. QED
    BY <1>3, <2>1, <2>2, <2>3, <2>4, <2>5, <2>6, <2>7, <2>8, <2>9, <2>10, <2>11,
       <2>12, <2>13, <2>14, <2>15, <2>16, <2>17, <2>18, <2>22 DEF SessionNext, Run
<1>4. CASE UNCHANGED vars
  BY <1>4, Zenon DEF vars, TypeOK
<1>. QED
  BY <1>1, <1>2, <1>3, <1>4, Zenon DEF Next

\* A thread's step leaves the other threads where they are.
Frame(s) ==
    \A t \in Session : t # s =>
        /\ pc'[t] = pc[t] /\ req'[t] = req[t] /\ fd'[t] = fd[t]
        /\ written'[t] = written[t] /\ buf'[t] = buf[t] /\ Partial(t)' = Partial(t)

\* A thread's step leaves the program counter, request and file of the others alone.
LEMMA FrameStep ==
    ASSUME TypeOK, NEW s \in Session, SessionNext(s)
    PROVE  Frame(s)
<1>. SUFFICES ASSUME NEW t \in Session, t # s
              PROVE  /\ pc'[t] = pc[t] /\ req'[t] = req[t] /\ fd'[t] = fd[t]
                     /\ written'[t] = written[t] /\ buf'[t] = buf[t]
  BY Zenon DEF Frame, Partial
<1>. USE DEF Goto, Send, fsvars, lockvars, iovars, Finished, TypeOK
<1>1. CASE Accept(s) \/ PutMalformed(s) \/ PutRefuse(s) \/ PutAccept(s) \/ PutLock(s)
  BY <1>1, Zenon DEF Accept, PutMalformed, Finished, PutRefuse, PutAccept, PutLock
<1>2. CASE PutAdmit(s) \/ PutBusy(s) \/ PutResume(s) \/ PutOpen(s) \/ PutClose(s)
  BY <1>2, Zenon DEF PutAdmit, PutBusy, PutResume, PutOpen, PutClose
<1>3. CASE PutVerify(s) \/ PutLink(s) \/ PutUnlink(s) \/ PutOk(s) \/ PathError(s)
  BY <1>3, Zenon DEF PutVerify, PutLink, PutUnlink, PutOk, PathError, Raise
<1>4. CASE PutRecv(s) \/ PutRelease(s) \/ Disconnect(s) \/ DiskError(s)
  BY <1>4, Zenon DEF PutRecv, PutRelease, Disconnect, DiskError, Raise
<1>. QED
  BY <1>1, <1>2, <1>3, <1>4, Zenon DEF SessionNext, Run

\* Threads neither start nor end the process, and only PutOk acknowledges.
LEMMA GlobalFootprint ==
    ASSUME NEW s \in Session, SessionNext(s)
    PROVE  /\ up' = up
           /\ pc[s] = "off" => up
           /\ ~PutOk(s) => acked' = acked
<1>1. CASE Accept(s) \/ PutMalformed(s) \/ PutRefuse(s) \/ PutAccept(s) \/ PutLock(s)
  BY <1>1, Zenon DEF Accept, PutMalformed, Finished, PutRefuse, PutAccept, PutLock
<1>2. CASE PutAdmit(s) \/ PutBusy(s) \/ PutResume(s) \/ PutOpen(s) \/ PutClose(s)
  BY <1>2, Zenon DEF PutAdmit, PutBusy, PutResume, PutOpen, PutClose
<1>3. CASE PutVerify(s) \/ PutLink(s) \/ PutUnlink(s) \/ PutOk(s) \/ PathError(s)
  BY <1>3, Zenon DEF PutVerify, PutLink, PutUnlink, PutOk, PathError, Raise
<1>4. CASE PutRecv(s) \/ PutRelease(s) \/ Disconnect(s) \/ DiskError(s)
  BY <1>4, Zenon DEF PutRecv, PutRelease, Disconnect, DiskError, Raise
<1>. QED
  BY <1>1, <1>2, <1>3, <1>4, Zenon DEF SessionNext, Run

-----------------------------------------------------------------------------
(* Requests, the lock and the claims.                                      *)

ThreadInv == RequestInv /\ DownInv /\ LockInv /\ ClaimsAreExact

\* The facts about requests, lock and claims hold before the server starts.
LEMMA ThreadInit == Init => ThreadInv
BY UploadAssumption
DEF Init, ThreadInv, RequestInv, DownInv, LockInv, ClaimsAreExact, Putting, Receiving

\* PutAccept is the only way into handle_put's upload, and a thread in it keeps
\* its request.
LEMMA RequestKept ==
    ASSUME TypeOK, NEW s \in Session, SessionNext(s), ~PutAccept(s), pc'[s] \in Putting
    PROVE  /\ pc[s] \in Putting
           /\ req'[s] = req[s]
           /\ Partial(s)' = Partial(s)
<1>. SUFFICES pc[s] \in Putting /\ req'[s] = req[s]
  BY Zenon DEF Partial
<1>. USE DEF Goto, fsvars, lockvars, iovars, TypeOK, Putting, Receiving
<1>1. CASE Accept(s) \/ PutMalformed(s) \/ PutRefuse(s)
  BY <1>1, Zenon DEF Accept, PutMalformed, Finished, PutRefuse
<1>2. CASE PutBusy(s) \/ PutRelease(s)
  BY <1>2, Zenon DEF PutBusy, PutRelease, Finished
<1>3. CASE Disconnect(s)
  BY <1>3, Zenon DEF Disconnect, Finished
<1>4. CASE PutLock(s) \/ PutAdmit(s) \/ PutResume(s) \/ PutOpen(s)
  BY <1>4, Zenon DEF PutLock, PutAdmit, PutResume, PutOpen
<1>5. CASE PutRecv(s) \/ PutClose(s) \/ PutVerify(s) \/ PutLink(s)
  BY <1>5, Zenon DEF PutRecv, PutClose, PutVerify, PutLink
<1>6. CASE PutUnlink(s) \/ PutOk(s) \/ PathError(s) \/ DiskError(s)
  BY <1>6, Zenon DEF PutUnlink, PutOk, PathError, DiskError, Raise
<1>. QED
  BY <1>1, <1>2, <1>3, <1>4, <1>5, <1>6, Zenon DEF SessionNext, Run

\* A thread inside handle_put keeps the request that passed the checks.
LEMMA RequestStep == TypeOK /\ RequestInv /\ [Next]_vars => RequestInv'
<1>. SUFFICES ASSUME TypeOK, RequestInv, [Next]_vars PROVE RequestInv'
  BY Zenon
<1>. USE DEF Goto, fsvars, lockvars, iovars
<1>1. CASE Start \/ Crash \/ UNCHANGED vars
  BY <1>1, Zenon DEF Start, Crash, vars, RequestInv, Putting, Receiving
<1>2. ASSUME NEW s \in Session, SessionNext(s) PROVE RequestInv'
  <2>. SUFFICES ASSUME pc'[s] \in Putting
                PROVE  req'[s] \in Request /\ req'[s].name \in LegalName
    BY <1>2, FrameStep, Zenon DEF RequestInv, Frame
  <2>1. CASE PutAccept(s)
    BY <2>1, Zenon DEF PutAccept, check_filename, TypeOK
  <2>2. CASE ~PutAccept(s)
    BY <1>2, <2>2, RequestKept, Zenon DEF RequestInv
  <2>. QED
    BY <2>1, <2>2, Zenon
<1>. QED
  BY <1>1, <1>2, Zenon DEF Next

\* Whatever way a thread leaves the body, it has its file open until then.
LEMMA OpenStep == TypeOK /\ OpenInv /\ [Next]_vars => OpenInv'
<1>. SUFFICES ASSUME TypeOK, OpenInv, [Next]_vars PROVE OpenInv'
  OBVIOUS
<1>. USE DEF Goto, fsvars, lockvars, iovars
<1>1. CASE Start \/ Crash \/ UNCHANGED vars
  BY <1>1, Zenon DEF Start, Crash, vars, OpenInv
<1>2. ASSUME NEW s \in Session, SessionNext(s) PROVE OpenInv'
  <2>. SUFFICES ASSUME pc'[s] = "body" PROVE fd'[s] # None
    <3>1. \A t \in Session : t # s => pc'[t] = pc[t] /\ fd'[t] = fd[t]
      BY <1>2, FrameStep, Zenon DEF Frame
    <3>. QED
      BY <3>1, Zenon DEF OpenInv
  <2>. USE DEF TypeOK
  <2>1. CASE PutOpen(s)
    BY <2>1, UploadAssumption DEF PutOpen, Exists, FreeInode
  <2>2. CASE PutRecv(s) \/ PutRefuse(s) \/ PutMalformed(s)
    BY <2>2, Zenon DEF PutRecv, PutRefuse, PutMalformed, Finished, OpenInv
  <2>3. CASE Accept(s) \/ PutAccept(s) \/ PutLock(s) \/ PutAdmit(s) \/ PutBusy(s)
    BY <2>3, Zenon DEF Accept, PutAccept, PutLock, PutAdmit, PutBusy, Finished
  <2>4. CASE PutResume(s) \/ PutClose(s) \/ PutVerify(s) \/ PutLink(s)
    BY <2>4, Zenon DEF PutResume, PutClose, PutVerify, PutLink
  <2>5. CASE PutUnlink(s) \/ PutOk(s) \/ PathError(s) \/ DiskError(s)
    BY <2>5, Zenon DEF PutUnlink, PutOk, PathError, DiskError, Raise
  <2>6. CASE PutRelease(s) \/ Disconnect(s)
    BY <2>6, Zenon DEF PutRelease, Disconnect, Finished
  <2>. QED
    BY <1>2, <2>1, <2>2, <2>3, <2>4, <2>5, <2>6, Zenon DEF SessionNext, Run
<1>. QED
  BY <1>1, <1>2 DEF Next

\* A process that is down has no threads (Crash ends them, Start adds none).
LEMMA DownStep == TypeOK /\ DownInv /\ [Next]_vars => DownInv'
<1>. SUFFICES ASSUME TypeOK, DownInv, [Next]_vars PROVE DownInv'
  OBVIOUS
<1>1. CASE Start \/ Crash \/ UNCHANGED vars
  BY <1>1, Zenon DEF Start, Crash, vars, DownInv
<1>2. ASSUME NEW s \in Session, SessionNext(s) PROVE up'
  BY <1>2, GlobalFootprint DEF DownInv
<1>. QED
  BY <1>1, <1>2, Zenon DEF Next, DownInv

\* Only the thread in the critical section takes or frees the lock.
LEMMA LockStep == TypeOK /\ LockInv /\ [Next]_vars => LockInv'
<1>. SUFFICES ASSUME TypeOK, LockInv, [Next]_vars PROVE LockInv'
  OBVIOUS
<1>. USE UploadAssumption DEF Goto, fsvars, lockvars, iovars, TypeOK, LockInv
<1>1. CASE Start \/ Crash \/ UNCHANGED vars
  BY <1>1, Zenon DEF Start, Crash, vars
<1>2. ASSUME NEW s \in Session, SessionNext(s) PROVE LockInv'
  <2>. SUFFICES /\ pc'[s] = "admit" <=> in_flight_lock' = s
                /\ \A t \in Session : t # s => (in_flight_lock' = t <=> in_flight_lock = t)
    <3>1. Frame(s)
      BY <1>2, FrameStep, Zenon
    <3>2. \A t \in Session : t # s => pc'[t] = pc[t]
      BY <3>1, Zenon DEF Frame
    <3>. HIDE DEF TypeOK
    <3>. QED
      BY <3>2, Zenon
  <2>1. CASE PutLock(s) \/ PutAdmit(s) \/ PutBusy(s) \/ PutRelease(s)
    <3>1. CASE PutLock(s) \/ PutAdmit(s)
      BY <3>1 DEF PutLock, PutAdmit
    <3>2. CASE PutBusy(s)
      BY <3>2 DEF PutBusy, Finished
    <3>3. CASE PutRelease(s)
      BY <3>3 DEF PutRelease, Finished
    <3>. QED
      BY <2>1, <3>1, <3>2, <3>3, Zenon
  <2>2. CASE Accept(s) \/ PutMalformed(s) \/ PutRefuse(s) \/ PutAccept(s) \/ PutResume(s) \/ PutOpen(s)
    BY <2>2, ZenonT(30) DEF Accept, PutMalformed, Finished, PutRefuse, PutAccept, PutResume, PutOpen
  <2>3. CASE PutRecv(s) \/ PutClose(s) \/ PutVerify(s) \/ PutLink(s)
    BY <2>3, Zenon DEF PutRecv, PutClose, PutVerify, PutLink
  <2>4. CASE PutUnlink(s) \/ PutOk(s) \/ PathError(s) \/ DiskError(s) \/ Disconnect(s)
    BY <2>4 DEF PutUnlink, PutOk, PathError, DiskError, Raise, Disconnect, Finished
  <2>. QED
    BY <1>2, <2>1, <2>2, <2>3, <2>4, Zenon DEF SessionNext, Run
<1>. QED
  BY <1>1, <1>2, Zenon DEF Next

\* _in_flight stays the set of partials being received into: PutAdmit claims one
\* that nobody has, and PutRelease gives up exactly its own.
LEMMA ClaimsStep ==
    TypeOK /\ RequestInv /\ ClaimsAreExact /\ [Next]_vars => ClaimsAreExact'
<1>. SUFFICES ASSUME TypeOK, RequestInv, ClaimsAreExact, [Next]_vars
              PROVE  ClaimsAreExact'
  BY Zenon
<1>. USE DEF Goto, fsvars, lockvars, iovars
<1>1. CASE Start \/ UNCHANGED vars
  BY <1>1, Zenon DEF Start, vars, ClaimsAreExact, Partial
<1>2. CASE Crash
  BY <1>2, Zenon DEF Crash, ClaimsAreExact, Receiving
<1>3. ASSUME NEW s \in Session, SessionNext(s) PROVE ClaimsAreExact'
  <2>1. Frame(s)
    BY <1>3, FrameStep, Zenon
  <2>2. CASE PutAdmit(s)
    <3>1. Partial(s)' = Partial(s) /\ pc'[s] = "resume" /\ pc[s] = "admit"
      BY <2>2, Zenon DEF PutAdmit, Partial, TypeOK
    <3>. QED
      BY <2>1, <2>2, <3>1 DEF PutAdmit, ClaimsAreExact, Frame, Receiving
  <2>3. CASE PutRelease(s)
    <3>1. pc[s] \in Receiving /\ pc'[s] \notin Receiving
      BY <2>3 DEF PutRelease, Finished, TypeOK, Receiving
    <3>. QED
      BY <2>1, <2>3, <3>1 DEF PutRelease, ClaimsAreExact, Frame
  <2>4. ASSUME in_flight' = in_flight, pc[s] \in Receiving <=> pc'[s] \in Receiving,
               pc[s] \in Receiving => req'[s] = req[s]
        PROVE  ClaimsAreExact'
    <3>1. ASSUME NEW t \in Session
          PROVE  /\ pc'[t] \in Receiving <=> pc[t] \in Receiving
                 /\ pc[t] \in Receiving => Partial(t)' = Partial(t)
      <4>1. CASE t = s
        BY <2>4, <4>1, Zenon DEF Partial
      <4>2. CASE t # s
        BY <2>1, <4>2, Zenon DEF Frame
      <4>. QED
        BY <4>1, <4>2, Zenon
    <3>. QED
      BY <2>4, <3>1, Zenon DEF ClaimsAreExact
  <2>. USE DEF TypeOK, Receiving
  <2>5. CASE Accept(s) \/ PutMalformed(s) \/ PutRefuse(s) \/ PutAccept(s) \/ PutLock(s) \/ PutBusy(s)
    <3>1. CASE Accept(s) \/ PutMalformed(s) \/ PutRefuse(s)
      BY <2>4, <3>1, Zenon DEF Accept, PutMalformed, Finished, PutRefuse
    <3>2. CASE PutAccept(s) \/ PutLock(s)
      BY <2>4, <3>2, Zenon DEF PutAccept, PutLock
    <3>3. CASE PutBusy(s)
      BY <2>4, <3>3 DEF PutBusy, Finished
    <3>. QED
      BY <2>5, <3>1, <3>2, <3>3, Zenon
  <2>6. CASE PutResume(s) \/ PutOpen(s) \/ PutRecv(s) \/ PutClose(s) \/ PutVerify(s)
    BY <2>4, <2>6, Zenon DEF PutResume, PutOpen, PutRecv, PutClose, PutVerify
  <2>7. CASE PutLink(s) \/ PutUnlink(s) \/ PutOk(s)
    BY <2>4, <2>7, Zenon DEF PutLink, PutUnlink, PutOk
  <2>8. CASE PathError(s) \/ DiskError(s) \/ Disconnect(s)
    BY <2>4, <2>8 DEF PathError, DiskError, Raise, Disconnect, Finished
  <2>. QED
    BY <1>3, <2>2, <2>3, <2>5, <2>6, <2>7, <2>8, Zenon DEF SessionNext, Run
<1>. QED
  BY <1>1, <1>2, <1>3, Zenon DEF Next

-----------------------------------------------------------------------------
(* What a step can change in the directory and in the files.               *)

\* A thread changes the entry of its own partial, and by PutLink that of a name
\* that had none.
LEMMA DirFootprint ==
    ASSUME TypeOK, RequestInv, NEW s \in Session, SessionNext(s), NEW p \in Path
    PROVE  \/ dir'[p] = dir[p]
           \/ pc[s] \in Receiving /\ p = Partial(s)
           \/ PutLink(s) /\ p = req[s].name /\ ~Exists(p) /\ dir'[p] = dir[Partial(s)]
<1>. USE DEF Goto, fsvars, lockvars, iovars, TypeOK, Receiving, Unlinked
<1>1. CASE PutResume(s) \/ PutOpen(s)
  BY <1>1, Zenon DEF PutResume, PutOpen
<1>2. CASE PutVerify(s) \/ PutUnlink(s)
  BY <1>2, Zenon DEF PutVerify, PutUnlink
<1>3. CASE PutLink(s)
  BY <1>3, Zenon DEF PutLink
<1>4. CASE UNCHANGED dir
  BY <1>4, Zenon
<1>. QED
  BY <1>1, <1>2, <1>3, <1>4, Zenon
  DEF SessionNext, Run, Accept, PutMalformed, PutRefuse, PutAccept, PutLock, PutAdmit, PutBusy,
      PutClose, PutOk, PathError, DiskError, Raise, PutRecv, PutRelease, Disconnect

\* A thread writes to the file it has open, or creates one.
LEMMA DataFootprint ==
    ASSUME TypeOK, RequestInv, FileInv, NEW s \in Session, SessionNext(s),
           NEW i \in Inode
    PROVE  \/ data'[i] = data[i]
           \/ pc[s] = "body" /\ i = fd[s]
           \/ i \in FreeInode
<1>. USE DEF Goto, fsvars, lockvars, iovars, TypeOK
<1>1. CASE PutOpen(s)
  BY <1>1, Zenon DEF PutOpen
<1>2. CASE PutRecv(s) \/ PutClose(s)
  BY <1>2, Zenon DEF PutRecv, PutClose, Flushed
<1>3. CASE Disconnect(s) \/ DiskError(s) \/ PathError(s)
  <2>1. data' = data \/ (pc[s] = "body" /\ data' = Flushed(s, buf[s]))
    BY <1>3, Zenon DEF Disconnect, DiskError, PathError, Raise
  <2>. QED
    BY <2>1, Zenon DEF Flushed
<1>4. CASE UNCHANGED data
  BY <1>4, Zenon
<1>. QED
  BY <1>1, <1>2, <1>3, <1>4, Zenon
  DEF SessionNext, Run, Accept, PutMalformed, PutRefuse, PutAccept, PutLock, PutAdmit, PutBusy,
      PutResume, PutVerify, PutLink, PutUnlink, PutOk, PutRelease

\* No step changes the entry of a published file.  Nor does one change its content,
\* unless the removal of its partial has failed: the only file a thread writes to is
\* its partial's, which is not also a published one while it is open.
LEMMA PublishedStable ==
    ASSUME PlainNames, TypeOK, RequestInv, ClaimsAreExact, FileInv, LinkInv,
           [Next]_vars, NEW n \in LegalName, Exists(n)
    PROVE  /\ dir'[n] = dir[n]
           /\ ~UnlinkFaults \/ Acknowledging(n) => data'[dir[n]] = data[dir[n]]
<1>. n \in Path /\ n \notin PartialPath /\ dir[n] \in Inode
  BY Zenon DEF PlainNames, Path, Exists, TypeOK
<1>1. CASE Start
  BY <1>1, Zenon DEF Start
<1>2. CASE Crash \/ UNCHANGED vars
  BY <1>2, Zenon DEF Crash, vars, fsvars
<1>3. ASSUME NEW s \in Session, SessionNext(s)
      PROVE  /\ dir'[n] = dir[n]
             /\ ~UnlinkFaults \/ Acknowledging(n) => data'[dir[n]] = data[dir[n]]
  <2>1. dir'[n] = dir[n]
    BY <1>3, DirFootprint, PathFacts, Zenon DEF Putting
  <2>2. ~UnlinkFaults \/ Acknowledging(n) => ~(pc[s] = "body" /\ dir[n] = fd[s])
    <3>. SUFFICES ASSUME pc[s] = "body", dir[n] = fd[s], ~UnlinkFaults \/ Acknowledging(n)
                  PROVE  FALSE
      BY Zenon
    <3>1. Partial(s) \in PartialPath /\ dir[Partial(s)] = dir[n] /\ Exists(Partial(s))
      BY PathFacts, Zenon DEF FileInv, Putting, Receiving, Exists
    <3>2. PICK t \in Session : pc[t] = "unlink" /\ Partial(t) = Partial(s)
      BY <3>1, Zenon DEF LinkInv, SharedPartial, Putting, Receiving
    <3>. QED
      BY <3>2, Zenon DEF ClaimsAreExact, Receiving
  <2>3. dir[n] \notin FreeInode
    BY Zenon DEF FreeInode
  <2>. QED
    BY <1>3, <2>1, <2>2, <2>3, DataFootprint, Zenon
<1>. QED
  BY <1>1, <1>2, <1>3, Zenon DEF Next

\* A thread's step leaves alone the partials of the others that are receiving.
LEMMA OthersStable ==
    ASSUME PlainNames, TypeOK, RequestInv, ClaimsAreExact, FileInv, LinkInv,
           NEW s \in Session, SessionNext(s),
           NEW t \in Session, t # s, pc[t] \in Receiving
    PROVE  /\ dir'[Partial(t)] = dir[Partial(t)]
           /\ Exists(Partial(t)) => data'[dir[Partial(t)]] = data[dir[Partial(t)]]
<1>. Partial(t) \in Path /\ Partial(t) \in PartialPath /\ Partial(t) \notin LegalName
  BY PathFacts, Zenon DEF PlainNames, Putting
<1>1. dir'[Partial(t)] = dir[Partial(t)]
  <2>1. pc[s] \in Receiving => Partial(t) # Partial(s)
    BY Zenon DEF ClaimsAreExact
  <2>2. PutLink(s) => req[s].name \in LegalName
    BY Zenon DEF PutLink, RequestInv, Putting, Receiving
  <2>. QED
    BY <2>1, <2>2, DirFootprint, Zenon
<1>2. ASSUME Exists(Partial(t)) PROVE data'[dir[Partial(t)]] = data[dir[Partial(t)]]
  <2>1. dir[Partial(t)] \in Inode /\ dir[Partial(t)] \notin FreeInode
    BY <1>2, Zenon DEF Exists, TypeOK, FreeInode
  <2>2. ~(pc[s] = "body" /\ dir[Partial(t)] = fd[s])
    <3>. SUFFICES ASSUME pc[s] = "body", dir[Partial(t)] = fd[s] PROVE FALSE
      BY Zenon
    <3>1. Partial(s) \in PartialPath /\ dir[Partial(s)] = dir[Partial(t)]
      BY PathFacts, Zenon DEF FileInv, Putting, Receiving
    <3>. QED
      BY <1>2, <3>1, Zenon DEF LinkInv, ClaimsAreExact, Receiving
  <2>. QED
    BY <2>1, <2>2, DataFootprint, Zenon
<1>. QED
  BY <1>1, <1>2, Zenon

-----------------------------------------------------------------------------
(* The partial of each thread, from the resume offset to publication.      *)

Others == PlainNames /\ TypeOK /\ ThreadInv /\ LinkInv

\* A thread that receives a body has its own partial open, and no other thread
\* replaces that partial's entry.
LEMMA FileStep == Others /\ FileInv /\ [Next]_vars => FileInv'
<1>. SUFFICES ASSUME Others, FileInv, [Next]_vars PROVE FileInv'
  BY Zenon
<1>. USE UploadAssumption DEF Goto, fsvars, lockvars, iovars, Others, ThreadInv
<1>1. CASE Start \/ Crash \/ UNCHANGED vars
  BY <1>1 DEF Start, Crash, vars, DownInv, FileInv, Partial
<1>2. ASSUME NEW s \in Session, SessionNext(s) PROVE FileInv'
  <2>. SUFFICES /\ pc'[s] = "body" => fd'[s] # None /\ dir'[Partial(s)'] = fd'[s]
                /\ pc'[s] # "body" => fd'[s] = None /\ buf'[s] = <<>>
    <3>1. ASSUME NEW t \in Session, t # s
          PROVE  /\ pc'[t] = pc[t] /\ fd'[t] = fd[t] /\ buf'[t] = buf[t]
                 /\ Partial(t)' = Partial(t)
      BY <1>2, <3>1, FrameStep, Zenon DEF Frame
    <3>2. ASSUME NEW t \in Session, t # s, pc[t] = "body"
          PROVE  dir'[Partial(t)] = dir[Partial(t)]
      BY <1>2, <3>2, OthersStable, Zenon DEF Receiving
    <3>3. ASSUME NEW t \in Session, t # s
          PROVE  /\ pc'[t] = "body" => fd'[t] # None /\ dir'[Partial(t)'] = fd'[t]
                 /\ pc'[t] # "body" => fd'[t] = None /\ buf'[t] = <<>>
      BY <3>1, <3>2, <3>3, ZenonT(30) DEF FileInv
    <3>. QED
      BY <3>3, Zenon DEF FileInv
  <2>. USE DEF TypeOK, FileInv
  <2>1. CASE PutOpen(s)
    <3>1. Partial(s)' = Partial(s) /\ Partial(s) \in Path
      BY <2>1, PathFacts, Zenon DEF PutOpen, Partial, Putting, Receiving
    <3>. QED
      <4>1. CASE Exists(Partial(s))
        BY <2>1, <3>1, <4>1 DEF PutOpen, Exists
      <4>2. CASE ~Exists(Partial(s))
        BY <2>1, <3>1, <4>2 DEF PutOpen, FreeInode
      <4>. QED
        BY <4>1, <4>2, Zenon
  <2>2. CASE PutRecv(s)
    <3>1. Partial(s)' = Partial(s)
      BY <2>2, Zenon DEF PutRecv, Partial
    <3>. QED
      BY <2>2, <3>1, Zenon DEF PutRecv
  <2>3. CASE Accept(s) \/ PutMalformed(s) \/ PutRefuse(s) \/ PutAccept(s) \/ PutLock(s) \/ PutAdmit(s)
    BY <2>3, Zenon DEF Accept, PutMalformed, Finished, PutRefuse, PutAccept, PutLock, PutAdmit
  <2>4. CASE PutBusy(s) \/ PutResume(s) \/ PutClose(s) \/ PutVerify(s)
    BY <2>4, Zenon DEF PutBusy, PutResume, PutClose, PutVerify, Finished
  <2>5. CASE PutLink(s) \/ PutUnlink(s) \/ PutOk(s) \/ PutRelease(s)
    BY <2>5, Zenon DEF PutLink, PutUnlink, PutOk, PutRelease, Finished
  <2>6. CASE PathError(s) \/ DiskError(s) \/ Disconnect(s)
    BY <2>6, Zenon DEF PathError, DiskError, Raise, Disconnect, Finished
  <2>. QED
    BY <1>2, <2>1, <2>2, <2>3, <2>4, <2>5, <2>6, Zenon DEF SessionNext, Run
<1>. QED
  BY <1>1, <1>2, Zenon DEF Next

\* The count a thread keeps agrees with its file at every step of the transfer.
LEMMA ReceiveStep ==
    Others /\ FileInv /\ ResumeInv /\ ReceivedBytesAccounted /\ [Next]_vars
       => ResumeInv' /\ ReceivedBytesAccounted'
<1>. SUFFICES ASSUME Others, FileInv, ResumeInv, ReceivedBytesAccounted, [Next]_vars
              PROVE  ResumeInv' /\ ReceivedBytesAccounted'
  BY Zenon
<1>. USE UploadAssumption DEF Goto, fsvars, lockvars, iovars, Others, ThreadInv
<1>1. CASE Start \/ Crash \/ UNCHANGED vars
  BY <1>1, Zenon DEF Start, Crash, vars, DownInv, ResumeInv, ReceivedBytesAccounted, Partial,
              Exists
<1>2. ASSUME NEW s \in Session, SessionNext(s)
      PROVE  ResumeInv' /\ ReceivedBytesAccounted'
  <2>1. ASSUME NEW t \in Session, t # s, pc'[t] = "open"
        PROVE  /\ written'[t] = IF Exists(Partial(t))'
                                THEN Len(data'[dir'[Partial(t)']]) ELSE 0
               /\ written'[t] <= req'[t].file_size
    <3>1. /\ pc[t] = "open" /\ written'[t] = written[t] /\ req'[t] = req[t]
          /\ Partial(t)' = Partial(t)
      BY <1>2, <2>1, FrameStep, Zenon DEF Frame
    <3>2. /\ dir'[Partial(t)] = dir[Partial(t)]
          /\ Exists(Partial(t)) => data'[dir[Partial(t)]] = data[dir[Partial(t)]]
      BY <1>2, <2>1, <3>1, OthersStable, Zenon DEF Receiving
    <3>. QED
      BY <3>1, <3>2, Zenon DEF ResumeInv, Exists
  <2>2. ASSUME NEW t \in Session, t # s, pc'[t] = "body"
        PROVE  /\ written'[t] = Len(data'[fd'[t]]) + Len(buf'[t])
               /\ written'[t] <= req'[t].file_size
    <3>1. pc[t] = "body" /\ fd[t] # None /\ fd[t] = dir[Partial(t)]
      BY <1>2, <2>2, FrameStep, Zenon DEF Frame, FileInv
    <3>2. data'[fd[t]] = data[fd[t]]
      BY <1>2, <2>2, <3>1, OthersStable, Zenon DEF Receiving, Exists
    <3>3. /\ written'[t] = written[t] /\ fd'[t] = fd[t] /\ buf'[t] = buf[t]
          /\ req'[t] = req[t]
      BY <1>2, <2>2, FrameStep, Zenon DEF Frame
    <3>. QED
      BY <3>1, <3>2, <3>3, Zenon DEF ReceivedBytesAccounted
  <2>. SUFFICES /\ pc'[s] = "open" =>
                     /\ written'[s] = IF Exists(Partial(s))'
                                      THEN Len(data'[dir'[Partial(s)']]) ELSE 0
                     /\ written'[s] <= req'[s].file_size
                /\ pc'[s] = "body" =>
                     /\ written'[s] = Len(data'[fd'[s]]) + Len(buf'[s])
                     /\ written'[s] <= req'[s].file_size
    BY <2>1, <2>2, Zenon DEF ResumeInv, ReceivedBytesAccounted
  <2>3. CASE PutResume(s)
    <3>1. /\ Partial(s)' = Partial(s) /\ Partial(s) \in Path
          /\ req[s].file_size \in Nat
      BY <2>3, PathFacts, Zenon DEF PutResume, Partial, Putting, Receiving
    <3>2. Exists(Partial(s)) => Len(data[dir[Partial(s)]]) \in Nat
      BY <3>1 DEF Exists, TypeOK
    <3>. QED
      BY <2>3, <3>1, <3>2 DEF PutResume, Exists, Unlinked, TypeOK
  <2>4. CASE PutOpen(s)
    <3>1. Partial(s)' = Partial(s) /\ Partial(s) \in Path
      BY <2>4, PathFacts, Zenon DEF PutOpen, Partial, Putting, Receiving
    <3>2. buf'[s] = <<>> /\ written'[s] = written[s] /\ req'[s] = req[s]
      BY <2>4, Zenon DEF PutOpen, FileInv, TypeOK
    <3>3. Len(data'[fd'[s]]) = IF Exists(Partial(s)) THEN Len(data[dir[Partial(s)]]) ELSE 0
      BY <2>4, <3>1 DEF PutOpen, Exists, FreeInode, TypeOK
    <3>. QED
      BY <2>4, <3>2, <3>3 DEF PutOpen, ResumeInv, TypeOK
  <2>5. CASE PutRecv(s)
    <3>1. /\ req[s].file_size \in Nat /\ written[s] \in Nat
          /\ fd[s] # None /\ fd[s] \in Inode
          /\ buf[s] \in Seq(Byte) /\ data[fd[s]] \in Seq(Byte)
      BY <2>5, PathFacts, Zenon DEF PutRecv, Receiving, Putting, FileInv, TypeOK
    <3>2. Smaller(ChunkSize, req[s].file_size - written[s])
             \in 0..(req[s].file_size - written[s])
      <4>1. req[s].file_size - written[s] \in Nat
        <5>1. written[s] < req[s].file_size
          BY <2>5, Zenon DEF PutRecv
        <5>. QED
          BY <3>1, <5>1
      <4>. QED
        BY <4>1, SmallerBound, Zenon
    <3>3. PICK chunk \in Chunks(Smaller(ChunkSize, req[s].file_size - written[s])) :
             /\ written' = [written EXCEPT ![s] = @ + Len(chunk)]
             /\ \/ /\ buf' = [buf EXCEPT ![s] = @ \o chunk]
                   /\ UNCHANGED data
                \/ /\ buf' = [buf EXCEPT ![s] = <<>>]
                   /\ data' = Flushed(s, buf[s] \o chunk)
      BY <2>5, Zenon DEF PutRecv
    <3>4. /\ chunk \in Seq(Byte) /\ buf[s] \o chunk \in Seq(Byte)
          /\ Len(chunk) \in 0..(req[s].file_size - written[s])
          /\ Len(chunk) \in Nat /\ Len(buf[s] \o chunk) = Len(buf[s]) + Len(chunk)
      BY <3>1, <3>2, ChunkFacts, SeqFacts, SMTT(20)
    <3>5. Len(data'[fd[s]]) + Len(buf'[s]) = Len(data[fd[s]]) + Len(buf[s]) + Len(chunk)
      <4>1. CASE data' = data /\ buf' = [buf EXCEPT ![s] = @ \o chunk]
        BY <3>1, <3>4, <4>1, SeqFacts DEF TypeOK
      <4>2. CASE data' = Flushed(s, buf[s] \o chunk) /\ buf' = [buf EXCEPT ![s] = <<>>]
        <5>1. data'[fd[s]] = data[fd[s]] \o (buf[s] \o chunk)
          BY <3>1, <3>4, <4>2, FlushedType, Zenon
        <5>2. buf'[s] = <<>>
          BY <4>2, Zenon DEF TypeOK
        <5>3. Len(data[fd[s]] \o (buf[s] \o chunk)) + Len(<<>>)
                = Len(data[fd[s]]) + Len(buf[s]) + Len(chunk)
          BY <3>1, <3>4, FlushedLength, ZenonT(30)
        <5>. QED
          BY <5>1, <5>2, <5>3, Zenon
      <4>. QED
        BY <3>3, <4>1, <4>2, Zenon
    <3>6. written'[s] = written[s] + Len(chunk) /\ fd' = fd /\ req' = req /\ pc' = pc
      BY <2>5, <3>3, Zenon DEF PutRecv, TypeOK
    <3>7. /\ written[s] = Len(data[fd[s]]) + Len(buf[s])
          /\ pc[s] = "body"
      BY <2>5, Zenon DEF PutRecv, ReceivedBytesAccounted
    <3>8. Len(data[fd[s]]) \in Nat /\ Len(buf[s]) \in Nat
      BY <3>1, SeqFacts, Zenon
    <3>9. written'[s] = Len(data'[fd'[s]]) + Len(buf'[s])
      BY <3>4, <3>5, <3>6, <3>7, <3>8, Zenon
    <3>10. written[s] + Len(chunk) <= req[s].file_size
      BY <3>1, <3>4
    <3>. QED
      BY <3>6, <3>7, <3>9, <3>10, Zenon
  <2>6. CASE Accept(s) \/ PutMalformed(s) \/ PutRefuse(s) \/ PutAccept(s) \/ PutLock(s) \/ PutAdmit(s)
    BY <2>6, Zenon DEF Accept, PutMalformed, Finished, PutRefuse, PutAccept, PutLock, PutAdmit, TypeOK
  <2>7. CASE PutBusy(s) \/ PutClose(s) \/ PutVerify(s) \/ PutLink(s) \/ PutUnlink(s)
    BY <2>7, Zenon DEF PutBusy, PutClose, PutVerify, PutLink, PutUnlink, Finished, TypeOK
  <2>8. CASE PutOk(s) \/ PutRelease(s)
    BY <2>8, Zenon DEF PutOk, PutRelease, Finished, TypeOK
  <2>9. CASE PathError(s) \/ DiskError(s) \/ Disconnect(s)
    BY <2>9, Zenon DEF PathError, DiskError, Raise, Disconnect, Finished, TypeOK
  <2>. QED
    BY <1>2, <2>3, <2>4, <2>5, <2>6, <2>7, <2>8, <2>9, Zenon DEF SessionNext, Run
<1>. QED
  BY <1>1, <1>2, Zenon DEF Next

\* What verification established about a partial still holds when it is linked.
LEMMA VerifiedStep == Others /\ FileInv /\ VerifiedInv /\ [Next]_vars => VerifiedInv'
<1>. SUFFICES ASSUME Others, FileInv, VerifiedInv, [Next]_vars PROVE VerifiedInv'
  BY Zenon
<1>. USE UploadAssumption DEF Goto, fsvars, lockvars, iovars, Others, ThreadInv
<1>1. CASE Start \/ Crash \/ UNCHANGED vars
  BY <1>1, ZenonT(30) DEF Start, Crash, vars, DownInv, VerifiedInv, Verified, Partial, Exists,
              sha256_file
<1>2. ASSUME NEW s \in Session, SessionNext(s) PROVE VerifiedInv'
  <2>1. ASSUME NEW t \in Session, t # s PROVE Verified(t)'
    <3>1. /\ pc'[t] = pc[t] /\ req'[t] = req[t] /\ Partial(t)' = Partial(t)
      BY <1>2, <2>1, FrameStep, Zenon DEF Frame
    <3>2. pc[t] \in Receiving => req[t].name \in LegalName
      BY Zenon DEF RequestInv, Putting
    <3>3. CASE pc[t] \in {"verify", "link"}
      <4>1. /\ dir'[Partial(t)] = dir[Partial(t)]
            /\ Exists(Partial(t)) => data'[dir[Partial(t)]] = data[dir[Partial(t)]]
        BY <1>2, <2>1, <3>3, OthersStable, Zenon DEF Receiving
      <4>2. Verified(t)
        BY Zenon DEF VerifiedInv
      <4>. QED
        BY <3>1, <3>3, <4>1, <4>2, Zenon DEF Verified, Exists, sha256_file
    <3>4. CASE pc[t] = "unlink"
      <4>1. dir[req[t].name] = dir[Partial(t)] /\ Exists(Partial(t))
        BY <3>4, Zenon DEF VerifiedInv, Verified
      <4>2. dir'[req[t].name] = dir[req[t].name]
        BY <3>2, <3>4, <4>1, PublishedStable, Zenon DEF Receiving, Exists
      <4>3. /\ dir'[Partial(t)] = dir[Partial(t)]
            /\ data'[dir[Partial(t)]] = data[dir[Partial(t)]]
        BY <1>2, <2>1, <3>4, <4>1, OthersStable, Zenon DEF Receiving
      <4>. QED
        BY <3>1, <3>4, <4>1, <4>2, <4>3, Zenon DEF Verified, VerifiedInv, Exists, sha256_file
    <3>5. CASE pc[t] = "verdict"
      <4>1. Exists(req[t].name) /\ sha256_file(req[t].name) = req[t].digest
        BY <3>5, Zenon DEF VerifiedInv, Verified
      <4>2. /\ dir'[req[t].name] = dir[req[t].name]
            /\ data'[dir[req[t].name]] = data[dir[req[t].name]]
        BY <3>2, <3>5, <4>1, PublishedStable, Zenon DEF Receiving, Acknowledging
      <4>. QED
        BY <3>1, <3>5, <4>1, <4>2, Zenon DEF Verified, Exists, sha256_file
    <3>. QED
      BY <3>1, <3>3, <3>4, <3>5, Zenon DEF Verified
  <2>. SUFFICES Verified(s)'
    BY <2>1, Zenon DEF VerifiedInv
  <2>2. req'[s] = req[s] => Partial(s)' = Partial(s)
    BY Zenon DEF Partial
  <2>3. CASE PutClose(s)
    BY <2>2, <2>3, Zenon DEF PutClose, FileInv, Verified, Exists, TypeOK
  <2>4. CASE PutVerify(s)
    BY <2>2, <2>4, Zenon DEF PutVerify, Verified, Exists, sha256_file, TypeOK
  <2>5. CASE PutLink(s)
    <3>1. /\ Partial(s) \in Path /\ req[s].name \in Path
          /\ Partial(s) # req[s].name /\ req' = req
      BY <2>5, PathFacts, Zenon DEF PutLink, PlainNames, Putting, Receiving
    <3>2. CASE Exists(req[s].name)
      BY <2>5, <3>2, Zenon DEF PutLink, Verified, TypeOK
    <3>3. CASE ~Exists(req[s].name)
      <4>1. pc'[s] = "unlink" /\ dir' = [dir EXCEPT ![req[s].name] = dir[Partial(s)]]
        BY <2>5, <3>3, Zenon DEF PutLink, TypeOK
      <4>2. dir'[Partial(s)] = dir[Partial(s)] /\ dir'[req[s].name] = dir[Partial(s)]
        BY <3>1, <4>1, Zenon DEF TypeOK
      <4>3. sha256_file(Partial(s)) = req[s].digest /\ Exists(Partial(s)) /\ data' = data
        BY <2>5, Zenon DEF PutLink, VerifiedInv, Verified
      <4>. QED
        BY <2>2, <3>1, <4>1, <4>2, <4>3, Zenon DEF Verified, Exists, sha256_file
    <3>. QED
      BY <3>2, <3>3, Zenon
  <2>6. CASE PutUnlink(s)
    <3>1. /\ Partial(s) \in Path /\ req[s].name \in Path
          /\ Partial(s) # req[s].name /\ req' = req
      BY <2>6, PathFacts, Zenon DEF PutUnlink, PlainNames, Putting, Receiving
    <3>2. dir'[req[s].name] = dir[Partial(s)] /\ data' = data /\ pc'[s] = "verdict"
      BY <2>6, <3>1, Zenon DEF PutUnlink, Unlinked, VerifiedInv, Verified, TypeOK
    <3>. QED
      BY <2>6, <3>1, <3>2, Zenon DEF PutUnlink, Verified, VerifiedInv, Exists, sha256_file
  <2>7. CASE Accept(s) \/ PutMalformed(s) \/ PutRefuse(s) \/ PutAccept(s) \/ PutLock(s) \/ PutAdmit(s)
    BY <2>7, Zenon DEF Accept, PutMalformed, Finished, PutRefuse, PutAccept, PutLock, PutAdmit, Verified, TypeOK
  <2>8. CASE PutBusy(s) \/ PutResume(s) \/ PutOpen(s) \/ PutRecv(s) \/ PutOk(s)
    BY <2>8, ZenonT(30) DEF PutBusy, PutResume, PutOpen, PutRecv, PutOk, Finished, Verified, TypeOK
  <2>9. CASE PutRelease(s) \/ PathError(s) \/ DiskError(s) \/ Disconnect(s)
    BY <2>9, ZenonT(30) DEF PutRelease, PathError, DiskError, Raise, Disconnect, Finished, Verified,
                TypeOK
  <2>. QED
    BY <1>2, <2>3, <2>4, <2>5, <2>6, <2>7, <2>8, <2>9, Zenon DEF SessionNext, Run
<1>. QED
  BY <1>1, <1>2, Zenon DEF Next

\* The way to the final OK begins with publication under a name that had no entry.
LEMMA VerdictKept ==
    ASSUME TypeOK, NEW s \in Session, SessionNext(s), pc'[s] \in {"unlink", "verdict"},
           ~(PutLink(s) /\ ~Exists(req[s].name))
    PROVE  pc[s] \in {"unlink", "verdict"} /\ req'[s] = req[s]
<1>. USE DEF Goto, fsvars, lockvars, iovars
<1>. QED
  BY Zenon
  DEF SessionNext, Run, Accept, PutMalformed, PutRefuse, PutAccept, PutLock, PutAdmit, PutBusy,
      PutResume, PutOpen, PutClose, PutVerify, PutLink, PutUnlink, PutOk, PathError,
      DiskError, Raise, PutRecv, PutRelease, Disconnect, Finished, TypeOK

\* A published name nobody will acknowledge stays one.
LEMMA NeverAcknowledged ==
    ASSUME TypeOK, RequestInv, NEW s \in Session, SessionNext(s),
           NEW n \in LegalName, Exists(n), ~Acknowledging(n)
    PROVE  ~Acknowledging(n)'
<1>1. acked'[n] = <<>>
  <2>1. CASE PutOk(s)
    <3>1. pc[s] = "verdict" /\ acked' = [acked EXCEPT ![req[s].name] = Append(@, req[s].digest)]
      BY <2>1, Zenon DEF PutOk
    <3>2. req[s].name # n
      BY <3>1, Zenon DEF Acknowledging
    <3>. QED
      BY <3>1, <3>2, Zenon DEF Acknowledging, TypeOK
  <2>2. CASE ~PutOk(s)
    BY <2>2, GlobalFootprint, Zenon DEF Acknowledging
  <2>. QED
    BY <2>1, <2>2, Zenon
<1>2. ASSUME NEW t \in Session, pc'[t] \in {"unlink", "verdict"}, req'[t].name = n
      PROVE  FALSE
  <2>1. CASE t = s
    <3>1. PutLink(s) /\ ~Exists(req[s].name) => req'[s] = req[s]
      BY Zenon DEF PutLink
    <3>. QED
      BY <1>2, <2>1, <3>1, VerdictKept, Zenon DEF Acknowledging
  <2>2. CASE t # s
    BY <1>2, <2>2, FrameStep, Zenon DEF Frame, Acknowledging
  <2>. QED
    BY <2>1, <2>2, Zenon
<1>. QED
  BY <1>1, <1>2, Zenon DEF Acknowledging

\* Publication is the only way two entries come to share a file.  Nobody can be
\* headed for a partial left that way by a kill; one left by a failed removal has a
\* name that is not acknowledged.
LEMMA LinkStep == Others /\ FileInv /\ VerifiedInv /\ AckInv /\ [Next]_vars => LinkInv'
<1>. SUFFICES ASSUME Others, FileInv, VerifiedInv, AckInv, [Next]_vars PROVE LinkInv'
  BY Zenon
<1>. USE UploadAssumption DEF Goto, fsvars, lockvars, iovars, Others, ThreadInv
<1>1. CASE Start
  <2>1. \A p \in Path : dir'[p] \in {dir[p], None}
    BY <1>1, Zenon DEF Start
  <2>2. \A s \in Session : pc'[s] \notin Putting
    BY <1>1, Zenon DEF Start, DownInv, Putting, Receiving
  <2>. QED
    BY <2>1, <2>2, Zenon DEF LinkInv, Exists, Path, SharedPartial
<1>2. CASE Crash
  BY <1>2, Zenon DEF Crash, LinkInv, Exists, SharedPartial, Putting, Receiving
<1>3. CASE UNCHANGED vars
  <2>1. ASSUME NEW p \in PartialPath, NEW n \in LegalName, SharedPartial(p, n)
        PROVE  SharedPartial(p, n)'
    BY <1>3, <2>1, Zenon DEF vars, SharedPartial, Partial, Acknowledging
  <2>. QED
    BY <1>3, <2>1, Zenon DEF vars, LinkInv, Exists
<1>4. ASSUME NEW s \in Session, SessionNext(s) PROVE LinkInv'
  <2>1. Frame(s)
    BY <1>4, FrameStep, Zenon
  <2>2. ASSUME NEW p \in PartialPath, NEW n \in LegalName, SharedPartial(p, n), Exists(n),
               PutUnlink(s) => Partial(s) # p
        PROVE  SharedPartial(p, n)'
    <3>. USE <1>4, <2>2
    <3>0. p[1] = n
      BY Zenon DEF SharedPartial
    <3>1. CASE UnlinkFaults /\ ~Acknowledging(n)
      BY <3>0, <3>1, NeverAcknowledged, Zenon DEF SharedPartial
    <3>2. CASE ~(UnlinkFaults /\ ~Acknowledging(n)) /\ PutAccept(s)
      <4>1. pc[s] = "command" /\ pc'[s] = "lock" /\ ~Exists(req'[s].name)
        BY <3>2, Zenon DEF PutAccept, TypeOK
      <4>2. Partial(s)' # p
        <5>1. Partial(s)'[1] = req'[s].name
          BY Zenon DEF Partial, partial_name
        <5>. QED
          BY <3>0, <4>1, <5>1, Zenon
      <4>3. \A t \in Session : t # s => pc'[t] = pc[t] /\ Partial(t)' = Partial(t)
        BY <2>1, Zenon DEF Frame
      <4>. QED
        BY <3>2, <4>1, <4>2, <4>3, Zenon DEF SharedPartial
    <3>3. CASE pc[s] = "unlink" /\ Partial(s) = p
      <4>1. Exists(Partial(s)) /\ ~PutUnlink(s)
        BY <3>3, Zenon DEF VerifiedInv, Verified
      <4>2. UnlinkFaults /\ pc'[s] = "raise" /\ acked' = acked
        BY <3>3, <4>1, Zenon
        DEF SessionNext, Run, Accept, PutMalformed, PutRefuse, PutAccept, PutLock, PutAdmit, PutBusy,
            PutResume, PutOpen, PutClose, PutVerify, PutLink, PutOk, PathError, DiskError,
            Raise, PutRecv, PutRelease, Disconnect, TypeOK
      <4>3. req[s].name = n
        BY <3>0, <3>3, Zenon DEF Partial, partial_name
      <4>4. acked'[n] = <<>>
        BY <3>3, <4>2, <4>3, ZenonT(30) DEF AckInv
      <4>5. ASSUME NEW t \in Session, pc'[t] \in {"unlink", "verdict"} PROVE req'[t].name # n
        BY <2>1, <3>3, <4>2, <4>3, <4>5, ZenonT(30) DEF AckInv, Frame
      <4>. QED
        BY <3>0, <4>2, <4>4, <4>5, Zenon DEF SharedPartial, Acknowledging
    <3>4. CASE /\ ~(UnlinkFaults /\ ~Acknowledging(n)) /\ ~PutAccept(s)
               /\ ~(pc[s] = "unlink" /\ Partial(s) = p)
      <4>1. pc'[s] \in Putting => pc[s] \in Putting /\ Partial(s)' = Partial(s)
        BY <3>4, RequestKept, Zenon
      <4>. QED
        BY <2>1, <3>4, <4>1, Zenon DEF SharedPartial, Frame
    <3>. QED
      BY <3>1, <3>2, <3>3, <3>4, Zenon
  <2>3. ASSUME \A p \in Path : dir'[p] \in {dir[p], None},
               PutUnlink(s) => ~Exists(Partial(s))'
        PROVE  LinkInv'
    <3>1. PutUnlink(s) => Partial(s)' = Partial(s)
      BY Zenon DEF PutUnlink, Partial
    <3>2. ASSUME NEW p \in PartialPath, NEW n \in LegalName, dir'[p] = dir'[n],
                 dir'[p] # None
          PROVE  SharedPartial(p, n)'
      <4>1. dir[p] = dir[n] /\ Exists(p) /\ Exists(n)
        BY <2>3, <3>2, Zenon DEF Path, Exists
      <4>2. PutUnlink(s) => Partial(s) # p
        BY <2>3, <3>1, <3>2, Zenon DEF Exists
      <4>. QED
        BY <2>2, <4>1, <4>2, Zenon DEF LinkInv
    <3>. QED
      BY <2>3, <3>2, Zenon DEF LinkInv, Exists, Path
  <2>4. CASE PutOpen(s) /\ ~Exists(Partial(s))
    <3>1. PICK i \in FreeInode : dir' = [dir EXCEPT ![Partial(s)] = i]
      BY <2>4, Zenon DEF PutOpen
    <3>2. Partial(s) \in PartialPath /\ Partial(s) \in Path /\ Partial(s) \notin LegalName
      BY <2>4, PathFacts, Zenon DEF PutOpen, PlainNames, Putting, Receiving
    <3>3. i # None /\ \A p \in Path : dir[p] # i
      BY Zenon DEF FreeInode
    <3>4. /\ dir'[Partial(s)] = i
          /\ \A p \in Path : p # Partial(s) => dir'[p] = dir[p] /\ dir[p] # i
      BY <3>1, <3>2, <3>3, Zenon DEF TypeOK
    <3>5. ASSUME NEW p \in PartialPath, NEW n \in LegalName, dir'[p] = dir'[n],
                 dir'[p] # None
          PROVE  SharedPartial(p, n)'
      <4>1. dir[p] = dir[n] /\ Exists(p) /\ Exists(n)
        BY <3>2, <3>4, <3>5, Zenon DEF Path, Exists
      <4>. QED
        BY <2>2, <2>4, <4>1, Zenon DEF LinkInv, PutOpen, PutUnlink
    <3>. QED
      BY <3>2, <3>4, <3>5, Zenon DEF LinkInv, Exists, Path
  <2>5. CASE PutLink(s) /\ ~Exists(req[s].name)
    <3>. DEFINE name == req[s].name
    <3>1. /\ Partial(s) \in PartialPath /\ Partial(s) \in Path
          /\ name \in LegalName /\ name \in Path /\ name \notin PartialPath
          /\ Partial(s)[1] = name
      BY <2>5, PathFacts, Zenon DEF PutLink, PlainNames, Putting, Receiving
    <3>2. /\ dir'[name] = dir[Partial(s)]
          /\ \A p \in Path : p # name => dir'[p] = dir[p]
          /\ pc'[s] = "unlink" /\ Exists(Partial(s)) /\ Partial(s)' = Partial(s)
      BY <2>5, <3>1, Zenon DEF PutLink, Partial, TypeOK
    <3>3. ASSUME NEW n \in LegalName, n # name PROVE dir[n] # dir[Partial(s)]
      BY <3>1, <3>2, <3>3, Zenon DEF LinkInv, SharedPartial
    <3>4. ASSUME NEW p \in PartialPath, NEW n \in LegalName, dir'[p] = dir'[n],
                 dir'[p] # None
          PROVE  SharedPartial(p, n)'
      <4>1. CASE n = name
        <5>1. p = Partial(s)
          BY <3>1, <3>2, <3>4, <4>1, ZenonT(30) DEF LinkInv, Exists, Path
        <5>. QED
          BY <3>1, <3>2, <4>1, <5>1, Zenon DEF SharedPartial
      <4>2. CASE n # name
        <5>1. dir[p] = dir[n] /\ Exists(p) /\ Exists(n)
          BY <3>1, <3>2, <3>4, <4>2, Zenon DEF Exists, Path
        <5>. QED
          BY <2>2, <2>5, <5>1, Zenon DEF LinkInv, PutLink, PutUnlink
      <4>. QED
        BY <4>1, <4>2, Zenon
    <3>5. ASSUME NEW m \in LegalName, NEW n \in LegalName, dir'[m] = dir'[n],
                 dir'[m] # None
          PROVE  m = n
      BY <3>1, <3>2, <3>3, <3>5, Zenon DEF LinkInv, Exists, Path
    <3>6. ASSUME NEW p \in PartialPath, NEW q \in PartialPath, dir'[p] = dir'[q],
                 dir'[p] # None
          PROVE  p = q
      BY <3>1, <3>2, <3>6 DEF LinkInv, Exists, Path
    <3>. QED
      BY <3>4, <3>5, <3>6, Zenon DEF LinkInv, Exists
  <2>6. CASE PutUnlink(s)
    <3>1. Partial(s) \in Path /\ Partial(s)' = Partial(s)
      BY <2>6, PathFacts, Zenon DEF PutUnlink, Partial, Putting, Receiving
    <3>2. dir' = [dir EXCEPT ![Partial(s)] = None]
      BY <2>6, Zenon DEF PutUnlink, Unlinked
    <3>3. dir'[Partial(s)] = None /\ \A p \in Path : dir'[p] \in {dir[p], None}
      BY <3>1, <3>2, Zenon DEF TypeOK
    <3>. QED
      BY <2>3, <3>1, <3>3, Zenon DEF Exists
  <2>7. ASSUME ~(PutOpen(s) /\ ~Exists(Partial(s))),
               ~(PutLink(s) /\ ~Exists(req[s].name)), ~PutUnlink(s)
        PROVE  \A p \in Path : dir'[p] \in {dir[p], None}
    BY <1>4, <2>7, Zenon
    DEF SessionNext, Run, Accept, PutMalformed, PutRefuse, PutAccept, PutLock, PutAdmit, PutBusy,
        PutResume, PutOpen, PutClose, PutVerify, PutLink, PutOk, PathError, DiskError,
        Raise, PutRecv, PutRelease, Disconnect, Unlinked, TypeOK
  <2>. QED
    BY <2>3, <2>4, <2>5, <2>6, <2>7, Zenon
<1>. QED
  BY <1>1, <1>2, <1>3, <1>4, Zenon DEF Next

-----------------------------------------------------------------------------
(* Acknowledgements.                                                       *)

\* The final OK is given for a name that had none, and stays true of the file.
LEMMA AckStep ==
    Others /\ FileInv /\ VerifiedInv /\ AckInv /\ AcknowledgedIsStored /\ [Next]_vars
       => AckInv' /\ AcknowledgedIsStored'
<1>. SUFFICES ASSUME Others, FileInv, VerifiedInv, AckInv, AcknowledgedIsStored,
                     [Next]_vars
              PROVE  AckInv' /\ AcknowledgedIsStored'
  BY Zenon
<1>. USE UploadAssumption DEF Goto, fsvars, lockvars, iovars, Others, ThreadInv
<1>1. ASSUME NEW n \in LegalName, acked'[n] = acked[n]
      PROVE  /\ Len(acked'[n]) <= 1
             /\ acked'[n] # <<>> => /\ dir'[n] # None
                                    /\ Sha(data'[dir'[n]]) = acked'[n][1]
  BY <1>1, PublishedStable DEF AcknowledgedIsStored, Exists, Acknowledging
<1>2. CASE Start \/ Crash \/ UNCHANGED vars
  <2>1. acked' = acked
    BY <1>2, Zenon DEF Start, Crash, vars
  <2>2. AckInv'
    BY <1>2, Zenon DEF Start, Crash, vars, AckInv
  <2>. QED
    BY <1>1, <2>1, <2>2, Zenon DEF AcknowledgedIsStored, Exists
<1>3. ASSUME NEW s \in Session, SessionNext(s), ~PutOk(s)
      PROVE  AckInv' /\ AcknowledgedIsStored'
  <2>1. acked' = acked
    BY <1>3, GlobalFootprint, Zenon
  <2>2. AcknowledgedIsStored'
    BY <1>1, <2>1, Zenon DEF AcknowledgedIsStored, Exists
  <2>3. Frame(s)
    BY <1>3, FrameStep, Zenon
  <2>4. CASE PutLink(s) /\ ~Exists(req[s].name)
    <3>1. req[s].name \in LegalName /\ req'[s] = req[s]
      BY <2>4, PathFacts, Zenon DEF PutLink, Putting, Receiving
    <3>2. acked[req[s].name] = <<>>
      BY <2>4, <3>1, Zenon DEF AcknowledgedIsStored
    <3>3. ASSUME NEW t \in Session, pc[t] \in {"unlink", "verdict"}
          PROVE  req[t].name # req[s].name
      BY <2>4, <3>3, Zenon DEF VerifiedInv, Verified, Exists
    <3>4. ASSUME NEW t \in Session, t # s
          PROVE  pc'[t] = pc[t] /\ req'[t] = req[t]
      BY <2>3, <3>4, Zenon DEF Frame
    <3>5. ASSUME NEW t \in Session, pc'[t] \in {"unlink", "verdict"}
          PROVE  acked'[req'[t].name] = <<>>
      BY <2>1, <3>1, <3>2, <3>4, <3>5, Zenon DEF AckInv
    <3>6. ASSUME NEW t \in Session, NEW u \in Session, t # u,
                 pc'[t] \in {"unlink", "verdict"}, pc'[u] \in {"unlink", "verdict"}
          PROVE  req'[u].name # req'[t].name
      <4>1. CASE t = s
        BY <3>1, <3>3, <3>4, <3>6, <4>1, Zenon
      <4>2. CASE u = s
        BY <3>1, <3>3, <3>4, <3>6, <4>2, Zenon
      <4>3. CASE t # s /\ u # s
        BY <3>4, <3>6, <4>3, Zenon DEF AckInv
      <4>. QED
        BY <4>1, <4>2, <4>3, Zenon
    <3>. QED
      BY <2>2, <3>5, <3>6, Zenon DEF AckInv
  <2>5. ASSUME pc'[s] \in {"unlink", "verdict"}, ~(PutLink(s) /\ ~Exists(req[s].name))
        PROVE  pc[s] \in {"unlink", "verdict"} /\ req'[s] = req[s]
    BY <1>3, <2>5, VerdictKept, Zenon
  <2>6. CASE ~(PutLink(s) /\ ~Exists(req[s].name))
    <3>1. ASSUME NEW t \in Session, pc'[t] \in {"unlink", "verdict"}
          PROVE  pc[t] \in {"unlink", "verdict"} /\ req'[t] = req[t]
      BY <2>3, <2>5, <2>6, <3>1, Zenon DEF Frame
    <3>. QED
      BY <2>1, <2>2, <3>1 DEF AckInv
  <2>. QED
    BY <2>4, <2>6, Zenon
<1>4. ASSUME NEW s \in Session, SessionNext(s), PutOk(s)
      PROVE  AckInv' /\ AcknowledgedIsStored'
  <2>. DEFINE name == req[s].name
  <2>1. /\ name \in LegalName /\ pc[s] = "verdict" /\ pc'[s] = "release"
        /\ req' = req /\ data' = data /\ dir' = dir
        /\ acked' = [acked EXCEPT ![name] = Append(@, req[s].digest)]
    BY <1>4, PathFacts, Zenon DEF PutOk, Putting, Receiving, TypeOK
  <2>2. acked[name] = <<>> /\ Exists(name) /\ sha256_file(name) = req[s].digest
    BY <2>1, Zenon DEF AckInv, VerifiedInv, Verified
  <2>3. acked'[name] = <<req[s].digest>>
    <3>1. acked'[name] = Append(acked[name], req[s].digest)
      BY <2>1, Zenon DEF TypeOK
    <3>. QED
      BY <2>2, <3>1, SingletonFacts, Zenon
  <2>4. \A n \in LegalName : n # name => acked'[n] = acked[n]
    BY <2>1, Zenon DEF TypeOK
  <2>5. AcknowledgedIsStored'
    <3>1. Len(acked'[name]) <= 1 /\ acked'[name][1] = req[s].digest
      BY <2>3, SingletonFacts, Zenon
    <3>2. dir'[name] # None /\ Sha(data'[dir'[name]]) = acked'[name][1]
      BY <2>1, <2>2, <3>1, Zenon DEF sha256_file, Exists
    <3>. QED
      BY <1>1, <2>4, <3>1, <3>2, Zenon DEF AcknowledgedIsStored, Exists
  <2>6. AckInv'
    <3>1. ASSUME NEW t \in Session, pc'[t] \in {"unlink", "verdict"}
          PROVE  t # s /\ pc[t] = pc'[t] /\ req[t].name # name /\ req[t].name \in LegalName
      <4>1. t # s /\ pc[t] = pc'[t]
        BY <1>4, <2>1, <3>1, FrameStep, Zenon DEF Frame
      <4>. QED
        BY <2>1, <3>1, <4>1, Zenon DEF AckInv, RequestInv, Putting, Receiving
    <3>. QED
      BY <2>1, <2>4, <3>1 DEF AckInv
  <2>. QED
    BY <2>5, <2>6, Zenon
<1>. QED
  BY <1>2, <1>3, <1>4, Zenon DEF Next

-----------------------------------------------------------------------------
(* The invariant, and what follows from it.                                *)

\* The inductive invariant holds initially.
LEMMA InvInit == Init => IInv
<1>. SUFFICES ASSUME Init PROVE IInv
  BY Zenon
<1>1. ResumeInv /\ ReceivedBytesAccounted /\ VerifiedInv /\ AckInv
  BY Zenon DEF Init, ResumeInv, ReceivedBytesAccounted, VerifiedInv, Verified, AckInv
<1>2. LinkInv
  BY Zenon DEF Init, LinkInv, Exists, Path
<1>3. AcknowledgedIsStored
  BY SeqFacts DEF Init, AcknowledgedIsStored
<1>. QED
  BY <1>1, <1>2, <1>3, BaseInit, ThreadInit, Zenon DEF IInv, Base, ThreadInv

\* The inductive invariant is preserved by every step of the server.
LEMMA InvStep == PlainNames /\ IInv /\ [Next]_vars => IInv'
<1>. SUFFICES ASSUME PlainNames, IInv, [Next]_vars PROVE IInv'
  BY Zenon
<1>. Others /\ Base
  BY Zenon DEF IInv, Others, ThreadInv, Base, FileInv, OpenInv
<1>1. TypeOK' /\ RequestInv' /\ DownInv' /\ LockInv' /\ ClaimsAreExact'
  BY TypeStep, RequestStep, DownStep, LockStep, ClaimsStep, Zenon DEF IInv
<1>2. FileInv' /\ ResumeInv' /\ ReceivedBytesAccounted' /\ VerifiedInv'
  BY FileStep, ReceiveStep, VerifiedStep, Zenon DEF IInv
<1>3. LinkInv' /\ AckInv' /\ AcknowledgedIsStored'
  BY LinkStep, AckStep, Zenon DEF IInv
<1>. QED
  BY <1>1, <1>2, <1>3, Zenon DEF IInv

\* The variables keep their types (all of handle_put's state), whatever names are
\* legal and whatever fails.
THEOREM TypeCorrect == Spec => []TypeOK
<1>1. Base /\ [Next]_vars => Base'
  BY TypeStep, RequestStep, OpenStep, Zenon DEF Base
<1>2. Base => TypeOK
  BY Zenon DEF Base
<1>3. Init => Base
  BY BaseInit, Zenon
<1>. QED
  BY <1>1, <1>2, <1>3, PTL DEF Spec

\* _in_flight is exactly the set of partials being received into, one thread each,
\* whatever names are legal and whatever fails.
THEOREM ClaimsCorrect == Spec => []ClaimsAreExact
<1>. DEFINE CInv == Base /\ ClaimsAreExact
<1>1. Init => CInv
  BY BaseInit, ThreadInit, Zenon DEF ThreadInv
<1>2. CInv /\ [Next]_vars => CInv'
  BY TypeStep, RequestStep, OpenStep, ClaimsStep, Zenon DEF Base
<1>3. CInv => ClaimsAreExact
  BY Zenon
<1>. HIDE DEF CInv
<1>. QED
  BY <1>1, <1>2, <1>3, PTL DEF Spec

\* The count of received bytes agrees with the file throughout a transfer.
THEOREM AccountingCorrect ==
    ASSUME PlainNames PROVE Spec => []ReceivedBytesAccounted
<1>1. IInv => ReceivedBytesAccounted
  BY Zenon DEF IInv
<1>. QED
  BY <1>1, InvInit, InvStep, PTL DEF Spec

\* The final OK is given once per name and stays true.
THEOREM AcknowledgementsCorrect ==
    ASSUME PlainNames PROVE Spec => []AcknowledgedIsStored
<1>1. IInv => AcknowledgedIsStored
  BY Zenon DEF IInv
<1>. QED
  BY <1>1, InvInit, InvStep, PTL DEF Spec

\* No thread ever has a published file open for appending.
THEOREM PublishedNeverOpen ==
    ASSUME PlainNames, ~UnlinkFaults PROVE Spec => []PublishedNotOpen
<1>1. IInv => PublishedNotOpen
  <2>. SUFFICES ASSUME IInv, NEW s \in Session, NEW n \in LegalName, fd[s] # None,
                       dir[n] = fd[s]
                PROVE  FALSE
    BY Zenon DEF PublishedNotOpen
  <2>1. pc[s] = "body" /\ dir[Partial(s)] = fd[s] /\ Partial(s) \in PartialPath
    BY PathFacts, Zenon DEF IInv, FileInv, Putting, Receiving
  <2>2. PICK t \in Session : pc[t] = "unlink" /\ Partial(t) = Partial(s)
    BY <2>1, Zenon DEF IInv, LinkInv, SharedPartial, Exists, Putting, Receiving
  <2>. QED
    BY <2>1, <2>2, Zenon DEF IInv, ClaimsAreExact, Receiving
<1>. QED
  BY <1>1, InvInit, InvStep, PTL DEF Spec

\* Nor one whose name was acknowledged, even when the removal of a published partial
\* has failed and left a second name for it.
THEOREM AcknowledgedNeverOpen ==
    ASSUME PlainNames PROVE Spec => []AcknowledgedNotOpen
<1>1. IInv => AcknowledgedNotOpen
  <2>. SUFFICES ASSUME IInv, NEW s \in Session, NEW n \in LegalName, fd[s] # None,
                       dir[n] = fd[s]
                PROVE  acked[n] = <<>>
    BY Zenon DEF AcknowledgedNotOpen
  <2>1. pc[s] = "body" /\ dir[Partial(s)] = fd[s] /\ Partial(s) \in PartialPath
    BY PathFacts, Zenon DEF IInv, FileInv, Putting, Receiving
  <2>2. \/ \E t \in Session : pc[t] = "unlink" /\ Partial(t) = Partial(s)
        \/ ~Acknowledging(n)
    BY <2>1, Zenon DEF IInv, LinkInv, SharedPartial, Exists, Putting, Receiving
  <2>3. ~\E t \in Session : pc[t] = "unlink" /\ Partial(t) = Partial(s)
    BY <2>1, Zenon DEF IInv, ClaimsAreExact, Receiving
  <2>. QED
    BY <2>2, <2>3, Zenon DEF Acknowledging
<1>. QED
  BY <1>1, InvInit, InvStep, PTL DEF Spec

\* A lost connection costs no byte that arrived (the with block of
\* _receive_upload flushes and the partial keeps its entry).
THEOREM InterruptionsCorrect ==
    ASSUME PlainNames PROVE Spec => InterruptedBytesKept
<1>1. ASSUME IInv, NEW s \in Session, Next, pc[s] = "body", pc'[s] = "unwind"
      PROVE  dir'[Partial(s)] = fd[s] /\ Len(data'[fd[s]]) = written[s]
  <2>1. PICK t \in Session : SessionNext(t)
    BY <1>1, Zenon DEF Next, Start, Crash
  <2>2. t = s
    BY <1>1, <2>1, FrameStep, Zenon DEF Frame, IInv
  <2>3. /\ dir' = dir /\ data' = Flushed(s, buf[s]) /\ fd[s] \in Inode
        /\ dir[Partial(s)] = fd[s]
    BY <1>1, <2>1, <2>2, UploadAssumption, Zenon
    DEF SessionNext, Run, Accept, PutMalformed, PutRefuse, PutAccept, PutLock, PutAdmit, PutBusy,
        PutResume, PutOpen, PutClose, PutVerify, PutLink, PutUnlink, PutOk, PathError,
        DiskError, Raise, PutRecv, PutRelease, Disconnect, Goto, Finished, IInv,
        TypeOK, FileInv
  <2>4. data'[fd[s]] = data[fd[s]] \o buf[s]
    <3>1. data \in [Inode -> Seq(Byte)]
      BY <1>1, Zenon DEF IInv, TypeOK
    <3>. QED
      BY <2>3, <3>1, Zenon DEF Flushed
  <2>5. Len(data'[fd[s]]) = Len(data[fd[s]]) + Len(buf[s])
    BY <2>3, <2>4 DEF IInv, TypeOK
  <2>6. written[s] = Len(data[fd[s]]) + Len(buf[s])
    BY <1>1, Zenon DEF IInv, ReceivedBytesAccounted
  <2>. QED
    BY <2>3, <2>5, <2>6, Zenon
<1>. DEFINE Kept == \A s \in Session : pc[s] = "body" /\ pc'[s] = "unwind" =>
                       /\ dir'[Partial(s)] = fd[s]
                       /\ Len(data'[fd[s]]) = written[s]
<1>2. IInv /\ [Next]_vars => [Kept]_vars
  BY <1>1, Zenon
<1>. HIDE DEF Kept
<1>3. Spec => [][Kept]_vars
  BY <1>2, InvInit, InvStep, PTL DEF Spec
<1>. QED
  BY <1>3, Zenon DEF InterruptedBytesKept, Kept

\* The uploads implement the write-once store: os.link is its Publish, the
\* final OK its Acknowledge, and every other step leaves the store alone.
THEOREM StoreRefined ==
    ASSUME PlainNames, ~UnlinkFaults PROVE Spec => StoreSpec
<1>. DEFINE store == [n \in LegalName |-> IF Exists(n) THEN data[dir[n]] ELSE None]
<1>1. Init => Store!Init
  BY Zenon DEF Init, Store!Init, Exists, Path
<1>2. IInv /\ [Next]_vars => [Store!Next]_<<store, acked>>
  <2>. SUFFICES ASSUME IInv, [Next]_vars PROVE [Store!Next]_<<store, acked>>
    BY Zenon
  <2>. USE UploadAssumption DEF Goto, fsvars, lockvars, iovars
  <2>0. Others
    BY Zenon DEF IInv, Others, ThreadInv
  <2>1. ASSUME NEW n \in LegalName, dir'[n] = dir[n] PROVE store'[n] = store[n]
    BY <2>0, <2>1, PublishedStable, Zenon DEF Exists, Others, ThreadInv, IInv
  <2>2. ASSUME \A n \in LegalName : dir'[n] = dir[n] PROVE store' = store
    BY <2>1, <2>2, Zenon
  <2>3. CASE Start \/ Crash \/ UNCHANGED vars
    <3>1. \A n \in LegalName : dir'[n] = dir[n]
      BY <2>0, <2>3, Zenon DEF Start, Crash, vars, Others, PlainNames, Path
    <3>2. acked' = acked
      BY <2>3, Zenon DEF Start, Crash, vars
    <3>. QED
      BY <2>2, <3>1, <3>2, Zenon
  <2>4. ASSUME NEW s \in Session, PutLink(s), ~Exists(req[s].name) PROVE Store!Next
    <3>0. PICK name \in LegalName : name = req[s].name
      BY <2>4, PathFacts, Zenon DEF PutLink, IInv, RequestInv, Putting, Receiving
    <3>1. /\ name = req[s].name /\ req[s].digest \in Digest
          /\ dir' = [dir EXCEPT ![name] = dir[Partial(s)]] /\ data' = data
          /\ acked' = acked /\ Exists(Partial(s))
          /\ sha256_file(Partial(s)) = req[s].digest
      BY <2>4, <3>0, PathFacts, Zenon
      DEF PutLink, IInv, VerifiedInv, Verified, RequestInv, Putting, Receiving
    <3>2. \A n \in LegalName : n # name => store'[n] = store[n]
      <4>1. \A n \in LegalName : n # name => dir'[n] = dir[n]
        BY <3>1, Zenon DEF IInv, TypeOK, Path
      <4>. QED
        BY <2>1, <4>1, Zenon
    <3>3. dir'[name] = dir[Partial(s)]
      BY <3>1, Zenon DEF IInv, TypeOK, Path
    <3>4. store[name] = None /\ store'[name] = data[dir[Partial(s)]]
      BY <2>4, <3>1, <3>3, Zenon DEF Exists
    <3>5. Sha(store'[name]) \in Digest
      BY <3>1, <3>4, Zenon DEF sha256_file
    <3>6. store' = [store EXCEPT ![name] = store'[name]]
      <4>1. /\ store = [n \in LegalName |-> store[n]]
            /\ store' = [n \in LegalName |-> store'[n]]
        BY Zenon
      <4>. HIDE DEF store
      <4>. QED
        BY <3>1, <3>2, <4>1, Zenon
    <3>7. Store!Publish(name)
      BY <3>1, <3>4, <3>5, <3>6, Zenon DEF Store!Publish
    <3>. QED
      BY <3>7, Zenon DEF Store!Next
  <2>5. ASSUME NEW s \in Session, PutOk(s) PROVE Store!Next
    <3>. DEFINE name == req[s].name
    <3>1. /\ name \in LegalName /\ dir' = dir /\ pc[s] = "verdict"
          /\ acked' = [acked EXCEPT ![name] = Append(@, req[s].digest)]
      BY <2>5, PathFacts, Zenon DEF PutOk, IInv, RequestInv, Putting, Receiving
    <3>2. /\ acked[name] = <<>> /\ Exists(name)
          /\ sha256_file(name) = req[s].digest
      BY <3>1, Zenon DEF IInv, AckInv, VerifiedInv, Verified
    <3>3. store[name] = data[dir[name]] /\ data[dir[name]] \in Seq(Byte)
      BY <3>1, <3>2, Zenon DEF Exists, IInv, TypeOK, Path
    <3>4. store[name] # None /\ Sha(store[name]) = req[s].digest
      BY <3>2, <3>3, ContentAssumption, Zenon DEF sha256_file
    <3>5. acked' = [acked EXCEPT ![name] = <<Sha(store[name])>>]
      <4>1. acked \in [LegalName -> Seq(Digest)] /\ req[s].digest = Sha(store[name])
        BY <3>4, Zenon DEF IInv, TypeOK
      <4>2. Append(acked[name], req[s].digest) = <<req[s].digest>>
        BY <3>2
      <4>. HIDE DEF store
      <4>. QED
        BY <3>1, <4>1, <4>2, Zenon
    <3>6. Store!Acknowledge(name)
      BY <2>2, <3>1, <3>2, <3>4, <3>5, Zenon DEF Store!Acknowledge
    <3>. QED
      BY <3>1, <3>6, Zenon DEF Store!Next
  <2>6. ASSUME NEW s \in Session, SessionNext(s), ~PutOk(s),
               ~(PutLink(s) /\ ~Exists(req[s].name))
        PROVE  UNCHANGED <<store, acked>>
    <3>1. \A n \in LegalName : dir'[n] = dir[n]
      <4>1. TypeOK /\ RequestInv
        BY Zenon DEF IInv
      <4>2. pc[s] \in Receiving => Partial(s) \notin LegalName
        BY <4>1, PathFacts, Zenon DEF PlainNames, Putting
      <4>3. ASSUME NEW n \in LegalName PROVE dir'[n] = dir[n]
        <5>1. n \in Path
          BY Zenon DEF Path
        <5>. QED
          BY <2>6, <4>1, <4>2, <5>1, DirFootprint, Zenon
      <4>. QED
        BY <4>3, Zenon
    <3>2. acked' = acked
      BY <2>6, GlobalFootprint, Zenon
    <3>. QED
      BY <2>2, <3>1, <3>2, Zenon
  <2>. QED
    BY <2>3, <2>4, <2>5, <2>6, Zenon DEF Next
<1>. QED
  BY <1>1, <1>2, InvInit, InvStep, PTL DEF Spec, StoreSpec, Store!Spec

=============================================================================

# A TLA+ model of retriever

retriever transfers files over one TCP connection at a time: a Python server
(`src/retriever/server.py`), a Python client (`src/retriever/client.py`) and a C
client (`src/c/`) speak a framed protocol (`src/docs/PROTOCOL.md`, version 3) with
resumable, hash-verified uploads and downloads. This directory holds TLA+ modules
that model its stateful parts, TLC configurations that check them on small
instances, and TLAPS proofs for every instance.

## The system and its parts

| Part | Source | Model |
|---|---|---|
| Upload path: `handle_put`, `_receive_upload`, `_in_flight`, partials, `sweep_partials` | `server.py`, `protocol.py` | `Upload`, `WriteOnceStore`, `UploadProofs` |
| Download path: `handle_get`, `do_get`, `rtrv_do_get` | `server.py`, `client.py`, `c/transfer.c` | `Download`, `VerifiedFiles`, `DownloadProofs`, `ResumeProofs` |
| Accept loop: `start_server`, `_serve` | `server.py` | `Gate`, `GateProofs` |
| SHA-256 of the C client | `c/sha256.c` | `Sha256Stream`, `Sha256Block`, `Sha256`, `Sha256Proofs` |
| Frames and payload codecs | `protocol.py`, `c/frame.c`, `c/retriever.h` | `Frames`, `Channel`, `FramesProofs` |
| Session loop `handle_client`; the client programs with LIST, PUT, QUIT and exit codes | `server.py`, `client.py`, `c/main.c`, `c/transfer.c` | `Session`, `SessionInvariant`, `SessionProofs` |
| `sha256_main.c`, image-header warning, logging | | not modelled |

The main thread accepts a connection, takes a permit of the session semaphore and
starts a thread. That thread serves commands until its client leaves. Threads share
the working directory and the set `_in_flight` of partials being received into. A
client program runs one command and exits; what it leaves for its next run is files
in its own directory. `PROJECT.json` lists, for each hazard of the code, the line
where it bites and the properties that cover it.

## Modules

### Upload

State: `dir` (path -> inode) and `data` (inode -> bytes) are the directory;
`in_flight` and `in_flight_lock` are the shared set and its lock; per thread, `pc`,
the request `req`, the open file `fd`, the count `written` and the file object's
buffer `buf`; `acked` records final OKs. Paths map to inodes because `os.link` makes
a second name for the partial's inode before the first is removed.

One action per step between which other threads or a kill can intervene:

| Action | Code in `server.py` |
|---|---|
| `Start`, `Crash` | `start_server` with its sweep; the process is killed |
| `Accept` | HELLO of `handle_client` |
| `PutMalformed` | a payload that is not laid out as a PUT ends the session (154-163) |
| `PutRefuse`, `PutAccept` | the checks of `handle_put`, in order |
| `PutLock`, `PutAdmit`, `PutBusy` | `with _in_flight_lock` (181-186) |
| `PutResume`, `PutOpen`, `PutRecv`, `PutClose` | offset, `open(.., "ab")`, the recv loop, the end of `with` |
| `PutVerify`, `PutLink`, `PutUnlink`, `PutOk` | hash, `os.link`, `os.remove`, final OK |
| `PutRelease` | the `finally` clause (189-191) |
| `Disconnect`, `DiskError`, `PathError` | the `except` clauses of `handle_client` |

The client is arbitrary: any request of the given sets, any bytes, gone at any time.
A partial's name is a pair of name and token; a legal name may itself be such a pair,
which is how a legal name spelled like a partial is modelled. SHA-256 is an
uninterpreted operator: nothing assumes that it has no collisions.

`DiskFaults` lets every call on a file fail, except `os.remove` of the partial right
after it was linked (line 239), which has a switch of its own, `UnlinkFaults`. If that
call fails while another thread waits to upload to the same partial, that thread opens
the published file for appending. With `UnlinkFaults = TRUE` in `MCUpload.cfg`, TLC finds
`PublishedNotOpen` and `StoreSpec` violated in this way: they hold, and are checked and
proved, where removals work. What holds whatever fails is `AcknowledgedNotOpen`: the
upload whose file is appended to was answered INTERNAL, and no acknowledged file is ever
open. `upload_live` checks it with removals that fail, and it is proved for every instance.

### WriteOnceStore

What the protocol promises of uploads: a name gets its content once, whole, with a
hash that was stated for it; nothing later changes or removes it; it is acknowledged
at most once, with the hash of its content. `Upload` implements it under the mapping
`store[n]` = content of the inode of `n`.

### Download

State: `store` (the server's files), `dir` and `data` (the client's directory), and per
client `pc`, the names it was given, the partial it found, the offset it asked for,
the server's metadata, the body on the wire, the open file, the bytes still expected
and its buffer. `claimed` records the hash a local name was reported verified against.

`Begin` is everything up to the request; `ServeStat`, `ServeHash`, `ServeOpen` are the
three times `handle_get` looks at the file; `Drop`, `Create`, `Recv`, `Close`, `Verify`,
`Rename` are the client's steps. `Lost`, `Kill`, `CreateFails` and `Replace` are what goes
wrong. `weather` says how much of it there is: in `mild` weather connections are lost,
clients killed and local opens fail; in `rough` weather, which only `Unstable` instances
have, server files and bytes change too; `CalmDown` ends either. A name in `LongDest` is
one whose partial's name is too long for the file system, so that opening it fails each
time. `RemoveFaults` lets the C client's `remove` of a useless partial fail, which the C
client does not notice; in the Python client it raises, and the attempt ends as if killed.
`Flushed` writes where the operating system would: at the end of a file opened with "ab",
and at the client's own position in one opened with "wb", so that two clients at one
partial overwrite each other and may leave a hole (`Zero`). `Kind` distinguishes the clients where they differ: the Python
client's glob, its `os.remove` that minds a missing file, its reads of whatever
arrived; the C client's exact reads. `Exclusive` states that
attempts at one local name do not overlap, which the code does not enforce.

### VerifiedFiles

What a GET promises the user: a local name appears at once, with a whole file of the hash
that is reported as verified, and nothing later replaces, changes or removes it.
`Download` implements it (`FilesSpec`) under the mapping `files[d]` = content of the inode
of `d`, `told` = `claimed`.

### Gate

The backlog, the connection in the main thread's hands, the semaphore and the state of
each connection. `Thread.start` may raise; `failed` counts how often it did. The connection
it was for is then "stranded": nothing closes its socket until the next `accept` binds the
variable to another one (`Rebind`).

### Frames

One direction of a connection as bytes. `Payload` and `rtrv_write_frame` pack a
message; `Send` is one `send`, which may be short; `Recv` is one `recv`, which returns
some of the bytes asked for; `HeaderWhole` and `PayloadWhole` are what
`rtrv_read_frame` or `read_frame` do once a header or a payload is complete; `Unpacked`
is the parsing of each payload. The reader is the Python server for requests, and
either client for replies. The sender may speak another version. `Message` is what the
programs pack: numbers and lengths that fit their fields, which `to_bytes` and the C
client's `RTRV_MAX_NAME` ensure, hashes and tokens of their size, and listings of names
that are directory entries, hence not empty and without zero bytes. `MessagesAssumption`
states that the messages of an instance are of this kind.

### Channel

One direction of a connection as the programs above the framing see it: messages are
delivered whole, once and in order, those over the cap or of another version not at all,
and a reader that gives up does so for a reason and for good. `Frames` implements it
(`ChannelSpec`); `sent` is the messages whose packing has begun. It is what `Session`
assumes of its two queues.

### Session

One run of a client program and the server thread that serves it, joined by two
queues of frames and body bytes. Frames are whole, by `Frames`; a body is a count of
raw bytes, by the protocol not framed. What the commands do to the disks is in `Upload`
and `Download`: here each handler may give any reply it can give, and `done` records
whether the command took effect (the file published, or in place, or the listing
printed). Each client step is a stretch of code between two socket operations; `Status`
is the table of exit statuses of both clients. The connection may break, which both
ends see, or go silent, which neither does. A connection begins "queued": the kernel has
completed it, and the client may have sent its HELLO, but `start_server` has yet to accept
it and get a permit of the gate (`Admit`), or fails to start its thread (`TurnAway`). How
long that takes is up to the other sessions, so nothing makes `Admit` happen. The Python
client gives up after `SOCKET_TIMEOUT`, with a traceback and status 1, since the handshake
is outside the `try` of its `main`; the C client waits. The server looks at the version of
the first frame, then at its type; both clients send HELLO first. `Ahead` is a measure of what the two programs
still have to do: a step of the client weighs more than a frame, a frame more than a whole
body, because the one can cause the other (`NoLivelock`).

A send never blocks in this model: a peer that does not read delays a sender until its
timeout, and is then the same as a lost connection.

### Sha256Stream, Sha256Block, Sha256

`Sha256Stream` cuts and pads: `hashed` is the concatenation of the blocks passed to
`sha256_block`, `buffer` the bytes waiting. `Padded` is the padding of FIPS 180-4,
written from its definition. `Sha256Block` is the arithmetic: a word is a pair of
16-bit halves, because 32 bits are outside TLC's integers, and wraps as in C. `Sha256`
composes them: each block the stream completes is compressed, an iteration of a loop
per step, before the stream goes on. `Schedule`, `Rounds`, `Compressed` and `HashValue` are
the hash of FIPS 180-4 as a function of the padded message; `StateIsStandard` compares the
state the loops end with to it.

## Runs

| Run | Configuration | Result |
|---|---|---|
| `upload` | 2 threads, 1 name, 2 hashes of files of 1 and 2 bytes, a size above the limit, disk errors, kills | 145 000 states, all hold |
| `upload_live` | 2 threads, 1 hash; a plain name and one whose partial's name is too long, published partials that cannot be removed; fairness | 51 000 states, hold |
| `download` | Python and C client, 1 file of 2 bytes under 2 local names of which one extends the other, damage, removal of the file, partials that cannot be removed | 232 000 states, hold |
| `download_live` | both clients, 2 local names of which one is too long to have a partial, the file replaced by one of another size, damage, fairness | 290 000 states, hold |
| `gate` | 5 connections, 2 slots, backlog of 2, thread failures, fairness | 23 000 states, hold |
| `sha256` | the real sizes and tables; files of 0, 1, 55, 56, 57, 63, 64, 65, 119, 120 and 128 bytes | 24 000 states, hold |
| `frames` | every sequence of up to two requests or two replies; both readers; two versions | 1 250 000 states, hold |
| `session` | both clients, three commands, files of up to 2 bytes, the wait at the gate, fairness | 6 200 states, hold |

What they check is stated at each property in the modules. In short: one writer per
partial and exact claims; every byte counted is in the file or its buffer; nothing
that arrived is lost with a connection; published files, if partials can be removed, and
acknowledged files in any case, are never appended to, and the store is write-once; what a client presents has the hash it was verified
against, and is never replaced; partials stay resumable, unique and growing; retries
succeed, but for two traps; permits are
accounted for; waiting connections have their turn; exactly the padded message is
hashed, block by block as the standard has it and to the digest hashlib gives; messages arrive whole, in order and unrefused; the
two ends of a connection agree where bodies end; an exit status tells the truth; neither
program goes round in circles; server threads end, and client runs do unless a C client
waits for its turn or on a silent network.

Four runs show where the code departs from what a doc or a comment says. Each
checks one property, and TLC finds it violated:

- `upload_sweep`: the sweep deletes an acknowledged file whose legal name has the
  form `.x.part`.
- `download_stale`: while the partial of a larger file is at a local name, every GET of a
  smaller file to that name fails with MALFORMED, and the client never starts over.
  `src/tests/test_hostile.py:149` asserts this refusal, and so does one sentence of
  `PROTOCOL.md`; another says that such a client is told to start over. (A file at least
  as large can still be fetched to the name.)
- `download_two`: two clients at one local name can make one present a truncated
  file as verified (hash and rename are two steps).
- `gate_leak`: a thread that fails to start keeps its permit, so the loop waits while
  a slot is free.

Retries get stuck in two ways if no local name extends another, and `download_live` shows
that there is no third: the one above, and a local name of 233 to 255 characters, whose
partial cannot be opened (`LongDest`). If a local name does extend another one, there is one
more: the Python client at the shorter name finds the partial of the longer, resumes from
its length into a new partial of its own, finds the hash wrong and removes what it wrote,
again and again until the longer name is fetched.

Met while modelling, without a run of their own:

- Names of 233 to 255 characters are legal and cannot be uploaded, since the partial's
  name is 23 characters longer (`PathError` in `Upload`).
- `find_partial` of the Python client may return the partial of a longer name
  (`Matches` in `Download`). `DownloadsVerified` shows that nothing unverified is
  presented because of it.
- `c/main.c:16` says of the exit codes "matching the Python client so scripts see one
  contract". After the handshake the C client has one code, 1, where the Python client
  has 1, 2 and 3; in a failed handshake the C client exits with 3 and the Python client
  with a traceback and 1 (`Status` in `Session`). What a script can rely on with both is
  `ReportsAreTrue`.
- Status 3 of the Python client says nothing about the transfer: a goodbye that is lost
  after a finished transfer gives it too.
- The C client ignores neither SIGPIPE nor silence: a write to a closed connection may
  kill it, and a network gone silent, or a server whose slots stay taken, can keep it
  waiting for ever (`RunsEnd` says so).
- A published file whose partial could not be removed may be appended to (`UnlinkFaults`,
  see `Upload` above).

### Bounds, and why they are enough

Two threads meet in every pair of steps; that more threads, names and hashes (hashes
with a common token included) change nothing is proved. Contents of one and two bytes with
chunks of up to two bytes give every split into received, buffered and flushed, and a
partial that is shorter than, equal to and longer than a stated size. Inodes suffice
for every entry and open file, so that an open never blocks; which unused inode a new file
gets makes no difference, and `Download` takes a fixed one. Downloads are of files of one
and two bytes, of four in `download_stale` and `download_two`: a Python client's partial can
end inside them, and a C client's, by a kill, before them. Five connections
overfill two slots, the main thread's hand and the backlog. The lengths hashed are the
ones around which the padding changes its shape, with chunks below, at and above a
block. In `frames`, pieces of 1, 3 and 10 bytes cut headers and payloads everywhere and
span the boundary of two frames; numbers need up to three bytes, fields hold zero bytes,
one request is exactly as large as the cap and one listing larger; a u64 of four bytes,
a hash of three and a token of two keep the frames short and change no control. In
`session`, bodies of 0, 1 and 2 bytes with every resume offset give an empty body, the
middle of one and its end.

`View` merges states that differ only in what free inodes used to hold; `Symmetry`
permutes threads, inodes or remote files in runs without liveness. The liveness run of
`Download` has one inode, which is all that attempts in turn at one name ever use. `Stormy` leaves out
the calm states where only safety is checked: calm only removes steps.

`sha256`, `frames` and `session` switch the deadlock check off: a digest that was read off,
a stream that was read, and two programs that have ended are the end.

### Fairness

- `Upload!Fairness`: a thread that can run does (`WF` of `Run`); a `recv` returns, fails
  or times out after `SOCKET_TIMEOUT`, so a body never waits for ever (`WF` of `PutRecv`
  or `Disconnect`); the lock is given to a thread that waits while it is free again and
  again (`SF` of `PutLock` and `PutRelease`). The last is what CPython's lock gives in
  practice; it has no queue. `Crash` is not fair, and no client needs to do anything.
- `Download!FairSpec`: the user tries again, and an attempt goes on or times out. The C
  client has no timeout of its own; it relies on the server's closing the connection.
- `Gate!FairSpec`: the main thread runs, and every session ends. The code ends the
  session of a silent peer; that a busy one leaves some day is assumed.
- `Sha256!ShaSpec`: one thread computes, and nothing in it waits. That a block once begun
  is finished is stated as `[]<>~Busy`, since the loops of `sha256_block` have constant
  bounds; that the padding loop ends is checked.
- `Frames!Spec`: both programs go on, and TCP delivers what it accepted or reports the end.
- `Session!Spec`: each program takes its next step; for a reader that has a timeout, giving
  up is such a step. `GiveUp`, TCP's own end of a silent connection, and `Network` are not
  fair.

## Proofs

All proofs are checked by `tlapm` 1.4.5 to the last leaf. Most leaves name their prover.
`tlapm` gives itself five seconds to translate an obligation for the SMT solver, and its
translations get slower with every SMT obligation of the same run. In modules of this size
easy leaves then fail at random. Leaves without arithmetic therefore go to Zenon, and the
leaves that need the solver longest are given more time (`SMTT`, `ZenonT`).

`UploadProofs` proves, for any sets of threads, names, hashes, tokens, bytes, sizes and
inodes, under `UploadAssumption` and `ContentAssumption` (`None` is not a content):

- without further conditions, `TypeOK` and `ClaimsAreExact`;
- if no legal name is spelled like a partial (`PlainNames`), `ReceivedBytesAccounted`,
  `AcknowledgedIsStored` and `InterruptedBytesKept`;
- if moreover a published partial can be removed (`~UnlinkFaults`), `PublishedNotOpen`,
  and that `Upload` implements `WriteOnceStore` (`StoreRefined`).

`PlainNames` cannot be dropped: the run `upload_sweep` is the counterexample for
acknowledgements. Nor can `~UnlinkFaults`, for the last two: see `Upload` above.

Types and claims need only that a thread inside `handle_put` has a checked request and,
in the body, an open file (`Base`). For the rest the argument is one inductive
invariant, `IInv`. None of the properties is inductive by itself. That a thread's count
agrees with its file needs that nobody else has the partial open, which needs the claims
to be exact, which needs the lock to have one holder (`LockInv`). That published content
never changes needs that no open file is a published one. This is the delicate part,
since a kill between link and unlink leaves a published inode under a partial's name
(`LinkInv`): an inode has both a legal name and a partial's only if the partial is one of
that very name, and either the thread that published it is about to remove it or no
thread inside `handle_put` is headed for that partial. After a kill there are no threads,
and later ones are turned away by the existence check, because the name is taken. If
removing the partial failed, threads may be headed for it, but then the name has not been
acknowledged and nobody is about to (`Acknowledging`), and never will be, since only the
thread that linked it could. The
invariant is preserved action by action; the refinement then needs one case per action
that changes `dir` or `data`.

`DownloadProofs` proves, for any clients of either kind, names, contents, sizes and
inodes, under `DownloadAssumption`, if attempts at one local name do not overlap
(`Exclusive`) and no local name is spelled like a partial (`PlainNames`):

- `DestVerified`, whatever is lost, killed, replaced or damaged;
- that `Download` implements `VerifiedFiles` (`FilesRefined`);
- `AtMostOnePartial`, if moreover no local name extends another (`Extends = {}`).

`Exclusive` cannot be dropped: `download_two` is the counterexample. The invariant is
`IInv == Control /\ Apart /\ Heap`. `Control` says what an attempt knows at each step,
`Apart` that attempts under way are at different local names. `Heap` is the argument: no
file has two names (`LinkInv`), the file a client writes to has no name but its partial's
(`OwnInv`), and from verification to renaming the partial is the verified file
(`VerifiedInv`). `OwnInv` allows the open file to have no name at all, since the glob of
another Python client may have found the partial and dropped it. The actions are first
sorted by their effect on the directory (none, unlink, create, write, rename), and each
kind of effect is shown to keep `Heap`. The refinement needs in addition that the local
name of an attempt under way is still free (`Vacant`): the check is made once, in `Begin`,
and the rename at the end overwrites; what keeps the name free in between is that no other
attempt is at it. The verified partial and the report then appear in one step, `Rename`,
and every other step leaves both alone. `AtMostOnePartial` needs in addition that until it
creates its partial an attempt knows the one at its local name (`Offered`).

It also proves `TypeOK`, with no condition at all: attempts may overlap. `Typed` adds to
`Control` that everything on its way, buffered or on disk is bytes of files or damaged
ones (`Streams`) and what is known of sizes and offsets at each step (`Sized`), without
which the count of bytes to come could go below zero.

`ResumeProofs` proves two more properties under `Exclusive`, `PlainNames` and
`Extends = {}`:

- `PartialsOnlyGrow`: what is at a partial's name before a step is the beginning of what
  is there after it, if both exist. Files may change and bytes be damaged. It follows
  from the types, `IInv` and `Offered`, effect by effect.
- `PartialIsPrefix`: a partial is the beginning of the file whose token it carries. This
  needs moreover that files do not change and bytes arrive undamaged (`~Unstable`), and
  that no two files share a token (`DistinctTokens`; a token is the first eight bytes of a
  hash). `Serves` says where the bytes of a file are: those in the partial, those not yet
  flushed and those on their way are, in this order, the file. It holds in the body
  because at `create` the offset is the length of the partial that is there or zero, and
  a partial of another token has been dropped.

`GateProofs` proves, for any cap, backlog and finite set of connections,
`TypeOK`, `SessionsCapped` and `PermitsExact`.
The invariant adds that the connection in the main thread's hands and those in the
backlog are waiting and pairwise different (`HandInv`): without it, starting a
session might not add one. Every step keeps the sum of permits left, taken and lost.

`Sha256Proofs` proves, for every set of files and of chunk sizes, and for every block size
and size of the length field that `Sha256Assumption` allows, `TypeOK`, `NothingLost` and
`HashesPadded`. The invariant says that the blocks passed on are whole and the buffer is
not full (`Streams`), that they hold the message read so far (`Reads`), and that while
zeros are being added they hold the file, the byte 0x80 and some number of zeros up to the
number the standard asks for (`Pads`). The padding loop tests for equality only; that it
never runs past its end is the lemma `PadPlace`, which says that the buffer is at the
length field exactly when that number of zeros is in. It rests on two multiples of the
block size that are closer than a block being equal.

It also proves `StateIsStandard` of `Sha256` (`HashIsStandard`). The standard's definitions
are recursive functions, and the first thing to prove is that they satisfy their equations
(`ScheduleEquations`, `RoundsEquations`, `HashValueEquations`), by one induction for the
three. The invariant `Loops` then says that the state is the hash value of the blocks done
and that, of the block in work, the schedule and the working variables are those of as many
words and rounds as the loops have done. A step of the stream adds blocks; the hash value
of the first blocks is not changed by what follows them (`HashValueOfPrefix`). Steps inside
`sha256_block` leave the stream alone (`BlocksLeaveStream`), so everything proved of
`Sha256Stream` holds of `Sha256`.

`SessionInvariant` and `SessionProofs` prove `TypeOK`, `InStep` and `ReportsAreTrue` of
`Session`, for either client, every command and files of any size. None is inductive: the
two programs look at different ends of two queues. The invariant `IInv` says where the
server can be while the client is at a place (`Met`), what can be in each queue then
(`ToServer`, `ToClient`), how the counts of the two ends of a body are related through the
bytes in between (`Body`, `Uploading`), when the command has had its effect (`Effect`), and
that what the client was told, or will be told by a reply still in the queue, is so and
stays so (`Told`). The last is the argument for `ReportsAreTrue`: a refusal that is on its
way must exclude that the server still publishes, hence `Settled`. The first module has
the invariant and the clients' steps, the second the server's and the network's.

`SessionProofs` also proves `NoLivelock` (`NothingRepeats`): every step makes the natural
number `Ahead` smaller. A step of a client may put one frame on the wire and start a session
(`ClientPays`), a frame the server takes may commit it to a body of any size (`FramePays`),
and otherwise the server counts down (`CountPays`). That the counts stay within the bounds
used is `TypeOK`. With it, what `RunsEnd` and `SessionsEnd` leave to the model checker is
only that neither program is stuck before its end.

`FramesProofs` proves `TypeOK`, `MessagesIntact` and `OnlyJustRefusals` of `Frames`, for all
messages and any number of them, all sizes of the fields, all ways to cut the stream into
sends and receives, and a break at any byte, under `FramesAssumption` and
`MessagesAssumption`. It has two halves:

- The codecs. Every message survives packing and unpacking in both readers (`RoundTrip`).
  A number is read back from its bytes (`NumberRoundTrip`); a name, text, hash or token is
  found where the lengths before it put it (`Layout`); the walk of `do_list` over a listing
  stops at exactly the zero bytes between the names (`ListRoundTrip`). These are recursive
  functions, and the facts are by induction: a least counterexample of a set of naturals
  (`Induction`), and a function that satisfies the recursion exists (`Recursion`).
- The framing. `FramesInv` says that the whole frames read, the header in hand, the bytes
  buffered, the bytes on the wire and those not yet sent or lost are, in this order, the
  frames begun (`InPlace`). So when as many bytes as a header, or as the header said, are
  together, they are the header or the payload of the next message (`HeaderNext`,
  `PayloadNext`), which is then accepted, if version and cap allow, and unpacked to that
  message. `MessagesIntact` alone is not inductive: it says nothing of bytes.

That `Frames` implements `Channel` (`ChannelRefined`) combines the two: to the messages, a
`recv` is nothing, a refusal of the message that is due, its header, or the message
(`Outcome`). Version and cap are checked when the header is whole and the message is
delivered some receives later, when its payload is; in between the invariant has to
remember that the message due is one the reader can take (`HeaderSound`).

TLC finds the inductive invariants of `Session`, `Download` and `Frames` true on the
instances of the runs `session`, `download`, `download_live` and `frames` (in
`download_live`, where files change, without `PrefixInv`).

Checked by TLC only:

- liveness (`UploadsEnd`, `OnlyOversizeStalls`, `WaitingServed`, `HashingEnds`, `AllArrive`,
  `RunsEnd`, `SessionsEnd`), since liveness under fairness is out of the prover's reach;
- `DigestAgrees`: the digest against those hashlib gives for some files. That the loops
  compute the standard's function is proved; that the tables and the operations on bits are
  the standard's is what the digests show. There is nothing to prove them against but a
  second copy, and the prover has no theory of bits.

## Not modelled

- `sha256_main.c`, a test harness: the loop of `sha256_file` over standard input and one
  `printf`. `sha256_hex`, which formats.
- The counter `bit_count` near 2^64, where it wraps: a file of two exbibytes.
- The metadata block of a GET reply as bytes (its fields are in `Download`), the UTF-8
  decoding of names, and `send_u8` to `recv_u64` of `protocol.py`, which nothing calls.
- Backpressure: see `Session` above.
- Sorting and printing a listing, parsing of command lines beyond its two outcomes, the
  image-header warning of `_receive_upload`, logging and messages.
- Files other programs put into the server's directory, except as `Replace` in `Download`.
- In `Download`, a full local disk. The clients treat it like a lost connection.

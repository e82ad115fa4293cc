------------------------------- MODULE Frames -------------------------------
(***************************************************************************)
(* Protocol messages as bytes on one direction of a connection: how they   *)
(* are packed (c/frame.c, c/transfer.c, retriever/protocol.py), written    *)
(* with sends that may be short, carried by TCP in pieces of any size, put *)
(* together again by rtrv_read_exact or read_exact_bytes, checked and      *)
(* unpacked.  The reader is the Python server, the Python client or the C  *)
(* client.  An interrupted call (EINTR) changes nothing and is a stutter.  *)
(***************************************************************************)
EXTENDS Integers, Sequences

CONSTANTS
    Requests,     \* messages a client may send
    Replies,      \* messages the server may send
    MaxMessages,  \* bound on the messages of a behaviour
    Segment,      \* sizes of the pieces send and recv work in
    LongSize,     \* bytes of a u64 (8 in the code)
    HashSize,     \* SHA256_DIGEST_SIZE (32)
    TokenSize,    \* RTRV_TOKEN_SIZE (8)
    Cap           \* RTRV_PAYLOAD_CAP (64 KiB)

ASSUME FramesAssumption ==
    /\ MaxMessages \in Nat /\ Segment \subseteq Nat \ {0} /\ 1 \in Segment
    /\ LongSize \in Nat \ {0} /\ HashSize \in Nat /\ TokenSize \in 0..HashSize
    /\ Cap \in Nat

VARIABLES
    kind,         \* which implementation reads: "c" or "py"
    version,      \* the version the sender puts in its headers
    plan,         \* the messages the sender will write
    sent,         \* how many of them it has begun to write
    out,          \* bytes of the current frame not yet sent
    wire,         \* bytes sent and not yet received
    cut,          \* the connection is lost or the sender has closed it
    buf,          \* bytes received towards the current header or payload
    header,       \* [type, len] once a header has been read, else NoHeader
    got,          \* messages unpacked
    failed        \* the reader has given up on the connection

vars == <<kind, version, plan, sent, out, wire, cut, buf, header, got, failed>>

Magic == <<82, 84, 82, 86>>
Version == 3
T == [LIST |-> 0, GET |-> 1, PUT |-> 2, HELLO |-> 16, QUIT |-> 17, OK |-> 128, ERROR |-> 129]
HeaderSize == 6 + LongSize
NoHeader == [type |-> -1, len |-> 0]

-----------------------------------------------------------------------------
(* Packing and unpacking.                                                  *)

\* A value shifted down by k bytes.
Shifted(n, k) ==
    LET shift[i \in 0..k] == IF i = 0 THEN n ELSE shift[i - 1] \div 256
    IN  shift[k]

\* rtrv_put_u16 and rtrv_put_u64: a shift and a mask per byte.
BigEndian(n, size) == [i \in 1..size |-> Shifted(n, size - i) % 256]

\* rtrv_get_u16 and rtrv_get_u64: shift up by a byte, drop the next one in.
Number(bytes) ==
    LET value[k \in 0..Len(bytes)] ==
            IF k = 0 THEN 0 ELSE value[k - 1] * 256 + bytes[k]
    IN  value[Len(bytes)]

Counted(bytes) == BigEndian(Len(bytes), 2) \o bytes

From(bytes, i) == SubSeq(bytes, i, Len(bytes))
Leading(bytes, n) == SubSeq(bytes, 1, IF Len(bytes) < n THEN Len(bytes) ELSE n)

\* handle_list: the names with a zero byte between them.
Joined(names) ==
    LET join[k \in 0..Len(names)] ==
            IF k = 0 THEN <<>> ELSE join[k - 1] \o (IF k > 1 THEN <<0>> ELSE <<>>) \o names[k]
    IN  join[Len(names)]

Payload(m) ==
    CASE m.form = "get"    -> BigEndian(m.offset, LongSize) \o m.token \o Counted(m.name)
      [] m.form = "put"    -> BigEndian(m.size, LongSize) \o m.digest \o Counted(m.name)
      [] m.form = "resume" -> BigEndian(m.offset, LongSize)
      [] m.form = "names"  -> Joined(m.names)
      [] m.form = "error"  -> <<m.reason>> \o Counted(m.text)
      [] OTHER             -> <<>>

\* What the programs pack: numbers and lengths fit their fields, hashes and tokens
\* have their size, and a listed name, being a directory entry, is not empty and
\* holds no zero byte.
Byte == 0..255
Fitting(size) == {n \in Nat : Shifted(n, size) = 0}
Bytes(n) == {s \in Seq(Byte) : Len(s) = n}
Text == {s \in Seq(Byte) : Len(s) \in Fitting(2)}
Entry == Seq(1..255) \ {<<>>}
Message ==
    [type : {"HELLO", "LIST", "QUIT", "OK"}, form : {"empty"}]
    \cup [type : {"GET"}, form : {"get"}, offset : Fitting(LongSize),
          token : Bytes(TokenSize), name : Text]
    \cup [type : {"PUT"}, form : {"put"}, size : Fitting(LongSize),
          digest : Bytes(HashSize), name : Text]
    \cup [type : {"OK"}, form : {"resume"}, offset : Fitting(LongSize)]
    \cup [type : {"OK"}, form : {"names"}, names : Seq(Entry)]
    \cup [type : {"ERROR"}, form : {"error"}, reason : Byte, text : Text]

ASSUME MessagesAssumption ==
    \A m \in Requests \cup Replies : m \in Message /\ Len(Payload(m)) \in Fitting(LongSize)

rtrv_write_frame(m) ==
    Magic \o <<version, T[m.type]>> \o BigEndian(Len(Payload(m)), LongSize) \o Payload(m)

Malformed == [form |-> "malformed"]

\* handle_get, handle_put and parse_name: the fixed fields are there, and the name
\* that follows the first n bytes has the length it claims, with nothing after it.
WellNamed(bytes, n) ==
    Len(bytes) >= n + 2 /\ Len(bytes) = n + 2 + Number(SubSeq(bytes, n + 1, n + 2))

\* Mutant: the walk stops at the last byte, before the end of the last name.
do_list_short(bytes) ==
    LET n == Len(bytes)
        walk[i \in 0..n] ==
            IF i = 0 THEN [names |-> <<>>, start |-> 1]
            ELSE LET before == walk[i - 1]
                 IN  IF bytes[i] # 0 THEN before
                     ELSE [names |-> IF i > before.start
                                       THEN Append(before.names, SubSeq(bytes, before.start, i - 1))
                                       ELSE before.names,
                           start |-> i + 1]
    IN  walk[n].names

\* do_list: a name ends at a zero byte or at the end of the payload.
do_list(bytes) ==
    LET n == Len(bytes) + 1
        walk[i \in 0..n] ==
            IF i = 0 THEN [names |-> <<>>, start |-> 1]
            ELSE LET before == walk[i - 1]
                 IN  IF i < n /\ bytes[i] # 0 THEN before
                     ELSE [names |-> IF i > before.start
                                       THEN Append(before.names, SubSeq(bytes, before.start, i - 1))
                                       ELSE before.names,
                           start |-> i + 1]
    IN  walk[n].names

\* Mutant: a message that fills its payload exactly is refused.
rtrv_report_error_strict(bytes) ==
    IF Len(bytes) < 3 \/ Number(SubSeq(bytes, 2, 3)) + 3 >= Len(bytes) THEN Malformed
    ELSE [type |-> "ERROR", form |-> "error", reason |-> bytes[1],
          text |-> SubSeq(bytes, 4, 3 + Number(SubSeq(bytes, 2, 3)))]

\* The C client reads the message even if bytes follow it.
rtrv_report_error(bytes) ==
    IF Len(bytes) < 3 \/ Number(SubSeq(bytes, 2, 3)) + 3 > Len(bytes) THEN Malformed
    ELSE [type |-> "ERROR", form |-> "error", reason |-> bytes[1],
          text |-> SubSeq(bytes, 4, 3 + Number(SubSeq(bytes, 2, 3)))]

\* The Python client does not.
unpack_error(bytes) ==
    IF Len(bytes) < 3 \/ Number(SubSeq(bytes, 2, 3)) + 3 # Len(bytes) THEN Malformed
    ELSE [type |-> "ERROR", form |-> "error", reason |-> bytes[1], text |-> From(bytes, 4)]

\* What the reader makes of a payload: an ERROR frame is unpacked as one, any
\* other by the form of the message it expects next.  The Python client does not
\* look at the length of an answer to PUT.
Unpacked(type, form, bytes) ==
    LET Long(i) == Number(SubSeq(bytes, i, i + LongSize - 1))
    IN  CASE type = T.ERROR /\ kind = "c"  -> rtrv_report_error(bytes)
          [] type = T.ERROR /\ kind = "py" -> unpack_error(bytes)
          [] type = T.GET ->
                IF ~WellNamed(bytes, LongSize + TokenSize) THEN Malformed
                ELSE [type |-> "GET", form |-> "get", offset |-> Long(1),
                      token |-> SubSeq(bytes, LongSize + 1, LongSize + TokenSize),
                      name |-> From(bytes, LongSize + TokenSize + 3)]
          [] type = T.PUT ->
                IF ~WellNamed(bytes, LongSize + HashSize) THEN Malformed
                ELSE [type |-> "PUT", form |-> "put", size |-> Long(1),
                      digest |-> SubSeq(bytes, LongSize + 1, LongSize + HashSize),
                      name |-> From(bytes, LongSize + HashSize + 3)]
          [] type = T.OK /\ form = "resume" ->
                IF kind = "c" /\ Len(bytes) < LongSize THEN Malformed
                ELSE [type |-> "OK", form |-> "resume",
                      offset |-> Number(Leading(bytes, LongSize))]
          [] type = T.OK /\ form = "names" ->
                [type |-> "OK", form |-> "names", names |-> do_list(bytes)]
          [] OTHER -> [type |-> CHOOSE t \in DOMAIN T : T[t] = type, form |-> "empty"]

-----------------------------------------------------------------------------
(* The connection.                                                         *)

Init ==
    /\ \E n \in 0..MaxMessages :
          \/ plan \in [1..n -> Requests] /\ kind = "py"
          \/ plan \in [1..n -> Replies] /\ kind \in {"c", "py"}
    /\ version \in {Version, Version - 1}
    /\ sent = 0 /\ out = <<>> /\ wire = <<>> /\ cut = FALSE
    /\ buf = <<>> /\ header = NoHeader /\ got = <<>> /\ failed = FALSE

reader_vars == <<buf, header, got, failed>>

WriteFrame ==
    /\ ~cut /\ out = <<>> /\ sent < Len(plan)
    /\ out' = rtrv_write_frame(plan[sent + 1])
    /\ sent' = sent + 1
    /\ UNCHANGED <<kind, version, plan, wire, cut, reader_vars>>

\* Mutant: what a short send leaves is not sent.
SendOnce ==
    /\ ~cut
    /\ \E n \in Segment :
          /\ n <= Len(out)
          /\ wire' = wire \o SubSeq(out, 1, n)
          /\ out' = <<>>
    /\ UNCHANGED <<kind, version, plan, sent, cut, reader_vars>>

\* One send of rtrv_write_all: it takes some of the bytes.
Send ==
    /\ ~cut
    /\ \E n \in Segment :
          /\ n <= Len(out)
          /\ wire' = wire \o SubSeq(out, 1, n)
          /\ out' = From(out, n + 1)
    /\ UNCHANGED <<kind, version, plan, sent, cut, reader_vars>>

\* The sender is done or dies, or the connection is reset: what is on the way may
\* be lost from any point on.
Cut ==
    /\ ~cut
    /\ cut' = TRUE
    /\ \E n \in 0..Len(wire) : wire' = SubSeq(wire, 1, n)
    /\ UNCHANGED <<kind, version, plan, sent, out, reader_vars>>

\* What read_exact is waiting for.
Wanted == IF header = NoHeader THEN HeaderSize ELSE header.len

\* Mutant: the length in the header is believed, whatever it is.
AcceptableUncapped(h) ==
    /\ SubSeq(h, 1, 4) = Magic
    /\ h[5] = Version
    /\ kind = "py" => h[6] \in {T[t] : t \in DOMAIN T}

\* rtrv_read_frame_header and the test of the cap in rtrv_read_frame; the Python
\* side has a cap per type, which is zero for HELLO, QUIT and LIST.
Acceptable(h) ==
    /\ SubSeq(h, 1, 4) = Magic
    /\ h[5] = Version
    /\ kind = "py" => h[6] \in {T[t] : t \in DOMAIN T}
    /\ LET len == Number(From(h, 7))
       IN  IF kind = "py" /\ h[6] \in {T.HELLO, T.QUIT, T.LIST} THEN len = 0 ELSE len <= Cap

Unpack(type, bytes) ==
    LET m == Unpacked(type, plan[Len(got) + 1].form, bytes)
    IN  IF m = Malformed THEN failed' = TRUE /\ UNCHANGED got
        ELSE got' = Append(got, m) /\ UNCHANGED failed

\* read_exact needs more bytes.
More(bytes) ==
    /\ Len(bytes) < Wanted
    /\ buf' = bytes
    /\ UNCHANGED <<header, got, failed>>

\* Mutant: the buffer of the header is used on for the payload.
HeaderWholeKept(bytes) ==
    /\ header = NoHeader /\ Len(bytes) = HeaderSize
    /\ buf' = bytes
    /\ LET len == Number(From(bytes, 7))
       IN  \/ ~Acceptable(bytes) /\ failed' = TRUE /\ UNCHANGED <<header, got>>
           \/ /\ Acceptable(bytes) /\ len > 0
              /\ header' = [type |-> bytes[6], len |-> len]
              /\ UNCHANGED <<got, failed>>
           \/ Acceptable(bytes) /\ len = 0 /\ Unpack(bytes[6], <<>>) /\ UNCHANGED header

\* A header is checked as soon as it is whole; a frame without payload is then
\* complete.
HeaderWhole(bytes) ==
    /\ header = NoHeader /\ Len(bytes) = HeaderSize
    /\ buf' = <<>>
    /\ LET len == Number(From(bytes, 7))
       IN  \/ ~Acceptable(bytes) /\ failed' = TRUE /\ UNCHANGED <<header, got>>
           \/ /\ Acceptable(bytes) /\ len > 0
              /\ header' = [type |-> bytes[6], len |-> len]
              /\ UNCHANGED <<got, failed>>
           \/ Acceptable(bytes) /\ len = 0 /\ Unpack(bytes[6], <<>>) /\ UNCHANGED header

PayloadWhole(bytes) ==
    /\ header # NoHeader /\ Len(bytes) = header.len
    /\ Unpack(header.type, bytes)
    /\ buf' = <<>> /\ header' = NoHeader

\* One recv of rtrv_read_exact: it asks for what is missing and gets some of it.
Recv ==
    /\ ~failed
    /\ \E n \in Segment :
          /\ n <= Len(wire) /\ n <= Wanted - Len(buf)
          /\ LET bytes == buf \o SubSeq(wire, 1, n)
             IN  More(bytes) \/ HeaderWhole(bytes) \/ PayloadWhole(bytes)
          /\ wire' = From(wire, n + 1)
    /\ UNCHANGED <<kind, version, plan, sent, out, cut>>

\* recv returns 0: the connection was closed early.
RecvEnd ==
    /\ ~failed /\ cut /\ wire = <<>>
    /\ failed' = TRUE
    /\ UNCHANGED <<kind, version, plan, sent, out, wire, cut, buf, header, got>>

Next == WriteFrame \/ Send \/ Cut \/ Recv \/ RecvEnd

\* A program that can go on does, and TCP delivers what it has accepted.
Spec == Init /\ [][Next]_vars /\ WF_vars(WriteFrame \/ Send) /\ WF_vars(Recv \/ RecvEnd)

-----------------------------------------------------------------------------

TypeOK ==
    /\ sent \in 0..Len(plan) /\ Len(got) <= sent
    /\ Len(buf) <= Wanted
    /\ failed \in BOOLEAN /\ cut \in BOOLEAN

\* However the bytes are cut into pieces and wherever the connection breaks, what
\* the reader unpacks is the messages the sender packed: each one whole, in order,
\* field by field.  (rtrv_read_exact, rtrv_write_all and both codecs.)
MessagesIntact == got = SubSeq(plan, 1, Len(got))

\* The frame the reader is at fits under the cap.
Fits(m) == Len(Payload(m)) <= Cap

\* Neither implementation refuses what the other sends: a reader gives up only
\* when the connection ends, the versions differ, or the frame is over the cap.
\* (rtrv_read_frame, read_frame, rtrv_report_error, unpack_error.)
OnlyJustRefusals ==
    failed => cut \/ version # Version \/ ~Fits(plan[Len(got) + 1])

\* What the framing implements: a channel of whole messages, in order and each once,
\* which a reader leaves only for a reason.
Messages == INSTANCE Channel WITH sent <- SubSeq(plan, 1, sent), agree <- version = Version

ChannelSpec == Messages!Spec

\* A stream of frames within the cap never stops half way: the reader gets every
\* message or learns that the connection is gone or unusable.
AllArrive == <>(failed \/ Len(got) = Len(plan))

=============================================================================

------------------------------- MODULE Session -------------------------------
(***************************************************************************)
(* One run of a client program, C (c/main.c, c/transfer.c) or Python       *)
(* (retriever/client.py), and the server thread that serves its connection *)
(* (retriever/server.py, handle_client): HELLO, one command, QUIT, and the *)
(* exit status.  Until it is that thread's turn the connection waits in    *)
(* the backlog and at the gate of start_server (module Gate).  Frames      *)
(* arrive whole and in order (module Frames); the body of a transfer is a  *)
(* count of raw bytes on the same stream.  What the commands do to the     *)
(* disks is in modules Upload and Download: here the handlers choose among *)
(* the replies they can give.                                              *)
(***************************************************************************)
EXTENDS Integers, Sequences

CONSTANTS
    Kinds,        \* client programs: a subset of {"c", "py"}
    MaxSize       \* bound on the bytes of a file

ASSUME SessionAssumption == Kinds \subseteq {"c", "py"} /\ MaxSize \in Nat

VARIABLES
    kind, cmd,    \* the program and its command
    size,         \* the file it uploads, as measured before the request
    agree,        \* both ends speak the same protocol version
    cpc,          \* where the client is
    left,         \* body bytes it has still to send or to receive
    mixed,        \* it has taken a frame for bytes of a body
    exit,         \* its exit status; -1 while it runs
    cause,        \* why it stopped
    refusal,      \* the reason of the ERROR frame it has read, or 0
    spc,          \* where the server thread is
    sleft,        \* body bytes it has still to send or to receive
    done,         \* the command has had its effect
    c2s, s2c,     \* the two directions of the connection
    link          \* "up"; "broken", which both ends see; "dead", which neither does

client_vars == <<cpc, left, mixed, exit, cause, refusal>>
server_vars == <<spc, sleft>>
fixed == <<kind, cmd, size, agree>>
vars == <<fixed, client_vars, server_vars, done, c2s, s2c, link>>

E == [BAD_NAME |-> 1, NOT_FOUND |-> 2, ALREADY_EXISTS |-> 3, MALFORMED |-> 4,
      UNSUPPORTED_VERSION |-> 5, INTERNAL |-> 6, TOO_LARGE |-> 7, CORRUPT |-> 8]

Frame(type, n) == [type |-> type, n |-> n]
Raw == Frame("RAW", 0)
Oversize == MaxSize + 1   \* a listing longer than the payload cap

Commands == {"LIST", "GET", "PUT", "QUIT"}

Init ==
    /\ kind \in Kinds /\ cmd \in {"list", "get", "put"}
    /\ size \in 0..MaxSize /\ agree \in BOOLEAN
    /\ cpc = "start" /\ left = 0 /\ mixed = FALSE
    /\ exit = -1 /\ cause = "none" /\ refusal = 0
    /\ spc = "none" /\ sleft = 0 /\ done = FALSE
    /\ c2s = <<>> /\ s2c = <<>> /\ link = "up"

Connected == cpc \notin {"start", "exited"}

\* The server's end of the connection is open: the kernel has completed it, and
\* either the main thread has yet to hand it over or a session thread serves it.
Open == spc \notin {"none", "over"}
Serving == Open /\ spc # "queued"

-----------------------------------------------------------------------------
(* The client.                                                             *)

\* The exit status of main.  C: do_hello failed, or the command did.  Python: an
\* exception during the handshake is not caught, and an error of the local disk
\* that surfaces as OSError is taken for one of the connection.
Status(why) ==
    CASE why = "none"   -> 0
      [] why = "signal" -> 141
      [] why = "usage"  -> 2
      [] why = "conn" /\ cpc = "start" -> 3
      [] why = "conn" /\ cpc \in {"hello", "hello_reply"} -> IF kind = "c" THEN 3 ELSE 1
      [] why = "refused" -> 1
      [] why = "local"   -> IF kind = "c" THEN 1 ELSE 2
      [] OTHER           -> IF kind = "c" THEN 1 ELSE 3

\* The client closes its socket and ends.
Exit(why) ==
    /\ cpc' = "exited" /\ cause' = why /\ exit' = Status(why)
    /\ UNCHANGED <<left, mixed>>

Goto(where) == cpc' = where /\ UNCHANGED <<exit, cause>>

\* A send that fails: the C client, which does not ignore SIGPIPE, may be killed.
WriteFails ==
    /\ link # "up" \/ ~Open
    /\ \/ Exit(IF kind = "c" /\ cpc = "quit" THEN "none" ELSE "conn")
       \/ kind = "c" /\ Exit("signal")
    /\ UNCHANGED c2s

\* A send that succeeds; whether the bytes arrive is another matter.
Written(m, where) ==
    /\ link # "broken"
    /\ c2s' = IF link = "up" /\ Open THEN Append(c2s, m) ELSE c2s
    /\ Goto(where)
    /\ UNCHANGED mixed

Write(m, where) ==
    \/ Written(m, where) /\ UNCHANGED left
    \/ WriteFails

CanRead == link = "up" /\ s2c # <<>>

Took == s2c' = Tail(s2c)

\* An answer other than OK ends the run: an ERROR frame is reported, anything else
\* makes rtrv_read_frame and read_frame fail.
NotOK ==
    /\ CanRead /\ Took
    /\ LET reply == Head(s2c) IN
       /\ reply.type # "OK"
       /\ refusal' = IF reply.type = "ERROR" THEN reply.n ELSE 0
       /\ Exit(IF reply.type = "ERROR" THEN "refused" ELSE "conn")

OKRead == CanRead /\ Took /\ Head(s2c).type = "OK" /\ UNCHANGED refusal

ClientIdle == UNCHANGED <<fixed, server_vars, done, link>>

\* A usage mistake is found before connecting.
Usage ==
    /\ cpc = "start"
    /\ Exit("usage")
    /\ ClientIdle /\ UNCHANGED <<refusal, c2s, s2c>>

\* A connection is complete before the server accepts it.
Connect ==
    /\ cpc = "start"
    /\ \/ Goto("hello") /\ spc' = "queued" /\ UNCHANGED <<left, mixed>>
       \/ Exit("conn") /\ UNCHANGED spc
    /\ UNCHANGED <<fixed, refusal, sleft, done, c2s, s2c, link>>

SendHello ==
    /\ cpc = "hello"
    /\ Write(Frame("HELLO", 0), "hello_reply")
    /\ ClientIdle /\ UNCHANGED <<refusal, s2c>>

\* A reply of another version is refused by rtrv_read_frame_header.
HelloReply ==
    /\ cpc = "hello_reply"
    /\ \/ agree /\ OKRead /\ Goto("command") /\ UNCHANGED <<left, mixed>>
       \/ ~agree /\ CanRead /\ Took /\ Exit("conn") /\ UNCHANGED refusal
    /\ ClientIdle /\ UNCHANGED c2s

\* do_list, and the requests of rtrv_do_get and rtrv_do_put: the destination must
\* not exist, the local file must, and it must be readable to be hashed.
Command ==
    /\ cpc = "command"
    /\ \/ cmd = "list" /\ Write(Frame("LIST", 0), "list_reply")
       \/ cmd = "get" /\ Write(Frame("GET", 0), "get_reply")
       \/ cmd = "put" /\ Write(Frame("PUT", size), "put_reply")
       \/ cmd \in {"get", "put"} /\ Exit("local") /\ UNCHANGED c2s
       \/ /\ cmd = "put" \/ (cmd = "get" /\ kind = "py")
          /\ Exit("disk") /\ UNCHANGED c2s
    /\ ClientIdle /\ UNCHANGED <<refusal, s2c>>

\* A listing over the cap is refused whole.
ListReply ==
    /\ cpc = "list_reply"
    /\ \/ NotOK /\ UNCHANGED done
       \/ /\ OKRead /\ Head(s2c).n < Oversize
          /\ Goto("quit") /\ UNCHANGED <<left, mixed>>
          /\ done' = TRUE
       \/ OKRead /\ Head(s2c).n = Oversize /\ Exit("conn") /\ UNCHANGED done
    /\ UNCHANGED <<fixed, server_vars, link, c2s>>

\* The metadata say how many bytes follow.  The partial may not open.
GetReply ==
    /\ cpc = "get_reply"
    /\ \/ NotOK
       \/ OKRead /\ Goto("get_body") /\ left' = Head(s2c).n /\ UNCHANGED mixed
       \/ OKRead /\ Exit("disk")
    /\ ClientIdle /\ UNCHANGED c2s

\* Mutant: the loop runs once too often.
GetBodyPast ==
    /\ cpc = "get_body" /\ left >= 0
    /\ CanRead /\ Took
    /\ left' = left - 1
    /\ mixed' = (mixed \/ Head(s2c) # Raw)
    /\ Goto("get_body")
    /\ ClientIdle /\ UNCHANGED <<refusal, c2s>>

\* Whatever arrives is body; a write to the partial may fail.
GetBody ==
    /\ cpc = "get_body" /\ left > 0
    /\ CanRead /\ Took
    /\ \/ /\ left' = left - 1
          /\ mixed' = (mixed \/ Head(s2c) # Raw)
          /\ Goto("get_body")
       \/ Exit("disk")
    /\ ClientIdle /\ UNCHANGED <<refusal, c2s>>

\* The hash decides; the partial may not be readable and the rename may fail.
GetVerify ==
    /\ cpc = "get_body" /\ left = 0
    /\ \/ ~mixed /\ Goto("quit") /\ done' = TRUE /\ UNCHANGED <<left, mixed>>
       \/ Exit("conn") /\ UNCHANGED done
       \/ Exit("disk") /\ UNCHANGED done
    /\ UNCHANGED <<fixed, server_vars, link, refusal, c2s, s2c>>

\* Mutant: the whole file is sent, whatever the server already holds.
PutReplyWhole ==
    /\ cpc = "put_reply"
    /\ \/ NotOK
       \/ OKRead /\ Goto("put_body") /\ left' = size /\ UNCHANGED mixed
       \/ OKRead /\ Exit("disk")
    /\ ClientIdle /\ UNCHANGED c2s

\* Only the bytes the server is missing are sent, from a file that may be gone.
PutReply ==
    /\ cpc = "put_reply"
    /\ \/ NotOK
       \/ /\ OKRead /\ Head(s2c).n <= size
          /\ Goto("put_body") /\ left' = size - Head(s2c).n /\ UNCHANGED mixed
       \/ OKRead /\ Exit("disk")
    /\ ClientIdle /\ UNCHANGED c2s

\* Mutant: what has been sent is not counted off.
PutBodyUncounted ==
    /\ cpc = "put_body"
    /\ \/ left > 0 /\ Written(Raw, "put_body") /\ left' = left
       \/ left > 0 /\ WriteFails
       \/ left > 0 /\ Exit("disk") /\ UNCHANGED c2s
       \/ /\ left = 0 \/ kind = "py"
          /\ Goto("put_verdict") /\ UNCHANGED <<left, mixed, c2s>>
    /\ ClientIdle /\ UNCHANGED <<refusal, s2c>>

\* A read of the file may fail, or end early if the file has shrunk since it was
\* measured: then the C client gives up, the Python client stops sending and waits
\* for the verdict.
PutBody ==
    /\ cpc = "put_body"
    /\ \/ left > 0 /\ Written(Raw, "put_body") /\ left' = left - 1
       \/ left > 0 /\ WriteFails
       \/ left > 0 /\ Exit("disk") /\ UNCHANGED c2s
       \/ /\ left = 0 \/ kind = "py"
          /\ Goto("put_verdict") /\ UNCHANGED <<left, mixed, c2s>>
    /\ ClientIdle /\ UNCHANGED <<refusal, s2c>>

\* Mutant: the verdict is read but its type is not looked at.
PutVerdictAny ==
    /\ cpc = "put_verdict"
    /\ CanRead /\ Took /\ Goto("quit")
    /\ ClientIdle /\ UNCHANGED <<left, mixed, refusal, c2s>>

PutVerdict ==
    /\ cpc = "put_verdict"
    /\ NotOK \/ (OKRead /\ Goto("quit") /\ UNCHANGED <<left, mixed>>)
    /\ ClientIdle /\ UNCHANGED c2s

Quit ==
    /\ cpc = "quit"
    /\ Write(Frame("QUIT", 0), "quit_reply")
    /\ ClientIdle /\ UNCHANGED <<refusal, s2c>>

\* Any frame will do for a goodbye, and the C client does without.
QuitReply ==
    /\ cpc = "quit_reply"
    /\ CanRead /\ Took
    /\ Exit(IF kind = "c" \/ Head(s2c) # Raw THEN "none" ELSE "conn")
    /\ ClientIdle /\ UNCHANGED <<refusal, c2s>>

Reading ==
    \/ cpc \in {"hello_reply", "list_reply", "get_reply", "put_reply",
                "put_verdict", "quit_reply"}
    \/ cpc = "get_body" /\ left > 0

ReadFails ==
    /\ Exit(IF kind = "c" /\ cpc = "quit_reply" THEN "none" ELSE "conn")
    /\ ClientIdle /\ UNCHANGED <<refusal, c2s, s2c>>

\* Mutant: the end of the stream is not noticed, the read is tried again.
NoReplyRetried ==
    /\ Reading
    /\ \/ link = "broken"
       \/ kind = "py" /\ (s2c = <<>> \/ link = "dead")
    /\ ReadFails

\* The connection failed, the server closed it, or SOCKET_TIMEOUT seconds passed;
\* the C client sets no timeout.
NoReply ==
    /\ Reading
    /\ \/ link = "broken"
       \/ link = "up" /\ s2c = <<>> /\ ~Open
       \/ kind = "py" /\ (s2c = <<>> \/ link = "dead")
    /\ ReadFails

\* TCP may give up on a dead connection that still has bytes to deliver.
GiveUp ==
    /\ Reading /\ kind = "c" /\ link = "dead"
    /\ ReadFails

Client ==
    \/ Usage \/ Connect \/ SendHello \/ HelloReply \/ Command \/ ListReply
    \/ GetReply \/ GetBody \/ GetVerify \/ PutReply \/ PutBody \/ PutVerdict
    \/ Quit \/ QuitReply \/ NoReply

-----------------------------------------------------------------------------
(* The server: the main thread's part, then the session thread.            *)

ServerIdle == UNCHANGED <<fixed, client_vars, link>>

\* It is the connection's turn: start_server has accepted it, has got a permit of
\* the gate and has started its thread.  How long that takes is up to the other
\* sessions (module Gate).
Admit ==
    /\ spc = "queued"
    /\ spc' = "hello" /\ UNCHANGED sleft
    /\ ServerIdle /\ UNCHANGED <<done, c2s, s2c>>

\* The thread cannot be started, and the socket is closed unserved.
TurnAway ==
    /\ spc = "queued"
    /\ spc' = "over" /\ UNCHANGED sleft
    /\ ServerIdle /\ UNCHANGED <<done, c2s, s2c>>

Arrived == link = "up" /\ c2s # <<>> /\ c2s' = Tail(c2s)

\* The bytes written reach the client if it is still there.
Reply(frames) == s2c' = IF link = "up" /\ Connected THEN s2c \o frames ELSE s2c

ReplyError(reason) == Reply(<<Frame("ERROR", reason)>>)

ServerAt(where, n) == spc' = where /\ sleft' = n

\* A protocol violation or an exception: one ERROR frame, and the session is over.
Close(reason) == ReplyError(reason) /\ ServerAt("over", 0)

\* The frame's version is looked at first, then its type.
ServerHello ==
    /\ spc = "hello"
    /\ Arrived
    /\ LET greeted == agree /\ Head(c2s).type = "HELLO"
       IN  \/ greeted /\ Reply(<<Frame("OK", 0)>>) /\ ServerAt("loop", 0)
           \/ ~greeted /\ Close(IF agree THEN E.MALFORMED ELSE E.UNSUPPORTED_VERSION)
    /\ ServerIdle /\ UNCHANGED done

\* A handler's refusal keeps the session open; an offset past the end of the file,
\* like a frame that is no command, and any exception end it.
ServerCommand ==
    /\ spc = "loop"
    /\ Arrived
    /\ LET request == Head(c2s)
           Is(type) == request.type = type
       IN  \/ Is("QUIT") /\ Reply(<<Frame("OK", 0)>>) /\ ServerAt("over", 0)
           \/ /\ Is("LIST") /\ ServerAt("loop", 0)
              /\ \E n \in {0, Oversize} : Reply(<<Frame("OK", n)>>)
           \/ /\ Is("GET") /\ ServerAt("loop", 0)
              /\ \E r \in {E.BAD_NAME, E.NOT_FOUND} : ReplyError(r)
           \/ Is("GET") /\ \E n \in 0..MaxSize :
                 \/ Reply(<<Frame("OK", n)>>) /\ ServerAt("get_body", n)
                 \/ /\ Reply(<<Frame("OK", n), Frame("ERROR", E.INTERNAL)>>)
                    /\ ServerAt("over", 0)
           \/ /\ Is("PUT") /\ ServerAt("loop", 0)
              /\ \E r \in {E.BAD_NAME, E.TOO_LARGE, E.ALREADY_EXISTS} : ReplyError(r)
           \/ /\ Is("PUT") /\ \E offset \in 0..request.n :
                 Reply(<<Frame("OK", offset)>>) /\ ServerAt("put_body", request.n - offset)
           \/ (Is("GET") \/ request.type \notin Commands) /\ Close(E.MALFORMED)
           \/ request.type \in {"LIST", "GET", "PUT"} /\ Close(E.INTERNAL)
    /\ ServerIdle /\ UNCHANGED done

\* The file may have shrunk since it was measured, or not be readable.
ServerGetBody ==
    /\ spc = "get_body"
    /\ \/ sleft > 0 /\ Reply(<<Raw>>) /\ ServerAt("get_body", sleft - 1)
       \/ ServerAt("loop", 0) /\ UNCHANGED s2c
       \/ sleft > 0 /\ Close(E.INTERNAL)
    /\ ServerIdle /\ UNCHANGED <<done, c2s>>

\* Whatever arrives is body.
ServerPutBody ==
    /\ spc = "put_body" /\ sleft > 0
    /\ \/ Arrived /\ ServerAt("put_body", sleft - 1) /\ UNCHANGED s2c
       \/ UNCHANGED c2s /\ Close(E.INTERNAL)
    /\ ServerIdle /\ UNCHANGED done

\* The hash, then the link, decide; removing the partial may fail after the link.
ServerVerdict ==
    /\ spc = "put_body" /\ sleft = 0
    /\ \/ Reply(<<Frame("OK", 0)>>) /\ ServerAt("loop", 0) /\ done' = TRUE
       \/ /\ \E r \in {E.CORRUPT, E.ALREADY_EXISTS} : ReplyError(r)
          /\ ServerAt("loop", 0) /\ UNCHANGED done
       \/ Close(E.INTERNAL) /\ done' \in {done, TRUE}
    /\ ServerIdle /\ UNCHANGED c2s

\* Mutant: the accepted socket has no timeout.
ServerLostOnlyClosed ==
    /\ \/ spc \in {"hello", "loop"} /\ c2s = <<>>
       \/ spc = "put_body" /\ sleft > 0 /\ c2s = <<>>
    /\ link = "broken" \/ (link = "up" /\ ~Connected)
    /\ ServerAt("over", 0)
    /\ ServerIdle /\ UNCHANGED <<done, c2s, s2c>>

\* Nothing arrives: the connection failed, the client closed it, or
\* SOCKET_TIMEOUT seconds passed.  Or a body can no longer be sent.
ServerLost ==
    /\ \/ spc \in {"hello", "loop"} /\ (c2s = <<>> \/ link # "up")
       \/ spc = "put_body" /\ sleft > 0 /\ (c2s = <<>> \/ link # "up")
       \/ spc = "get_body" /\ sleft > 0 /\ (link # "up" \/ ~Connected)
    /\ ServerAt("over", 0)
    /\ ServerIdle /\ UNCHANGED <<done, c2s, s2c>>

Server ==
    \/ ServerHello \/ ServerCommand \/ ServerGetBody \/ ServerPutBody
    \/ ServerVerdict \/ ServerLost

\* The connection is reset, and what was on its way is lost; or the network goes
\* silent.
Network ==
    /\ spc # "none" /\ link = "up"
    /\ \/ link' = "broken" /\ c2s' = <<>> /\ s2c' = <<>>
       \/ link' = "dead" /\ UNCHANGED <<c2s, s2c>>
    /\ UNCHANGED <<fixed, client_vars, server_vars, done>>

Next == Client \/ GiveUp \/ Admit \/ TurnAway \/ Server \/ Network

\* Both programs keep running; the timeouts are part of their steps.  Nothing is
\* assumed of Admit: a connection's turn may never come.
Spec == Init /\ [][Next]_vars /\ WF_vars(Client) /\ WF_vars(Server)

-----------------------------------------------------------------------------
(* Properties.                                                             *)

\* The counters never go below zero and the programs are where they can be.
TypeOK ==
    /\ cpc \in {"start", "hello", "hello_reply", "command", "list_reply", "get_reply",
                "get_body", "put_reply", "put_body", "put_verdict", "quit",
                "quit_reply", "exited"}
    /\ spc \in {"none", "queued", "hello", "loop", "get_body", "put_body", "over"}
    /\ {left, sleft} \subseteq 0..MaxSize
    /\ exit \in {-1, 0, 1, 2, 3, 141} /\ refusal \in 0..8
    /\ {mixed, done} \subseteq BOOLEAN
    /\ link \in {"up", "broken", "dead"}

\* The two programs agree on where bodies end: handle_client never takes a byte of
\* a body for a command nor a command for a byte of a body, and the client never
\* takes one for the start of a reply, whatever was refused, resumed or cut short.
InStep ==
    /\ spc = "loop" /\ c2s # <<>> => Head(c2s).type \in Commands
    /\ spc = "put_body" /\ sleft > 0 /\ c2s # <<>> => Head(c2s) = Raw
    /\ Reading /\ cpc # "get_body" /\ s2c # <<>> => Head(s2c).type \in {"OK", "ERROR"}

\* What a script is told is so.  Exit status 0 means that the file is published
\* under its name, or in place, or the whole listing printed.  Status 2, and
\* status 3 of the C client, mean that nothing has happened anywhere.  A refusal
\* with any reason but INTERNAL means that this run has published nothing.
ReportsAreTrue ==
    /\ exit = 0 => done
    /\ exit = 2 \/ (exit = 3 /\ kind = "c") => ~done
    /\ refusal \notin {0, E.INTERNAL} => ~done

\* What is still to be done: by the client, by the server with what it has received,
\* and with what is on its way.  A frame on its way can cost the server a whole body,
\* and a step of the client can send one more.
ClientAhead ==
    CASE cpc = "exited" -> 0
      [] cpc = "quit_reply" -> 1
      [] cpc = "quit" -> 2
      [] cpc = "put_verdict" -> 3
      [] cpc \in {"get_body", "put_body"} -> 4 + left
      [] cpc \in {"list_reply", "get_reply", "put_reply"} -> 5 + MaxSize
      [] cpc = "command" -> 6 + MaxSize
      [] cpc = "hello_reply" -> 7 + MaxSize
      [] cpc = "hello" -> 8 + MaxSize
      [] cpc = "start" -> 9 + MaxSize

ServerAhead ==
    CASE spc \in {"none", "over"} -> 0
      [] spc = "queued" -> 2
      [] spc \in {"hello", "loop"} -> 1
      [] spc \in {"get_body", "put_body"} -> 2 + sleft

Ahead ==
    (MaxSize + 5) * ClientAhead + (MaxSize + 2) * Len(c2s) + ServerAhead
        + (IF link = "up" THEN 1 ELSE 0)

\* Neither program ever goes round in circles, alone or with the other: every step
\* of either, a failure of the network included, uses up some of a stock of work
\* that is fixed when the run starts, so a run is a finite number of steps whatever
\* the replies, the sizes and the scheduling.
NoLivelock == [][Ahead' < Ahead]_vars

\* Every run of a client ends, the server's silence and a file that shrinks while
\* it is sent included.  The exceptions are the C client's, which sets no socket
\* timeout: it may wait for ever on a network gone silent, and for its turn at a
\* server whose gate never lets it in; once a thread of the server has taken the
\* connection up, nothing but a silent network can keep it.
RunsEnd ==
    <>[](cpc = "exited" \/ (kind = "c" /\ (link = "dead" \/ spc = "queued")))

\* handle_client, once started, always returns, which is what gives the connection's slot back.
SessionsEnd == Serving ~> spc = "over"

=============================================================================

-------------------------- MODULE SessionInvariant --------------------------
(***************************************************************************)
(* The inductive invariant of Session, and the proof that the steps of the *)
(* clients preserve it, for either client, every command and files of any  *)
(* size.  The server's steps and the theorems are in SessionProofs.        *)
(***************************************************************************)
EXTENDS Session, SequenceTheorems, TLAPS

-----------------------------------------------------------------------------
(* The inductive invariant.                                                *)

Requests == [type : Commands \cup {"HELLO", "RAW"}, n : 0..MaxSize]

Replies ==
    [type : {"OK"}, n : 0..Oversize] \cup [type : {"ERROR"}, n : 1..8] \cup {Raw}

Typed ==
    /\ TypeOK
    /\ kind \in {"c", "py"} /\ cmd \in {"list", "get", "put"}
    /\ size \in 0..MaxSize /\ agree \in BOOLEAN
    /\ c2s \in Seq(Requests) /\ s2c \in Seq(Replies)

\* Where the server thread can be while the client is at a place.
Met ==
    /\ cpc = "start" => spc = "none"
    /\ cpc = "hello" => spc \in {"queued", "hello", "over"}
    /\ cpc = "hello_reply" => spc \in {"queued", "hello", "loop", "over"}
    /\ cpc \in {"command", "list_reply"} => spc \in {"loop", "over"}
    /\ cpc \in {"get_reply", "get_body"} => spc \in {"loop", "get_body", "over"}
    /\ cpc \in {"put_reply", "put_body", "put_verdict"} => spc \in {"loop", "put_body", "over"}
    /\ cpc \in {"quit", "quit_reply"} =>
          spc \in {"loop", "over"} \/ (spc = "get_body" /\ sleft = 0)

\* Where a client waits for the answer to a command.
Awaits ==
    [LIST |-> "list_reply", GET |-> "get_reply", PUT |-> "put_reply", QUIT |-> "quit_reply"]

\* The request on its way is a command; the client, if it still runs, is waiting for
\* the answer and there is nothing else it could read.
Asked(request) ==
    /\ request.type \in Commands
    /\ request.type = "PUT" => request.n = size /\ ~done
    /\ spc = "get_body" => request.type = "QUIT"
    /\ cpc = "exited" \/ (cpc = Awaits[request.type] /\ s2c = <<>>)

ToServer ==
    /\ spc = "none" \/ link = "broken" => c2s = <<>>
    /\ spc \in {"queued", "hello"} /\ c2s # <<>> =>
          Len(c2s) = 1 /\ c2s[1].type = "HELLO" /\ cpc \in {"hello_reply", "exited"}
    /\ spc \in {"loop", "get_body"} /\ c2s # <<>> => Len(c2s) = 1 /\ Asked(c2s[1])
    /\ spc = "put_body" => Len(c2s) <= sleft /\ \A i \in 1..Len(c2s) : c2s[i] = Raw

\* After its first k frames, s2c holds bytes of a body of which n are still to be
\* read, and perhaps the error that cut it short.
Body(k, n) ==
    /\ \A i \in (k + 1)..Len(s2c) :
          \/ s2c[i] = Raw
          \/ i = Len(s2c) /\ spc = "over" /\ s2c[i] = Frame("ERROR", E.INTERNAL)
    /\ Len(s2c) - k <= n + 1
    /\ Len(s2c) - k = n + 1 => s2c[Len(s2c)] # Raw
    /\ spc = "get_body" => Len(s2c) - k + sleft <= n

Answers == \A i \in 1..Len(s2c) : s2c[i].type \in {"OK", "ERROR"}

ToClient ==
    /\ spc \in {"none", "queued", "hello"} \/ link = "broken" => s2c = <<>>
    /\ cpc \in {"start", "hello", "command"} => s2c = <<>>
    /\ cpc \in {"hello_reply", "list_reply"} => Len(s2c) <= 1 /\ Answers
    /\ cpc \in {"quit", "quit_reply"} =>
          s2c = <<>> \/ (spc = "over" /\ Len(s2c) = 1 /\ Answers)
    /\ cpc = "get_reply" =>
          \/ s2c = <<>> /\ (spc = "get_body" => link = "broken")
          \/ Len(s2c) = 1 /\ s2c[1].type = "ERROR" /\ spc # "get_body"
          \/ s2c # <<>> /\ s2c[1].type = "OK" /\ s2c[1].n <= MaxSize /\ Body(1, s2c[1].n)
    /\ cpc = "get_body" => Body(0, left)

\* An upload: the server expects no fewer bytes than the client has still to send, and
\* gives its verdict when there are none.
Uploading ==
    /\ cpc = "put_reply" =>
          /\ Len(s2c) <= 2 /\ Answers
          /\ spc = "put_body" /\ link # "broken" =>
                /\ c2s = <<>> /\ Len(s2c) = 1 /\ s2c[1].type = "OK"
                /\ s2c[1].n <= size /\ sleft = size - s2c[1].n
          /\ spc = "loop" /\ s2c # <<>> /\ s2c[1].type = "OK" => s2c[1].n = size
    /\ cpc \in {"put_body", "put_verdict"} =>
          Len(s2c) <= 1 /\ Answers /\ (spc = "put_body" => s2c = <<>>)
    /\ cpc = "put_body" =>
          /\ spc = "put_body" => Len(c2s) + left <= sleft
          /\ spc = "loop" => left = 0

\* Nothing that the server still has to do can give the command its effect.
Settled == spc \in {"none", "queued", "hello", "over"} \/ (spc = "loop" /\ c2s = <<>>)

\* When the command has had its effect.
Effect ==
    /\ spc \in {"none", "queued", "hello", "put_body"} => ~done
    /\ cpc \in {"start", "hello", "hello_reply", "command", "list_reply", "get_reply",
                "get_body"} => ~done
    /\ cpc \in {"quit", "quit_reply"} => done
    /\ cpc \in {"put_body", "put_verdict"} /\ s2c # <<>> /\ s2c[1].type = "OK" => done
    /\ cpc = "put_reply" /\ Len(s2c) = 2 /\ s2c[2].type = "OK" => done

\* What the client was told, or will be told by what is on its way.
Told ==
    /\ exit = -1 <=> cpc # "exited"
    /\ exit = 0 => done
    /\ exit = 2 \/ (exit = 3 /\ kind = "c") => ~done /\ Settled
    /\ refusal # 0 => cpc = "exited"
    /\ refusal \notin {0, E.INTERNAL} => ~done /\ Settled
    /\ cpc # "exited" =>
          \A i \in 1..Len(s2c) :
             s2c[i].type = "ERROR" /\ s2c[i].n # E.INTERNAL => ~done /\ Settled

IInv == Typed /\ Met /\ ToServer /\ ToClient /\ Uploading /\ Effect /\ Told

-----------------------------------------------------------------------------
(* Queues.                                                                 *)

LEMMA EmptyFacts ==
    ASSUME NEW S, NEW q \in Seq(S)
    PROVE  /\ Len(q) \in Nat /\ (q = <<>> <=> Len(q) = 0)
           /\ \A i \in 1..Len(q) : q[i] \in S
BY EmptySeq, LenProperties, ElementOfSeq, Zenon

LEMMA TailFacts ==
    ASSUME NEW S, NEW q \in Seq(S), q # <<>>
    PROVE  /\ Len(q) \in Nat /\ Len(q) >= 1 /\ Head(q) = q[1] /\ q[1] \in S
           /\ Tail(q) \in Seq(S) /\ Len(Tail(q)) = Len(q) - 1
           /\ \A i \in 1..(Len(q) - 1) : Tail(q)[i] = q[i + 1]
<1>1. Len(q) \in Nat /\ Len(q) >= 1 /\ Head(q) = q[1] /\ q[1] \in S
  BY EmptySeq, LenProperties, HeadTailProperties
<1>2. Tail(q) \in Seq(S) /\ Len(Tail(q)) = Len(q) - 1
  BY HeadTailProperties, Zenon
<1>3. \A i \in 1..(Len(q) - 1) : Tail(q)[i] = q[i + 1]
  BY <1>1, <1>2, HeadTailProperties, Zenon
<1>. QED  BY <1>1, <1>2, <1>3, Zenon

LEMMA AppendFacts ==
    ASSUME NEW S, NEW q \in Seq(S), NEW m \in S
    PROVE  /\ Append(q, m) \in Seq(S) /\ Len(Append(q, m)) = Len(q) + 1
           /\ \A i \in 1..Len(q) : Append(q, m)[i] = q[i]
           /\ Append(q, m)[Len(q) + 1] = m
           /\ q \o <<m>> = Append(q, m)
<1>1. q \o <<m>> = Append(q, m)
  BY AppendIsConcat, Zenon
<1>. QED  BY <1>1, AppendProperties

LEMMA SmallFacts ==
    \A k \in {0, 1} : k <= 1 /\ \A i \in 1..k : i = 1 /\ k = 1
OBVIOUS

\* What both queues hold, and what the client takes from the one to it.
LEMMA QueueFacts ==
    ASSUME Typed
    PROVE  /\ Len(s2c) \in Nat /\ (s2c = <<>> <=> Len(s2c) = 0)
           /\ Len(c2s) \in Nat /\ (c2s = <<>> <=> Len(c2s) = 0)
           /\ \A i \in 1..Len(s2c) : s2c[i] \in Replies
           /\ \A i \in 1..Len(c2s) : c2s[i] \in Requests
BY EmptyFacts, Zenon DEF Typed

LEMMA TookFacts ==
    ASSUME Typed, CanRead, Took
    PROVE  /\ Len(s2c) >= 1 /\ Head(s2c) = s2c[1] /\ s2c[1] \in Replies
           /\ s2c' \in Seq(Replies) /\ Len(s2c') = Len(s2c) - 1
           /\ (s2c' = <<>> <=> Len(s2c') = 0)
           /\ \A i \in 1..(Len(s2c) - 1) : s2c'[i] = s2c[i + 1]
<1>1. s2c \in Seq(Replies) /\ s2c # <<>> /\ s2c' = Tail(s2c)
  BY Zenon DEF Typed, CanRead, Took
<1>. QED  BY <1>1, TailFacts, EmptyFacts, Zenon

LEMMA ArrivedFacts ==
    ASSUME Typed, Arrived
    PROVE  /\ Len(c2s) >= 1 /\ Head(c2s) = c2s[1] /\ c2s[1] \in Requests
           /\ c2s' \in Seq(Requests) /\ Len(c2s') = Len(c2s) - 1
           /\ (c2s' = <<>> <=> Len(c2s') = 0)
           /\ \A i \in 1..(Len(c2s) - 1) : c2s'[i] = c2s[i + 1]
<1>1. c2s \in Seq(Requests) /\ c2s # <<>> /\ c2s' = Tail(c2s)
  BY Zenon DEF Typed, Arrived
<1>. QED  BY <1>1, TailFacts, EmptyFacts, Zenon

\* A frame written is behind everything else in the queue, or nowhere.
Adds(q, r, m) ==
    /\ Len(r) = Len(q) + 1 /\ r # <<>> /\ r[Len(q) + 1] = m
    /\ \A i \in 1..Len(q) : r[i] = q[i]

LEMMA WrittenFacts ==
    ASSUME Typed, NEW m \in Requests, NEW where, Written(m, where)
    PROVE  /\ c2s' \in Seq(Requests) /\ Len(c2s') \in Nat
           /\ c2s' = c2s \/ (link = "up" /\ Open /\ Adds(c2s, c2s', m))
<1>1. c2s \in Seq(Requests)
  BY Zenon DEF Typed
<1>2. c2s' = c2s \/ (link = "up" /\ Open /\ c2s' = Append(c2s, m))
  BY Zenon DEF Written
<1>3. Append(c2s, m) \in Seq(Requests) /\ Adds(c2s, Append(c2s, m), m)
  BY <1>1, AppendFacts, AppendProperties DEF Adds
<1>. QED  BY <1>1, <1>2, <1>3, EmptyFacts, Zenon

LEMMA ReplyFacts ==
    ASSUME Typed, NEW m \in Replies, Reply(<<m>>)
    PROVE  /\ s2c' \in Seq(Replies) /\ Len(s2c') \in Nat
           /\ \/ s2c' = s2c /\ (link # "up" \/ ~Connected)
              \/ link = "up" /\ Connected /\ Adds(s2c, s2c', m)
<1>1. s2c \in Seq(Replies)
  BY Zenon DEF Typed
<1>2. s2c \o <<m>> = Append(s2c, m)
  BY <1>1, AppendFacts
<1>3. \/ s2c' = s2c /\ (link # "up" \/ ~Connected)
      \/ link = "up" /\ Connected /\ s2c' = Append(s2c, m)
  BY <1>2, Zenon DEF Reply
<1>4. Append(s2c, m) \in Seq(Replies) /\ Adds(s2c, Append(s2c, m), m)
  BY <1>1, AppendFacts, AppendProperties DEF Adds
<1>. QED  BY <1>1, <1>3, <1>4, EmptyFacts, Zenon

-----------------------------------------------------------------------------
(* The client.                                                             *)

LEMMA StatusFacts ==
    ASSUME Typed
    PROVE  /\ Status("none") = 0 /\ Status("signal") = 141 /\ Status("usage") = 2
           /\ cpc = "start" => Status("conn") = 3
           /\ cpc \in {"hello", "hello_reply"} =>
                 Status("conn") = IF kind = "c" THEN 3 ELSE 1
           /\ cpc \notin {"start", "hello", "hello_reply"} =>
                 /\ Status("refused") = 1
                 /\ Status("local") = IF kind = "c" THEN 1 ELSE 2
                 /\ Status("disk") = IF kind = "c" THEN 1 ELSE 3
                 /\ Status("conn") = IF kind = "c" THEN 1 ELSE 3
<1>1. Status("none") = 0 /\ Status("signal") = 141 /\ Status("usage") = 2
  BY Zenon DEF Status
<1>2. cpc = "start" => Status("conn") = 3
  BY Zenon DEF Status
<1>3. ASSUME cpc \in {"hello", "hello_reply"}
      PROVE  Status("conn") = IF kind = "c" THEN 3 ELSE 1
  BY <1>3, Zenon DEF Status
<1>4. ASSUME cpc \notin {"start", "hello", "hello_reply"}
      PROVE  /\ Status("refused") = 1
             /\ Status("local") = IF kind = "c" THEN 1 ELSE 2
  BY <1>4, Zenon DEF Status
<1>5. ASSUME cpc \notin {"start", "hello", "hello_reply"}
      PROVE  /\ Status("disk") = IF kind = "c" THEN 1 ELSE 3
             /\ Status("conn") = IF kind = "c" THEN 1 ELSE 3
  BY <1>5, Zenon DEF Status
<1>. QED  BY <1>1, <1>2, <1>3, <1>4, <1>5, Zenon

\* A client that ends leaves the rest as it is: only its report is to be checked.
LEMMA ExitStep ==
    ASSUME IInv, NEW why, Exit(why), ClientIdle, UNCHANGED c2s,
           s2c' = s2c \/ (CanRead /\ Took),
           Status(why) \in {0, 1, 2, 3, 141},
           Status(why) = 0 => done,
           Status(why) = 2 \/ (Status(why) = 3 /\ kind = "c") => ~done /\ Settled,
           refusal' \in 0..8,
           refusal' \notin {0, E.INTERNAL} => ~done /\ Settled
    PROVE  IInv'
<1>. USE DEF ClientIdle, fixed, server_vars, Exit
<1>1. Typed'
  BY TookFacts DEF IInv, Typed, TypeOK
<1>2. Met' /\ Uploading'
  BY Zenon DEF Met, Uploading
<1>3. ToServer'
  BY DEF IInv, ToServer, Asked
<1>4. ToClient'
  BY Zenon DEF IInv, ToClient, CanRead
<1>5. Effect'
  BY Zenon DEF IInv, Effect
<1>6. Told'
  BY DEF IInv, Told, Settled
<1>. QED  BY <1>1, <1>2, <1>3, <1>4, <1>5, <1>6, Zenon DEF IInv

LEMMA EarlySettled ==
    ASSUME IInv, cpc \in {"start", "hello", "hello_reply", "command"}
    PROVE  ~done /\ Settled
<1>1. ~done
  BY Zenon DEF IInv, Effect
<1>2. Settled
  BY DEF IInv, Met, ToServer, Asked, Awaits, Settled, Commands
<1>. QED  BY <1>1, <1>2, Zenon

\* A failure is reported as one, and only before the request as harmless.
LEMMA FailStep ==
    ASSUME IInv, NEW why \in {"conn", "disk", "signal"}, cpc # "exited",
           why = "disk" => cpc \notin {"start", "hello", "hello_reply"},
           Exit(why), ClientIdle, UNCHANGED <<c2s, refusal>>,
           s2c' = s2c \/ (CanRead /\ Took)
    PROVE  IInv'
<1>1. Status(why) \in {1, 3, 141}
  BY StatusFacts DEF IInv
<1>2. Status(why) = 3 /\ kind = "c" => cpc \in {"start", "hello", "hello_reply"}
  BY StatusFacts DEF IInv
<1>3. refusal' = 0
  BY Zenon DEF IInv, Told
<1>. QED  BY <1>1, <1>2, <1>3, EarlySettled, ExitStep

LEMMA WriteFailsStep ==
    ASSUME IInv, cpc \notin {"start", "exited"}, WriteFails, ClientIdle,
           UNCHANGED <<refusal, s2c>>
    PROVE  IInv'
<1>1. UNCHANGED c2s
  BY Zenon DEF WriteFails
<1>2. CASE Exit("conn") \/ Exit("signal")
  BY <1>1, <1>2, FailStep, Zenon
<1>3. CASE cpc = "quit" /\ Exit("none")
  <2>1. done /\ Status("none") = 0 /\ refusal' = 0
    BY <1>3, StatusFacts, Zenon DEF IInv, Effect, Told
  <2>. QED  BY <1>1, <1>3, <2>1, ExitStep
<1>. QED  BY <1>2, <1>3, Zenon DEF WriteFails

LEMMA NotOKStep ==
    ASSUME IInv, cpc \in {"list_reply", "get_reply", "put_reply", "put_verdict"},
           NotOK, ClientIdle, UNCHANGED c2s
    PROVE  IInv'
<1>1. CanRead /\ Took
  BY Zenon DEF NotOK
<1>2. Head(s2c) = s2c[1] /\ s2c[1] \in Replies /\ Len(s2c) \in Nat /\ Len(s2c) >= 1
  BY <1>1, TookFacts, QueueFacts, Zenon DEF IInv
<1>3. refusal = 0
  BY Zenon DEF IInv, Told
<1>4. CASE s2c[1].type = "ERROR"
  <2>1. refusal' = s2c[1].n /\ Exit("refused") /\ Status("refused") = 1
    BY <1>2, <1>4, StatusFacts, Zenon DEF NotOK, IInv
  <2>2. refusal' \in 0..8
    BY <1>2, <1>4, <2>1, SMTT(20) DEF Replies, Raw, Frame
  <2>3. refusal' \notin {0, E.INTERNAL} => ~done /\ Settled
    BY <1>2, <1>4, <2>1 DEF IInv, Told
  <2>. QED  BY <1>1, <2>1, <2>2, <2>3, ExitStep
<1>5. CASE s2c[1].type # "ERROR"
  <2>1. refusal' = refusal /\ Exit("conn")
    BY <1>2, <1>3, <1>5, Zenon DEF NotOK
  <2>. QED  BY <1>1, <2>1, FailStep, Zenon
<1>. QED  BY <1>4, <1>5, Zenon

LEMMA UsageStep == IInv /\ Usage => IInv'
<1>. SUFFICES ASSUME IInv, Usage PROVE IInv'
  BY Zenon
<1>1. Status("usage") = 2 /\ refusal' = 0
  BY StatusFacts, Zenon DEF IInv, Told, Usage
<1>. QED  BY <1>1, EarlySettled, ExitStep DEF Usage

LEMMA ConnectStep == IInv /\ Connect => IInv'
<1>. SUFFICES ASSUME IInv, Connect PROVE IInv'
  OBVIOUS
<1>1. CASE Exit("conn") /\ UNCHANGED spc
  BY <1>1, FailStep, Zenon DEF Connect, ClientIdle, server_vars
<1>2. CASE Goto("hello") /\ spc' = "queued" /\ UNCHANGED <<left, mixed>>
  <2>. USE <1>2 DEF Connect, Goto, fixed
  <2>1. Typed'
    BY Zenon DEF IInv, Typed, TypeOK
  <2>2. Met' /\ Uploading'
    BY Zenon DEF Met, Uploading
  <2>3. ToServer' /\ ToClient'
    BY Zenon DEF IInv, Met, ToServer, ToClient, Asked
  <2>4. Effect' /\ Told'
    BY Zenon DEF IInv, Effect, Told, Settled, ToClient
  <2>. QED  BY <2>1, <2>2, <2>3, <2>4, Zenon DEF IInv
<1>. QED  BY <1>1, <1>2, Zenon DEF Connect

LEMMA SendHelloStep == IInv /\ SendHello => IInv'
<1>. SUFFICES ASSUME IInv, SendHello PROVE IInv'
  OBVIOUS
<1>. DEFINE m == Frame("HELLO", 0)
<1>1. CASE WriteFails
  BY <1>1, WriteFailsStep, Zenon DEF SendHello
<1>2. CASE Written(m, "hello_reply") /\ UNCHANGED left
  <2>1. m \in Requests /\ m.type = "HELLO"
    BY SessionAssumption DEF Requests, Frame
  <2>2. spc \in {"queued", "hello"} => c2s = <<>> /\ Len(c2s) = 0
    BY QueueFacts, Zenon DEF IInv, SendHello, ToServer
  <2>3. /\ c2s' \in Seq(Requests) /\ Len(c2s') \in Nat
        /\ c2s' = c2s \/ (link = "up" /\ Open /\ Adds(c2s, c2s', m))
    BY <1>2, <2>1, WrittenFacts, Zenon DEF IInv
  <2>. HIDE DEF m
  <2>. USE <1>2 DEF SendHello, Written, Goto, ClientIdle, fixed, server_vars
  <2>4. Typed'
    BY <2>3 DEF IInv, Typed, TypeOK
  <2>5. Met' /\ Uploading'
    BY Zenon DEF IInv, Met, Uploading
  <2>6. ToServer'
    BY <2>1, <2>2, <2>3 DEF IInv, Met, ToServer, Adds, Open
  <2>7. ToClient'
    BY QueueFacts DEF IInv, ToClient, Answers
  <2>8. Effect' /\ Told'
    BY DEF IInv, Effect, Told, ToClient
  <2>. QED  BY <2>4, <2>5, <2>6, <2>7, <2>8, Zenon DEF IInv
<1>. QED  BY <1>1, <1>2, Zenon DEF SendHello, Write

\* A request is sent: nothing else is on its way to a server that listens.
LEMMA AskStep ==
    ASSUME IInv, NEW m \in Requests,
           \/ cpc = "command" /\ m.type \in {"LIST", "GET", "PUT"}
           \/ cpc = "quit" /\ m.type = "QUIT",
           m.type = "PUT" => m.n = size,
           Written(m, Awaits[m.type]), ClientIdle, UNCHANGED <<left, refusal, s2c>>
    PROVE  IInv'
<1>1. spc \in {"loop", "get_body"} => c2s = <<>> /\ Len(c2s) = 0
  BY QueueFacts DEF IInv, ToServer, Asked, Awaits, Commands
<1>2. spc \in {"loop", "over"} \/ (spc = "get_body" /\ sleft = 0 /\ cpc = "quit")
  BY Zenon DEF IInv, Met
<1>3. /\ c2s' \in Seq(Requests) /\ Len(c2s') \in Nat
      /\ c2s' = c2s \/ (link = "up" /\ Open /\ Adds(c2s, c2s', m))
  BY WrittenFacts, Zenon DEF IInv
<1>4. /\ cpc' = Awaits[m.type] /\ UNCHANGED <<exit, cause, mixed>>
      /\ m.type \in Commands
  BY Zenon DEF Written, Goto, Commands
<1>5. cpc' \in {"list_reply", "get_reply", "put_reply", "quit_reply"}
  BY <1>4 DEF Awaits, Commands
<1>6. cpc' = "quit_reply" <=> cpc = "quit"
  BY <1>4 DEF Awaits, Commands
<1>7. s2c = <<>> \/ (cpc = "quit" /\ spc = "over" /\ Len(s2c) = 1 /\ Answers)
  BY Zenon DEF IInv, ToClient
<1>8. (cpc = "command" => ~done) /\ (cpc = "quit" => done)
  BY Zenon DEF IInv, Effect
<1>. USE DEF ClientIdle, fixed, server_vars
<1>9. Typed'
  BY <1>3, <1>4, <1>5 DEF IInv, Typed, TypeOK
<1>10. Met'
  BY <1>2, <1>5, <1>6, Zenon DEF Met
<1>11. ToServer'
  <2>1. link = "broken" => c2s' = <<>>
    BY <1>3, Zenon DEF IInv, ToServer
  <2>2. ASSUME spc \in {"loop", "get_body"}, c2s' # <<>>
        PROVE  Len(c2s') = 1 /\ c2s'[1] = m /\ Asked(m)'
    <3>1. Len(c2s') = 1 /\ c2s'[1] = m
      <4>1. Adds(c2s, c2s', m) /\ Len(c2s) = 0
        BY <1>1, <1>3, <2>2, Zenon
      <4>. QED  BY <4>1 DEF Adds
    <3>2. m.type = "PUT" => ~done
      BY <1>8, Zenon
    <3>. QED  BY <1>2, <1>4, <1>7, <2>2, <3>1, <3>2, Zenon DEF Asked, Awaits
  <2>. QED  BY <1>2, <2>1, <2>2, Zenon DEF ToServer
<1>12. ToClient' /\ Uploading'
  BY <1>2, <1>5, <1>6, <1>7, QueueFacts DEF IInv, ToClient, Uploading, Answers
<1>13. Effect'
  BY <1>2, <1>5, <1>6, <1>7, <1>8, QueueFacts DEF IInv, Effect
<1>14. Told'
  BY <1>1, <1>2, <1>4, <1>5, <1>6, <1>7 DEF IInv, Told, Settled
<1>. QED  BY <1>9, <1>10, <1>11, <1>12, <1>13, <1>14, Zenon DEF IInv

LEMMA CommandStep == IInv /\ Command => IInv'
<1>. SUFFICES ASSUME IInv, Command PROVE IInv'
  OBVIOUS
<1>. DEFINE Sent(m) == Written(m, Awaits[m.type]) /\ UNCHANGED left
<1>1. cpc = "command" /\ ClientIdle /\ UNCHANGED <<refusal, s2c>>
  BY Zenon DEF Command
<1>2. CASE WriteFails
  BY <1>1, <1>2, WriteFailsStep, Zenon
<1>3. CASE Sent(Frame("LIST", 0)) \/ Sent(Frame("GET", 0)) \/ Sent(Frame("PUT", size))
  <2>1. {Frame("LIST", 0), Frame("GET", 0), Frame("PUT", size)} \subseteq Requests
    BY SessionAssumption DEF Requests, Frame, Commands, IInv, Typed
  <2>. QED  BY <1>1, <1>3, <2>1, AskStep, Zenon DEF Frame
<1>4. CASE Exit("local") /\ UNCHANGED c2s
  <2>1. Status("local") \in {1, 2} /\ refusal' = 0
    BY <1>1, StatusFacts, Zenon DEF IInv, Told
  <2>. QED  BY <1>1, <1>4, <2>1, EarlySettled, ExitStep
<1>5. CASE Exit("disk") /\ UNCHANGED c2s
  BY <1>1, <1>5, FailStep, Zenon
<1>. QED  BY <1>2, <1>3, <1>4, <1>5, Zenon DEF Command, Write, Frame, Awaits

LEMMA QuitStep == IInv /\ Quit => IInv'
<1>. SUFFICES ASSUME IInv, Quit PROVE IInv'
  OBVIOUS
<1>1. Frame("QUIT", 0) \in Requests /\ Awaits[Frame("QUIT", 0).type] = "quit_reply"
  BY SessionAssumption DEF Requests, Frame, Commands, Awaits
<1>. QED  BY <1>1, AskStep, WriteFailsStep, Zenon DEF Quit, Write, Frame

\* What reading an answer leaves behind it.
LEMMA OKFacts ==
    ASSUME IInv, OKRead
    PROVE  /\ CanRead /\ Took /\ link = "up"
           /\ s2c # <<>> /\ Len(s2c) \in Nat /\ Len(s2c) >= 1
           /\ Head(s2c) = s2c[1] /\ s2c[1].type = "OK" /\ s2c[1].n \in 0..Oversize
           /\ s2c' \in Seq(Replies) /\ Len(s2c') = Len(s2c) - 1
           /\ (s2c' = <<>> <=> Len(s2c') = 0)
           /\ \A i \in 1..(Len(s2c) - 1) : s2c'[i] = s2c[i + 1]
<1>1. CanRead /\ Took /\ Head(s2c).type = "OK"
  BY Zenon DEF OKRead
<1>2. s2c[1] \in Replies /\ Head(s2c) = s2c[1]
  BY <1>1, TookFacts, Zenon DEF IInv
<1>3. s2c[1].n \in 0..Oversize
  BY <1>1, <1>2 DEF Replies, Raw, Frame
<1>. QED  BY <1>1, <1>2, <1>3, TookFacts, QueueFacts, Zenon DEF IInv, CanRead

LEMMA HelloReplyStep == IInv /\ HelloReply => IInv'
<1>. SUFFICES ASSUME IInv, HelloReply PROVE IInv'
  OBVIOUS
<1>1. CASE ~agree
  BY <1>1, FailStep, Zenon DEF HelloReply
<1>2. CASE OKRead /\ Goto("command") /\ UNCHANGED <<left, mixed>>
  <2>1. Len(s2c) = 1 /\ s2c' = <<>> /\ s2c' \in Seq(Replies) /\ Len(s2c') = 0
    <3>1. Len(s2c) <= 1
      BY Zenon DEF IInv, HelloReply, ToClient
    <3>. QED  BY <1>2, <3>1, OKFacts
  <2>2. spc \in {"loop", "over"} /\ (spc = "loop" => c2s = <<>>)
    BY <1>2, OKFacts, Zenon DEF IInv, HelloReply, Met, ToServer, ToClient, Asked, Awaits, Commands
  <2>. USE <1>2 DEF HelloReply, OKRead, Goto, ClientIdle, fixed, server_vars
  <2>3. Typed'
    BY <2>1 DEF IInv, Typed, TypeOK
  <2>4. Met' /\ Uploading'
    BY <2>2, Zenon DEF Met, Uploading
  <2>5. ToServer' /\ ToClient'
    BY <2>1, <2>2, Zenon DEF IInv, ToServer, ToClient
  <2>6. Effect' /\ Told'
    BY <2>1, <2>2, QueueFacts, OKFacts DEF IInv, Effect, Told
  <2>. QED  BY <2>3, <2>4, <2>5, <2>6, Zenon DEF IInv
<1>. QED  BY <1>1, <1>2, Zenon DEF HelloReply

LEMMA ListReplyStep == IInv /\ ListReply => IInv'
<1>. SUFFICES ASSUME IInv, ListReply PROVE IInv'
  OBVIOUS
<1>1. CASE NotOK /\ UNCHANGED done
  BY <1>1, NotOKStep, Zenon DEF ListReply, ClientIdle
<1>2. CASE OKRead /\ Exit("conn") /\ UNCHANGED done
  BY <1>2, OKFacts, FailStep, Zenon DEF ListReply, ClientIdle, OKRead
<1>3. CASE OKRead /\ Goto("quit") /\ UNCHANGED <<left, mixed>> /\ done' = TRUE
  <2>1. Len(s2c) = 1 /\ s2c' = <<>> /\ s2c' \in Seq(Replies) /\ Len(s2c') = 0
    <3>1. Len(s2c) <= 1
      BY Zenon DEF IInv, ListReply, ToClient
    <3>. QED  BY <1>3, <3>1, OKFacts
  <2>2. spc \in {"loop", "over"} /\ (spc = "loop" => c2s = <<>>)
    BY <1>3, OKFacts, Zenon DEF IInv, ListReply, Met, ToServer, Asked, Awaits, Commands
  <2>. USE <1>3 DEF ListReply, OKRead, Goto, fixed, server_vars
  <2>3. Typed'
    BY <2>1 DEF IInv, Typed, TypeOK
  <2>4. Met' /\ Uploading'
    BY <2>2, Zenon DEF Met, Uploading
  <2>5. ToServer' /\ ToClient'
    BY <2>1, <2>2, Zenon DEF IInv, ToServer, ToClient
  <2>6. Effect' /\ Told'
    BY <2>1, <2>2 DEF IInv, Effect, Told
  <2>. QED  BY <2>3, <2>4, <2>5, <2>6, Zenon DEF IInv
<1>. QED  BY <1>1, <1>2, <1>3, Zenon DEF ListReply

LEMMA PutVerdictStep == IInv /\ PutVerdict => IInv'
<1>. SUFFICES ASSUME IInv, PutVerdict PROVE IInv'
  OBVIOUS
<1>1. CASE NotOK
  BY <1>1, NotOKStep, Zenon DEF PutVerdict
<1>2. CASE OKRead /\ Goto("quit") /\ UNCHANGED <<left, mixed>>
  <2>1. Len(s2c) = 1 /\ s2c' = <<>> /\ s2c' \in Seq(Replies) /\ Len(s2c') = 0 /\ done
    <3>1. Len(s2c) <= 1
      BY Zenon DEF IInv, PutVerdict, Uploading
    <3>2. done
      BY <1>2, OKFacts, Zenon DEF IInv, PutVerdict, Effect
    <3>. QED  BY <1>2, <3>1, <3>2, OKFacts
  <2>2. spc \in {"loop", "over"} /\ (spc = "loop" => c2s = <<>>)
    BY <1>2, OKFacts, Zenon DEF IInv, PutVerdict, Met, ToServer, Asked, Awaits, Commands, Uploading
  <2>. USE <1>2 DEF PutVerdict, OKRead, Goto, ClientIdle, fixed, server_vars
  <2>3. Typed'
    BY <2>1 DEF IInv, Typed, TypeOK
  <2>4. Met' /\ Uploading'
    BY <2>2, Zenon DEF Met, Uploading
  <2>5. ToServer' /\ ToClient'
    BY <2>1, <2>2, Zenon DEF IInv, ToServer, ToClient
  <2>6. Effect' /\ Told'
    BY <2>1, <2>2 DEF IInv, Effect, Told
  <2>. QED  BY <2>3, <2>4, <2>5, <2>6, Zenon DEF IInv
<1>. QED  BY <1>1, <1>2, Zenon DEF PutVerdict

\* The goodbye: the command has had its effect by now.
LEMMA QuitReplyStep == IInv /\ QuitReply => IInv'
<1>. SUFFICES ASSUME IInv, QuitReply PROVE IInv'
  OBVIOUS
<1>1. done /\ refusal' = 0 /\ Status("none") = 0
  BY StatusFacts, Zenon DEF IInv, QuitReply, Effect, Told
<1>2. CASE Exit("none")
  BY <1>1, <1>2, ExitStep DEF QuitReply
<1>3. CASE Exit("conn")
  BY <1>3, FailStep, Zenon DEF QuitReply
<1>. QED  BY <1>2, <1>3, Zenon DEF QuitReply

LEMMA ReadFailsStep == IInv /\ Reading /\ ReadFails => IInv'
<1>. SUFFICES ASSUME IInv, Reading, ReadFails PROVE IInv'
  BY Zenon
<1>1. CASE cpc = "quit_reply" /\ Exit("none")
  <2>1. done /\ refusal' = 0 /\ Status("none") = 0
    BY <1>1, StatusFacts, Zenon DEF IInv, ReadFails, Effect, Told
  <2>. QED  BY <1>1, <2>1, ExitStep DEF ReadFails
<1>2. CASE Exit("conn")
  BY <1>2, FailStep, Zenon DEF ReadFails, Reading
<1>. QED  BY <1>1, <1>2, Zenon DEF ReadFails

\* While an answer is there to be read, no command is on its way.
LEMMA NothingAsked ==
    ASSUME IInv, cpc # "exited", s2c # <<>>, spc \in {"loop", "get_body"}
    PROVE  c2s = <<>>
BY Zenon DEF IInv, ToServer, Asked

\* What is left of the answers after one was read tells no more than before.
LEMMA TookTold ==
    ASSUME IInv, CanRead, Took, cpc # "exited", UNCHANGED <<exit, refusal, kind, done, spc, c2s>>,
           cpc' # "exited"
    PROVE  Told'
<1>1. \A i \in 1..Len(s2c') : s2c'[i] = s2c[i + 1] /\ i + 1 \in 1..Len(s2c)
  BY TookFacts, QueueFacts DEF IInv
<1>. QED  BY <1>1, Zenon DEF IInv, Told, Settled

LEMMA GetReplyStep == IInv /\ GetReply => IInv'
<1>. SUFFICES ASSUME IInv, GetReply PROVE IInv'
  OBVIOUS
<1>1. CASE NotOK
  BY <1>1, NotOKStep, Zenon DEF GetReply
<1>2. CASE OKRead /\ Exit("disk")
  BY <1>2, OKFacts, FailStep, Zenon DEF GetReply, OKRead
<1>3. CASE OKRead /\ Goto("get_body") /\ left' = Head(s2c).n /\ UNCHANGED mixed
  <2>. DEFINE n == s2c[1].n
  <2>1. n \in 0..MaxSize /\ Body(1, n)
    BY <1>3, OKFacts, SessionAssumption DEF IInv, GetReply, ToClient, Oversize
  <2>2. left' = n
    BY <1>3, OKFacts, Zenon
  <2>3. spc \in {"loop", "get_body", "over"} /\ (spc \in {"loop", "get_body"} => c2s = <<>>)
    BY <1>3, OKFacts, NothingAsked, Zenon DEF IInv, GetReply, Met
  <2>4. Body(0, left)'
    <3>. HIDE DEF n
    <3>. USE DEF GetReply, ClientIdle, server_vars
    <3>1. \A i \in 1..Len(s2c') :
             \/ s2c'[i] = Raw
             \/ i = Len(s2c') /\ spc = "over" /\ s2c'[i] = Frame("ERROR", E.INTERNAL)
      BY <1>3, <2>1, OKFacts, SMTT(20) DEF Body
    <3>2. Len(s2c') <= n + 1 /\ (spc = "get_body" => Len(s2c') + sleft <= n)
      BY <1>3, <2>1, OKFacts, Zenon DEF Body
    <3>3. ASSUME Len(s2c') = n + 1 PROVE s2c'[Len(s2c')] # Raw
      <4>1. s2c[Len(s2c)] # Raw
        BY <1>3, <2>1, <3>3, OKFacts, Zenon DEF Body
      <4>. QED  BY <1>3, <2>1, <3>3, <4>1, OKFacts
    <3>. QED  BY <1>3, <2>1, <2>2, <3>1, <3>2, <3>3, OKFacts DEF Body
  <2>. HIDE DEF n
  <2>5. /\ cpc = "get_reply" /\ cpc' = "get_body" /\ link = "up" /\ s2c' \in Seq(Replies)
        /\ UNCHANGED <<kind, cmd, size, agree, spc, sleft, link, c2s, exit, cause, refusal,
                       done, mixed>>
    BY <1>3, OKFacts, Zenon DEF GetReply, OKRead, Goto, ClientIdle, fixed, server_vars
  <2>6. Typed'
    BY <2>1, <2>2, <2>5 DEF IInv, Typed, TypeOK
  <2>7. Met' /\ Uploading'
    BY <2>3, <2>5, Zenon DEF Met, Uploading
  <2>8. ToServer'
    BY <2>3, <2>5, Zenon DEF IInv, ToServer
  <2>9. ToClient'
    BY <2>3, <2>4, <2>5, Zenon DEF ToClient
  <2>10. Effect'
    BY <2>5, Zenon DEF IInv, Effect
  <2>11. Told'
    BY <1>3, <2>5, OKFacts, TookTold, Zenon
  <2>. QED  BY <2>6, <2>7, <2>8, <2>9, <2>10, <2>11, Zenon DEF IInv
<1>. QED  BY <1>1, <1>2, <1>3, Zenon DEF GetReply

LEMMA GetBodyStep == IInv /\ GetBody => IInv'
<1>. SUFFICES ASSUME IInv, GetBody PROVE IInv'
  OBVIOUS
<1>1. CASE Exit("disk")
  BY <1>1, FailStep, Zenon DEF GetBody
<1>2. CASE left' = left - 1 /\ mixed' = (mixed \/ Head(s2c) # Raw) /\ Goto("get_body")
  <2>1. /\ Len(s2c) \in Nat /\ Len(s2c) >= 1 /\ s2c # <<>> /\ link = "up"
        /\ s2c' \in Seq(Replies) /\ Len(s2c') = Len(s2c) - 1
        /\ \A i \in 1..(Len(s2c) - 1) : s2c'[i] = s2c[i + 1]
    BY TookFacts, QueueFacts, Zenon DEF IInv, GetBody, CanRead
  <2>2. left \in 1..MaxSize /\ sleft \in Nat
    BY SessionAssumption DEF IInv, GetBody, Typed, TypeOK
  <2>3. Body(0, left)
    BY Zenon DEF IInv, GetBody, ToClient
  <2>4. spc \in {"loop", "get_body", "over"} /\ (spc \in {"loop", "get_body"} => c2s = <<>>)
    BY <2>1, NothingAsked, Zenon DEF IInv, GetBody, Met
  <2>5. Body(0, left)'
    <3>. USE DEF GetBody, ClientIdle, server_vars
    <3>1. \A i \in 1..Len(s2c') :
             \/ s2c'[i] = Raw
             \/ i = Len(s2c') /\ spc = "over" /\ s2c'[i] = Frame("ERROR", E.INTERNAL)
      BY <2>1, <2>3 DEF Body
    <3>2. Len(s2c') <= left /\ (spc = "get_body" => Len(s2c') + sleft <= left - 1)
      BY <2>1, <2>2, <2>3 DEF Body
    <3>3. ASSUME Len(s2c') = left PROVE s2c'[Len(s2c')] # Raw
      <4>1. s2c[Len(s2c)] # Raw
        BY <2>1, <2>2, <2>3, <3>3 DEF Body
      <4>. QED  BY <2>1, <2>2, <3>3, <4>1
    <3>. QED  BY <1>2, <2>1, <2>2, <3>1, <3>2, <3>3 DEF Body
  <2>. USE <1>2 DEF GetBody, Goto, ClientIdle, fixed, server_vars
  <2>6. Typed'
    <3>1. mixed' \in BOOLEAN
      BY Zenon DEF IInv, Typed, TypeOK
    <3>. QED  BY <2>1, <2>2, <3>1, SessionAssumption DEF IInv, Typed, TypeOK
  <2>7. Met' /\ Uploading'
    BY <2>4, Zenon DEF Met, Uploading
  <2>8. ToServer'
    BY <2>4, Zenon DEF IInv, ToServer
  <2>9. ToClient'
    BY <2>1, <2>4, <2>5, Zenon DEF IInv, ToClient
  <2>10. Effect'
    BY Zenon DEF IInv, Effect
  <2>11. Told'
    BY TookTold, Zenon DEF IInv
  <2>. QED  BY <2>6, <2>7, <2>8, <2>9, <2>10, <2>11, Zenon DEF IInv
<1>. QED  BY <1>1, <1>2, Zenon DEF GetBody

LEMMA GetVerifyStep == IInv /\ GetVerify => IInv'
<1>. SUFFICES ASSUME IInv, GetVerify PROVE IInv'
  OBVIOUS
<1>1. CASE (Exit("conn") \/ Exit("disk")) /\ UNCHANGED done
  BY <1>1, FailStep, Zenon DEF GetVerify, ClientIdle
<1>2. CASE Goto("quit") /\ done' = TRUE /\ UNCHANGED <<left, mixed>>
  <2>1. Len(s2c) \in Nat /\ (s2c = <<>> <=> Len(s2c) = 0) /\ sleft \in Nat
    BY QueueFacts, SessionAssumption DEF IInv, Typed, TypeOK
  <2>2. Body(0, 0)
    BY Zenon DEF IInv, GetVerify, ToClient
  <2>3. \/ Len(s2c) = 0
        \/ Len(s2c) = 1 /\ spc = "over" /\ s2c[1] = Frame("ERROR", E.INTERNAL)
    <3>1. Len(s2c) \in {0, 1}
      BY <2>1, <2>2, SMTT(20) DEF Body
    <3>2. ASSUME Len(s2c) = 1
          PROVE  spc = "over" /\ s2c[1] = Frame("ERROR", E.INTERNAL)
      BY <2>2, <3>2 DEF Body
    <3>. QED  BY <3>1, <3>2, Zenon
  <2>4. spc = "get_body" => sleft = 0
    BY <2>1, <2>2 DEF Body
  <2>5. spc \in {"loop", "get_body", "over"} /\ (spc \in {"loop", "get_body"} => c2s = <<>>)
    BY DEF IInv, GetVerify, Met, ToServer, Asked, Awaits, Commands
  <2>m. /\ cpc = "get_body" /\ cpc' = "quit" /\ done' = TRUE
        /\ UNCHANGED <<kind, cmd, size, agree, spc, sleft, link, c2s, s2c, exit, cause,
                       refusal, left, mixed>>
    BY <1>2, Zenon DEF GetVerify, Goto, fixed, server_vars
  <2>. USE <2>m
  <2>6. Typed'
    BY DEF IInv, Typed, TypeOK
  <2>7. Met' /\ Uploading'
    BY <2>4, <2>5, Zenon DEF Met, Uploading
  <2>8. ToServer'
    BY <2>5, Zenon DEF IInv, ToServer
  <2>9. ToClient'
    BY <2>1, <2>3 DEF IInv, ToClient, Answers, Frame
  <2>10. Effect'
    BY <2>5, Zenon DEF IInv, Effect
  <2>11. Told'
    <3>1. \A i \in 1..Len(s2c) : i = 1 /\ Len(s2c) = 1
      <4>1. Len(s2c) \in {0, 1}
        BY <2>3, Zenon
      <4>. QED  BY <4>1, SmallFacts, Zenon
    <3>2. \A i \in 1..Len(s2c) : s2c[i].n = E.INTERNAL
      BY <2>3, <3>1 DEF Frame
    <3>. QED  BY <3>2 DEF IInv, Told
  <2>. QED  BY <2>6, <2>7, <2>8, <2>9, <2>10, <2>11, Zenon DEF IInv
<1>. QED  BY <1>1, <1>2, Zenon DEF GetVerify

LEMMA PutReplyStep == IInv /\ PutReply => IInv'
<1>. SUFFICES ASSUME IInv, PutReply PROVE IInv'
  OBVIOUS
<1>1. CASE NotOK
  BY <1>1, NotOKStep, Zenon DEF PutReply
<1>2. CASE OKRead /\ Exit("disk")
  BY <1>2, OKFacts, FailStep, Zenon DEF PutReply, OKRead
<1>3. CASE /\ OKRead /\ Head(s2c).n <= size
           /\ Goto("put_body") /\ left' = size - Head(s2c).n /\ UNCHANGED mixed
  <2>. DEFINE n == s2c[1].n
  <2>1. n \in Nat /\ n <= size /\ size \in 0..MaxSize /\ left' = size - n
    BY <1>3, OKFacts, SessionAssumption DEF IInv, Typed, Oversize
  <2>2. left' \in 0..MaxSize
    BY <2>1, SessionAssumption
  <2>3. spc \in {"loop", "put_body", "over"} /\ (spc = "loop" => c2s = <<>>)
    BY <1>3, OKFacts, NothingAsked, Zenon DEF IInv, PutReply, Met
  <2>4. spc = "loop" => left' = 0
    BY <1>3, <2>1, OKFacts DEF IInv, PutReply, Uploading
  <2>5. spc = "put_body" => /\ c2s = <<>> /\ Len(c2s) = 0 /\ Len(s2c) = 1
                            /\ left' = sleft /\ sleft \in Nat
    <3>1. spc = "put_body" => c2s = <<>> /\ Len(s2c) = 1 /\ sleft = size - n
      BY <1>3, OKFacts, Zenon DEF IInv, PutReply, Uploading
    <3>. QED  BY <2>1, <2>2, <3>1, QueueFacts, SessionAssumption DEF IInv
  <2>6. Len(s2c) <= 2 /\ Answers
    BY Zenon DEF IInv, PutReply, Uploading
  <2>7. Len(s2c') \in {0, 1} /\ (Len(s2c') = 1 => Len(s2c) = 2 /\ s2c'[1] = s2c[2])
    <3>1. Len(s2c) \in {1, 2} /\ Len(s2c') = Len(s2c) - 1
      BY <1>3, <2>6, OKFacts
    <3>2. Len(s2c) = 2 => s2c'[1] = s2c[2]
      BY <1>3, OKFacts
    <3>. QED  BY <3>1, <3>2
  <2>8. s2c' # <<>> => Len(s2c') = 1
    BY <1>3, <2>7, OKFacts, Zenon
  <2>. HIDE DEF n
  <2>m. /\ cpc = "put_reply" /\ cpc' = "put_body" /\ link = "up" /\ s2c' \in Seq(Replies)
        /\ UNCHANGED <<kind, cmd, size, agree, spc, sleft, link, c2s, exit, cause, refusal,
                       done, mixed>>
    BY <1>3, OKFacts, Zenon DEF PutReply, OKRead, Goto, ClientIdle, fixed, server_vars
  <2>. USE <2>m
  <2>9. Typed'
    BY <2>2 DEF IInv, Typed, TypeOK
  <2>10. Met'
    BY <2>3, Zenon DEF Met
  <2>11. ToServer'
    BY <2>3, Zenon DEF IInv, ToServer
  <2>12. ToClient'
    BY <2>3, Zenon DEF ToClient
  <2>13. Uploading'
    <3>1. Answers'
      <4>1. \A i \in 1..Len(s2c') : i = 1 /\ Len(s2c') = 1
        BY <2>7, SmallFacts, Zenon
      <4>2. Len(s2c) = 2 => s2c[2].type \in {"OK", "ERROR"}
        BY <2>6 DEF Answers
      <4>. QED  BY <2>7, <4>1, <4>2, Zenon DEF Answers
    <3>2. spc = "put_body" => s2c' = <<>>
      BY <1>3, <2>5, OKFacts
    <3>3. spc = "put_body" => Len(c2s') + left' <= sleft
      BY <2>2, <2>5
    <3>4. Len(s2c') <= 1
      BY <2>7, SmallFacts, Zenon
    <3>. QED  BY <2>4, <3>1, <3>2, <3>3, <3>4, Zenon DEF Uploading
  <2>14. Effect'
    <3>1. s2c' # <<>> /\ s2c'[1].type = "OK" => done
      BY <2>7, <2>8, Zenon DEF IInv, Effect
    <3>. QED  BY <3>1, Zenon DEF IInv, Effect
  <2>15. Told'
    BY <1>3, OKFacts, TookTold, Zenon
  <2>. QED  BY <2>9, <2>10, <2>11, <2>12, <2>13, <2>14, <2>15, Zenon DEF IInv
<1>. QED  BY <1>1, <1>2, <1>3, Zenon DEF PutReply

LEMMA PutBodyStep == IInv /\ PutBody => IInv'
<1>. SUFFICES ASSUME IInv, PutBody PROVE IInv'
  OBVIOUS
<1>1. CASE WriteFails
  BY <1>1, WriteFailsStep, Zenon DEF PutBody
<1>2. CASE Exit("disk") /\ UNCHANGED c2s
  BY <1>2, FailStep, Zenon DEF PutBody
<1>3. CASE Goto("put_verdict") /\ UNCHANGED <<left, mixed, c2s>>
  <2>m. /\ cpc = "put_body" /\ cpc' = "put_verdict"
        /\ UNCHANGED <<kind, cmd, size, agree, spc, sleft, link, c2s, s2c, exit, cause,
                       refusal, done, left, mixed>>
    BY <1>3, Zenon DEF PutBody, Goto, ClientIdle, fixed, server_vars
  <2>. USE <2>m
  <2>1. spc \in {"loop", "put_body", "over"} /\ (spc = "loop" => c2s = <<>>)
    BY DEF IInv, Met, ToServer, Asked, Awaits, Commands
  <2>2. Typed'
    BY DEF IInv, Typed, TypeOK
  <2>3. Met' /\ Uploading'
    BY <2>1, Zenon DEF IInv, Met, Uploading, Answers
  <2>4. ToServer'
    BY <2>1, Zenon DEF IInv, ToServer
  <2>5. ToClient'
    BY <2>1, Zenon DEF IInv, ToClient
  <2>6. Effect' /\ Told'
    BY Zenon DEF IInv, Effect, Told, Settled
  <2>. QED  BY <2>2, <2>3, <2>4, <2>5, <2>6, Zenon DEF IInv
<1>4. CASE left > 0 /\ Written(Raw, "put_body") /\ left' = left - 1
  <2>1. Raw \in Requests
    BY SessionAssumption DEF Requests, Raw, Frame
  <2>2. /\ c2s' \in Seq(Requests) /\ Len(c2s') \in Nat
        /\ c2s' = c2s \/ (link = "up" /\ Open /\ Adds(c2s, c2s', Raw))
    BY <1>4, <2>1, WrittenFacts, Zenon DEF IInv
  <2>3. left \in 1..MaxSize /\ sleft \in Nat /\ Len(c2s) \in Nat
    BY <1>4, QueueFacts, SessionAssumption DEF IInv, Typed, TypeOK
  <2>4. spc \in {"put_body", "over"}
    BY <1>4, <2>3 DEF IInv, PutBody, Met, Uploading
  <2>5. spc = "put_body" => /\ Len(c2s) + left <= sleft
                            /\ \A i \in 1..Len(c2s) : c2s[i] = Raw
    BY Zenon DEF IInv, PutBody, Uploading, ToServer
  <2>6. Len(c2s') <= Len(c2s) + 1
    BY <2>2, <2>3 DEF Adds
  <2>7. spc = "put_body" => \A i \in 1..Len(c2s') : c2s'[i] = Raw
    BY <2>2, <2>3, <2>5 DEF Adds
  <2>8. link = "broken" => c2s' = <<>>
    BY <2>2, Zenon DEF IInv, ToServer
  <2>m. /\ cpc = "put_body" /\ cpc' = "put_body" /\ left' = left - 1
        /\ UNCHANGED <<kind, cmd, size, agree, spc, sleft, link, s2c, exit, cause,
                       refusal, done, mixed>>
    BY <1>4, Zenon DEF PutBody, Written, Goto, ClientIdle, fixed, server_vars
  <2>. USE <2>m
  <2>9. Typed'
    BY <2>2, <2>3, SessionAssumption DEF IInv, Typed, TypeOK
  <2>10. Met'
    BY <2>4, Zenon DEF Met
  <2>11. ToServer'
    <3>1. spc = "put_body" => Len(c2s') <= sleft
      BY <2>2, <2>3, <2>5, <2>6
    <3>. QED  BY <2>4, <2>7, <2>8, <3>1, Zenon DEF ToServer
  <2>12. ToClient'
    BY <2>4, Zenon DEF IInv, ToClient
  <2>13. Uploading'
    <3>1. spc = "put_body" => Len(c2s') + left' <= sleft
      BY <2>2, <2>3, <2>5, <2>6
    <3>. QED  BY <2>4, <3>1, Zenon DEF IInv, Uploading, Answers
  <2>14. Effect'
    BY Zenon DEF IInv, Effect
  <2>15. Told'
    BY <2>4, Zenon DEF IInv, Told, Settled
  <2>. QED  BY <2>9, <2>10, <2>11, <2>12, <2>13, <2>14, <2>15, Zenon DEF IInv
<1>. QED  BY <1>1, <1>2, <1>3, <1>4, Zenon DEF PutBody

=============================================================================

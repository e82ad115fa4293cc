--------------------------- MODULE SessionProofs ----------------------------
(***************************************************************************)
(* Proofs about Session, for either client, every command and files of any *)
(* size: wherever the connection breaks or falls silent, whatever the      *)
(* server refuses and whenever either program gives up.  The invariant and *)
(* the clients' steps are in SessionInvariant; here are the server's, the  *)
(* network's and the theorems.                                             *)
(***************************************************************************)
EXTENDS SessionInvariant

-----------------------------------------------------------------------------
(* The server thread.                                                      *)

\* A reply that no other is ahead of.
LEMMA FirstReply ==
    ASSUME Typed, NEW m \in Replies, Reply(<<m>>), s2c = <<>>, link = "up"
    PROVE  /\ s2c' \in Seq(Replies) /\ Len(s2c') \in {0, 1} /\ (s2c' = <<>> <=> Len(s2c') = 0)
           /\ Connected <=> Len(s2c') = 1
           /\ Len(s2c') = 1 => s2c'[1] = m
<1>1. Len(s2c) = 0
  BY QueueFacts, Zenon
<1>2. /\ s2c' \in Seq(Replies)
      /\ (Len(s2c') = 0 /\ ~Connected) \/ (Connected /\ Adds(s2c, s2c', m))
  BY <1>1, ReplyFacts, Zenon
<1>3. Adds(s2c, s2c', m) => Len(s2c') = 1 /\ s2c'[1] = m
  BY <1>1 DEF Adds
<1>. QED  BY <1>2, <1>3, EmptyFacts, SMTT(20)

LEMMA OneAnswer ==
    ASSUME Len(s2c') \in {0, 1}, Len(s2c') = 1 => s2c'[1].type \in {"OK", "ERROR"}
    PROVE  Answers' /\ Len(s2c') <= 1
<1>1. Len(s2c') <= 1 /\ \A i \in 1..Len(s2c') : i = 1 /\ Len(s2c') = 1
  BY SmallFacts, Zenon
<1>. QED  BY <1>1, Zenon DEF Answers

LEMMA ServerHelloStep == IInv /\ ServerHello => IInv'
<1>. SUFFICES ASSUME IInv, ServerHello PROVE IInv'
  BY Zenon
<1>1. PICK m \in {Frame("OK", 0), Frame("ERROR", E.MALFORMED),
                   Frame("ERROR", E.UNSUPPORTED_VERSION)} :
         Reply(<<m>>) /\ spc' \in {"loop", "over"} /\ sleft' = 0
  BY Zenon DEF ServerHello, Close, ReplyError, ServerAt
<1>2. m \in Replies /\ m.type \in {"OK", "ERROR"}
  BY SessionAssumption DEF Replies, Frame, E, Oversize
<1>3. c2s' = <<>> /\ c2s' \in Seq(Requests) /\ cpc \in {"hello_reply", "exited"}
  <2>1. Arrived /\ Len(c2s) = 1 /\ cpc \in {"hello_reply", "exited"}
    BY Zenon DEF IInv, ServerHello, Arrived, ToServer
  <2>. QED  BY <2>1, ArrivedFacts DEF IInv
<1>4. s2c = <<>> /\ link = "up" /\ ~done
  BY Zenon DEF IInv, ServerHello, Arrived, ToClient, Effect
<1>5. /\ s2c' \in Seq(Replies) /\ Len(s2c') \in {0, 1}
      /\ Len(s2c') = 1 => s2c'[1] = m
  BY <1>1, <1>2, <1>4, FirstReply, Zenon DEF IInv
<1>. USE DEF ServerHello, ServerIdle, fixed, client_vars
<1>6. Typed'
  BY <1>1, <1>3, <1>5, SessionAssumption DEF IInv, Typed, TypeOK
<1>7. Met' /\ Uploading' /\ ToServer'
  BY <1>1, <1>3, Zenon DEF Met, Uploading, ToServer
<1>8. ToClient'
  <2>1. Answers' /\ Len(s2c') <= 1
    BY <1>2, <1>5, OneAnswer, Zenon
  <2>. QED  BY <1>1, <1>3, <1>4, <2>1, Zenon DEF ToClient
<1>9. Effect'
  BY <1>3, <1>4, Zenon DEF Effect
<1>10. Told'
  <2>1. Settled'
    BY <1>1, <1>3, Zenon DEF Settled
  <2>. QED  BY <1>4, <2>1, Zenon DEF IInv, Told
<1>. QED  BY <1>6, <1>7, <1>8, <1>9, <1>10, Zenon DEF IInv

\* The main thread starts a session or drops it: nothing has been said yet.
LEMMA TurnStep == IInv /\ (Admit \/ TurnAway) => IInv'
<1>. SUFFICES ASSUME IInv, Admit \/ TurnAway PROVE IInv'
  BY Zenon
<1>1. /\ spc = "queued" /\ spc' \in {"hello", "over"}
      /\ UNCHANGED <<kind, cmd, size, agree, cpc, left, mixed, exit, cause, refusal,
                     sleft, done, c2s, s2c, link>>
  BY Zenon DEF Admit, TurnAway, ServerIdle, fixed, client_vars
<1>2. s2c = <<>> /\ ~done /\ cpc \in {"hello", "hello_reply", "exited"}
  BY <1>1 DEF IInv, Typed, TypeOK, Met, ToClient, Effect
<1>3. Typed'
  BY <1>1 DEF IInv, Typed, TypeOK
<1>4. Met' /\ Uploading'
  BY <1>1, <1>2, Zenon DEF Met, Uploading
<1>5. ToServer'
  BY <1>1, Zenon DEF IInv, ToServer
<1>6. ToClient'
  BY <1>1, <1>2, Zenon DEF IInv, ToClient, Answers
<1>7. Effect' /\ Told'
  BY <1>1, <1>2, Zenon DEF IInv, Effect, Told, Settled
<1>. QED  BY <1>3, <1>4, <1>5, <1>6, <1>7, Zenon DEF IInv

\* The thread gives up: what it was to do is not done.
LEMMA ServerLostStep == IInv /\ ServerLost => IInv'
<1>. SUFFICES ASSUME IInv, ServerLost PROVE IInv'
  OBVIOUS
<1>1. spc' = "over" /\ sleft' = 0 /\ spc # "none"
  BY Zenon DEF ServerLost, ServerAt
<1>. USE <1>1 DEF ServerLost, ServerIdle, fixed, client_vars
<1>2. Typed'
  BY SessionAssumption DEF IInv, Typed, TypeOK
<1>3. Met'
  BY Zenon DEF IInv, Met
<1>4. ToServer' /\ Uploading'
  BY Zenon DEF IInv, ToServer, Uploading, Answers
<1>5. ToClient'
  <2>1. ASSUME NEW k, NEW n, Body(k, n) PROVE Body(k, n)'
    BY <2>1, Zenon DEF Body
  <2>. QED  BY <2>1, Zenon DEF IInv, ToClient, Answers
<1>6. Effect'
  BY Zenon DEF IInv, Effect
<1>7. Told'
  BY Zenon DEF IInv, Told, Settled
<1>. QED  BY <1>2, <1>3, <1>4, <1>5, <1>6, <1>7, Zenon DEF IInv

\* A command whose client has gone is served all the same: it has promised nothing.
LEMMA ServedAlone ==
    ASSUME IInv, spc = "loop", cpc = "exited", c2s # <<>>, c2s' = <<>>,
           ServerIdle, UNCHANGED <<done, s2c>>,
           spc' \in {"loop", "get_body", "put_body", "over"}, sleft' \in 0..MaxSize,
           spc' = "put_body" => ~done
    PROVE  IInv'
<1>1. ~Settled
  BY Zenon DEF Settled
<1>2. c2s' \in Seq(Requests) /\ Len(c2s') = 0
  OBVIOUS
<1>. USE DEF ServerIdle, fixed, client_vars
<1>3. Typed'
  BY <1>2 DEF IInv, Typed, TypeOK
<1>4. Met' /\ Uploading'
  BY Zenon DEF Met, Uploading
<1>5. ToServer'
  BY <1>2 DEF ToServer
<1>6. ToClient' /\ Effect'
  BY Zenon DEF IInv, ToClient, Effect
<1>7. Told'
  BY <1>1, Zenon DEF IInv, Told
<1>. QED  BY <1>3, <1>4, <1>5, <1>6, <1>7, Zenon DEF IInv

\* The answer to a command, for a client that waits for it.
LEMMA AnswerStep ==
    ASSUME IInv, spc = "loop", NEW type \in Commands, cpc = Awaits[type],
           s2c = <<>>, link = "up", type = "PUT" => ~done,
           NEW m \in Replies, m.type \in {"OK", "ERROR"},
           s2c' \in Seq(Replies), Len(s2c') = 1, s2c'[1] = m,
           c2s' = <<>>, ServerIdle, UNCHANGED done,
           spc' \in {"loop", "get_body", "put_body", "over"}, sleft' \in 0..MaxSize,
           m.type = "ERROR" => type # "QUIT" /\ spc' \in {"loop", "over"},
           type = "QUIT" => spc' = "over",
           type = "LIST" => spc' \in {"loop", "over"},
           type = "GET" /\ m.type = "OK" =>
              spc' = "get_body" /\ m.n \in 0..MaxSize /\ sleft' = m.n,
           type = "PUT" /\ m.type = "OK" =>
              spc' = "put_body" /\ m.n <= size /\ sleft' = size - m.n
    PROVE  IInv'
<1>1. /\ cpc = "list_reply" <=> type = "LIST"
      /\ cpc = "get_reply" <=> type = "GET"
      /\ cpc = "put_reply" <=> type = "PUT"
      /\ cpc = "quit_reply" <=> type = "QUIT"
      /\ cpc \in {"list_reply", "get_reply", "put_reply", "quit_reply"}
  BY DEF Awaits, Commands
<1>2. c2s' \in Seq(Requests) /\ Len(c2s') = 0 /\ s2c' # <<>>
  <2>1. s2c' # <<>>
    BY EmptyFacts, SMTT(20)
  <2>. QED  BY <2>1
<1>3. type # "QUIT" => ~done
  BY <1>1, Zenon DEF IInv, Effect
<1>4. Answers' /\ \A i \in 1..Len(s2c') : i = 1
  BY OneAnswer
<1>. USE DEF ServerIdle, fixed, client_vars
<1>5. Typed'
  BY <1>2 DEF IInv, Typed, TypeOK
<1>6. Met'
  BY <1>1, Zenon DEF Met
<1>7. ToServer'
  BY <1>2 DEF ToServer
<1>8. ToClient'
  <2>1. type = "GET" /\ m.type = "OK" => Body(1, m.n)'
    BY SessionAssumption DEF Body
  <2>2. Body(1, m.n)' <=> Body(1, s2c[1].n)'
    BY Zenon
  <2>. QED  BY <1>1, <1>2, <1>4, <2>1, <2>2, SMTT(20) DEF ToClient
<1>9. Uploading'
  BY <1>1, <1>4 DEF Uploading
<1>10. Effect'
  BY <1>1, <1>3 DEF IInv, Effect
<1>11. Told'
  <2>1. m.type = "ERROR" => ~done /\ Settled'
    BY <1>3, Zenon DEF Settled
  <2>. QED  BY <1>1, <1>4, <2>1 DEF IInv, Told
<1>. QED  BY <1>5, <1>6, <1>7, <1>8, <1>9, <1>10, <1>11, Zenon DEF IInv

\* handle_get announces a file that then does not open: the error is in the place of
\* the body.
LEMMA CutShortStep ==
    ASSUME IInv, spc = "loop", cpc = "get_reply", s2c = <<>>, link = "up",
           NEW n \in 0..MaxSize, Reply(<<Frame("OK", n), Frame("ERROR", E.INTERNAL)>>),
           c2s' = <<>>, ServerIdle, UNCHANGED done, spc' = "over", sleft' = 0
    PROVE  IInv'
<1>. DEFINE a == Frame("OK", n)
            b == Frame("ERROR", E.INTERNAL)
<1>1. a \in Replies /\ b \in Replies /\ a.type = "OK" /\ a.n = n /\ b # Raw
      /\ b.type = "ERROR" /\ b.n = E.INTERNAL
  BY SessionAssumption DEF Replies, Raw, Frame, E, Oversize
<1>2. s2c' = <<a, b>>
  <2>1. s2c' = s2c \o <<a, b>>
    BY Zenon DEF Reply, Connected
  <2>. QED  BY <1>1, <2>1, ConcatEmptySeq
<1>. HIDE DEF a, b
<1>3. s2c' \in Seq(Replies) /\ Len(s2c') = 2 /\ s2c'[1] = a /\ s2c'[2] = b
  BY <1>1, <1>2
<1>4. s2c' # <<>> /\ \A i \in 1..Len(s2c') : i \in {1, 2}
  <2>1. s2c' # <<>>
    BY <1>2, Zenon
  <2>2. \A i \in 1..2 : i \in {1, 2}
    OBVIOUS
  <2>. QED  BY <1>3, <2>1, <2>2, Zenon
<1>5. c2s' \in Seq(Requests) /\ ~done
  BY DEF IInv, Effect
<1>. USE DEF ServerIdle, fixed, client_vars
<1>6. Typed'
  BY <1>3, <1>5, SessionAssumption DEF IInv, Typed, TypeOK
<1>7. Met' /\ Uploading' /\ ToServer'
  BY Zenon DEF Met, Uploading, ToServer
<1>8. ToClient'
  <2>1. Body(1, n)'
    <3>1. \A i \in 2..Len(s2c') : i = 2
      BY <1>3
    <3>2. b = Frame("ERROR", E.INTERNAL)
      BY Zenon DEF b
    <3>. QED  BY <1>1, <1>3, <3>1, <3>2 DEF Body
  <2>2. Body(1, n)' <=> Body(1, s2c[1].n)'
    BY <1>1, <1>3, Zenon
  <2>3. n <= MaxSize
    BY SessionAssumption
  <2>. QED  BY <1>1, <1>3, <1>4, <2>1, <2>2, <2>3, Zenon DEF ToClient
<1>9. Effect'
  BY <1>5, Zenon DEF Effect
<1>10. Told'
  <2>1. \A i \in 1..Len(s2c') : s2c'[i].type = "ERROR" => s2c'[i].n = E.INTERNAL
    BY <1>1, <1>3, <1>4, Zenon
  <2>. QED  BY <1>5, <2>1, Zenon DEF IInv, Told, Settled
<1>. QED  BY <1>6, <1>7, <1>8, <1>9, <1>10, Zenon DEF IInv

LEMMA ServerCommandStep == IInv /\ ServerCommand => IInv'
<1>. SUFFICES ASSUME IInv, ServerCommand PROVE IInv'
  OBVIOUS
<1>. DEFINE request == c2s[1]
            type == request.type
            Answer(m) ==
               /\ m.type \in {"OK", "ERROR"}
               /\ spc' \in {"loop", "get_body", "put_body", "over"} /\ sleft' \in 0..MaxSize
               /\ m.type = "ERROR" => type # "QUIT" /\ spc' \in {"loop", "over"}
               /\ type = "QUIT" => spc' = "over"
               /\ type = "LIST" => spc' \in {"loop", "over"}
               /\ type = "GET" /\ m.type = "OK" =>
                     spc' = "get_body" /\ m.n \in 0..MaxSize /\ sleft' = m.n
               /\ type = "PUT" /\ m.type = "OK" =>
                     spc' = "put_body" /\ m.n <= size /\ sleft' = size - m.n
            Cut(n) ==
               /\ type = "GET" /\ Reply(<<Frame("OK", n), Frame("ERROR", E.INTERNAL)>>)
               /\ spc' = "over" /\ sleft' = 0
<1>1. Arrived /\ spc = "loop" /\ link = "up" /\ c2s # <<>>
  BY Zenon DEF ServerCommand, Arrived
<1>2. Len(c2s) = 1 /\ Asked(request)
  BY <1>1, Zenon DEF IInv, ToServer
<1>3. c2s' = <<>> /\ Head(c2s) = request /\ request \in Requests
  BY <1>1, <1>2, ArrivedFacts DEF IInv
<1>4. type \in Commands /\ (type = "PUT" => request.n = size /\ ~done) /\ size \in 0..MaxSize
  BY <1>2, Zenon DEF Asked, IInv, Typed
<1>5. ServerIdle /\ UNCHANGED done
  BY Zenon DEF ServerCommand
<1>. HIDE DEF type, request
<1>6. (\E m \in Replies : Reply(<<m>>) /\ Answer(m)) \/ (\E n \in 0..MaxSize : Cut(n))
  <2>. USE <1>3, <1>4, SessionAssumption
           DEF Replies, Frame, Oversize, E, ServerAt, ReplyError, Close, Commands, type
  <2>1. CASE type = "QUIT"
    <3>1. Reply(<<Frame("OK", 0)>>) /\ spc' = "over" /\ sleft' = 0
      BY <2>1, Zenon DEF ServerCommand
    <3>2. Frame("OK", 0) \in Replies /\ Answer(Frame("OK", 0))
      BY <2>1, <3>1
    <3>. QED  BY <3>1, <3>2, Zenon
  <2>2. CASE type = "LIST"
    <3>1. PICK m \in {Frame("OK", 0), Frame("OK", Oversize), Frame("ERROR", E.INTERNAL)} :
             Reply(<<m>>) /\ spc' \in {"loop", "over"} /\ sleft' = 0
      BY <2>2, Zenon DEF ServerCommand
    <3>2. m \in Replies /\ Answer(m)
      BY <2>2, <3>1
    <3>. QED  BY <3>1, <3>2, Zenon
  <2>3. CASE type = "GET"
    <3>1. \/ \E r \in 1..8 :
                Reply(<<Frame("ERROR", r)>>) /\ spc' \in {"loop", "over"} /\ sleft' = 0
          \/ \E n \in 0..MaxSize :
                Reply(<<Frame("OK", n)>>) /\ spc' = "get_body" /\ sleft' = n
          \/ \E n \in 0..MaxSize : Cut(n)
      <4>1. \/ ServerAt("loop", 0) /\ \E r \in {E.BAD_NAME, E.NOT_FOUND} : ReplyError(r)
            \/ \E n \in 0..MaxSize : Reply(<<Frame("OK", n)>>) /\ ServerAt("get_body", n)
            \/ \E n \in 0..MaxSize :
                  /\ Reply(<<Frame("OK", n), Frame("ERROR", E.INTERNAL)>>)
                  /\ ServerAt("over", 0)
            \/ Close(E.MALFORMED)
            \/ Close(E.INTERNAL)
        BY ONLY <1>3, <2>3, Zenon, ServerCommand DEF ServerCommand, type
      <4>2. ASSUME NEW r \in {1, 2, 4, 6}, ReplyError(r), spc' \in {"loop", "over"}, sleft' = 0
            PROVE  \E x \in 1..8 :
                      Reply(<<Frame("ERROR", x)>>) /\ spc' \in {"loop", "over"} /\ sleft' = 0
        <5>1. r \in 1..8
          OBVIOUS
        <5>. QED  BY <4>2, <5>1, Zenon
      <4>3. CASE \E n \in 0..MaxSize : /\ Reply(<<Frame("OK", n), Frame("ERROR", E.INTERNAL)>>)
                                        /\ ServerAt("over", 0)
        BY <2>3, <4>3, Zenon
      <4>4. CASE ServerAt("loop", 0) /\ \E r \in {E.BAD_NAME, E.NOT_FOUND} : ReplyError(r)
        BY <4>2, <4>4, Zenon
      <4>5. CASE Close(E.MALFORMED) \/ Close(E.INTERNAL)
        BY <4>2, <4>5, Zenon
      <4>. QED  BY <4>1, <4>3, <4>4, <4>5, Zenon
    <3>2. ASSUME NEW r \in 1..8, spc' \in {"loop", "over"}, sleft' = 0
          PROVE  Frame("ERROR", r) \in Replies /\ Answer(Frame("ERROR", r))
      BY <2>3, <3>2
    <3>3. ASSUME NEW n \in 0..MaxSize, spc' = "get_body", sleft' = n
          PROVE  Frame("OK", n) \in Replies /\ Answer(Frame("OK", n))
      BY <2>3, <3>3
    <3>. QED  BY <3>1, <3>2, <3>3, Zenon
  <2>4. CASE type = "PUT"
    <3>1. \/ \E r \in 1..8 :
                Reply(<<Frame("ERROR", r)>>) /\ spc' \in {"loop", "over"} /\ sleft' = 0
          \/ \E n \in 0..size :
                Reply(<<Frame("OK", n)>>) /\ spc' = "put_body" /\ sleft' = size - n
      BY <2>4, SMTT(20) DEF ServerCommand
    <3>2. ASSUME NEW r \in 1..8, spc' \in {"loop", "over"}, sleft' = 0
          PROVE  Frame("ERROR", r) \in Replies /\ Answer(Frame("ERROR", r))
      BY <2>4, <3>2
    <3>3. ASSUME NEW n \in 0..size, spc' = "put_body", sleft' = size - n
          PROVE  Frame("OK", n) \in Replies /\ Answer(Frame("OK", n))
      BY <2>4, <3>3
    <3>. QED  BY <3>1, <3>2, <3>3, Zenon
  <2>. QED  BY <2>1, <2>2, <2>3, <2>4, Zenon
<1>7. CASE cpc = "exited"
  <2>1. s2c' = s2c
    BY <1>6, <1>7, Zenon DEF Reply, Connected
  <2>2. /\ spc' \in {"loop", "get_body", "put_body", "over"} /\ sleft' \in 0..MaxSize
        /\ spc' = "put_body" => ~done
    <3>1. ASSUME NEW m \in Replies, Answer(m), spc' = "put_body" PROVE ~done
      BY <1>4, <3>1, Zenon DEF Commands
    <3>2. spc' \in {"loop", "get_body", "put_body", "over"} /\ sleft' \in 0..MaxSize
      <4>1. 0 \in 0..MaxSize
        BY SessionAssumption
      <4>. QED  BY <1>6, <4>1, Zenon
    <3>. QED  BY <1>6, <3>1, <3>2, Zenon
  <2>. QED  BY <1>1, <1>3, <1>5, <1>7, <2>1, <2>2, ServedAlone, Zenon
<1>8. CASE cpc # "exited"
  <2>1. cpc = Awaits[type] /\ s2c = <<>> /\ Connected
    <3>1. cpc = Awaits[type] /\ s2c = <<>>
      BY <1>2, <1>8, Zenon DEF Asked, type
    <3>. QED  BY <1>4, <3>1 DEF Connected, Awaits, Commands
  <2>2. CASE \E m \in Replies : Reply(<<m>>) /\ Answer(m)
    <3>1. PICK m \in Replies : Reply(<<m>>) /\ Answer(m)
      BY <2>2, Zenon
    <3>2. s2c' \in Seq(Replies) /\ Len(s2c') = 1 /\ s2c'[1] = m
      BY <1>1, <2>1, <3>1, FirstReply, Zenon DEF IInv
    <3>. QED  BY <1>1, <1>3, <1>4, <1>5, <2>1, <3>1, <3>2, AnswerStep, Zenon
  <2>3. CASE \E n \in 0..MaxSize : Cut(n)
    <3>1. cpc = "get_reply"
      BY <2>1, <2>3 DEF Awaits
    <3>. QED  BY <1>1, <1>3, <1>5, <2>1, <2>3, <3>1, CutShortStep, Zenon
  <2>. QED  BY <1>6, <2>2, <2>3, Zenon
<1>. QED  BY <1>7, <1>8, Zenon

\* Another byte of the body, or the error that ends it.
LEMMA BodyGrows ==
    ASSUME Typed, NEW k \in {0, 1}, NEW n \in Nat, k <= Len(s2c), Body(k, n),
           spc = "get_body", sleft > 0, NEW m,
           s2c' = s2c \/ Adds(s2c, s2c', m),
           \/ m = Raw /\ spc' = "get_body" /\ sleft' = sleft - 1
           \/ m = Frame("ERROR", E.INTERNAL) /\ spc' = "over"
    PROVE  Body(k, n)'
<1>1. Len(s2c) \in Nat /\ sleft \in Nat /\ sleft >= 1
  BY QueueFacts, SessionAssumption DEF Typed, TypeOK
<1>2. Len(s2c) - k + sleft <= n /\ \A i \in (k + 1)..Len(s2c) : s2c[i] = Raw
  BY Zenon DEF Body
<1>3. Frame("ERROR", E.INTERNAL) # Raw
  BY Zenon DEF Raw, Frame
<1>4. CASE s2c' = s2c
  BY <1>1, <1>2, <1>4 DEF Body
<1>5. CASE Adds(s2c, s2c', m)
  <2>1. Len(s2c') = Len(s2c) + 1 /\ s2c'[Len(s2c')] = m
    BY <1>5, Zenon DEF Adds
  <2>2. \A i \in (k + 1)..Len(s2c') : i = Len(s2c') \/ s2c'[i] = Raw
    BY <1>1, <1>2, <1>5, <2>1 DEF Adds
  <2>3. Len(s2c') - k <= n + 1 /\ (Len(s2c') - k = n + 1 => FALSE)
    BY <1>1, <1>2, <2>1
  <2>4. spc' = "get_body" => Len(s2c') - k + sleft' <= n
    BY <1>1, <1>2, <2>1 DEF Frame
  <2>. QED  BY <2>1, <2>2, <2>3, <2>4, Zenon DEF Body
<1>. QED  BY <1>4, <1>5, Zenon

\* While a body is on its way, no refusal is, and none has been reported.
LEMMA NotSettledTold ==
    ASSUME IInv, ~Settled
    PROVE  /\ ~(exit = 2 \/ (exit = 3 /\ kind = "c")) /\ refusal \in {0, E.INTERNAL}
           /\ cpc # "exited" =>
                 \A i \in 1..Len(s2c) : s2c[i].type = "ERROR" => s2c[i].n = E.INTERNAL
BY Zenon DEF IInv, Told

LEMMA ServerGetBodyStep == IInv /\ ServerGetBody => IInv'
<1>. SUFFICES ASSUME IInv, ServerGetBody PROVE IInv'
  OBVIOUS
<1>1. ~Settled
  BY Zenon DEF ServerGetBody, Settled
<1>2. cpc \in {"get_reply", "get_body", "quit", "quit_reply", "exited"}
  BY Zenon DEF IInv, ServerGetBody, Met, Typed, TypeOK
<1>3. sleft \in 0..MaxSize /\ Len(s2c) \in Nat /\ (s2c = <<>> <=> Len(s2c) = 0)
  BY QueueFacts, Zenon DEF IInv, Typed, TypeOK
<1>4. CASE spc' = "loop" /\ sleft' = 0 /\ UNCHANGED s2c
  <2>. USE <1>4 DEF ServerGetBody, ServerIdle, fixed, client_vars
  <2>1. Typed'
    BY SessionAssumption DEF IInv, Typed, TypeOK
  <2>2. Met' /\ Uploading'
    BY <1>2, Zenon DEF Met, Uploading
  <2>3. ToServer'
    BY SMTT(20) DEF IInv, ToServer, Asked
  <2>4. ToClient'
    <3>1. ASSUME NEW k, NEW n, Body(k, n) PROVE Body(k, n)'
      BY <3>1, Zenon DEF Body
    <3>. QED  BY <1>2, <3>1, Zenon DEF IInv, ToClient
  <2>5. Effect'
    BY <1>2, Zenon DEF IInv, Effect
  <2>6. Told'
    BY <1>1, NotSettledTold, Zenon DEF IInv, Told
  <2>. QED  BY <2>1, <2>2, <2>3, <2>4, <2>5, <2>6, Zenon DEF IInv
<1>5. ASSUME sleft > 0, NEW m \in {Raw, Frame("ERROR", E.INTERNAL)}, Reply(<<m>>),
             \/ m = Raw /\ spc' = "get_body" /\ sleft' = sleft - 1
             \/ m = Frame("ERROR", E.INTERNAL) /\ spc' = "over" /\ sleft' = 0
      PROVE  IInv'
  <2>1. cpc \in {"get_reply", "get_body", "exited"}
    BY <1>2, <1>3, <1>5 DEF IInv, ServerGetBody, Met
  <2>2. m \in Replies /\ (m.type = "ERROR" => m.n = E.INTERNAL)
    BY DEF Replies, Raw, Frame, E
  <2>3. s2c' \in Seq(Replies) /\ (s2c' = s2c \/ (link = "up" /\ Adds(s2c, s2c', m)))
    BY <1>5, <2>2, ReplyFacts, Zenon DEF IInv
  <2>4. sleft' \in 0..MaxSize /\ spc' \in {"get_body", "over"}
    <3>1. spc' \in {"get_body", "over"} /\ (sleft' = sleft - 1 \/ sleft' = 0)
      BY <1>5, Zenon
    <3>. QED  BY <1>3, <1>5, <3>1, SessionAssumption, SMTT(20)
  <2>5. c2s = <<>> \/ cpc = "exited"
    BY <2>1 DEF IInv, ServerGetBody, ToServer, Asked, Awaits, Commands
  <2>6. ASSUME NEW k \in {0, 1}, NEW n \in Nat, k <= Len(s2c), Body(k, n) PROVE Body(k, n)'
    BY <1>5, <2>3, <2>6, BodyGrows, Zenon DEF IInv, ServerGetBody
  <2>m. /\ spc = "get_body"
        /\ UNCHANGED <<kind, cmd, size, agree, cpc, left, mixed, exit, cause, refusal, link,
                       done, c2s>>
    BY Zenon DEF ServerGetBody, ServerIdle, fixed, client_vars
  <2>. USE <2>m
  <2>7. Typed'
    BY <2>3, <2>4 DEF IInv, Typed, TypeOK
  <2>8. Met' /\ Uploading'
    BY <2>1, <2>4, Zenon DEF Met, Uploading
  <2>9. ToServer'
    BY <2>4, <2>5, Zenon DEF IInv, ToServer, Asked
  <2>10. ToClient'
    <3>1. ASSUME cpc = "get_body" PROVE Body(0, left)'
      <4>1. PICK n \in Nat : n = left /\ left' = n /\ Body(0, n)
        BY <3>1, SessionAssumption DEF IInv, Typed, TypeOK, ToClient
      <4>2. Body(0, n)'
        BY <1>3, <2>6, <4>1
      <4>. QED  BY <4>1, <4>2, Zenon
    <3>2. ASSUME cpc = "get_reply", s2c # <<>>
          PROVE  s2c' # <<>> /\ s2c'[1] = s2c[1] /\ Len(s2c) >= 1
      BY <1>3, <2>3, <3>2, SMTT(20) DEF Adds
    <3>3. ASSUME cpc = "get_reply", s2c # <<>>
          PROVE  /\ s2c' # <<>> /\ s2c'[1].type = "OK" /\ s2c'[1].n <= MaxSize
                 /\ Body(1, s2c[1].n)'
      <4>1. s2c[1] \in Replies
        BY <3>2, <3>3, QueueFacts DEF IInv
      <4>2. s2c[1].type = "OK" /\ s2c[1].n <= MaxSize /\ Body(1, s2c[1].n)
        BY <3>3, Zenon DEF IInv, ToClient
      <4>3. PICK n \in Nat : n = s2c[1].n
        BY <4>1, <4>2, SessionAssumption DEF Replies, Raw, Frame, Oversize
      <4>4. Body(1, n)'
        BY <1>3, <2>6, <3>2, <3>3, <4>2, <4>3, Zenon
      <4>. QED  BY <3>2, <3>3, <4>2, <4>3, <4>4, Zenon
    <3>4. ASSUME link = "broken" \/ (cpc = "get_reply" /\ s2c = <<>>)
          PROVE  s2c' = <<>> /\ link = "broken"
      BY <2>3, <3>4, Zenon DEF IInv, ToClient
    <3>. QED  BY <2>1, <2>4, <3>1, <3>3, <3>4, Zenon DEF ToClient
  <2>11. Effect'
    BY <2>1, <2>4, Zenon DEF IInv, Effect
  <2>12. Told'
    <3>1. ASSUME cpc # "exited", NEW i \in 1..Len(s2c'), s2c'[i].type = "ERROR"
          PROVE  s2c'[i].n = E.INTERNAL
      <4>1. s2c'[i] = m \/ (i \in 1..Len(s2c) /\ s2c'[i] = s2c[i])
        BY <1>3, <2>3 DEF Adds
      <4>. QED  BY <1>1, <2>2, <3>1, <4>1, NotSettledTold, Zenon
    <3>. QED  BY <1>1, <3>1, NotSettledTold, Zenon DEF IInv, Told
  <2>. QED  BY <2>7, <2>8, <2>9, <2>10, <2>11, <2>12, Zenon DEF IInv
<1>. QED  BY <1>4, <1>5, Zenon DEF ServerGetBody, ServerAt, Close, ReplyError

\* The end of an upload: the verdict, or the error that takes its place.
LEMMA VerdictStep ==
    ASSUME IInv, spc = "put_body", NEW m \in Replies, m.type \in {"OK", "ERROR"},
           Reply(<<m>>), UNCHANGED c2s, ServerIdle,
           spc' \in {"loop", "over"}, spc' = "loop" => sleft = 0, sleft' = 0,
           done' \in BOOLEAN,
           m.type = "OK" => done' = TRUE,
           m.type = "ERROR" /\ m.n # E.INTERNAL => ~done' /\ spc' = "loop"
    PROVE  IInv'
<1>1. ~Settled /\ ~done
  BY Zenon DEF IInv, Settled, Effect
<1>2. cpc \in {"put_reply", "put_body", "put_verdict", "exited"}
  BY Zenon DEF IInv, Met, Typed, TypeOK
<1>3. /\ sleft \in Nat /\ left \in Nat /\ Len(c2s) \in Nat /\ (c2s = <<>> <=> Len(c2s) = 0)
      /\ Len(s2c) \in Nat /\ (s2c = <<>> <=> Len(s2c) = 0)
  BY QueueFacts, SessionAssumption DEF IInv, Typed, TypeOK
<1>4. /\ s2c' \in Seq(Replies)
      /\ s2c' = s2c \/ (link = "up" /\ Connected /\ Adds(s2c, s2c', m))
  BY ReplyFacts, Zenon DEF IInv
<1>5. spc' = "loop" => c2s = <<>>
  BY <1>3 DEF IInv, ToServer
<1>6. \A i \in 1..Len(s2c') :
         \/ i \in 1..Len(s2c) /\ s2c'[i] = s2c[i]
         \/ i = Len(s2c) + 1 /\ s2c'[i] = m
  BY <1>3, <1>4, SMTT(20) DEF Adds
<1>7. Len(s2c') \in {Len(s2c), Len(s2c) + 1} /\ (s2c' = <<>> <=> Len(s2c') = 0)
  <2>1. s2c' = <<>> <=> Len(s2c') = 0
    BY <1>4, EmptyFacts, Zenon
  <2>. QED  BY <1>3, <1>4, <2>1, Zenon DEF Adds
<1>. USE DEF ServerIdle, fixed, client_vars
<1>8. Typed'
  BY <1>4, SessionAssumption DEF IInv, Typed, TypeOK
<1>9. Met'
  BY <1>2, Zenon DEF Met
<1>10. ToServer'
  BY <1>5, Zenon DEF IInv, ToServer
<1>11. ToClient'
  <2>1. link = "broken" => s2c' = <<>>
    BY <1>4, Zenon DEF IInv, ToClient
  <2>. QED  BY <1>2, <2>1, Zenon DEF ToClient
<1>12. cpc # "exited" => Answers'
  <2>1. cpc # "exited" => Answers
    BY <1>2, Zenon DEF IInv, Uploading
  <2>. QED  BY <1>6, <2>1, Zenon DEF Answers
<1>13. cpc \in {"put_body", "put_verdict"} =>
          Len(s2c) = 0 /\ Len(s2c') \in {0, 1} /\ (Len(s2c') = 1 => s2c'[1] = m)
  <2>1. cpc \in {"put_body", "put_verdict"} => Len(s2c) = 0
    BY <1>3, Zenon DEF IInv, Uploading
  <2>2. Len(s2c) = 0 => Len(s2c') \in {0, 1} /\ (Len(s2c') = 1 => s2c'[1] = m)
    BY <1>3, <1>6, <1>7
  <2>. QED  BY <2>1, <2>2, Zenon
<1>14. cpc = "put_reply" =>
          /\ Len(s2c') <= 2 /\ (Len(s2c') = 2 => s2c'[2] = m)
          /\ s2c' # <<>> /\ spc' = "loop" => s2c'[1].n = size
  <2>. SUFFICES ASSUME cpc = "put_reply" PROVE
          /\ Len(s2c') <= 2 /\ (Len(s2c') = 2 => s2c'[2] = m)
          /\ s2c' # <<>> /\ spc' = "loop" => s2c'[1].n = size
    BY Zenon
  <2>1. CASE link = "broken"
    <3>1. s2c = <<>> /\ s2c' = <<>> /\ Len(s2c') = 0
      BY <1>3, <1>4, <2>1, Zenon DEF IInv, ToClient
    <3>. QED  BY <3>1
  <2>2. CASE link # "broken"
    <3>1. Len(s2c) = 1 /\ s2c[1].n <= size /\ sleft = size - s2c[1].n
      BY <2>2, Zenon DEF IInv, Uploading
    <3>2. s2c'[1] = s2c[1]
      BY <1>4, <3>1 DEF Adds
    <3>3. Len(s2c') = 2 => s2c'[2] = m
      BY <1>6, <3>1
    <3>4. s2c[1] \in Replies /\ size \in Nat
      BY <3>1, QueueFacts, SessionAssumption, SMTT(20) DEF IInv, Typed
    <3>5. s2c[1].n \in Nat
      BY <3>4, SessionAssumption DEF Replies, Raw, Frame, Oversize
    <3>6. Len(s2c') <= 2
      <4>1. Len(s2c') \in {Len(s2c), Len(s2c) + 1}
        BY <1>7, Zenon
      <4>2. \A k : k \in {1, 1 + 1} => k <= 2
        OBVIOUS
      <4>3. Len(s2c) = 1
        BY <3>1, Zenon
      <4>. QED  BY <4>1, <4>2, <4>3, Zenon
    <3>7. spc' = "loop" => s2c[1].n = size
      BY <3>1, <3>4, <3>5
    <3>. QED  BY <3>2, <3>3, <3>6, <3>7, Zenon
  <2>. QED  BY <2>1, <2>2, Zenon
<1>15. Uploading'
  <2>1. cpc = "put_body" /\ spc' = "loop" => left = 0
    BY <1>3 DEF IInv, Uploading
  <2>2. cpc \in {"put_body", "put_verdict"} => Len(s2c') <= 1
    BY <1>13, SmallFacts, Zenon
  <2>3. cpc = "put_reply" =>
           Len(s2c') <= 2 /\ (spc' = "loop" /\ s2c' # <<>> => s2c'[1].n = size)
    BY <1>14, Zenon
  <2>. QED  BY <1>2, <1>12, <2>1, <2>2, <2>3, Zenon DEF Uploading
<1>16. Effect'
  <2>1. cpc \in {"put_body", "put_verdict"} /\ s2c' # <<>> => s2c'[1] = m
    BY <1>7, <1>13, Zenon
  <2>. QED  BY <1>2, <1>14, <2>1, Zenon DEF Effect
<1>17. Told'
  <2>1. ASSUME cpc # "exited", NEW i \in 1..Len(s2c'), s2c'[i].type = "ERROR",
               s2c'[i].n # E.INTERNAL
        PROVE  ~done' /\ Settled'
    <3>1. s2c'[i] = m
      BY <1>1, <1>6, <2>1, NotSettledTold, Zenon
    <3>. QED  BY <1>5, <2>1, <3>1, Zenon DEF Settled
  <2>. QED  BY <1>1, <2>1, NotSettledTold, Zenon DEF IInv, Told
<1>. QED  BY <1>8, <1>9, <1>10, <1>11, <1>15, <1>16, <1>17, Zenon DEF IInv

LEMMA ServerVerdictStep == IInv /\ ServerVerdict => IInv'
<1>. SUFFICES ASSUME IInv, ServerVerdict PROVE IInv'
  OBVIOUS
<1>1. done = FALSE
  BY Zenon DEF IInv, ServerVerdict, Effect, Typed, TypeOK
<1>2. {Frame("OK", 0), Frame("ERROR", E.CORRUPT), Frame("ERROR", E.ALREADY_EXISTS),
       Frame("ERROR", E.INTERNAL)} \subseteq Replies
  BY SessionAssumption DEF Replies, Frame, E, Oversize
<1>3. \E m \in {Frame("OK", 0), Frame("ERROR", E.CORRUPT), Frame("ERROR", E.ALREADY_EXISTS),
                Frame("ERROR", E.INTERNAL)} :
         /\ Reply(<<m>>) /\ spc' \in {"loop", "over"} /\ sleft' = 0 /\ done' \in BOOLEAN
         /\ m.type = "OK" => done' = TRUE
         /\ m.type = "ERROR" /\ m.n # E.INTERNAL => ~done' /\ spc' = "loop"
  <2>1. CASE Reply(<<Frame("OK", 0)>>) /\ ServerAt("loop", 0) /\ done' = TRUE
    BY <2>1, Zenon DEF ServerAt, Frame
  <2>2. CASE \E r \in {E.CORRUPT, E.ALREADY_EXISTS} :
                ReplyError(r) /\ ServerAt("loop", 0) /\ UNCHANGED done
    BY <1>1, <2>2, Zenon DEF ServerAt, Frame, ReplyError
  <2>3. CASE Close(E.INTERNAL) /\ done' \in {done, TRUE}
    BY <1>1, <2>3, Zenon DEF ServerAt, Frame, Close, ReplyError
  <2>. QED  BY <2>1, <2>2, <2>3, Zenon DEF ServerVerdict
<1>4. \A m \in {Frame("OK", 0), Frame("ERROR", E.CORRUPT), Frame("ERROR", E.ALREADY_EXISTS),
                Frame("ERROR", E.INTERNAL)} : m.type \in {"OK", "ERROR"}
  BY DEF Frame
<1>. QED  BY <1>2, <1>3, <1>4, VerdictStep, Zenon DEF ServerVerdict

LEMMA ServerPutBodyStep == IInv /\ ServerPutBody => IInv'
<1>. SUFFICES ASSUME IInv, ServerPutBody PROVE IInv'
  OBVIOUS
<1>1. CASE UNCHANGED c2s /\ Close(E.INTERNAL)
  <2>. DEFINE m == Frame("ERROR", E.INTERNAL)
  <2>1. m \in Replies /\ m.type = "ERROR" /\ m.n = E.INTERNAL
    BY DEF Replies, Frame, E
  <2>2. Reply(<<m>>) /\ spc' = "over" /\ sleft' = 0 /\ done' \in BOOLEAN
    BY <1>1, Zenon DEF Close, ReplyError, ServerAt, ServerPutBody, IInv, Typed, TypeOK
  <2>. HIDE DEF m
  <2>. QED  BY <1>1, <2>1, <2>2, VerdictStep, Zenon DEF ServerPutBody
<1>2. CASE Arrived /\ ServerAt("put_body", sleft - 1) /\ UNCHANGED s2c
  <2>1. /\ sleft \in 1..MaxSize /\ left \in Nat /\ Len(c2s) \in Nat /\ Len(c2s) >= 1
        /\ link = "up" /\ c2s # <<>>
        /\ c2s' \in Seq(Requests) /\ Len(c2s') = Len(c2s) - 1
        /\ \A i \in 1..(Len(c2s) - 1) : c2s'[i] = c2s[i + 1]
    BY <1>2, QueueFacts, ArrivedFacts, SessionAssumption
       DEF IInv, Typed, TypeOK, ServerPutBody, Arrived
  <2>2. Len(c2s) <= sleft /\ \A i \in 1..Len(c2s) : c2s[i] = Raw
    BY Zenon DEF IInv, ToServer, ServerPutBody
  <2>3. ~Settled /\ ~Settled'
    BY <1>2, Zenon DEF Settled, ServerPutBody, ServerAt
  <2>4. cpc \in {"put_body", "put_verdict", "exited"}
    BY <2>1, Zenon DEF IInv, Met, Uploading, ServerPutBody, Typed, TypeOK
  <2>. USE <1>2 DEF ServerPutBody, ServerAt, ServerIdle, fixed, client_vars
  <2>5. Typed'
    BY <2>1, SessionAssumption DEF IInv, Typed, TypeOK
  <2>6. Met'
    BY Zenon DEF IInv, Met
  <2>7. ToServer'
    <3>1. Len(c2s') <= sleft' /\ \A i \in 1..Len(c2s') : c2s'[i] = Raw
      BY <2>1, <2>2
    <3>. QED  BY <2>1, <3>1, Zenon DEF ToServer
  <2>8. ToClient'
    BY <2>4, Zenon DEF IInv, ToClient
  <2>9. Uploading'
    <3>1. cpc = "put_body" => Len(c2s') + left <= sleft'
      BY <2>1 DEF IInv, Uploading
    <3>. QED  BY <2>4, <3>1, Zenon DEF IInv, Uploading, Answers
  <2>10. Effect'
    BY Zenon DEF IInv, Effect
  <2>11. Told'
    BY <2>3, NotSettledTold, Zenon DEF IInv, Told
  <2>. QED  BY <2>5, <2>6, <2>7, <2>8, <2>9, <2>10, <2>11, Zenon DEF IInv
<1>. QED  BY <1>1, <1>2, Zenon DEF ServerPutBody

-----------------------------------------------------------------------------
(* The network, and the theorems.                                          *)

LEMMA NetworkStep == IInv /\ Network => IInv'
<1>. SUFFICES ASSUME IInv, Network PROVE IInv'
  OBVIOUS
<1>. USE DEF Network, fixed, client_vars, server_vars
<1>1. CASE link' = "dead" /\ UNCHANGED <<c2s, s2c>>
  <2>1. Typed' /\ Met'
    BY <1>1, SMTT(20) DEF IInv, Typed, TypeOK, Met
  <2>2. ToServer'
    BY <1>1, SMTT(20) DEF IInv, ToServer, Asked
  <2>3. ToClient'
    BY <1>1, Zenon DEF IInv, ToClient, Body, Answers
  <2>4. Uploading'
    BY <1>1, Zenon DEF IInv, Uploading, Answers
  <2>5. Effect' /\ Told'
    BY <1>1, Zenon DEF IInv, Effect, Told, Settled
  <2>. QED  BY <2>1, <2>2, <2>3, <2>4, <2>5, Zenon DEF IInv
<1>2. CASE link' = "broken" /\ c2s' = <<>> /\ s2c' = <<>>
  <2>1. Len(s2c') = 0 /\ Len(c2s') = 0 /\ Len(s2c) \in Nat /\ Len(c2s) \in Nat
        /\ left \in Nat /\ sleft \in Nat
    BY <1>2, QueueFacts, SessionAssumption, SMTT(20) DEF IInv, Typed, TypeOK
  <2>2. Typed' /\ Met'
    BY <1>2 DEF IInv, Typed, TypeOK, Met
  <2>3. ToServer'
    BY <1>2, <2>1 DEF IInv, ToServer
  <2>4. ToClient'
    <3>1. cpc = "get_body" => Body(0, left)'
      BY <2>1 DEF IInv, ToClient, Body
    <3>2. Answers'
      BY <2>1 DEF Answers
    <3>3. Len(s2c') <= 1
      BY <2>1
    <3>. QED  BY <1>2, <3>1, <3>2, <3>3, Zenon DEF ToClient
  <2>5. Uploading'
    <3>1. Answers'
      BY <2>1 DEF Answers
    <3>2. Len(s2c') <= 2 /\ Len(s2c') <= 1
      BY <2>1
    <3>3. cpc = "put_body" /\ spc = "put_body" => Len(c2s') + left <= sleft
      BY <2>1, SMTT(20) DEF IInv, Uploading
    <3>. QED  BY <1>2, <3>1, <3>2, <3>3, Zenon DEF IInv, Uploading
  <2>6. Effect'
    BY <1>2, <2>1, SMTT(20) DEF IInv, Effect
  <2>7. Told'
    BY <1>2, <2>1 DEF IInv, Told, Settled
  <2>. QED  BY <2>2, <2>3, <2>4, <2>5, <2>6, <2>7, Zenon DEF IInv
<1>. QED  BY <1>1, <1>2, Zenon DEF Network

LEMMA InvInit == Init => IInv
<1>. SUFFICES ASSUME Init PROVE IInv
  BY Zenon
<1>1. Typed
  <2>1. c2s \in Seq(Requests) /\ s2c \in Seq(Replies)
    BY DEF Init
  <2>2. /\ kind \in {"c", "py"} /\ cmd \in {"list", "get", "put"}
        /\ size \in 0..MaxSize /\ agree \in BOOLEAN
    BY SessionAssumption, Zenon DEF Init
  <2>3. left \in 0..MaxSize /\ sleft \in 0..MaxSize
    BY SessionAssumption DEF Init
  <2>4. TypeOK
    <3>1. cpc = "start" /\ spc = "none" /\ link = "up" /\ mixed = FALSE /\ done = FALSE
      BY Zenon DEF Init
    <3>2. exit = -1 /\ refusal = 0
      BY Zenon DEF Init
    <3>3. mixed \in BOOLEAN /\ done \in BOOLEAN
      BY <3>1, Zenon
    <3>. QED  BY <2>3, <3>1, <3>2, <3>3 DEF TypeOK
  <2>. QED  BY <2>1, <2>2, <2>4, Zenon DEF Typed
<1>2. Met /\ ToServer /\ ToClient /\ Uploading
  BY Zenon DEF Init, Met, ToServer, ToClient, Uploading
<1>3. Effect /\ Told
  BY DEF Init, Effect, Told
<1>. QED  BY <1>1, <1>2, <1>3, Zenon DEF IInv

LEMMA InvNext == IInv /\ [Next]_vars => IInv'
<1>. SUFFICES ASSUME IInv, [Next]_vars PROVE IInv'
  BY Zenon
<1>1. CASE Client
  BY <1>1, UsageStep, ConnectStep, SendHelloStep, HelloReplyStep, CommandStep,
     ListReplyStep, GetReplyStep, GetBodyStep, GetVerifyStep, PutReplyStep, PutBodyStep,
     PutVerdictStep, QuitStep, QuitReplyStep, ReadFailsStep, ZenonT(30) DEF Client, NoReply
<1>2. CASE GiveUp
  BY <1>2, ReadFailsStep, Zenon DEF GiveUp
<1>3. CASE Server
  BY <1>3, ServerHelloStep, ServerCommandStep, ServerGetBodyStep, ServerPutBodyStep,
     ServerVerdictStep, ServerLostStep DEF Server
<1>4. CASE Network
  BY <1>4, NetworkStep, Zenon
<1>6. CASE Admit \/ TurnAway
  BY <1>6, TurnStep, Zenon
<1>5. CASE UNCHANGED vars
  <2>. USE <1>5 DEF vars, fixed, client_vars, server_vars
  <2>1. Typed' /\ Met'
    BY SMTT(20) DEF IInv, Typed, TypeOK, Met
  <2>2. ToServer'
    BY SMTT(20) DEF IInv, ToServer, Asked
  <2>3. ToClient'
    BY SMTT(20) DEF IInv, ToClient, Body, Answers
  <2>4. Uploading' /\ Effect'
    BY SMTT(20) DEF IInv, Uploading, Answers, Effect
  <2>5. Told'
    BY Zenon DEF IInv, Told, Settled
  <2>. QED  BY <2>1, <2>2, <2>3, <2>4, <2>5, Zenon DEF IInv
<1>. QED  BY <1>1, <1>2, <1>3, <1>4, <1>5, <1>6, Zenon DEF Next

LEMMA InvInStep == IInv => InStep
<1>. SUFFICES ASSUME IInv PROVE InStep
  BY Zenon
<1>1. c2s # <<>> => Head(c2s) = c2s[1] /\ 1 \in 1..Len(c2s)
  BY TailFacts DEF IInv, Typed
<1>2. s2c # <<>> => Head(s2c) = s2c[1] /\ 1 \in 1..Len(s2c)
  BY TailFacts DEF IInv, Typed
<1>3. spc = "loop" /\ c2s # <<>> => c2s[1].type \in Commands
  BY Zenon DEF IInv, ToServer, Asked
<1>4. spc = "put_body" /\ c2s # <<>> => c2s[1] = Raw
  BY <1>1, Zenon DEF IInv, ToServer
<1>5. Reading /\ cpc # "get_body" /\ s2c # <<>> => s2c[1].type \in {"OK", "ERROR"}
  <2>1. cpc \in {"hello_reply", "list_reply", "put_reply", "put_verdict", "quit_reply"}
           /\ s2c # <<>> => Answers
    BY Zenon DEF IInv, ToClient, Uploading
  <2>2. cpc = "get_reply" /\ s2c # <<>> => s2c[1].type \in {"OK", "ERROR"}
    BY Zenon DEF IInv, ToClient
  <2>. QED  BY <1>2, <2>1, <2>2, Zenon DEF Reading, Answers
<1>. QED  BY <1>1, <1>2, <1>3, <1>4, <1>5, Zenon DEF InStep

\* The counts of bytes still to send or to receive never leave the range of file
\* sizes, in either client and in handle_client: no loop of rtrv_do_get, rtrv_do_put,
\* handle_get or handle_put runs once too often.
THEOREM TypesOK == Spec => []TypeOK
<1>1. IInv => TypeOK
  BY Zenon DEF IInv, Typed
<1>. QED  BY <1>1, InvInit, InvNext, PTL DEF Spec

\* Framing is never lost, whatever is refused, resumed, cut short or abandoned and
\* whatever the sizes: handle_client reads a command where a command starts and body
\* bytes where the body is, and neither client takes body bytes for a reply.
THEOREM AlwaysInStep == Spec => []InStep
BY InvInit, InvNext, InvInStep, PTL DEF Spec

\* The exit status of main, in C and in Python, and the reason of an ERROR frame can
\* be relied on: what they say of the command's effect is so, wherever the connection
\* broke and whatever the server was still doing when the client gave up.
THEOREM ReportsTrue == Spec => []ReportsAreTrue
<1>1. IInv => ReportsAreTrue
  BY Zenon DEF IInv, Told, ReportsAreTrue
<1>. QED  BY <1>1, InvInit, InvNext, PTL DEF Spec

-----------------------------------------------------------------------------
(* The work ahead.                                                         *)

\* The stock, from the work of the client, the frames on their way, the work of the
\* server and whether the network can still fail.
Stock(c, q, s, u) == (MaxSize + 5) * c + (MaxSize + 2) * q + s + u

\* A step of the client pays for a frame and for a session that begins.
LEMMA ClientPays ==
    ASSUME NEW c \in Nat, NEW d \in Nat, NEW q \in Nat, NEW r \in Nat, NEW s \in Nat,
           NEW t \in Nat, NEW u \in Nat, d < c, r <= q + 1, t <= s + 2
    PROVE  Stock(d, r, t, u) < Stock(c, q, s, u)
<1>1. (MaxSize + 5) * d <= (MaxSize + 5) * (c - 1)
  BY SessionAssumption
<1>2. (MaxSize + 2) * r <= (MaxSize + 2) * (q + 1)
  BY SessionAssumption
<1>3. /\ (MaxSize + 5) * (c - 1) = (MaxSize + 5) * c - (MaxSize + 5)
      /\ (MaxSize + 2) * (q + 1) = (MaxSize + 2) * q + (MaxSize + 2)
  BY SessionAssumption
<1>. DEFINE a == (MaxSize + 5) * c
            b == (MaxSize + 2) * q
            e == (MaxSize + 5) * d
            f == (MaxSize + 2) * r
<1>4. a \in Int /\ b \in Int /\ e \in Int /\ f \in Int /\ MaxSize \in Int
  BY SessionAssumption
<1>5. e <= a - (MaxSize + 5) /\ f <= b + (MaxSize + 2)
  BY <1>1, <1>2, <1>3, Zenon
<1>. HIDE DEF a, b, e, f
<1>6. e + f + t + u < a + b + s + u
  BY <1>4, <1>5
<1>. QED  BY <1>6, Zenon DEF Stock, a, b, e, f

\* A frame taken off the connection pays for whatever the server does with it.
LEMMA FramePays ==
    ASSUME NEW c \in Nat, NEW q \in Nat, NEW r \in Nat, NEW s \in Nat, NEW t \in Nat,
           NEW u \in Nat, r = q - 1, 1 <= s, t <= MaxSize + 2
    PROVE  Stock(c, r, t, u) < Stock(c, q, s, u)
<1>1. (MaxSize + 2) * r = (MaxSize + 2) * q - (MaxSize + 2)
  BY SessionAssumption
<1>. DEFINE a == (MaxSize + 5) * c
            b == (MaxSize + 2) * q
            f == (MaxSize + 2) * r
<1>2. a \in Int /\ b \in Int /\ f \in Int /\ MaxSize \in Int
  BY SessionAssumption
<1>3. f = b - (MaxSize + 2)
  BY <1>1, Zenon
<1>. HIDE DEF a, b, f
<1>4. a + f + t + u < a + b + s + u
  BY <1>2, <1>3
<1>. QED  BY <1>4, Zenon DEF Stock, a, b, f

\* So do the server's own count and the network's failure.
LEMMA CountPays ==
    ASSUME NEW c \in Nat, NEW q \in Nat, NEW r \in Nat, NEW s \in Nat, NEW t \in Nat,
           NEW u \in Nat, NEW x \in Nat, r <= q, t + x < s + u
    PROVE  Stock(c, r, t, x) < Stock(c, q, s, u)
<1>1. (MaxSize + 2) * r <= (MaxSize + 2) * q
  BY SessionAssumption
<1>. DEFINE a == (MaxSize + 5) * c
            b == (MaxSize + 2) * q
            f == (MaxSize + 2) * r
<1>2. a \in Int /\ b \in Int /\ f \in Int /\ f <= b
  BY <1>1, SessionAssumption
<1>. HIDE DEF a, b, f
<1>3. a + f + t + x < a + b + s + u
  BY <1>2
<1>. QED  BY <1>3, Zenon DEF Stock, a, b, f

Up == IF link = "up" THEN 1 ELSE 0

Sizes ==
    /\ ClientAhead \in Nat /\ (ClientAhead = 0 <=> cpc = "exited")
    /\ ServerAhead \in 0..(MaxSize + 2) /\ (ServerAhead = 0 <=> ~Open)
    /\ Len(c2s) \in Nat /\ Up \in 0..1
    /\ Ahead = Stock(ClientAhead, Len(c2s), ServerAhead, Up)

LEMMA AheadFacts == IInv => Sizes
<1>. SUFFICES ASSUME IInv PROVE Sizes
  OBVIOUS
<1>1. /\ left \in 0..MaxSize /\ sleft \in 0..MaxSize /\ MaxSize \in Nat /\ Len(c2s) \in Nat
      /\ cpc \in {"start", "hello", "hello_reply", "command", "list_reply", "get_reply",
                  "get_body", "put_reply", "put_body", "put_verdict", "quit",
                  "quit_reply", "exited"}
      /\ spc \in {"none", "queued", "hello", "loop", "get_body", "put_body", "over"}
  BY SessionAssumption, QueueFacts, Zenon DEF IInv, Typed, TypeOK
<1>2. ClientAhead \in Nat /\ (ClientAhead = 0 <=> cpc = "exited")
  BY <1>1, SMTT(20) DEF ClientAhead
<1>3. ServerAhead \in 0..(MaxSize + 2) /\ (ServerAhead = 0 <=> ~Open)
  BY <1>1 DEF ServerAhead, Open
<1>. QED  BY <1>1, <1>2, <1>3, SMTT(20) DEF Sizes, Ahead, Stock, Up


\* The client gets nearer to its end with every step.
LEMMA ClientNearer ==
    ASSUME IInv, IInv', Sizes, Sizes', Client \/ GiveUp
    PROVE  ClientAhead' < ClientAhead
<1>1. /\ left \in 0..MaxSize /\ left' \in 0..MaxSize /\ MaxSize \in Nat
      /\ ClientAhead \in Nat /\ (ClientAhead = 0 <=> cpc = "exited")
  BY SessionAssumption, Zenon DEF IInv, Typed, TypeOK, Sizes
<1>2. ASSUME cpc' = "exited", cpc # "exited" PROVE ClientAhead' < ClientAhead
  <2>1. ClientAhead' = 0
    BY <1>2, Zenon DEF ClientAhead
  <2>. QED  BY <1>1, <1>2, <2>1
<1>3. CASE Usage \/ Connect
  BY <1>1, <1>2, <1>3, SMTT(20) DEF Usage, Connect, Exit, Goto, ClientAhead
<1>4. CASE SendHello \/ Quit
  BY <1>1, <1>2, <1>4, SMTT(20) DEF SendHello, Quit, Write, Written, WriteFails, Exit, Goto, ClientAhead
<1>5. CASE Command
  BY <1>1, <1>2, <1>5, SMTT(20) DEF Command, Write, Written, WriteFails, Exit, Goto, ClientAhead
<1>6. CASE HelloReply \/ ListReply \/ QuitReply
  BY <1>1, <1>2, <1>6, SMTT(20)
     DEF HelloReply, ListReply, QuitReply, NotOK, Exit, Goto, ClientAhead
<1>7. CASE GetReply \/ PutReply
  BY <1>1, <1>2, <1>7, SMTT(20) DEF GetReply, PutReply, NotOK, Exit, Goto, ClientAhead
<1>8. CASE GetBody \/ GetVerify
  BY <1>1, <1>2, <1>8, SMTT(20) DEF GetBody, GetVerify, Exit, Goto, ClientAhead
<1>9. CASE PutBody \/ PutVerdict
  BY <1>1, <1>2, <1>9
     DEF PutBody, PutVerdict, Written, WriteFails, NotOK, Exit, Goto, ClientAhead
<1>10. CASE NoReply \/ GiveUp
  BY <1>1, <1>2, <1>10, Zenon DEF NoReply, GiveUp, ReadFails, Reading, Exit
<1>. QED  BY <1>3, <1>4, <1>5, <1>6, <1>7, <1>8, <1>9, <1>10, Zenon DEF Client

\* It sends one frame at most, and may begin a session.
LEMMA ClientSends ==
    ASSUME IInv, Sizes, Client \/ GiveUp
    PROVE  /\ c2s' = c2s \/ \E m : c2s' = Append(c2s, m)
           /\ \/ spc' = spc /\ sleft' = sleft
              \/ spc = "none" /\ spc' = "queued"
           /\ link' = link
<1>1. CASE Connect
  BY <1>1, Zenon DEF Connect, IInv, Met
<1>2. CASE Usage \/ GetVerify \/ NoReply \/ GiveUp
  BY <1>2, Zenon DEF Usage, GetVerify, NoReply, GiveUp, ReadFails, ClientIdle, server_vars
<1>3. CASE SendHello \/ Quit \/ Command \/ PutBody
  <2>1. c2s' = c2s \/ \E m : c2s' = Append(c2s, m)
    BY <1>3, Zenon DEF SendHello, Quit, Command, PutBody, Write, Written, WriteFails
  <2>2. spc' = spc /\ sleft' = sleft /\ link' = link
    BY <1>3, Zenon DEF SendHello, Quit, Command, PutBody, ClientIdle, server_vars
  <2>. QED  BY <2>1, <2>2, Zenon
<1>4. CASE HelloReply \/ ListReply \/ GetReply \/ GetBody \/ PutReply \/ PutVerdict \/ QuitReply
  BY <1>4, Zenon DEF HelloReply, ListReply, GetReply, GetBody, PutReply, PutVerdict, QuitReply,
              ClientIdle, server_vars
<1>. QED  BY <1>1, <1>2, <1>3, <1>4, Zenon DEF Client

LEMMA ClientUses ==
    ASSUME IInv, IInv', Sizes, Sizes', Client \/ GiveUp
    PROVE  Ahead' < Ahead
<1>1. ClientAhead' < ClientAhead
  BY ClientNearer, Zenon
<1>2. Len(c2s') <= Len(c2s) + 1
  <2>1. c2s \in Seq(Requests) /\ Len(c2s) \in Nat
    BY Zenon DEF IInv, Typed, Sizes
  <2>2. c2s' = c2s \/ \E m : c2s' = Append(c2s, m)
    BY ClientSends, Zenon
  <2>. QED  BY <2>1, <2>2
<1>3. ServerAhead' <= ServerAhead + 2 /\ Up' = Up
  <2>1. /\ \/ spc' = spc /\ sleft' = sleft
           \/ spc = "none" /\ spc' = "queued"
        /\ link' = link
    BY ClientSends, Zenon
  <2>2. ServerAhead' = ServerAhead \/ (ServerAhead = 0 /\ ServerAhead' = 2)
    BY <2>1, Zenon DEF ServerAhead
  <2>3. ServerAhead \in Nat
    BY SessionAssumption DEF Sizes
  <2>4. Up' = Up
    BY <2>1, Zenon DEF Up
  <2>. QED  BY <2>2, <2>3, <2>4
<1>4. Stock(ClientAhead', Len(c2s'), ServerAhead', Up) < Stock(ClientAhead, Len(c2s), ServerAhead, Up)
  <2>1. /\ ClientAhead \in Nat /\ ServerAhead \in Nat /\ Len(c2s) \in Nat /\ Up \in Nat
        /\ ClientAhead' \in Nat /\ ServerAhead' \in Nat /\ Len(c2s') \in Nat
    BY SessionAssumption DEF Sizes
  <2>. QED  BY <1>1, <1>2, <1>3, <2>1, ClientPays, Zenon
<1>5. /\ Ahead = Stock(ClientAhead, Len(c2s), ServerAhead, Up)
      /\ Ahead' = Stock(ClientAhead', Len(c2s'), ServerAhead', Up')
  BY Zenon DEF Sizes, Stock
<1>. QED  BY <1>3, <1>4, <1>5, Zenon


\* The server takes a frame off the connection, or counts down what it has to send,
\* or goes back to its loop, or returns; or it is the connection's turn.
LEMMA ServerSteps ==
    ASSUME IInv, IInv', Server \/ Admit \/ TurnAway
    PROVE  /\ cpc' = cpc /\ left' = left /\ link' = link /\ Open
           /\ Arrived \/ (c2s' = c2s /\ ServerAhead' < ServerAhead)
<1>1. sleft \in 0..MaxSize /\ sleft' \in 0..MaxSize /\ MaxSize \in Nat
  BY SessionAssumption, Zenon DEF IInv, Typed, TypeOK
<1>2. CASE ServerHello \/ ServerCommand
  BY <1>2, Zenon DEF ServerHello, ServerCommand, ServerIdle, client_vars, Open
<1>3. CASE ServerGetBody
  <2>1. cpc' = cpc /\ left' = left /\ link' = link /\ Open /\ c2s' = c2s
    BY <1>3, Zenon DEF ServerGetBody, ServerIdle, client_vars, Open
  <2>2. ServerAhead' < ServerAhead
    BY <1>1, <1>3 DEF ServerGetBody, ServerAt, Close, ServerAhead
  <2>. QED  BY <2>1, <2>2, Zenon
<1>4. CASE ServerPutBody
  <2>1. cpc' = cpc /\ left' = left /\ link' = link /\ Open
    BY <1>4, Zenon DEF ServerPutBody, ServerIdle, client_vars, Open
  <2>2. Arrived \/ (c2s' = c2s /\ ServerAhead' < ServerAhead)
    BY <1>1, <1>4 DEF ServerPutBody, ServerAt, Close, ServerAhead
  <2>. QED  BY <2>1, <2>2, Zenon
<1>5. CASE ServerVerdict
  <2>1. cpc' = cpc /\ left' = left /\ link' = link /\ Open /\ c2s' = c2s
    BY <1>5, Zenon DEF ServerVerdict, ServerIdle, client_vars, Open
  <2>2. ServerAhead' < ServerAhead
    <3>1. spc = "put_body" /\ spc' \in {"loop", "over"}
      BY <1>5, Zenon DEF ServerVerdict, ServerAt, Close
    <3>. QED  BY <1>1, <3>1 DEF ServerAhead
  <2>. QED  BY <2>1, <2>2
<1>6. CASE ServerLost
  <2>1. cpc' = cpc /\ left' = left /\ link' = link /\ Open /\ c2s' = c2s
    BY <1>6, Zenon DEF ServerLost, ServerIdle, client_vars, Open
  <2>2. ServerAhead' < ServerAhead
    BY <1>1, <1>6 DEF ServerLost, ServerAt, ServerAhead
  <2>. QED  BY <2>1, <2>2
<1>7. CASE Admit \/ TurnAway
  BY <1>7, SMTT(20) DEF Admit, TurnAway, ServerIdle, client_vars, Open, ServerAhead
<1>. QED  BY <1>2, <1>3, <1>4, <1>5, <1>6, <1>7, Zenon DEF Server

LEMMA ServerUses ==
    ASSUME IInv, IInv', Sizes, Sizes', Server \/ Admit \/ TurnAway
    PROVE  Ahead' < Ahead
<1>1. /\ cpc' = cpc /\ left' = left /\ link' = link /\ Open
      /\ Arrived \/ (c2s' = c2s /\ ServerAhead' < ServerAhead)
  BY ServerSteps, Zenon
<1>2. ClientAhead' = ClientAhead /\ Up' = Up
  BY <1>1, Zenon DEF ClientAhead, Up
<1>3. /\ ClientAhead \in Nat /\ ServerAhead \in Nat /\ Len(c2s) \in Nat /\ Up \in Nat
      /\ ServerAhead' \in Nat /\ Len(c2s') \in Nat
      /\ 1 <= ServerAhead /\ ServerAhead' <= MaxSize + 2
  BY <1>1, SessionAssumption DEF Sizes
<1>4. /\ Ahead = Stock(ClientAhead, Len(c2s), ServerAhead, Up)
      /\ Ahead' = Stock(ClientAhead', Len(c2s'), ServerAhead', Up')
  BY Zenon DEF Sizes, Stock
<1>5. CASE Arrived
  <2>1. Len(c2s') = Len(c2s) - 1
    BY <1>5, ArrivedFacts, Zenon DEF IInv, Typed
  <2>. QED  BY <1>2, <1>3, <1>4, <2>1, FramePays, Zenon
<1>6. CASE c2s' = c2s /\ ServerAhead' < ServerAhead
  <2>1. Len(c2s') = Len(c2s)
    BY <1>6, Zenon
  <2>2. Len(c2s') <= Len(c2s)
    BY <1>3, <2>1
  <2>3. ServerAhead' + Up < ServerAhead + Up
    <3>1. PICK s \in Nat, t \in Nat, u \in Nat : s = ServerAhead /\ t = ServerAhead' /\ u = Up
      BY <1>3, Zenon
    <3>2. t < s
      BY <1>6, <3>1, Zenon
    <3>3. t + u < s + u
      BY <3>2
    <3>. QED  BY <3>1, <3>3, Zenon
  <2>. QED  BY <1>2, <1>3, <1>4, <2>2, <2>3, CountPays, Zenon
<1>. QED  BY <1>1, <1>5, <1>6, Zenon

LEMMA NetworkUses ==
    ASSUME IInv, Sizes, Sizes', Network
    PROVE  Ahead' < Ahead
<1>1. /\ cpc' = cpc /\ left' = left /\ spc' = spc /\ sleft' = sleft
      /\ link = "up" /\ link' # "up" /\ (c2s' = c2s \/ c2s' = <<>>)
  BY Zenon DEF Network, client_vars, server_vars
<1>2. ClientAhead' = ClientAhead /\ ServerAhead' = ServerAhead /\ Up = 1 /\ Up' = 0
  BY <1>1, Zenon DEF ClientAhead, ServerAhead, Up
<1>3. /\ ClientAhead \in Nat /\ ServerAhead \in Nat /\ Len(c2s) \in Nat /\ Len(c2s') \in Nat
  BY SessionAssumption DEF Sizes
<1>4. Len(c2s') <= Len(c2s)
  <2>1. Len(<<>>) = 0
    BY Zenon
  <2>. QED  BY <1>1, <1>3, <2>1
<1>5. /\ Ahead = Stock(ClientAhead, Len(c2s), ServerAhead, Up)
      /\ Ahead' = Stock(ClientAhead', Len(c2s'), ServerAhead', Up')
  BY Zenon DEF Sizes, Stock
<1>6. ServerAhead + 0 < ServerAhead + 1
  BY <1>3
<1>. QED  BY <1>2, <1>3, <1>4, <1>5, <1>6, CountPays, Zenon

\* A run of either client against handle_client is a finite number of steps, whatever
\* the sizes, the replies, the failures and the order of the steps: no loop of either
\* program, and no exchange between them, repeats without using something up.
THEOREM NothingRepeats == Spec => NoLivelock
<1>1. IInv /\ Sizes /\ IInv' /\ Sizes' /\ [Next]_vars => [Ahead' < Ahead]_vars
  BY ClientUses, ServerUses, NetworkUses, Zenon DEF Next
<1>. QED  BY <1>1, InvInit, InvNext, AheadFacts, PTL DEF Spec, NoLivelock

=============================================================================

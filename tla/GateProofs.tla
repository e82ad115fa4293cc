----------------------------- MODULE GateProofs -----------------------------
(***************************************************************************)
(* The permits of the accept loop are accounted for, for any number of     *)
(* connections and any cap.                                                *)
(***************************************************************************)
EXTENDS Gate, FiniteSetTheorems, TLAPS

\* Permits in somebody's hands.
Taken == Cardinality(Serving) + (IF pc = "start" THEN 1 ELSE 0)

\* The main thread has a connection in hand between accept and start, and it is not
\* one that already has a session; at accept it has one only if its thread failed.
HandInv ==
    /\ pc # "accept" => cli_sock # None
    /\ cli_sock # None =>
          conn[cli_sock] = IF pc = "accept" THEN "stranded" ELSE "waiting"
    /\ \A i \in DOMAIN backlog : conn[backlog[i]] = "waiting" /\ backlog[i] # cli_sock
    /\ \A i, j \in DOMAIN backlog : backlog[i] = backlog[j] => i = j

\* Permits left, taken and lost.
Total == gate + Taken + failed

Inv == TypeOK /\ HandInv /\ Total = MAX_CLIENTS

-----------------------------------------------------------------------------

\* A set of connections is finite, and one connection more or less changes its
\* size by one.
LEMMA ServingFacts ==
    ASSUME NEW S \in SUBSET Conn
    PROVE  /\ Cardinality(S) \in Nat
           /\ \A c \in Conn \ S : Cardinality(S \cup {c}) = Cardinality(S) + 1
           /\ \A c \in S : Cardinality(S \ {c}) = Cardinality(S) - 1
<1>1. IsFiniteSet(S)
  BY GateAssumption, FS_Subset, Zenon
<1>2. Cardinality(S) \in Nat
  BY <1>1, FS_CardinalityType, Zenon
<1>3. \A c \in Conn \ S : Cardinality(S \cup {c}) = Cardinality(S) + 1
  BY <1>1, FS_AddElement, Zenon
<1>4. \A c \in S : Cardinality(S \ {c}) = Cardinality(S) - 1
  BY <1>1, FS_RemoveElement, Zenon
<1>. QED
  BY <1>2, <1>3, <1>4, Zenon

\* Before the first connection all permits are at the gate.
LEMMA InvInit == Init => Inv
<1>. SUFFICES ASSUME Init PROVE Inv
  BY Zenon
<1>1. Serving = {}
  BY Zenon DEF Init, Serving
<1>2. Total = MAX_CLIENTS
  BY <1>1, GateAssumption, FS_EmptySet DEF Init, Total, Taken
<1>3. TypeOK /\ HandInv
  BY GateAssumption DEF Init, TypeOK, HandInv, ConnState
<1>. QED
  BY <1>2, <1>3, Zenon DEF Inv

\* The connection the main thread holds and the ones in the backlog are waiting,
\* and each is in one place only.
LEMMA HandStep == TypeOK /\ HandInv /\ [Next]_vars => HandInv'
<1>. SUFFICES ASSUME TypeOK, HandInv, [Next]_vars PROVE HandInv'
  BY Zenon
<1>0. /\ backlog \in Seq(Conn)
      /\ conn \in [Conn -> ConnState]
      /\ None \notin Conn
  BY GateAssumption, Zenon DEF TypeOK
<1>01. /\ DOMAIN backlog = 1..Len(backlog) /\ Len(backlog) \in Nat
       /\ \A i \in DOMAIN backlog : backlog[i] \in Conn
  BY <1>0
<1>1. CASE Accept
  <2>1. 1 \in DOMAIN backlog
    BY <1>0, <1>01, <1>1 DEF Accept
  <2>2. /\ cli_sock' = backlog[1] /\ pc' = "acquire" /\ backlog' = Tail(backlog)
        /\ \A i \in DOMAIN backlog : conn'[backlog[i]] = "waiting"
    <3>1. cli_sock' = backlog[1] /\ pc' = "acquire" /\ backlog' = Tail(backlog)
      BY <1>0, <1>1 DEF Accept, Rebind
    <3>2. \A i \in DOMAIN backlog : conn'[backlog[i]] = conn[backlog[i]]
      BY <1>01, <1>1, Zenon DEF Accept, Rebind, HandInv
    <3>. QED  BY <3>1, <3>2, Zenon DEF HandInv
  <2>3. DOMAIN backlog' = 1..(Len(backlog) - 1)
    BY <1>0, <1>1 DEF Accept
  <2>4. \A i \in DOMAIN backlog' : i \in Nat \ {0} /\ i + 1 \in DOMAIN backlog
    BY <1>01, <2>3
  <2>5. \A i \in DOMAIN backlog' : backlog'[i] = backlog[i + 1]
    BY <1>0, <1>1, <2>3, <2>4 DEF Accept
  <2>6. \A i, j \in DOMAIN backlog' : i + 1 # 1 /\ (i + 1 = j + 1 => i = j)
    BY <2>4
  <2>. QED
    BY <1>0, <1>01, <2>1, <2>2, <2>4, <2>5, <2>6 DEF HandInv
<1>2. ASSUME NEW c \in Conn, Connect(c) PROVE HandInv'
  <2>0. conn[c] = "idle" /\ cli_sock' = cli_sock /\ pc' = pc /\ cli_sock # c
    BY <1>0, <1>2, Zenon DEF Connect, HandInv
  <2>1. \A i \in DOMAIN backlog : backlog[i] # c
    BY <2>0, Zenon DEF HandInv
  <2>2. CASE backlog' = backlog /\ conn' = [conn EXCEPT ![c] = "turned away"]
    <3>1. \A d \in Conn : d # c => conn'[d] = conn[d]
      BY <1>0, <2>2, Zenon
    <3>2. cli_sock # None => cli_sock \in Conn
      BY Zenon DEF TypeOK
    <3>. QED
      BY <1>01, <2>0, <2>1, <2>2, <3>1, <3>2, Zenon DEF HandInv
  <2>3. CASE backlog' = Append(backlog, c) /\ conn' = [conn EXCEPT ![c] = "waiting"]
    <3>1. \A i \in DOMAIN backlog' : \/ i \in DOMAIN backlog /\ backlog'[i] = backlog[i]
                                     \/ i = Len(backlog) + 1 /\ backlog'[i] = c
      BY <1>0, <1>01, <2>3
    <3>2. conn'[c] = "waiting" /\ \A d \in Conn : d # c => conn'[d] = conn[d]
      BY <1>0, <2>3, Zenon
    <3>3. cli_sock # None => cli_sock \in Conn
      BY DEF TypeOK
    <3>4. /\ pc' # "accept" => cli_sock' # None
          /\ cli_sock' # None =>
                conn'[cli_sock'] = IF pc' = "accept" THEN "stranded" ELSE "waiting"
      BY <2>0, <3>2, <3>3, Zenon DEF HandInv
    <3>5. \A i \in DOMAIN backlog' : conn'[backlog'[i]] = "waiting" /\ backlog'[i] # cli_sock'
      BY <1>01, <2>0, <2>1, <3>1, <3>2 DEF HandInv
    <3>6. \A i, j \in DOMAIN backlog' : backlog'[i] = backlog'[j] => i = j
      BY <2>1, <3>1, Zenon DEF HandInv
    <3>. QED
      BY <3>4, <3>5, <3>6, Zenon DEF HandInv
  <2>. QED
    BY <1>2, <2>2, <2>3, Zenon DEF Connect
<1>3. CASE Acquire \/ UNCHANGED vars
  BY <1>3, Zenon DEF Acquire, vars, HandInv
<1>4. CASE Start \/ StartFails
  <2>1. /\ \/ cli_sock' = None
           \/ cli_sock' = cli_sock /\ cli_sock \in Conn /\ conn'[cli_sock] = "stranded"
        /\ pc' = "accept" /\ backlog' = backlog
        /\ \A d \in Conn : d # cli_sock => conn'[d] = conn[d]
    BY <1>0, <1>4, Zenon DEF Start, StartFails, HandInv, TypeOK
  <2>. QED
    BY <1>0, <1>01, <2>1, SMTT(20) DEF HandInv
<1>5. ASSUME NEW c \in Conn, End(c) \/ Again(c) PROVE HandInv'
  <2>1. /\ cli_sock' = cli_sock /\ pc' = pc /\ backlog' = backlog /\ conn[c] \notin {"waiting", "stranded"}
        /\ \A d \in Conn : d # c => conn'[d] = conn[d]
    BY <1>0, <1>5, Zenon DEF End, Again
  <2>2. cli_sock # None => cli_sock \in Conn
    BY DEF TypeOK
  <2>. QED
    BY <1>01, <2>1, <2>2, Zenon DEF HandInv
<1>. QED
  BY <1>1, <1>2, <1>3, <1>4, <1>5, Zenon DEF Next, MainLoop

\* Every step keeps the number of permits left, taken and lost: what acquire takes,
\* a session's end gives back or a failed start loses.
LEMMA TotalStep ==
    ASSUME TypeOK, HandInv, [Next]_vars
    PROVE  Total' = Total
<1>. DEFINE n == Cardinality(Serving)
            t == IF pc = "start" THEN 1 ELSE 0
<1>0. Serving \in SUBSET Conn /\ Serving' \in SUBSET Conn
  BY Zenon DEF Serving
<1>01. n \in Nat /\ n' \in Nat /\ gate \in Nat /\ failed \in Nat /\ conn \in [Conn -> ConnState]
  BY <1>0, ServingFacts, GateAssumption DEF TypeOK
<1>02. Total = gate + (n + t) + failed /\ Total' = gate' + (n' + t') + failed'
  BY Zenon DEF Total, Taken
<1>. HIDE DEF n
<1>1. CASE Accept \/ UNCHANGED vars
  <2>1. \A c \in Conn : conn'[c] = "session" <=> conn[c] = "session"
    <3>1. pc = "accept" /\ cli_sock # None => conn[cli_sock] = "stranded"
      BY DEF HandInv
    <3>. QED  BY <1>1, <3>1, GateAssumption DEF Accept, Rebind, vars
  <2>2. gate' = gate /\ t' = t /\ Serving' = Serving /\ failed' = failed
    BY <1>1, <2>1, Zenon DEF Accept, vars, Serving
  <2>. QED
    BY <2>2, Zenon DEF Total, Taken
<1>2. CASE Acquire
  <2>1. gate' = gate - 1 /\ t = 0 /\ t' = 1 /\ failed' = failed
    BY <1>2, Zenon DEF Acquire
  <2>2. n' = n
    BY <1>2, Zenon DEF Acquire, Serving, n
  <2>. QED
    BY <1>01, <1>02, <2>1, <2>2
<1>3. CASE Start
  <2>1. cli_sock \in Conn \ Serving
    BY <1>3, GateAssumption, Zenon DEF Start, HandInv, TypeOK, Serving
  <2>2. Serving' = Serving \cup {cli_sock}
    BY <1>01, <1>3, <2>1, Zenon DEF Start, Serving
  <2>3. n' = n + 1
    BY <1>0, <2>1, <2>2, ServingFacts, Zenon DEF n
  <2>4. gate' = gate /\ t = 1 /\ t' = 0 /\ failed' = failed
    BY <1>3, Zenon DEF Start
  <2>. QED
    BY <1>01, <1>02, <2>3, <2>4
<1>4. CASE StartFails
  <2>1. cli_sock \in Conn \ Serving
    BY <1>4, GateAssumption, Zenon DEF StartFails, HandInv, TypeOK, Serving
  <2>2. Serving' = Serving
    BY <1>01, <1>4, <2>1, Zenon DEF StartFails, Serving
  <2>3. n' = n
    BY <2>2, Zenon DEF n
  <2>4. gate' = gate /\ t = 1 /\ t' = 0 /\ failed' = failed + 1
    BY <1>4, Zenon DEF StartFails
  <2>. QED
    BY <1>01, <1>02, <2>3, <2>4
<1>5. ASSUME NEW c \in Conn, Connect(c) \/ Again(c) PROVE Total' = Total
  <2>1. Serving' = Serving /\ pc' = pc /\ gate' = gate /\ failed' = failed
    BY <1>01, <1>5, Zenon DEF Connect, Again, Serving
  <2>. QED
    BY <2>1, Zenon DEF Total, Taken
<1>6. ASSUME NEW c \in Conn, End(c) PROVE Total' = Total
  <2>1. c \in Serving /\ Serving' = Serving \ {c}
    BY <1>01, <1>6, Zenon DEF End, Serving
  <2>2. n' = n - 1
    BY <1>0, <2>1, ServingFacts, Zenon DEF n
  <2>3. gate' = gate + 1 /\ t' = t /\ t \in Nat /\ failed' = failed
    BY <1>6, Zenon DEF End
  <2>. QED
    BY <1>01, <1>02, <2>2, <2>3
<1>. QED
  BY <1>1, <1>2, <1>3, <1>4, <1>5, <1>6, Zenon DEF Next, MainLoop

\* The invariant is preserved by every step of the accept loop and the sessions.
LEMMA InvStep == Inv /\ [Next]_vars => Inv'
<1>. SUFFICES ASSUME Inv, [Next]_vars PROVE Inv'
  BY Zenon
<1>. USE GateAssumption
<1>1. HandInv'
  BY HandStep, Zenon DEF Inv
<1>2. Total' = MAX_CLIENTS
  BY TotalStep, Zenon DEF Inv
<1>. DEFINE Typed == /\ backlog \in Seq(Conn) /\ Len(backlog) <= Backlog
                     /\ cli_sock \in Conn \cup {None}
                     /\ pc \in {"accept", "acquire", "start"}
                     /\ conn \in [Conn -> ConnState]
                     /\ gate \in Nat /\ failed \in Nat
<1>3. Typed'
  <2>0. /\ backlog \in Seq(Conn) /\ Len(backlog) \in Nat /\ Len(backlog) <= Backlog
        /\ cli_sock \in Conn \cup {None}
        /\ pc \in {"accept", "acquire", "start"}
        /\ conn \in [Conn -> ConnState]
        /\ gate \in Nat /\ failed \in Nat
    BY DEF Inv, TypeOK
  <2>1. CASE Accept
    <3>1. backlog # <<>> /\ backlog' = Tail(backlog) /\ cli_sock' = Head(backlog)
      BY <2>1, Zenon DEF Accept, Rebind
    <3>3. conn' \in [Conn -> ConnState]
      BY <2>0, <2>1, Zenon DEF Accept, Rebind, ConnState
    <3>2. backlog' \in Seq(Conn) /\ Len(backlog') = Len(backlog) - 1 /\ cli_sock' \in Conn
      BY <2>0, <3>1
    <3>. QED
      BY <2>0, <2>1, <3>2, <3>3 DEF Accept
  <2>2. CASE Acquire \/ Start \/ StartFails \/ UNCHANGED vars
    <3>1. /\ backlog' = backlog /\ cli_sock' \in {cli_sock, None}
          /\ pc' \in {pc, "accept", "acquire", "start"}
          /\ gate' = gate \/ (gate > 0 /\ gate' = gate - 1)
          /\ failed' = failed \/ failed' = failed + 1
      BY <2>2, Zenon DEF Acquire, Start, StartFails, vars
    <3>2. conn' \in [Conn -> ConnState]
      BY <2>0, <2>2, Zenon DEF Acquire, Start, StartFails, vars, ConnState
    <3>. QED
      BY <2>0, <3>1, <3>2
  <2>3. ASSUME NEW c \in Conn, Connect(c) PROVE Typed'
    <3>1. conn' \in [Conn -> ConnState]
      BY <2>0, <2>3, Zenon DEF Connect, ConnState
    <3>2. backlog' = backlog \/ (Len(backlog) < Backlog /\ backlog' = Append(backlog, c))
      BY <2>3, Zenon DEF Connect
    <3>3. /\ Append(backlog, c) \in Seq(Conn)
          /\ Len(Append(backlog, c)) = Len(backlog) + 1
      BY <2>0
    <3>4. backlog' \in Seq(Conn) /\ Len(backlog') <= Backlog
      BY <2>0, <3>2, <3>3
    <3>. QED
      BY <2>0, <2>3, <3>1, <3>4, Zenon DEF Connect
  <2>4. ASSUME NEW c \in Conn, End(c) \/ Again(c) PROVE Typed'
    <3>1. conn' \in [Conn -> ConnState]
      BY <2>0, <2>4, Zenon DEF End, Again, ConnState
    <3>2. gate' = gate \/ gate' = gate + 1
      BY <2>4, Zenon DEF End, Again
    <3>3. gate' \in Nat
      BY <2>0, <3>2
    <3>. QED
      BY <2>0, <2>4, <3>1, <3>3, Zenon DEF End, Again
  <2>. QED
    BY <2>1, <2>2, <2>3, <2>4, Zenon DEF Next, MainLoop
<1>4. gate' <= MAX_CLIENTS
  <2>1. Cardinality(Serving') \in Nat
    BY ServingFacts, Zenon DEF Serving
  <2>. QED
    BY <1>2, <1>3, <2>1 DEF Total, Taken
<1>. QED
  BY <1>1, <1>2, <1>3, <1>4 DEF Inv, TypeOK

\* The accept loop keeps its types: in particular the semaphore's count stays
\* between 0 and MAX_CLIENTS and the backlog within its limit.
THEOREM TypeCorrect == Spec => []TypeOK
<1>1. Inv => TypeOK
  BY Zenon DEF Inv
<1>. QED
  BY <1>1, InvInit, InvStep, PTL DEF Spec

\* The semaphore caps the sessions at MAX_CLIENTS, thread failures included.
THEOREM Capped == Spec => []SessionsCapped
<1>1. Inv => SessionsCapped
  BY ServingFacts, GateAssumption DEF Inv, Total, Taken, TypeOK, SessionsCapped, Serving
<1>. QED
  BY <1>1, InvInit, InvStep, PTL DEF Spec

\* No permit is lost or made up by the ways sessions start and end: _serve's finally
\* clause gives back what the main thread took, and only a failed start loses it.
THEOREM PermitsCorrect == Spec => []PermitsExact
<1>1. Inv => PermitsExact
  <2>1. Inv => Cardinality(Serving) \in Nat /\ gate \in Nat /\ failed \in Nat
    BY ServingFacts, GateAssumption DEF Inv, TypeOK, Serving
  <2>. QED
    BY <2>1 DEF Inv, Total, Taken, PermitsExact
<1>. QED
  BY <1>1, InvInit, InvStep, PTL DEF Spec

=============================================================================

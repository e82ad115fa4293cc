-------------------------------- MODULE Gate --------------------------------
(***************************************************************************)
(* The accept loop (retriever/server.py: start_server, _serve): one main   *)
(* thread accepts a connection, takes a permit of the semaphore that caps  *)
(* the sessions, and hands the connection to a thread of its own, which    *)
(* gives the permit back whatever way its session ends.                    *)
(***************************************************************************)
EXTENDS Integers, Sequences, FiniteSets

CONSTANTS
    Conn,          \* connections clients make
    MAX_CLIENTS,
    Backlog,       \* the listen backlog (64 in the code)
    None

ASSUME GateAssumption ==
    /\ MAX_CLIENTS \in Nat \ {0} /\ Backlog \in Nat \ {0}
    /\ IsFiniteSet(Conn) /\ None \notin Conn

VARIABLES
    backlog,       \* connections the kernel holds for accept, in order
    cli_sock,      \* the connection in the main thread's hands, or None
    pc,            \* where the main thread is
    gate,          \* permits left
    conn,          \* the state of each connection, seen from its client
    failed         \* threads that failed to start so far

vars == <<backlog, cli_sock, pc, gate, conn, failed>>

\* Stranded: no thread could be started for it, and it is not closed yet.
ConnState == {"idle", "waiting", "session", "stranded", "over", "turned away"}

Serving == {c \in Conn : conn[c] = "session"}

Init ==
    /\ backlog = <<>>
    /\ cli_sock = None
    /\ pc = "accept"
    /\ gate = MAX_CLIENTS
    /\ conn = [c \in Conn |-> "idle"]
    /\ failed = 0

\* The kernel completes the handshake while there is room in the backlog.
Connect(c) ==
    /\ conn[c] = "idle"
    /\ \/ /\ Len(backlog) < Backlog
          /\ backlog' = Append(backlog, c)
          /\ conn' = [conn EXCEPT ![c] = "waiting"]
       \/ /\ Len(backlog) >= Backlog
          /\ conn' = [conn EXCEPT ![c] = "turned away"]
          /\ UNCHANGED backlog
    /\ UNCHANGED <<cli_sock, pc, gate, failed>>

\* The variable of start_server is bound to another socket; one whose thread failed
\* to start has then lost its last reference, and is closed.
Rebind(c) ==
    /\ cli_sock' = c
    /\ conn' = [d \in Conn |-> IF d = cli_sock THEN "over" ELSE conn[d]]

\* Mutant: the newest connection is taken first.
AcceptNewest ==
    /\ pc = "accept"
    /\ backlog # <<>>
    /\ Rebind(backlog[Len(backlog)])
    /\ backlog' = SubSeq(backlog, 1, Len(backlog) - 1)
    /\ pc' = "acquire"
    /\ UNCHANGED <<gate, failed>>

Accept ==
    /\ pc = "accept"
    /\ backlog # <<>>
    /\ Rebind(Head(backlog))
    /\ backlog' = Tail(backlog)
    /\ pc' = "acquire"
    /\ UNCHANGED <<gate, failed>>

\* Mutant: a failed, non-blocking acquire is not noticed.
AcquireAnyway ==
    /\ pc = "acquire"
    /\ gate' = IF gate > 0 THEN gate - 1 ELSE gate
    /\ pc' = "start"
    /\ UNCHANGED <<backlog, cli_sock, conn, failed>>

Acquire ==
    /\ pc = "acquire"
    /\ gate > 0
    /\ gate' = gate - 1
    /\ pc' = "start"
    /\ UNCHANGED <<backlog, cli_sock, conn, failed>>

\* From here on the socket is the session thread's, which closes it.
Start ==
    /\ pc = "start"
    /\ conn' = [conn EXCEPT ![cli_sock] = "session"]
    /\ cli_sock' = None
    /\ pc' = "accept"
    /\ UNCHANGED <<backlog, gate, failed>>

\* Thread.start raises: the error is logged and the loop goes on.  The socket stays
\* in the variable, open; the permit stays taken.
StartFails ==
    /\ pc = "start"
    /\ conn' = [conn EXCEPT ![cli_sock] = "stranded"]
    /\ pc' = "accept"
    /\ failed' = failed + 1
    /\ UNCHANGED <<backlog, cli_sock, gate>>

\* Mutant: the permit is given back only when handle_client returns normally.
EndSometimesKeeps(c) ==
    /\ conn[c] = "session"
    /\ conn' = [conn EXCEPT ![c] = "over"]
    /\ gate' \in {gate, gate + 1}
    /\ UNCHANGED <<backlog, cli_sock, pc, failed>>

\* Mutant: the gate is released by handle_client and again by _serve.
EndReleasesTwice(c) ==
    /\ conn[c] = "session"
    /\ conn' = [conn EXCEPT ![c] = "over"]
    /\ gate' = gate + 2
    /\ UNCHANGED <<backlog, cli_sock, pc, failed>>

\* handle_client returns or raises; _serve's finally clause releases the gate.
End(c) ==
    /\ conn[c] = "session"
    /\ conn' = [conn EXCEPT ![c] = "over"]
    /\ gate' = gate + 1
    /\ UNCHANGED <<backlog, cli_sock, pc, failed>>

\* The client is done with a connection that is over, and may make another.
Again(c) ==
    /\ conn[c] \in {"over", "turned away"}
    /\ conn' = [conn EXCEPT ![c] = "idle"]
    /\ UNCHANGED <<backlog, cli_sock, pc, gate, failed>>

MainLoop == Accept \/ Acquire \/ Start \/ StartFails

Next == MainLoop \/ \E c \in Conn : Connect(c) \/ End(c) \/ Again(c)

Spec == Init /\ [][Next]_vars

\* The main thread runs, and every session ends: a silent peer is timed out, and
\* the others are taken to leave some day, which the code does not enforce.
FairSpec == Spec /\ WF_vars(MainLoop) /\ \A c \in Conn : WF_vars(End(c))

-----------------------------------------------------------------------------

TypeOK ==
    /\ backlog \in Seq(Conn) /\ Len(backlog) <= Backlog
    /\ cli_sock \in Conn \cup {None}
    /\ pc \in {"accept", "acquire", "start"}
    /\ gate \in 0..MAX_CLIENTS
    /\ conn \in [Conn -> ConnState]
    /\ failed \in Nat

\* Permits are neither lost nor made up by the ways sessions start and end: those
\* not left at the gate are with a session, with the thread about to start, or
\* went, one each, with a thread that failed to start.
PermitsExact ==
    gate + Cardinality(Serving) + (IF pc = "start" THEN 1 ELSE 0) + failed = MAX_CLIENTS

\* A connection that got into the backlog has its turn, which is that start_server
\* starts a thread for it or fails to, unless failures have used up every permit.
WaitingServed ==
    \A c \in Conn :
        conn[c] = "waiting" ~> conn[c] # "waiting" \/ failed = MAX_CLIENTS

\* Never more than MAX_CLIENTS sessions, thread failures or not.
SessionsCapped == Cardinality(Serving) <= MAX_CLIENTS

\* The main thread waits at the gate only while every slot is in use: further
\* connections queue until a slot frees, and a slot that is free is taken.
WaitsOnlyForSlot ==
    pc = "acquire" /\ gate = 0 => Cardinality(Serving) = MAX_CLIENTS

=============================================================================

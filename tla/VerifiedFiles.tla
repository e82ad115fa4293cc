---------------------------- MODULE VerifiedFiles ----------------------------
(***************************************************************************)
(* What a GET promises the user of a client (docs/PROTOCOL.md, "What       *)
(* integrity means here"): a local name appears at once, with a whole file *)
(* whose hash is the one the server stated and the client reports; what is *)
(* there is never replaced, changed or removed by a later download.        *)
(***************************************************************************)

CONSTANTS Dest, Digest, None, Sha(_)

VARIABLES
    files,    \* local name -> content, or None
    told      \* local name -> hash reported as verified, or None

Init ==
    /\ files = [d \in Dest |-> None]
    /\ told = [d \in Dest |-> None]

\* The file appears whole: its content is whatever files' holds.
Deliver(d) ==
    /\ files[d] = None /\ told[d] = None
    /\ files' = [files EXCEPT ![d] = files'[d]]
    /\ Sha(files'[d]) \in Digest
    /\ told' = [told EXCEPT ![d] = Sha(files'[d])]

Next == \E d \in Dest : Deliver(d)

Spec == Init /\ [][Next]_<<files, told>>

=============================================================================

---------------------------- MODULE WriteOnceStore ----------------------------
(***************************************************************************)
(* What the server promises about uploads (docs/PROTOCOL.md, "What         *)
(* integrity means here" and "Publication and concurrency"): a name is     *)
(* published at most once, atomically, with content that matches a hash    *)
(* somebody stated for it; published content never changes and never       *)
(* disappears; the one acknowledgement of a name states the hash of its    *)
(* content.                                                                *)
(***************************************************************************)
EXTENDS Integers, Sequences

CONSTANTS LegalName, Digest, None, Sha(_)

VARIABLES
    store,    \* name -> content, or None
    acked     \* name -> hashes acknowledged so far

Init ==
    /\ store = [n \in LegalName |-> None]
    /\ acked = [n \in LegalName |-> <<>>]

\* The content appears whole: the new content is whatever store' holds.
Publish(n) ==
    /\ store[n] = None
    /\ store' = [store EXCEPT ![n] = store'[n]]
    /\ Sha(store'[n]) \in Digest
    /\ UNCHANGED acked

Acknowledge(n) ==
    /\ store[n] # None
    /\ acked[n] = <<>>
    /\ acked' = [acked EXCEPT ![n] = <<Sha(store[n])>>]
    /\ UNCHANGED store

Next == \E n \in LegalName : Publish(n) \/ Acknowledge(n)

Spec == Init /\ [][Next]_<<store, acked>>

=============================================================================

------------------------------- MODULE Channel -------------------------------
(***************************************************************************)
(* What one direction of a connection promises the programs that read      *)
(* frames from it (docs/PROTOCOL.md, "Frame header"), and what module      *)
(* Session takes for granted: whole messages, each once, in the order in   *)
(* which they were written.  A message is delivered only if both ends      *)
(* speak the same version and its payload is under the cap.  The reader    *)
(* gives up only on a message that is not, or when the connection ends,    *)
(* and then for good.                                                      *)
(***************************************************************************)
EXTENDS Integers, Sequences

CONSTANT Fits(_)     \* whether a message is under the cap

VARIABLES
    sent,     \* messages written, or begun
    got,      \* messages read
    agree,    \* both ends speak the same version
    cut,      \* the connection has ended
    failed    \* the reader has given up

Init ==
    /\ sent = <<>> /\ got = <<>>
    /\ agree \in BOOLEAN /\ cut = FALSE /\ failed = FALSE

InTransit == Len(got) < Len(sent)

Due == sent[Len(got) + 1]

\* Any message may be written: it is whatever sent' ends with.
Write ==
    /\ ~cut
    /\ Len(sent') = Len(sent) + 1 /\ SubSeq(sent', 1, Len(sent)) = sent
    /\ UNCHANGED <<got, agree, cut, failed>>

Deliver ==
    /\ ~failed /\ InTransit
    /\ agree /\ Fits(Due)
    /\ got' = Append(got, Due)
    /\ UNCHANGED <<sent, agree, cut, failed>>

End ==
    /\ ~cut /\ cut' = TRUE
    /\ UNCHANGED <<sent, got, agree, failed>>

GiveUp ==
    /\ ~failed /\ failed' = TRUE
    /\ cut \/ (InTransit /\ ~(agree /\ Fits(Due)))
    /\ UNCHANGED <<sent, got, agree, cut>>

Next == Write \/ Deliver \/ End \/ GiveUp

Spec == Init /\ [][Next]_<<sent, got, agree, cut, failed>>

=============================================================================

------------------------------ MODULE MCUpload ------------------------------
(***************************************************************************)
(* Small instances of Upload for TLC.                                      *)
(***************************************************************************)
EXTENDS Upload, TLC

CONSTANTS a, bad, long

MCName == {a, bad}
MCLegalName == {a}
\* A second legal name, spelled like the partial of the first.
MCPartialLikeName == {a, <<a, "t1">>}
\* A legal name whose partial's name is longer than a file name may be.
MCLongName == {long}
MCOddName == {a, long}
MCDigest == {"d1", "d2"}
MCToken == {"t1", "t2"}
MCTokenOf == [d1 |-> "t1", d2 |-> "t2"]
MCOneToken == [d1 |-> "t1"]
\* One file of each stated hash, of different sizes; the rest hash to neither.
MCSha(content) ==
    CASE content = <<0>> -> "d1" [] content = <<0, 1>> -> "d2" [] OTHER -> "d3"

Symmetry == Permutations(Session) \cup Permutations(Inode)

\* States that differ only in what freed inodes used to hold are the same.
View ==
    <<up, dir, [i \in Inode \ FreeInode |-> data[i]], in_flight, in_flight_lock,
      pc, req, fd, written, buf, reply, acked>>

=============================================================================

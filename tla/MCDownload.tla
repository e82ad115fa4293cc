----------------------------- MODULE MCDownload -----------------------------
(***************************************************************************)
(* Small instances of Download for TLC.                                    *)
(***************************************************************************)
EXTENDS Download

CONSTANTS py1, c1, name, other

MCKind == [c \in Client |-> IF c = py1 THEN "py" ELSE "c"]
Long == <<0, 1, 0, 1>>
Short == <<1, 0>>
Pair == <<0, 1>>
Single == <<1>>
MCContent == {Long, Short}
MCOneContent == {Long}
MCPairContent == {Pair}
MCSmallContent == {Pair, Single}
MCSha(x) ==
    CASE x \in Content \cap {Long, Pair} -> "d1"
      [] x \in Content \cap {Short, Single} -> "d2"
      [] OTHER -> "d3"
MCExtends == {<<name, other>>}
MCTokenOf == [h \in Digest |-> IF h = "d1" THEN "t1" ELSE "t2"]

\* States that differ only in what freed inodes used to hold are the same.
View ==
    <<store, dir, [i \in Inode \ Unused |-> data[i]], pc, job, existing, offset,
      meta, wire, fd, remaining, buf, claimed, weather>>

\* What the system does in any weather it can do in the worst: safety needs no other.
Worst == weather = IF Unstable THEN "rough" ELSE "mild"

=============================================================================

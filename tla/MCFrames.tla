------------------------------ MODULE MCFrames ------------------------------
\* Frames with every message of the protocol: numbers of more than one byte,
\* fields that contain zero bytes, an empty and an oversized directory listing.
EXTENDS Frames

Plain(type) == [type |-> type, form |-> "empty"]

Listing(names) == [type |-> "OK", form |-> "names", names |-> names]

Refusal(reason, text) ==
    [type |-> "ERROR", form |-> "error", reason |-> reason, text |-> text]

MCRequests ==
    { Plain("HELLO"), Plain("LIST"), Plain("QUIT"),
      [type |-> "GET", form |-> "get", offset |-> 66051, token |-> <<9, 0>>, name |-> <<97>>],
      [type |-> "PUT", form |-> "put", size |-> 258, digest |-> <<0, 255, 9>>, name |-> <<97, 46>>] }

MCReplies ==
    { Plain("OK"), [type |-> "OK", form |-> "resume", offset |-> 65792],
      Listing(<<>>), Listing(<< <<97>>, <<98, 99>> >>),
      Listing(<< [i \in 1..6 |-> 97], [i \in 1..6 |-> 98] >>),
      Refusal(3, <<>>), Refusal(8, <<104, 105>>) }

=============================================================================

---------------------------- MODULE MCSegTransfer ----------------------------
(***************************************************************************)
(* Instances of SegTransfer for TLC.                                       *)
(***************************************************************************)
EXTENDS SegTransfer

\* Nobody else publishes; the network loses a packet.
OneVersion == [counts |-> <<4>>, others |-> {}, losses |-> 1]

\* A second version replaces the first.
TwoVersions == [counts |-> <<2, 1>>, others |-> {}, losses |-> 0]

\* So it does, and other producers' Data is in the store: an object in one
\* packet, and a segment without a FinalBlockId.
Mixed == [TwoVersions EXCEPT !.others =
            {[ver |-> 1, seg |-> Absent, from |-> 1, last |-> Absent],
             [ver |-> 1, seg |-> 1, from |-> 1, last |-> Absent]}]

\* A packet of another producer names a segment beyond its FinalBlockId.
Rogue == [counts |-> <<3>>, losses |-> 0,
          others |-> {[ver |-> 1, seg |-> 2, from |-> 1, last |-> 1]}]

\* Its FinalBlockId is more than there is room for, or as large as can be.
Boundless(last) == [counts |-> <<2>>, losses |-> 0,
                    others |-> {[ver |-> 1, seg |-> 0, from |-> 1, last |-> last]}]

All == {OneVersion, Mixed, Rogue, Boundless(Room), Boundless(Word - 1)}
OnlyOne == {OneVersion}
OnlyTwo == {TwoVersions}
===============================================================================

----------------------------- MODULE MCPipeline -----------------------------
(* Two peers, of which one is reported on with two different flags and so   *)
(* has two tables; two prefixes and two paths; and messages of each kind,   *)
(* with those that cannot be parsed.                                        *)
EXTENDS Pipeline, TLC

CONSTANTS peer1, peer1Post, peer2, x, y, pathA, pathB, session1, session2

tlv(t, n, fits) == [type |-> t, octets |-> n, fits |-> fits]
open(t) == [whole |-> TRUE, version |-> 4, type |-> t]

RM(p, announced, path, withdrawn, attribute) ==
    [type |-> Route_Monitoring, peer |-> p,
     update |-> [prefixes |-> announced, path |-> path,
                 withdrawn_prefixes |-> withdrawn, attribute |-> attribute]]
PU(p, opens, tlvs, data) ==
    [type |-> Peer_Up, peer |-> p, opens |-> opens, tlvs |-> tlvs, data |-> data]
SR(p, n, tlvs) ==
    [type |-> Statistics_Report, peer |-> p, stats_count |-> n, tlvs |-> tlvs]
PD(p, n) == [type |-> Peer_Down, peer |-> p, octets |-> n]

Rest == [type |-> -1]

Good == {
    <<[type |-> Initiation, tlvs |-> <<tlv(1, 9, TRUE), tlv(2, 5, TRUE), tlv(0, 3, TRUE)>>]>>,
    <<PU(peer1, <<open(1), open(1)>>, << >>, session1)>>,
    <<PU(peer1, <<open(1), open(1)>>, <<tlv(0, 3, TRUE)>>, session2)>>,
    <<RM(peer1, {x, y}, pathA, {}, "all")>>,
    <<RM(peer1Post, {x}, pathB, {}, "all")>>,
    <<RM(peer1, {}, pathA, {y}, "some")>>,
    <<RM(peer2, {x}, pathB, {x, y}, "all"), RM(peer1, {y}, pathB, {x}, "all")>>,
    <<RM(peer2, {}, pathA, {}, "none"), PD(peer1, 1)>>,
    <<SR(peer2, 2, <<tlv(0, 4, TRUE), tlv(7, 8, TRUE)>>),
      PU(peer2, <<open(1), open(1)>>, << >>, session2)>>}

Bad == {
    <<RM(peer2, {x}, pathA, {}, "all"), RM(peer1, {x}, pathA, {}, "unreadable")>>,
    <<RM(peer2, {y}, pathA, {x}, "some"), RM(peer1, {x}, pathA, {}, "all")>>,
    <<SR(peer1, 2, <<tlv(0, 4, TRUE), tlv(0, 4, TRUE)>>)>>,
    <<PD(peer1, 1), SR(peer1, 0, << >>)>>,
    <<SR(peer1, 1, <<tlv(0, 2, TRUE)>>)>>,
    <<PD(peer2, 1), PD(peer1, 0)>>,
    <<PU(peer1, <<open(1), open(2)>>, << >>, session1)>>,
    <<PU(peer1, <<open(1), open(1)>>, <<tlv(0, 3, FALSE)>>, session1)>>,
    <<[type |-> Initiation, tlvs |-> <<tlv(1, 9, TRUE), tlv(1, 9, TRUE)>>]>>,
    <<[type |-> Termination, tlvs |-> <<tlv(1, 2, TRUE)>>]>>,
    <<PD(peer1, 1), Rest>>}

Message(format, payload, size) == [format |-> format, payload |-> payload, size |-> size]

\* Chunks of different sizes.
MCObmpMessages ==
    {Message("1.7", p, Len(p)) : p \in Good \cup Bad}
      \cup {Message("1.7", <<RM(peer1, {x}, pathB, {y}, "all")>>, 3),
            Message("text", << >>, 2)}
=============================================================================

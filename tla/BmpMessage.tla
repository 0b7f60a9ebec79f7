----------------------------- MODULE BmpMessage -----------------------------
(***************************************************************************)
(* BMP_message of bmpparse.py: which messages its constructor makes into   *)
(* an object, and which raise.  A message is a record; the information     *)
(* fields that it ends in are its tlvs, each with a type, a number of      *)
(* octets and whether so many are there.  A record of type -1 is the rest   *)
(* of some bytes in which get_next finds no message.                       *)
(***************************************************************************)
EXTENDS Integers, Sequences, FiniteSets

Route_Monitoring == 0
Statistics_Report == 1
Peer_Down == 2
Peer_Up == 3
Initiation == 4
Termination == 5
Route_Mirroring == 6

PerPeer == {Route_Monitoring, Statistics_Report, Peer_Down, Peer_Up, Route_Mirroring}

\* _get_tlvs raises when a field is cut, and when there is none: it returns
\* a name that only the loop binds.  A later field of the same type wins.
TlvsRead(tlvs) == tlvs # << >> /\ \A i \in DOMAIN tlvs : tlvs[i].fits
Types(tlvs) == {tlvs[i].type : i \in DOMAIN tlvs}
LastOf(tlvs, t) == tlvs[CHOOSE i \in DOMAIN tlvs :
                           /\ tlvs[i].type = t
                           /\ \A j \in DOMAIN tlvs : tlvs[j].type = t => j <= i]

\* As many counters as announced, of different types, of 4 or of 8 octets.
ParsesStatistics(m) ==
    /\ TlvsRead(m.tlvs)
    /\ m.stats_count = Cardinality(Types(m.tlvs))
    /\ \A t \in Types(m.tlvs) : LastOf(m.tlvs, t).octets \in {4, 8}

\* bgppeel.peel: a whole BGP message, whose first octet is 4.
Peels(b) == b.whole /\ b.version = 4 /\ b.type \in 1 .. 4

\* The OPENs that the router sent and received, and information, if any.
ParsesPeerUp(m) == /\ Len(m.opens) = 2
                   /\ \A i \in 1 .. 2 : Peels(m.opens[i]) /\ m.opens[i].type = 1
                   /\ m.tlvs # << >> => TlvsRead(m.tlvs)

sysDescr == 1
sysName == 2
ParsesInitiation(m) == TlvsRead(m.tlvs) /\ {sysDescr, sysName} \subseteq Types(m.tlvs)

\* Of the other types, Termination formats a string as a number (line 105) and
\* Route Mirroring is not implemented (111): both always raise.
Parses(m) == \/ m.type = Route_Monitoring
             \/ m.type = Peer_Down /\ m.octets > 0
             \/ m.type = Statistics_Report /\ ParsesStatistics(m)
             \/ m.type = Peer_Up /\ ParsesPeerUp(m)
             \/ m.type = Initiation /\ ParsesInitiation(m)
=============================================================================

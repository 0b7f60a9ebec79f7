----------------------------- MODULE BmpContext -----------------------------
(***************************************************************************)
(* BmpContext of bmpapp.py: the peers that the router of one BMP session   *)
(* reports on, each with a table, and the dump of what was parsed.  A      *)
(* peer is known by the hash of its header, flags included, which is       *)
(* m.peer here.  Of a table (module BGPribdb) only rib is kept, with a     *)
(* path for each prefix.                                                   *)
(***************************************************************************)
EXTENDS BmpMessage, PyDict

CONSTANT None         \* no Peer_Up_data

VARIABLES peers, dump_file

New(m) == m.peer \notin DOMAIN peers

\* Mutant: the data of a repeated Peer Up replaces the first one's.
KnownUpdated(m) ==
    LET record == IF New(m) THEN [rib |-> Empty, Peer_Up_data |-> None] ELSE peers[m.peer]
    IN Put(peers, {m.peer},
           IF m.type = Peer_Up THEN [record EXCEPT !.Peer_Up_data = m.data] ELSE record)

\* The peers, with the one that a message is about (new_peer, _update_peer).
Known(m) ==
    IF New(m)
    THEN Put(peers, {m.peer},
             [rib |-> Empty,
              Peer_Up_data |-> IF m.type = Peer_Up THEN m.data ELSE None])
    ELSE peers

\* Mutant: the message is dumped only if it is a Route Monitoring message.
DumpRoutes(m) == dump_file' = IF m.type = Route_Monitoring
                              THEN Append(dump_file, m) ELSE dump_file

Dump(m) == dump_file' = Append(dump_file, m)

ParseInitiation(m) == m.type = Initiation /\ Dump(m) /\ UNCHANGED peers

\* Statistics are printed, Peer Down is not acted on, and of a Peer Up only
\* the first message of its peer leaves a trace.
ParseReport(m) == /\ m.type \in {Peer_Up, Statistics_Report, Peer_Down}
                  /\ Dump(m)
                  /\ peers' = Known(m)

\* How BGP_message takes the UPDATE (module BgpUpdate): it raises or exits
\* when that is cut, or for an unknown attribute; it flags announcements that lack
\* a mandatory attribute, or whose path is empty.
Refused(u) == u.attribute = "unreadable"
except_flag(u) == u.prefixes # {} /\ u.attribute # "all"

\* Mutant: spider.py's order.
AppliedWithdrawsFirst(rib, u) == Put(Del(rib, u.withdrawn_prefixes), u.prefixes, u.path)

\* update comes before withdraw, after which the code's dict keeps the prefix
\* with None for a path; here it is not kept.
Applied(rib, u) == Del(Put(rib, u.prefixes, u.path), u.withdrawn_prefixes)

ParseUpdate(m) ==
    /\ m.type = Route_Monitoring
    /\ ~Refused(m.update) /\ ~except_flag(m.update)
    /\ Dump(m)
    /\ peers' = [Known(m) EXCEPT ![m.peer].rib = Applied(@, m.update)]

\* The report of a flagged UPDATE names n, which is not there (line 153).
ParseFails(m) == /\ m.type = Route_Monitoring
                 /\ Refused(m.update) \/ except_flag(m.update)
                 /\ Dump(m)
                 /\ peers' = Known(m)

Parse(m) == ParseInitiation(m) \/ ParseReport(m) \/ ParseUpdate(m)

ContextInit == peers = Empty /\ dump_file = << >>
-----------------------------------------------------------------------------
(* Properties *)

\* The messages about a peer that reached its record, by their places in the
\* dump, and the last of them that says something about a prefix.
About(p) == {i \in DOMAIN dump_file : dump_file[i].type \in PerPeer /\ dump_file[i].peer = p}
Mentions(p, x) ==
    {i \in About(p) :
        /\ dump_file[i].type = Route_Monitoring
        /\ LET u == dump_file[i].update
           IN ~Refused(u) /\ ~except_flag(u) /\ x \in u.prefixes \cup u.withdrawn_prefixes}
Latest(S) == CHOOSE i \in S : \A j \in S : j <= i

\* A table holds, for each prefix, what the last UPDATE of this very peer
\* said of it that was not flagged: its path, or nothing when it was
\* withdrawn, be it in the same message.  Nothing else touches a table: no
\* message of another peer, no Peer Up, and no Peer Down (bmpapp.py:86-158).
LastWordCounts ==
    /\ DOMAIN peers = {dump_file[i].peer : i \in
                          {j \in DOMAIN dump_file : dump_file[j].type \in PerPeer}}
    /\ \A p \in DOMAIN peers :
          LET said == {x \in UNION {dump_file[i].update.prefixes :
                           i \in {j \in About(p) : dump_file[j].type = Route_Monitoring}} :
                       /\ Mentions(p, x) # {}
                       /\ x \notin dump_file[Latest(Mentions(p, x))].update.withdrawn_prefixes}
          IN peers[p].rib =
                 [x \in said |-> dump_file[Latest(Mentions(p, x))].update.path]

\* What is known of a BGP session is what the first message about the peer
\* says, if that is a Peer Up, and nothing else ever: neither a later Peer Up
\* nor one that comes after routes (bmpapp.py:72-76 and 95-108).
FirstPeerUpCounts ==
    \A p \in DOMAIN peers :
        LET first == dump_file[CHOOSE i \in About(p) : \A j \in About(p) : i <= j]
        IN peers[p].Peer_Up_data = IF first.type = Peer_Up THEN first.data ELSE None
=============================================================================

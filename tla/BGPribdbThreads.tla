-------------------------- MODULE BGPribdbThreads --------------------------
(***************************************************************************)
(* BGPribdb with a producer and a consumer in two threads.  update and     *)
(* withdraw hold db_lock, get_update_request takes no lock, so the steps   *)
(* of the one interleave with those of the other.  A step is one operation *)
(* on a shared dict; an interpreter that switches threads more often only  *)
(* adds interleavings.                                                     *)
(*                                                                         *)
(* The producer's lists have one prefix: a longer list is the same steps   *)
(* again under one hold of the lock.  refresh() is called by the consumer  *)
(* and holds the lock, so it is one step.  path_attributes has an entry    *)
(* for every hash before anything is queued under it and none for None;    *)
(* the use counts have a single writer.  Neither is a variable here.       *)
(***************************************************************************)
EXTENDS PyDict

CONSTANTS Prefixes, Hashes, None,
          MaxCalls    \* bound: calls of update and withdraw

ASSUME ThreadsAssumption ==
    /\ Hashes \subseteq Int
    /\ MaxCalls \in Nat
    /\ None \notin Hashes
    /\ \A K \in SUBSET Hashes : None \notin [K -> SUBSET Prefixes]

VARIABLES rib, update_requests, path_update_requests, refresh_update_requests,
          db_lock,     \* TRUE: held by the producer
          writer,      \* the producer: [at, pfx, hash]
          reader,      \* the consumer: [at, pa_hash, pfx, pfxlist, new_pfxlist]
          calls,       \* calls of update and withdraw so far
          told,        \* history: the hash the consumer last got for a prefix
          touched,     \* history: prefixes written since the last refresh
          current      \* history: the <<prefix, hash>> pairs of the RIB at
                       \* some time since get_update_request was called

table == <<rib, update_requests, path_update_requests, refresh_update_requests>>
vars == <<table, db_lock, writer, reader, calls, told, touched, current>>

\* `if pa_hash:` is false for None and for the hash 0.
Truthy(h) == h # None /\ h # 0

NoWithdraws == [k \in {None} |-> {}]
IdleWriter == [at |-> "idle", pfx |-> None, hash |-> None]
IdleReader == [at |-> "idle", pa_hash |-> None, pfx |-> None,
               pfxlist |-> {}, new_pfxlist |-> {}]
Entries == {<<p, rib[p]>> : p \in DOMAIN rib}

Init == /\ rib = Empty /\ update_requests = Empty
        /\ path_update_requests = NoWithdraws
        /\ refresh_update_requests = None
        /\ db_lock = FALSE
        /\ writer = IdleWriter
        /\ reader = IdleReader
        /\ calls = 0
        /\ told = [p \in Prefixes |-> None]
        /\ touched = {}
        /\ current = {}
-----------------------------------------------------------------------------
(* The producer: update(pa, [pfx]) with a hash, withdraw([pfx]) with None. *)

\* Update: the call takes the lock.
Call(p, h) ==
    /\ writer.at = "idle" /\ ~db_lock /\ calls < MaxCalls
    /\ db_lock' = TRUE
    /\ calls' = calls + 1
    /\ writer' = [at |-> IF h = None THEN "rib" ELSE "group", pfx |-> p, hash |-> h]
    /\ UNCHANGED <<table, reader, told, touched, current>>

\* 148-149: a group for the hash, unless there is one.
MakeGroup ==
    /\ writer.at = "group"
    /\ path_update_requests' =
          Put(path_update_requests, {writer.hash} \ DOMAIN path_update_requests, {})
    /\ writer' = [writer EXCEPT !.at = "rib"]
    /\ UNCHANGED <<rib, update_requests, refresh_update_requests, db_lock,
                   reader, calls, told, touched, current>>

\* 123
SetRib ==
    /\ writer.at = "rib"
    /\ rib' = Put(rib, {writer.pfx}, writer.hash)
    /\ writer' = [writer EXCEPT !.at = "append"]
    /\ touched' = touched \cup {writer.pfx}
    /\ current' = IF reader.at = "idle" THEN {}
                  ELSE current \cup {<<writer.pfx, writer.hash>>}
    /\ UNCHANGED <<update_requests, path_update_requests, refresh_update_requests,
                   db_lock, reader, calls, told>>

\* 124, when the group is there ...
AppendToGroup ==
    /\ writer.at = "append"
    /\ writer.hash \in DOMAIN path_update_requests
    /\ path_update_requests' =
          [path_update_requests EXCEPT ![writer.hash] = @ \cup {writer.pfx}]
    /\ writer' = [writer EXCEPT !.at = "request"]
    /\ UNCHANGED <<rib, update_requests, refresh_update_requests, db_lock,
                   reader, calls, told, touched, current>>

\* ... and when the consumer has popped it meanwhile: KeyError, and the lock
\* stays held.
AppendKeyError ==
    /\ writer.at = "append"
    /\ writer.hash \notin DOMAIN path_update_requests
    /\ writer' = [writer EXCEPT !.at = "raised"]
    /\ UNCHANGED <<table, db_lock, reader, calls, told, touched, current>>

\* Mutant: a prefix that has a pending request keeps it.
SetRequestOnce ==
    /\ writer.at = "request"
    /\ update_requests' =
          Put(update_requests, {writer.pfx} \ DOMAIN update_requests, writer.hash)
    /\ db_lock' = FALSE
    /\ writer' = IdleWriter
    /\ UNCHANGED <<rib, path_update_requests, refresh_update_requests,
                   reader, calls, told, touched, current>>

\* 125 and the unlock, between which nothing shared is touched.
SetRequest ==
    /\ writer.at = "request"
    /\ update_requests' = Put(update_requests, {writer.pfx}, writer.hash)
    /\ db_lock' = FALSE
    /\ writer' = IdleWriter
    /\ UNCHANGED <<rib, path_update_requests, refresh_update_requests,
                   reader, calls, told, touched, current>>

Producer == \/ \E p \in Prefixes, h \in Hashes \cup {None} : Call(p, h)
            \/ MakeGroup \/ SetRib \/ AppendToGroup \/ AppendKeyError \/ SetRequest
-----------------------------------------------------------------------------
(* The consumer. *)

Learn(S, h) == told' = [p \in Prefixes |-> IF p \in S THEN h ELSE told[p]]

\* Mutant: only what is queued.
RefreshQueued ==
    LET Sent == {p \in DOMAIN rib \cap DOMAIN update_requests : Truthy(rib[p])}
    IN [h \in {rib[p] : p \in Sent} |-> {p \in Sent : rib[p] = h}]

\* 161-177
RefreshTable ==
    LET Sent == {p \in DOMAIN rib : Truthy(rib[p])}
    IN [h \in {rib[p] : p \in Sent} |-> {p \in Sent : rib[p] = h}]

Refresh ==
    /\ reader.at = "idle" /\ ~db_lock
    /\ path_update_requests' = NoWithdraws
    /\ update_requests' = Empty
    /\ refresh_update_requests' = RefreshTable
    /\ told' = [p \in Prefixes |-> None]
    /\ touched' = {}
    /\ UNCHANGED <<rib, db_lock, writer, reader, calls, current>>

\* 213-217: only the consumer uses the refresh table.
GetRefreshItem(h) ==
    /\ reader.at = "idle" /\ refresh_update_requests # None
    /\ h \in DOMAIN refresh_update_requests
    /\ Learn(refresh_update_requests[h], h)
    /\ refresh_update_requests' = Del(refresh_update_requests, {h})
    /\ UNCHANGED <<rib, update_requests, path_update_requests, db_lock, writer,
                   reader, calls, touched, current>>

GetEndOfRib ==
    /\ reader.at = "idle" /\ refresh_update_requests # None
    /\ DOMAIN refresh_update_requests = {}
    /\ refresh_update_requests' = None
    /\ UNCHANGED <<rib, update_requests, path_update_requests, db_lock, writer,
                   reader, calls, told, touched, current>>

\* 204-211, the calls that return None: the withdraw queue is popped in vain,
\* or there is nothing to pop.
GetNone ==
    /\ reader.at = "idle" /\ refresh_update_requests = None
    /\ None \in DOMAIN path_update_requests \/ DOMAIN path_update_requests = {}
    /\ path_update_requests' = Del(path_update_requests, {None})
    /\ UNCHANGED <<rib, update_requests, refresh_update_requests, db_lock, writer,
                   reader, calls, told, touched, current>>

\* 208
PopGroup(h) ==
    /\ reader.at = "idle" /\ refresh_update_requests = None
    /\ None \notin DOMAIN path_update_requests
    /\ h \in DOMAIN path_update_requests
    /\ reader' = [IdleReader EXCEPT !.at = "groom", !.pa_hash = h,
                                    !.pfxlist = path_update_requests[h]]
    /\ path_update_requests' = Del(path_update_requests, {h})
    /\ current' = Entries
    /\ UNCHANGED <<rib, update_requests, refresh_update_requests, db_lock, writer,
                   calls, told, touched>>

\* Mutant: only update_requests is consulted.
GroomRibSkipped(p) ==
    /\ reader.at = "groom" /\ p \in reader.pfxlist
    /\ reader' = [reader EXCEPT !.at = "request", !.pfx = p, !.pfxlist = @ \ {p}]
    /\ UNCHANGED <<table, db_lock, writer, calls, told, touched, current>>

\* groom_updates takes the next prefix; 191, first half: is the popped hash
\* the one in the RIB?
GroomRib(p) ==
    /\ reader.at = "groom" /\ p \in reader.pfxlist
    /\ reader' = IF p \in DOMAIN rib /\ rib[p] = reader.pa_hash
                 THEN [reader EXCEPT !.at = "request", !.pfx = p, !.pfxlist = @ \ {p}]
                 ELSE [reader EXCEPT !.pfxlist = @ \ {p}]
    /\ UNCHANGED <<table, db_lock, writer, calls, told, touched, current>>

\* 191, second half: and the one in update_requests?
GroomRequest ==
    LET p == reader.pfx
        wanted == p \in DOMAIN update_requests /\ update_requests[p] = reader.pa_hash
    IN /\ reader.at = "request"
       /\ reader' = [reader EXCEPT !.at = IF wanted THEN "delete" ELSE "groom"]
       /\ UNCHANGED <<table, db_lock, writer, calls, told, touched, current>>

\* 193-194: whatever update_requests[pfx] has become is deleted.
GroomDelete ==
    /\ reader.at = "delete"
    /\ update_requests' = Del(update_requests, {reader.pfx})
    /\ reader' = [reader EXCEPT !.at = "groom", !.new_pfxlist = @ \cup {reader.pfx}]
    /\ UNCHANGED <<rib, path_update_requests, refresh_update_requests, db_lock,
                   writer, calls, told, touched, current>>

\* 198 and 209
ReturnUpdates ==
    /\ reader.at = "groom" /\ reader.pfxlist = {}
    /\ Learn(reader.new_pfxlist, reader.pa_hash)
    /\ reader' = IdleReader
    /\ current' = {}
    /\ UNCHANGED <<table, db_lock, writer, calls, touched>>

Consumer == \/ Refresh \/ GetEndOfRib \/ GetNone
            \/ \E h \in Hashes : GetRefreshItem(h) \/ PopGroup(h)
            \/ \E p \in Prefixes : GroomRib(p)
            \/ GroomRequest \/ GroomDelete \/ ReturnUpdates

Next == Producer \/ Consumer

Spec == Init /\ [][Next]_vars
-----------------------------------------------------------------------------
(* Properties *)

TypeOK ==
    /\ IsDict(rib, Prefixes, Hashes \cup {None})
    /\ IsDict(update_requests, Prefixes, Hashes \cup {None})
    /\ IsDict(path_update_requests, Hashes \cup {None}, SUBSET Prefixes)
    /\ \/ refresh_update_requests = None
       \/ IsDict(refresh_update_requests, Hashes, SUBSET Prefixes)
    /\ db_lock \in BOOLEAN
    /\ writer \in [at : {"idle", "group", "rib", "append", "request", "raised"},
                   pfx : Prefixes \cup {None}, hash : Hashes \cup {None}]
    /\ reader \in [at : {"idle", "groom", "request", "delete"},
                   pa_hash : Hashes \cup {None}, pfx : Prefixes \cup {None},
                   pfxlist : SUBSET Prefixes, new_pfxlist : SUBSET Prefixes]
    /\ calls \in 0..MaxCalls
    /\ told \in [Prefixes -> Hashes \cup {None}]
    /\ touched \subseteq Prefixes
    /\ current \subseteq Prefixes \X (Hashes \cup {None})

\* A path that get_update_request returns was in the RIB for that prefix at
\* some time since the group was popped (line 191 looks at the RIB itself, not
\* at what was popped), so the consumer never goes back to a path that was
\* replaced before it asked.
ToldWasCurrent ==
    [][\A p \in Prefixes :
          reader.at = "groom" /\ told'[p] # told[p]
              => <<p, told'[p]>> \in current]_vars

\* When the producer is not in a call, update_requests and the RIB agree on
\* every prefix that has a pending update: the race of 191 and 194 can delete
\* a request, never leave a wrong one behind.
RequestsMatchRib ==
    writer.at = "idle" =>
        \A p \in DOMAIN update_requests : p \in DOMAIN rib /\ rib[p] = update_requests[p]

\* get_update_request will find p under h in the refresh table.
InRefresh(p, h) == /\ refresh_update_requests # None
                   /\ h \in DOMAIN refresh_update_requests
                   /\ p \in refresh_update_requests[h]

\* The consumer has the path of p, or the refresh table does; of a prefix that
\* is withdrawn it has none.  A hash of 0 counts as withdrawn (line 172).
Repaired(p) ==
    \/ /\ Truthy(rib[p])
       /\ told[p] = rib[p] \/ (told[p] = None /\ InRefresh(p, rib[p]))
    \/ /\ ~Truthy(rib[p])
       /\ told[p] = None /\ \A h \in Hashes : ~InRefresh(p, h)

\* A refresh makes good what the races lost, for every prefix that was not
\* written since: it is told with the path it has, or will be, and one that is
\* withdrawn is not told with a path that was queued before.
RefreshRepairs == \A p \in DOMAIN rib \ touched : Repaired(p)

\* BGPribdb.py:4: "a threadsafe BGP RIB for a router".  Between calls, an
\* announced prefix that is not in the refresh table is queued both ways or
\* the consumer has it, as it is when calls do not overlap
\* (BGPribdb!NoLostAnnouncement).
NoLostUpdate ==
    writer.at = "idle" /\ reader.at = "idle" /\ refresh_update_requests = None =>
        \A p \in DOMAIN rib : Truthy(rib[p]) =>
            \/ told[p] = rib[p]
            \/ /\ p \in DOMAIN update_requests /\ update_requests[p] = rib[p]
               /\ rib[p] \in DOMAIN path_update_requests
               /\ p \in path_update_requests[rib[p]]
=============================================================================

------------------------------ MODULE BGPribdb ------------------------------
(***************************************************************************)
(* The routing table of one BGP peer (BGPribdb.py): the RIB itself, the    *)
(* two queues of updates that a consumer has not fetched yet, and the      *)
(* refresh table.  Each call is one action, so this module is the table    *)
(* as a caller sees it when calls do not overlap; BGPribdbThreads takes    *)
(* the calls apart.                                                        *)
(*                                                                         *)
(* A list of prefixes is the set of its members: no code depends on the    *)
(* order in such a list, and groom_updates drops a second occurrence.      *)
(***************************************************************************)
EXTENDS PyDict

CONSTANTS Prefixes,   \* (address, length) tuples
          Paths,      \* path attributes
          Hashes,     \* the values of path_attribute_hash
          PathHash,   \* path_attribute_hash, as a function
          None,       \* Python's None
          MaxCount    \* bound: how often one prefix is received

ASSUME RibAssumption ==
    /\ Hashes \subseteq Int
    /\ PathHash \in [Paths -> Hashes]
    /\ MaxCount \in Nat
    /\ None \notin Hashes
    /\ \A K \in SUBSET Hashes : None \notin [K -> SUBSET Prefixes]

VARIABLES db_lock,                  \* TRUE: a call that raised never released it
          rib,                      \* prefix -> hash, or None when withdrawn
          path_attributes,          \* hash -> path
          update_requests,          \* prefix -> the hash last queued for it
          path_update_requests,     \* hash or None -> prefixes queued under it
          all_prefixes_rcvd,        \* prefix -> times updated or withdrawn
          all_prefixes_withdrawn,   \* prefix -> times withdrawn
          refresh_update_requests,  \* None, or hash -> prefixes still to resend
          reply,                    \* what get_update_request last returned
          told                      \* history: the hash the consumer last got for
                                    \* each prefix since its last refresh

queues == <<update_requests, path_update_requests>>
history == <<all_prefixes_rcvd, all_prefixes_withdrawn>>
writerVars == <<db_lock, rib, path_attributes, history>>
vars == <<writerVars, queues, refresh_update_requests, reply, told>>
-----------------------------------------------------------------------------
\* `if pa_hash:` is false for None and for the hash 0.
Truthy(h) == h # None /\ h # 0

NoWithdraws == [k \in {None} |-> {}]

Init == /\ db_lock = FALSE
        /\ rib = Empty
        /\ path_attributes = Empty
        /\ update_requests = Empty
        /\ path_update_requests = NoWithdraws
        /\ all_prefixes_rcvd = Empty
        /\ all_prefixes_withdrawn = Empty
        /\ refresh_update_requests = None
        /\ reply = None
        /\ told = [p \in Prefixes |-> None]
-----------------------------------------------------------------------------
(* The producer's calls.  They wait for db_lock. *)

CanReceive(S) == /\ ~db_lock
                 /\ \A p \in S : Count(all_prefixes_rcvd, p) < MaxCount

\* Mutant: a prefix that already has a pending update is not queued again.
AtomicUpdatesOnce(S, h, pur) ==
    /\ rib' = Put(rib, S, h)
    /\ path_update_requests' = [pur EXCEPT ![h] = @ \cup S]
    /\ update_requests' = Put(update_requests, S \ DOMAIN update_requests, h)
    /\ all_prefixes_rcvd' = Bump(all_prefixes_rcvd, S)

\* atomic_update for every prefix of S, when the queue for h exists.  The
\* duplicate test of line 122 looks for the hash among the prefixes of rib,
\* so it never skips: an unchanged prefix is queued again.
AtomicUpdates(S, h, pur) ==
    /\ rib' = Put(rib, S, h)
    /\ path_update_requests' = [pur EXCEPT ![h] = @ \cup S]
    /\ update_requests' = Put(update_requests, S, h)
    /\ all_prefixes_rcvd' = Bump(all_prefixes_rcvd, S)

\* Mutants: the path is kept only for a hash whose queue is gone; a withdraw
\* counts as received only.
UpdateForgetsPath(pa, S) ==
    LET h == PathHash[pa]
        Missing(d) == {h} \ DOMAIN d
    IN /\ CanReceive(S)
       /\ path_attributes' = Put(path_attributes, Missing(path_attributes)
                                    \cap DOMAIN path_update_requests, pa)
       /\ AtomicUpdates(S, h, Put(path_update_requests,
                                  Missing(path_update_requests), {}))
       /\ UNCHANGED <<db_lock, all_prefixes_withdrawn,
                      refresh_update_requests, reply, told>>

WithdrawUncounted(S) ==
    /\ CanReceive(S)
    /\ None \in DOMAIN path_update_requests
    /\ AtomicUpdates(S, None, path_update_requests)
    /\ UNCHANGED <<db_lock, all_prefixes_withdrawn, path_attributes,
                   refresh_update_requests, reply, told>>

\* update(pa, pfx_list); the list is empty for an UPDATE that only withdraws.
Update(pa, S) ==
    LET h == PathHash[pa]
        Missing(d) == {h} \ DOMAIN d
    IN /\ CanReceive(S)
       /\ path_attributes' = Put(path_attributes, Missing(path_attributes), pa)
       /\ AtomicUpdates(S, h, Put(path_update_requests,
                                  Missing(path_update_requests), {}))
       /\ UNCHANGED <<db_lock, all_prefixes_withdrawn,
                      refresh_update_requests, reply, told>>

\* withdraw(pfx_list) while the withdraw queue exists.
Withdraw(S) ==
    /\ CanReceive(S)
    /\ None \in DOMAIN path_update_requests
    /\ AtomicUpdates(S, None, path_update_requests)
    /\ all_prefixes_withdrawn' = Bump(all_prefixes_withdrawn, S)
    /\ UNCHANGED <<db_lock, path_attributes, refresh_update_requests, reply, told>>

\* withdraw(pfx_list) after get_update_request has popped the withdraw queue,
\* which nothing but refresh puts back: line 124 raises for the first prefix
\* of the list, after line 123 has cleared it in the RIB and before unlock.
WithdrawKeyError(p) ==
    /\ CanReceive({p})
    /\ None \notin DOMAIN path_update_requests
    /\ rib' = Put(rib, {p}, None)
    /\ db_lock' = TRUE
    /\ UNCHANGED <<path_attributes, history, queues,
                   refresh_update_requests, reply, told>>
-----------------------------------------------------------------------------
(* The consumer's calls. *)

\* refresh(): the queues are emptied and all of the RIB is to be sent again.
\* Mutant: only what was queued is sent again.
RefreshQueued ==
    LET Sent == {p \in DOMAIN rib \cap DOMAIN update_requests : Truthy(rib[p])}
    IN [h \in {rib[p] : p \in Sent} |-> {p \in Sent : rib[p] = h}]

RefreshTable ==
    LET Sent == {p \in DOMAIN rib : Truthy(rib[p])}
    IN [h \in {rib[p] : p \in Sent} |-> {p \in Sent : rib[p] = h}]

\* Mutant: update_requests is not emptied with the groups.
RefreshKeepsRequests ==
    /\ ~db_lock
    /\ path_update_requests' = NoWithdraws
    /\ refresh_update_requests' = RefreshTable
    /\ told' = [p \in Prefixes |-> None]
    /\ UNCHANGED <<writerVars, update_requests, reply>>

Refresh ==
    /\ ~db_lock
    /\ path_update_requests' = NoWithdraws
    /\ update_requests' = Empty
    /\ refresh_update_requests' = RefreshTable
    /\ told' = [p \in Prefixes |-> None]
    /\ UNCHANGED <<writerVars, reply>>

\* Mutant: a popped prefix is delivered when any update of it is wanted.
GroomedAnyRequest(h, S) == S \cap DOMAIN update_requests

\* groom_updates: of the prefixes popped with h, those for which h is still
\* current and still wanted.
Groomed(h, S) == {p \in S : /\ p \in DOMAIN rib /\ rib[p] = h
                            /\ p \in DOMAIN update_requests
                            /\ update_requests[p] = h}

\* The key that get_update_request pops: None as long as there is one, else
\* whichever popitem returns.
PopKeys == IF None \in DOMAIN path_update_requests
           THEN {None} ELSE DOMAIN path_update_requests

Tell(S, h) == told' = [p \in Prefixes |-> IF p \in S THEN h ELSE told[p]]

\* get_update_request while a refresh is being sent: the item carries the
\* hash, where an ordinary update carries the path.
GetRefreshItem(h) ==
    /\ refresh_update_requests # None
    /\ h \in DOMAIN refresh_update_requests
    /\ reply' = <<h, refresh_update_requests[h]>>
    /\ Tell(refresh_update_requests[h], h)
    /\ refresh_update_requests' = Del(refresh_update_requests, {h})
    /\ UNCHANGED <<writerVars, queues>>

\* Mutant: the refresh is never over.
EndOfRibForever ==
    /\ refresh_update_requests # None
    /\ DOMAIN refresh_update_requests = {}
    /\ reply' = <<None, {}>>
    /\ UNCHANGED <<writerVars, queues, refresh_update_requests, told>>

GetEndOfRib ==
    /\ refresh_update_requests # None
    /\ DOMAIN refresh_update_requests = {}
    /\ reply' = <<None, {}>>
    /\ refresh_update_requests' = None
    /\ UNCHANGED <<writerVars, queues, told>>

\* get_update_request otherwise: the popped group is groomed and returned.
GetUpdates(h) ==
    LET S == Groomed(h, path_update_requests[h])
    IN /\ refresh_update_requests = None
       /\ h \in PopKeys \cap DOMAIN path_attributes
       /\ reply' = <<path_attributes[h], S>>
       /\ Tell(S, h)
       /\ path_update_requests' = Del(path_update_requests, {h})
       /\ update_requests' = Del(update_requests, S)
       /\ UNCHANGED <<writerVars, refresh_update_requests>>

\* The popped key has no path attributes, which is so for None: the KeyError
\* is caught after the pop, the group is gone and None is returned.
GetKeyError(h) ==
    /\ refresh_update_requests = None
    /\ h \in PopKeys \ DOMAIN path_attributes
    /\ reply' = None
    /\ path_update_requests' = Del(path_update_requests, {h})
    /\ UNCHANGED <<writerVars, update_requests, refresh_update_requests, told>>

\* popitem of an empty dict raises the same KeyError.
GetNothing ==
    /\ refresh_update_requests = None
    /\ PopKeys = {}
    /\ reply' = None
    /\ UNCHANGED <<writerVars, queues, refresh_update_requests, told>>

GetUpdateRequest ==
    \/ \E h \in Hashes : GetRefreshItem(h) \/ GetUpdates(h)
    \/ \E h \in Hashes \cup {None} : GetKeyError(h)
    \/ GetEndOfRib
    \/ GetNothing
-----------------------------------------------------------------------------
Receive == \/ \E S \in SUBSET Prefixes : Withdraw(S) \/ \E pa \in Paths : Update(pa, S)
           \/ \E p \in Prefixes : WithdrawKeyError(p)

Next == Receive \/ Refresh \/ GetUpdateRequest

Spec == Init /\ [][Next]_vars

\* The consumer's loop keeps asking; nothing obliges the producer to act.
FairSpec == Spec /\ WF_vars(GetUpdateRequest)
-----------------------------------------------------------------------------
(* Properties *)

TypeOK ==
    /\ db_lock \in BOOLEAN
    /\ IsDict(rib, Prefixes, Hashes \cup {None})
    /\ IsDict(path_attributes, Hashes, Paths)
    /\ IsDict(update_requests, Prefixes, Hashes \cup {None})
    /\ IsDict(path_update_requests, Hashes \cup {None}, SUBSET Prefixes)
    /\ IsDict(all_prefixes_rcvd, Prefixes, 1..MaxCount)
    /\ IsDict(all_prefixes_withdrawn, Prefixes, Nat)
    /\ \/ refresh_update_requests = None
       \/ IsDict(refresh_update_requests, Hashes, SUBSET Prefixes)
    /\ told \in [Prefixes -> Hashes \cup {None}]

\* p is announced, so far as refresh and __str__ are concerned.
IsAnnounced(p) == p \in DOMAIN rib /\ Truthy(rib[p])

\* get_update_request will deliver p with h, unless p changes first.
Queued(p, h) == /\ p \in DOMAIN update_requests /\ update_requests[p] = h
                /\ h \in DOMAIN path_update_requests
                /\ p \in path_update_requests[h]

InRefresh(p, h) == /\ refresh_update_requests # None
                   /\ h \in DOMAIN refresh_update_requests
                   /\ p \in refresh_update_requests[h]

\* No update is lost: each announced prefix is queued with its current path,
\* or the refresh that is under way will send it, or the consumer has it; and
\* as long as the refresh table holds a superseded path for the prefix, which
\* the consumer will be told, the current one is queued behind it.  This is
\* about lines 122-125 (queue both ways), 165-175 (the queues are dropped
\* because the table stands in for them) and 191 (which prefixes of a popped
\* group may be dropped).
NoLostAnnouncement ==
    \A p \in Prefixes : IsAnnounced(p) =>
        \/ Queued(p, rib[p])
        \/ /\ \A h \in Hashes : InRefresh(p, h) => h = rib[p]
           /\ InRefresh(p, rib[p]) \/ told[p] = rib[p]

\* The two queues and the RIB describe the same pending updates: what
\* update_requests holds for a prefix is its RIB entry, and the group of that
\* hash, if it is still queued, has the prefix.  Only a withdraw whose group
\* was popped in vain stays behind in update_requests (lines 206-211).
QueuesAgree ==
    \A p \in DOMAIN update_requests : ~db_lock =>
        /\ p \in DOMAIN rib /\ rib[p] = update_requests[p]
        /\ Queued(p, rib[p]) \/ rib[p] = None

\* Every hash that is still referred to leads back to path attributes with
\* that hash (lines 145-147): nothing removes a path, and an update that is
\* delivered, or a refresh item that the consumer resolves, needs it.
PathsResolvable ==
    /\ \A h \in DOMAIN path_attributes : PathHash[path_attributes[h]] = h
    /\ \A h \in Hashes :
          (\/ \E p \in DOMAIN rib : rib[p] = h
           \/ h \in DOMAIN path_update_requests
           \/ \E p \in Prefixes : InRefresh(p, h)) => h \in DOMAIN path_attributes

\* The use counts that __str__ reports agree with the RIB: what was received
\* is what has an entry, an entry is None only after a withdraw, and a prefix
\* with a path was received more often than it was withdrawn (lines 131-141).
HistoryExplainsRib ==
    ~db_lock =>
        /\ DOMAIN rib = DOMAIN all_prefixes_rcvd
        /\ \A p \in DOMAIN rib :
              IF rib[p] = None THEN Count(all_prefixes_withdrawn, p) > 0
              ELSE Count(all_prefixes_withdrawn, p) < all_prefixes_rcvd[p]

\* An ordinary update never carries a path that is no longer the prefix's
\* (line 191), however long the group waited in the queue.  A refresh item
\* may: refresh_update_requests is a copy of the RIB that nothing grooms.
UpdatesAreCurrent ==
    [][\A p \in Prefixes :
          refresh_update_requests = None /\ told'[p] \notin {told[p], None}
              => p \in DOMAIN rib /\ told'[p] = rib[p]]_vars

\* The table keeps the promise of RibFeed: it owes the consumer what is queued
\* with its current path and what the refresh table holds.
CurrentHash == [p \in Prefixes |-> IF IsAnnounced(p) THEN rib[p] ELSE None]
Owed == {p \in Prefixes : /\ IsAnnounced(p)
                          /\ \/ Queued(p, rib[p])
                             \/ \E h \in Hashes : InRefresh(p, h)}

Feed == INSTANCE RibFeed WITH Values <- Hashes, cur <- CurrentHash, owed <- Owed

ImplementsRibFeed == Feed!Spec

\* A consumer that keeps calling get_update_request is, once the producer
\* pauses and no refresh is asked for, told the path of every announced
\* prefix.  The None replies and the refresh in between do not stop it.
Converged == \A p \in Prefixes : IsAnnounced(p) => told[p] = rib[p]
ConsumerConverges == <>[][GetUpdateRequest]_vars => <>[]Converged

\* BGPribdb.py:202: "return withdraws first....".
WithdrawsReturnedFirst ==
    [][GetUpdateRequest /\ refresh_update_requests = None
          => \A p \in DOMAIN update_requests :
                Queued(p, None) => reply' # None /\ p \in reply'[2]]_vars

\* BGPribdb.py:4: "a threadsafe BGP RIB for a router".  No caller can be left
\* waiting for a lock whose holder has gone.
LockIsReleased == ~db_lock
=============================================================================

--------------------------- MODULE BGPribdb_proofs ---------------------------
(***************************************************************************)
(* Proofs about BGPribdb, for every set of prefixes, paths and hashes and  *)
(* every bound on the counters.                                            *)
(***************************************************************************)
EXTENDS BGPribdb, TLAPS

(* What the operations on dicts keep *)

\* d[k] = v for every k in S keeps a dict a dict.
LEMMA PutType ==
    ASSUME NEW K, NEW V, NEW d, IsDict(d, K, V),
           NEW S \in SUBSET K, NEW v \in V
    PROVE  IsDict(Put(d, S, v), K, V)
BY DEF IsDict, Put

\* So does deleting keys.
LEMMA DelType ==
    ASSUME NEW K, NEW V, NEW d, IsDict(d, K, V), NEW S
    PROVE  IsDict(Del(d, S), K, V)
BY DEF IsDict, Del, Restrict

\* Counting the prefixes of S once more keeps the counters within M, if they
\* were below it.
LEMMA BumpType ==
    ASSUME NEW K, NEW M \in Nat, NEW d, IsDict(d, K, 1..M),
           NEW S \in SUBSET K, \A k \in S : Count(d, k) < M
    PROVE  IsDict(Bump(d, S), K, 1..M)
BY DEF IsDict, Bump, Count

LEMMA BumpNatType ==
    ASSUME NEW K, NEW d, IsDict(d, K, Nat), NEW S \in SUBSET K
    PROVE  IsDict(Bump(d, S), K, Nat)
BY DEF IsDict, Bump, Count

\* The empty dict is a dict of every type.
LEMMA EmptyType == ASSUME NEW K, NEW V PROVE IsDict(Empty, K, V)
BY DEF IsDict, Empty
-----------------------------------------------------------------------------

\* The queue of a table that was just refreshed.
LEMMA NoWithdrawsType == IsDict(NoWithdraws, Hashes \cup {None}, SUBSET Prefixes)
BY DEF IsDict, NoWithdraws

LEMMA RefreshTableType ==
    ASSUME TypeOK
    PROVE  IsDict(RefreshTable, Hashes, SUBSET Prefixes)
BY DEF TypeOK, RefreshTable, IsDict, Truthy
-----------------------------------------------------------------------------
(* Type correctness. *)

LEMMA InitType == Init => TypeOK
<1> USE RibAssumption
<1>1. IsDict(Empty, Prefixes, Hashes \cup {None}) /\ IsDict(Empty, Hashes, Paths)
      /\ IsDict(Empty, Prefixes, 1..MaxCount) /\ IsDict(Empty, Prefixes, Nat)
  BY EmptyType
<1> QED BY <1>1, NoWithdrawsType DEF Init, TypeOK

\* What every update and withdraw does to the table: h is the hash or None,
\* pur the groups, with one for h.
LEMMA AtomicUpdatesType ==
    ASSUME TypeOK, NEW S \in SUBSET Prefixes, NEW h \in Hashes \cup {None},
           NEW pur, IsDict(pur, Hashes \cup {None}, SUBSET Prefixes),
           h \in DOMAIN pur, CanReceive(S), AtomicUpdates(S, h, pur)
    PROVE  /\ IsDict(rib', Prefixes, Hashes \cup {None})
           /\ IsDict(update_requests', Prefixes, Hashes \cup {None})
           /\ IsDict(path_update_requests', Hashes \cup {None}, SUBSET Prefixes)
           /\ IsDict(all_prefixes_rcvd', Prefixes, 1..MaxCount)
<1>1. IsDict(Put(rib, S, h), Prefixes, Hashes \cup {None})
  BY PutType DEF TypeOK
<1>2. IsDict(Put(update_requests, S, h), Prefixes, Hashes \cup {None})
  BY PutType DEF TypeOK
<1>3. IsDict([pur EXCEPT ![h] = @ \cup S], Hashes \cup {None}, SUBSET Prefixes)
  BY DEF IsDict
<1>4. IsDict(Bump(all_prefixes_rcvd, S), Prefixes, 1..MaxCount)
  BY BumpType, RibAssumption DEF TypeOK, CanReceive
<1> QED BY <1>1, <1>2, <1>3, <1>4 DEF AtomicUpdates

LEMMA NextType == TypeOK /\ [Next]_vars => TypeOK'
<1> SUFFICES ASSUME TypeOK, [Next]_vars PROVE TypeOK'
  OBVIOUS
<1> USE DEF TypeOK
<1>1. ASSUME NEW pa \in Paths, NEW S \in SUBSET Prefixes, Update(pa, S)
      PROVE  TypeOK'
  <2> DEFINE h == PathHash[pa]
             New == {h} \ DOMAIN path_update_requests
             NewPath == {h} \ DOMAIN path_attributes
             pur == Put(path_update_requests, New, {})
  <2>1. h \in Hashes
    BY RibAssumption
  <2>2. /\ CanReceive(S)
        /\ AtomicUpdates(S, h, pur)
        /\ path_attributes' = Put(path_attributes, NewPath, pa)
        /\ UNCHANGED <<db_lock, all_prefixes_withdrawn,
                       refresh_update_requests, reply, told>>
    BY <1>1 DEF Update
  <2>3. IsDict(path_attributes', Hashes, Paths)
    BY <2>1, <2>2, PutType
  <2>4. IsDict(pur, Hashes \cup {None}, SUBSET Prefixes)
    BY <2>1, PutType
  <2>5. h \in DOMAIN pur
    BY DEF Put
  <2>6. /\ IsDict(rib', Prefixes, Hashes \cup {None})
        /\ IsDict(update_requests', Prefixes, Hashes \cup {None})
        /\ IsDict(path_update_requests', Hashes \cup {None}, SUBSET Prefixes)
        /\ IsDict(all_prefixes_rcvd', Prefixes, 1..MaxCount)
    <3> HIDE DEF h, pur
    <3> QED BY <2>1, <2>2, <2>4, <2>5, AtomicUpdatesType
  <2> QED BY <2>2, <2>3, <2>6
<1>2. ASSUME NEW S \in SUBSET Prefixes, Withdraw(S)
      PROVE  TypeOK'
  <2>1. IsDict(Bump(all_prefixes_withdrawn, S), Prefixes, Nat)
    BY BumpNatType
  <2>2. /\ IsDict(rib', Prefixes, Hashes \cup {None})
        /\ IsDict(update_requests', Prefixes, Hashes \cup {None})
        /\ IsDict(path_update_requests', Hashes \cup {None}, SUBSET Prefixes)
        /\ IsDict(all_prefixes_rcvd', Prefixes, 1..MaxCount)
    BY <1>2, AtomicUpdatesType DEF Withdraw
  <2> QED BY <1>2, <2>1, <2>2 DEF Withdraw
<1>3. ASSUME NEW p \in Prefixes, WithdrawKeyError(p)
      PROVE  TypeOK'
  <2>1. IsDict(Put(rib, {p}, None), Prefixes, Hashes \cup {None})
    BY PutType
  <2> QED BY <1>3, <2>1 DEF WithdrawKeyError, history, queues
<1>4. CASE Refresh
  <2>1. IsDict(Empty, Prefixes, Hashes \cup {None})
    BY EmptyType
  <2> QED BY <1>4, <2>1, NoWithdrawsType, RefreshTableType
          DEF Refresh, writerVars, history
<1>5. ASSUME NEW h \in Hashes, GetRefreshItem(h)
      PROVE  TypeOK'
  <2>1. IsDict(Del(refresh_update_requests, {h}), Hashes, SUBSET Prefixes)
    BY <1>5, DelType DEF GetRefreshItem
  <2> QED BY <1>5, <2>1 DEF GetRefreshItem, Tell, writerVars, history, queues
<1>6. CASE GetEndOfRib
  BY <1>6 DEF GetEndOfRib, writerVars, history, queues
<1>7. ASSUME NEW h \in Hashes, GetUpdates(h)
      PROVE  TypeOK'
  <2> DEFINE S == Groomed(h, path_update_requests[h])
  <2>1. IsDict(Del(update_requests, S), Prefixes, Hashes \cup {None})
    BY DelType
  <2>2. IsDict(Del(path_update_requests, {h}), Hashes \cup {None}, SUBSET Prefixes)
    BY DelType
  <2> QED BY <1>7, <2>1, <2>2 DEF GetUpdates, Tell, writerVars, history
<1>8. ASSUME NEW h \in Hashes \cup {None}, GetKeyError(h)
      PROVE  TypeOK'
  <2>1. IsDict(Del(path_update_requests, {h}), Hashes \cup {None}, SUBSET Prefixes)
    BY DelType
  <2> QED BY <1>8, <2>1 DEF GetKeyError, writerVars, history
<1>9. CASE GetNothing
  BY <1>9 DEF GetNothing, writerVars, history, queues
<1>10. CASE UNCHANGED vars
  BY <1>10 DEF vars, writerVars, history, queues, IsDict
<1> QED BY <1>1, <1>2, <1>3, <1>4, <1>5, <1>6, <1>7, <1>8, <1>9, <1>10
        DEF Next, Receive, GetUpdateRequest

\* The table's state always has the types TypeOK gives: dicts keyed and
\* valued as the code intends, counters within the bound.
THEOREM TypeCorrect == Spec => []TypeOK
BY InitType, NextType, PTL DEF Spec
-----------------------------------------------------------------------------
(* Every hash that is referred to has its path attributes: they are never  *)
(* dropped, and the RIB, the queue and the refresh table only ever hold    *)
(* hashes that update() has stored.                                        *)

LEMMA PathsInit == Init => PathsResolvable
BY RibAssumption
   DEF Init, PathsResolvable, NoWithdraws, Empty, InRefresh

LEMMA PathsNext == TypeOK /\ PathsResolvable /\ [Next]_vars => PathsResolvable'
<1> SUFFICES ASSUME TypeOK, PathsResolvable, [Next]_vars
             PROVE  PathsResolvable'
  OBVIOUS
<1> DEFINE Used(k) == \/ \E p \in DOMAIN rib : rib[p] = k
                      \/ k \in DOMAIN path_update_requests
                      \/ \E p \in Prefixes : InRefresh(p, k)
<1>1. ASSUME \A k \in Hashes : Used(k)' => Used(k), UNCHANGED path_attributes
      PROVE  PathsResolvable'
  BY <1>1 DEF PathsResolvable
<1>2. ASSUME NEW pa \in Paths, NEW S \in SUBSET Prefixes, Update(pa, S)
      PROVE  PathsResolvable'
  <2> DEFINE h == PathHash[pa]
  <2>1. h \in Hashes
    BY RibAssumption
  <2>2. /\ DOMAIN path_attributes' = DOMAIN path_attributes \cup {h}
        /\ \A k \in DOMAIN path_attributes' : PathHash[path_attributes'[k]] = k
    BY <1>2, <2>1 DEF Update, Put, PathsResolvable
  <2>3. ASSUME NEW k \in Hashes, k # h PROVE Used(k)' => Used(k)
    BY <1>2, <2>3 DEF Update, AtomicUpdates, Put, InRefresh
  <2>4. \A k \in Hashes : Used(k)' => k \in DOMAIN path_attributes'
    BY <2>2, <2>3 DEF PathsResolvable
  <2> QED BY <2>2, <2>4 DEF PathsResolvable
<1>3. ASSUME NEW S \in SUBSET Prefixes, Withdraw(S)
      PROVE  PathsResolvable'
  <2>1. \A k \in Hashes : Used(k)' => Used(k)
    BY <1>3, RibAssumption DEF Withdraw, AtomicUpdates, Put, InRefresh
  <2> QED BY <1>1, <1>3, <2>1 DEF Withdraw
<1>4. ASSUME NEW q \in Prefixes, WithdrawKeyError(q)
      PROVE  PathsResolvable'
  <2>1. \A k \in Hashes : Used(k)' => Used(k)
    BY <1>4, RibAssumption DEF WithdrawKeyError, queues, Put, InRefresh
  <2> QED BY <1>1, <1>4, <2>1 DEF WithdrawKeyError
<1>5. CASE Refresh
  <2>1. UNCHANGED <<rib, path_attributes>>
    BY <1>5 DEF Refresh, writerVars
  <2>2. ASSUME NEW k \in Hashes, NEW p \in Prefixes, InRefresh(p, k)'
        PROVE  p \in DOMAIN rib /\ rib[p] = k
    BY <1>5, <2>2 DEF Refresh, RefreshTable, InRefresh
  <2>3. ASSUME NEW k \in Hashes PROVE k \notin DOMAIN path_update_requests'
    BY <1>5, RibAssumption DEF Refresh, NoWithdraws
  <2> QED BY <1>1, <2>1, <2>2, <2>3
<1>6. ASSUME NEW h \in Hashes, GetRefreshItem(h)
      PROVE  PathsResolvable'
  <2>1. \A k \in Hashes, p \in Prefixes : InRefresh(p, k)' => InRefresh(p, k)
    BY <1>6 DEF GetRefreshItem, Del, Restrict, InRefresh
  <2> QED BY <1>1, <1>6, <2>1 DEF GetRefreshItem, writerVars, queues
<1>7. CASE GetEndOfRib
  <2>1. \A k \in Hashes, p \in Prefixes : ~InRefresh(p, k)'
    BY <1>7 DEF GetEndOfRib, InRefresh
  <2> QED BY <1>1, <1>7, <2>1 DEF GetEndOfRib, writerVars, queues
<1>8. ASSUME NEW h \in Hashes \cup {None}, GetUpdates(h) \/ GetKeyError(h)
      PROVE  PathsResolvable'
  <2>1. DOMAIN path_update_requests' \subseteq DOMAIN path_update_requests
    BY <1>8 DEF GetUpdates, GetKeyError, Del, Restrict
  <2> QED BY <1>1, <1>8, <2>1 DEF GetUpdates, GetKeyError, writerVars, InRefresh
<1>9. CASE GetNothing
  BY <1>1, <1>9 DEF GetNothing, writerVars, queues, InRefresh
<1>10. CASE UNCHANGED vars
  BY <1>1, <1>10 DEF vars, writerVars, queues, InRefresh
<1> QED BY <1>2, <1>3, <1>4, <1>5, <1>6, <1>7, <1>8, <1>9, <1>10
        DEF Next, Receive, GetUpdateRequest

\* Whatever hash the RIB, a queued group or a refresh item holds, its path
\* attributes are stored under it.
THEOREM EveryPathResolves == Spec => []PathsResolvable
BY InitType, NextType, PathsInit, PathsNext, PTL DEF Spec
-----------------------------------------------------------------------------
(* No announcement is lost.  NoLostAnnouncement is inductive relative to   *)
(* TypeOK and PathsResolvable: without the second, get_update_request could *)
(* drop a group of announcements the way it drops the withdraws.           *)

\* NoLostAnnouncement for one prefix.
Kept(p) == IsAnnounced(p) =>
    \/ Queued(p, rib[p])
    \/ /\ \A h \in Hashes : InRefresh(p, h) => h = rib[p]
       /\ InRefresh(p, rib[p]) \/ told[p] = rib[p]

LEMMA NoLostInit == Init => NoLostAnnouncement
BY DEF Init, NoLostAnnouncement, IsAnnounced, Empty

\* An update queues what it touches and leaves the rest as it was.
LEMMA NoLostReceive ==
    ASSUME TypeOK, NoLostAnnouncement, NEW S \in SUBSET Prefixes,
           NEW h \in Hashes \cup {None},
           NEW pur, h \in DOMAIN pur,
           IsDict(pur, Hashes \cup {None}, SUBSET Prefixes),
           \A k \in DOMAIN path_update_requests :
              k \in DOMAIN pur /\ path_update_requests[k] \subseteq pur[k],
           AtomicUpdates(S, h, pur),
           UNCHANGED <<refresh_update_requests, told>>
    PROVE  NoLostAnnouncement'
<1> SUFFICES ASSUME NEW p \in Prefixes PROVE Kept(p)'
  BY DEF NoLostAnnouncement, Kept
<1>1. CASE p \in S
  <2>1. rib'[p] = h /\ Queued(p, h)'
    BY <1>1 DEF AtomicUpdates, Put, Queued, IsDict
  <2> QED BY <2>1 DEF Kept
<1>2. CASE p \notin S
  <2>1. /\ IsAnnounced(p)' <=> IsAnnounced(p)
        /\ IsAnnounced(p) => rib'[p] = rib[p]
    BY <1>2 DEF AtomicUpdates, Put, IsAnnounced
  <2>2. ASSUME NEW k PROVE Queued(p, k) => Queued(p, k)'
    BY <1>2 DEF AtomicUpdates, Put, Queued, IsDict
  <2>3. ASSUME NEW k PROVE InRefresh(p, k)' <=> InRefresh(p, k)
    BY DEF InRefresh
  <2>4. Kept(p)
    BY DEF NoLostAnnouncement, Kept
  <2> QED BY <2>1, <2>2, <2>3, <2>4 DEF Kept
<1> QED BY <1>1, <1>2

LEMMA NoLostNext ==
    TypeOK /\ PathsResolvable /\ NoLostAnnouncement /\ [Next]_vars => NoLostAnnouncement'
<1> SUFFICES ASSUME TypeOK, PathsResolvable, NoLostAnnouncement, [Next]_vars
             PROVE  NoLostAnnouncement'
  OBVIOUS
<1>1. ASSUME NEW pa \in Paths, NEW S \in SUBSET Prefixes, Update(pa, S)
      PROVE  NoLostAnnouncement'
  <2> DEFINE h == PathHash[pa]
             pur == Put(path_update_requests, {h} \ DOMAIN path_update_requests, {})
  <2>1. h \in Hashes
    BY RibAssumption
  <2>2. AtomicUpdates(S, h, pur) /\ UNCHANGED <<refresh_update_requests, told>>
    BY <1>1 DEF Update
  <2>3. IsDict(pur, Hashes \cup {None}, SUBSET Prefixes)
    BY <2>1, PutType DEF TypeOK
  <2>4. /\ h \in DOMAIN pur
        /\ \A k \in DOMAIN path_update_requests :
              k \in DOMAIN pur /\ path_update_requests[k] \subseteq pur[k]
    BY DEF Put
  <2> QED
    <3> HIDE DEF h, pur
    <3> QED BY <2>1, <2>2, <2>3, <2>4, NoLostReceive
<1>2. ASSUME NEW S \in SUBSET Prefixes, Withdraw(S)
      PROVE  NoLostAnnouncement'
  BY <1>2, NoLostReceive DEF Withdraw, TypeOK
<1>3. ASSUME NEW q \in Prefixes, WithdrawKeyError(q)
      PROVE  NoLostAnnouncement'
  <2>1. \A p \in Prefixes : IsAnnounced(p)' => IsAnnounced(p) /\ rib'[p] = rib[p]
    BY <1>3 DEF WithdrawKeyError, Put, IsAnnounced, Truthy
  <2> QED BY <1>3, <2>1 DEF NoLostAnnouncement, WithdrawKeyError, queues,
                            Queued, InRefresh
<1>4. CASE Refresh
  <2>1. ASSUME NEW p \in Prefixes, IsAnnounced(p)
        PROVE  \A h \in Hashes : InRefresh(p, h)' <=> h = rib[p]
    <3>1. refresh_update_requests' = RefreshTable /\ RefreshTable # None
      BY <1>4, RefreshTableType, RibAssumption DEF Refresh, IsDict
    <3>2. \A h : h \in DOMAIN RefreshTable /\ p \in RefreshTable[h] <=> h = rib[p]
      BY <2>1 DEF RefreshTable, IsAnnounced
    <3> QED BY <3>1, <3>2 DEF InRefresh
  <2>2. ASSUME NEW p \in Prefixes, IsAnnounced(p)
        PROVE  rib[p] \in Hashes
    BY <2>2 DEF IsAnnounced, TypeOK, IsDict, Truthy
  <2>3. UNCHANGED rib
    BY <1>4 DEF Refresh, writerVars
  <2> QED BY <2>1, <2>2, <2>3 DEF NoLostAnnouncement, IsAnnounced
<1>5. ASSUME NEW h \in Hashes, GetRefreshItem(h)
      PROVE  NoLostAnnouncement'
  <2> SUFFICES ASSUME NEW p \in Prefixes PROVE Kept(p)'
    BY DEF NoLostAnnouncement, Kept
  <2>1. UNCHANGED rib /\ UNCHANGED queues
    BY <1>5 DEF GetRefreshItem, writerVars
  <2>2. \A k \in Hashes : InRefresh(p, k)' <=> InRefresh(p, k) /\ k # h
    BY <1>5, RibAssumption DEF GetRefreshItem, Del, Restrict, InRefresh, TypeOK, IsDict
  <2>3. told'[p] = IF InRefresh(p, h) THEN h ELSE told[p]
    BY <1>5 DEF GetRefreshItem, Tell, InRefresh
  <2>4. Kept(p)
    BY DEF NoLostAnnouncement, Kept
  <2>5. IsAnnounced(p) => rib[p] \in Hashes
    BY DEF IsAnnounced, TypeOK, IsDict, Truthy
  <2> QED BY <2>1, <2>2, <2>3, <2>4, <2>5 DEF Kept, IsAnnounced, Queued, queues
<1>6. CASE GetEndOfRib
  BY <1>6 DEF GetEndOfRib, writerVars, queues, NoLostAnnouncement, IsAnnounced,
              Queued, InRefresh
<1>7. ASSUME NEW h \in Hashes, GetUpdates(h)
      PROVE  NoLostAnnouncement'
  <2> SUFFICES ASSUME NEW p \in Prefixes, IsAnnounced(p)
               PROVE  Kept(p)'
    BY <1>7 DEF NoLostAnnouncement, Kept, GetUpdates, writerVars, IsAnnounced
  <2> DEFINE S == Groomed(h, path_update_requests[h])
  <2>1. UNCHANGED rib /\ refresh_update_requests = None /\ refresh_update_requests' = None
    BY <1>7 DEF GetUpdates, writerVars
  <2>2. \A k \in Hashes : ~InRefresh(p, k)'
    BY <2>1 DEF InRefresh
  <2>3. CASE p \in S
    <3>1. told'[p] = h /\ rib[p] = h
      BY <1>7, <2>3 DEF GetUpdates, Tell, Groomed
    <3> QED BY <2>1, <2>2, <3>1 DEF Kept
  <2>4. CASE p \notin S
    <3>1. told'[p] = told[p]
      BY <1>7, <2>4 DEF GetUpdates, Tell
    <3>2. Queued(p, rib[p]) => Queued(p, rib[p])'
      BY <1>7, <2>1, <2>4
         DEF GetUpdates, Groomed, Queued, Del, Restrict, IsAnnounced, PopKeys
    <3>3. Queued(p, rib[p]) \/ told[p] = rib[p]
      BY <2>1 DEF NoLostAnnouncement, InRefresh
    <3> QED BY <2>1, <2>2, <3>1, <3>2, <3>3 DEF Kept
  <2> QED BY <2>3, <2>4
<1>8. ASSUME NEW h \in Hashes \cup {None}, GetKeyError(h)
      PROVE  NoLostAnnouncement'
  <2>1. ASSUME NEW p \in Prefixes, IsAnnounced(p)
        PROVE  Queued(p, rib[p]) => Queued(p, rib[p])'
    <3>1. rib[p] \in Hashes
      BY <2>1 DEF IsAnnounced, TypeOK, IsDict, Truthy
    <3>2. rib[p] \in DOMAIN path_update_requests => rib[p] # h
      BY <1>8, <2>1, <3>1 DEF GetKeyError, PathsResolvable, IsAnnounced
    <3> QED BY <1>8, <3>2 DEF GetKeyError, writerVars, Queued, Del, Restrict
  <2> QED BY <1>8, <2>1 DEF GetKeyError, writerVars, NoLostAnnouncement,
                            IsAnnounced, InRefresh
<1>9. CASE GetNothing
  BY <1>9 DEF GetNothing, writerVars, queues, NoLostAnnouncement, IsAnnounced,
              Queued, InRefresh
<1>10. CASE UNCHANGED vars
  BY <1>10 DEF vars, writerVars, queues, NoLostAnnouncement, IsAnnounced,
               Queued, InRefresh
<1> QED BY <1>1, <1>2, <1>3, <1>4, <1>5, <1>6, <1>7, <1>8, <1>9, <1>10
        DEF Next, Receive, GetUpdateRequest

\* Between calls, an announced prefix is queued with its current path, or the
\* refresh will send it, or the consumer has it; a superseded path that is
\* still to be sent has the current one behind it.
THEOREM NoAnnouncementIsLost == Spec => []NoLostAnnouncement
BY InitType, NextType, PathsInit, PathsNext, NoLostInit, NoLostNext, PTL DEF Spec
-----------------------------------------------------------------------------
(* The queues agree with the RIB.  QueuesAgree is inductive relative to    *)
(* TypeOK and PathsResolvable, by which the groups that get_update_request  *)
(* drops are withdraws.                                                     *)

LEMMA QueuesInit == Init => QueuesAgree
BY DEF Init, QueuesAgree, Empty

\* An update queues what it touches, and no group loses a prefix.
LEMMA QueuesReceive ==
    ASSUME TypeOK, QueuesAgree, ~db_lock, NEW S \in SUBSET Prefixes,
           NEW h \in Hashes \cup {None},
           NEW pur, h \in DOMAIN pur,
           IsDict(pur, Hashes \cup {None}, SUBSET Prefixes),
           \A k \in DOMAIN path_update_requests :
              k \in DOMAIN pur /\ path_update_requests[k] \subseteq pur[k],
           AtomicUpdates(S, h, pur)
    PROVE  QueuesAgree'
<1> SUFFICES ASSUME NEW p \in DOMAIN update_requests'
             PROVE  /\ p \in DOMAIN rib' /\ rib'[p] = update_requests'[p]
                    /\ Queued(p, rib[p])' \/ rib'[p] = None
  BY DEF QueuesAgree
<1>1. CASE p \in S
  BY <1>1 DEF AtomicUpdates, Put, Queued, IsDict
<1>2. CASE p \notin S
  <2>1. /\ p \in DOMAIN update_requests /\ update_requests'[p] = update_requests[p]
        /\ p \in DOMAIN rib => p \in DOMAIN rib' /\ rib'[p] = rib[p]
    BY <1>2 DEF AtomicUpdates, Put
  <2>2. Queued(p, update_requests[p]) => Queued(p, update_requests[p])'
    BY <1>2 DEF AtomicUpdates, Put, Queued, IsDict
  <2> QED BY <2>1, <2>2 DEF QueuesAgree
<1> QED BY <1>1, <1>2

LEMMA QueuesNext == TypeOK /\ PathsResolvable /\ QueuesAgree /\ [Next]_vars => QueuesAgree'
<1> SUFFICES ASSUME TypeOK, PathsResolvable, QueuesAgree, [Next]_vars
             PROVE  QueuesAgree'
  OBVIOUS
<1>1. ASSUME NEW pa \in Paths, NEW S \in SUBSET Prefixes, Update(pa, S)
      PROVE  QueuesAgree'
  <2> DEFINE h == PathHash[pa]
             pur == Put(path_update_requests, {h} \ DOMAIN path_update_requests, {})
  <2>1. h \in Hashes
    BY RibAssumption
  <2>2. AtomicUpdates(S, h, pur) /\ ~db_lock
    BY <1>1 DEF Update, CanReceive
  <2>3. IsDict(pur, Hashes \cup {None}, SUBSET Prefixes)
    BY <2>1, PutType DEF TypeOK
  <2>4. /\ h \in DOMAIN pur
        /\ \A k \in DOMAIN path_update_requests :
              k \in DOMAIN pur /\ path_update_requests[k] \subseteq pur[k]
    BY DEF Put
  <2> QED
    <3> HIDE DEF h, pur
    <3> QED BY <2>1, <2>2, <2>3, <2>4, QueuesReceive
<1>2. ASSUME NEW S \in SUBSET Prefixes, Withdraw(S)
      PROVE  QueuesAgree'
  BY <1>2, QueuesReceive DEF Withdraw, CanReceive, TypeOK
<1>3. ASSUME NEW q \in Prefixes, WithdrawKeyError(q)
      PROVE  QueuesAgree'
  BY <1>3 DEF WithdrawKeyError, QueuesAgree
<1>4. CASE Refresh
  BY <1>4 DEF Refresh, QueuesAgree, Empty
<1>5. ASSUME NEW h \in Hashes, GetUpdates(h)
      PROVE  QueuesAgree'
  <2> DEFINE S == Groomed(h, path_update_requests[h])
  <2>1. UNCHANGED <<rib, db_lock>>
    BY <1>5 DEF GetUpdates, writerVars
  <2>2. ASSUME NEW p \in DOMAIN update_requests'
        PROVE  /\ p \in DOMAIN update_requests /\ p \notin S
               /\ update_requests'[p] = update_requests[p]
    BY <1>5 DEF GetUpdates, Del, Restrict
  <2>3. ASSUME NEW p \in DOMAIN update_requests', ~db_lock, Queued(p, rib[p])
        PROVE  Queued(p, rib[p])'
    <3>1. p \in DOMAIN rib /\ rib[p] = update_requests[p]
      BY <2>2, <2>3 DEF QueuesAgree
    <3>2. rib[p] # h
      BY <2>2, <2>3, <3>1 DEF Groomed, Queued
    <3> QED BY <1>5, <2>1, <2>2, <2>3, <3>1, <3>2 DEF GetUpdates, Queued, Del, Restrict
  <2> QED BY <2>1, <2>2, <2>3 DEF QueuesAgree
<1>6. ASSUME NEW h \in Hashes \cup {None}, GetKeyError(h)
      PROVE  QueuesAgree'
  <2>1. UNCHANGED <<rib, db_lock, update_requests>>
    BY <1>6 DEF GetKeyError, writerVars
  <2>2. ASSUME NEW p \in DOMAIN rib, rib[p] # None, Queued(p, rib[p])
        PROVE  Queued(p, rib[p])'
    <3>1. rib[p] \in Hashes
      BY <2>2 DEF TypeOK, IsDict
    <3>2. rib[p] # h
      BY <1>6, <2>2, <3>1 DEF GetKeyError, PathsResolvable
    <3> QED BY <1>6, <2>1, <2>2, <3>2 DEF GetKeyError, Queued, Del, Restrict
  <2> QED BY <2>1, <2>2 DEF QueuesAgree
<1>7. CASE (\E h \in Hashes : GetRefreshItem(h)) \/ GetEndOfRib \/ GetNothing \/ UNCHANGED vars
  <2>1. UNCHANGED <<rib, db_lock, update_requests, path_update_requests>>
    BY <1>7 DEF GetRefreshItem, GetEndOfRib, GetNothing, vars, writerVars, queues
  <2> QED BY <2>1 DEF QueuesAgree, Queued
<1> QED BY <1>1, <1>2, <1>3, <1>4, <1>5, <1>6, <1>7
        DEF Next, Receive, GetUpdateRequest

\* The two queues and the RIB describe the same pending updates, but for
\* withdraws whose group was popped in vain (lines 122-125 and 206-211).
THEOREM QueuesAlwaysAgree == Spec => []QueuesAgree
BY InitType, NextType, PathsInit, PathsNext, QueuesInit, QueuesNext, PTL DEF Spec
-----------------------------------------------------------------------------
(* The use counts.  HistoryExplainsRib says nothing of a prefix with a path *)
(* that could be withdrawn once too often; that no prefix is withdrawn more *)
(* often than received is what keeps it true when the next update comes.    *)

HistoryInv ==
    /\ HistoryExplainsRib
    /\ \A p \in Prefixes : Count(all_prefixes_withdrawn, p) <= Count(all_prefixes_rcvd, p)

LEMMA HistoryInit == Init => HistoryInv
BY DEF Init, HistoryInv, HistoryExplainsRib, Empty, Count

LEMMA CountType ==
    ASSUME TypeOK, NEW p \in Prefixes
    PROVE  /\ Count(all_prefixes_rcvd, p) \in Nat
           /\ Count(all_prefixes_withdrawn, p) \in Nat
           /\ p \in DOMAIN all_prefixes_rcvd => Count(all_prefixes_rcvd, p) = all_prefixes_rcvd[p]
BY RibAssumption DEF TypeOK, IsDict, Count

\* What Bump does to the count of each prefix.
LEMMA CountBump ==
    ASSUME NEW d, NEW S, NEW p
    PROVE  Count(Bump(d, S), p) = IF p \in S THEN Count(d, p) + 1 ELSE Count(d, p)
BY DEF Count, Bump

LEMMA HistoryNext == TypeOK /\ HistoryInv /\ [Next]_vars => HistoryInv'
<1> SUFFICES ASSUME TypeOK, HistoryInv, [Next]_vars PROVE HistoryInv'
  OBVIOUS
<1> DEFINE received(p) == Count(all_prefixes_rcvd, p)
           withdrawn(p) == Count(all_prefixes_withdrawn, p)
<1>1. ASSUME ~db_lock, NEW S \in SUBSET Prefixes, NEW h \in Hashes \cup {None},
             NEW pur, AtomicUpdates(S, h, pur), UNCHANGED db_lock,
             all_prefixes_withdrawn' = IF h = None THEN Bump(all_prefixes_withdrawn, S)
                                                   ELSE all_prefixes_withdrawn
      PROVE  HistoryInv'
  <2>1. /\ DOMAIN rib' = DOMAIN rib \cup S
        /\ \A p \in DOMAIN rib' : rib'[p] = IF p \in S THEN h ELSE rib[p]
        /\ DOMAIN all_prefixes_rcvd' = DOMAIN all_prefixes_rcvd \cup S
    BY <1>1 DEF AtomicUpdates, Put, Bump
  <2>2. DOMAIN rib' = DOMAIN all_prefixes_rcvd'
    BY <1>1, <2>1 DEF HistoryInv, HistoryExplainsRib
  <2>3. ASSUME NEW p \in Prefixes
        PROVE  /\ received(p)' = IF p \in S THEN received(p) + 1 ELSE received(p)
               /\ withdrawn(p)' = IF p \in S /\ h = None THEN withdrawn(p) + 1 ELSE withdrawn(p)
    BY <1>1, CountBump DEF AtomicUpdates
  <2>4. \A p \in Prefixes : withdrawn(p)' <= received(p)'
    BY <2>3, CountType DEF HistoryInv
  <2>5. ASSUME NEW p \in DOMAIN rib'
        PROVE  IF rib'[p] = None THEN withdrawn(p)' > 0
                                 ELSE withdrawn(p)' < all_prefixes_rcvd'[p]
    <3>1. p \in Prefixes /\ all_prefixes_rcvd'[p] = received(p)'
      BY <2>1, <2>2, <2>5 DEF TypeOK, IsDict, Count
    <3>2. withdrawn(p) \in Nat /\ received(p) \in Nat /\ withdrawn(p) <= received(p)
      BY <3>1, CountType DEF HistoryInv
    <3>3. CASE p \in S
      BY <1>1, <2>1, <2>3, <3>1, <3>2, <3>3
    <3>4. CASE p \notin S
      <4>1. p \in DOMAIN rib /\ rib'[p] = rib[p]
        BY <2>1, <2>5, <3>4
      <4>2. IF rib[p] = None THEN withdrawn(p) > 0 ELSE withdrawn(p) < all_prefixes_rcvd[p]
        BY <1>1, <4>1 DEF HistoryInv, HistoryExplainsRib
      <4>3. p \in DOMAIN all_prefixes_rcvd /\ all_prefixes_rcvd[p] = received(p)
        BY <1>1, <4>1 DEF HistoryInv, HistoryExplainsRib, Count
      <4> QED BY <2>3, <3>1, <3>4, <4>1, <4>2, <4>3
    <3> QED BY <3>3, <3>4
  <2> QED BY <2>2, <2>4, <2>5 DEF HistoryInv, HistoryExplainsRib
<1>2. ASSUME NEW pa \in Paths, NEW S \in SUBSET Prefixes, Update(pa, S)
      PROVE  HistoryInv'
  <2>1. PathHash[pa] \in Hashes /\ PathHash[pa] # None
    BY RibAssumption
  <2> QED BY <1>1, <1>2, <2>1 DEF Update, CanReceive
<1>3. ASSUME NEW S \in SUBSET Prefixes, Withdraw(S)
      PROVE  HistoryInv'
  BY <1>1, <1>3 DEF Withdraw, CanReceive
<1>4. ASSUME NEW p \in Prefixes, WithdrawKeyError(p)
      PROVE  HistoryInv'
  BY <1>4 DEF WithdrawKeyError, HistoryInv, HistoryExplainsRib, history
<1>5. CASE Refresh \/ GetUpdateRequest \/ UNCHANGED vars
  <2>1. UNCHANGED writerVars
    BY <1>5 DEF Refresh, GetUpdateRequest, GetRefreshItem, GetUpdates, GetKeyError,
                GetEndOfRib, GetNothing, vars
  <2> QED BY <2>1 DEF writerVars, history, HistoryInv, HistoryExplainsRib
<1> QED BY <1>2, <1>3, <1>4, <1>5 DEF Next, Receive

\* The use counts that __str__ reports agree with the RIB (lines 131-141).
THEOREM CountsExplainRib == Spec => []HistoryExplainsRib
<1>1. HistoryInv => HistoryExplainsRib
  BY DEF HistoryInv
<1> QED BY <1>1, InitType, NextType, HistoryInit, HistoryNext, PTL DEF Spec
-----------------------------------------------------------------------------
(* BGPribdb implements RibFeed.  An update announces (a hash of 0, which    *)
(* refresh takes for a withdraw, withdraws), refresh restarts, and both     *)
(* kinds of items that get_update_request returns tell.                     *)

Inv == TypeOK /\ PathsResolvable /\ NoLostAnnouncement

LEMMA AnnouncedHash ==
    ASSUME TypeOK, NEW p \in Prefixes, IsAnnounced(p)
    PROVE  rib[p] \in Hashes
BY DEF TypeOK, IsAnnounced, IsDict, Truthy

LEMMA FeedInit == Init => Feed!Init
BY DEF Init, Feed!Init, Feed!Nothing, CurrentHash, Owed, IsAnnounced, Empty

\* Updates and withdraws of the prefixes S, in terms of the feed.
LEMMA FeedReceive ==
    ASSUME TypeOK, NEW S \in SUBSET Prefixes, NEW h \in Hashes \cup {None},
           NEW pur, h \in DOMAIN pur, IsDict(pur, Hashes \cup {None}, SUBSET Prefixes),
           \A k \in DOMAIN path_update_requests :
              k \in DOMAIN pur /\ path_update_requests[k] \subseteq pur[k],
           \A k \in DOMAIN pur :
              \/ k \in DOMAIN path_update_requests /\ pur[k] = path_update_requests[k]
              \/ pur[k] = {},
           AtomicUpdates(S, h, pur),
           UNCHANGED <<refresh_update_requests, told>>
    PROVE  Feed!Next
<1> DEFINE v == IF Truthy(h) THEN h ELSE None
<1>1. CurrentHash' = Feed!Set(CurrentHash, S, v)
  BY DEF CurrentHash, Feed!Set, AtomicUpdates, Put, IsAnnounced
<1>2. ASSUME NEW p \in Prefixes, p \notin S
      PROVE  /\ IsAnnounced(p)' <=> IsAnnounced(p)
             /\ IsAnnounced(p) => rib'[p] = rib[p]
             /\ \A k \in Hashes \cup {None} : Queued(p, k)' <=> Queued(p, k)
             /\ \A k \in Hashes : InRefresh(p, k)' <=> InRefresh(p, k)
  <2>1. /\ IsAnnounced(p)' <=> IsAnnounced(p)
        /\ IsAnnounced(p) => rib'[p] = rib[p]
    BY <1>2 DEF AtomicUpdates, Put, IsAnnounced
  <2>2. \A k \in Hashes \cup {None} : Queued(p, k)' <=> Queued(p, k)
    BY <1>2 DEF AtomicUpdates, Put, Queued, IsDict
  <2>3. \A k \in Hashes : InRefresh(p, k)' <=> InRefresh(p, k)
    BY DEF InRefresh
  <2> QED BY <2>1, <2>2, <2>3
<1>3. ASSUME NEW p \in Prefixes, p \notin S PROVE p \in Owed' <=> p \in Owed
  BY <1>2, <1>3, AnnouncedHash DEF Owed
<1>4. ASSUME NEW p \in S
      PROVE  /\ IsAnnounced(p)' <=> Truthy(h)
             /\ Queued(p, rib[p])'
  BY DEF AtomicUpdates, Put, IsAnnounced, Queued, IsDict
<1>5. UNCHANGED told
  OBVIOUS
<1>6. CASE Truthy(h)
  <2>1. h \in Hashes
    BY <1>6 DEF Truthy
  <2>2. Owed' = Owed \cup S
    BY <1>3, <1>4, <1>6 DEF Owed
  <2> QED BY <1>1, <1>5, <1>6, <2>1, <2>2 DEF Feed!Next, Feed!Announce
<1>7. CASE ~Truthy(h)
  <2>1. Owed' = Owed \ S
    BY <1>3, <1>4, <1>7 DEF Owed
  <2> QED BY <1>1, <1>5, <1>7, <2>1 DEF Feed!Next, Feed!Withdraw
<1> QED BY <1>6, <1>7

LEMMA FeedNext == Inv /\ [Next]_vars => [Feed!Next]_(Feed!vars)
<1> SUFFICES ASSUME Inv, [Next]_vars PROVE [Feed!Next]_(Feed!vars)
  OBVIOUS
<1> USE DEF Inv
<1>1. ASSUME NEW pa \in Paths, NEW S \in SUBSET Prefixes, Update(pa, S)
      PROVE  Feed!Next
  <2> DEFINE h == PathHash[pa]
             pur == Put(path_update_requests, {h} \ DOMAIN path_update_requests, {})
  <2>1. h \in Hashes
    BY RibAssumption
  <2>2. AtomicUpdates(S, h, pur) /\ UNCHANGED <<refresh_update_requests, told>>
    BY <1>1 DEF Update
  <2>3. IsDict(pur, Hashes \cup {None}, SUBSET Prefixes)
    BY <2>1, PutType DEF TypeOK
  <2>4. /\ h \in DOMAIN pur
        /\ \A k \in DOMAIN path_update_requests :
              k \in DOMAIN pur /\ path_update_requests[k] \subseteq pur[k]
        /\ \A k \in DOMAIN pur :
              \/ k \in DOMAIN path_update_requests /\ pur[k] = path_update_requests[k]
              \/ pur[k] = {}
    BY DEF Put
  <2> QED
    <3> HIDE DEF h, pur
    <3> QED BY <2>1, <2>2, <2>3, <2>4, FeedReceive
<1>2. ASSUME NEW S \in SUBSET Prefixes, Withdraw(S)
      PROVE  Feed!Next
  BY <1>2, FeedReceive DEF Withdraw, TypeOK
<1>3. ASSUME NEW q \in Prefixes, WithdrawKeyError(q)
      PROVE  Feed!Next
  <2>1. ASSUME NEW p \in Prefixes
        PROVE  /\ IsAnnounced(p)' <=> IsAnnounced(p) /\ p # q
               /\ p # q /\ IsAnnounced(p) => rib'[p] = rib[p]
    BY <1>3 DEF WithdrawKeyError, Put, IsAnnounced, Truthy
  <2>2. CurrentHash' = Feed!Set(CurrentHash, {q}, None)
    BY <2>1 DEF CurrentHash, Feed!Set
  <2>3. Owed' = Owed \ {q}
    BY <1>3, <2>1 DEF Owed, WithdrawKeyError, queues, Queued, InRefresh
  <2> QED BY <1>3, <2>2, <2>3 DEF Feed!Next, Feed!Withdraw, WithdrawKeyError
<1>4. CASE Refresh
  <2>1. UNCHANGED CurrentHash
    BY <1>4 DEF Refresh, writerVars, CurrentHash, IsAnnounced
  <2>2. ASSUME NEW p \in Prefixes, IsAnnounced(p)
        PROVE  InRefresh(p, rib[p])'
    <3>1. refresh_update_requests' = RefreshTable /\ RefreshTable # None
      BY <1>4, RefreshTableType, RibAssumption DEF Refresh, IsDict
    <3>2. rib[p] \in DOMAIN RefreshTable /\ p \in RefreshTable[rib[p]]
      BY <2>2 DEF RefreshTable, IsAnnounced
    <3>3. UNCHANGED rib
      BY <1>4 DEF Refresh, writerVars
    <3> QED BY <3>1, <3>2, <3>3 DEF InRefresh
  <2>3. \A p \in Prefixes : IsAnnounced(p)' <=> IsAnnounced(p)
    BY <1>4 DEF Refresh, writerVars, IsAnnounced
  <2>4. UNCHANGED rib
    BY <1>4 DEF Refresh, writerVars
  <2>5. Owed' = {p \in Prefixes : IsAnnounced(p)}
    BY <2>2, <2>3, <2>4, AnnouncedHash DEF Owed
  <2>6. Feed!Announced = {p \in Prefixes : IsAnnounced(p)}
    BY DEF Feed!Announced, CurrentHash, IsAnnounced, Truthy
  <2>7. told' = Feed!Nothing
    BY <1>4 DEF Refresh, Feed!Nothing
  <2> QED BY <2>1, <2>5, <2>6, <2>7 DEF Feed!Next, Feed!Restart
<1>5. ASSUME NEW h \in Hashes, GetRefreshItem(h)
      PROVE  Feed!Next
  <2> DEFINE S == refresh_update_requests[h]
  <2>1. S \in SUBSET Prefixes
    BY <1>5 DEF GetRefreshItem, TypeOK, IsDict
  <2>2. UNCHANGED CurrentHash /\ told' = Feed!Set(told, S, h)
    BY <1>5 DEF GetRefreshItem, Tell, Feed!Set, writerVars, CurrentHash, IsAnnounced
  <2>3. /\ UNCHANGED rib
        /\ \A p \in Prefixes : IsAnnounced(p)' <=> IsAnnounced(p)
        /\ \A p \in Prefixes : \A k : Queued(p, k)' <=> Queued(p, k)
    BY <1>5 DEF GetRefreshItem, writerVars, queues, IsAnnounced, Queued
  <2>4. \A p \in Prefixes, k \in Hashes : InRefresh(p, k)' <=> InRefresh(p, k) /\ k # h
    BY <1>5, RibAssumption DEF GetRefreshItem, Del, Restrict, InRefresh, TypeOK, IsDict
  <2>5. \A p \in Prefixes : InRefresh(p, h) <=> p \in S
    BY <1>5 DEF GetRefreshItem, InRefresh
  <2>6. \A p \in S : IsAnnounced(p) /\ rib[p] # h => Queued(p, rib[p])
    BY <2>1, <2>5 DEF NoLostAnnouncement
  <2>7. {p \in S : CurrentHash[p] \notin {h, None}} \subseteq Owed
    BY <2>1, <2>6 DEF CurrentHash, Owed
  <2>8. Owed' \subseteq Owed
    BY <2>3, <2>4 DEF Owed
  <2>9. Owed \ Owed' \subseteq {p \in S : CurrentHash[p] = h}
    BY <2>3, <2>4, <2>5, <2>6 DEF Owed, CurrentHash
  <2>10. Owed' = Owed \ (Owed \ Owed')
    BY <2>8
  <2> QED BY <2>1, <2>2, <2>7, <2>9, <2>10 DEF Feed!Next, Feed!Tell
<1>6. CASE GetEndOfRib
  <2>1. \A p \in Prefixes, k \in Hashes : ~InRefresh(p, k) /\ ~InRefresh(p, k)'
    BY <1>6 DEF GetEndOfRib, InRefresh
  <2>2. UNCHANGED <<rib, update_requests, path_update_requests, told>>
    BY <1>6 DEF GetEndOfRib, writerVars, queues
  <2> QED BY <2>1, <2>2 DEF Feed!vars, CurrentHash, Owed, IsAnnounced, Queued
<1>7. ASSUME NEW h \in Hashes, GetUpdates(h)
      PROVE  Feed!Next
  <2> DEFINE S == Groomed(h, path_update_requests[h])
  <2>1. S \in SUBSET Prefixes /\ \A p \in S : rib[p] = h
    BY <1>7 DEF Groomed, GetUpdates, PopKeys, TypeOK, IsDict
  <2>2. UNCHANGED rib /\ told' = Feed!Set(told, S, h)
    BY <1>7 DEF GetUpdates, Tell, Feed!Set, writerVars
  <2>3. /\ UNCHANGED CurrentHash
        /\ \A p \in Prefixes : IsAnnounced(p)' <=> IsAnnounced(p)
    BY <2>2 DEF CurrentHash, IsAnnounced
  <2>4. \A p \in Prefixes, k \in Hashes : ~InRefresh(p, k) /\ ~InRefresh(p, k)'
    BY <1>7 DEF GetUpdates, InRefresh
  <2>5. ASSUME NEW p \in Prefixes, IsAnnounced(p), p \notin S
        PROVE  Queued(p, rib[p])' <=> Queued(p, rib[p])
    BY <1>7, <2>2, <2>5
       DEF GetUpdates, Groomed, Queued, Del, Restrict, IsAnnounced, PopKeys
  <2>6. Owed' \subseteq Owed
    BY <1>7, <2>2, <2>3, <2>4 DEF Owed, GetUpdates, Queued, Del, Restrict
  <2>7. Owed \ Owed' \subseteq {p \in S : CurrentHash[p] = h}
    BY <2>1, <2>2, <2>3, <2>4, <2>5 DEF Owed, CurrentHash
  <2>8. {p \in S : CurrentHash[p] \notin {h, None}} = {}
    BY <2>1 DEF CurrentHash
  <2>9. Owed' = Owed \ (Owed \ Owed')
    BY <2>6
  <2> QED BY <2>1, <2>2, <2>3, <2>7, <2>8, <2>9 DEF Feed!Next, Feed!Tell
<1>8. ASSUME NEW h \in Hashes \cup {None}, GetKeyError(h)
      PROVE  UNCHANGED Feed!vars
  <2>1. UNCHANGED <<rib, update_requests, refresh_update_requests, told>>
    BY <1>8 DEF GetKeyError, writerVars
  <2>2. ASSUME NEW p \in Prefixes, IsAnnounced(p)
        PROVE  Queued(p, rib[p])' <=> Queued(p, rib[p])
    <3>1. rib[p] \in DOMAIN path_update_requests => rib[p] # h
      BY <1>8, <2>2, AnnouncedHash DEF GetKeyError, PathsResolvable, IsAnnounced
    <3> QED BY <1>8, <2>1, <3>1 DEF GetKeyError, Queued, Del, Restrict
  <2>3. \A p \in Prefixes : IsAnnounced(p)' <=> IsAnnounced(p)
    BY <2>1 DEF IsAnnounced
  <2>4. UNCHANGED CurrentHash
    BY <2>1 DEF CurrentHash, IsAnnounced
  <2>5. UNCHANGED Owed
    BY <2>1, <2>2, <2>3 DEF Owed, InRefresh
  <2> QED BY <2>1, <2>4, <2>5 DEF Feed!vars
<1>9. ASSUME GetNothing \/ UNCHANGED vars
      PROVE  UNCHANGED Feed!vars
  <2>1. UNCHANGED <<rib, queues, refresh_update_requests, told>>
    BY <1>9 DEF GetNothing, vars, writerVars
  <2> QED BY <2>1 DEF Feed!vars, CurrentHash, Owed, IsAnnounced, Queued, InRefresh, queues
<1> QED BY <1>1, <1>2, <1>3, <1>4, <1>5, <1>6, <1>7, <1>8, <1>9
        DEF Next, Receive, GetUpdateRequest

\* The queues, the grooming, the refresh table and its end-of-RIB together do
\* what RibFeed promises: the consumer knows, or is still owed, the current
\* path of every announced prefix.
THEOREM KeepsThePromise == Spec => ImplementsRibFeed
<1>1. Spec => []Inv
  BY InitType, NextType, PathsInit, PathsNext, NoLostInit, NoLostNext, PTL DEF Spec, Inv
<1> QED BY <1>1, FeedInit, FeedNext, PTL DEF Spec, ImplementsRibFeed, Feed!Spec
-----------------------------------------------------------------------------
\* An ordinary update is never one of a path that has been replaced.  It needs
\* no invariant: groom_updates looks at the RIB itself.
THEOREM UpdatesAreNeverStale == Spec => UpdatesAreCurrent
<1> DEFINE Current == \A p \in Prefixes :
              refresh_update_requests = None /\ told'[p] \notin {told[p], None}
                  => p \in DOMAIN rib /\ told'[p] = rib[p]
<1>1. ASSUME UNCHANGED told PROVE Current
  BY <1>1
<1>2. ASSUME Receive \/ GetEndOfRib \/ GetNothing PROVE Current
  BY <1>1, <1>2 DEF Receive, Update, Withdraw, WithdrawKeyError, GetEndOfRib, GetNothing
<1>3. ASSUME Refresh PROVE Current
  BY <1>3 DEF Refresh
<1>4. ASSUME NEW h \in Hashes, GetRefreshItem(h) PROVE Current
  BY <1>4 DEF GetRefreshItem
<1>5. ASSUME NEW h \in Hashes, GetUpdates(h) PROVE Current
  BY <1>5 DEF GetUpdates, Tell, Groomed
<1>6. ASSUME NEW h \in Hashes \cup {None}, GetKeyError(h) PROVE Current
  BY <1>1, <1>6 DEF GetKeyError
<1>7. Next => Current
  BY <1>2, <1>3, <1>4, <1>5, <1>6 DEF Next, GetUpdateRequest
<1> QED BY <1>7, PTL DEF Spec, UpdatesAreCurrent
=============================================================================

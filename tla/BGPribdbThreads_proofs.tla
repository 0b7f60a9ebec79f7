----------------------- MODULE BGPribdbThreads_proofs -----------------------
(***************************************************************************)
(* Proofs about BGPribdbThreads, for every set of prefixes and hashes and  *)
(* any number of calls.                                                    *)
(***************************************************************************)
EXTENDS BGPribdbThreads, TLAPS

(* What the operations on dicts keep *)

LEMMA PutType ==
    ASSUME NEW K, NEW V, NEW d, IsDict(d, K, V), NEW S \in SUBSET K, NEW v \in V
    PROVE  IsDict(Put(d, S, v), K, V)
BY DEF IsDict, Put

LEMMA DelType == ASSUME NEW K, NEW V, NEW d, IsDict(d, K, V), NEW S
                 PROVE  IsDict(Del(d, S), K, V)
BY DEF IsDict, Del, Restrict

LEMMA EmptyType == ASSUME NEW K, NEW V PROVE IsDict(Empty, K, V)
BY DEF IsDict, Empty
-----------------------------------------------------------------------------

Keys == Hashes \cup {None}
Busy == {"groom", "request", "delete"}

\* What the two threads hold between their steps: the producer a prefix, and
\* a hash when it fills a group, the consumer the hash that it popped.
InCall ==
    /\ db_lock <=> writer.at # "idle"
    /\ writer.at # "idle" => writer.pfx \in Prefixes
    /\ writer.at = "group" => writer.hash \in Hashes
    /\ reader.at # "idle" => reader.pa_hash \in Hashes
    /\ reader.at \in {"request", "delete"} => reader.pfx \in Prefixes

\* The prefixes that the consumer has found to have the hash it popped.
Found == reader.new_pfxlist
         \cup (IF reader.at \in {"request", "delete"} THEN {reader.pfx} ELSE {})

TypeInv == TypeOK /\ InCall

LEMMA TypeInit == Init => TypeInv
<1> SUFFICES ASSUME Init PROVE TypeInv
  OBVIOUS
<1>1. IsDict(Empty, Prefixes, Keys) /\ IsDict(NoWithdraws, Keys, SUBSET Prefixes)
  BY EmptyType DEF NoWithdraws, IsDict, Keys
<1>2. TypeOK
  <2>1. /\ IsDict(rib, Prefixes, Keys) /\ IsDict(update_requests, Prefixes, Keys)
        /\ IsDict(path_update_requests, Keys, SUBSET Prefixes)
    BY <1>1 DEF Init
  <2>2. writer \in [at : {"idle", "group", "rib", "append", "request", "raised"},
                   pfx : Prefixes \cup {None}, hash : Hashes \cup {None}]
    BY DEF Init, IdleWriter
  <2>3. reader \in [at : {"idle", "groom", "request", "delete"},
                   pa_hash : Keys, pfx : Prefixes \cup {None},
                   pfxlist : SUBSET Prefixes, new_pfxlist : SUBSET Prefixes]
    BY DEF Init, IdleReader, Keys
  <2>4. calls \in 0 .. MaxCalls
    BY ThreadsAssumption DEF Init
  <2>5. refresh_update_requests = None /\ db_lock \in BOOLEAN
    BY DEF Init
  <2>6. /\ told \in [Prefixes -> Keys]
        /\ touched \subseteq Prefixes /\ current \subseteq Prefixes \X Keys
    BY DEF Init, Keys
  <2> QED BY <2>1, <2>2, <2>3, <2>4, <2>5, <2>6 DEF TypeOK, Keys
<1>3. InCall
  BY ThreadsAssumption DEF Init, InCall, IdleWriter, IdleReader
<1> QED BY <1>2, <1>3 DEF TypeInv

LEMMA RefreshTableType == ASSUME TypeOK PROVE IsDict(RefreshTable, Hashes, SUBSET Prefixes)
BY DEF TypeOK, RefreshTable, Truthy, IsDict

LEMMA TypeProducer == TypeInv /\ Producer => TypeInv'
<1> SUFFICES ASSUME TypeInv, Producer PROVE TypeInv'
  OBVIOUS
<1> USE DEF TypeInv, TypeOK, InCall
<1>1. ASSUME NEW p \in Prefixes, NEW h \in Keys, Call(p, h) PROVE TypeInv'
  BY <1>1, ThreadsAssumption DEF Call, table, Keys
<1>2. CASE MakeGroup
  <2>1. IsDict(Put(path_update_requests, {writer.hash} \ DOMAIN path_update_requests, {}),
               Keys, SUBSET Prefixes)
    BY <1>2, PutType DEF MakeGroup, Keys
  <2> QED BY <1>2, <2>1 DEF MakeGroup, Keys
<1>3. CASE SetRib
  <2>1. IsDict(Put(rib, {writer.pfx}, writer.hash), Prefixes, Keys)
    BY <1>3, PutType DEF SetRib, Keys
  <2>2. current' \subseteq Prefixes \X Keys
    BY <1>3 DEF SetRib, Keys
  <2> QED BY <1>3, <2>1, <2>2 DEF SetRib, Keys
<1>4. CASE AppendToGroup
  <2>1. IsDict([path_update_requests EXCEPT ![writer.hash] = @ \cup {writer.pfx}],
               Keys, SUBSET Prefixes)
    BY <1>4 DEF AppendToGroup, Keys, IsDict
  <2> QED BY <1>4, <2>1 DEF AppendToGroup, Keys
<1>5. CASE AppendKeyError
  BY <1>5 DEF AppendKeyError, table
<1>6. CASE SetRequest
  <2>1. IsDict(Put(update_requests, {writer.pfx}, writer.hash), Prefixes, Keys)
    BY <1>6, PutType DEF SetRequest, Keys
  <2> QED BY <1>6, <2>1 DEF SetRequest, Keys, IdleWriter
<1> QED BY <1>1, <1>2, <1>3, <1>4, <1>5, <1>6 DEF Producer, Keys

\* What the consumer learns has the right type.
LEMMA LearnType ==
    ASSUME TypeOK, NEW S, NEW h \in Hashes, Learn(S, h)
    PROVE  told' \in [Prefixes -> Hashes \cup {None}]
BY DEF Learn, TypeOK

LEMMA TypeConsumer == TypeInv /\ Consumer => TypeInv'
<1> SUFFICES ASSUME TypeInv, Consumer PROVE TypeInv'
  OBVIOUS
<1> USE DEF TypeInv, TypeOK, InCall
<1>1. CASE Refresh
  <2>1. IsDict(Empty, Prefixes, Keys) /\ IsDict(NoWithdraws, Keys, SUBSET Prefixes)
    BY EmptyType DEF NoWithdraws, IsDict, Keys
  <2> QED BY <1>1, <2>1, RefreshTableType DEF Refresh, Keys
<1>2. CASE GetEndOfRib
  BY <1>2 DEF GetEndOfRib
<1>3. CASE GetNone
  <2>1. IsDict(Del(path_update_requests, {None}), Keys, SUBSET Prefixes)
    BY DelType DEF Keys
  <2> QED BY <1>3, <2>1 DEF GetNone, Keys
<1>4. ASSUME NEW h \in Hashes, GetRefreshItem(h) PROVE TypeInv'
  <2>1. IsDict(Del(refresh_update_requests, {h}), Hashes, SUBSET Prefixes)
    BY <1>4, DelType DEF GetRefreshItem
  <2> QED BY <1>4, <2>1, LearnType DEF GetRefreshItem
<1>5. ASSUME NEW h \in Hashes, PopGroup(h) PROVE TypeInv'
  <2>1. IsDict(Del(path_update_requests, {h}), Keys, SUBSET Prefixes)
    BY DelType DEF Keys
  <2>2. path_update_requests[h] \in SUBSET Prefixes
    BY <1>5 DEF PopGroup, IsDict
  <2>3. Entries \subseteq Prefixes \X Keys
    BY DEF Entries, IsDict, Keys
  <2> QED BY <1>5, <2>1, <2>2, <2>3 DEF PopGroup, IdleReader, Keys
<1>6. ASSUME NEW p \in Prefixes, GroomRib(p) PROVE TypeInv'
  BY <1>6 DEF GroomRib, table
<1>7. CASE GroomRequest
  BY <1>7 DEF GroomRequest, table
<1>8. CASE GroomDelete
  <2>1. IsDict(Del(update_requests, {reader.pfx}), Prefixes, Keys)
    BY DelType DEF Keys
  <2> QED BY <1>8, <2>1 DEF GroomDelete, Keys
<1>9. CASE ReturnUpdates
  <2>1. told' \in [Prefixes -> Hashes \cup {None}]
    BY <1>9, LearnType DEF ReturnUpdates
  <2> QED BY <1>9, <2>1 DEF ReturnUpdates, table, IdleReader
<1> QED BY <1>1, <1>2, <1>3, <1>4, <1>5, <1>6, <1>7, <1>8, <1>9 DEF Consumer

LEMMA TypeNext == TypeInv /\ [Next]_vars => TypeInv'
<1>1. TypeInv /\ UNCHANGED vars => TypeInv'
  BY DEF TypeInv, TypeOK, InCall, vars, table, IsDict
<1> QED BY <1>1, TypeProducer, TypeConsumer DEF Next

\* However the two threads interleave, the shared dicts keep their types.
THEOREM ThreadsTypeCorrect == Spec => []TypeOK
<1>1. TypeInv => TypeOK
  BY DEF TypeInv
<1> QED BY <1>1, TypeInit, TypeNext, PTL DEF Spec
-----------------------------------------------------------------------------
(* What the consumer is told.  A path that it has looked up in the RIB was  *)
(* there since its call began.                                              *)

Looked ==
    reader.at # "idle" =>
        /\ Entries \subseteq current
        /\ \A p \in Found : <<p, reader.pa_hash>> \in current

\* A request comes after a write of its prefix since the last refresh, which
\* only the consumer can ask for and which finds no writer in a call.
RequestsAreNew ==
    /\ DOMAIN update_requests \subseteq touched
    /\ writer.at \in {"append", "request"} => writer.pfx \in touched
    /\ reader.at = "delete" => reader.pfx \in touched
    /\ reader.at = "idle" => reader.new_pfxlist = {}
    /\ reader.new_pfxlist \subseteq touched

\* What is in the refresh table under a hash has that hash, unless written.
TableIsCurrent ==
    refresh_update_requests # None =>
        \A h \in DOMAIN refresh_update_requests :
            \A p \in refresh_update_requests[h] :
                p \notin touched => p \in DOMAIN rib /\ rib[p] = h

\* A request that differs from the RIB is about to be set by the producer.
RequestsCome ==
    /\ writer.at \in {"append", "request", "raised"} =>
          writer.pfx \in DOMAIN rib /\ rib[writer.pfx] = writer.hash
    /\ \A p \in DOMAIN update_requests :
          p \in DOMAIN rib
          /\ (rib[p] = update_requests[p]
               \/ (p = writer.pfx /\ writer.at \in {"append", "request", "raised"}))

Rest == Looked /\ RequestsAreNew /\ TableIsCurrent /\ RequestsCome

Inv == TypeInv /\ Rest /\ RefreshRepairs

LEMMA InvInit == Init => Inv
<1> SUFFICES ASSUME Init PROVE Inv
  OBVIOUS
<1>1. TypeInv
  BY TypeInit
<1>2. Rest /\ RefreshRepairs
  BY DEF Init, Rest, Looked, RequestsAreNew, TableIsCurrent, RequestsCome, RefreshRepairs,
         Empty, IdleReader, IdleWriter
<1> QED BY <1>1, <1>2 DEF Inv

\* The producer keeps the rest of the invariant: SetRib touches the prefix.
LEMMA ProducerRest ==
    ASSUME Inv, Producer PROVE Rest'
<1> USE DEF Inv, TypeInv, TypeOK, InCall, Rest, Looked, RequestsAreNew, TableIsCurrent,
            RequestsCome, Found, Entries
<1>1. ASSUME NEW p \in Prefixes, NEW h \in Keys, Call(p, h)
      PROVE  Rest'
  BY <1>1 DEF Call, table
<1>2. CASE MakeGroup
  BY <1>2 DEF MakeGroup
<1>3. CASE SetRib
  <2>1. /\ DOMAIN rib' = DOMAIN rib \cup {writer.pfx}
        /\ \A p \in DOMAIN rib' :
              rib'[p] = IF p = writer.pfx THEN writer.hash ELSE rib[p]
    BY <1>3 DEF SetRib, Put
  <2>2. Looked'
    <3> SUFFICES ASSUME reader.at # "idle" PROVE Looked'
      BY <1>3 DEF SetRib
    <3>1. /\ reader' = reader /\ touched' = touched \cup {writer.pfx}
          /\ current' = current \cup {<<writer.pfx, writer.hash>>}
      BY <1>3 DEF SetRib
    <3>2. Entries' \subseteq current'
      BY <2>1, <3>1
    <3>3. \A p \in Found' :
              <<p, reader'.pa_hash>> \in current'
      BY <2>1, <3>1
    <3> QED BY <3>2, <3>3
  <2>3. TableIsCurrent'
    <3>1. /\ touched' = touched \cup {writer.pfx}
          /\ UNCHANGED refresh_update_requests
      BY <1>3 DEF SetRib
    <3>2. \A p \in DOMAIN rib \ touched' : p \in DOMAIN rib' /\ rib'[p] = rib[p]
      BY <2>1, <3>1
    <3> QED BY <3>1, <3>2
  <2>4. RequestsCome'
    BY <1>3, <2>1 DEF SetRib
  <2>5. RequestsAreNew'
    BY <1>3 DEF SetRib
  <2> QED BY <2>2, <2>3, <2>4, <2>5
<1>4. CASE AppendToGroup
  BY <1>4 DEF AppendToGroup
<1>5. CASE AppendKeyError
  BY <1>5 DEF AppendKeyError, table
<1>6. CASE SetRequest
  <2>1. /\ DOMAIN update_requests' = DOMAIN update_requests \cup {writer.pfx}
        /\ \A p \in DOMAIN update_requests' :
              update_requests'[p] = IF p = writer.pfx THEN writer.hash
                                                      ELSE update_requests[p]
    BY <1>6 DEF SetRequest, Put
  <2>2. writer.at = "request" /\ writer'.at = "idle" /\ rib' = rib
    BY <1>6 DEF SetRequest, IdleWriter
  <2>4. writer.pfx \in DOMAIN rib /\ rib[writer.pfx] = writer.hash
    BY <2>2
  <2>5. RequestsCome'
    <3>1. \A p \in DOMAIN update_requests' : p \in DOMAIN rib' /\ rib'[p] = update_requests'[p]
      <4> SUFFICES ASSUME NEW p \in DOMAIN update_requests'
                   PROVE  p \in DOMAIN rib' /\ rib'[p] = update_requests'[p]
        OBVIOUS
      <4>1. CASE p = writer.pfx
        BY <4>1, <2>1, <2>2, <2>4
      <4>2. CASE p # writer.pfx
        BY <4>2, <2>1, <2>2
      <4> QED BY <4>1, <4>2
    <3> QED BY <3>1, <2>2
  <2>3. Looked' /\ TableIsCurrent'
    BY <1>6 DEF SetRequest
  <2>6. RequestsAreNew'
    BY <1>6, <2>1 DEF SetRequest, IdleWriter
  <2> QED BY <2>3, <2>5, <2>6
<1> QED BY <1>1, <1>2, <1>3, <1>4, <1>5, <1>6 DEF Producer, Keys

\* What the consumer deletes leaves the other keys as they are.
LEMMA GetRefreshItemKeeps ==
    ASSUME NEW h \in Hashes, GetRefreshItem(h)
    PROVE  /\ DOMAIN refresh_update_requests' = DOMAIN refresh_update_requests \ {h}
           /\ \A k \in DOMAIN refresh_update_requests' :
                 refresh_update_requests'[k] = refresh_update_requests[k]
<1>1. refresh_update_requests' = Del(refresh_update_requests, {h})
  BY DEF GetRefreshItem
<1> QED BY <1>1, Zenon DEF Del, Restrict

LEMMA GroomDeleteKeeps ==
    ASSUME GroomDelete
    PROVE  /\ DOMAIN update_requests' \subseteq DOMAIN update_requests
           /\ \A p \in DOMAIN update_requests' : update_requests'[p] = update_requests[p]
<1>1. update_requests' = Del(update_requests, {reader.pfx})
  BY DEF GroomDelete
<1> QED BY <1>1, Zenon DEF Del, Restrict

\* The consumer keeps it too: it sends what it has looked up, and a refresh
\* puts every announced prefix under the hash it has.
LEMMA ConsumerRest ==
    ASSUME Inv, Consumer PROVE Rest'
<1> USE DEF Inv, TypeInv, TypeOK, InCall, Rest, Looked, RequestsAreNew, TableIsCurrent,
            RequestsCome, Found, Entries
<1>1. CASE Refresh
  <2>1. Looked' /\ RequestsCome' /\ RequestsAreNew'
    BY <1>1 DEF Refresh, Empty
  <2>2. /\ rib' = rib /\ refresh_update_requests' = RefreshTable
        /\ \A h \in DOMAIN RefreshTable : \A p \in RefreshTable[h] :
              p \in DOMAIN rib /\ rib[p] = h
    BY <1>1 DEF Refresh, RefreshTable
  <2> QED BY <2>1, <2>2
<1>2. CASE GetEndOfRib
  BY <1>2 DEF GetEndOfRib
<1>3. CASE GetNone
  BY <1>3 DEF GetNone
<1>4. ASSUME NEW h \in Hashes, GetRefreshItem(h)
      PROVE  Rest'
  <2> DEFINE T == refresh_update_requests
  <2>1. /\ DOMAIN T' = DOMAIN T \ {h}
        /\ \A k \in DOMAIN T' : T'[k] = T[k]
    BY <1>4, GetRefreshItemKeeps
  <2>2. /\ UNCHANGED <<rib, update_requests, writer, reader, touched, current>>
        /\ h \in DOMAIN T /\ T # None /\ reader.at = "idle"
    BY <1>4 DEF GetRefreshItem
  <2> QED BY <2>1, <2>2
<1>5. ASSUME NEW h \in Hashes, PopGroup(h)
      PROVE  Rest'
  BY <1>5 DEF PopGroup, IdleReader
<1>6. ASSUME NEW p \in Prefixes, GroomRib(p)
      PROVE  Rest'
  <2>1. TableIsCurrent' /\ RequestsCome' /\ RequestsAreNew'
    BY <1>6 DEF GroomRib, table
  <2>2. Looked'
    <3>1. /\ UNCHANGED <<rib, touched, current>> /\ reader.at = "groom"
          /\ reader'.pa_hash = reader.pa_hash
          /\ reader'.new_pfxlist = reader.new_pfxlist
      BY <1>6 DEF GroomRib, table
    <3>2. \A q \in Found' : q \in Found
                             \/ (q = p /\ p \in DOMAIN rib /\ rib[p] = reader.pa_hash)
      BY <1>6, <3>1 DEF GroomRib
    <3> QED BY <3>1, <3>2
  <2> QED BY <2>1, <2>2
<1>7. CASE GroomRequest
  BY <1>7 DEF GroomRequest, table
<1>8. CASE GroomDelete
  <2>1. /\ DOMAIN update_requests' \subseteq DOMAIN update_requests
        /\ \A p \in DOMAIN update_requests' : update_requests'[p] = update_requests[p]
    BY <1>8, GroomDeleteKeeps
  <2>2. RequestsCome' /\ RequestsAreNew'
    BY <1>8, <2>1 DEF GroomDelete
  <2>3. Found' = Found
    BY <1>8 DEF GroomDelete
  <2>4. Looked' /\ TableIsCurrent'
    BY <1>8, <2>3 DEF GroomDelete
  <2> QED BY <2>2, <2>4
<1>9. CASE ReturnUpdates
  BY <1>9 DEF ReturnUpdates, table, IdleReader
<1> QED BY <1>1, <1>2, <1>3, <1>4, <1>5, <1>6, <1>7, <1>8, <1>9 DEF Consumer

\* A prefix stays repaired as long as nothing about it changes.
LEMMA SameRepair ==
    ASSUME NEW p, Repaired(p), rib'[p] = rib[p], told'[p] = told[p],
           rib[p] \in Hashes \/ ~Truthy(rib[p]),
           \A h \in Hashes : InRefresh(p, h)' <=> InRefresh(p, h)
    PROVE  Repaired(p)'
BY DEF Repaired, Truthy

\* An update that is not part of the refresh tells nothing of a prefix that was
\* not written since: its request would have to be from before.
LEMMA RepairsNext == ASSUME Inv, Next PROVE RefreshRepairs'
<1> SUFFICES ASSUME NEW p \in DOMAIN rib' \ touched' PROVE Repaired(p)'
  BY Zenon DEF RefreshRepairs
<1> USE DEF Inv, TypeInv, TypeOK
<1>0. ASSUME p \in DOMAIN rib \ touched
      PROVE  Repaired(p) /\ p \in Prefixes /\ (rib[p] \in Hashes \/ ~Truthy(rib[p]))
  BY <1>0 DEF RefreshRepairs, IsDict, Truthy
<1>1. CASE SetRib
  <2>1. p \in DOMAIN rib \ touched /\ rib'[p] = rib[p]
    BY <1>1 DEF SetRib, Put
  <2>2. told' = told /\ refresh_update_requests' = refresh_update_requests
    BY <1>1 DEF SetRib
  <2> QED BY <1>0, <2>1, <2>2, SameRepair DEF InRefresh
<1>2. CASE Refresh
  <2>1. /\ rib' = rib /\ refresh_update_requests' = RefreshTable
        /\ p \in Prefixes /\ told'[p] = None
    BY <1>2 DEF Refresh, IsDict
  <2>2. RefreshTable # None
    BY RefreshTableType, ThreadsAssumption DEF IsDict
  <2>3. CASE Truthy(rib[p])
    <3>1. rib[p] \in DOMAIN RefreshTable /\ p \in RefreshTable[rib[p]]
      BY <2>1, <2>3 DEF RefreshTable
    <3> QED BY <2>1, <2>2, <2>3, <3>1 DEF Repaired, InRefresh, Truthy
  <2>4. CASE ~Truthy(rib[p])
    <3>1. \A h \in DOMAIN RefreshTable : p \notin RefreshTable[h]
      BY <2>4 DEF RefreshTable
    <3> QED BY <2>1, <2>4, <3>1 DEF Repaired, InRefresh, Truthy
  <2> QED BY <2>3, <2>4
<1>3. ASSUME NEW h \in Hashes, GetRefreshItem(h) PROVE Repaired(p)'
  <2> DEFINE T == refresh_update_requests
  <2>1. /\ DOMAIN T' = DOMAIN T \ {h}
        /\ \A k \in DOMAIN T' : T'[k] = T[k]
    BY <1>3, GetRefreshItemKeeps
  <2>2. IsDict(T', Hashes, SUBSET Prefixes)
    BY <1>3, DelType DEF GetRefreshItem
  <2>3. T' # None
    BY <2>2, ThreadsAssumption DEF IsDict
  <2>4. /\ UNCHANGED <<rib, touched>> /\ T # None /\ h \in DOMAIN T
        /\ p \in Prefixes => told'[p] = IF p \in T[h] THEN h ELSE told[p]
    BY <1>3 DEF GetRefreshItem, Learn
  <2>5. /\ Repaired(p) /\ p \in Prefixes /\ p \in DOMAIN rib \ touched
        /\ rib[p] \in Hashes \/ ~Truthy(rib[p])
    BY <1>0, <2>4
  <2>6. CASE p \in T[h]
    <3>1. rib[p] = h
      BY <2>4, <2>5, <2>6 DEF Rest, TableIsCurrent
    <3>2. InRefresh(p, h)
      BY <2>4, <2>6 DEF InRefresh
    <3>3. Truthy(rib[p])
      BY <2>5, <3>2 DEF Repaired
    <3> QED BY <2>4, <2>5, <2>6, <3>1, <3>3 DEF Repaired, Truthy
  <2>7. CASE p \notin T[h]
    <3>1. told'[p] = told[p] /\ rib'[p] = rib[p]
      BY <2>4, <2>5, <2>7
    <3>2. \A k \in Hashes : InRefresh(p, k)' <=> InRefresh(p, k)
      BY <2>1, <2>3, <2>4, <2>7 DEF InRefresh
    <3> QED BY <2>5, <3>1, <3>2, SameRepair
  <2> QED BY <2>6, <2>7
<1>4. CASE ReturnUpdates
  <2>1. UNCHANGED <<rib, refresh_update_requests, touched>>
    BY <1>4 DEF ReturnUpdates, table
  <2>2. p \in Prefixes /\ p \notin reader.new_pfxlist
    BY <1>0, <2>1 DEF Rest, RequestsAreNew
  <2>3. told'[p] = told[p]
    BY <1>4, <2>2 DEF ReturnUpdates, Learn
  <2> QED BY <1>0, <2>1, <2>3, SameRepair DEF InRefresh
<1>5. CASE GetEndOfRib
  <2>1. /\ UNCHANGED <<rib, told, touched>> /\ refresh_update_requests' = None
        /\ DOMAIN refresh_update_requests = {}
    BY <1>5 DEF GetEndOfRib
  <2> QED BY <1>0, <2>1, SameRepair DEF InRefresh
<1>6. CASE UNCHANGED <<rib, told, touched, refresh_update_requests>>
  BY <1>0, <1>6, SameRepair DEF InRefresh
<1> QED BY <1>1, <1>2, <1>3, <1>4, <1>5, <1>6
       DEF Next, Producer, Consumer, Call, MakeGroup, AppendToGroup, AppendKeyError,
           SetRequest, GetNone, PopGroup, GroomRib, GroomRequest, GroomDelete, table

LEMMA InvNext == Inv /\ [Next]_vars => Inv'
<1>1. Inv /\ UNCHANGED vars => Inv'
  <2> SUFFICES ASSUME Inv, UNCHANGED vars PROVE Inv'
    OBVIOUS
  <2>1. TypeInv'
    BY TypeNext DEF Inv
  <2>2. Rest'
    BY DEF Inv, Rest, Looked, RequestsAreNew, TableIsCurrent, RequestsCome, Found,
           Entries, vars, table
  <2>3. RefreshRepairs'
    BY DEF Inv, RefreshRepairs, Repaired, InRefresh, Truthy, vars, table
  <2> QED BY <2>1, <2>2, <2>3 DEF Inv
<1>2. Inv /\ Next => TypeInv'
  BY TypeNext DEF Inv
<1>3. Inv /\ Next => Rest' /\ RefreshRepairs'
  BY ProducerRest, ConsumerRest, RepairsNext DEF Next
<1> QED BY <1>1, <1>2, <1>3 DEF Inv

LEMMA InvAlways == Spec => []Inv
BY InvInit, InvNext, PTL DEF Spec

\* However GroomDelete (193-194) interleaves with add_table_entry (123-125),
\* no request is left that differs from the RIB.
THEOREM RequestsMatch == Spec => []RequestsMatchRib
<1>1. Inv => RequestsMatchRib
  BY DEF Inv, Rest, RequestsCome, RequestsMatchRib
<1> QED BY <1>1, InvAlways, PTL

\* What a refresh has sent is the RIB, but for the prefixes written since and
\* those whose hash is 0, whatever the producer does while the consumer reads
\* the refresh table.
THEOREM RefreshesRepair == Spec => []RefreshRepairs
<1>1. Inv => RefreshRepairs
  BY DEF Inv
<1> QED BY <1>1, InvAlways, PTL

\* get_update_request never returns a path that was replaced before the call.
THEOREM ToldIsCurrent == Spec => ToldWasCurrent
<1> DEFINE Said == \A p \in Prefixes :
                      reader.at = "groom" /\ told'[p] # told[p]
                          => <<p, told'[p]>> \in current
<1>1. Inv /\ [Next]_vars => [Said]_vars
  <2> SUFFICES ASSUME Inv, Next, NEW p \in Prefixes,
                      reader.at = "groom", told'[p] # told[p]
               PROVE  <<p, told'[p]>> \in current
    OBVIOUS
  <2>1. told' = told \/ ReturnUpdates
    BY DEF Next, Producer, Consumer, Call, MakeGroup, SetRib, AppendToGroup,
           AppendKeyError, SetRequest, Refresh, GetRefreshItem, GetEndOfRib,
           GetNone, PopGroup, GroomRib, GroomRequest, GroomDelete
  <2>2. ReturnUpdates
    BY <2>1
  <2>3. p \in reader.new_pfxlist /\ told'[p] = reader.pa_hash
    BY <2>2 DEF ReturnUpdates, Learn
  <2> QED BY <2>3 DEF Inv, Rest, Looked, Found
<1> QED BY <1>1, InvAlways, PTL DEF Spec, ToldWasCurrent
=============================================================================

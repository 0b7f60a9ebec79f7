------------------------------ MODULE RibFeed ------------------------------
(***************************************************************************)
(* What a routing table promises the reader of its update feed.  A writer  *)
(* announces and withdraws prefixes; a reader asks for updates, one group  *)
(* of prefixes that share a value at a time, and may ask to start over     *)
(* from nothing.  The table owes the reader every announced prefix whose   *)
(* current value the reader has not been told.  The queues that the real   *)
(* table keeps for this are in BGPribdb; here there is only the promise.   *)
(***************************************************************************)
CONSTANTS Prefixes,   \* the keys of the table
          Values,     \* what a prefix can be announced with
          None        \* no value: the prefix is not announced

VARIABLES cur,        \* the value each prefix is announced with, or None
          told,       \* the value the reader was last told, or None
          owed        \* the announced prefixes that the table must still tell

vars == <<cur, told, owed>>

Set(f, S, v) == [p \in Prefixes |-> IF p \in S THEN v ELSE f[p]]
Nothing == [p \in Prefixes |-> None]
Announced == {p \in Prefixes : cur[p] # None}

Init == cur = Nothing /\ told = Nothing /\ owed = {}

Announce(S, v) == /\ cur' = Set(cur, S, v)
                  /\ owed' = owed \cup S
                  /\ UNCHANGED told

Withdraw(S) == /\ cur' = Set(cur, S, None)
               /\ owed' = owed \ S
               /\ UNCHANGED told

\* The reader forgets what it knew and is owed the whole table.
Restart == /\ told' = Nothing
           /\ owed' = Announced
           /\ UNCHANGED cur

\* Telling a value that is no longer current is allowed, when the current
\* value stays owed.  A prefix may be told more often than it has to be.
Tell(S, v) ==
    /\ {p \in S : cur[p] \notin {v, None}} \subseteq owed
    /\ told' = Set(told, S, v)
    /\ \E D \in SUBSET {p \in S : cur[p] = v} : owed' = owed \ D
    /\ UNCHANGED cur

Next == \E S \in SUBSET Prefixes :
            \/ Withdraw(S)
            \/ Restart
            \/ \E v \in Values : Announce(S, v) \/ Tell(S, v)

Spec == Init /\ [][Next]_vars

\* The promise: whatever the table no longer owes, the reader knows.
Kept == \A p \in Announced \ owed : told[p] = cur[p]
=============================================================================

-------------------------- MODULE Collector_proofs --------------------------
(***************************************************************************)
(* Proofs about Collector, for any number of threads.                      *)
(***************************************************************************)
EXTENDS Collector, TLAPS

\* What holds of one thread at each place of its run().
Place(c) ==
    /\ at[c] \in {"start", "bind"} => sock[c] = "none" /\ tries[c] < BindTries
    /\ at[c] = "start" => connections[c] = 0
    /\ at[c] \in {"session", "close"} => raised[c] = "nothing"
    /\ at[c] \in {"session", "close"} => state[c] \in {"Connected", "Disconnected"}
    /\ at[c] = "session" => sock[c] \in {"open", "ended", "broken"}
    /\ at[c] = "accept" /\ state[c] = "Error" => raised[c] # "nothing"
    /\ at[c] = "connect" => c \in Talkers /\ (connections[c] > 0 => paused[c])

Released(c) ==
    at[c] \in {"connect", "accept"} /\ sock[c] \notin {"none", "closed"}
        => raised[c] # "nothing" \/ (c \in Listeners /\ sock[c] = "broken")

Ended(c) ==
    at[c] = "exited" =>
        /\ raised[c] # "nothing"
        /\ state[c] \in {"Connected", "Disconnected"} =>
               raised[c] = "SystemExit" /\ sock[c] # "closed"

Good(c) == Place(c) /\ Released(c) /\ Ended(c)

Inv == TypeOK /\ \A c \in Threads : Good(c)

\* A step of thread c leaves the other threads alone.
OnlyOf(c) == \A d \in Threads \ {c} :
                 /\ state'[d] = state[d] /\ connections'[d] = connections[d]
                 /\ sock'[d] = sock[d] /\ at'[d] = at[d]
                 /\ raised'[d] = raised[d] /\ paused'[d] = paused[d]
                 /\ tries'[d] = tries[d]

LEMMA Frame == ASSUME NEW c \in Threads, Inv, TypeOK', OnlyOf(c), Good(c)'
               PROVE  Inv'
<1>1. ASSUME NEW d \in Threads \ {c} PROVE Good(d)'
  <2>1. Good(d)
    BY DEF Inv
  <2> QED BY <2>1 DEF OnlyOf, Good, Place, Released, Ended
<1> QED BY <1>1 DEF Inv

LEMMA InitInv == Init => Inv
BY CollectorAssumption
   DEF Init, Inv, TypeOK, States, Good, Place, Released, Ended, Threads

LEMMA StartInv == ASSUME Inv, NEW c \in Threads, Start(c) PROVE Inv'
<1>1. TypeOK' /\ OnlyOf(c)
  BY DEF Inv, TypeOK, States, OnlyOf, Start, Go, Set, history
<1>2. Good(c)'
  BY DEF Inv, TypeOK, Good, Place, Released, Ended, Start, Go, Set, history, Threads
<1> QED BY <1>1, <1>2, Frame

LEMMA LoseInv == ASSUME Inv, NEW c \in Threads, NEW how \in {"ended", "broken"},
                        Lose(c, how)
                 PROVE  Inv'
<1>1. TypeOK' /\ OnlyOf(c)
  BY DEF Inv, TypeOK, OnlyOf, Lose, Set, history
<1>2. Good(c)'
  BY DEF Inv, TypeOK, Good, Place, Released, Ended, Lose, Set, history
<1> QED BY <1>1, <1>2, Frame

LEMMA InSessionInv == ASSUME Inv, NEW c \in Threads, InSession(c) PROVE Inv'
<1>1. CASE SessionEnds(c)
  <2>1. TypeOK' /\ OnlyOf(c)
    BY <1>1 DEF Inv, TypeOK, States, OnlyOf, SessionEnds, Go, Set, history
  <2>2. Good(c)'
    BY <1>1 DEF Inv, TypeOK, Good, Place, Released, Ended, SessionEnds, Go, Set, history
  <2> QED BY <2>1, <2>2, Frame
<1>2. CASE SendFails(c)
  <2>1. TypeOK' /\ OnlyOf(c)
    BY <1>2 DEF Inv, TypeOK, States, OnlyOf, SendFails, Set, history
  <2>2. Good(c)'
    BY <1>2 DEF Inv, TypeOK, Good, Place, Released, Ended, SendFails, Set, history
  <2> QED BY <2>1, <2>2, Frame
<1>3. CASE SessionExits(c)
  <2>1. TypeOK' /\ OnlyOf(c)
    BY <1>3 DEF Inv, TypeOK, OnlyOf, SessionExits, Go, Set, attrs
  <2>2. Good(c)'
    BY <1>3 DEF Inv, TypeOK, Good, Place, Released, Ended, SessionExits, Go, Set, attrs
  <2> QED BY <2>1, <2>2, Frame
<1> QED BY <1>1, <1>2, <1>3 DEF InSession

LEMMA TalkerInv == ASSUME Inv, NEW c \in Talkers, Talker(c) PROVE Inv'
<1> USE DEF Inv, TypeOK
<1>0. c \in Threads
  BY DEF Threads
<1>1. CASE Connect(c)
  <2>1. TypeOK' /\ OnlyOf(c)
    BY <1>0, <1>1, CollectorAssumption DEF States, OnlyOf, Connect, Connected, Go, Set
  <2>2. Good(c)'
    BY <1>0, <1>1 DEF Good, Place, Released, Ended, Connect, Connected, Go, Set
  <2> QED BY <1>0, <2>1, <2>2, Frame
<1>2. CASE \E from \in {"connect", "session"} : GiveUp(c, from)
  <2>1. TypeOK' /\ OnlyOf(c)
    BY <1>0, <1>2 DEF States, OnlyOf, GiveUp, Go, Set
  <2>2. Good(c)'
    BY <1>0, <1>2 DEF Good, Place, Released, Ended, GiveUp, Go, Set
  <2> QED BY <1>0, <2>1, <2>2, Frame
<1>3. CASE Retry(c, "connect") /\ UNCHANGED <<sock, raised>>
  <2>1. TypeOK' /\ OnlyOf(c)
    BY <1>0, <1>3 DEF States, OnlyOf, Retry, Go, Set
  <2>2. Good(c)'
    BY <1>0, <1>3 DEF Good, Place, Released, Ended, Retry, Go, Set
  <2> QED BY <1>0, <2>1, <2>2, Frame
<1>4. CASE CloseAndShutdown(c)
  <2>1. TypeOK' /\ OnlyOf(c)
    BY <1>0, <1>4 DEF States, OnlyOf, CloseAndShutdown, Retry, Go, Set
  <2>2. Good(c)'
    BY <1>0, <1>4 DEF Good, Place, Released, Ended, CloseAndShutdown, Retry, Go, Set
  <2> QED BY <1>0, <2>1, <2>2, Frame
<1>5. CASE Retry(c, "session") /\ Set(raised, c, "OSError") /\ UNCHANGED sock
  <2>1. TypeOK' /\ OnlyOf(c)
    BY <1>0, <1>5 DEF States, OnlyOf, Retry, Go, Set
  <2>2. Good(c)'
    BY <1>0, <1>5 DEF Good, Place, Released, Ended, Retry, Go, Set
  <2> QED BY <1>0, <2>1, <2>2, Frame
<1> QED BY <1>1, <1>2, <1>3, <1>4, <1>5 DEF Talker, ConnectFails, TalkerSessionRaises

LEMMA ListenerInv == ASSUME Inv, NEW c \in Listeners, Listener(c) PROVE Inv'
<1> USE DEF Inv, TypeOK
<1>0. c \in Threads /\ c \notin Talkers
  BY CollectorAssumption DEF Threads
<1>1. CASE Bind(c)
  <2>1. TypeOK' /\ OnlyOf(c)
    BY <1>0, <1>1 DEF States, OnlyOf, Bind, Go, Set, history
  <2>2. Good(c)'
    BY <1>0, <1>1 DEF Good, Place, Released, Ended, Bind, Go, Set, history
  <2> QED BY <1>0, <2>1, <2>2, Frame
<1>2. CASE BindInUse(c)
  <2>1. TypeOK' /\ OnlyOf(c)
    <3>1. tries[c] + 1 \in 0 .. BindTries
      BY <1>0, <1>2, CollectorAssumption DEF Good, Place, BindInUse, Go
    <3> QED BY <1>0, <1>2, <3>1 DEF States, OnlyOf, BindInUse, Go, Set
  <2>2. Good(c)'
    BY <1>0, <1>2, CollectorAssumption
       DEF Good, Place, Released, Ended, BindInUse, Go, Set
  <2> QED BY <1>0, <2>1, <2>2, Frame
<1>3. CASE BindRaises(c)
  <2>1. TypeOK' /\ OnlyOf(c)
    BY <1>0, <1>3 DEF States, OnlyOf, BindRaises, Go, Set
  <2>2. Good(c)'
    BY <1>0, <1>3 DEF Good, Place, Released, Ended, BindRaises, Go, Set
  <2> QED BY <1>0, <2>1, <2>2, Frame
<1>4. CASE Accept(c)
  <2>1. TypeOK' /\ OnlyOf(c)
    BY <1>0, <1>4, CollectorAssumption DEF States, OnlyOf, Accept, Connected, Go, Set
  <2>2. Good(c)'
    BY <1>0, <1>4 DEF Good, Place, Released, Ended, Accept, Connected, Go, Set
  <2> QED BY <1>0, <2>1, <2>2, Frame
<1>5. CASE \E from \in {"accept", "session"} : Reawait(c, from)
  <2>1. TypeOK' /\ OnlyOf(c)
    BY <1>0, <1>5 DEF States, OnlyOf, Reawait, Go, Set
  <2>2. Good(c)'
    BY <1>0, <1>5 DEF Good, Place, Released, Ended, Reawait, Go, Set
  <2> QED BY <1>0, <2>1, <2>2, Frame
<1>6. CASE ShutdownThenClose(c)
  <2>1. TypeOK' /\ OnlyOf(c)
    BY <1>0, <1>6 DEF OnlyOf, ShutdownThenClose, Go, Set, history
  <2>2. Good(c)'
    BY <1>0, <1>6 DEF Good, Place, Released, Ended, ShutdownThenClose, Go, Set, history
  <2> QED BY <1>0, <2>1, <2>2, Frame
<1>7. CASE LoopEnds(c)
  <2>1. TypeOK' /\ OnlyOf(c)
    BY <1>0, <1>7 DEF OnlyOf, LoopEnds, Go, Set, attrs, history
  <2>2. Good(c)'
    BY <1>0, <1>7 DEF Good, Place, Released, Ended, LoopEnds, Go, Set, attrs, history
  <2> QED BY <1>0, <2>1, <2>2, Frame
<1> QED BY <1>1, <1>2, <1>3, <1>4, <1>5, <1>6, <1>7 DEF Listener

LEMMA NextInv == Inv /\ [Next]_vars => Inv'
<1> SUFFICES ASSUME Inv, [Next]_vars PROVE Inv'
  OBVIOUS
<1>1. CASE UNCHANGED vars
  BY <1>1 DEF vars, attrs, history, Inv, TypeOK, Good, Place, Released, Ended
<1> QED BY <1>1, StartInv, LoseInv, InSessionInv, TalkerInv, ListenerInv DEF Next

LEMMA SafetyInv == Spec => []Inv
BY InitInv, NextInv, PTL DEF Spec
-----------------------------------------------------------------------------
\* The states, sockets and exceptions of a thread are the ones its code has.
THEOREM CollectorTypeCorrect == Spec => []TypeOK
<1>1. Inv => TypeOK
  BY DEF Inv
<1> QED BY <1>1, SafetyInv, PTL

\* Whatever the network does, a thread makes its next connection with the
\* last one closed (collector.py:244-248, 286-292).
THEOREM ConnectionsAreReleased == Spec => []SocketsReleased
<1>1. Inv => SocketsReleased
  BY DEF Inv, Good, Released, SocketsReleased
<1> QED BY <1>1, SafetyInv, PTL

\* No loss of a connection ends a thread (collector.py:249-260, 288-302).
THEOREM ThreadsSurviveTheNetwork == Spec => []OnlyExceptionsEndThreads
<1>1. Inv => OnlyExceptionsEndThreads
  BY DEF Inv, Good, Ended, OnlyExceptionsEndThreads
<1> QED BY <1>1, SafetyInv, PTL

\* A thread that is gone and calls itself connected was ended by exit() in a
\* parser, with its socket open (bgpparse.py:196).
THEOREM OnlyExitLeavesConnected == Spec => []ConnectedAndGone
<1>1. Inv => ConnectedAndGone
  BY DEF Inv, Good, Ended, ConnectedAndGone
<1> QED BY <1>1, SafetyInv, PTL

\* A Talker sleeps between two connections (collector.py:287-291).
THEOREM TalkersDoNotSpin == Spec => NoSpin
<1>1. Inv => \A c \in Talkers : at[c] = "connect" => connections[c] = 0 \/ paused[c]
  BY DEF Inv, TypeOK, Good, Place, Threads
<1>2. Inv /\ [Next]_vars =>
        [\A c \in Talkers : at[c] = "connect" /\ at'[c] = "session"
                                => connections[c] = 0 \/ paused[c]]_vars
  BY <1>1
<1> QED BY <1>2, SafetyInv, PTL DEF Spec, NoSpin
=============================================================================

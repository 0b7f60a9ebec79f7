-------------------------- MODULE Forwarder_proofs --------------------------
(***************************************************************************)
(* Proofs about Forwarder, for any number of connections.                  *)
(***************************************************************************)
EXTENDS Forwarder, TLAPS

\* Strengthening: which states go with which places of the two threads.  A
\* sender that is in send() has seen the state Connected, which only the
\* manager, between lines 57 and 61, or the sender itself can have changed;
\* while a wake-up is on the way or has been erased a send on the connection
\* failed, broken or in time, and the state is Disconnected, so that line 40 does
\* not end the loop.
Handshake ==
    /\ ManagerWaitsForSender
    /\ manager = "connected" => connections < MaxConnections
    /\ manager \in {"connected", "clear", "wait"} => sock # "none"
    /\ state = "Connected" => manager \in {"clear", "wait"}
    /\ manager \in {"clear", "wait"} => state \in {"Connected", "Disconnected"}
    /\ sender = "sendall" => state = "Connected"
    /\ sender = "set" \/ event => state = "Disconnected"
    /\ event => sender = "idle" /\ manager \in {"clear", "wait"}
    /\ state = "Disconnected" => sock = "broken" \/ timedOut \/ manager = "connected"
    /\ manager \in {"start", "test", "connect"} => sock # "open" \/ timedOut
    /\ manager \in {"clear", "wait"} /\ ~event /\ sender # "set" /\ ~erased
          => state = "Connected"

Inv == TypeOK /\ Handshake

LEMMA InvInit == Init => Inv
<1> SUFFICES ASSUME Init PROVE Inv
  OBVIOUS
<1>1. connections \in 0..MaxConnections
  BY ForwarderAssumption DEF Init
<1>2. TypeOK
  BY <1>1, Zenon DEF Init, TypeOK
<1>3. Handshake
  BY Zenon DEF Init, Handshake, ManagerWaitsForSender
<1> QED BY <1>2, <1>3 DEF Inv

LEMMA InvNext == Inv /\ [Next]_vars => Inv'
<1> SUFFICES ASSUME Inv, [Next]_vars PROVE Inv'
  OBVIOUS
<1> USE ForwarderAssumption DEF Inv, TypeOK, Handshake, ManagerWaitsForSender
<1>1. CASE StartConnecting
  BY <1>1 DEF StartConnecting
<1>2. CASE TestState
  BY <1>2 DEF TestState
<1>3. CASE ConnectFails
  BY <1>3 DEF ConnectFails
<1>4. CASE ConnectRetry
  BY <1>4 DEF ConnectRetry
<1>5. CASE Connect
  BY <1>5 DEF Connect
<1>6. CASE SetConnected
  BY <1>6 DEF SetConnected
<1>7. CASE ClearBeforeWait
  BY <1>7 DEF ClearBeforeWait
<1>8. CASE WakeUp
  BY <1>8 DEF WakeUp
<1>9. CASE CheckState
  BY <1>9 DEF CheckState
<1>10. CASE SendOk
  BY <1>10 DEF SendOk
<1>11. CASE SendFails
  BY <1>11 DEF SendFails, SendRaises
<1>12. CASE SetEvent
  BY <1>12 DEF SetEvent
<1>13. CASE PeerBreaks
  BY <1>13 DEF PeerBreaks
<1>14. CASE UNCHANGED vars
  BY <1>14 DEF vars
<1> QED BY <1>1, <1>2, <1>3, <1>4, <1>5, <1>6, <1>7, <1>8, <1>9, <1>10, <1>11,
           <1>12, <1>13, <1>14 DEF Next, Manager, Sender

LEMMA Invariance == Init /\ [][Next]_vars => []Inv
BY InvInit, InvNext, PTL

\* The states and places of the two threads are the ones their code has.
THEOREM ForwarderTypeCorrect == Spec => []TypeOK
<1>1. Inv => TypeOK
  BY DEF Inv
<1> QED BY <1>1, Invariance, PTL DEF Spec

\* The socket is never replaced under a send, and no send finds that the
\* manager has exited.
THEOREM SendersAreWaitedFor == Spec => []ManagerWaitsForSender
<1>1. Inv => ManagerWaitsForSender
  BY DEF Inv, Handshake
<1> QED BY <1>1, Invariance, PTL DEF Spec

\* A manager sleeps only over a connection on which no send has failed, or
\* because line 60 erased the wake-up.
THEOREM SleepersAreConnected == Spec => []AsleepMeansConnected
<1>1. Inv => AsleepMeansConnected
  BY DEF Inv, Handshake, AsleepMeansConnected
<1> QED BY <1>1, Invariance, PTL DEF Spec

\* A second connection is opened beside one that works only after a send on it
\* ran into the timeout.
THEOREM OneConnectionUnlessTimeout == Spec => SecondOnlyAfterTimeout
<1>1. Inv /\ [Next]_vars => [Connect => sock # "open" \/ timedOut]_vars
  BY DEF Inv, Handshake, Connect
<1> QED BY <1>1, Invariance, PTL DEF Spec, SecondOnlyAfterTimeout
=============================================================================

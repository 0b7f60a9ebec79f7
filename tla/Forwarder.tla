----------------------------- MODULE Forwarder -----------------------------
(***************************************************************************)
(* The TCP sender of forwarder.py; the Forwarder of forward.py and the     *)
(* RouterPeer of router.py are the same code.  A manager thread (run)      *)
(* connects and then sleeps on an Event; the thread that sends wakes it    *)
(* when a send fails.  The two share `state', `sock' and `event' without   *)
(* a lock.  Messages carry nothing here: what matters is whether there is  *)
(* a connection to send them on.                                           *)
(***************************************************************************)
EXTENDS Integers

CONSTANT MaxConnections   \* bound: connections the manager makes

ASSUME ForwarderAssumption == MaxConnections \in Nat

VARIABLES state,         \* the attribute both threads read and write
          event,         \* the Event: TRUE when set
          connections,
          sock,          \* the socket: "none", "open", or "broken" by the peer
          manager,       \* where run() is
          sender,        \* where send() is
          erased,        \* history: an Event that was set has been cleared
                         \* before anyone waited for it
          timedOut       \* history: a send on this connection timed out
                         \* while the connection worked

vars == <<state, event, connections, sock, manager, sender, erased, timedOut>>

Init == /\ state = "Initialising"
        /\ event = FALSE
        /\ connections = 0
        /\ sock = "none"
        /\ manager = "start"
        /\ sender = "idle"
        /\ erased = FALSE
        /\ timedOut = FALSE
-----------------------------------------------------------------------------
(* run() *)

\* 35: the outer loop.
StartConnecting ==
    /\ manager = "start"
    /\ state' = "Connecting"
    /\ manager' = "test"
    /\ UNCHANGED <<event, connections, sock, sender, erased, timedOut>>

\* 40: the inner loop goes on unless the state is Connected.
TestState ==
    /\ manager = "test"
    /\ manager' = IF state = "Connected" THEN "start" ELSE "connect"
    /\ UNCHANGED <<state, event, connections, sock, sender, erased, timedOut>>

\* 43-46 and 52-55: the name does not resolve, or the unexpected.
ConnectFails ==
    /\ manager = "connect"
    /\ state' = "Error"
    /\ manager' = "exited"
    /\ UNCHANGED <<event, connections, sock, sender, erased, timedOut>>

\* 47-51: refused or timed out; again after a second.
ConnectRetry ==
    /\ manager = "connect"
    /\ state' = "Retrying"
    /\ manager' = "test"
    /\ UNCHANGED <<event, connections, sock, sender, erased, timedOut>>

\* 42: the attribute is bound to the new socket before the state changes.
Connect ==
    /\ manager = "connect" /\ connections < MaxConnections
    /\ sock' = "open"
    /\ timedOut' = FALSE
    /\ manager' = "connected"
    /\ UNCHANGED <<state, event, connections, sender, erased>>

\* 57-58
SetConnected ==
    /\ manager = "connected"
    /\ state' = "Connected"
    /\ connections' = connections + 1
    /\ manager' = "clear"
    /\ UNCHANGED <<event, sock, sender, erased, timedOut>>

\* 60: send() may have failed, and set the Event, since 57.
ClearBeforeWait ==
    /\ manager = "clear"
    /\ event' = FALSE
    /\ manager' = "wait"
    /\ \/ ~event /\ UNCHANGED erased
       \/ event /\ erased' = TRUE
    /\ UNCHANGED <<state, connections, sock, sender, timedOut>>

\* Mutant: the wait has a timeout of its own.
WakeUpAnyway ==
    /\ manager = "wait"
    /\ event' = FALSE
    /\ manager' = "test"
    /\ UNCHANGED <<state, connections, sock, sender, erased, timedOut>>

\* 61-62: between the two nothing else sets the Event.
WakeUp ==
    /\ manager = "wait" /\ event
    /\ event' = FALSE
    /\ manager' = "test"
    /\ UNCHANGED <<state, connections, sock, sender, erased, timedOut>>

Manager == \/ StartConnecting \/ TestState \/ ConnectFails \/ ConnectRetry \/ Connect
           \/ SetConnected \/ ClearBeforeWait \/ WakeUp
-----------------------------------------------------------------------------
(* send(), called over and over by one thread. *)

\* 65: nothing is sent, and nothing changes, unless the state is Connected.
CheckState ==
    /\ sender = "idle"
    /\ sender' = IF state = "Connected" THEN "sendall" ELSE "idle"
    /\ UNCHANGED <<state, event, connections, sock, manager, erased, timedOut>>

\* 70, 83: a broken connection may still take data.
SendOk ==
    /\ sender = "sendall"
    /\ sender' = "idle"
    /\ UNCHANGED <<state, event, connections, sock, manager, erased, timedOut>>

\* 70, 72: socket.error covers the second that line 42 left as the timeout of
\* the socket, so that sendall can raise on any connection: one that is broken,
\* or one that works and does not take the data in time.
SendRaises ==
    /\ sender = "sendall"
    /\ timedOut' = (timedOut \/ sock = "open")

\* Mutants: the Event is set before the state says why; the Event is not set.
SendFailsLate ==
    /\ SendRaises
    /\ event' = TRUE
    /\ sender' = "set"
    /\ UNCHANGED <<state, connections, sock, manager, erased>>
SendFailsSilent ==
    /\ SendRaises
    /\ state' = "Disconnected" /\ sender' = "idle"
    /\ UNCHANGED <<event, connections, sock, manager, erased>>

\* 72-74 and 79-82: the manager is told, if it is there to be told.
SendFails ==
    /\ SendRaises
    /\ IF manager = "exited" THEN state' = "Error" /\ sender' = "exited"
                             ELSE state' = "Disconnected" /\ sender' = "set"
    /\ UNCHANGED <<event, connections, sock, manager, erased>>

\* 77
SetEvent ==
    /\ sender = "set"
    /\ event' = TRUE
    /\ sender' = "idle"
    /\ UNCHANGED <<state, connections, sock, manager, erased, timedOut>>

Sender == CheckState \/ SendOk \/ SendFails \/ SetEvent

\* The remote side goes away.
PeerBreaks ==
    /\ sock = "open"
    /\ sock' = "broken"
    /\ UNCHANGED <<state, event, connections, manager, sender, erased, timedOut>>

Next == Manager \/ Sender \/ PeerBreaks

\* Both are threads that run when they can; the remote side owes nothing.
Spec == Init /\ [][Next]_vars /\ WF_vars(Manager) /\ WF_vars(Sender)
-----------------------------------------------------------------------------
(* Properties *)

TypeOK ==
    /\ state \in {"Initialising", "Connecting", "Retrying", "Connected",
                  "Disconnected", "Error"}
    /\ event \in BOOLEAN /\ erased \in BOOLEAN /\ timedOut \in BOOLEAN
    /\ connections \in 0..MaxConnections
    /\ sock \in {"none", "open", "broken"}
    /\ manager \in {"start", "test", "connect", "connected", "clear", "wait", "exited"}
    /\ sender \in {"idle", "sendall", "set", "exited"}

\* While send() uses the socket the manager is past line 57 and before 62: it
\* neither replaces the socket nor exits, so that lines 79-82 ("socket manager
\* has exited") are never reached.
ManagerWaitsForSender == sender # "idle" => manager \in {"clear", "wait"}

\* A second connection is opened beside one that works only after a send on it
\* ran into the timeout: but for that, the state and the Event together keep the
\* manager from leaving line 61, or the loop of line 40, over a working connection.
SecondOnlyAfterTimeout == [][Connect => sock # "open" \/ timedOut]_vars

\* A manager that sleeps with no wake-up on the way has a connection on which no
\* send has failed.  The one exception is an Event that line 60 cleared after a
\* send had already failed.
AsleepMeansConnected ==
    manager = "wait" /\ ~event /\ sender # "set" /\ ~erased => state = "Connected"

\* A send that fails makes the manager try again, with the same exception.
ReconnectsUnlessErased ==
    state = "Disconnected" ~> (state \in {"Retrying", "Connected", "Error"} \/ erased)
=============================================================================

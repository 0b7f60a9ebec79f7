----------------------------- MODULE Collector -----------------------------
(***************************************************************************)
(* The threads of collector.py: a Talker for each target and a Listener.   *)
(* Each makes a connection, runs a session on it (Framing looks inside     *)
(* one), and is meant to make the next connection when the session is      *)
(* over.  A session is over when recv has nothing more to return, or when  *)
(* the application raises.                                                 *)
(*                                                                         *)
(* socket.error, socket.timeout, herror and gaierror are all OSError, so   *)
(* the clauses for the last two (lines 220, 249, 293) are never reached.   *)
(***************************************************************************)
EXTENDS Integers

CONSTANTS Talkers, Listeners,
          BindTries,         \* 100 in the code
          MaxConnections     \* bound: value of connections

ASSUME CollectorAssumption == /\ Talkers \cap Listeners = {}
                              /\ BindTries \in Nat \ {0}
                              /\ MaxConnections \in Nat

Threads == Talkers \cup Listeners

VARIABLES state, connections,   \* attributes of the thread
          sock,       \* its socket: "none", "open", "ended" or "broken" by
                      \* the other side, or "closed"
          at,         \* where run() is
          tries,      \* bind attempts so far
          raised,     \* history: what was raised since the last connection
          paused      \* history: the thread slept since then

attrs == <<state, connections, sock>>
history == <<raised, paused>>
vars == <<attrs, at, tries, history>>

Set(f, c, v) == f' = [f EXCEPT ![c] = v]
Go(c, from, to) == at[c] = from /\ Set(at, c, to)

Init == /\ state = [c \in Threads |-> "Initialising"]
        /\ connections = [c \in Threads |-> 0]
        /\ sock = [c \in Threads |-> "none"]
        /\ at = [c \in Threads |-> "start"]
        /\ tries = [c \in Threads |-> 0]
        /\ raised = [c \in Threads |-> "nothing"]
        /\ paused = [c \in Threads |-> FALSE]

Start(c) == /\ Go(c, "start", IF c \in Talkers THEN "connect" ELSE "bind")
            /\ Set(state, c, "Connecting")
            /\ UNCHANGED <<connections, sock, tries, history>>
-----------------------------------------------------------------------------
(* What happens to a thread in a session *)

\* A connection: recv and send work while the state is Connected.
Connected(c, n) == /\ connections[c] + n <= MaxConnections
                   /\ Set(connections, c, connections[c] + n)
                   /\ Set(state, c, "Connected")
                   /\ Set(sock, c, "open")
                   /\ Set(raised, c, "nothing")
                   /\ Set(paused, c, FALSE)
                   /\ UNCHANGED tries

\* The other side, or the network.
Lose(c, how) == /\ sock[c] \in {"open", "ended"} \ {how}
                /\ Set(sock, c, how)
                /\ UNCHANGED <<state, connections, at, tries, history>>

\* recv returns nothing: the stream has ended, recv fails (158-164), or a
\* send has failed before (146-147).  Or the application has had enough
\* (line 112), with the connection in whatever state.
SessionEnds(c) == /\ Go(c, "session", "close")
                  /\ \/ UNCHANGED state
                     \/ sock[c] = "broken" /\ Set(state, c, "Disconnected")
                  /\ UNCHANGED <<connections, sock, tries, history>>

\* 182-187: the session learns of it at its next recv.
SendFails(c) == /\ at[c] = "session" /\ state[c] = "Connected"
                /\ sock[c] \in {"ended", "broken"}
                /\ Set(state, c, "Disconnected")
                /\ UNCHANGED <<connections, sock, at, tries, history>>

\* exit() in a parser (bgpparse.py:196), or an unknown application (line 32):
\* no clause catches SystemExit, it ends the thread and nothing else.
SessionExits(c) == /\ Go(c, "session", "exited")
                   /\ Set(raised, c, "SystemExit")
                   /\ UNCHANGED <<attrs, tries, paused>>
-----------------------------------------------------------------------------
(* Talker.run *)

\* 288-292
Retry(c, from) == /\ Go(c, from, "connect")
                  /\ Set(state, c, "Retrying")
                  /\ Set(paused, c, TRUE)
                  /\ UNCHANGED <<connections, tries>>

\* Mutant: the state is left as it was.
GiveUpSilently(c, from) == /\ Go(c, from, "exited")
                           /\ Set(raised, c, "Exception")
                           /\ UNCHANGED <<attrs, tries, paused>>

\* 298-302
GiveUp(c, from) == /\ Go(c, from, "exited")
                   /\ Set(state, c, "Error")
                   /\ Set(raised, c, "Exception")
                   /\ UNCHANGED <<connections, sock, tries, paused>>

Connect(c) == Go(c, "connect", "session") /\ Connected(c, 2)

ConnectFails(c) == \/ Retry(c, "connect") /\ UNCHANGED <<sock, raised>>
                   \/ GiveUp(c, "connect")

\* Mutants: the calls in the right order, where shutdown raises only over a
\* broken connection; a clause that leaves the loop.
ShutdownAndClose(c) ==
    IF sock[c] = "broken"
    THEN Retry(c, "close") /\ UNCHANGED <<sock, raised>>
    ELSE /\ Go(c, "close", "connect")
         /\ Set(sock, c, "closed")
         /\ UNCHANGED <<state, connections, tries, history>>

RetryNoMore(c) == /\ Go(c, "close", "exited")
                  /\ Set(state, c, "Retrying")
                  /\ Set(sock, c, "closed")
                  /\ UNCHANGED <<connections, tries, history>>

\* 286-287: shutdown on a closed socket raises, an OSError like any other.
CloseAndShutdown(c) == /\ Retry(c, "close")
                       /\ Set(sock, c, "closed")
                       /\ UNCHANGED raised

\* The application raises.  An OSError of its own, say of its dump file
\* (bmpapp.py:27), is taken for one of the socket; the socket stays open.
TalkerSessionRaises(c) ==
    \/ Retry(c, "session") /\ Set(raised, c, "OSError") /\ UNCHANGED sock
    \/ GiveUp(c, "session")

Talker(c) == \/ Connect(c) \/ ConnectFails(c) \/ CloseAndShutdown(c)
             \/ TalkerSessionRaises(c)
-----------------------------------------------------------------------------
(* Listener.run *)

\* 204-210, listen at 233
Bind(c) == /\ Go(c, "bind", "accept")
           /\ Set(state, c, "Connecting")
           /\ UNCHANGED <<connections, sock, tries, history>>

\* 214-219: the address is in use; 229-231 after the last attempt.
BindInUse(c) == /\ Go(c, "bind", IF tries[c] + 1 < BindTries THEN "bind" ELSE "exited")
                /\ Set(tries, c, tries[c] + 1)
                /\ Set(state, c, "Error")
                /\ Set(raised, c, "OSError")
                /\ Set(paused, c, TRUE)
                /\ UNCHANGED <<connections, sock>>

\* 212-213: any other OSError is raised again.
BindRaises(c) == /\ Go(c, "bind", "exited")
                 /\ Set(state, c, "Error")
                 /\ Set(raised, c, "OSError")
                 /\ UNCHANGED <<connections, sock, tries, paused>>

\* 235-240
Accept(c) == /\ state[c] # "Error"
             /\ Go(c, "accept", "session")
             /\ Connected(c, 1)

\* 254-260: an exception of accept or of the application.  The thread sleeps,
\* logs that it awaits connections again, and finds the loop's condition false.
Reawait(c, from) == /\ state[c] # "Error"
                    /\ Go(c, from, "accept")
                    /\ Set(state, c, "Error")
                    /\ \E e \in {"OSError", "Exception"} : Set(raised, c, e)
                    /\ Set(paused, c, TRUE)
                    /\ UNCHANGED <<connections, sock, tries>>

LoopEnds(c) == /\ state[c] = "Error"
               /\ Go(c, "accept", "exited")
               /\ UNCHANGED <<attrs, tries, history>>

\* 243-248: shutdown raises over a broken connection, and close is left out.
ShutdownThenClose(c) == /\ Go(c, "close", "accept")
                        /\ IF sock[c] = "broken" THEN UNCHANGED sock
                                                 ELSE Set(sock, c, "closed")
                        /\ UNCHANGED <<state, connections, tries, history>>

Listener(c) == \/ Bind(c) \/ BindInUse(c) \/ BindRaises(c)
               \/ Accept(c) \/ Reawait(c, "accept") \/ Reawait(c, "session")
               \/ ShutdownThenClose(c) \/ LoopEnds(c)
-----------------------------------------------------------------------------
InSession(c) == SessionEnds(c) \/ SendFails(c) \/ SessionExits(c)

Next == \/ \E c \in Threads : \/ Start(c) \/ InSession(c)
                              \/ \E how \in {"ended", "broken"} : Lose(c, how)
        \/ \E c \in Talkers : Talker(c)
        \/ \E c \in Listeners : Listener(c)

\* A thread that can go on does, and recv notices in the end that there is
\* nothing more to come.  No connection, and no end of one, is assumed.
Noticed(c) == sock[c] # "open" /\ SessionEnds(c)

Spec == /\ Init /\ [][Next]_vars
        /\ \A c \in Threads : WF_vars(Noticed(c))
        /\ \A c \in Talkers : WF_vars(CloseAndShutdown(c))
        /\ \A c \in Listeners : WF_vars(ShutdownThenClose(c) \/ LoopEnds(c))
-----------------------------------------------------------------------------
(* Properties *)

States == {"Initialising", "Connecting", "Connected", "Disconnected",
           "Retrying", "Error"}

TypeOK == /\ state \in [Threads -> States]
          /\ connections \in [Threads -> 0 .. MaxConnections]
          /\ sock \in [Threads -> {"none", "open", "ended", "broken", "closed"}]
          /\ at \in [Threads -> {"start", "connect", "bind", "accept", "session",
                                 "close", "exited"}]
          /\ tries \in [Threads -> 0 .. BindTries]
          /\ raised \in [Threads -> {"nothing", "OSError", "Exception", "SystemExit"}]
          /\ paused \in [Threads -> BOOLEAN]

\* A thread goes on to its next connection with the last one closed, unless
\* its application raised, or it is a Listener and shutdown raised
\* (collector.py:244-248, 286-292).
SocketsReleased ==
    \A c \in Threads :
        at[c] \in {"connect", "accept"} /\ sock[c] \notin {"none", "closed"}
            => raised[c] # "nothing" \/ (c \in Listeners /\ sock[c] = "broken")

\* What the network does to a connection never ends a thread: that takes an
\* exception which is not about the connection, or for a Listener one in
\* bind or accept (collector.py:249-260, 288-302).
OnlyExceptionsEndThreads ==
    \A c \in Threads : at[c] = "exited" => raised[c] # "nothing"

\* A thread that is gone and says that it is Connected was ended by
\* SystemExit; its socket was not closed (bgpparse.py:196).
ConnectedAndGone ==
    \A c \in Threads : at[c] = "exited" /\ state[c] \in {"Connected", "Disconnected"}
        => raised[c] = "SystemExit" /\ sock[c] # "closed"

\* A Talker sleeps between one connection and the next: it does not spin
\* when the other side closes every connection at once.  It is the OSError
\* of line 287 that makes it sleep.
NoSpin == [][\A c \in Talkers :
                 at[c] = "connect" /\ at'[c] = "session"
                     => connections[c] = 0 \/ paused[c]]_vars

\* A Listener that has caught an exception, and logged "reawaiting connection
\* on ..." (collector.py:254-260), stays in its loop and accepts again.
ReawaitsAfterException ==
    [][\A c \in Listeners :
           at[c] = "accept" /\ raised[c] # "nothing" => at'[c] # "exited"]_vars

\* After every session whose connection is lost the thread tries to make the
\* next connection, unless its application raised.
ComesBack ==
    \A c \in Threads :
        at[c] = "session" /\ sock[c] \in {"ended", "broken"}
            ~> at[c] \in {"connect", "accept"} \/ raised[c] # "nothing"
=============================================================================

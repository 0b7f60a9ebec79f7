------------------------------ MODULE Framing ------------------------------
(***************************************************************************)
(* How a session cuts the bytes it receives into BMP messages: the loop of *)
(* Session.bmpd in collector.py around BMP_message.get_next of             *)
(* bmpparse.py; filewalker.py has the same loop over a file.  The buffer   *)
(* holds the positions start .. received - 1 of the stream.                *)
(***************************************************************************)
EXTENDS BmpBytes

CONSTANT BUFSIZ       \* the most that recv returns

ASSUME FramingAssumption == BUFSIZ \in Nat \ {0}

VARIABLES received,   \* how much of the stream recv has returned
          start,      \* the position of buf[0]
          handed,     \* the messages handed to BmpContext.parse
          at          \* where the loop is

vars == <<received, start, handed, at>>

Stream == INSTANCE BmpStream

Init == received = 0 /\ start = 0 /\ handed = << >> /\ at = "recv"
-----------------------------------------------------------------------------
BufLen == received - start

\* Mutants of get_next: no check that the message is whole; it waits for one
\* byte more than the message.
FoundHeader == BufLen >= HeaderLength
FoundLate == BufLen >= HeaderLength /\ BufLen > LengthAt[start]

\* get_next finds a message: a whole header, and as many bytes as it says.
\* It returns nothing for a message without bytes, too.
Found == /\ BufLen >= HeaderLength
         /\ BufLen >= LengthAt[start]
         /\ LengthAt[start] > 0

\* recv returns some of the bytes that are on their way.
Recv(n) == /\ at = "recv"
           /\ received + n <= StreamLength
           /\ received' = received + n
           /\ at' = "get_next"
           /\ UNCHANGED <<start, handed>>

\* The connection was closed or broke: recv returns nothing and the session
\* ends.  The bytes in the buffer are dropped.
RecvNothing == /\ at = "recv"
               /\ at' = "exited"
               /\ UNCHANGED <<received, start, handed>>

TakeMessage == /\ at = "get_next" /\ Found
               /\ start' = start + LengthAt[start]
               /\ UNCHANGED received

HandOn == handed' = Append(handed, Slice(start, start'))

\* Mutant: `if' instead of `while', one message for each recv.
GetOneMessage == /\ TakeMessage /\ start \notin Refused
                 /\ HandOn
                 /\ at' \in {"recv", "exited"}

\* The message is handed to the context, and the loop goes on, or parsing
\* what is in it raises there.
GetMessage == /\ TakeMessage /\ start \notin Refused
              /\ HandOn
              /\ at' \in {"get_next", "exited"}

\* BMP_message() raises, before the message is handed on.
GetBadMessage == /\ TakeMessage /\ start \in Refused
                 /\ at' = "exited"
                 /\ UNCHANGED handed

GetNothing == /\ at = "get_next" /\ ~Found
              /\ at' = "recv"
              /\ UNCHANGED <<received, start, handed>>

Next == \/ \E n \in 1 .. BUFSIZ : Recv(n)
        \/ RecvNothing
        \/ GetMessage
        \/ GetBadMessage
        \/ GetNothing

Spec == Init /\ [][Next]_vars

\* The thread runs on while it has something to do; nothing is assumed of
\* the other side, and neither that a parser succeeds.
Fairness == WF_vars(GetMessage \/ GetBadMessage \/ GetNothing)
-----------------------------------------------------------------------------
(* Properties *)

TypeOK == /\ received \in 0 .. StreamLength
          /\ start \in 0 .. received
          /\ handed \in Seq([from : Nat, to : Nat])
          /\ at \in {"recv", "get_next", "exited"}

\* However the stream is cut up by recv, messages are handed on whole, once,
\* and in order (the loop of collector.py:47-56 and get_next).
ImplementsBmpStream == Stream!Spec

\* When the session goes back to recv, it has handed on every message that
\* has arrived (collector.py:52-56).
NothingHeldBack ==
    at = "recv" => \A i \in Len(handed) + 1 .. MessageCount : End[i] > received

\* The buffer never outgrows the longest message by more than one recv: what
\* get_next returns as the rest is all that is kept (bmpparse.py:172-174).
BufferIsBounded ==
    \/ BufLen <= BUFSIZ
    \/ \E i \in 1 .. MessageCount : BufLen < End[i] - End[i - 1] + BUFSIZ

\* Every message that arrives is handed on in the end, unless the session
\* ends before that.
EveryMessageIsHanded ==
    \A i \in 1 .. MessageCount :
        received >= End[i] ~> Len(handed) >= i \/ at = "exited"
=============================================================================

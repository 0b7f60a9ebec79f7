----------------------------- MODULE BmpStream -----------------------------
(***************************************************************************)
(* What a reader of a BMP stream promises: it hands on the messages whole, *)
(* once each and in order, and none before all of it has arrived.          *)
(***************************************************************************)
EXTENDS BmpBytes

VARIABLES received,   \* how much of the stream has arrived
          handed      \* the messages handed on

Init == received = 0 /\ handed = << >>

Receive(n) == /\ received + n <= StreamLength
              /\ received' = received + n
              /\ UNCHANGED handed

Hand == LET next == Len(handed) + 1
        IN /\ next <= MessageCount
           /\ End[next] <= received
           /\ handed' = Append(handed, Message(next))
           /\ UNCHANGED received

Next == Hand \/ \E n \in 1 .. StreamLength : Receive(n)

Spec == Init /\ [][Next]_<<received, handed>>
=============================================================================

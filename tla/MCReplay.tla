------------------------------ MODULE MCReplay ------------------------------
(* Eight messages, of which two have no payload and one makes BMP_message() *)
(* raise, and block sizes that are no multiples of theirs.                  *)
EXTENDS Replay, TLC

MCEnd == (0 :> 0 @@ 1 :> 6 @@ 2 :> 15 @@ 3 :> 22 @@ 4 :> 28 @@ 5 :> 36
            @@ 6 :> 43 @@ 7 :> 50 @@ 8 :> 59)

\* Off the boundaries of messages a length field may read as nothing, as less
\* than a header, as a plausible length, or as more than there is.
MCLengthAt ==
    [k \in 0 .. 59 |->
        IF \E i \in 1 .. 8 : MCEnd[i - 1] = k
        THEN LET i == CHOOSE i \in 1 .. 8 : MCEnd[i - 1] = k
             IN MCEnd[i] - MCEnd[i - 1]
        ELSE <<0, 3, 8, 60>>[1 + (k % 4)]]

\* The seventh message.
MCRefused == {43}
=============================================================================

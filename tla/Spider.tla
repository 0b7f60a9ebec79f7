------------------------------- MODULE Spider -------------------------------
(***************************************************************************)
(* Spider of spider.py reads BMP messages from a file, such as the dump a  *)
(* session left: get(6) for a header, then get for the rest of the         *)
(* message, each from a buffer that is filled a block at a time.  The      *)
(* file holds the positions 0 .. fileLength - 1 of the stream, the buffer  *)
(* the positions taken .. read - 1.                                        *)
(***************************************************************************)
EXTENDS BmpBytes

CONSTANT bufsiz       \* bytes asked of the file at a time

VARIABLES fileLength,
          read,       \* how far the file has been read
          taken,      \* how far get has returned it
          short,      \* the last read of this get returned less than bufsiz
          phase,      \* where parse() is
          bmp_msgs

vars == <<fileLength, read, taken, short, phase, bmp_msgs>>

Smaller(a, b) == IF a < b THEN a ELSE b

Init == /\ fileLength = 0 /\ read = 0 /\ taken = 0
        /\ short = FALSE
        /\ phase = "closed"
        /\ bmp_msgs = << >>

Open(n) == /\ phase = "closed"
           /\ fileLength' = n
           /\ phase' = "header"
           /\ UNCHANGED <<read, taken, short, bmp_msgs>>
-----------------------------------------------------------------------------
\* What the call of get under way was asked for.
Size == IF phase = "header" THEN HeaderLength
                            ELSE LengthAt[taken - HeaderLength] - HeaderLength

InGet == phase \in {"header", "payload"}
Buffered == read - taken

\* Mutants: every block counts as the last one, or none does.
ShortAlways(n) == n <= bufsiz
ShortNever(n) == n < 0

\* Line 28: get reads on until it has what it was asked for, or the file ends.
Enough == Size <= Buffered \/ short
Short(n) == n < bufsiz

ReadBlock == LET n == Smaller(bufsiz, fileLength - read)
             IN /\ InGet /\ ~Enough
                /\ read' = read + n
                /\ short' = Short(n)
                /\ UNCHANGED <<fileLength, taken, phase, bmp_msgs>>

\* The message under way is one for which BMP_message() raises.
IsRefused == taken - HeaderLength \in Refused

\* get returns what there is, up to what it was asked for.
GetReturns == /\ Enough
              /\ taken' = taken + Smaller(Size, Buffered)
              /\ short' = FALSE
              /\ UNCHANGED <<fileLength, read>>

GetHeader == /\ phase = "header" /\ GetReturns
             /\ phase' = CASE Buffered = 0 -> "normal end"
                           [] Buffered \in 1 .. Size - 1 -> "unexpected end"
                           [] OTHER -> "payload"
             /\ UNCHANGED bmp_msgs

GetPayload == /\ phase = "payload" /\ GetReturns
              /\ \/ /\ Buffered < Size
                    /\ phase' = "unexpected end"
                    /\ UNCHANGED bmp_msgs
                 \/ /\ Buffered >= Size /\ ~IsRefused
                    /\ phase' = "header"
                    /\ bmp_msgs' = Append(bmp_msgs,
                                          Slice(taken - HeaderLength, taken'))

\* Line 63: the exception leaves parse(), which returns nothing, and with it
\* goes every message found before.
GetBadPayload == /\ phase = "payload" /\ GetReturns
                 /\ Buffered >= Size /\ IsRefused
                 /\ phase' = "raised"
                 /\ bmp_msgs' = << >>

Step == ReadBlock \/ GetHeader \/ GetPayload \/ GetBadPayload
Ended == phase \in {"normal end", "unexpected end", "raised"}

-----------------------------------------------------------------------------
(* Properties *)

TypeOK == /\ fileLength \in 0 .. StreamLength
          /\ read \in 0 .. fileLength
          /\ taken \in 0 .. read
          /\ short \in BOOLEAN
          /\ phase \in {"closed", "header", "payload",
                        "normal end", "unexpected end", "raised"}
          /\ bmp_msgs \in Seq([from : Nat, to : Nat])

\* A message is whole in the file for which BMP_message() raises.
HoldsRefused ==
    \E i \in 1 .. MessageCount : End[i] <= fileLength /\ End[i - 1] \in Refused

\* parse() has found every whole message of the file, and it has reported an
\* unexpected end exactly when the file ends inside a message.
FoundAll == LET n == Len(bmp_msgs)
            IN /\ n <= MessageCount
               /\ bmp_msgs = Messages(n)
               /\ \A i \in n + 1 .. MessageCount : End[i] > fileLength
               /\ phase = IF End[n] = fileLength THEN "normal end"
                                                ELSE "unexpected end"

\* Whatever the file and the block size, parse() finds every whole message,
\* unless there is one among them that it cannot parse: then it returns none
\* at all, neither those before it nor those behind (spider.py:40-67).
FindsEveryMessage ==
    Ended => IF HoldsRefused THEN phase = "raised" /\ bmp_msgs = << >>
                             ELSE FoundAll
=============================================================================

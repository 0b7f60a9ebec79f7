----------------------------- MODULE Unblocker -----------------------------
(***************************************************************************)
(* BMP_unblocker of bmpblkparse.py, and the loop of UnitTest.bmpd that     *)
(* pushes a file to it, `count' bytes at a time.  (That program stops on   *)
(* the line before its loop, which constructs a table without arguments;   *)
(* the loop shows how push is to be called.)  One round of the loop in     *)
(* push is one action.  Bytes are positions of the stream; when the tail   *)
(* is not what preceded a block, msg has a seam in it.                     *)
(***************************************************************************)
EXTENDS BmpBytes, SequencesExt

VARIABLES fileLength, count,
          pushed,        \* how much of the file has been pushed
          msg_tail, msg, offset,
          unblocked,     \* the messages that push has returned
          pushing,       \* where UnitTest.bmpd is
          broken         \* history: a push ended where push goes wrong

uvars == <<fileLength, count, pushed, msg_tail, msg, offset, unblocked,
           pushing, broken>>

Init == /\ fileLength = 0 /\ count = 0 /\ pushed = 0
        /\ msg_tail = << >> /\ msg = << >> /\ offset = 0
        /\ unblocked = << >>
        /\ pushing = "closed"
        /\ broken = FALSE

Open(n, c) == /\ pushing = "closed"
              /\ fileLength' = n /\ count' = c
              /\ pushing' = "read"
              /\ UNCHANGED <<pushed, msg_tail, msg, offset, unblocked, broken>>
-----------------------------------------------------------------------------
Left == Len(msg) - offset

\* The bytes from offset on, as many as n, or Spliced if there is a seam.
Spliced == [from |-> 0, to |-> 0]
Piece(n) == LET s == SubSeq(msg, offset + 1, offset + n)
            IN IF \A i \in 2 .. n : s[i] = s[i - 1] + 1
               THEN Slice(s[1], s[n] + 1) ELSE Spliced

\* What the length field says; across a seam, what it says at its beginning.
Length == LengthAt[msg[offset + 1]]
IsHeader == \E i \in 1 .. MessageCount :
                Piece(HeaderLength) = Slice(End[i - 1], End[i - 1] + HeaderLength)

Block == [i \in 1 .. IF pushed + count <= fileLength THEN count ELSE fileLength - pushed
              |-> pushed + i - 1]

Push == /\ pushing = "read" /\ pushed < fileLength
        /\ msg' = msg_tail \o Block
        /\ offset' = 0
        /\ pushed' = pushed + Len(Block)
        /\ pushing' = "push"
        /\ UNCHANGED <<fileLength, count, msg_tail, unblocked, broken>>

EndOfFile == /\ pushing = "read" /\ pushed = fileLength
             /\ pushing' = "end"
             /\ UNCHANGED <<fileLength, count, pushed, msg_tail, msg, offset,
                            unblocked, broken>>

\* Line 34; the body reads six bytes (35-37).
InLoop == pushing = "push" /\ offset < Len(msg) - 4

ReadPastEnd == /\ InLoop /\ Left < HeaderLength
               /\ pushing' = "struct.error"
               /\ broken' = TRUE
               /\ UNCHANGED <<fileLength, count, pushed, msg_tail, msg, offset,
                              unblocked>>

\* Bytes that are not a header may fail the checks of lines 38-39, or pass.
NotAHeader == /\ InLoop /\ Left >= HeaderLength /\ ~IsHeader
              /\ pushing' = "AssertionError"
              /\ UNCHANGED <<fileLength, count, pushed, msg_tail, msg, offset,
                             unblocked, broken>>

\* Mutant: a message that ends with the block is kept for the next one.
WholeLate == Left > Length

Whole == Left >= Length

Unblock == /\ InLoop /\ Left >= HeaderLength /\ Whole /\ Length > 0
           /\ unblocked' = Append(unblocked, Piece(Length))
           /\ offset' = offset + Length
           /\ UNCHANGED <<fileLength, count, pushed, msg_tail, msg, pushing, broken>>

\* A length of zero: line 48 leaves offset where it is, and push does the
\* same for ever.  (The empty messages that it appends meanwhile are left out.)
LoopForever == /\ InLoop /\ Left >= HeaderLength /\ Length = 0
               /\ pushing' = "forever"
               /\ UNCHANGED <<fileLength, count, pushed, msg_tail, msg, offset,
                              unblocked, broken>>

KeepTail == /\ InLoop /\ Left >= HeaderLength /\ ~Whole
            /\ msg_tail' = SubSeq(msg, offset + 1, Len(msg))
            /\ pushing' = "read"
            /\ UNCHANGED <<fileLength, count, pushed, msg, offset, unblocked, broken>>

\* Fewer than five bytes are left.  They are dropped, and the tail is kept
\* that this push has already used.
LeaveLoop == /\ pushing = "push" /\ ~InLoop
             /\ pushing' = "read"
             /\ broken' = (broken \/ Left > 0 \/ msg_tail # << >>)
             /\ UNCHANGED <<fileLength, count, pushed, msg_tail, msg, offset, unblocked>>

Step == \/ Push \/ EndOfFile \/ ReadPastEnd \/ NotAHeader
        \/ Unblock \/ LoopForever \/ KeepTail \/ LeaveLoop

Ended == pushing \in {"end", "struct.error", "AssertionError"}
-----------------------------------------------------------------------------
(* Properties *)

AllWholeMessages ==
    LET n == Len(unblocked)
    IN /\ n <= MessageCount
       /\ unblocked = Messages(n)
       /\ \A i \in n + 1 .. MessageCount : End[i] > pushed

\* push returns every message of the stream, whole, once and in order, until
\* a block ends within five bytes of a message's beginning, or where a
\* message ends that an earlier block had begun; until then it neither raises
\* nor loops for ever (bmpblkparse.py:34-58).
UnblocksUntilSeam ==
    /\ ~broken => pushing \notin {"struct.error", "AssertionError", "forever"}
    /\ ~broken /\ pushing = "read" => AllWholeMessages
=============================================================================

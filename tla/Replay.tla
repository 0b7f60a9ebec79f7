------------------------------- MODULE Replay -------------------------------
(***************************************************************************)
(* A session (Framing) and, when it is over, one of the readers of BMP     *)
(* files on the file that it left: Spider, the loop of filewalker.py, or   *)
(* the unit test of BMP_unblocker.  BmpContext.parse appends each message  *)
(* it is handed to its dump file (bmpapp.py:79); the session application   *)
(* `sink' instead writes whatever recv returned (collector.py:77-81),      *)
(* which may end inside a message.                                         *)
(***************************************************************************)
EXTENDS Framing

CONSTANTS bufsiz,     \* what Spider and filewalker.py read at a time
          Counts      \* what the unit test may read at a time

ASSUME ReplayAssumption == /\ bufsiz \in Nat \ {0}
                           /\ Counts \subseteq Nat \ {0}

VARIABLES fileLength, \* of the file that is read
          read, taken, short, phase, bmp_msgs,           \* Spider
          filebuffer, walked, parsed, walking,           \* filewalker.py
          count, pushed, msg_tail, msg, offset, unblocked, pushing, broken,
          file        \* history: the file that is read, or "none"

spiderVars == <<read, taken, short, phase, bmp_msgs>>
walkVars == <<filebuffer, walked, parsed, walking>>
unblockVars == <<count, pushed, msg_tail, msg, offset, unblocked, pushing, broken>>
allVars == <<vars, fileLength, spiderVars, walkVars, unblockVars, file>>

S == INSTANCE Spider
U == INSTANCE Unblocker

\* filewalker.py has the loop of Framing over a file.  Its buffer begins at
\* the position filebuffer and ends where the file has been walked to.
W == INSTANCE Framing WITH BUFSIZ <- bufsiz, received <- walked,
                           start <- filebuffer, handed <- parsed, at <- walking
-----------------------------------------------------------------------------
\* Mutant: messages are dumped when the next one arrives.
DumpLengthLate == IF Len(handed) < 2 THEN 0 ELSE handed[Len(handed) - 1].to

\* The dump file is as long as the messages in it.
DumpLength == IF handed = << >> THEN 0 ELSE handed[Len(handed)].to

Length == IF file' = "dump" THEN DumpLength ELSE received

Open == /\ at = "exited" /\ file = "none"
        /\ file' \in {"dump", "sink"}
        /\ \/ S!Open(Length) /\ UNCHANGED <<walkVars, unblockVars>>
           \/ /\ walking' = "recv" /\ fileLength' = Length
              /\ UNCHANGED <<filebuffer, walked, parsed, spiderVars, unblockVars>>
           \/ /\ \E c \in Counts : U!Open(Length, c)
              /\ UNCHANGED <<spiderVars, walkVars>>

SpiderStep == S!Step /\ UNCHANGED <<walkVars, unblockVars>>
UnblockStep == U!Step /\ UNCHANGED <<spiderVars, walkVars>>

\* A read returns a whole block, or what is left of the file.
WalkRead == LET n == S!Smaller(bufsiz, fileLength - walked)
            IN IF n > 0 THEN W!Recv(n) ELSE W!RecvNothing

WalkStep == /\ WalkRead \/ W!GetMessage \/ W!GetBadMessage \/ W!GetNothing
            /\ UNCHANGED <<fileLength, spiderVars, unblockVars>>

ReadStep == (SpiderStep \/ WalkStep \/ UnblockStep) /\ UNCHANGED file

ReplayInit == /\ Init /\ S!Init /\ U!Init
              /\ filebuffer = 0 /\ walked = 0 /\ parsed = << >>
              /\ walking = "closed"
              /\ file = "none"

ReplayNext == \/ /\ Next
                 /\ UNCHANGED <<fileLength, spiderVars, walkVars, unblockVars, file>>
              \/ (Open \/ ReadStep) /\ UNCHANGED vars

ReplaySpec == /\ ReplayInit /\ [][ReplayNext]_allVars
              /\ Fairness
              /\ WF_allVars(ReadStep /\ UNCHANGED vars)
-----------------------------------------------------------------------------
(* Properties *)

ReplayTypeOK == /\ TypeOK /\ S!TypeOK
                /\ filebuffer \in 0 .. walked /\ walked \in 0 .. fileLength
                /\ walking \in {"closed", "recv", "get_next", "exited"}
                /\ pushed \in 0 .. fileLength /\ offset \in 0 .. Len(msg)
                /\ pushing \in {"closed", "read", "push", "forever"} \/ U!Ended
                /\ broken \in BOOLEAN
                /\ file \in {"none", "dump", "sink"}

\* Whatever the file and the block size, Spider finds every whole message of
\* the file, and it reports an unexpected end exactly when the file ends
\* inside a message; but one message that it cannot parse, and it has found
\* none (spider.py:40-67).  filewalker.py parses the messages in order, and
\* has them all when it reads on (filewalker.py:39-55).
FindsEveryMessage ==
    /\ S!FindsEveryMessage
    /\ parsed = Messages(Len(parsed))
    /\ walking = "recv" =>
          \A i \in Len(parsed) + 1 .. MessageCount : End[i] > walked

UnblocksUntilSeam == U!UnblocksUntilSeam

\* A dump replays: Spider finds in it what the session was handed, neither
\* more nor less, and no unexpected end of file, and filewalker.py leaves no
\* bytes unconsumed when it has read it all.  This holds although the dump is
\* written before a message is processed, for a session that ended in a
\* parser's exception too, because a message for which BMP_message() raises
\* never reaches the dump (bmpapp.py:79-80, collector.py:53, spider.py:40-67).
DumpReplays == file = "dump" =>
                   /\ S!Ended => phase = "normal end" /\ bmp_msgs = handed
                   /\ walking = "recv" /\ walked = fileLength =>
                         filebuffer = walked /\ parsed = handed

\* Every reader comes to the end of every file, or to an exception, but for
\* BMP_unblocker once it has dropped bytes or repeated some: it may then read
\* a length of zero and never return from push (spider.py:28-33,
\* filewalker.py:41-55, unittest-bmpblkparse.py:41-48, bmpblkparse.py:34-58).
ReadersEnd == file # "none" ~> \/ S!Ended
                               \/ walking = "exited"
                               \/ U!Ended
                               \/ broken /\ pushing = "forever"
=============================================================================

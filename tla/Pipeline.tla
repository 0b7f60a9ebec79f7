------------------------------ MODULE Pipeline ------------------------------
(***************************************************************************)
(* forward.py, which passes the messages of a Kafka topic to a Topic, and, *)
(* when it has ended, debag.py, which passes the chunks of the .obmp file  *)
(* that it left to a Topic of its own.  forward.py ends when something is  *)
(* raised, and Python then completes the file; or it is killed, and what   *)
(* was not flushed is lost: the file is cut anywhere.                      *)
(***************************************************************************)
EXTENDS Topic, Chunks

CONSTANTS ObmpMessages, \* what collectors publish
          MaxMessages   \* bound: messages received

BmpMessages == UNION {Range(o.payload) : o \in ObmpMessages}

ASSUME PipelineAssumption ==
    \A o \in ObmpMessages : o.payload \in Seq(BmpMessages) /\ o.size \in Nat

VARIABLES debag_peers, debag_dump, debag_obmp, debag_bmp, debag_raw, debag_at,
          forward       \* whether forward.py is running

debagVars == <<debag_peers, debag_dump, debag_obmp, debag_bmp, debag_raw, debag_at>>
vars == <<topicVars, chunkVars, debagVars, forward>>

D == INSTANCE Topic WITH peers <- debag_peers, dump_file <- debag_dump,
                         obmp_file <- debag_obmp, bmp_file <- debag_bmp,
                         raw_bmp_message <- debag_raw, at <- debag_at

Init == TopicInit /\ ChunksInit /\ D!TopicInit /\ forward = "running"
-----------------------------------------------------------------------------
\* The body of the loop over consumer.
Receive(o) == /\ forward = "running"
              /\ Len(obmp_file) < MaxMessages
              /\ Process(o) \/ ProcessOther(o)
              /\ UNCHANGED <<chunkVars, debagVars, forward>>

Forward == /\ forward = "running"
           /\ TopicStep
           /\ UNCHANGED <<chunkVars, debagVars, forward>>

Killed == forward = "running" /\ forward' = "killed"
          /\ UNCHANGED <<topicVars, chunkVars, debagVars>>
Raised == forward = "running" /\ at = "exited" /\ forward' = "raised"
          /\ UNCHANGED <<topicVars, chunkVars, debagVars>>

FileLengths == IF forward = "killed" THEN 0 .. EndOf(obmp_file, Len(obmp_file))
                                     ELSE {EndOf(obmp_file, Len(obmp_file))}

StartDebag == /\ forward # "running"
              /\ \E n \in FileLengths : OpenChunks(n)
              /\ UNCHANGED <<topicVars, debagVars, forward>>

Debag == ReadStep(obmp_file) /\ UNCHANGED <<topicVars, debagVars, forward>>

\* process_chunk, and back to the loop, or out of the program.
StartChunk == /\ reading = "process" /\ debag_at = "idle"
              /\ Len(debag_obmp) < chunks
              /\ D!Process(obmp_file[chunks]) \/ D!ProcessOther(obmp_file[chunks])
              /\ UNCHANGED <<topicVars, chunkVars, forward>>

ChunkStep == /\ reading = "process"
             /\ D!TopicStep
             /\ UNCHANGED <<topicVars, chunkVars, forward>>

EndChunk == /\ reading = "process" /\ debag_at # "payload"
            /\ Len(debag_obmp) = chunks
            /\ reading' = IF debag_at = "idle" THEN "top" ELSE "exited"
            /\ UNCHANGED <<fileLength, read, start, chunks, topicVars, debagVars, forward>>

Replay == StartDebag \/ Debag \/ StartChunk \/ ChunkStep \/ EndChunk

Next == (\E o \in ObmpMessages : Receive(o)) \/ Forward \/ Killed \/ Raised \/ Replay

\* Kafka need not deliver and nobody need kill the program; debag.py runs on.
Spec == Init /\ [][Next]_vars /\ WF_vars(Replay)
-----------------------------------------------------------------------------
(* Properties *)

TypeOK == /\ at \in {"idle", "payload", "exited"}
          /\ debag_at \in {"idle", "payload", "exited"}
          /\ ChunksTypeOK
          /\ forward \in {"running", "killed", "raised"}

TablesFollowLastWord == LastWordCounts /\ D!LastWordCounts
PeerUpDataIsFirst == FirstPeerUpCounts /\ D!FirstPeerUpCounts
AllFilesAgree == FilesAgree /\ D!FilesAgree
DebagReadsWholeChunks == ReadsWholeChunks(obmp_file)

\* debag.py gives a program that failed its state back, to the peer, table
\* and line of the dump, with the message that it failed on: forward.py
\* writes a message before it looks at it, and both stop in the same place.
\* It holds unless a chunk was cut at the end of a buffer (topic.py:57-69).
ReplayRebuildsTables ==
    forward = "raised" /\ (reading = "end" \/ reading = "exited") =>
        /\ reading = "exited"
        /\ <<debag_peers, debag_dump, debag_obmp, debag_bmp, debag_raw, debag_at>> = topicVars

\* Every file is read to an end (debag.py:36-67).
DebagEnds == forward # "running" ~> ReadEnded \/ reading = "exited"
=============================================================================

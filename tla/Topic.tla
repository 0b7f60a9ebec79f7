------------------------------- MODULE Topic -------------------------------
(***************************************************************************)
(* Topic of topic.py: the openBMP messages of one Kafka topic, as          *)
(* forward.py passes them to process().  Each is added to the .obmp file,  *)
(* taken out of its envelope by oBMP_parse, added to the .bmp file, and    *)
(* its BMP messages are parsed one by one.  What is raised on the way is   *)
(* caught nowhere and ends the program.                                    *)
(***************************************************************************)
EXTENDS BmpContext, SequencesExt

VARIABLES obmp_file, bmp_file,
          raw_bmp_message,    \* what is left of the payload
          at                  \* where process() is, or "exited"

topicVars == <<peers, dump_file, obmp_file, bmp_file, raw_bmp_message, at>>

TopicInit == /\ ContextInit
             /\ obmp_file = << >> /\ bmp_file = << >>
             /\ raw_bmp_message = << >>
             /\ at = "idle"

\* oBMP_parse returns the payload of version 1.7's binary format for IPv4.
\* For the other formats it raises, an assertion or for want of the module
\* `string', or returns None, which then cannot be written to a file.
Binary(o) == o.format = "1.7"

\* Mutant: the message goes to the file when it has been understood.
ProcessUnreadable(o) == /\ at = "idle" /\ ~Binary(o)
                        /\ at' = "exited"
                        /\ UNCHANGED <<peers, dump_file, obmp_file, bmp_file,
                                       raw_bmp_message>>

ProcessOther(o) == /\ at = "idle" /\ ~Binary(o)
                   /\ obmp_file' = Append(obmp_file, o)
                   /\ at' = "exited"
                   /\ UNCHANGED <<peers, dump_file, bmp_file, raw_bmp_message>>

Process(o) == /\ at = "idle" /\ Binary(o)
              /\ obmp_file' = Append(obmp_file, o)
              /\ bmp_file' = bmp_file \o o.payload
              /\ raw_bmp_message' = o.payload
              /\ at' = "payload"
              /\ UNCHANGED <<peers, dump_file>>

\* The payload is cut by get_next into its messages.
InPayload == at = "payload" /\ raw_bmp_message # << >>
bmp_msg == Head(raw_bmp_message)

HandOn == /\ InPayload /\ Parses(bmp_msg) /\ Parse(bmp_msg)
          /\ raw_bmp_message' = Tail(raw_bmp_message)
          /\ UNCHANGED <<obmp_file, bmp_file, at>>

\* The context raises when it has dumped the message.
ContextRaises == /\ InPayload /\ Parses(bmp_msg) /\ ParseFails(bmp_msg)
                 /\ at' = "exited"
                 /\ UNCHANGED <<obmp_file, bmp_file, raw_bmp_message>>

\* The constructor raises before that, or get_next, or line 69, which finds a
\* rest.
MessageRaises == /\ InPayload /\ ~Parses(bmp_msg)
                 /\ at' = "exited"
                 /\ UNCHANGED <<peers, dump_file, obmp_file, bmp_file, raw_bmp_message>>

Processed == /\ at = "payload" /\ raw_bmp_message = << >>
             /\ at' = "idle"
             /\ UNCHANGED <<peers, dump_file, obmp_file, bmp_file, raw_bmp_message>>

TopicStep == HandOn \/ ContextRaises \/ MessageRaises \/ Processed
-----------------------------------------------------------------------------
(* Properties *)

\* The three files tell the same story: the .bmp file has the payloads of the
\* .obmp file, but for a last message that could not be read, and the dump of
\* the context is as far behind as there are messages left to parse, the one
\* included that ended the program before it was dumped (topic.py:51-69).
FilesAgree ==
    LET Written(o) == IF Binary(o) THEN o.payload ELSE << >>
    IN /\ bmp_file = FlattenSeq([i \in DOMAIN obmp_file |-> Written(obmp_file[i])])
       /\ \A i \in DOMAIN obmp_file :
             ~Binary(obmp_file[i]) => at = "exited" /\ i = Len(obmp_file)
       /\ at = "idle" => bmp_file = dump_file
       /\ \/ bmp_file = dump_file \o raw_bmp_message
          \/ at = "exited" /\ bmp_file = dump_file \o Tail(raw_bmp_message)
=============================================================================

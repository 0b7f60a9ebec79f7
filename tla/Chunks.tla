------------------------------- MODULE Chunks -------------------------------
(***************************************************************************)
(* The loop of debag.py over a file of chunks, each a header with the      *)
(* length and the checksum of what follows, which is what topic.py writes  *)
(* to its .obmp file and make-testfile-for-debag.py to its output.  Bytes  *)
(* are positions in the file, of which the buffer holds start .. read - 1. *)
(***************************************************************************)
EXTENDS Integers, Sequences

CONSTANTS header_length,
          BUFSIZE     \* bytes asked of the file at a time

ASSUME ChunksAssumption == /\ header_length \in Nat \ {0} /\ BUFSIZE \in Nat
                           /\ header_length <= BUFSIZE

VARIABLES fileLength, \* how much of the file is there
          read, start,
          chunks,     \* how many were read
          reading     \* where the loop is, or how it ended

chunkVars == <<fileLength, read, start, chunks, reading>>

ChunksInit == /\ fileLength = 0 /\ read = 0 /\ start = 0
              /\ chunks = 0
              /\ reading = "closed"

\* delimit: a chunk takes up its length and that of the header.
Delimited(o) == header_length + o.size
EndOf(file, n) ==
    LET end[i \in 0 .. n] == IF i = 0 THEN 0 ELSE end[i - 1] + Delimited(file[i])
    IN end[n]

OpenChunks(n) == /\ reading = "closed"
                 /\ fileLength' = n
                 /\ reading' = "top"
                 /\ UNCHANGED <<read, start, chunks>>
-----------------------------------------------------------------------------
buf_length == read - start
\* Mutant: as if every read returned a whole block.
ReadMorePast == read' = read + BUFSIZE

ReadMore == read' = IF read + BUFSIZE < fileLength THEN read + BUFSIZE ELSE fileLength

\* Lines 37-40: one read, if the header is not there.
NeedHeader == /\ reading = "top"
              /\ IF buf_length < header_length THEN ReadMore ELSE UNCHANGED read
              /\ reading' = IF read' - start < header_length THEN "end" ELSE "chunk"
              /\ UNCHANGED <<fileLength, start, chunks>>

\* Lines 44-54: reads until the chunk's length is there, its header not
\* counted, or the file ends.
NeedChunk(file) == /\ reading = "chunk"
                   /\ buf_length < file[chunks + 1].size /\ read < fileLength
                   /\ ReadMore
                   /\ UNCHANGED <<fileLength, start, chunks, reading>>

\* Mutant: only the loop over reads is left.
NoChunkYet(file) == /\ reading = "chunk"
                    /\ buf_length < file[chunks + 1].size /\ read = fileLength
                    /\ reading' = "top"
                    /\ UNCHANGED <<fileLength, read, start, chunks>>

NoChunk(file) == /\ reading = "chunk"
                 /\ buf_length < file[chunks + 1].size /\ read = fileLength
                 /\ reading' = "end"
                 /\ UNCHANGED <<fileLength, read, start, chunks>>

\* A slice ends with the buffer; the checksum of a chunk cut so is wrong.
CutChunk(file) == LET n == file[chunks + 1].size
                  IN /\ reading = "chunk"
                     /\ buf_length >= n /\ buf_length < n + header_length
                     /\ start' = read
                     /\ reading' = "crc check failed"
                     /\ UNCHANGED <<fileLength, read, chunks>>

\* Mutant: the header stays in the buffer.
GetChunkOnly(file) == LET n == file[chunks + 1].size
                      IN /\ reading = "chunk"
                         /\ buf_length >= n + header_length
                         /\ start' = start + n
                         /\ chunks' = chunks + 1
                         /\ reading' = "process"
                         /\ UNCHANGED <<fileLength, read>>

GetChunk(file) == LET n == file[chunks + 1].size
                  IN /\ reading = "chunk"
                     /\ buf_length >= n + header_length
                     /\ start' = start + n + header_length
                     /\ chunks' = chunks + 1
                     /\ reading' = "process"
                     /\ UNCHANGED <<fileLength, read>>

ReadStep(file) == \/ NeedHeader \/ NeedChunk(file) \/ NoChunk(file)
                  \/ CutChunk(file) \/ GetChunk(file)
ReadEnded == reading \in {"end", "crc check failed"}
-----------------------------------------------------------------------------
(* Properties *)

ChunksTypeOK == /\ read \in 0 .. fileLength /\ start \in 0 .. read
                /\ chunks \in Nat
                /\ ReadEnded \/ reading \in {"closed", "top", "chunk", "process", "exited"}

\* The buffer begins at a chunk; and when reading ends without a failed
\* checksum, every whole chunk of the file was read.  A checksum fails only
\* where the buffer ended inside the last bytes of a chunk, as many as a
\* header has: that may be a chunk that the file has completely, because
\* line 45 counts without the header (debag.py:36-67).
ReadsWholeChunks(file) ==
    /\ reading = "closed" \/ reading = "crc check failed" \/ start = EndOf(file, chunks)
    /\ reading = "end" => \A i \in chunks + 1 .. Len(file) : EndOf(file, i) > fileLength
    /\ reading = "crc check failed" =>
          LET missing == EndOf(file, chunks + 1) - read
          IN missing > 0 /\ missing <= header_length
=============================================================================

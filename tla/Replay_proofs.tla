---------------------------- MODULE Replay_proofs ----------------------------
(***************************************************************************)
(* Proofs about Replay: whatever the stream, the sizes of the blocks and   *)
(* the place where the session ended, the readers find in its files what   *)
(* they should.                                                            *)
(***************************************************************************)
EXTENDS Replay, Framing_proofs, SequenceTheorems, TLAPS

\* The proofs about the loop of bmpd, for the same loop in filewalker.py.
WP == INSTANCE Framing_proofs WITH BUFSIZ <- bufsiz, received <- walked,
                                   start <- filebuffer, handed <- parsed,
                                   at <- walking

LEMMA EndGrows ==
    ASSUME NEW i \in 0 .. N, NEW j \in 0 .. N, i < j
    PROVE  End[j] >= End[i] + 6
<1>1. j \in 1 .. MessageCount /\ i \in 0 .. j - 1
  BY StreamFacts DEF N
<1> QED BY <1>1, StreamAssumption DEF HeaderLength

LEMMA EndInjective ==
    ASSUME NEW i \in 0 .. N, NEW j \in 0 .. N, End[i] <= End[j]
    PROVE  i <= j
BY EndGrows, StreamFacts

\* What is End at the first position after a header is not yet the next End.
LEMMA LengthAtEnd ==
    ASSUME NEW k \in 0 .. N, k < N
    PROVE  /\ k + 1 \in 1 .. N
           /\ LengthAt[End[k]] = End[k + 1] - End[k]
           /\ End[k] \in Nat /\ End[k + 1] \in Nat
           /\ End[k + 1] >= End[k] + 6
           /\ End[k + 1] <= StreamLength
<1>1. k + 1 \in 1 .. MessageCount /\ k + 1 - 1 = k
  BY StreamFacts DEF N
<1> QED BY <1>1, EndGrows, StreamFacts, StreamAssumption DEF N

\* A position that has room for a header behind it is not the end.
LEMMA RoomMeansNext ==
    ASSUME NEW k \in 0 .. N, NEW r \in Nat, End[k] < r, r <= StreamLength
    PROVE  k < N
BY StreamFacts DEF StreamLength, N

\* No message that is whole among the first r bytes is refused, when those
\* before k are not and those behind it are not whole.
LEMMA NoneRefused ==
    ASSUME NEW k \in 0 .. N, NEW r \in Nat,
           \A i \in 1 .. k : End[i - 1] \notin Refused,
           \A i \in k + 1 .. N : End[i] > r
    PROVE  ~ \E i \in 1 .. MessageCount : End[i] <= r /\ End[i - 1] \in Refused
<1> SUFFICES ASSUME NEW i \in 1 .. N, End[i] <= r
             PROVE  End[i - 1] \notin Refused
  BY DEF N
<1>1. i \in 0 .. N
  BY StreamFacts
<1>2. ~(i \in k + 1 .. N)
  BY <1>1, StreamFacts
<1>3. i \in 1 .. k
  BY <1>2, StreamFacts
<1> QED BY <1>3
-----------------------------------------------------------------------------
(* Spider *)

\* Between two calls of get the messages found are the first ones, none of
\* them refused, and what get has returned ends with them, or six bytes
\* behind them.  A short read is the last one.
SpiderInStep ==
    /\ Len(bmp_msgs) \in 0 .. N
    /\ bmp_msgs = Messages(Len(bmp_msgs))
    /\ \A i \in 1 .. Len(bmp_msgs) : End[i - 1] \notin Refused
    /\ phase = "raised" => S!HoldsRefused /\ bmp_msgs = << >>
    /\ phase = "closed" => /\ read = 0 /\ taken = 0 /\ bmp_msgs = << >>
                           /\ short = FALSE
    /\ phase \in {"closed", "header"} => taken = End[Len(bmp_msgs)]
    /\ phase = "payload" => /\ Len(bmp_msgs) < N
                            /\ taken = End[Len(bmp_msgs)] + 6
    /\ short => read = fileLength
    /\ End[Len(bmp_msgs)] <= fileLength

SpiderInv == S!TypeOK /\ SpiderInStep /\ S!FindsEveryMessage

LEMMA AppendType == ASSUME NEW R, NEW s \in Seq(R), NEW e \in R
                    PROVE  Append(s, e) \in Seq(R)
OBVIOUS

LEMMA SpiderBytes ==
    /\ S!StreamLength = StreamLength
    /\ S!HeaderLength = 6
    /\ \A k : S!Messages(k) = Messages(k)
    /\ \A a, b : S!Slice(a, b) = Slice(a, b)
BY DEF S!StreamLength, StreamLength, S!HeaderLength, S!Messages, Messages,
       S!Message, Message, S!Slice, Slice

LEMMA SpiderReadBlock ==
    ASSUME SpiderInv, S!ReadBlock
    PROVE  SpiderInv'
<1> DEFINE n == S!Smaller(bufsiz, fileLength - read)
<1>1. /\ fileLength \in 0 .. StreamLength /\ read \in 0 .. fileLength
      /\ StreamLength \in Nat
  BY SpiderBytes, StreamFacts DEF SpiderInv, S!TypeOK, S!StreamLength
<1>2. n \in 0 .. fileLength - read /\ (n < bufsiz => n = fileLength - read)
  BY <1>1, ReplayAssumption DEF S!Smaller
<1>3. /\ read' = read + n /\ short' = (n < bufsiz)
      /\ phase \in {"header", "payload"}
      /\ UNCHANGED <<fileLength, taken, phase, bmp_msgs>>
  BY DEF S!ReadBlock, S!Short, S!InGet
<1>4. read' \in read .. fileLength
  <2> HIDE DEF n
  <2> QED BY <1>1, <1>2, <1>3
<1>8. short' \in BOOLEAN /\ (short' => n < bufsiz)
  <2> HIDE DEF n
  <2>1. CASE n < bufsiz
    BY <1>3, <2>1, Zenon
  <2>2. CASE ~(n < bufsiz)
    <3>1. short' = FALSE
      <4>1. (n < bufsiz) = FALSE
        BY <2>2
      <4> QED BY <1>3, <4>1
    <3> QED BY <3>1
  <2> QED BY <2>1, <2>2
<1>9. short' => read' = fileLength'
  <2> HIDE DEF n
  <2>1. n < bufsiz => read' = fileLength'
    BY <1>1, <1>2, <1>3
  <2> QED BY <1>8, <2>1
<1>5. S!TypeOK'
  <2>1. read' \in 0 .. fileLength' /\ taken' \in 0 .. read'
    <3>1. taken \in 0 .. read /\ taken' = taken /\ fileLength' = fileLength
      BY <1>3 DEF SpiderInv, S!TypeOK
    <3> QED BY <1>1, <1>4, <3>1
  <2> QED BY <1>3, <1>8, <2>1 DEF SpiderInv, S!TypeOK, S!StreamLength
<1>6. SpiderInStep'
  BY <1>3, <1>9 DEF SpiderInv, SpiderInStep, S!HoldsRefused
<1>7. S!FindsEveryMessage'
  BY <1>3 DEF S!FindsEveryMessage, S!FoundAll, S!HoldsRefused, S!Ended
<1> QED BY <1>5, <1>6, <1>7 DEF SpiderInv

LEMMA SpiderFile == SpiderInv => fileLength \in Nat
<1>1. S!StreamLength \in Nat
  BY StreamFacts, SpiderBytes
<1>2. SpiderInv => fileLength \in 0 .. S!StreamLength
  BY Zenon DEF SpiderInv, S!TypeOK
<1> QED BY <1>1, <1>2

LEMMA UpToN == \A k \in 0 .. N : k \in Nat /\ k <= N
BY StreamFacts

LEMMA NoMessages == << >> \in Seq([from : Nat, to : Nat])
OBVIOUS

\* An end of file that parse() notices, behind the first k messages.
LEMMA SpiderEnds ==
    ASSUME SpiderInv, NEW k \in 0 .. N,
           \A i \in 1 .. k : End[i - 1] \notin Refused,
           bmp_msgs' = Messages(k), fileLength' = fileLength,
           \A i \in k + 1 .. N : End[i] > fileLength,
           phase' = IF End[k] = fileLength THEN "normal end" ELSE "unexpected end"
    PROVE  S!FindsEveryMessage'
<1>1. fileLength \in Nat
  BY SpiderFile
<1>2. ~(S!HoldsRefused)'
  BY <1>1, NoneRefused DEF S!HoldsRefused
<1>3. k \in Nat /\ k <= N /\ Len(bmp_msgs') = k
  <2>1. k \in Nat /\ k <= N
    BY UpToN
  <2> QED BY <2>1, MessagesLength
<1>4. S!FoundAll'
  BY <1>3, SpiderBytes DEF S!FoundAll, N
<1> QED BY <1>2, <1>4 DEF S!FindsEveryMessage

LEMMA SpiderGetHeader ==
    ASSUME SpiderInv, S!GetHeader
    PROVE  SpiderInv'
<1> DEFINE k == Len(bmp_msgs)
<1>1. /\ fileLength \in 0 .. StreamLength /\ read \in 0 .. fileLength
      /\ taken \in 0 .. read /\ StreamLength \in Nat
      /\ k \in 0 .. N /\ bmp_msgs = Messages(k) /\ taken = End[k]
      /\ phase = "header" /\ (short => read = fileLength)
      /\ End[k] <= fileLength
      /\ \A i \in 1 .. k : End[i - 1] \notin Refused
  BY SpiderBytes, StreamFacts DEF SpiderInv, SpiderInStep, S!TypeOK, S!GetHeader
<1>2. S!Size = 6 /\ S!Buffered = read - taken
  BY <1>1, SpiderBytes DEF S!Size, S!Buffered
<1>3. 6 <= read - taken \/ short = TRUE
  BY <1>1, <1>2 DEF S!GetHeader, S!GetReturns, S!Enough
<1>4. /\ taken' = taken + S!Smaller(6, read - taken)
      /\ short' = FALSE
      /\ UNCHANGED <<fileLength, read, bmp_msgs>>
  BY <1>2 DEF S!GetHeader, S!GetReturns
<1>5. phase' = CASE read - taken = 0 -> "normal end"
                 [] read - taken \in 1 .. 5 -> "unexpected end"
                 [] OTHER -> "payload"
  <2>1. S!Size - 1 = 5
    BY <1>2
  <2> QED BY <1>2, <2>1 DEF S!GetHeader
<1>6. CASE read - taken >= 6
  <2>1. phase' = "payload"
    <3>1. ~(read - taken = 0) /\ ~(read - taken \in 1 .. 5)
      BY <1>1, <1>6
    <3> QED BY <1>5, <3>1
  <2>2. taken' = End[k] + 6 /\ taken' \in 0 .. read
    BY <1>1, <1>4, <1>6 DEF S!Smaller
  <2>3. k < N
    <3>1. End[k] < read /\ read <= StreamLength /\ read \in Nat
      BY <1>1, <1>6
    <3> HIDE DEF k
    <3> QED BY <1>1, <3>1, RoomMeansNext
  <2>4. S!TypeOK'
    BY <1>1, <1>4, <2>1, <2>2 DEF SpiderInv, S!TypeOK, S!StreamLength
  <2>5. SpiderInStep' /\ S!FindsEveryMessage'
    BY <1>1, <1>4, <2>1, <2>2, <2>3 DEF SpiderInStep, S!FindsEveryMessage, S!FoundAll, S!HoldsRefused, S!Ended
  <2> QED BY <2>4, <2>5 DEF SpiderInv
<1>7. CASE read - taken < 6
  <2>1. read = fileLength /\ taken' = fileLength
    BY <1>1, <1>3, <1>4, <1>7 DEF S!Smaller
  <2>2. phase' = IF End[k] = fileLength THEN "normal end" ELSE "unexpected end"
    <3>1. read - taken = 0 <=> End[k] = fileLength
      BY <1>1, <2>1
    <3>2. read - taken # 0 => read - taken \in 1 .. 5
      BY <1>1, <1>7
    <3>3. CASE read - taken = 0
      <4>1. ~(read - taken \in 1 .. 5)
        BY <3>3
      <4> QED BY <1>5, <3>1, <3>3, <4>1
    <3>4. CASE read - taken # 0
      BY <1>5, <3>1, <3>2, <3>4
    <3> QED BY <3>3, <3>4
  <2>3. \A i \in k + 1 .. N : End[i] > fileLength
    <3> HIDE DEF k
    <3>1. TAKE i \in k + 1 .. N
    <3>2. i \in 0 .. N /\ k < i
      BY <1>1, StreamFacts
    <3>3. End[i] >= End[k] + 6 /\ End[i] \in Nat /\ End[k] \in Nat
      BY <1>1, <3>2, EndGrows, StreamFacts
    <3> QED BY <1>1, <1>7, <2>1, <3>3
  <2>4. S!TypeOK'
    BY <1>1, <1>4, <2>1, <2>2 DEF SpiderInv, S!TypeOK, S!StreamLength
  <2>5. SpiderInStep'
    BY <1>1, <1>4, <2>1, <2>2 DEF SpiderInStep
  <2>6. S!FindsEveryMessage'
    <3>1. bmp_msgs' = Messages(k) /\ fileLength' = fileLength
      BY <1>1, <1>4
    <3> HIDE DEF k
    <3> QED BY <1>1, <2>2, <2>3, <3>1, SpiderEnds
  <2> QED BY <2>4, <2>5, <2>6 DEF SpiderInv
<1> QED BY <1>1, <1>6, <1>7

\* The payload of a message: what get is asked for and what it returns.
LEMMA SpiderPayload ==
    ASSUME SpiderInv, phase = "payload", S!GetReturns
    PROVE  LET k == Len(bmp_msgs)
               size == End[k + 1] - End[k] - 6
           IN /\ S!Size = size /\ size \in Nat /\ S!Buffered = read - taken
              /\ read - taken < size => read = fileLength /\ End[k + 1] > fileLength
              /\ read - taken >= size => taken' = End[k + 1] /\ End[k + 1] <= fileLength
              /\ taken' \in 0 .. read /\ short' = FALSE
              /\ S!IsRefused <=> End[k] \in Refused
              /\ taken - 6 = End[k]
<1> DEFINE k == Len(bmp_msgs)
           size == End[k + 1] - End[k] - 6
<1>1. /\ fileLength \in 0 .. StreamLength /\ read \in 0 .. fileLength
      /\ taken \in 0 .. read /\ StreamLength \in Nat
      /\ k \in 0 .. N /\ k < N /\ bmp_msgs = Messages(k) /\ taken = End[k] + 6
      /\ (short => read = fileLength) /\ End[k] <= fileLength
  BY SpiderBytes, StreamFacts DEF SpiderInv, SpiderInStep, S!TypeOK
<1>2. /\ k + 1 \in 1 .. N /\ LengthAt[End[k]] = End[k + 1] - End[k]
      /\ End[k] \in Nat /\ End[k + 1] \in Nat /\ End[k + 1] >= End[k] + 6
  <2> HIDE DEF k
  <2> QED BY <1>1, LengthAtEnd
<1>3. S!Size = size /\ size \in Nat /\ S!Buffered = read - taken
  <2>1. taken - 6 = End[k]
    BY <1>1, <1>2
  <2>2. S!Size = LengthAt[taken - 6] - 6
    BY <1>1, SpiderBytes DEF S!Size
  <2> QED BY <1>2, <2>1, <2>2 DEF S!Buffered
<1> HIDE DEF size
<1>4. size <= read - taken \/ short = TRUE
  BY <1>3 DEF S!GetReturns, S!Enough
<1>5. taken' = taken + S!Smaller(size, read - taken) /\ short' = FALSE
  BY <1>3 DEF S!GetReturns
<1>6. taken' \in 0 .. read
  <2>1. S!Smaller(size, read - taken) \in 0 .. read - taken
    BY <1>1, <1>3 DEF S!Smaller
  <2> QED BY <1>1, <1>5, <2>1
<1>7. read - taken >= size => taken' = End[k + 1] /\ End[k + 1] <= fileLength
  <2>1. SUFFICES ASSUME read - taken >= size
                 PROVE  taken' = End[k + 1] /\ End[k + 1] <= fileLength
    OBVIOUS
  <2>2. taken' = taken + size
    BY <1>1, <1>3, <1>5, <2>1 DEF S!Smaller
  <2> QED BY <1>1, <1>2, <1>6, <2>2 DEF size
<1>8. read - taken < size => read = fileLength /\ End[k + 1] > fileLength
  BY <1>1, <1>2, <1>3, <1>4 DEF size
<1>9. taken - 6 = End[k] /\ (S!IsRefused <=> End[k] \in Refused)
  <2>1. taken - 6 = End[k]
    BY <1>1, <1>2
  <2> QED BY <2>1, SpiderBytes DEF S!IsRefused
<1> QED BY <1>3, <1>5, <1>6, <1>7, <1>8, <1>9 DEF size

LEMMA SpiderGetPayload ==
    ASSUME SpiderInv, S!GetPayload
    PROVE  SpiderInv'
<1> DEFINE k == Len(bmp_msgs)
           size == End[k + 1] - End[k] - 6
<1>1. /\ fileLength \in 0 .. StreamLength /\ read \in 0 .. fileLength
      /\ taken \in 0 .. read /\ StreamLength \in Nat
      /\ k \in 0 .. N /\ k < N /\ bmp_msgs = Messages(k)
      /\ phase = "payload" /\ End[k] <= fileLength
      /\ \A i \in 1 .. k : End[i - 1] \notin Refused
  BY SpiderBytes, StreamFacts DEF SpiderInv, SpiderInStep, S!TypeOK, S!GetPayload
<1>2. /\ k + 1 \in 1 .. N /\ End[k] \in Nat /\ End[k + 1] \in Nat
      /\ End[k + 1] >= End[k] + 6
  <2> HIDE DEF k
  <2> QED BY <1>1, LengthAtEnd
<1>3. /\ S!Size = size /\ size \in Nat /\ S!Buffered = read - taken
      /\ read - taken < size => read = fileLength /\ End[k + 1] > fileLength
      /\ read - taken >= size => taken' = End[k + 1] /\ End[k + 1] <= fileLength
      /\ taken' \in 0 .. read /\ short' = FALSE
      /\ S!IsRefused <=> End[k] \in Refused
      /\ taken - 6 = End[k]
  BY <1>1, SpiderPayload DEF S!GetPayload
<1> HIDE DEF size
<1>5. UNCHANGED <<fileLength, read>>
  BY DEF S!GetPayload, S!GetReturns
<1>7. CASE read - taken >= size
  <2>1. taken' = End[k + 1] /\ End[k + 1] <= fileLength
    BY <1>3, <1>7
  <2>2. /\ phase' = "header" /\ bmp_msgs' = Append(bmp_msgs, S!Slice(taken - 6, taken'))
        /\ End[k] \notin Refused
    <3>1. ~(read - taken < size)
      BY <1>1, <1>3, <1>7
    <3> QED BY <1>3, <3>1, SpiderBytes DEF S!GetPayload
  <2>3. S!Slice(taken - 6, taken') = Message(k + 1)
    BY <1>2, <1>3, <2>1 DEF S!Slice, Slice, Message
  <2>4. bmp_msgs' = Messages(k + 1) /\ Len(bmp_msgs') = k + 1
    <3>1. bmp_msgs' = Append(Messages(k), Message(k + 1)) /\ k \in Nat /\ k + 1 \in Nat
      BY <1>1, <2>2, <2>3, StreamFacts
    <3> HIDE DEF k
    <3> QED BY <3>1, AppendNext, MessagesLength
  <2>5. S!TypeOK'
    <3>1. Message(k + 1) \in [from : Nat, to : Nat]
      BY <1>1, <1>2 DEF Message, Slice
    <3>2. bmp_msgs \in Seq([from : Nat, to : Nat])
      BY DEF SpiderInv, S!TypeOK
    <3>3. bmp_msgs' \in Seq([from : Nat, to : Nat])
      BY <2>2, <2>3, <3>1, <3>2, AppendType
    <3> QED BY <1>1, <1>3, <1>5, <2>2, <3>3 DEF SpiderInv, S!TypeOK, S!StreamLength
  <2>6. SpiderInStep' /\ S!FindsEveryMessage'
    <3>1. \A i \in 1 .. k + 1 : End[i - 1] \notin Refused
      <4>1. (k + 1) - 1 = k /\ \A i \in 1 .. k + 1 : i \in 1 .. k \/ i = k + 1
        BY <1>1, StreamFacts
      <4> QED BY <1>1, <2>2, <4>1
    <3>2. k + 1 \in 0 .. N
      BY <1>2, StreamFacts
    <3> HIDE DEF k
    <3> QED BY <1>3, <1>5, <2>1, <2>2, <2>4, <3>1, <3>2
            DEF SpiderInStep, S!FindsEveryMessage, S!FoundAll, S!HoldsRefused, S!Ended
  <2> QED BY <2>5, <2>6 DEF SpiderInv
<1>8. CASE read - taken < size
  <2>2. phase' = "unexpected end" /\ UNCHANGED bmp_msgs
    <3>1. ~(read - taken >= size)
      BY <1>1, <1>3, <1>8
    <3> QED BY <1>3, <3>1 DEF S!GetPayload
  <2>3. End[k + 1] > fileLength /\ End[k] # fileLength /\ fileLength \in Nat
    BY <1>1, <1>2, <1>3, <1>8 DEF SpiderInv, SpiderInStep
  <2>4. \A i \in k + 1 .. N : End[i] > fileLength
    <3> HIDE DEF k
    <3> QED BY <1>2, <2>3, LaterMessages
  <2>5. S!TypeOK'
    BY <1>1, <1>3, <1>5, <2>2 DEF SpiderInv, S!TypeOK, S!StreamLength
  <2>6. SpiderInStep'
    BY <1>1, <1>3, <1>5, <2>2 DEF SpiderInStep
  <2>7. S!FindsEveryMessage'
    <3>1. bmp_msgs' = Messages(k) /\ fileLength' = fileLength
      BY <1>1, <1>5, <2>2
    <3> HIDE DEF k
    <3> QED BY <1>1, <2>2, <2>3, <2>4, <3>1, SpiderEnds
  <2> QED BY <2>5, <2>6, <2>7 DEF SpiderInv
<1> QED BY <1>1, <1>3, <1>7, <1>8

LEMMA SpiderGetBadPayload ==
    ASSUME SpiderInv, S!GetBadPayload
    PROVE  SpiderInv'
<1> DEFINE k == Len(bmp_msgs)
           size == End[k + 1] - End[k] - 6
<1>1. /\ fileLength \in 0 .. StreamLength /\ read \in 0 .. fileLength
      /\ taken \in 0 .. read /\ StreamLength \in Nat
      /\ k \in 0 .. N /\ k < N /\ phase = "payload"
  BY SpiderBytes, StreamFacts DEF SpiderInv, SpiderInStep, S!TypeOK, S!GetBadPayload
<1>2. /\ S!Size = size /\ size \in Nat /\ S!Buffered = read - taken
      /\ read - taken >= size => End[k + 1] <= fileLength
      /\ taken' \in 0 .. read /\ short' = FALSE
      /\ S!IsRefused <=> End[k] \in Refused
  BY <1>1, SpiderPayload DEF S!GetBadPayload
<1>3. /\ UNCHANGED <<fileLength, read>> /\ phase' = "raised" /\ bmp_msgs' = << >>
      /\ read - taken >= size /\ End[k] \in Refused
  BY <1>2 DEF S!GetBadPayload, S!GetReturns
<1> HIDE DEF size
<1>4. S!HoldsRefused'
  <2>1. k + 1 \in 1 .. MessageCount /\ (k + 1) - 1 = k
    BY <1>1, StreamFacts DEF N
  <2>2. End[k + 1] <= fileLength' /\ End[(k + 1) - 1] \in Refused
    BY <1>2, <1>3, <2>1
  <2> HIDE DEF k
  <2> QED BY <2>1, <2>2 DEF S!HoldsRefused
<1>5. S!TypeOK'
  <2>1. bmp_msgs' \in Seq([from : Nat, to : Nat]) /\ short' \in BOOLEAN
    BY <1>2, <1>3, NoMessages
  <2> HIDE DEF k
  <2> QED BY <1>1, <1>2, <1>3, <2>1 DEF SpiderInv, S!TypeOK, S!StreamLength
<1>6. SpiderInStep'
  BY <1>1, <1>2, <1>3, <1>4, StreamFacts, StreamAssumption DEF SpiderInStep, Messages
<1>7. S!FindsEveryMessage'
  BY <1>3, <1>4 DEF S!FindsEveryMessage
<1> QED BY <1>5, <1>6, <1>7 DEF SpiderInv

LEMMA SpiderStepInv ==
    ASSUME SpiderInv, S!Step
    PROVE  SpiderInv'
<1>1. CASE S!ReadBlock
  BY <1>1, SpiderReadBlock
<1>2. CASE S!GetHeader
  BY <1>2, SpiderGetHeader
<1>3. CASE S!GetPayload
  BY <1>3, SpiderGetPayload
<1>4. CASE S!GetBadPayload
  BY <1>4, SpiderGetBadPayload
<1> QED BY <1>1, <1>2, <1>3, <1>4 DEF S!Step

LEMMA SpiderOpen ==
    ASSUME SpiderInv, NEW n \in 0 .. StreamLength, S!Open(n)
    PROVE  SpiderInv'
<1>1. /\ phase = "closed" /\ phase' = "header"
      /\ read = 0 /\ taken = 0 /\ bmp_msgs = << >>
      /\ fileLength' = n /\ UNCHANGED <<read, taken, short, bmp_msgs>>
  BY DEF SpiderInv, SpiderInStep, S!Open
<1>2. S!TypeOK'
  BY <1>1, StreamFacts DEF SpiderInv, S!TypeOK, S!StreamLength, StreamLength
<1>3. SpiderInStep' /\ S!FindsEveryMessage'
  BY <1>1 DEF SpiderInv, SpiderInStep, S!FindsEveryMessage, S!FoundAll, S!HoldsRefused, S!Ended
<1> QED BY <1>2, <1>3 DEF SpiderInv
-----------------------------------------------------------------------------
(* The Unblocker *)

\* The bytes of the stream from one position up to another.
Run(from, to) == [i \in 1 .. to - from |-> from + i - 1]

LEMMA RunIsSeq ==
    ASSUME NEW a \in Nat, NEW b \in Nat, a <= b
    PROVE  /\ Run(a, b) \in Seq(Nat) /\ Len(Run(a, b)) = b - a
           /\ \A i \in 1 .. b - a : Run(a, b)[i] = a + i - 1
BY DEF Run

LEMMA RunAppend ==
    ASSUME NEW a \in Nat, NEW b \in Nat, NEW c \in Nat, a <= b, b <= c
    PROVE  Run(a, b) \o Run(b, c) = Run(a, c)
<1> DEFINE s == Run(a, b) \o Run(b, c)
<1>1. /\ s \in Seq(Nat) /\ Len(s) = (b - a) + (c - b)
      /\ \A i \in 1 .. (b - a) + (c - b) :
            s[i] = IF i <= b - a THEN Run(a, b)[i] ELSE Run(b, c)[i - (b - a)]
  <2>1. /\ Run(a, b) \in Seq(Nat) /\ Len(Run(a, b)) = b - a
        /\ Run(b, c) \in Seq(Nat) /\ Len(Run(b, c)) = c - b
    BY RunIsSeq
  <2>2. /\ s \in Seq(Nat) /\ Len(s) = Len(Run(a, b)) + Len(Run(b, c))
        /\ \A i \in 1 .. Len(Run(a, b)) + Len(Run(b, c)) :
              s[i] = IF i <= Len(Run(a, b)) THEN Run(a, b)[i]
                                            ELSE Run(b, c)[i - Len(Run(a, b))]
    BY <2>1, ConcatProperties
  <2> HIDE DEF s
  <2> QED BY <2>1, <2>2
<1>2. /\ Run(a, c) \in Seq(Nat) /\ Len(Run(a, c)) = c - a
      /\ \A i \in 1 .. c - a : Run(a, c)[i] = a + i - 1
  BY RunIsSeq
<1> HIDE DEF s
<1>3. ASSUME NEW i \in 1 .. c - a
      PROVE  s[i] = a + i - 1
  <2>1. CASE i <= b - a
    <3>1. i \in 1 .. b - a
      BY <2>1
    <3>2. Run(a, b)[i] = a + i - 1
      BY <3>1, RunIsSeq
    <3> QED BY <1>1, <2>1, <3>2
  <2>2. CASE i > b - a
    <3>1. i - (b - a) \in 1 .. c - b
      BY <2>2
    <3>2. Run(b, c)[i - (b - a)] = b + (i - (b - a)) - 1
      BY <3>1, RunIsSeq
    <3> QED BY <1>1, <2>2, <3>2
  <2> QED BY <2>1, <2>2
<1>4. Len(s) = Len(Run(a, c)) /\ \A i \in 1 .. Len(s) : s[i] = Run(a, c)[i]
  BY <1>1, <1>2, <1>3
<1>5. s = Run(a, c)
  BY <1>1, <1>2, <1>4, SeqEqual
<1> QED BY <1>5 DEF s

LEMMA RunSub ==
    ASSUME NEW a \in Nat, NEW b \in Nat, a <= b,
           NEW o \in 0 .. b - a, NEW e \in o .. b - a
    PROVE  SubSeq(Run(a, b), o + 1, e) = Run(a + o, a + e)
<1> DEFINE s == SubSeq(Run(a, b), o + 1, e)
<1>1. \A i \in o + 1 .. e : Run(a, b)[i] = a + i - 1 /\ a + i - 1 \in Nat
  BY RunIsSeq
<1>2. /\ s \in Seq(Nat)
      /\ Len(s) = IF o + 1 <= e THEN e - (o + 1) + 1 ELSE 0
      /\ \A i \in 1 .. e - (o + 1) + 1 : s[i] = Run(a, b)[o + 1 + i - 1]
  BY <1>1, SubSeqProperties
<1>3. /\ Run(a + o, a + e) \in Seq(Nat) /\ Len(Run(a + o, a + e)) = e - o
      /\ \A i \in 1 .. e - o : Run(a + o, a + e)[i] = a + o + i - 1
  <2>1. a + o \in Nat /\ a + e \in Nat /\ a + o <= a + e /\ (a + e) - (a + o) = e - o
    OBVIOUS
  <2> DEFINE c == a + o
             d == a + e
  <2>2. c \in Nat /\ d \in Nat /\ c <= d /\ d - c = e - o
    BY <2>1
  <2> HIDE DEF c, d
  <2>3. /\ Run(c, d) \in Seq(Nat) /\ Len(Run(c, d)) = d - c
        /\ \A i \in 1 .. d - c : Run(c, d)[i] = c + i - 1
    BY <2>2, RunIsSeq
  <2>4. /\ Run(c, d) \in Seq(Nat) /\ Len(Run(c, d)) = e - o
        /\ \A i \in 1 .. e - o : Run(c, d)[i] = c + i - 1
    BY <2>2, <2>3
  <2> QED BY <2>4 DEF c, d
<1> HIDE DEF s
<1>4. \A i \in 1 .. e - o : s[i] = a + o + i - 1
  BY <1>1, <1>2
<1>5. Len(s) = Len(Run(a + o, a + e)) /\ \A i \in 1 .. Len(s) : s[i] = Run(a + o, a + e)[i]
  BY <1>2, <1>3, <1>4
<1>6. s = Run(a + o, a + e)
  BY <1>2, <1>3, <1>5, SeqEqual
<1> QED BY <1>6 DEF s

LEMMA RunInStream ==
    ASSUME NEW a \in Nat, NEW b \in 0 .. StreamLength, a <= b
    PROVE  Run(a, b) \in Seq(0 .. StreamLength)
<1>1. \A i \in 1 .. b - a : a + i - 1 \in 0 .. StreamLength
  BY StreamFacts
<1>2. b - a \in Nat
  BY StreamFacts
<1> QED BY <1>1, <1>2 DEF Run

UnblockTypes ==
    /\ fileLength \in 0 .. StreamLength /\ pushed \in 0 .. fileLength
    /\ count \in Nat
    /\ msg_tail \in Seq(0 .. StreamLength)
    /\ msg \in Seq(0 .. StreamLength) /\ offset \in 0 .. Len(msg)
    /\ pushing \in {"closed", "read", "push", "forever"} \/ U!Ended
    /\ broken \in BOOLEAN
    /\ pushing = "closed" => pushed = 0

\* Until a block ended in a bad place, the tail is the part of a message that
\* has been pushed, and msg is what has been pushed from there on, of which
\* the bytes from offset on are not yet unblocked.
UnblockInStep ==
    LET k == Len(unblocked)
    IN /\ k \in 0 .. N /\ unblocked = Messages(k)
       /\ pushing \notin {"struct.error", "AssertionError", "forever"}
       /\ pushing \in {"closed", "read", "end"} =>
             /\ End[k] <= pushed
             /\ msg_tail = Run(End[k], pushed)
             /\ \A i \in k + 1 .. N : End[i] > pushed
       /\ pushing = "push" =>
             /\ pushed >= Len(msg)
             /\ msg = Run(pushed - Len(msg), pushed)
             /\ End[k] = pushed - Len(msg) + offset

UnblockInv == UnblockTypes /\ (~broken => UnblockInStep)

LEMMA UnblockFacts ==
    ASSUME UnblockInv
    PROVE  /\ StreamLength \in Nat
           /\ fileLength \in Nat /\ fileLength <= StreamLength
           /\ pushed \in Nat /\ pushed <= fileLength
           /\ Len(msg) \in Nat /\ offset \in Nat /\ offset <= Len(msg)
           /\ Len(msg_tail) \in Nat /\ count \in Nat
           /\ U!Left = Len(msg) - offset
           /\ U!HeaderLength = 6
           /\ U!StreamLength = StreamLength
           /\ ~broken => Len(unblocked) \in Nat /\ End[Len(unblocked)] \in Nat
BY StreamFacts DEF UnblockInv, UnblockTypes, UnblockInStep, U!Left, U!HeaderLength,
                   U!StreamLength, StreamLength

\* In a loop of push on a stream without a seam, where there is room for a
\* header there is one, of the first message that is not unblocked yet.
LEMMA AtHeader ==
    ASSUME UnblockInv, ~broken, U!InLoop, U!Left >= 6
    PROVE  LET k == Len(unblocked)
           IN /\ k < N /\ k + 1 \in 1 .. N
              /\ End[k] \in Nat /\ End[k + 1] \in Nat
              /\ End[k + 1] >= End[k] + 6
              /\ End[k] = pushed - U!Left
              /\ U!Length = End[k + 1] - End[k]
              /\ \A n \in 1 .. U!Left : U!Piece(n) = Slice(End[k], End[k] + n)
              /\ U!IsHeader
<1> DEFINE k == Len(unblocked)
           m == pushed - Len(msg)
<1>0. /\ pushed \in Nat /\ Len(msg) \in Nat /\ StreamLength \in Nat
      /\ offset \in Nat /\ offset <= Len(msg)
      /\ U!Left = Len(msg) - offset /\ U!Left \in Nat /\ U!Left >= 6
  BY UnblockFacts
<1>1. /\ k \in 0 .. N /\ m \in Nat /\ pushed = m + Len(msg)
      /\ msg = Run(m, pushed) /\ End[k] = m + offset
      /\ End[k] = pushed - U!Left
  <2>1. UnblockInStep /\ pushing = "push"
    BY DEF UnblockInv, U!InLoop
  <2> QED BY <2>1, UnblockFacts DEF UnblockInStep
<1>2. k < N
  <2>1. End[k] < pushed /\ pushed <= StreamLength
    BY <1>1, UnblockFacts
  <2> HIDE DEF k
  <2> QED BY <1>1, <2>1, RoomMeansNext, UnblockFacts
<1>3. /\ k + 1 \in 1 .. N /\ LengthAt[End[k]] = End[k + 1] - End[k]
      /\ End[k] \in Nat /\ End[k + 1] \in Nat /\ End[k + 1] >= End[k] + 6
  <2> HIDE DEF k
  <2> QED BY <1>1, <1>2, LengthAtEnd
<1>4. \A i \in 1 .. U!Left : msg[offset + i] = End[k] + i - 1
  <2> TAKE i \in 1 .. U!Left
  <2> HIDE DEF m, k
  <2>1. offset + i \in 1 .. pushed - m /\ m <= pushed
    BY <1>0, <1>1
  <2>2. Run(m, pushed)[offset + i] = m + (offset + i) - 1
    BY <1>0, <1>1, <2>1, RunIsSeq
  <2> QED BY <1>0, <1>1, <2>2
<1>5. U!Length = End[k + 1] - End[k]
  <2>1. msg[offset + 1] = End[k]
    <3>1. 1 \in 1 .. U!Left
      BY <1>0
    <3> HIDE DEF k
    <3> QED BY <1>3, <1>4, <3>1
  <2> QED BY <1>3, <2>1 DEF U!Length
<1>6. ASSUME NEW n \in 1 .. U!Left
      PROVE  U!Piece(n) = Slice(End[k], End[k] + n)
  <2> DEFINE s == SubSeq(msg, offset + 1, offset + n)
  <2>1. \A i \in 1 .. n : s[i] = End[k] + i - 1
    <3>1. \A i \in offset + 1 .. offset + n : msg[i] \in 0 .. StreamLength
      BY UnblockFacts DEF UnblockInv, UnblockTypes
    <3>2. \A i \in 1 .. (offset + n) - (offset + 1) + 1 : s[i] = msg[(offset + 1) + i - 1]
      <4> DEFINE a == offset + 1
                 b == offset + n
      <4>1. a \in Int /\ b \in Int /\ \A i \in a .. b : msg[i] \in 0 .. StreamLength
        BY <1>0, <3>1
      <4> HIDE DEF a, b
      <4>2. \A i \in 1 .. b - a + 1 : SubSeq(msg, a, b)[i] = msg[a + i - 1]
        BY <4>1, SubSeqProperties
      <4> QED BY <4>2 DEF a, b
    <3> HIDE DEF s
    <3>3. TAKE i \in 1 .. n
    <3>4. s[i] = msg[offset + i] /\ i \in 1 .. U!Left
      <4>1. i \in 1 .. (offset + n) - (offset + 1) + 1 /\ (offset + 1) + i - 1 = offset + i
        BY <1>0
      <4> QED BY <1>0, <3>2, <4>1
    <3> QED BY <1>4, <3>4
  <2> HIDE DEF s, k
  <2>2. \A i \in 2 .. n : s[i] = s[i - 1] + 1
    BY <1>3, <2>1
  <2>3. s[1] = End[k] /\ s[n] + 1 = End[k] + n
    BY <1>3, <2>1
  <2> QED BY <2>2, <2>3 DEF U!Piece, U!Slice, Slice, s
<1>7. U!IsHeader
  <2>1. U!Piece(6) = Slice(End[k], End[k] + 6)
    BY <1>6, UnblockFacts
  <2>2. k + 1 \in 1 .. MessageCount /\ (k + 1) - 1 = k
    BY <1>1, <1>3, StreamFacts DEF N
  <2> QED BY <2>1, <2>2, UnblockFacts DEF U!IsHeader, U!Slice, Slice
<1> QED BY <1>1, <1>2, <1>3, <1>5, <1>6, <1>7

LEMMA UnblockOpen ==
    ASSUME UnblockInv, NEW n \in 0 .. StreamLength, NEW c \in Counts, U!Open(n, c)
    PROVE  UnblockInv'
<1>1. /\ pushing = "closed" /\ pushing' = "read" /\ pushed = 0
      /\ fileLength' = n /\ count' = c
      /\ UNCHANGED <<pushed, msg_tail, msg, offset, unblocked, broken>>
  BY DEF UnblockInv, UnblockTypes, U!Open
<1>2. UnblockTypes'
  BY <1>1, UnblockFacts, ReplayAssumption DEF UnblockInv, UnblockTypes, U!Ended
<1>3. (~broken => UnblockInStep)'
  BY <1>1 DEF UnblockInv, UnblockInStep
<1> QED BY <1>2, <1>3 DEF UnblockInv

LEMMA UnblockPush ==
    ASSUME UnblockInv, U!Push
    PROVE  UnblockInv'
<1> DEFINE k == Len(unblocked)
<1>1. /\ pushing = "read" /\ pushing' = "push" /\ pushed < fileLength
      /\ msg' = msg_tail \o U!Block /\ offset' = 0
      /\ pushed' = pushed + Len(U!Block)
      /\ UNCHANGED <<fileLength, count, msg_tail, unblocked, broken>>
  BY DEF U!Push
<1>2. U!Block = Run(pushed, pushed') /\ pushed' \in pushed .. fileLength
  <2> DEFINE n == IF pushed + count <= fileLength THEN count ELSE fileLength - pushed
  <2>1. n \in Nat /\ pushed + n <= fileLength /\ (pushed + n) - pushed = n
    BY <1>1, UnblockFacts
  <2> HIDE DEF n
  <2>2. U!Block = [i \in 1 .. n |-> pushed + i - 1]
    BY DEF U!Block, n
  <2>3. Len(U!Block) = n
    BY <2>1, <2>2
  <2>4. pushed' = pushed + n
    BY <1>1, <2>3
  <2> QED BY <2>1, <2>2, <2>4, UnblockFacts DEF Run
<1>3. U!Block \in Seq(0 .. StreamLength) /\ msg_tail \in Seq(0 .. StreamLength)
  <2>1. pushed \in Nat /\ pushed' \in 0 .. StreamLength /\ pushed <= pushed'
    BY <1>2, UnblockFacts
  <2> QED BY <1>2, <2>1, RunInStream DEF UnblockInv, UnblockTypes
<1>4. msg' \in Seq(0 .. StreamLength) /\ Len(msg') \in Nat
  BY <1>1, <1>3
<1>5. UnblockTypes'
  <2>1. pushed' \in 0 .. fileLength'
    BY <1>1, <1>2, UnblockFacts
  <2> QED BY <1>1, <1>4, <2>1 DEF UnblockInv, UnblockTypes, U!Ended
<1>6. ASSUME ~broken'
      PROVE  UnblockInStep'
  <2>1. /\ k \in 0 .. N /\ unblocked = Messages(k)
        /\ End[k] <= pushed /\ msg_tail = Run(End[k], pushed) /\ End[k] \in Nat
    BY <1>1, <1>6, UnblockFacts DEF UnblockInv, UnblockInStep
  <2> HIDE DEF k
  <2>2. msg' = Run(End[k], pushed') /\ End[k] <= pushed' /\ pushed' \in Nat
    <3>1. pushed \in Nat /\ pushed' \in Nat /\ pushed <= pushed'
      BY <1>2, UnblockFacts
    <3> DEFINE e == End[k]
    <3>2. e \in Nat /\ e <= pushed /\ msg_tail = Run(e, pushed)
      BY <2>1
    <3> HIDE DEF e
    <3>3. Run(e, pushed) \o Run(pushed, pushed') = Run(e, pushed')
      BY <3>1, <3>2, RunAppend
    <3>4. e <= pushed'
      BY <3>1, <3>2
    <3> QED BY <1>1, <1>2, <3>1, <3>2, <3>3, <3>4 DEF e
  <2>3. Len(msg') = pushed' - End[k]
    BY <2>1, <2>2, RunIsSeq
  <2>4. pushed' - Len(msg') = End[k] /\ pushed' >= Len(msg')
    BY <2>1, <2>2, <2>3
  <2>5. k = Len(unblocked') /\ unblocked' = unblocked
    BY <1>1 DEF k
  <2> QED BY <1>1, <2>1, <2>2, <2>4, <2>5 DEF UnblockInStep
<1> QED BY <1>5, <1>6 DEF UnblockInv

LEMMA UnblockErrors ==
    ASSUME UnblockInv,
           U!EndOfFile \/ U!ReadPastEnd \/ U!NotAHeader \/ U!LoopForever
    PROVE  UnblockInv'
<1>1. UNCHANGED <<fileLength, count, pushed, msg_tail, msg, offset, unblocked>>
  BY DEF U!EndOfFile, U!ReadPastEnd, U!NotAHeader, U!LoopForever
<1>2. CASE U!EndOfFile
  <2>1. pushing = "read" /\ pushing' = "end" /\ UNCHANGED broken
    BY <1>2 DEF U!EndOfFile
  <2>2. UnblockTypes'
    BY <1>1, <2>1 DEF UnblockInv, UnblockTypes, U!Ended
  <2>3. (~broken => UnblockInStep)'
    BY <1>1, <2>1 DEF UnblockInv, UnblockInStep
  <2> QED BY <2>2, <2>3 DEF UnblockInv
<1>3. CASE U!ReadPastEnd
  <2>1. pushing' = "struct.error" /\ broken' = TRUE
    BY <1>3 DEF U!ReadPastEnd
  <2> QED BY <1>1, <2>1 DEF UnblockInv, UnblockTypes, U!Ended
<1>4. CASE U!NotAHeader
  <2>1. pushing' = "AssertionError" /\ UNCHANGED broken
    BY <1>4 DEF U!NotAHeader
  <2>2. broken
    BY <1>4, AtHeader, UnblockFacts DEF U!NotAHeader
  <2> QED BY <1>1, <2>1, <2>2 DEF UnblockInv, UnblockTypes, U!Ended
<1>5. CASE U!LoopForever
  <2>1. pushing' = "forever" /\ UNCHANGED broken /\ U!Length = 0
    BY <1>5 DEF U!LoopForever
  <2>2. ASSUME ~broken PROVE U!Length > 0
    BY <1>5, <2>2, AtHeader, UnblockFacts DEF U!LoopForever
  <2> QED BY <1>1, <2>1, <2>2 DEF UnblockInv, UnblockTypes, U!Ended
<1> QED BY <1>2, <1>3, <1>4, <1>5

LEMMA UnblockMessage ==
    ASSUME UnblockInv, U!Unblock
    PROVE  UnblockInv'
<1> DEFINE k == Len(unblocked)
<1>1. /\ U!InLoop /\ U!Left >= 6 /\ U!Left >= U!Length /\ pushing = "push"
      /\ unblocked' = Append(unblocked, U!Piece(U!Length))
      /\ offset' = offset + U!Length
      /\ UNCHANGED <<fileLength, count, pushed, msg_tail, msg, pushing, broken>>
  BY UnblockFacts DEF U!Unblock, U!InLoop, U!Whole
<1>2. U!Length \in Nat
  <2>1. msg[offset + 1] \in 0 .. StreamLength
    BY <1>1, UnblockFacts DEF UnblockInv, UnblockTypes
  <2> QED BY <2>1, StreamAssumption DEF U!Length
<1>3. offset' \in 0 .. Len(msg)
  BY <1>1, <1>2, UnblockFacts
<1>4. UnblockTypes'
  BY <1>1, <1>3 DEF UnblockInv, UnblockTypes, U!Ended
<1>5. ASSUME ~broken'
      PROVE  UnblockInStep'
  <2>1. /\ k \in 0 .. N /\ unblocked = Messages(k)
        /\ pushed >= Len(msg) /\ msg = Run(pushed - Len(msg), pushed)
    BY <1>1, <1>5 DEF UnblockInv, UnblockInStep
  <2>2. /\ k + 1 \in 1 .. N /\ End[k] \in Nat /\ End[k + 1] \in Nat
        /\ End[k + 1] >= End[k] + 6
        /\ End[k] = pushed - U!Left /\ U!Length = End[k + 1] - End[k]
        /\ \A n \in 1 .. U!Left : U!Piece(n) = Slice(End[k], End[k] + n)
    BY <1>1, <1>5, AtHeader
  <2> HIDE DEF k
  <2>3. U!Piece(U!Length) = Message(k + 1)
    <3>1. (k + 1) - 1 = k /\ U!Left \in Nat
      BY <2>1, StreamFacts, UnblockFacts
    <3>2. U!Length \in 1 .. U!Left /\ End[k] + U!Length = End[k + 1]
      BY <1>1, <2>2, <3>1
    <3> QED BY <2>2, <3>1, <3>2 DEF Message
  <2>4. unblocked' = Messages(k + 1) /\ Len(unblocked') = k + 1
    <3>1. k \in Nat /\ k + 1 \in Nat
      BY <2>1, StreamFacts
    <3> QED BY <1>1, <2>1, <2>3, <3>1, AppendNext, MessagesLength
  <2>5. k + 1 \in 0 .. N
    BY <2>2, StreamFacts
  <2>6. End[k + 1] = pushed - Len(msg) + offset'
    <3>1. U!Left = Len(msg) - offset /\ Len(msg) \in Nat /\ offset \in Nat /\ pushed \in Nat
      BY UnblockFacts
    <3>2. offset' = offset + (End[k + 1] - End[k])
      BY <1>1, <2>2
    <3>3. End[k] \in Nat /\ End[k + 1] \in Nat /\ End[k] = pushed - (Len(msg) - offset)
      BY <2>2, <3>1
    <3> QED BY <3>1, <3>2, <3>3
  <2> QED BY <1>1, <2>1, <2>4, <2>5, <2>6 DEF UnblockInStep
<1> QED BY <1>4, <1>5 DEF UnblockInv

LEMMA UnblockKeepTail ==
    ASSUME UnblockInv, U!KeepTail
    PROVE  UnblockInv'
<1> DEFINE k == Len(unblocked)
<1>1. /\ U!InLoop /\ U!Left >= 6 /\ ~(U!Left >= U!Length) /\ pushing = "push"
      /\ msg_tail' = SubSeq(msg, offset + 1, Len(msg)) /\ pushing' = "read"
      /\ UNCHANGED <<fileLength, count, pushed, msg, offset, unblocked, broken>>
  BY UnblockFacts DEF U!KeepTail, U!InLoop, U!Whole
<1>2. msg_tail' \in Seq(0 .. StreamLength)
  BY <1>1, UnblockFacts DEF UnblockInv, UnblockTypes
<1>3. UnblockTypes'
  BY <1>1, <1>2 DEF UnblockInv, UnblockTypes, U!Ended
<1>4. ASSUME ~broken'
      PROVE  UnblockInStep'
  <2>1. /\ k \in 0 .. N /\ unblocked = Messages(k)
        /\ pushed >= Len(msg) /\ msg = Run(pushed - Len(msg), pushed)
        /\ End[k] = pushed - Len(msg) + offset
    BY <1>1, <1>4 DEF UnblockInv, UnblockInStep
  <2>2. /\ k + 1 \in 1 .. N /\ End[k] \in Nat /\ End[k + 1] \in Nat
        /\ End[k] = pushed - U!Left /\ U!Length = End[k + 1] - End[k]
    BY <1>1, <1>4, AtHeader
  <2>3. k = Len(unblocked') /\ unblocked' = unblocked
    BY <1>1
  <2> HIDE DEF k
  <2>4. msg_tail' = Run(End[k], pushed)
    <3> DEFINE m == pushed - Len(msg)
    <3>1. /\ m \in Nat /\ pushed \in Nat /\ m <= pushed /\ offset \in 0 .. pushed - m
          /\ pushed - m \in offset .. pushed - m /\ Len(msg) = pushed - m
          /\ m + offset = End[k] /\ m + (pushed - m) = pushed
      BY <2>1, UnblockFacts
    <3>2. msg = Run(m, pushed)
      BY <2>1
    <3> HIDE DEF m
    <3>3. SubSeq(Run(m, pushed), offset + 1, pushed - m) = Run(m + offset, m + (pushed - m))
      BY <3>1, RunSub
    <3> QED BY <1>1, <3>1, <3>2, <3>3
  <2>5. End[k] <= pushed /\ End[k + 1] > pushed /\ pushed \in Nat
    BY <1>1, <2>2, UnblockFacts
  <2>6. \A i \in k + 1 .. N : End[i] > pushed
    BY <2>2, <2>5, LaterMessages
  <2> QED BY <1>1, <2>1, <2>3, <2>4, <2>5, <2>6 DEF UnblockInStep
<1> QED BY <1>3, <1>4 DEF UnblockInv

LEMMA UnblockLeaveLoop ==
    ASSUME UnblockInv, U!LeaveLoop
    PROVE  UnblockInv'
<1> DEFINE k == Len(unblocked)
           bad == broken \/ U!Left > 0 \/ msg_tail # << >>
<1>1. /\ pushing = "push" /\ pushing' = "read" /\ broken' = bad
      /\ UNCHANGED <<fileLength, count, pushed, msg_tail, msg, offset, unblocked>>
  BY DEF U!LeaveLoop
<1>2. broken' \in BOOLEAN /\ (~broken' => ~bad)
  <2>1. CASE bad
    <3>1. bad = TRUE
      BY <2>1
    <3> QED BY <1>1, <2>1, <3>1
  <2>2. CASE ~bad
    <3>1. bad = FALSE
      BY <2>2
    <3> QED BY <1>1, <2>2, <3>1
  <2> QED BY <2>1, <2>2
<1>3. UnblockTypes'
  BY <1>1, <1>2 DEF UnblockInv, UnblockTypes, U!Ended
<1>4. ASSUME ~broken'
      PROVE  UnblockInStep'
  <2>1. ~broken /\ ~(U!Left > 0) /\ msg_tail = << >>
    BY <1>2, <1>4
  <2>2. /\ k \in 0 .. N /\ unblocked = Messages(k)
        /\ End[k] = pushed - Len(msg) + offset
    BY <1>1, <2>1 DEF UnblockInv, UnblockInStep
  <2>3. k = Len(unblocked') /\ unblocked' = unblocked
    BY <1>1
  <2> HIDE DEF k
  <2>4. End[k] = pushed /\ pushed \in Nat
    BY <2>1, <2>2, UnblockFacts
  <2>5. Run(End[k], pushed) = << >>
    BY <2>4 DEF Run
  <2>6. \A i \in k + 1 .. N : End[i] > pushed
    <3>1. TAKE i \in k + 1 .. N
    <3>2. i \in 0 .. N /\ k < i
      BY <2>2, StreamFacts
    <3> QED BY <2>2, <2>4, <3>2, EndGrows, StreamFacts
  <2> QED BY <1>1, <2>1, <2>2, <2>3, <2>4, <2>5, <2>6 DEF UnblockInStep
<1> QED BY <1>3, <1>4 DEF UnblockInv

LEMMA UnblockStepInv ==
    ASSUME UnblockInv, U!Step
    PROVE  UnblockInv'
<1>1. CASE U!Push
  BY <1>1, UnblockPush
<1>2. CASE U!EndOfFile \/ U!ReadPastEnd \/ U!NotAHeader \/ U!LoopForever
  BY <1>2, UnblockErrors
<1>3. CASE U!Unblock
  BY <1>3, UnblockMessage
<1>4. CASE U!KeepTail
  BY <1>4, UnblockKeepTail
<1>5. CASE U!LeaveLoop
  BY <1>5, UnblockLeaveLoop
<1> QED BY <1>1, <1>2, <1>3, <1>4, <1>5 DEF U!Step

LEMMA UnblockedUntilSeam == UnblockInv => UnblocksUntilSeam
BY UnblockFacts DEF UnblockInv, UnblockInStep, UnblocksUntilSeam, U!UnblocksUntilSeam,
                    U!AllWholeMessages, U!Messages, Messages, U!Message, Message,
                    U!Slice, Slice, N
-----------------------------------------------------------------------------
(* filewalker.py *)

WalkClosed == /\ walking = "closed"
              /\ walked = 0 /\ filebuffer = 0 /\ parsed = << >>

WalkInv == (WalkClosed \/ WP!Inv) /\ walked <= fileLength

LEMMA WalkStreamFacts == WP!StreamLength = StreamLength /\ WP!N = N
BY DEF WP!StreamLength, StreamLength, WP!N, N

LEMMA WalkStart == (WP!Init => WP!Inv)'
<1>1. WP!Init => WP!Inv
  BY WP!InitInv, StreamAssumption, ReplayAssumption
     DEF WP!StreamLength, StreamLength, WP!HeaderLength, HeaderLength
<1> QED BY <1>1, PTL

LEMMA WalkOpen ==
    ASSUME WalkInv, WalkClosed, walking' = "recv", fileLength' \in Nat,
           UNCHANGED <<filebuffer, walked, parsed>>
    PROVE  WalkInv'
<1>1. WP!Init'
  BY DEF WalkClosed, WP!Init
<1> QED BY <1>1, WalkStart DEF WalkInv, WalkClosed

LEMMA WalkNext ==
    ASSUME WP!Inv, WP!Next
    PROVE  WP!Inv'
BY WP!NextInv, StreamAssumption, ReplayAssumption
   DEF WP!StreamLength, StreamLength, WP!HeaderLength, HeaderLength

LEMMA WalkStepInv ==
    ASSUME WalkInv, WalkStep, fileLength \in 0 .. StreamLength
    PROVE  WalkInv'
<1> DEFINE n == S!Smaller(bufsiz, fileLength - walked)
<1>1. walking # "closed" /\ fileLength' = fileLength
  BY DEF WalkStep, WalkRead, W!Recv, W!RecvNothing, W!GetMessage, W!GetBadMessage,
         W!TakeMessage, W!GetNothing
<1>2. WP!Inv /\ walked <= fileLength
  BY <1>1 DEF WalkInv, WalkClosed
<1>3. walked \in 0 .. fileLength
  BY <1>2, WalkStreamFacts, StreamFacts DEF WP!Inv, WP!TypeOK
<1>4. CASE WalkRead /\ n > 0
  <2>1. W!Recv(n)
    BY <1>4 DEF WalkRead
  <2>2. n \in 1 .. bufsiz /\ walked + n \in 0 .. fileLength
    BY <1>3, <1>4, ReplayAssumption, StreamFacts DEF S!Smaller
  <2> HIDE DEF n
  <2>3. WP!Recv(n) /\ walked' = walked + n
    BY <2>1 DEF W!Recv, WP!Recv, W!StreamLength, WP!StreamLength
  <2>4. WP!Next
    BY <2>2, <2>3 DEF WP!Next
  <2> QED BY <1>1, <1>2, <2>2, <2>3, <2>4, WalkNext DEF WalkInv
<1>5. CASE (WalkRead /\ ~(n > 0)) \/ W!GetMessage \/ W!GetBadMessage \/ W!GetNothing
  <2>1. W!RecvNothing \/ W!GetMessage \/ W!GetBadMessage \/ W!GetNothing
    BY <1>5 DEF WalkRead
  <2>2. walked' = walked
    BY <2>1 DEF W!RecvNothing, W!GetMessage, W!GetBadMessage, W!TakeMessage, W!GetNothing
  <2>3. WP!RecvNothing \/ WP!GetMessage \/ WP!GetBadMessage \/ WP!GetNothing
    BY <2>1 DEF W!RecvNothing, WP!RecvNothing, W!GetMessage, WP!GetMessage,
                W!GetBadMessage, WP!GetBadMessage, W!GetNothing, WP!GetNothing,
                W!TakeMessage, WP!TakeMessage, W!HandOn, WP!HandOn,
                W!Slice, WP!Slice, W!Found, WP!Found, W!BufLen, WP!BufLen,
                W!HeaderLength, WP!HeaderLength
  <2>4. WP!Next
    BY <2>3 DEF WP!Next
  <2> QED BY <1>1, <1>2, <2>2, <2>4, WalkNext DEF WalkInv
<1> QED BY <1>4, <1>5 DEF WalkStep
-----------------------------------------------------------------------------
(* The session and its readers *)

\* A file is read when the session is over, and a dump is as long as the
\* messages that the session was handed.
FileInv ==
    /\ file \in {"none", "dump", "sink"}
    /\ file = "none" => phase = "closed" /\ walking = "closed" /\ pushing = "closed"
    /\ file # "none" => at = "exited"
    /\ file = "dump" => fileLength = End[Len(handed)]

ReplayInv == Inv /\ SpiderInv /\ WalkInv /\ UnblockInv /\ FileInv

LEMMA DumpEndsWithMessage ==
    ASSUME Inv
    PROVE  DumpLength = End[Len(handed)] /\ DumpLength \in 0 .. StreamLength
<1> DEFINE k == Len(handed)
<1>1. k \in 0 .. N /\ handed = Messages(k)
  BY DEF Inv, InStep
<1>2. CASE k = 0
  <2>1. handed = << >>
    BY <1>1, <1>2 DEF Messages
  <2> QED BY <1>2, <2>1, StreamAssumption, StreamFacts DEF DumpLength
<1>3. CASE k # 0
  <2>1. k \in 1 .. N
    BY <1>1, <1>3, StreamFacts
  <2>2. handed # << >>
    BY <1>3
  <2> HIDE DEF k
  <2>3. Messages(k)[k].to = End[k]
    BY <2>1 DEF Messages, Message, Slice
  <2>4. DumpLength = End[k]
    BY <1>1, <2>2, <2>3 DEF DumpLength, k
  <2>5. End[k] \in Nat /\ End[k] <= StreamLength
    BY <1>1, <2>1, StreamFacts
  <2> QED BY <2>4, <2>5, StreamFacts DEF k
<1> QED BY <1>2, <1>3

LEMMA ReplayInitInv == ReplayInit => ReplayInv
<1> SUFFICES ASSUME ReplayInit PROVE ReplayInv
  OBVIOUS
<1>1. Inv
  BY InitInv DEF ReplayInit
<1>2. SpiderInv
  <2>1. S!TypeOK
    <3>1. bmp_msgs \in Seq([from : Nat, to : Nat])
      BY DEF ReplayInit, S!Init
    <3>2. fileLength = 0 /\ read = 0 /\ taken = 0 /\ short = FALSE /\ phase = "closed"
      BY DEF ReplayInit, S!Init
    <3>3. End[MessageCount] \in Nat
      BY StreamFacts DEF StreamLength
    <3>4. fileLength \in 0 .. End[MessageCount] /\ read \in 0 .. fileLength /\ taken \in 0 .. read
      BY <3>2, <3>3
    <3>5. short \in BOOLEAN
      BY <3>2
    <3> QED BY <3>1, <3>2, <3>4, <3>5 DEF S!TypeOK, S!StreamLength
  <2>2. SpiderInStep /\ S!FindsEveryMessage
    BY StreamFacts, StreamAssumption
       DEF ReplayInit, S!Init, SpiderInStep, S!FindsEveryMessage, S!FoundAll, S!HoldsRefused, S!Ended, Messages
  <2> QED BY <2>1, <2>2 DEF SpiderInv
<1>3. WalkInv
  BY DEF ReplayInit, S!Init, WalkInv, WalkClosed
<1>4. UnblockInv
  <2>1. UnblockTypes
    <3>1. msg = << >> /\ msg_tail = << >> /\ << >> \in Seq(0 .. StreamLength)
      BY DEF ReplayInit, U!Init
    <3>2. /\ fileLength = 0 /\ count = 0 /\ pushed = 0 /\ offset = 0
          /\ pushing = "closed" /\ broken = FALSE
      BY DEF ReplayInit, U!Init
    <3>3. /\ fileLength \in 0 .. StreamLength /\ pushed \in 0 .. fileLength
          /\ count \in Nat /\ offset \in 0 .. Len(msg)
      BY <3>1, <3>2, StreamFacts
    <3>4. broken \in BOOLEAN
      BY <3>2
    <3> QED BY <3>1, <3>2, <3>3, <3>4 DEF UnblockTypes
  <2>2. UnblockInStep
    <3>1. Run(0, 0) = << >> /\ Messages(0) = << >>
      BY DEF Run, Messages
    <3>2. \A i \in 1 .. N : End[i] > 0
      <4>1. TAKE i \in 1 .. N
      <4>2. i \in 0 .. N /\ 0 \in 0 .. N /\ 0 < i
        BY StreamFacts
      <4> QED BY <4>2, EndGrows, StreamFacts, StreamAssumption
    <3> QED BY <3>1, <3>2, StreamFacts, StreamAssumption
            DEF ReplayInit, U!Init, UnblockInStep
  <2> QED BY <2>1, <2>2 DEF UnblockInv
<1>5. FileInv
  BY DEF ReplayInit, S!Init, U!Init, FileInv
<1> QED BY <1>1, <1>2, <1>3, <1>4, <1>5 DEF ReplayInv

LEMMA OpenInv ==
    ASSUME ReplayInv, Open, UNCHANGED vars
    PROVE  ReplayInv'
<1>1. /\ file = "none" /\ file' \in {"dump", "sink"} /\ at = "exited"
      /\ phase = "closed" /\ walking = "closed" /\ pushing = "closed"
  BY DEF Open, ReplayInv, FileInv
<1>2. UNCHANGED <<received, start, handed, at>>
  BY DEF vars
<1>3. Length \in 0 .. StreamLength /\ (file' = "dump" => Length = End[Len(handed)])
  <2>1. CASE file' = "dump"
    BY <2>1, DumpEndsWithMessage DEF Length, ReplayInv
  <2>2. CASE file' # "dump"
    BY <2>2 DEF Length, ReplayInv, Inv, TypeOK
  <2> QED BY <2>1, <2>2
<1>4. fileLength' = Length
  BY DEF Open, S!Open, U!Open
<1> HIDE DEF Length
<1>5. Inv'
  BY <1>2 DEF ReplayInv, Inv, TypeOK, InStep, NothingHeldBack, BufferIsBounded, BufLen
<1>6. FileInv'
  BY <1>1, <1>2, <1>3, <1>4 DEF FileInv
<1>7. ASSUME UNCHANGED spiderVars
      PROVE  SpiderInv'
  <2>1. /\ read = 0 /\ taken = 0 /\ bmp_msgs = << >> /\ short = FALSE
        /\ UNCHANGED <<read, taken, short, phase, bmp_msgs>>
    BY <1>1, <1>7 DEF ReplayInv, SpiderInv, SpiderInStep, spiderVars
  <2>2. S!TypeOK'
    <3>1. /\ fileLength' \in 0 .. End[MessageCount]
          /\ read' \in 0 .. fileLength' /\ taken' \in 0 .. read'
      BY <1>3, <1>4, <2>1, StreamFacts DEF StreamLength
    <3> QED BY <2>1, <3>1 DEF ReplayInv, SpiderInv, S!TypeOK, S!StreamLength
  <2>3. SpiderInStep' /\ S!FindsEveryMessage'
    BY <1>1, <1>3, <1>4, <2>1, StreamAssumption, StreamFacts
       DEF ReplayInv, SpiderInv, SpiderInStep, S!FindsEveryMessage, S!FoundAll, S!HoldsRefused, S!Ended
  <2> QED BY <2>2, <2>3 DEF SpiderInv
<1>8. WalkClosed /\ fileLength' \in Nat
  <2>1. ~WP!Inv
    BY <1>1 DEF WP!Inv, WP!TypeOK
  <2> QED BY <1>3, <1>4, <2>1, StreamFacts DEF ReplayInv, WalkInv
<1>9. ASSUME UNCHANGED walkVars
      PROVE  WalkInv'
  BY <1>8, <1>9 DEF WalkInv, WalkClosed, walkVars
<1>10. ASSUME UNCHANGED <<count, pushed, msg_tail, msg, offset, unblocked, pushing, broken>>
       PROVE  UnblockInv'
  <2>1. UnblockTypes'
    BY <1>1, <1>3, <1>4, <1>10, StreamFacts DEF ReplayInv, UnblockInv, UnblockTypes, U!Ended
  <2>2. (~broken => UnblockInStep)'
    BY <1>10 DEF ReplayInv, UnblockInv, UnblockInStep
  <2> QED BY <2>1, <2>2 DEF UnblockInv
<1>11. CASE S!Open(Length) /\ UNCHANGED <<walkVars, unblockVars>>
  <2>1. SpiderInv'
    BY <1>3, <1>11, SpiderOpen DEF ReplayInv
  <2> QED BY <1>5, <1>6, <1>9, <1>10, <1>11, <2>1 DEF ReplayInv, unblockVars
<1>12. CASE /\ walking' = "recv" /\ fileLength' = Length
            /\ UNCHANGED <<filebuffer, walked, parsed, spiderVars, unblockVars>>
  <2>1. WalkInv'
    BY <1>8, <1>12, WalkOpen DEF ReplayInv
  <2> QED BY <1>5, <1>6, <1>7, <1>10, <1>12, <2>1 DEF ReplayInv, unblockVars
<1>13. CASE /\ \E c \in Counts : U!Open(Length, c)
            /\ UNCHANGED <<spiderVars, walkVars>>
  <2>1. UnblockInv'
    BY <1>3, <1>13, UnblockOpen DEF ReplayInv
  <2> QED BY <1>5, <1>6, <1>7, <1>9, <1>13, <2>1 DEF ReplayInv
<1> QED BY <1>11, <1>12, <1>13 DEF Open

LEMMA ReadStepInv ==
    ASSUME ReplayInv, ReadStep, UNCHANGED vars
    PROVE  ReplayInv'
<1>1. UNCHANGED <<received, start, handed, at, file>>
  BY DEF vars, ReadStep
<1>2. Inv'
  BY <1>1 DEF ReplayInv, Inv, TypeOK, InStep, NothingHeldBack, BufferIsBounded, BufLen
<1>3. fileLength' = fileLength
  BY DEF ReadStep, SpiderStep, WalkStep, UnblockStep, S!Step, S!ReadBlock, S!GetHeader,
         S!GetPayload, S!GetBadPayload, S!GetReturns, U!Step, U!Push, U!EndOfFile,
         U!ReadPastEnd, U!NotAHeader, U!Unblock, U!LoopForever, U!KeepTail, U!LeaveLoop
<1>4. fileLength \in 0 .. StreamLength
  BY DEF ReplayInv, UnblockInv, UnblockTypes
<1>5. ASSUME UNCHANGED spiderVars
      PROVE  SpiderInv' /\ phase' = phase
  BY <1>3, <1>5 DEF ReplayInv, spiderVars, SpiderInv, S!TypeOK, SpiderInStep,
                    S!FindsEveryMessage, S!FoundAll, S!HoldsRefused, S!Ended, S!StreamLength
<1>6. ASSUME UNCHANGED walkVars
      PROVE  WalkInv' /\ walking' = walking
  BY <1>3, <1>6 DEF ReplayInv, walkVars, WalkInv, WalkClosed, WP!Inv, WP!TypeOK,
                    WP!InStep, WP!NothingHeldBack, WP!BufferIsBounded, WP!BufLen
<1>7. ASSUME UNCHANGED unblockVars
      PROVE  UnblockInv' /\ pushing' = pushing
  BY <1>3, <1>7 DEF ReplayInv, unblockVars, UnblockInv, UnblockTypes, UnblockInStep,
                    U!Ended
<1>8. CASE SpiderStep
  <2>1. SpiderInv' /\ phase # "closed"
    BY <1>8, SpiderStepInv
       DEF ReplayInv, SpiderStep, S!Step, S!ReadBlock, S!InGet, S!GetHeader, S!GetPayload,
           S!GetBadPayload
  <2>2. FileInv'
    BY <1>1, <1>3, <2>1 DEF ReplayInv, FileInv
  <2> QED BY <1>2, <1>6, <1>7, <1>8, <2>1, <2>2 DEF ReplayInv, SpiderStep
<1>9. CASE WalkStep
  <2>1. WalkInv' /\ walking # "closed"
    BY <1>4, <1>9, WalkStepInv
       DEF ReplayInv, WalkStep, WalkRead, W!Recv, W!RecvNothing, W!GetMessage,
           W!GetBadMessage, W!TakeMessage, W!GetNothing
  <2>2. FileInv'
    BY <1>1, <1>3, <2>1 DEF ReplayInv, FileInv
  <2> QED BY <1>2, <1>5, <1>7, <1>9, <2>1, <2>2 DEF ReplayInv, WalkStep
<1>10. CASE UnblockStep
  <2>1. UnblockInv' /\ pushing # "closed"
    BY <1>10, UnblockStepInv
       DEF ReplayInv, UnblockStep, U!Step, U!Push, U!EndOfFile, U!ReadPastEnd,
           U!NotAHeader, U!Unblock, U!LoopForever, U!KeepTail, U!LeaveLoop, U!InLoop
  <2>2. FileInv'
    BY <1>1, <1>3, <2>1 DEF ReplayInv, FileInv
  <2> QED BY <1>2, <1>5, <1>6, <1>10, <2>1, <2>2 DEF ReplayInv, UnblockStep
<1> QED BY <1>8, <1>9, <1>10 DEF ReadStep

LEMMA SessionStepInv ==
    ASSUME ReplayInv, Next,
           UNCHANGED <<fileLength, spiderVars, walkVars, unblockVars, file>>
    PROVE  ReplayInv'
<1>1. Inv'
  BY NextInv DEF ReplayInv
<1>2. at # "exited"
  BY DEF Next, Recv, RecvNothing, GetMessage, GetBadMessage, TakeMessage, GetNothing
<1>3. FileInv'
  BY <1>2 DEF ReplayInv, FileInv, spiderVars, walkVars, unblockVars
<1>4. SpiderInv'
  BY DEF ReplayInv, spiderVars, SpiderInv, S!TypeOK, SpiderInStep,
         S!FindsEveryMessage, S!FoundAll, S!HoldsRefused, S!Ended, S!StreamLength
<1>5. WalkInv'
  BY DEF ReplayInv, walkVars, WalkInv, WalkClosed, WP!Inv, WP!TypeOK,
         WP!InStep, WP!NothingHeldBack, WP!BufferIsBounded, WP!BufLen
<1>6. UnblockInv'
  BY DEF ReplayInv, unblockVars, UnblockInv, UnblockTypes, UnblockInStep, U!Ended
<1> QED BY <1>1, <1>3, <1>4, <1>5, <1>6 DEF ReplayInv

LEMMA ReplayNextInv == ReplayInv /\ [ReplayNext]_allVars => ReplayInv'
<1> SUFFICES ASSUME ReplayInv, [ReplayNext]_allVars PROVE ReplayInv'
  OBVIOUS
<1>1. CASE Next /\ UNCHANGED <<fileLength, spiderVars, walkVars, unblockVars, file>>
  BY <1>1, SessionStepInv
<1>2. CASE Open /\ UNCHANGED vars
  BY <1>2, OpenInv
<1>3. CASE ReadStep /\ UNCHANGED vars
  BY <1>3, ReadStepInv
<1>4. CASE UNCHANGED allVars
  <2>1. /\ UNCHANGED <<received, start, handed, at, fileLength, file>>
        /\ UNCHANGED spiderVars /\ UNCHANGED walkVars /\ UNCHANGED unblockVars
    BY <1>4 DEF allVars, vars
  <2>2. Inv' /\ FileInv'
    BY <2>1 DEF ReplayInv, Inv, TypeOK, InStep, NothingHeldBack, BufferIsBounded, BufLen,
                FileInv, spiderVars, walkVars, unblockVars
  <2>3. SpiderInv'
    BY <2>1 DEF ReplayInv, spiderVars, SpiderInv, S!TypeOK, SpiderInStep,
                S!FindsEveryMessage, S!FoundAll, S!HoldsRefused, S!Ended, S!StreamLength
  <2>4. WalkInv'
    BY <2>1 DEF ReplayInv, walkVars, WalkInv, WalkClosed, WP!Inv, WP!TypeOK,
                WP!InStep, WP!NothingHeldBack, WP!BufferIsBounded, WP!BufLen
  <2>5. UnblockInv'
    BY <2>1 DEF ReplayInv, unblockVars, UnblockInv, UnblockTypes, UnblockInStep, U!Ended
  <2> QED BY <2>2, <2>3, <2>4, <2>5 DEF ReplayInv
<1> QED BY <1>1, <1>2, <1>3, <1>4 DEF ReplayNext
-----------------------------------------------------------------------------
LEMMA ReplayInvTypes == ReplayInv => ReplayTypeOK
<1> SUFFICES ASSUME ReplayInv PROVE ReplayTypeOK
  OBVIOUS
<1>1. filebuffer \in 0 .. walked /\ walking \in {"closed", "recv", "get_next", "exited"}
  BY DEF ReplayInv, WalkInv, WalkClosed, WP!Inv, WP!TypeOK
<1>2. walked \in 0 .. fileLength
  <2>1. walked \in Nat
    BY StreamFacts, WalkStreamFacts
       DEF ReplayInv, WalkInv, WalkClosed, WP!Inv, WP!TypeOK
  <2> QED BY <2>1, UnblockFacts DEF ReplayInv, WalkInv
<1> QED BY <1>1, <1>2 DEF ReplayInv, ReplayTypeOK, Inv, SpiderInv, UnblockInv,
                          UnblockTypes, FileInv

LEMMA ReplayFindsEvery == ReplayInv => FindsEveryMessage
<1> SUFFICES ASSUME ReplayInv PROVE FindsEveryMessage
  OBVIOUS
<1>1. S!FindsEveryMessage
  BY DEF ReplayInv, SpiderInv
<1>2. CASE WalkClosed
  BY <1>1, <1>2 DEF FindsEveryMessage, WalkClosed, Messages
<1>3. CASE WP!Inv
  BY <1>1, <1>3 DEF FindsEveryMessage, WP!Inv, WP!InStep, WP!NothingHeldBack,
                    WP!Messages, Messages, WP!Message, Message, WP!Slice, Slice
<1> QED BY <1>2, <1>3 DEF ReplayInv, WalkInv

\* Two counts of messages are equal when neither leaves a message out that
\* ends in the bytes of the other.
LEMMA SameEnd ==
    ASSUME NEW d \in 0 .. N, NEW n \in 0 .. N, End[n] <= End[d],
           \A i \in n + 1 .. N : End[i] > End[d]
    PROVE  n = d
<1>1. n <= d
  BY EndInjective
<1>2. ~(d \in n + 1 .. N)
  BY StreamFacts
<1> QED BY <1>1, <1>2, StreamFacts

LEMMA ReplayDumpReplays == ReplayInv => DumpReplays
<1> SUFFICES ASSUME ReplayInv, file = "dump" PROVE DumpReplays
  BY DEF DumpReplays
<1> DEFINE d == Len(handed)
<1>1. /\ d \in 0 .. N /\ handed = Messages(d) /\ fileLength = End[d]
      /\ \A i \in 1 .. d : End[i - 1] \notin Refused
  BY DEF ReplayInv, Inv, InStep, FileInv
<1>2. ASSUME S!Ended
      PROVE  phase = "normal end" /\ bmp_msgs = handed
  <2> DEFINE n == Len(bmp_msgs)
  <2>1. n \in 0 .. N /\ bmp_msgs = Messages(n) /\ End[n] <= fileLength
    BY DEF ReplayInv, SpiderInv, SpiderInStep
  <2>2. ~S!HoldsRefused
    <3>1. \A i \in d + 1 .. N : i \in 0 .. N /\ d < i
      BY <1>1, StreamFacts
    <3> HIDE DEF d
    <3>2. End[d] \in Nat /\ \A i \in d + 1 .. N : End[i] > End[d]
      BY <1>1, <3>1, EndGrows, StreamFacts
    <3> QED BY <1>1, <3>2, NoneRefused DEF S!HoldsRefused
  <2>3. /\ \A i \in n + 1 .. N : End[i] > fileLength
        /\ phase = IF End[n] = fileLength THEN "normal end" ELSE "unexpected end"
    BY <1>2, <2>2 DEF ReplayInv, SpiderInv, S!FindsEveryMessage, S!FoundAll, N
  <2> HIDE DEF d, n
  <2>4. n = d
    BY <1>1, <2>1, <2>3, SameEnd
  <2> QED BY <1>1, <2>1, <2>3, <2>4
<1>3. ASSUME walking = "recv", walked = fileLength
      PROVE  filebuffer = walked /\ parsed = handed
  <2> DEFINE n == Len(parsed)
  <2>1. WP!Inv
    BY <1>3 DEF ReplayInv, WalkInv, WalkClosed
  <2>2. n \in 0 .. N /\ filebuffer = End[n] /\ filebuffer <= walked
    <3>1. filebuffer \in 0 .. walked /\ walked \in Int
      BY <2>1, <1>3, UnblockFacts DEF WP!Inv, WP!TypeOK, ReplayInv
    <3> QED BY <1>3, <2>1, <3>1, WalkStreamFacts DEF WP!Inv, WP!InStep
  <2>3. parsed = Messages(n)
    BY <2>1 DEF WP!Inv, WP!InStep, WP!Messages, Messages, WP!Message, Message, WP!Slice, Slice
  <2>4. \A i \in n + 1 .. N : End[i] > walked
    BY <1>3, <2>1 DEF WP!Inv, WP!NothingHeldBack, N
  <2> HIDE DEF d, n
  <2>5. n = d
    BY <1>1, <1>3, <2>2, <2>4, SameEnd
  <2> QED BY <1>1, <1>3, <2>2, <2>3, <2>5
<1> QED BY <1>2, <1>3 DEF DumpReplays

LEMMA AlwaysReplayInv == ReplaySpec => []ReplayInv
BY ReplayInitInv, ReplayNextInv, PTL DEF ReplaySpec

\* Positions stay within the file, buffers within what was read of it, and
\* the file within the stream, whatever the blocks (spider.py:23-38,
\* filewalker.py:39-55, bmpblkparse.py:28-58).
THEOREM ReplayTypesAreRight == ReplaySpec => []ReplayTypeOK
BY AlwaysReplayInv, ReplayInvTypes, PTL

\* Whatever the stream, the file and the block size, Spider finds every whole
\* message of the file and tells an end inside a message from one between
\* two, unless one of them makes BMP_message() raise: then it finds none
\* (spider.py:40-67).  filewalker.py holds back none that it has read
\* (filewalker.py:39-55).
THEOREM EveryMessageIsFound == ReplaySpec => []FindsEveryMessage
BY AlwaysReplayInv, ReplayFindsEvery, PTL

\* BMP_unblocker returns every message whole and in order for as long as no
\* block ends in a place it mishandles (bmpblkparse.py:34-58).
THEOREM UnblocksWholeMessages == ReplaySpec => []UnblocksUntilSeam
<1>1. ReplayInv => UnblocksUntilSeam
  BY UnblockedUntilSeam DEF ReplayInv
<1> QED BY <1>1, AlwaysReplayInv, PTL

\* Spider and filewalker.py find in a dump exactly what the session was
\* handed, however it ended (bmpapp.py:79-80, spider.py:40-67).
THEOREM DumpsReplay == ReplaySpec => []DumpReplays
BY AlwaysReplayInv, ReplayDumpReplays, PTL
=============================================================================

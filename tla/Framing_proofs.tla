--------------------------- MODULE Framing_proofs ---------------------------
(***************************************************************************)
(* Proofs about Framing, for every stream of whole messages and every      *)
(* BUFSIZ.                                                                 *)
(***************************************************************************)
EXTENDS Framing, TLAPS

N == MessageCount

\* What the session has handed on are the first messages of the stream, none
\* of them refused, and while it runs the buffer begins where they end.
InStep ==
    /\ Len(handed) \in 0 .. N
    /\ handed = Messages(Len(handed))
    /\ \A i \in 1 .. Len(handed) : End[i - 1] \notin Refused
    /\ at # "exited" => start = End[Len(handed)]

Inv == TypeOK /\ InStep /\ NothingHeldBack /\ BufferIsBounded

LEMMA StreamFacts ==
    /\ N \in Nat /\ StreamLength \in Nat
    /\ \A i \in 0 .. N : End[i] \in Nat
    /\ \A i \in 1 .. N : End[i] <= StreamLength
<1>1. N \in Nat /\ \A i \in 0 .. N : End[i] \in Nat
  BY StreamAssumption DEF N
<1>2. \A i \in 1 .. N : i = N \/ End[N] >= End[i] + 6
  BY StreamAssumption DEF N, HeaderLength
<1> QED BY <1>1, <1>2 DEF N, StreamLength

\* At a message boundary, a message is found exactly when all of the next one
\* has arrived, and it is that one.
LEMMA FoundNext ==
    ASSUME TypeOK, InStep, at # "exited"
    PROVE  LET next == Len(handed) + 1
           IN /\ Found <=> next <= N /\ End[next] <= received
              /\ next <= N => LengthAt[start] = End[next] - start
<1> DEFINE next == Len(handed) + 1
<1>1. start = End[Len(handed)] /\ Len(handed) \in 0 .. N
  BY DEF InStep
<1>2. received \in Nat /\ start \in Nat /\ received <= StreamLength
  BY StreamFacts DEF TypeOK
<1>3. CASE next <= N
  <2>1. next \in 1 .. N /\ Len(handed) \in 0 .. next - 1 /\ next - 1 = Len(handed)
    BY <1>1, <1>3, StreamFacts
  <2>2. End[next] \in Nat /\ End[next] >= start + 6
    BY <2>1, <1>1, StreamAssumption DEF N, HeaderLength
  <2>3. LengthAt[start] = End[next] - start
    BY <2>1, <1>1, StreamAssumption DEF N
  <2> QED BY <1>2, <1>3, <2>2, <2>3 DEF Found, BufLen, HeaderLength
<1>4. CASE next > N
  <2>1. start = StreamLength
    BY <1>1, <1>4, StreamFacts DEF N, StreamLength
  <2> QED BY <1>1, <1>2, <1>4, <2>1, StreamFacts DEF Found, BufLen, HeaderLength
<1> QED BY <1>1, <1>3, <1>4, StreamFacts

LEMMA LaterMessages ==
    ASSUME NEW k \in 1 .. N, NEW r \in Nat, End[k] > r
    PROVE  \A i \in k .. N : End[i] > r
<1>1. \A i \in k + 1 .. N : i \in 1 .. N /\ k \in 0 .. i - 1
  BY StreamFacts
<1>2. \A i \in k + 1 .. N : End[i] >= End[k] + 6 /\ End[i] \in Nat /\ End[k] \in Nat
  BY <1>1, StreamAssumption DEF N, HeaderLength
<1> QED BY <1>2, StreamFacts
-----------------------------------------------------------------------------
LEMMA InitInv == Init => Inv
<1> SUFFICES ASSUME Init PROVE Inv
  OBVIOUS
<1>1. TypeOK
  BY StreamFacts DEF Init, TypeOK
<1>2. InStep
  BY StreamFacts, StreamAssumption DEF Init, InStep, Messages
<1>3. NothingHeldBack
  <2>1. ASSUME NEW i \in 1 .. N
        PROVE  End[i] > 0
    <3>1. i \in 1 .. MessageCount /\ 0 \in 0 .. i - 1 /\ End[0] = 0
      BY StreamFacts, StreamAssumption DEF N
    <3>2. End[i] >= End[0] + HeaderLength
      BY <3>1, StreamAssumption
    <3> QED BY <3>1, <3>2, StreamFacts DEF HeaderLength
  <2> QED BY <2>1, StreamFacts DEF Init, NothingHeldBack, N
<1>4. BufferIsBounded
  BY FramingAssumption DEF Init, BufferIsBounded, BufLen
<1> QED BY <1>1, <1>2, <1>3, <1>4 DEF Inv

LEMMA RecvInv == ASSUME Inv, NEW n \in 1 .. BUFSIZ, Recv(n)
                 PROVE  Inv'
<1>1. TypeOK'
  BY StreamFacts, FramingAssumption DEF Inv, TypeOK, Recv
<1>2. InStep'
  BY DEF Inv, InStep, Recv, TypeOK
<1>3. NothingHeldBack'
  BY DEF Recv, NothingHeldBack
<1>4. BufferIsBounded'
  <2>1. received' = received + n /\ start' = start /\ n <= BUFSIZ /\ n \in Nat
    BY FramingAssumption DEF Recv
  <2>2. received \in Nat /\ start \in Nat /\ start = End[Len(handed)]
    BY StreamFacts DEF Inv, TypeOK, InStep, Recv
  <2>3. Len(handed) \in 0 .. N
    BY DEF Inv, InStep
  <2>4. CASE Len(handed) = N
    <3>1. start = StreamLength /\ received <= StreamLength
      BY <2>2, <2>4 DEF StreamLength, N, Inv, TypeOK
    <3> QED BY <2>1, <2>2, <3>1, StreamFacts, FramingAssumption
            DEF BufferIsBounded, BufLen
  <2>5. CASE Len(handed) < N
    <3> DEFINE next == Len(handed) + 1
    <3>1. next \in 1 .. MessageCount /\ next - 1 = Len(handed)
      BY <2>3, <2>5, StreamFacts DEF N
    <3>2. End[next] > received /\ End[next] \in Nat
      BY <3>1, StreamFacts DEF Inv, NothingHeldBack, Recv, N
    <3>3. BufLen' < End[next] - End[next - 1] + BUFSIZ
      BY <2>1, <2>2, <3>1, <3>2, FramingAssumption DEF BufLen
    <3> QED BY <3>1, <3>3 DEF BufferIsBounded
  <2> QED BY <2>3, <2>4, <2>5, StreamFacts
<1> QED BY <1>1, <1>2, <1>3, <1>4 DEF Inv

\* Taking a message shrinks the buffer and stays within what has arrived.
LEMMA TakeFacts == ASSUME Inv, TakeMessage
                   PROVE  LET next == Len(handed) + 1
                          IN /\ next \in 1 .. N
                             /\ start = End[next - 1] /\ start' = End[next]
                             /\ start' \in start .. received
                             /\ received' = received
                             /\ BufferIsBounded'
<1> DEFINE next == Len(handed) + 1
<1>1. TypeOK /\ InStep /\ at # "exited" /\ Found
  BY DEF Inv, TakeMessage
<1>2. next <= N /\ End[next] <= received /\ LengthAt[start] = End[next] - start
  BY <1>1, FoundNext
<1>3. next \in 1 .. N /\ next - 1 = Len(handed)
  BY <1>1, <1>2, StreamFacts DEF InStep
<1>4. start \in Nat /\ received \in Nat /\ End[next] \in Nat
  BY <1>1, <1>3, StreamFacts DEF TypeOK
<1>5. start = End[next - 1] /\ start' = End[next] /\ received' = received
  BY <1>1, <1>2, <1>3, <1>4 DEF InStep, TakeMessage
<1>6. start' \in start .. received /\ BufLen' <= BufLen
  BY <1>1, <1>2, <1>4, <1>5 DEF Found, BufLen
<1>7. BufferIsBounded'
  <2>1. BufferIsBounded /\ BufLen \in Int /\ BufLen' \in Int
    BY <1>4, <1>5 DEF Inv, BufLen
  <2>2. CASE BufLen <= BUFSIZ
    BY <2>1, <2>2, <1>6, FramingAssumption DEF BufferIsBounded
  <2>3. CASE \E i \in 1 .. MessageCount : BufLen < End[i] - End[i - 1] + BUFSIZ
    <3>1. PICK i \in 1 .. MessageCount : BufLen < End[i] - End[i - 1] + BUFSIZ
      BY <2>3
    <3>2. End[i] \in Nat /\ End[i - 1] \in Nat
      BY <3>1, StreamFacts DEF N
    <3>3. BufLen' < End[i] - End[i - 1] + BUFSIZ
      BY <2>1, <3>1, <3>2, <1>6, FramingAssumption
    <3> QED BY <3>3 DEF BufferIsBounded
  <2> QED BY <2>1, <2>2, <2>3 DEF BufferIsBounded
<1> QED BY <1>3, <1>5, <1>6, <1>7

LEMMA MessagesLength == ASSUME NEW k \in Nat
                        PROVE  Len(Messages(k)) = k
BY DEF Messages

LEMMA AppendNext == ASSUME NEW k \in Nat
                    PROVE  Append(Messages(k), Message(k + 1)) = Messages(k + 1)
<1>1. Messages(k) \in Seq({Message(i) : i \in 1 .. k + 1})
  BY DEF Messages
<1> QED BY <1>1, MessagesLength DEF Messages

LEMMA GetMessageInv == ASSUME Inv, GetMessage
                       PROVE  /\ Inv'
                              /\ handed' = Append(handed, Message(Len(handed) + 1))
<1> DEFINE next == Len(handed) + 1
<1>1. /\ next \in 1 .. N
      /\ start = End[next - 1] /\ start' = End[next]
      /\ start' \in start .. received
      /\ received' = received
      /\ BufferIsBounded'
  BY TakeFacts DEF GetMessage
<1>2. handed' = Append(handed, Message(next))
  BY <1>1 DEF GetMessage, HandOn, Message, Slice
<1>3. handed = Messages(next - 1) /\ next - 1 \in Nat
  BY <1>1, StreamFacts DEF Inv, InStep
<1>4. handed' = Messages(next) /\ Len(handed') = next
  <2>1. /\ Append(Messages(next - 1), Message(next - 1 + 1)) = Messages(next - 1 + 1)
        /\ Len(Messages(next - 1 + 1)) = next - 1 + 1
    <3>1. next - 1 + 1 \in Nat
      BY <1>3
    <3> HIDE DEF next
    <3> QED BY <1>3, <3>1, AppendNext, MessagesLength
  <2>2. next - 1 + 1 = next
    BY <1>1, StreamFacts
  <2> QED BY <1>2, <1>3, <2>1, <2>2
<1>5. TypeOK'
  <2>1. Message(next) \in [from : Nat, to : Nat]
    BY <1>1, StreamFacts DEF Message, Slice
  <2>2. handed' \in Seq([from : Nat, to : Nat])
    BY <1>2, <2>1 DEF Inv, TypeOK
  <2> QED BY <1>1, <2>2, StreamFacts DEF Inv, TypeOK, GetMessage
<1>6. InStep'
  <2>1. End[next - 1] \notin Refused
    BY <1>1 DEF GetMessage
  <2>2. \A i \in 1 .. next : i \in 1 .. Len(handed) \/ i = next
    BY <1>1, StreamFacts
  <2>3. \A i \in 1 .. next : End[i - 1] \notin Refused
    BY <2>1, <2>2 DEF Inv, InStep
  <2> QED BY <1>1, <1>4, <2>3, StreamFacts DEF InStep
<1>7. NothingHeldBack'
  BY DEF GetMessage, NothingHeldBack
<1> QED BY <1>1, <1>2, <1>5, <1>6, <1>7 DEF Inv

LEMMA GetBadMessageInv == ASSUME Inv, GetBadMessage
                          PROVE  Inv'
<1>1. /\ start' \in start .. received
      /\ received' = received
      /\ BufferIsBounded'
  BY TakeFacts DEF GetBadMessage
<1>2. TypeOK'
  BY <1>1, StreamFacts DEF Inv, TypeOK, GetBadMessage
<1>3. InStep' /\ NothingHeldBack'
  BY DEF Inv, InStep, NothingHeldBack, GetBadMessage
<1> QED BY <1>1, <1>2, <1>3 DEF Inv

LEMMA GetNothingInv == ASSUME Inv, GetNothing
                       PROVE  Inv'
<1> DEFINE next == Len(handed) + 1
<1>1. TypeOK /\ InStep /\ at # "exited" /\ ~Found
  BY DEF Inv, GetNothing
<1>2. ~(next <= N /\ End[next] <= received)
  BY <1>1, FoundNext
<1>3. \A i \in next .. N : End[i] > received
  <2>1. next \in Nat \ {0} /\ received \in Nat
    BY <1>1, StreamFacts DEF InStep, TypeOK
  <2>2. CASE next > N
    BY <2>1, <2>2, StreamFacts
  <2>3. CASE next <= N
    <3>1. next \in 1 .. N /\ End[next] > received
      BY <2>1, <2>3, <1>2, StreamFacts
    <3> QED BY <2>1, <3>1, LaterMessages
  <2> QED BY <2>1, <2>2, <2>3, StreamFacts
<1>4. TypeOK'
  BY DEF Inv, TypeOK, GetNothing
<1>5. InStep' /\ NothingHeldBack' /\ BufferIsBounded'
  BY <1>1, <1>3 DEF Inv, InStep, NothingHeldBack, BufferIsBounded, BufLen,
                    GetNothing, N
<1> QED BY <1>4, <1>5 DEF Inv

LEMMA NextInv == Inv /\ [Next]_vars => Inv'
<1> SUFFICES ASSUME Inv, [Next]_vars PROVE Inv'
  OBVIOUS
<1>1. ASSUME NEW n \in 1 .. BUFSIZ, Recv(n) PROVE Inv'
  BY <1>1, RecvInv
<1>2. CASE RecvNothing
  BY <1>2 DEF RecvNothing, Inv, TypeOK, InStep, NothingHeldBack, BufferIsBounded, BufLen
<1>3. CASE GetMessage
  BY <1>3, GetMessageInv
<1>4. CASE GetBadMessage
  BY <1>4, GetBadMessageInv
<1>5. CASE GetNothing
  BY <1>5, GetNothingInv
<1>6. CASE UNCHANGED vars
  BY <1>6 DEF vars, Inv, TypeOK, InStep, NothingHeldBack, BufferIsBounded, BufLen
<1> QED BY <1>1, <1>2, <1>3, <1>4, <1>5, <1>6 DEF Next
-----------------------------------------------------------------------------
\* A session that waits in recv holds back no message that has arrived
\* (collector.py:52-56).
THEOREM NoMessageIsHeldBack == Spec => []NothingHeldBack
<1>1. Inv => NothingHeldBack
  BY DEF Inv
<1> QED BY <1>1, InitInv, NextInv, PTL DEF Spec

\* The receive buffer never outgrows the longest message by more than one
\* recv (bmpparse.py:172-174).
THEOREM BufferStaysBounded == Spec => []BufferIsBounded
<1>1. Inv => BufferIsBounded
  BY DEF Inv
<1> QED BY <1>1, InitInv, NextInv, PTL DEF Spec

LEMMA StreamInit == Init => Stream!Init
BY DEF Init, Stream!Init

LEMMA StreamNext == Inv /\ [Next]_vars => [Stream!Next]_<<received, handed>>
<1> SUFFICES ASSUME Inv, [Next]_vars
             PROVE  Stream!Next \/ UNCHANGED <<received, handed>>
  OBVIOUS
<1>1. ASSUME NEW n \in 1 .. BUFSIZ, Recv(n) PROVE Stream!Next
  <2>1. n \in 1 .. StreamLength /\ Stream!Receive(n)
    BY <1>1, StreamFacts, FramingAssumption DEF Inv, TypeOK, Recv, Stream!Receive, Stream!StreamLength, StreamLength
  <2> QED BY <2>1 DEF Stream!Next, Stream!StreamLength, StreamLength
<1>2. CASE GetMessage
  <2>1. /\ Len(handed) + 1 <= MessageCount
        /\ End[Len(handed) + 1] <= received
        /\ received' = received
    BY <1>2, TakeFacts, StreamFacts DEF GetMessage, N, Inv, TypeOK
  <2>2. handed' = Append(handed, Message(Len(handed) + 1))
    BY <1>2, GetMessageInv
  <2> QED BY <2>1, <2>2 DEF Stream!Next, Stream!Hand, Stream!Message, Message, Stream!Slice, Slice
<1>3. CASE RecvNothing \/ GetBadMessage \/ GetNothing \/ UNCHANGED vars
  BY <1>3 DEF RecvNothing, GetBadMessage, TakeMessage, GetNothing, vars
<1> QED BY <1>1, <1>2, <1>3 DEF Next

\* However recv cuts up the stream, a session hands on its messages whole,
\* once each and in order (collector.py:47-56).
THEOREM HandsOnWholeMessages == Spec => ImplementsBmpStream
<1>1. Spec => []Inv
  BY InitInv, NextInv, PTL DEF Spec
<1> QED BY <1>1, StreamInit, StreamNext, PTL DEF Spec, ImplementsBmpStream, Stream!Spec
=============================================================================

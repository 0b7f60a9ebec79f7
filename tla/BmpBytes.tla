------------------------------ MODULE BmpBytes ------------------------------
(***************************************************************************)
(* A stream of BMP messages.  Its bytes are its positions 0, 1, 2, ...,    *)
(* and a message is the interval of positions that it takes up.  Of what   *)
(* the bytes say only the length field in a header matters here.           *)
(***************************************************************************)
EXTENDS Integers, Sequences

CONSTANTS MessageCount,  \* bound: messages in the stream
          End,           \* End[i]: where message i ends; End[0] is the start
          LengthAt,      \* LengthAt[k]: what a length field reads, if a header
                         \* is taken to start at position k
          Refused        \* where the messages begin for which BMP_message()
                         \* raises, such as a Termination with a reason
                         \* (bmpparse.py:105) and Route Mirroring (111)

HeaderLength == 6        \* version, length and type

StreamLength == End[MessageCount]

\* A length field tells the length of its message, header included.  Read
\* anywhere but at the start of a message it could say anything.
ASSUME StreamAssumption ==
    /\ MessageCount \in Nat
    /\ End \in [0 .. MessageCount -> Nat]
    /\ End[0] = 0
    /\ \A i \in 1 .. MessageCount :
          \A j \in 0 .. i - 1 : End[i] >= End[j] + HeaderLength
    /\ LengthAt \in [0 .. StreamLength -> Nat]
    /\ \A i \in 1 .. MessageCount : LengthAt[End[i - 1]] = End[i] - End[i - 1]
    /\ Refused \subseteq Nat

Slice(from, to) == [from |-> from, to |-> to]
Message(i) == Slice(End[i - 1], End[i])

\* The first k messages.
Messages(k) == [i \in 1 .. k |-> Message(i)]
=============================================================================

----------------------------- MODULE BgpUpdate -----------------------------
(***************************************************************************)
(* BGP_message of bgpparse.py on an UPDATE message: three loops over       *)
(* bytes, one for the withdrawn prefixes, one for the announced ones and   *)
(* one for the path attributes, each steered by lengths in the message.    *)
(* One round of a loop is one action.  A number in an attribute is kept as *)
(* its octets; the list unhandled_codes is left out, nothing reads it.     *)
(***************************************************************************)
EXTENDS BgpWire, PyDict

CONSTANT Updates      \* the UPDATEs that routers send here

VARIABLES msg,        \* what follows the header of the message
          bgp_length, \* the length field of the header
          phase,      \* where the parser is, or how it ended
          offset,     \* in the field it is reading
          withdrawn_prefixes, prefixes, attribute, except_flag,
          sent        \* history: the UPDATE that was encoded

parsed == <<withdrawn_prefixes, prefixes, attribute, except_flag>>
vars == <<msg, bgp_length, phase, offset, parsed, sent>>

HeaderLength == 19
ORIGIN == 1
AS_PATH == 2
NEXT_HOP == 3
AS4_PATH == 17
Mandatory == {ORIGIN, AS_PATH, NEXT_HOP}

\* Of an UPDATE with attributes for paths, `path' and `path4' are what they
\* encode.
ASSUME UpdatesAssumption ==
    \A u \in Updates :
        /\ Encodable(u)
        /\ \A i \in DOMAIN u.attributes :
              LET a == u.attributes[i]
              IN /\ a.code = AS_PATH => a.value = EncodePath(u.path)
                 /\ a.code = AS4_PATH => a.value = EncodePath(u.path4)

\* The length field may be wrong, or the message cut.
Init == /\ sent \in Updates
        /\ msg = EncodeUpdate(sent)
        /\ bgp_length \in HeaderLength .. HeaderLength + Len(msg) + 1
        /\ phase = "header"
        /\ offset = 0
        /\ withdrawn_prefixes = << >> /\ prefixes = << >>
        /\ attribute = Empty
        /\ except_flag = FALSE

Ended == phase \in {"done", "AssertionError", "struct.error", "SystemExit"}
Go(to) == phase' = to /\ offset' = 0
-----------------------------------------------------------------------------
(* The fields of the message *)

WithdrawnLength == Word(msg, 0)
AttributesAt == WithdrawnLength + 4
AttributesLength == Word(msg, WithdrawnLength + 2)

Withdrawn == Slice(msg, 2, WithdrawnLength + 2)
Attributes == Slice(msg, AttributesAt, AttributesAt + AttributesLength)
NLRI == Slice(msg, AttributesAt + AttributesLength, Len(msg))

Field == CASE phase = "withdrawn" -> Withdrawn
           [] phase = "nlri" -> NLRI
           [] phase = "attributes" -> Attributes
AtEnd == offset >= Len(Field)

ParseHeader ==
    /\ phase = "header"
    /\ IF bgp_length - HeaderLength \in 0 .. Len(msg)
       THEN Go("lengths") /\ msg' = Slice(msg, 0, bgp_length - HeaderLength)
       ELSE Go("AssertionError") /\ UNCHANGED msg
    /\ UNCHANGED <<bgp_length, parsed, sent>>

ParseLengths ==
    /\ phase = "lengths"
    /\ Go(CASE Len(msg) < 2 -> "struct.error"
            [] Len(msg) \in 2 .. WithdrawnLength + 3 -> "AssertionError"
            [] OTHER -> "withdrawn")
    /\ UNCHANGED <<msg, bgp_length, parsed, sent>>
-----------------------------------------------------------------------------
(* get_prefixes *)

\* Mutant: the next octet is needed a bit too late.
ByteLengthLate(n) == CASE n > 25 -> 4 [] n \in 18 .. 25 -> 3
                       [] n \in 10 .. 17 -> 2 [] n \in 1 .. 9 -> 1
                       [] OTHER -> 0

ByteLength(n) == CASE n > 24 -> 4 [] n \in 17 .. 24 -> 3
                   [] n \in 9 .. 16 -> 2 [] n \in 1 .. 8 -> 1
                   [] OTHER -> 0

\* Mutant: the octet with the length is not counted.
PrefixEndUncounted == offset + ByteLength(At(Field, offset))

PrefixEnd == offset + 1 + ByteLength(At(Field, offset))

PrefixRead ==
    LET n == At(Field, offset)
    IN [length |-> n,
        address |-> [i \in 1 .. 4 |->
                        IF i <= ByteLength(n) THEN At(Field, offset + i) ELSE 0]]

GetPrefix == ~AtEnd /\ PrefixEnd <= Len(Field) /\ offset' = PrefixEnd

GetWithdrawn == /\ phase = "withdrawn" /\ GetPrefix
                /\ withdrawn_prefixes' = Append(withdrawn_prefixes, PrefixRead)
                /\ UNCHANGED <<msg, bgp_length, phase, prefixes, attribute,
                               except_flag, sent>>

GetAnnounced == /\ phase = "nlri" /\ GetPrefix
                /\ prefixes' = Append(prefixes, PrefixRead)
                /\ UNCHANGED <<msg, bgp_length, phase, withdrawn_prefixes,
                               attribute, except_flag, sent>>

CutPrefix == /\ phase \in {"withdrawn", "nlri"}
             /\ ~AtEnd /\ PrefixEnd > Len(Field)
             /\ Go("AssertionError")
             /\ UNCHANGED <<msg, bgp_length, parsed, sent>>

\* Mutant: the attributes are not counted in.
EndWithdrawnUnchecked ==
    /\ phase = "withdrawn" /\ AtEnd
    /\ Go(IF Len(msg) > WithdrawnLength + 3 THEN "nlri" ELSE "AssertionError")
    /\ UNCHANGED <<msg, bgp_length, parsed, sent>>

EndWithdrawn ==
    /\ phase = "withdrawn" /\ AtEnd
    /\ Go(IF Len(msg) > WithdrawnLength + 3 + AttributesLength
          THEN "nlri" ELSE "AssertionError")
    /\ UNCHANGED <<msg, bgp_length, parsed, sent>>

EndNLRI == /\ phase = "nlri" /\ AtEnd
           /\ Go("attributes")
           /\ UNCHANGED <<msg, bgp_length, parsed, sent>>
-----------------------------------------------------------------------------
(* process_path_attributes *)

Extended == (At(Field, offset) \div 16) % 2 = 1
Quantum == IF Extended THEN 4 ELSE 3
Code == At(Field, offset + 1)
HeaderFits == offset + Quantum <= Len(Field)
AttributeLength == IF Extended THEN Word(Field, offset + 2) ELSE At(Field, offset + 2)
AttributeEnd == offset + Quantum + AttributeLength

\* An attribute that claims to be longer than the field is cut, not refused.
Value == Slice(Field, offset + Quantum, AttributeEnd)

\* What the parsers of the attributes assert of the length; false for a code
\* that parse_attribute does not know.
LengthOK(code, n) == \/ code \in {AS_PATH, 14, 15, AS4_PATH}
                     \/ code = ORIGIN /\ n = 1
                     \/ code \in {NEXT_HOP, 4, 5} /\ n = 4
                     \/ code = 6 /\ n = 0
                     \/ code = 7 /\ n \in {6, 8}
                     \/ code = 8 /\ n % 4 = 0
                     \/ code = 16 /\ n % 8 = 0
                     \/ code = 18 /\ n = 8
                     \/ code \in {20, 128} /\ n > 4
                     \/ code = 21 /\ n = 5
                     \/ code = 32 /\ n % 12 = 0

\* A segment at offset k, with ASes of `size' octets, and where the next one
\* is.  The ASes are read from the start of the segment, one for every `size'
\* in its count (lines 323-324).
SegmentAt(attr, size, k) ==
    [type |-> At(attr, k),
     ases |-> [i \in 1 .. (At(attr, k + 1) + size - 1) \div size |->
                  Slice(attr, k + size * (i - 1), k + size * i)]]
NextSegment(attr, size, k) == k + 2 + size * At(attr, k + 1)
SegmentOK(attr, size, k) == /\ k + 4 <= Len(attr)
                            /\ NextSegment(attr, size, k) <= Len(attr)
                            /\ At(attr, k) \in {1, 2}

\* get_segments(attr, as4): the set of its one result, or {} when an assertion
\* fails.
GetSegments(attr, size) ==
    LET From[k \in 0 .. Len(attr)] ==
            CASE k = Len(attr) -> {<< >>}
              [] SegmentOK(attr, size, k) ->
                    {<<SegmentAt(attr, size, k)>> \o rest :
                        rest \in From[NextSegment(attr, size, k)]}
              [] OTHER -> {}
    IN From[0]

\* The whole path with ASes of four octets or, failing that, of two.
ReadPath(attr) == LET as4 == GetSegments(attr, 4)
                  IN IF as4 # {} THEN as4 ELSE GetSegments(attr, 2)

\* What is kept of an attribute, if anything: of a path without segments
\* nothing, of a community its first half (222), of a large community its
\* first third (251), of an AS4 aggregator's address the octets from 2 (358).
Kept(code, attr) ==
    CASE code \in {AS_PATH, AS4_PATH} -> ReadPath(attr) \ {<< >>}
      [] code = 8 -> {[i \in 1 .. Len(attr) \div 4 |->
                          Slice(attr, 4 * (i - 1), 4 * (i - 1) + 2)]}
      [] code = 32 -> {[i \in 1 .. Len(attr) \div 12 |->
                          Slice(attr, 12 * (i - 1), 12 * (i - 1) + 4)]}
      [] code \in {7, 18} /\ Len(attr) = 8 -> {Slice(attr, 0, 4) \o Slice(attr, 2, 6)}
      [] OTHER -> {attr}

ParseAttribute ==
    /\ phase = "attributes" /\ ~AtEnd
    /\ HeaderFits /\ LengthOK(Code, Len(Value))
    /\ attribute' \in IF Kept(Code, Value) = {} THEN {attribute}
                      ELSE {Put(attribute, {Code}, v) : v \in Kept(Code, Value)}
    /\ offset' = AttributeEnd
    /\ UNCHANGED <<msg, bgp_length, phase, withdrawn_prefixes, prefixes,
                   except_flag, sent>>

\* Mutant: the loop goes on without moving past the attribute.
BadAttributeAgain ==
    /\ phase = "attributes" /\ ~AtEnd
    /\ HeaderFits /\ ~LengthOK(Code, Len(Value))
    /\ except_flag' = TRUE
    /\ UNCHANGED <<msg, bgp_length, phase, offset, withdrawn_prefixes, prefixes,
                   attribute, sent>>

\* The assertion that fails is caught, reported, and followed by exit().
BadAttribute ==
    /\ phase = "attributes" /\ ~AtEnd
    /\ HeaderFits /\ ~LengthOK(Code, Len(Value))
    /\ except_flag' = TRUE
    /\ Go("SystemExit")
    /\ UNCHANGED <<msg, bgp_length, withdrawn_prefixes, prefixes, attribute, sent>>

CutAttributeHeader ==
    /\ phase = "attributes" /\ ~AtEnd /\ ~HeaderFits
    /\ Go("struct.error")
    /\ UNCHANGED <<msg, bgp_length, parsed, sent>>

EndAttributes ==
    /\ phase = "attributes" /\ AtEnd
    /\ except_flag' = (prefixes # << >> /\ ~(Mandatory \subseteq DOMAIN attribute))
    /\ Go("done")
    /\ UNCHANGED <<msg, bgp_length, withdrawn_prefixes, prefixes, attribute, sent>>

Next == \/ ParseHeader \/ ParseLengths
        \/ GetWithdrawn \/ GetAnnounced \/ CutPrefix
        \/ EndWithdrawn \/ EndNLRI
        \/ ParseAttribute \/ BadAttribute \/ CutAttributeHeader
        \/ EndAttributes

\* A parser runs until it ends.
Spec == Init /\ [][Next]_vars /\ WF_vars(Next)
-----------------------------------------------------------------------------
(* Properties *)

TypeOK ==
    /\ msg \in Seq(Octet)
    /\ phase \in {"header", "lengths", "withdrawn", "nlri", "attributes",
                  "done", "AssertionError", "struct.error", "SystemExit"}
    /\ offset \in Nat
    /\ \A s \in {withdrawn_prefixes, prefixes} :
          s \in Seq([length : Octet, address : [1 .. 4 -> Octet]])
    /\ DOMAIN attribute \subseteq Octet
    /\ except_flag \in BOOLEAN

Whole == bgp_length = HeaderLength + Len(EncodeUpdate(sent)) /\ sent.miscounted = 0
Codes == {sent.attributes[i].code : i \in DOMAIN sent.attributes}

\* What makes an UPDATE acceptable to this parser: attributes from the list
\* in bgpparse.py:26-42, paths as they are defined, and for announced prefixes
\* the mandatory attributes, with a path that is not empty.  A route
\* reflector's attributes 9 and 10 are not in the list, and the path of a
\* route from within the AS is empty.
Usual == /\ Codes \subseteq 1 .. 8 \cup 14 .. 18 \cup {20, 21, 32, 128}
         /\ \A i \in DOMAIN sent.attributes :
               StandardLength(sent.attributes[i].code, Len(sent.attributes[i].value))
         /\ AS_PATH \in Codes => IsPath(sent.path)
         /\ AS4_PATH \in Codes => IsPath(sent.path4) /\ sent.path4 # << >>
         /\ sent.prefixes # << >> => Mandatory \subseteq Codes /\ sent.path # << >>

\* An UPDATE that arrives whole is read as it was sent, to the last octet of
\* the last prefix, whatever the lengths of its prefixes and attributes are,
\* and neither flagged nor refused (bgpparse.py:111-212).
WellFormedIsAccepted ==
    Ended /\ Whole /\ Usual =>
        /\ phase = "done" /\ ~except_flag
        /\ withdrawn_prefixes = sent.withdrawn
        /\ prefixes = sent.prefixes
        /\ DOMAIN attribute = IF sent.path = << >> THEN Codes \ {AS_PATH} ELSE Codes

\* Wherever an UPDATE ends early, what is read of it is what was sent: the
\* withdrawn prefixes and the attributes are there completely, and the
\* announced prefixes lack at most the last ones (lines 114, 117 and 149).
NothingInvented ==
    phase = "done" /\ sent.miscounted = 0 =>
        /\ withdrawn_prefixes = sent.withdrawn
        /\ IsPrefix(prefixes, sent.prefixes)
        /\ \A i \in DOMAIN sent.attributes :
              LET a == sent.attributes[i]
              IN Kept(a.code, a.value) =
                     IF a.code \in DOMAIN attribute THEN {attribute[a.code]} ELSE {}

\* Every loop comes to its end, whatever the lengths in the message say.
ParsingEnds == <>Ended

Place(p) == CASE p = "header" -> 0 [] p = "lengths" -> 1 [] p = "withdrawn" -> 2
              [] p = "nlri" -> 3 [] p = "attributes" -> 4 [] OTHER -> 5

\* No round of a loop leaves the parser where it was: it is before the end of
\* the field and comes further in it, or leaves the loop, and never goes back
\* to a loop that it left.  A length of 0 moves it as well (lines 137-163 and
\* 172-197).
MovesOn == [][\/ Place(phase) < Place(phase')
              \/ /\ phase' = phase /\ Field' = Field
                 /\ offset < Len(Field) /\ offset < offset']_vars

\* What the comment on lines 271-279 says: a path is read as the list of its
\* segments, each with its type and its list of ASes.
ASPathIsRead ==
    phase = "done" /\ sent.miscounted = 0 /\ AS_PATH \in DOMAIN attribute =>
         attribute[AS_PATH] = sent.path
=============================================================================

------------------------------- MODULE BgpWire -------------------------------
(***************************************************************************)
(* BGP UPDATE messages as a router encodes them (RFC 4271), the reference  *)
(* that the parser in BgpUpdate is held against, and reading of bytes as   *)
(* Python does it: offsets begin at 0, and a slice is cut at the end.      *)
(***************************************************************************)
EXTENDS Integers, Sequences, SequencesExt

Octet == 0 .. 255

At(b, k) == b[k + 1]
Word(b, k) == 256 * At(b, k) + At(b, k + 1)
Slice(b, from, to) == SubSeq(b, from + 1, IF to < Len(b) THEN to ELSE Len(b))

WordBytes(n) == <<n \div 256, n % 256>>

\* A prefix takes up as many octets of its address as its length needs.
EncodePrefix(p) == <<p.length>> \o SubSeq(p.address, 1, (p.length + 7) \div 8)
EncodePrefixes(s) == FlattenSeq([i \in DOMAIN s |-> EncodePrefix(s[i])])

\* A segment of an AS path: type, number of ASes, and the ASes, each a
\* sequence of two or of four octets.
EncodePath(path) ==
    FlattenSeq([i \in DOMAIN path |->
        <<path[i].type, Len(path[i].ases)>> \o FlattenSeq(path[i].ases)])

\* The length of an attribute is one octet, or two with flag 16.
Long(flags) == (flags \div 16) % 2 = 1
EncodeAttribute(a) ==
    <<a.flags, a.code>>
    \o (IF Long(a.flags) THEN WordBytes(Len(a.value)) ELSE <<Len(a.value)>>)
    \o a.value
EncodeAttributes(s) == FlattenSeq([i \in DOMAIN s |-> EncodeAttribute(s[i])])

\* The length of the attributes may be counted wrong.
EncodeUpdate(u) ==
    LET withdrawn  == EncodePrefixes(u.withdrawn)
        attributes == EncodeAttributes(u.attributes)
    IN WordBytes(Len(withdrawn)) \o withdrawn
       \o WordBytes(Len(attributes) - u.miscounted) \o attributes
       \o EncodePrefixes(u.prefixes)
-----------------------------------------------------------------------------
(* What can be encoded: an address is zero behind the octets that are sent, *)
(* no attribute is there twice, and the lengths fit into their octets.      *)

Address(n) == {a \in [1 .. 4 -> Octet] : \A i \in 1 .. 4 : n <= 8 * (i - 1) => a[i] = 0}
Encodable(u) ==
    /\ \A s \in {u.withdrawn, u.prefixes} :
          /\ s \in Seq([length : 0 .. 32, address : [1 .. 4 -> Octet]])
          /\ \A i \in DOMAIN s : s[i].address \in Address(s[i].length)
    /\ u.attributes \in Seq([flags : Octet, code : Octet, value : Seq(Octet)])
    /\ \A i, j \in DOMAIN u.attributes :
          u.attributes[i].code = u.attributes[j].code => i = j
    /\ \A i \in DOMAIN u.attributes :
          Len(u.attributes[i].value) <= IF Long(u.attributes[i].flags) THEN 65535 ELSE 255
    /\ Len(EncodePrefixes(u.withdrawn)) <= 65535
    /\ u.miscounted \in Int
    /\ LET n == Len(EncodeAttributes(u.attributes)) - u.miscounted
       IN 0 <= n /\ n <= 65535

\* An AS path whose segments are sets (1) or sequences (2) of ASes.
IsPath(path) ==
    \E size \in {2, 4} :
        /\ path \in Seq([type : {1, 2}, ases : Seq([1 .. size -> Octet])])
        /\ \A i \in DOMAIN path : Len(path[i].ases) \in 1 .. 255

\* The octets of an attribute's value, where its definition fixes them (RFC
\* 1997, 4271, 4360, 6368, 6793, 8092).
StandardLength(code, n) ==
    /\ code = 1 => n = 1
    /\ code \in {3, 4, 5} => n = 4
    /\ code = 6 => n = 0
    /\ code = 7 => n \in {6, 8}
    /\ code = 8 => n % 4 = 0
    /\ code = 16 => n % 8 = 0
    /\ code = 18 => n = 8
    /\ code \in {20, 128} => n > 4
    /\ code = 21 => n = 5
    /\ code = 32 => n % 12 = 0
=============================================================================

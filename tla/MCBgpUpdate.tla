---------------------------- MODULE MCBgpUpdate ----------------------------
(* Prefixes of every length at which the number of octets changes, paths of *)
(* two and four octets for an AS, an attribute with an extended length, and *)
(* sets of attributes that the parser accepts, flags and refuses.           *)
EXTENDS BgpUpdate

Prefix(n, a, b, c, d) == [length |-> n, address |-> <<a, b, c, d>>]
P == <<Prefix(0, 0, 0, 0, 0), Prefix(1, 128, 0, 0, 0), Prefix(8, 10, 0, 0, 0),
       Prefix(9, 10, 128, 0, 0), Prefix(16, 10, 1, 0, 0),
       Prefix(17, 10, 1, 128, 0), Prefix(24, 10, 1, 2, 0),
       Prefix(25, 10, 1, 2, 128), Prefix(32, 10, 1, 2, 3)>>

Withdrawals == {<< >>, <<P[4]>>, <<P[8], P[1]>>}
Announcements == {<< >>} \cup {<<P[i]>> : i \in DOMAIN P}
                   \cup {<<P[i], P[j]>> : i \in {1, 6, 9}, j \in {2, 4, 8}}

Segment(t, ases) == [type |-> t, ases |-> ases]
AS4(n) == <<0, 0, 253, n>>
AS2(n) == <<253, n>>

Attribute(code, value) == [flags |-> 64, code |-> code, value |-> value]
LongAttribute(code, value) == [flags |-> 208, code |-> code, value |-> value]
Path(path) == Attribute(AS_PATH, EncodePath(path))

Origin == Attribute(ORIGIN, <<0>>)
NextHop == Attribute(NEXT_HOP, <<10, 0, 0, 1>>)
Communities == LongAttribute(8, <<253, 1, 0, 1, 253, 1, 0, 2>>)
Aggregator == Attribute(7, <<0, 0, 253, 1, 10, 0, 0, 2>>)

Sequence4 == <<Segment(2, <<AS4(1), AS4(2), AS4(3), AS4(4), AS4(5)>>)>>
WithSet4 == <<Segment(2, <<AS4(1)>>), Segment(1, <<AS4(2), AS4(3)>>)>>
Sequence2 == <<Segment(2, <<AS2(1), AS2(2)>>)>>
WithSet2 == <<Segment(2, <<AS2(1), AS2(2)>>), Segment(1, <<AS2(3)>>)>>

AS4Path == LongAttribute(AS4_PATH, EncodePath(WithSet4))

\* Sets of path attributes, each with the path in it.
AttributeSets ==
    {<< <<Origin, Path(p), NextHop>>, p >> :
         p \in {<< >>, Sequence4, WithSet4, Sequence2, WithSet2}}
      \cup {<< <<Origin, Path(Sequence4), NextHop, Communities, Aggregator>>, Sequence4 >>,
            << <<Communities, Origin, Path(WithSet4), NextHop>>, WithSet4 >>,
            << <<Origin, Path(Sequence4)>>, Sequence4 >>,
            << <<Origin, Path(WithSet4), NextHop, Attribute(9, <<10, 0, 0, 3>>)>>, WithSet4 >>,
            << <<Origin, Path(Sequence2), NextHop, AS4Path>>, Sequence2 >>,
            << << >>, << >> >>}

Update(w, a, s, n) == [withdrawn |-> w, prefixes |-> a, attributes |-> s[1],
                       path |-> s[2], path4 |-> WithSet4, miscounted |-> n]

MCUpdates ==
    {Update(w, a, s, 0) : w \in Withdrawals, a \in Announcements, s \in AttributeSets}
      \cup {Update(<< >>, <<P[9]>>, << <<Origin, NextHop, Path(Sequence4)>>, Sequence4 >>, n) :
               n \in {3, Len(EncodePath(Sequence4)) + 1}}
=============================================================================

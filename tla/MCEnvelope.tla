---------------------------- MODULE MCEnvelope ------------------------------
(* Names and strings on which orders, escapes and readings differ. *)
EXTENDS Envelope

\* A private-use character, one outside the basic plane, and "vv".
MCExtension == {<<57344>>, <<65536>>, <<118, 118>>}

\* A valid identifier, a line feed, and its escape spelled out.
MCText == {<<97>>, <<10>>, <<92, 110>>}

x == <<120>>
y == <<121>>

\* None, and one entry.
MCMetadata == {<<>>, <<Member(x, Str(x))>>}

\* No member, one without an agent, and two of which one has an agent.
MCRoster ==
    {<<>>, <<<<Member(<<105>>, Str(x))>>>>,
     <<<<Member(<<105>>, Str(x)), Member(<<97>>, Str(x))>>, <<Member(<<105>>, Str(y))>>>>}

MCMore ==
    {<<>>, <<Member(<<57344>>, Str(<<10>>)), Member(<<118, 118>>, Null)>>,
     <<Member(<<65536>>, Num(1)), Member(<<57344>>, Object(<<Member(y, Num(-1)), Member(x, Num(1))>>))>>}

MCStray ==
    {Member(VersionName, v) : v \in {Num(-1), Num(1), Num(3), Fraction, Null}} \cup
    {Member(<<86>>, Num(2)), Member(<<119>>, Str(<<97>>)),
     Member(<<57344>>, Str(<<92, 110>>)), Member(<<57344>>, Str(<<1>>)), Member(<<65536>>, Num(1))} \cup
    {Member(BoxName["manifest"], v) :
        v \in {Null, Object(<<Member(y, Str(y)), Member(x, Str(y))>>), Object(<<Member(x, Str(x))>>)}} \cup
    {Member(BoxName["registry"], v) :
        v \in {Array(<<>>),
               Array(<<<<Member(<<105>>, Str(y)), Member(<<97>>, Str(y))>>>>),
               Array(<<<<Member(<<105>>, Str(y)), Member(<<105>>, Str(x))>>>>)}}
=============================================================================

------------------------------ MODULE Envelope ------------------------------
(***************************************************************************)
(* The signed envelope (internal/wire): a payload, manifest or registry,   *)
(* is signed over its canonical JSON form and travels as a document that   *)
(* anything on the way may rewrite.  A document is what a JSON lexer makes *)
(* of it, the sequence of its members: white space and the spelling of     *)
(* strings are gone, the order of members and repeated names are not.      *)
(*                                                                         *)
(* Names and strings are sequences of code points, since canonical form is *)
(* about them.  A value is a scalar or holds parts, each the members of an *)
(* object: the one object of a nested object, or the elements of an array. *)
(* The payloads nest no deeper: a manifest has a map of strings, metadata, *)
(* and a registry a slice of structs, members, whose optional fields (the  *)
(* agent) may be left out.  A manifest's files are such a slice too, but   *)
(* of structs whose fields are always written.  Booleans are left out: in  *)
(* canonical form they are words as null is, and no known field is one.    *)
(*                                                                         *)
(* The names a decoder knows are one letter: "m" member_id, "w" wreath_id, *)
(* "v" version, "d" metadata, "s" members, and in an element of members    *)
(* "i" id, "a" agent.                                                      *)
(***************************************************************************)
EXTENDS Integers, Sequences, FiniteSets, SequencesExt

CONSTANTS
    Extension,      \* names that this version of the code does not know
    Text,           \* strings an identifier may be
    Metadata,       \* what a manifest's metadata may be, as its members
    Roster,         \* what a registry's members may be, as their members
    More,           \* members a later version of the code may add
    Stray,          \* members a rewritten document may gain
    MaxSafeInteger, \* the largest integer of the canonical form
    MaxEdits        \* bound: rewritings of one document

VARIABLES
    signed,     \* what the owner of the key signed: its kind, its generic
                \* reading (payload) and what its map or slice held (contents)
    signature,  \* the bytes the signature is of
    field,      \* the envelope's field that holds the payload
    members,    \* the members of the payload as they are in the document
    edits       \* rewritings so far

evars == <<signed, signature, field, members, edits>>

Kind == {"manifest", "registry"}

\* encoding/json finds a struct's field by its name in any case; beyond ASCII
\* the long s and the Kelvin sign fold to letters.
Fold(k) ==
    [i \in DOMAIN k |->
        CASE k[i] \in 65 .. 90 -> k[i] + 32 [] k[i] = 383 -> 115 [] k[i] = 8490 -> 107
          [] OTHER -> k[i]]

IdName == [manifest |-> <<109>>, registry |-> <<119>>]
VersionName == <<118>>
BoxName == [manifest |-> <<100>>, registry |-> <<115>>]     \* the map, the slice
MemberField == {<<105>>, <<97>>}

KnownName == {IdName[kind] : kind \in Kind} \cup {BoxName[kind] : kind \in Kind} \cup {VersionName}

\* What a decoded string is made of: code points but surrogates.
Char == {c \in Nat : c < 55296 \/ (57343 < c /\ c < 1114112)}

Num(n) == [type |-> "num", n |-> n]
Str(s) == [type |-> "str", s |-> s]
Fraction == [type |-> "frac"]           \* a number with a ".", "e" or "E"
Null == [type |-> "null"]
Object(ms) == [type |-> "obj", parts |-> <<ms>>]
Array(elements) == [type |-> "arr", parts |-> elements]
Member(k, v) == [name |-> k, value |-> v]

Scalar ==
    [type : {"num"}, n : Int] \cup [type : {"str"}, s : Seq(Char)] \cup {Fraction, Null}
Entry == [name : Seq(Char), value : Scalar]
Value ==
    Scalar \cup [type : {"obj"}, parts : [{1} -> Seq(Entry)]]
           \cup [type : {"arr"}, parts : Seq(Seq(Entry))]

Nested(v) == v.type \in {"obj", "arr"}
Parts(v) == IF Nested(v) THEN v.parts ELSE <<>>

\* Names are unknown in any case, so that decoded they set no known field;
\* Go's maps hold strings, and its structs strings for the names they know.
ASSUME EnvelopeAssumption ==
    /\ Extension \subseteq Seq(Char)
    /\ \A k \in Extension : Fold(k) \notin KnownName \cup MemberField
    /\ Text \subseteq Seq(Char)
    /\ Metadata \subseteq Seq([name : Seq(Char), value : {v \in Scalar : v.type = "str"}])
    /\ Roster \subseteq Seq(Seq([name : MemberField, value : {v \in Scalar : v.type = "str"}]
                                    \cup [name : Extension, value : Scalar]))
    /\ More \subseteq Seq([name : Extension, value : Value])
    /\ Stray \subseteq [name : Seq(Char), value : Value]
    /\ MaxSafeInteger \in Nat

Nothing == [kind |-> "nothing", payload |-> <<>>, contents |-> <<>>]

-----------------------------------------------------------------------------
(* Canonical form: a sequence of code points. *)

\* utf16.Encode of one code point.
Utf16(c) ==
    IF c < 65536 THEN <<c>>
    ELSE <<55296 + (c - 65536) \div 1024, 56320 + ((c - 65536) % 1024)>>

\* Variant of Units: code points, Go's own order of strings.
UnitsCodePoints(s) == s

Units(s) == FlattenSeq([i \in DOMAIN s |-> Utf16(s[i])])

\* The first unit that differs decides, and a proper prefix comes first.
lessUTF16(x, y) ==
    LET ux == Units(x)
        uy == Units(y)
    IN  \E i \in DOMAIN uy :
            /\ i <= Len(ux) + 1
            /\ SubSeq(ux, 1, i - 1) = SubSeq(uy, 1, i - 1)
            /\ i <= Len(ux) => ux[i] < uy[i]

\* Quote, backslash and five controls have escapes of two characters.
Short ==
    [c \in {34, 92, 8, 12, 10, 13, 9} |->
        CASE c = 8  -> 98  [] c = 12 -> 102 [] c = 10 -> 110
          [] c = 13 -> 114 [] c = 9  -> 116 [] OTHER  -> c]

HexDigit(d) == IF d < 10 THEN 48 + d ELSE 87 + d

\* Variant of Escape: the backslash stands for itself.
EscapeNotBackslash(c) ==
    IF c \in DOMAIN Short \ {92} THEN <<92, Short[c]>> ELSE <<c>>

Escape(c) ==
    IF c \in DOMAIN Short THEN <<92, Short[c]>>
    ELSE IF c < 32 THEN <<92, 117, 48, 48, HexDigit(c \div 16), HexDigit(c % 16)>>
    ELSE <<c>>

Quoted(s) == <<34>> \o FlattenSeq([i \in DOMAIN s |-> Escape(s[i])]) \o <<34>>

\* strconv.FormatInt of a number that is not negative.
Decimal[n \in Nat] ==
    IF n < 10 THEN <<48 + n>> ELSE Append(Decimal[n \div 10], 48 + (n % 10))

Literal(v) ==
    IF v.type = "null" THEN <<110, 117, 108, 108>>
    ELSE IF v.type = "str" THEN Quoted(v.s)
    ELSE IF v.n < 0 THEN <<45>> \o Decimal[-v.n] ELSE Decimal[v.n]

\* Numbers that are not integers within the safe range are refused.
Safe(v) ==
    \/ v.type \in {"null", "str"}
    \/ v.type = "num" /\ v.n \in -MaxSafeInteger .. MaxSafeInteger

Canonicalizable(object) ==
    \A k \in DOMAIN object :
        IF Nested(object[k])
        THEN \A j \in DOMAIN object[k].parts :
                 \A l \in DOMAIN object[k].parts[j] : Safe(object[k].parts[j][l])
        ELSE Safe(object[k])

\* sort.Slice of names: the name with i - 1 names below it comes i-th.
Sorted(names) ==
    [i \in 1 .. Cardinality(names) |->
        CHOOSE k \in names : Cardinality({l \in names : lessUTF16(l, k)}) = i - 1]

\* appendCanonical of an array or object, given the texts of what is in it:
\* commas and no space between, an object's members by name.
Enclosed(open, texts, close) ==
    <<open>> \o FlattenSeq([i \in DOMAIN texts |-> (IF i = 1 THEN <<>> ELSE <<44>>) \o texts[i]])
             \o <<close>>

Item(k, text) == Quoted(k) \o <<58>> \o text

Braced(text) ==
    LET keys == Sorted(DOMAIN text)
    IN  Enclosed(123, [i \in DOMAIN keys |-> Item(keys[i], text[keys[i]])], 125)

Flat(object) == Braced([k \in DOMAIN object |-> Literal(object[k])])

TextOf(v) ==
    CASE v.type = "obj" -> Flat(v.parts[1])
      [] v.type = "arr" -> Enclosed(91, [j \in DOMAIN v.parts |-> Flat(v.parts[j])], 93)
      [] OTHER -> Literal(v)

Canonical(object) == Braced([k \in DOMAIN object |-> TextOf(object[k])])

-----------------------------------------------------------------------------
(* Reading a document, generically and into a struct. *)

Latest(I) == CHOOSE i \in I : \A j \in I : j <= i

\* Decode into map[string]any: of members with one name the last counts,
\* and it counts alone.
LastOf(ms) ==
    [k \in {ms[i].name : i \in DOMAIN ms} |->
        ms[Latest({i \in DOMAIN ms : ms[i].name = k})].value]

Read(v) ==
    IF Nested(v) THEN [type |-> v.type, parts |-> [j \in DOMAIN v.parts |-> LastOf(v.parts[j])]]
    ELSE v

Parsed(ms) == [k \in DOMAIN LastOf(ms) |-> Read(LastOf(ms)[k])]

\* The members that encoding/json decodes into a field.
Setters(ms, name) == {i \in DOMAIN ms : Fold(ms[i].name) = name}

\* Decode into a string or a number: of the members that set the field the
\* last stays, and null sets nothing.
Given(ms, name) == {i \in Setters(ms, name) : ms[i].value # Null}
Decoded(ms, name) == ms[Latest(Given(ms, name))].value

(***************************************************************************)
(* Decode into a map or a slice: each setter adds to what those before it  *)
(* have left.  A map keeps the entries that are not named again; a slice   *)
(* keeps its elements, also those beyond a shorter one's length, and in    *)
(* them the fields that are not set again.  A null or an empty array       *)
(* begins anew.                                                            *)
(***************************************************************************)
Live(ms, name) ==
    {i \in Setters(ms, name) :
        \A j \in Setters(ms, name) : i <= j => Parts(ms[j].value) # <<>>}

\* What the entries of a part set: a map the name as it is, and a null sets
\* "" there; a struct one of its fields, in any case, and a null nothing.
Setting(kind, part, f) ==
    {n \in DOMAIN part :
        \/ kind = "manifest" /\ part[n].name = f
        \/ /\ kind = "registry" /\ f \in MemberField
           /\ Fold(part[n].name) = f /\ part[n].value # Null}

Stored(v) == IF v = Null THEN Str(<<>>) ELSE v

\* The setters that have a part at j which sets f.
Writers(ms, kind, j, f) ==
    {i \in Live(ms, BoxName[kind]) :
        j \in DOMAIN ms[i].value.parts /\ Setting(kind, ms[i].value.parts[j], f) # {}}

\* The names that can be set at j.
Settable(ms, kind, j) ==
    MemberField \cup
    UNION {{part[n].name : n \in DOMAIN part} :
        part \in {ms[i].value.parts[j] :
            i \in {i \in Live(ms, BoxName[kind]) : j \in DOMAIN ms[i].value.parts}}}

Slot(ms, kind, j) ==
    [f \in {f \in Settable(ms, kind, j) : Writers(ms, kind, j, f) # {}} |->
        LET part == ms[Latest(Writers(ms, kind, j, f))].value.parts[j]
        IN  Stored(part[Latest(Setting(kind, part, f))].value)]

\* The last setter says how many there are.
Size(ms, kind) ==
    IF Setters(ms, BoxName[kind]) = {} THEN 0
    ELSE Len(Parts(ms[Latest(Setters(ms, BoxName[kind]))].value))

Contents(ms, kind) == [j \in 1 .. Size(ms, kind) |-> Slot(ms, kind, j)]

\* A member of another type fails the decoding, also when a later one counts.
WellTyped(ms, kind) ==
    /\ \A i \in Given(ms, IdName[kind]) : ms[i].value.type = "str"
    /\ \A i \in Given(ms, VersionName) :
           ms[i].value.type = "num" /\ ms[i].value.n >= 0
    /\ \A i \in Given(ms, BoxName[kind]) :
           /\ ms[i].value.type = IF kind = "manifest" THEN "obj" ELSE "arr"
           /\ \A j \in DOMAIN ms[i].value.parts :
                  LET part == ms[i].value.parts[j]
                  IN  \A n \in DOMAIN part :
                          kind = "manifest" \/ Fold(part[n].name) \in MemberField
                          => part[n].value.type \in {"str", "null"}

\* memberIDRe: lower case letters, digits and, but at the start, hyphens.
ValidMemberID(s) ==
    /\ Len(s) \in 1 .. 63
    /\ \A i \in DOMAIN s : s[i] \in 97 .. 122 \cup 48 .. 57 \cup {45}
    /\ s[1] # 45

\* Validate, as far as identifier, version and a registry's having members; a
\* missing field is zero.
Valid(ms, kind) ==
    /\ Given(ms, IdName[kind]) # {}
    /\ ValidMemberID(Decoded(ms, IdName[kind]).s)
    /\ Given(ms, VersionName) # {}
    /\ Decoded(ms, VersionName).n \in 1 .. MaxSafeInteger
    /\ kind = "registry" => Size(ms, kind) > 0

\* Variant of Verifies: the fields this version knows are canonicalized, as
\* SignedManifest.Verify does for an envelope that never left memory.
VerifiesKnown(kind) ==
    LET known == [k \in DOMAIN Parsed(members) \ Extension |-> Parsed(members)[k]]
    IN  /\ field = kind
        /\ Canonicalizable(known)
        /\ Canonical(known) = signature
        /\ WellTyped(members, kind)
        /\ Valid(members, kind)

\* What VerifyManifestBytes and VerifyRegistryBytes have in common.
Verifies(kind) ==
    /\ field = kind
    /\ Canonicalizable(Parsed(members))
    /\ Canonical(Parsed(members)) = signature
    /\ WellTyped(members, kind)
    /\ Valid(members, kind)

VerifyManifestBytes == Verifies("manifest")
VerifyRegistryBytes == Verifies("registry")

\* A document taken for a payload of this kind.
Accepted(kind) ==
    \/ kind = "manifest" /\ VerifyManifestBytes
    \/ kind = "registry" /\ VerifyRegistryBytes

-----------------------------------------------------------------------------
EInit ==
    /\ signed = Nothing
    /\ signature = <<>>
    /\ field = "manifest"
    /\ members = <<>>
    /\ edits = 0

(***************************************************************************)
(* Signing a payload and encoding the envelope: validate, canonicalize,    *)
(* sign, write.  The owner may be a later version of the program with      *)
(* fields of its own, "more", after the known ones.                        *)
(***************************************************************************)
Sign(kind, id, version, box, more) ==
    LET ms == <<Member(IdName[kind], id), Member(VersionName, version)>> \o box \o more
    IN  /\ signed = Nothing
        /\ Valid(ms, kind)
        /\ Canonicalizable(Parsed(ms))
        /\ signed' = [kind |-> kind, payload |-> Parsed(ms), contents |-> Contents(ms, kind)]
        /\ signature' = Canonical(Parsed(ms))
        /\ field' = kind
        /\ members' = ms
        /\ UNCHANGED edits

\* Empty metadata is left out (omitempty), the members of a registry never.
SignManifest(id, version, metadata, more) ==
    Sign("manifest", id, version,
         IF metadata = <<>> THEN <<>> ELSE <<Member(BoxName["manifest"], Object(metadata))>>, more)

SignRegistry(id, version, roster, more) ==
    Sign("registry", id, version, <<Member(BoxName["registry"], Array(roster))>>, more)

\* On its way the document is rewritten: a proxy, a disk, an editor.
Rewrite ==
    /\ signed # Nothing
    /\ edits < MaxEdits
    /\ edits' = edits + 1
    /\ UNCHANGED <<signed, signature>>

Insert(i, e) ==
    /\ Rewrite
    /\ members' = InsertAt(members, i, e)
    /\ UNCHANGED field

Drop(i) ==
    /\ Rewrite
    /\ members' = RemoveAt(members, i)
    /\ UNCHANGED field

Swap(i) ==
    /\ Rewrite
    /\ members' = [members EXCEPT ![i] = members[i + 1], ![i + 1] = members[i]]
    /\ UNCHANGED field

Relabel(kind) ==
    /\ Rewrite
    /\ field' = kind
    /\ UNCHANGED members

ENext ==
    \/ \E s \in Text, n \in 0 .. MaxSafeInteger + 1, more \in More :
           \/ \E metadata \in Metadata : SignManifest(Str(s), Num(n), metadata, more)
           \/ \E roster \in Roster : SignRegistry(Str(s), Num(n), roster, more)
    \/ \E i \in 1 .. Len(members) + 1, e \in Stray : Insert(i, e)
    \/ \E i \in DOMAIN members : Drop(i)
    \/ \E i \in 1 .. Len(members) - 1 : Swap(i)
    \/ \E kind \in Kind : Relabel(kind)

ESpec == EInit /\ [][ENext]_evars

-----------------------------------------------------------------------------
(* Properties *)

\* What is accepted means what was signed, known fields and unknown ones,
\* although the signature covers the generic reading, the caller gets the
\* struct's, and the bytes are those of neither (VerifyManifestBytes).  The
\* map or the slice has everything that was signed for it, in as many
\* elements.  That it has nothing else holds when the document names it once:
\* what an earlier setter has left stays, and no signature covers it.
VerifiedIsSigned ==
    \A kind \in Kind : Accepted(kind) =>
        /\ kind = signed.kind
        /\ Parsed(members) = signed.payload
        /\ \A name \in {IdName[kind], VersionName} :
               Decoded(members, name) = signed.payload[name]
        /\ LET contents == Contents(members, kind)
           IN  /\ Len(contents) = Len(signed.contents)
               /\ \A j \in DOMAIN contents : \A f \in DOMAIN signed.contents[j] :
                      f \in DOMAIN contents[j] /\ contents[j][f] = signed.contents[j][f]
               /\ Cardinality(Setters(members, BoxName[kind])) <= 1
                  => contents = signed.contents

NamedOnce(ms) == \A i, j \in DOMAIN ms : ms[i].name = ms[j].name => i = j

\* However a document is rewritten, it is still accepted when it names every
\* field once and says the same: verifiers canonicalize again, and fields
\* of a later version count (WIRE-NOTES.md M1).
EveryEncodingVerifies ==
    /\ signed # Nothing
    /\ field = signed.kind
    /\ NamedOnce(members)
    /\ \A i \in DOMAIN members : \A j \in DOMAIN Parts(members[i].value) :
           NamedOnce(members[i].value.parts[j])
    /\ Parsed(members) = signed.payload
    => Accepted(signed.kind)

\* RFC 8785, section 3.2.3, in terms of characters: those outside the basic
\* plane come after U+D7FF and before U+E000.
Weight(c) == IF 57343 < c /\ c < 65536 THEN c + 1114112 ELSE c
Precedes(x, y) ==
    \/ Len(x) < Len(y) /\ x = SubSeq(y, 1, Len(x))
    \/ \E i \in DOMAIN x \cap DOMAIN y :
           /\ SubSeq(x, 1, i - 1) = SubSeq(y, 1, i - 1)
           /\ Weight(x[i]) < Weight(y[i])

\* Names are ordered as the standard says, so that other implementations
\* sign the same bytes (lessUTF16, TestJCSKeySortingUTF16).
NamesInOrder ==
    \A k, l \in DOMAIN signed.payload : lessUTF16(k, l) <=> Precedes(k, l)

=============================================================================

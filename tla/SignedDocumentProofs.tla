------------------------- MODULE SignedDocumentProofs -------------------------
(***************************************************************************)
(* What holds of signed documents: of the envelope that manifests and      *)
(* registries travel in (Envelope), and of an agent's watch of the file    *)
(* that its registry is in (RegistryWatch).                                *)
(*                                                                         *)
(* The envelope, for all names, strings, nested values, stray members and  *)
(* edits: the canonical form says exactly what was signed.  Texts are      *)
(* written so that each can be told from whatever follows it (a string     *)
(* ends at the first quote that is no escape, a number at the first code   *)
(* that is no digit); a list of texts that can be told can be told itself, *)
(* from its first element on, and so can an array of objects, hence an     *)
(* object of scalars, of arrays and of objects.  The order of names is     *)
(* linear, so that there is one order, and it is the standard's.  From     *)
(* what a payload says follows what a decoder takes of a document that     *)
(* says the same: identifier and version as signed, and in the map or the  *)
(* slice everything signed, and more only when it is named again.          *)
(*                                                                         *)
(* The watch, for every set of registries and keys and any clock: the      *)
(* Watcher knows a file by its time alone, so the argument is about times. *)
(* Whatever time it has noted is the file's present one or a used one, and *)
(* when it is the present one and not a used one, what was read under it   *)
(* is what the file still says.                                            *)
(***************************************************************************)
EXTENDS RegistryWatch, Envelope, WellFoundedInduction, FiniteSetTheorems,
        SequenceTheorems, TLAPS

-----------------------------------------------------------------------------
(* Induction.  The provers cannot instantiate an induction theorem that    *)
(* takes an operator; they can use that every set of naturals has a least  *)
(* element, and so a set that is closed under the step is all of Nat.      *)

\* The order of the naturals, as the theorem on well-founded relations wants it.
Below == OpToRel(<, Nat)

\* Every set of naturals that is not empty has a least element.
LEMMA LeastNumber ==
  ASSUME NEW T, T \subseteq Nat, T # {}
  PROVE  \E x \in T : \A y \in T : x <= y
<1>1. \A x, y \in Nat : x < y => <<x, y>> \in Below
  <2> SUFFICES ASSUME NEW x \in Nat, NEW y \in Nat, x < y PROVE <<x, y>> \in Below
    OBVIOUS
  <2>1. <<x, y>> \in Nat \X Nat /\ <<x, y>>[1] < <<x, y>>[2]
    OBVIOUS
  <2> QED BY <2>1, Zenon DEF Below, OpToRel
<1>2. IsWellFoundedOn(Below, Nat)
  BY NatLessThanWellFounded, Zenon DEF Below
<1>3. PICK x \in T : \A y \in T : ~(<<y, x>> \in Below)
  BY <1>2, WFMin, Zenon
<1>4. \A y \in T : ~(y < x)
  BY <1>1, <1>3, Zenon
<1> QED BY <1>4

\* A set with 0 and, with each natural, the next has all naturals.
LEMMA SetInduction ==
  ASSUME NEW S, 0 \in S, \A n \in Nat : n \in S => n + 1 \in S
  PROVE  Nat \subseteq S
<1> SUFFICES ASSUME Nat \ S # {} PROVE FALSE
  OBVIOUS
<1>1. PICK x \in Nat \ S : \A y \in Nat \ S : x <= y
  BY LeastNumber
<1>2. x # 0 /\ x - 1 \in Nat /\ x - 1 \in S
  BY <1>1
<1> QED BY <1>1, <1>2

-----------------------------------------------------------------------------
(* Sequences of codes, and what FlattenSeq makes of them.                  *)

\* Texts are sequences of codes.
Codes == Seq(Nat)

\* The empty text, and joining it.
LEMMA EmptyCodes ==
  /\ <<>> \in Codes /\ Len(<<>>) = 0
  /\ \A d \in Codes : <<>> \o d = d /\ d \o <<>> = d /\ Len(d) \in Nat
  BY ConcatEmptySeq DEF Codes

\* Two texts joined are a text.
LEMMA JoinedCodes == ASSUME NEW d \in Codes, NEW e \in Codes PROVE d \o e \in Codes
  BY DEF Codes

\* Joining three texts, it does not matter which two first.
LEMMA JoinedThrice ==
  ASSUME NEW d \in Codes, NEW e \in Codes, NEW f \in Codes
  PROVE  (d \o e) \o f = d \o (e \o f)
  BY ConcatAssociative DEF Codes

\* The concatenations of the first 1, 2, ... n of ss.
Partial(g, ss, n) ==
  /\ g \in [1 .. n -> Codes]
  /\ \A i \in 1 .. n : g[i] = IF i = 1 THEN ss[i] ELSE g[i - 1] \o ss[i]

\* There are such concatenations for every list of texts.
LEMMA PartialExists ==
  ASSUME NEW ss \in Seq(Codes)
  PROVE  \E g : Partial(g, ss, Len(ss))
<1> DEFINE S == {n \in Nat : n <= Len(ss) => \E g : Partial(g, ss, n)}
<1>1. 0 \in S
  <2>1. Partial([i \in 1 .. 0 |-> <<>>], ss, 0)
    BY DEF Partial
  <2> QED BY <2>1
<1>2. ASSUME NEW n \in Nat, n \in S PROVE n + 1 \in S
  <2> SUFFICES ASSUME n + 1 <= Len(ss) PROVE \E g : Partial(g, ss, n + 1)
    OBVIOUS
  <2>1. PICK g : Partial(g, ss, n)
    BY <1>2
  <2> DEFINE last == IF n = 0 THEN ss[1] ELSE g[n] \o ss[n + 1]
             h == [i \in 1 .. n + 1 |-> IF i = n + 1 THEN last ELSE g[i]]
  <2>2. last \in Codes
    <3>1. CASE n = 0
      BY <3>1
    <3>2. CASE n # 0
      <4>1. ss[n + 1] \in Codes /\ g[n] \in Codes
        BY <2>1, <3>2 DEF Partial
      <4> QED BY <3>2, <4>1, JoinedCodes
    <3> QED BY <3>1, <3>2
  <2> HIDE DEF last
  <2>3. h \in [1 .. n + 1 -> Codes]
    BY <2>1, <2>2 DEF Partial
  <2>4. ASSUME NEW i \in 1 .. n + 1
        PROVE  h[i] = IF i = 1 THEN ss[i] ELSE h[i - 1] \o ss[i]
    <3>1. CASE i = n + 1
      BY <2>1, <3>1 DEF Partial, last
    <3>2. CASE i \in 1 .. n
      <4>1. h[i] = g[i] /\ (i # 1 => i - 1 \in 1 .. n + 1 /\ h[i - 1] = g[i - 1])
        BY <3>2
      <4>2. g[i] = IF i = 1 THEN ss[i] ELSE g[i - 1] \o ss[i]
        BY <2>1, <3>2 DEF Partial
      <4> HIDE DEF h
      <4> QED BY <4>1, <4>2
    <3> QED BY <3>1, <3>2
  <2>5. Partial(h, ss, n + 1)
    <3> HIDE DEF h
    <3> QED BY <2>3, <2>4 DEF Partial
  <2> QED BY <2>5
<1> HIDE DEF S
<1>3. Nat \subseteq S
  BY <1>1, <1>2, SetInduction
<1>4. Len(ss) \in S
  BY <1>3
<1> QED BY <1>4 DEF S

\* What FlattenSeq defines recursively is one of these.
LEMMA FlattenIsPartial ==
  ASSUME NEW ss \in Seq(Codes), ss # <<>>, NEW g, Partial(g, ss, Len(ss))
  PROVE  FlattenSeq(ss) = g[Len(ss)]
<1> DEFINE Equation(h) == h = [i \in 1 .. Len(ss) |-> IF i = 1 THEN ss[i] ELSE h[i - 1] \o ss[i]]
<1>1. Equation(g)
  BY DEF Partial
<1>2. ASSUME NEW h, Equation(h) PROVE h = g
  <2> DEFINE S == {n \in Nat : n + 1 \in 1 .. Len(ss) => h[n + 1] = g[n + 1]}
  <2>0. \A i \in 1 .. Len(ss) : /\ h[i] = IF i = 1 THEN ss[i] ELSE h[i - 1] \o ss[i]
                               /\ g[i] = IF i = 1 THEN ss[i] ELSE g[i - 1] \o ss[i]
    BY <1>2, Zenon DEF Partial
  <2>1. 0 \in S
    BY <2>0
  <2>2. ASSUME NEW n \in Nat, n \in S PROVE n + 1 \in S
    <3> SUFFICES ASSUME n + 2 \in 1 .. Len(ss) PROVE h[n + 2] = g[n + 2]
      OBVIOUS
    <3>1. h[n + 1] = g[n + 1] /\ n + 2 # 1 /\ (n + 2) - 1 = n + 1
      BY <2>2
    <3>2. h[n + 2] = h[n + 1] \o ss[n + 2] /\ g[n + 2] = g[n + 1] \o ss[n + 2]
      BY <2>0, <3>1
    <3> QED BY <3>1, <3>2
  <2> HIDE DEF S
  <2>3. Nat \subseteq S
    BY <2>1, <2>2, SetInduction
  <2>4. ASSUME NEW i \in 1 .. Len(ss) PROVE h[i] = g[i]
    <3>1. i - 1 \in S
      BY <2>3
    <3> QED BY <3>1 DEF S
  <2>5. DOMAIN h = 1 .. Len(ss) /\ DOMAIN g = 1 .. Len(ss) /\ h = [i \in DOMAIN h |-> h[i]]
        /\ g = [i \in DOMAIN g |-> g[i]]
    BY <1>2, Zenon DEF Partial
  <2> QED BY <2>4, <2>5
<1>3. (CHOOSE h : Equation(h)) = g
  <2> HIDE DEF Equation
  <2> QED BY <1>1, <1>2
<1>4. Len(ss) # 0
  OBVIOUS
<1> QED BY <1>3, <1>4, Zenon DEF FlattenSeq

\* Of no texts, FlattenSeq makes the empty one.
LEMMA FlattenEmpty == FlattenSeq(<<>>) = <<>>
  BY DEF FlattenSeq

\* Of texts, FlattenSeq makes a text.
LEMMA FlattenIsCodes ==
  ASSUME NEW ss \in Seq(Codes)
  PROVE  FlattenSeq(ss) \in Codes
<1>1. CASE ss = <<>>
  <2> QED BY <1>1, EmptyCodes, FlattenEmpty
<1>2. CASE ss # <<>>
  <2>1. PICK g : Partial(g, ss, Len(ss))
    BY PartialExists
  <2>2. Len(ss) \in 1 .. Len(ss)
    BY <1>2
  <2>3. g[Len(ss)] \in Codes
    BY <2>1, <2>2 DEF Partial
  <2> QED BY <1>2, <2>1, <2>3, FlattenIsPartial
<1> QED BY <1>1, <1>2

\* A text added last to the list is added last to the concatenation.
LEMMA FlattenAppend ==
  ASSUME NEW ss \in Seq(Codes), NEW e \in Codes
  PROVE  FlattenSeq(Append(ss, e)) = FlattenSeq(ss) \o e
<1> DEFINE tt == Append(ss, e)
<1>1. /\ tt \in Seq(Codes) /\ tt # <<>> /\ Len(tt) = Len(ss) + 1
      /\ tt[Len(ss) + 1] = e /\ \A i \in 1 .. Len(ss) : tt[i] = ss[i]
  OBVIOUS
<1> HIDE DEF tt
<1>2. PICK g : Partial(g, tt, Len(ss) + 1)
  BY <1>1, PartialExists
<1>3. FlattenSeq(tt) = g[Len(ss) + 1]
  BY <1>1, <1>2, FlattenIsPartial
<1>4. CASE ss = <<>>
  <2>1. g[Len(ss) + 1] = e
    BY <1>1, <1>2, <1>4 DEF Partial
  <2>2. <<>> \o e = e
    BY EmptyCodes
  <2> QED BY <1>3, <1>4, <2>1, <2>2, FlattenEmpty DEF tt
<1>5. CASE ss # <<>>
  <2> DEFINE n == Len(ss)
  <2>1. n \in Nat \ {0}
    BY <1>5
  <2> HIDE DEF n
  <2> DEFINE h == [i \in 1 .. n |-> g[i]]
  <2>2. Partial(g, tt, n + 1) /\ \A i \in 1 .. n : tt[i] = ss[i]
    BY <1>1, <1>2 DEF n
  <2>3. h \in [1 .. n -> Codes]
    BY <2>1, <2>2 DEF Partial
  <2>4. ASSUME NEW i \in 1 .. n
        PROVE  h[i] = IF i = 1 THEN ss[i] ELSE h[i - 1] \o ss[i]
    <3>0. i \in 1 .. n + 1
      BY <2>1
    <3>1. g[i] = IF i = 1 THEN tt[i] ELSE g[i - 1] \o tt[i]
      BY <2>2, <3>0 DEF Partial
    <3>2. h[i] = g[i] /\ tt[i] = ss[i] /\ (i # 1 => h[i - 1] = g[i - 1])
      BY <2>1, <2>2
    <3> HIDE DEF h
    <3> QED BY <3>1, <3>2
  <2>5. FlattenSeq(ss) = h[n]
    <3> HIDE DEF h
    <3>1. Partial(h, ss, Len(ss))
      BY <2>3, <2>4 DEF Partial, n
    <3> QED BY <1>5, <3>1, FlattenIsPartial DEF n
  <2>6. g[n + 1] = g[n] \o e
    <3>1. n + 1 \in 1 .. n + 1 /\ n + 1 # 1 /\ (n + 1) - 1 = n /\ tt[n + 1] = e
      BY <1>1, <2>1 DEF n
    <3> QED BY <2>2, <3>1 DEF Partial
  <2>7. h[n] = g[n]
    BY <2>1
  <2> HIDE DEF h
  <2> QED BY <1>3, <2>5, <2>6, <2>7 DEF n, tt
<1> QED BY <1>4, <1>5

\* A text put first in the list comes first in the concatenation.
LEMMA FlattenFirst ==
  ASSUME NEW e \in Codes, NEW ss \in Seq(Codes)
  PROVE  FlattenSeq(<<e>> \o ss) = e \o FlattenSeq(ss)
<1> DEFINE S == {n \in Nat : \A tt \in Seq(Codes) :
                   Len(tt) = n => FlattenSeq(<<e>> \o tt) = e \o FlattenSeq(tt)}
<1>1. 0 \in S
  <2> SUFFICES ASSUME NEW tt \in Seq(Codes), Len(tt) = 0
               PROVE  FlattenSeq(<<e>> \o tt) = e \o FlattenSeq(tt)
    OBVIOUS
  <2>1. tt = <<>> /\ <<e>> \o tt = Append(<<>>, e)
    OBVIOUS
  <2>2. FlattenSeq(Append(<<>>, e)) = <<>> \o e
    <3>1. <<>> \in Seq(Codes)
      OBVIOUS
    <3> QED BY <3>1, FlattenAppend, FlattenEmpty
  <2> QED BY <2>1, <2>2, FlattenEmpty, EmptyCodes
<1>2. ASSUME NEW n \in Nat, n \in S PROVE n + 1 \in S
  <2> SUFFICES ASSUME NEW tt \in Seq(Codes), Len(tt) = n + 1
               PROVE  FlattenSeq(<<e>> \o tt) = e \o FlattenSeq(tt)
    OBVIOUS
  <2> DEFINE front == SubSeq(tt, 1, n)
             x == tt[n + 1]
  <2>1. front \in Seq(Codes) /\ Len(front) = n /\ x \in Codes /\ tt = Append(front, x)
    OBVIOUS
  <2>2. FlattenSeq(<<e>> \o front) = e \o FlattenSeq(front)
    BY <1>2, <2>1
  <2>3. <<e>> \o tt = Append(<<e>> \o front, x) /\ <<e>> \o front \in Seq(Codes)
    BY <2>1
  <2>4. FlattenSeq(<<e>> \o tt) = (e \o FlattenSeq(front)) \o x
    BY <2>1, <2>2, <2>3, FlattenAppend
  <2>5. FlattenSeq(tt) = FlattenSeq(front) \o x /\ FlattenSeq(front) \in Codes
    BY <2>1, FlattenAppend, FlattenIsCodes
  <2> HIDE DEF front, x
  <2>6. e \in Codes /\ FlattenSeq(front) \in Codes /\ x \in Codes
    BY <2>1, <2>5
  <2>7. (e \o FlattenSeq(front)) \o x = e \o (FlattenSeq(front) \o x)
    BY <2>6, JoinedThrice
  <2> QED BY <2>4, <2>5, <2>7
<1> HIDE DEF S
<1>3. Nat \subseteq S
  BY <1>1, <1>2, SetInduction
<1>4. Len(ss) \in S
  BY <1>3
<1> QED BY <1>4 DEF S

-----------------------------------------------------------------------------
(* Joining sequences.                                                      *)

\* What is known of a sequence made of two.
LEMMA Joined ==
  ASSUME NEW A, NEW d \in Seq(A), NEW u \in Seq(A)
  PROVE  /\ d \o u \in Seq(A)
         /\ Len(d \o u) = Len(d) + Len(u)
         /\ Len(d) \in Nat /\ Len(u) \in Nat
         /\ \A i \in 1 .. Len(d) : (d \o u)[i] = d[i]
         /\ \A i \in 1 .. Len(u) : (d \o u)[Len(d) + i] = u[i]
  OBVIOUS

\* The same of a sequence that has a name of its own.
LEMMA JoinedAs ==
  ASSUME NEW A, NEW d \in Seq(A), NEW u \in Seq(A), NEW x, x = d \o u, NEW n, n = Len(d)
  PROVE  /\ x \in Seq(A)
         /\ Len(x) = n + Len(u)
         /\ n \in Nat /\ Len(u) \in Nat
         /\ \A i \in 1 .. n : x[i] = d[i]
         /\ \A i \in 1 .. Len(u) : x[n + i] = u[i]
<1>1. \A i \in 1 .. Len(u) : (d \o u)[Len(d) + i] = u[i]
  BY Joined
<1>2. \A i \in 1 .. Len(d) : (d \o u)[i] = d[i]
  BY Joined
<1>3. /\ d \o u \in Seq(A) /\ Len(d \o u) = Len(d) + Len(u)
      /\ Len(d) \in Nat /\ Len(u) \in Nat
  BY Joined
<1> QED BY <1>1, <1>2, <1>3, Zenon

\* The first element of a sequence and the others.
LEMMA FirstAndRest ==
  ASSUME NEW A, NEW s \in Seq(A), s # <<>>
  PROVE  /\ Tail(s) \in Seq(A) /\ Head(s) \in A /\ Head(s) = s[1]
         /\ Len(s) \in Nat \ {0} /\ Len(Tail(s)) = Len(s) - 1
         /\ DOMAIN s = 1 .. Len(s) /\ DOMAIN Tail(s) = 1 .. Len(s) - 1
         /\ \A i \in 1 .. Len(s) - 1 : Tail(s)[i] = s[i + 1]
  OBVIOUS

\* Sequences with the same first element and the same others are the same.
LEMMA SameFirstAndRest ==
  ASSUME NEW A, NEW s \in Seq(A), NEW t \in Seq(A), s # <<>>, t # <<>>,
         Head(s) = Head(t), Tail(s) = Tail(t)
  PROVE  s = t
<1>1. /\ Len(s) \in Nat /\ Len(t) \in Nat /\ Len(s) = Len(t)
  BY FirstAndRest
<1>2. ASSUME NEW i \in 1 .. Len(s) PROVE s[i] = t[i]
  <2>1. CASE i = 1
    BY FirstAndRest, <2>1
  <2>2. CASE i # 1
    <3>1. i - 1 \in 1 .. Len(s) - 1 /\ i - 1 \in 1 .. Len(t) - 1 /\ (i - 1) + 1 = i
      BY <1>1, <2>2
    <3>2. Tail(s)[i - 1] = s[(i - 1) + 1] /\ Tail(t)[i - 1] = t[(i - 1) + 1]
      BY FirstAndRest, <3>1, Zenon
    <3> QED BY <3>1, <3>2
  <2> QED BY <2>1, <2>2
<1> QED BY <1>1, <1>2, SeqEqual, Zenon

\* A sequence given by its length and elements.
LEMMA Listed ==
  ASSUME NEW A, NEW n \in Nat, NEW f \in [1 .. n -> A]
  PROVE  f \in Seq(A) /\ Len(f) = n
  OBVIOUS

\* A sequence that is r with e before it, element for element.
LEMMA PrependedCodes ==
  ASSUME NEW A, NEW e \in A, NEW r \in Seq(A), NEW s \in Seq(A), Len(s) = Len(r) + 1,
         s[1] = e, \A i \in 1 .. Len(r) : s[i + 1] = r[i]
  PROVE  s = <<e>> \o r
<1> DEFINE x == <<e>> \o r
<1>1. /\ <<e>> \in Seq(A) /\ Len(<<e>>) = 1 /\ <<e>>[1] = e
  OBVIOUS
<1>2. /\ x \in Seq(A) /\ Len(x) = 1 + Len(r) /\ Len(r) \in Nat /\ x[1] = e
      /\ \A i \in 1 .. Len(r) : x[1 + i] = r[i]
  <2>1. /\ x \in Seq(A) /\ Len(x) = 1 + Len(r) /\ Len(r) \in Nat
        /\ \A i \in 1 .. 1 : x[i] = <<e>>[i]
        /\ \A i \in 1 .. Len(r) : x[1 + i] = r[i]
    BY <1>1, JoinedAs
  <2> HIDE DEF x
  <2> QED BY <1>1, <2>1
<1> HIDE DEF x
<1>3. ASSUME NEW i \in 1 .. Len(s) PROVE s[i] = x[i]
  <2>1. CASE i = 1
    BY <1>2, <2>1
  <2>2. CASE i # 1
    <3>1. i - 1 \in 1 .. Len(r) /\ (i - 1) + 1 = i /\ 1 + (i - 1) = i
      BY <1>2, <2>2
    <3>2. s[(i - 1) + 1] = r[i - 1] /\ x[1 + (i - 1)] = r[i - 1]
      BY <1>2, <3>1
    <3> QED BY <3>1, <3>2
  <2> QED BY <2>1, <2>2
<1>4. Len(s) = Len(x)
  BY <1>2
<1>5. s = x
  BY <1>2, <1>3, <1>4, SeqEqual, Zenon
<1> QED BY <1>5 DEF x

-----------------------------------------------------------------------------
(* Codes that can be read back.                                            *)

\* The codes of the elements of s, one after the other.
Encoded(c, s) == FlattenSeq([i \in DOMAIN s |-> c[s[i]]])

\* The codes of a sequence of elements, one by one.
LEMMA CodeByCode ==
  ASSUME NEW A, NEW B, NEW c \in [A -> B], NEW s \in Seq(A)
  PROVE  /\ [i \in DOMAIN s |-> c[s[i]]] \in Seq(B)
         /\ Len([i \in DOMAIN s |-> c[s[i]]]) = Len(s)
         /\ \A i \in 1 .. Len(s) : [j \in DOMAIN s |-> c[s[j]]][i] = c[s[i]]
<1> DEFINE f == [i \in DOMAIN s |-> c[s[i]]]
<1>1. /\ Len(s) \in Nat /\ DOMAIN s = 1 .. Len(s) /\ \A i \in 1 .. Len(s) : s[i] \in A
  OBVIOUS
<1>2. f \in [1 .. Len(s) -> B] /\ \A i \in 1 .. Len(s) : f[i] = c[s[i]]
  BY <1>1
<1> HIDE DEF f
<1>3. f \in Seq(B) /\ Len(f) = Len(s)
  BY <1>1, <1>2, Listed
<1> QED BY <1>2, <1>3 DEF f

\* What Encoded is of no elements, and of a first one and others.
LEMMA EncodedSplits ==
  ASSUME NEW A, NEW c \in [A -> Codes], NEW s \in Seq(A)
  PROVE  /\ Encoded(c, s) \in Codes
         /\ s = <<>> => Encoded(c, s) = <<>>
         /\ s # <<>> => Encoded(c, s) = c[Head(s)] \o Encoded(c, Tail(s))
<1> DEFINE coded(x) == [i \in DOMAIN x |-> c[x[i]]]
<1>1. ASSUME NEW x \in Seq(A)
      PROVE  /\ coded(x) \in Seq(Codes) /\ Len(coded(x)) = Len(x)
             /\ \A i \in 1 .. Len(x) : coded(x)[i] = c[x[i]]
  BY CodeByCode
<1>0. \A x : Encoded(c, x) = FlattenSeq(coded(x))
  BY DEF Encoded
<1> HIDE DEF coded
<1>2. Encoded(c, s) \in Codes
  BY <1>0, <1>1, FlattenIsCodes
<1>3. ASSUME s = <<>> PROVE Encoded(c, s) = <<>>
  <2>1. coded(s) \in Seq(Codes) /\ Len(coded(s)) = 0
    <3>1. Len(s) = 0
      BY <1>3
    <3> QED BY <1>1, <3>1
  <2>2. coded(s) = <<>>
    BY <2>1, EmptySeq
  <2> QED BY <1>0, <2>2, FlattenEmpty
<1>4. ASSUME s # <<>> PROVE Encoded(c, s) = c[Head(s)] \o Encoded(c, Tail(s))
  <2>1. /\ Tail(s) \in Seq(A) /\ Head(s) \in A /\ Len(s) \in Nat \ {0} /\ Len(Tail(s)) = Len(s) - 1
        /\ Head(s) = s[1] /\ \A i \in 1 .. Len(s) - 1 : Tail(s)[i] = s[i + 1]
    BY <1>4, FirstAndRest
  <2>2. c[Head(s)] \in Codes
    BY <2>1
  <2> DEFINE all == coded(s)
             rest == coded(Tail(s))
  <2>3. /\ all \in Seq(Codes) /\ Len(all) = Len(s) /\ rest \in Seq(Codes) /\ Len(rest) = Len(s) - 1
        /\ \A i \in 1 .. Len(s) : all[i] = c[s[i]]
        /\ \A i \in 1 .. Len(s) - 1 : rest[i] = c[Tail(s)[i]]
    BY <1>1, <2>1
  <2> HIDE DEF all, rest
  <2>4. /\ Len(all) = Len(rest) + 1 /\ all[1] = c[Head(s)]
        /\ \A i \in 1 .. Len(rest) : all[i + 1] = rest[i]
    BY <2>1, <2>3
  <2>5. all = <<c[Head(s)]>> \o rest
    BY <2>2, <2>3, <2>4, PrependedCodes
  <2>6. FlattenSeq(all) = c[Head(s)] \o FlattenSeq(rest)
    BY <2>2, <2>3, <2>5, FlattenFirst
  <2> QED BY <1>0, <2>6 DEF all, rest
<1> QED BY <1>2, <1>3, <1>4

\* Two joined texts that are the same, with first parts of one length, have the same parts.
LEMMA SameCodes ==
  ASSUME NEW d \in Codes, NEW e \in Codes, NEW u \in Codes, NEW v \in Codes,
         d \o u = e \o v, Len(d) = Len(e)
  PROVE  d = e /\ u = v
<1>1. d \in Seq(Nat) /\ e \in Seq(Nat) /\ u \in Seq(Nat) /\ v \in Seq(Nat)
  BY DEF Codes
<1>2. /\ Len(d \o u) = Len(d) + Len(u) /\ Len(d) \in Nat /\ Len(u) \in Nat
      /\ \A i \in 1 .. Len(d) : (d \o u)[i] = d[i]
      /\ \A i \in 1 .. Len(u) : (d \o u)[Len(d) + i] = u[i]
  BY ONLY <1>1, Joined
<1>3. /\ Len(e \o v) = Len(e) + Len(v) /\ Len(v) \in Nat
      /\ \A i \in 1 .. Len(e) : (e \o v)[i] = e[i]
      /\ \A i \in 1 .. Len(v) : (e \o v)[Len(e) + i] = v[i]
  BY <1>1, Joined
<1> DEFINE z == d \o u
           m == Len(d)
<1>4. /\ Len(z) = m + Len(u) /\ m \in Nat /\ Len(u) \in Nat
      /\ \A i \in 1 .. m : z[i] = d[i]
      /\ \A i \in 1 .. Len(u) : z[m + i] = u[i]
  BY <1>2, Zenon
<1>5. /\ Len(z) = m + Len(v) /\ Len(v) \in Nat
      /\ \A i \in 1 .. m : z[i] = e[i]
      /\ \A i \in 1 .. Len(v) : z[m + i] = v[i]
  BY <1>3, Zenon
<1>6. m = Len(d) /\ m = Len(e)
  OBVIOUS
<1> HIDE DEF z, m
<1>7. /\ Len(u) = Len(v)
      /\ \A i \in 1 .. m : d[i] = e[i]
      /\ \A i \in 1 .. Len(u) : u[i] = v[i]
  BY <1>4, <1>5
<1>8. d = e
  BY <1>1, <1>6, <1>7, SeqEqual, Zenon
<1>9. u = v
  BY <1>1, <1>7, SeqEqual, Zenon
<1> QED BY <1>8, <1>9

\* A name for concatenation, which the provers would expand.
Cat(d, e) == d \o e

\* All that is used of concatenation.
LEMMA CatFacts ==
  /\ <<>> \in Codes
  /\ \A d \in Codes : Cat(<<>>, d) = d /\ Cat(d, <<>>) = d
  /\ \A d, e \in Codes : Cat(d, e) \in Codes
  /\ \A d, e, f \in Codes : Cat(Cat(d, e), f) = Cat(d, Cat(e, f))
<1>1. ASSUME NEW d \in Codes, NEW e \in Codes PROVE Cat(d, e) \in Codes
  BY JoinedCodes DEF Cat
<1>2. ASSUME NEW d \in Codes, NEW e \in Codes, NEW f \in Codes
      PROVE  Cat(Cat(d, e), f) = Cat(d, Cat(e, f))
  BY JoinedThrice DEF Cat
<1>3. /\ <<>> \in Codes
      /\ \A d \in Codes : Cat(<<>>, d) = d /\ Cat(d, <<>>) = d
  BY EmptyCodes DEF Cat
<1> QED BY <1>1, <1>2, <1>3

\* SameCodes for the name.
LEMMA CatCancels ==
  \A d, e, u, v \in Codes : Cat(d, u) = Cat(e, v) /\ Len(d) = Len(e) => d = e /\ u = v
<1> SUFFICES ASSUME NEW d \in Codes, NEW e \in Codes, NEW u \in Codes, NEW v \in Codes,
                    d \o u = e \o v, Len(d) = Len(e)
             PROVE  d = e /\ u = v
  BY DEF Cat
<1> QED BY SameCodes, Zenon

\* Of three texts, it does not matter which two are joined first.
LEMMA CatAssociative == \A d, e, f \in Codes : Cat(Cat(d, e), f) = Cat(d, Cat(e, f))
  BY CatFacts

\* The empty text adds nothing.
LEMMA CatEmpty == <<>> \in Codes /\ \A d \in Codes : Cat(<<>>, d) = d /\ Cat(d, <<>>) = d
  BY CatFacts

\* Two texts make a text.
LEMMA CatIsCodes == \A d, e \in Codes : Cat(d, e) \in Codes
  BY CatFacts

\* What is the same after the same beginning is the same.
LEMMA SameAfter == \A d, u, v \in Codes : Cat(d, u) = Cat(d, v) => u = v
<1> SUFFICES ASSUME NEW d \in Codes, NEW u \in Codes, NEW v \in Codes, Cat(d, u) = Cat(d, v)
             PROVE  u = v
  OBVIOUS
<1>1. Len(d) = Len(d)
  OBVIOUS
<1> QED BY <1>1, CatCancels

\* EncodedSplits for the name, for all sequences.
LEMMA EncodedParts ==
  ASSUME NEW A, NEW c \in [A -> Codes]
  PROVE  /\ \A s \in Seq(A) : Encoded(c, s) \in Codes
         /\ Encoded(c, <<>>) = <<>>
         /\ \A s \in Seq(A) : s # <<>> =>
               Encoded(c, s) = Cat(c[Head(s)], Encoded(c, Tail(s)))
<1>1. <<>> \in Seq(A)
  OBVIOUS
<1>2. ASSUME NEW s \in Seq(A), s # <<>>
      PROVE  Encoded(c, s) = Cat(c[Head(s)], Encoded(c, Tail(s)))
  BY <1>2, EncodedSplits DEF Cat
<1> QED BY <1>1, <1>2, EncodedSplits

\* If the first element can be read off the codes, whatever follows, and
\* told from the end, then all elements can be, one after the other.
Readable(A, c, stop, W) ==
  /\ c \in [A -> Codes] /\ stop \in Codes /\ W \subseteq Codes
  /\ \A u \in Codes : Cat(stop, u) \in W
  /\ \A a \in A : \A u \in W : Cat(c[a], u) \in W
  /\ \A a \in A, b \in A : \A u, v \in W : Cat(c[a], u) = Cat(c[b], v) => a = b
  /\ \A a \in A : \A u \in W, v \in Codes : Cat(c[a], u) # Cat(stop, v)

\* When all elements can be read, a text is the code of one sequence only,
\* and what follows the stop is determined too.
LEMMA UniqueDecoding ==
  ASSUME NEW A, NEW c, NEW stop, NEW W, Readable(A, c, stop, W),
         NEW s \in Seq(A), NEW t \in Seq(A), NEW p \in Codes, NEW q \in Codes,
         Cat(Encoded(c, s), Cat(stop, p)) = Cat(Encoded(c, t), Cat(stop, q))
  PROVE  s = t /\ p = q
<1>0. /\ c \in [A -> Codes] /\ stop \in Codes /\ W \subseteq Codes
      /\ \A u \in Codes : Cat(stop, u) \in W
      /\ \A a \in A : \A u \in W : Cat(c[a], u) \in W
      /\ \A a \in A, b \in A : \A u, v \in W : Cat(c[a], u) = Cat(c[b], v) => a = b
      /\ \A a \in A : \A u \in W, v \in Codes : Cat(c[a], u) # Cat(stop, v)
  BY DEF Readable
<1> DEFINE Ends(x, r) == Cat(Encoded(c, x), Cat(stop, r))
           S == {n \in Nat : \A x, y \in Seq(A) :
                   Len(x) = n /\ Ends(x, p) = Ends(y, q) => x = y /\ p = q}
<1>1. \A r \in Codes : Cat(stop, r) \in W /\ Cat(stop, r) \in Codes
  BY <1>0, CatIsCodes
<1>2. ASSUME NEW r \in Codes PROVE Ends(<<>>, r) = Cat(stop, r)
  <2>1. Encoded(c, <<>>) = <<>>
    BY <1>0, EncodedParts
  <2> QED BY <1>1, <2>1, CatEmpty
<1>3. ASSUME NEW x \in Seq(A), x # <<>>, NEW r \in Codes
      PROVE  /\ Head(x) \in A /\ Tail(x) \in Seq(A)
             /\ Ends(x, r) = Cat(c[Head(x)], Ends(Tail(x), r))
  <2>1. Head(x) \in A /\ Tail(x) \in Seq(A)
    BY <1>3, FirstAndRest
  <2>2. c[Head(x)] \in Codes /\ Encoded(c, Tail(x)) \in Codes
    BY <1>0, <2>1, EncodedParts
  <2>3. Encoded(c, x) = Cat(c[Head(x)], Encoded(c, Tail(x)))
    BY <1>0, <1>3, EncodedParts
  <2>4. Cat(Cat(c[Head(x)], Encoded(c, Tail(x))), Cat(stop, r))
          = Cat(c[Head(x)], Cat(Encoded(c, Tail(x)), Cat(stop, r)))
    <3>1. Cat(stop, r) \in Codes
      BY <1>1
    <3> QED BY ONLY <2>2, <3>1, CatAssociative
  <2> QED BY <2>1, <2>3, <2>4
<1> HIDE DEF Ends
<1>4. ASSUME NEW r \in Codes PROVE \A x \in Seq(A) : Ends(x, r) \in W
  <2> DEFINE T == {n \in Nat : \A x \in Seq(A) : Len(x) = n => Ends(x, r) \in W}
  <2>1. 0 \in T
    <3> SUFFICES ASSUME NEW x \in Seq(A), Len(x) = 0 PROVE Ends(x, r) \in W
      OBVIOUS
    <3>1. x = <<>>
      BY EmptySeq
    <3> QED BY <1>1, <1>2, <3>1
  <2>2. ASSUME NEW n \in Nat, n \in T PROVE n + 1 \in T
    <3> SUFFICES ASSUME NEW x \in Seq(A), Len(x) = n + 1 PROVE Ends(x, r) \in W
      OBVIOUS
    <3>1. x # <<>> /\ Len(Tail(x)) = n
      OBVIOUS
    <3>2. Ends(x, r) = Cat(c[Head(x)], Ends(Tail(x), r)) /\ Head(x) \in A /\ Tail(x) \in Seq(A)
      BY <1>3, <3>1
    <3>3. Ends(Tail(x), r) \in W
      BY <2>2, <3>1, <3>2
    <3> QED BY <1>0, <3>2, <3>3
  <2> HIDE DEF T
  <2>3. Nat \subseteq T
    BY <2>1, <2>2, SetInduction
  <2>4. ASSUME NEW x \in Seq(A) PROVE Ends(x, r) \in W
    <3>1. Len(x) \in T
      BY <2>3
    <3> QED BY <3>1 DEF T
  <2> QED BY <2>4
<1>5. 0 \in S
  <2> SUFFICES ASSUME NEW x \in Seq(A), NEW y \in Seq(A), Len(x) = 0, Ends(x, p) = Ends(y, q)
               PROVE  x = y /\ p = q
    OBVIOUS
  <2>1. x = <<>> /\ Ends(x, p) = Cat(stop, p)
    BY <1>2, EmptySeq
  <2>2. y = <<>>
    <3> SUFFICES ASSUME y # <<>> PROVE FALSE
      OBVIOUS
    <3>1. /\ Head(y) \in A /\ Tail(y) \in Seq(A) /\ Ends(Tail(y), q) \in W
          /\ Cat(c[Head(y)], Ends(Tail(y), q)) = Cat(stop, p)
      BY <1>3, <1>4, <2>1
    <3> QED BY <1>0, <3>1
  <2>3. Cat(stop, p) = Cat(stop, q)
    BY <1>2, <2>1, <2>2
  <2>4. p = q
    BY <1>0, <2>3, SameAfter
  <2> QED BY <2>1, <2>2, <2>4
<1>6. ASSUME NEW n \in Nat, n \in S PROVE n + 1 \in S
  <2> SUFFICES ASSUME NEW x \in Seq(A), NEW y \in Seq(A), Len(x) = n + 1,
                      Ends(x, p) = Ends(y, q)
               PROVE  x = y /\ p = q
    OBVIOUS
  <2>1. x # <<>> /\ Len(Tail(x)) = n
    OBVIOUS
  <2>2. /\ Head(x) \in A /\ Tail(x) \in Seq(A) /\ Ends(Tail(x), p) \in W
        /\ Ends(x, p) = Cat(c[Head(x)], Ends(Tail(x), p))
    BY <1>3, <1>4, <2>1
  <2>3. y # <<>>
    <3> SUFFICES ASSUME y = <<>> PROVE FALSE
      OBVIOUS
    <3>1. Ends(y, q) = Cat(stop, q)
      BY <1>2
    <3> QED BY <1>0, <2>2, <3>1
  <2>4. /\ Head(y) \in A /\ Tail(y) \in Seq(A) /\ Ends(Tail(y), q) \in W
        /\ Ends(y, q) = Cat(c[Head(y)], Ends(Tail(y), q))
    BY <1>3, <1>4, <2>3
  <2> DEFINE u == Ends(Tail(x), p)
             v == Ends(Tail(y), q)
             g == Head(x)
             h == Head(y)
  <2>4a. g \in A /\ h \in A /\ u \in W /\ v \in W /\ Cat(c[g], u) = Cat(c[h], v)
    BY <2>2, <2>4
  <2> HIDE DEF u, v, g, h
  <2>5. g = h
    BY <1>0, <2>4a
  <2>6. u = v
    <3>1. c[g] \in Codes /\ u \in Codes /\ v \in Codes /\ Cat(c[g], u) = Cat(c[g], v)
      BY <1>0, <2>5, <2>4a
    <3> QED BY <3>1, SameAfter
  <2>7. Tail(x) = Tail(y) /\ p = q
    BY <1>6, <2>1, <2>2, <2>4, <2>6 DEF u, v
  <2>8. x = y
    BY <2>1, <2>3, <2>5, <2>7, SameFirstAndRest DEF g, h
  <2> QED BY <2>7, <2>8
<1> HIDE DEF S
<1>7. Nat \subseteq S
  BY <1>5, <1>6, SetInduction
<1>8. Len(s) \in S
  BY <1>7
<1> QED BY <1>8 DEF S, Ends

-----------------------------------------------------------------------------
(* How strings are written.                                                *)

\* The codes of a concatenation, by position.
LEMMA CatAt ==
  ASSUME NEW d \in Codes, NEW u \in Codes
  PROVE  /\ Len(Cat(d, u)) = Len(d) + Len(u) /\ Len(d) \in Nat /\ Len(u) \in Nat
         /\ \A i \in 1 .. Len(d) : Cat(d, u)[i] = d[i]
         /\ \A i \in 1 .. Len(u) : Cat(d, u)[Len(d) + i] = u[i]
<1>1. d \in Seq(Nat) /\ u \in Seq(Nat)
  BY DEF Codes
<1>2. /\ Len(d \o u) = Len(d) + Len(u)
      /\ Len(d) \in Nat /\ Len(u) \in Nat
      /\ \A i \in 1 .. Len(d) : (d \o u)[i] = d[i]
      /\ \A i \in 1 .. Len(u) : (d \o u)[Len(d) + i] = u[i]
  BY <1>1, Joined
<1> QED BY <1>2, Zenon DEF Cat

\* A list of one code.
LEMMA OneCode ==
  ASSUME NEW n \in Nat
  PROVE  <<n>> \in Codes /\ Len(<<n>>) = 1 /\ <<n>>[1] = n
  BY DEF Codes

\* The characters with an escape of two, and what it ends with.
LEMMA ShortRange ==
  /\ DOMAIN Short = {34, 92, 8, 12, 10, 13, 9}
  /\ Short[34] = 34 /\ Short[92] = 92 /\ Short[8] = 98 /\ Short[12] = 102
  /\ Short[10] = 110 /\ Short[13] = 114 /\ Short[9] = 116
  BY DEF Short

\* The three forms of an escaped character.
Plain(c) == c >= 32 /\ c # 34 /\ c # 92
\* A control character without a short escape.
Control(c) == c < 32 /\ c \notin {8, 12, 10, 13, 9}

\* What Escape makes of each of the three kinds of character.
LEMMA EscapeForms ==
  ASSUME NEW c \in Nat
  PROVE  LET e == Escape(c)
         IN  /\ e \in Codes
             /\ c \in {34, 92, 8, 12, 10, 13, 9} =>
                  Len(e) = 2 /\ e[1] = 92 /\ e[2] = Short[c]
             /\ Control(c) =>
                  /\ Len(e) = 6 /\ e[1] = 92 /\ e[2] = 117
                  /\ e[5] = HexDigit(c \div 16) /\ e[6] = HexDigit(c % 16)
             /\ Plain(c) => Len(e) = 1 /\ e[1] = c
<1> DEFINE e == Escape(c)
<1>1. ASSUME c \in {34, 92, 8, 12, 10, 13, 9}
      PROVE  e \in Codes /\ Len(e) = 2 /\ e[1] = 92 /\ e[2] = Short[c]
  <2>1. e = <<92, Short[c]>>
    BY <1>1, ShortRange DEF Escape
  <2>2. Short[c] \in Nat
    BY <1>1, ShortRange
  <2> HIDE DEF e
  <2> QED BY <2>1, <2>2 DEF Codes
<1>2. ASSUME Control(c)
      PROVE  /\ e \in Codes /\ Len(e) = 6 /\ e[1] = 92 /\ e[2] = 117
             /\ e[5] = HexDigit(c \div 16) /\ e[6] = HexDigit(c % 16)
  <2>1. e = <<92, 117, 48, 48, HexDigit(c \div 16), HexDigit(c % 16)>>
    BY <1>2, ShortRange DEF Escape, Control
  <2>2. HexDigit(c \div 16) \in Nat /\ HexDigit(c % 16) \in Nat
    BY <1>2 DEF HexDigit, Control
  <2> HIDE DEF e
  <2> QED BY <2>1, <2>2 DEF Codes
<1>3. ASSUME Plain(c) PROVE e \in Codes /\ Len(e) = 1 /\ e[1] = c
  <2>1. e = <<c>>
    BY <1>3, ShortRange DEF Escape, Plain
  <2> HIDE DEF e
  <2> QED BY <2>1 DEF Codes
<1>4. c \in {34, 92, 8, 12, 10, 13, 9} \/ Control(c) \/ Plain(c)
  BY DEF Control, Plain
<1> QED BY <1>1, <1>2, <1>3, <1>4

\* Two digits of a control character determine it.
LEMMA HexDigitOnce ==
  ASSUME NEW c \in 0 .. 31, NEW d \in 0 .. 31,
         HexDigit(c \div 16) = HexDigit(d \div 16), HexDigit(c % 16) = HexDigit(d % 16)
  PROVE  c = d
<1>1. /\ c \div 16 \in 0 .. 1 /\ d \div 16 \in 0 .. 1 /\ c % 16 \in 0 .. 15 /\ d % 16 \in 0 .. 15
      /\ c = 16 * (c \div 16) + (c % 16) /\ d = 16 * (d \div 16) + (d % 16)
  OBVIOUS
<1>2. \A m, n \in 0 .. 15 : HexDigit(m) = HexDigit(n) => m = n
  BY DEF HexDigit
<1>3. c \div 16 = d \div 16 /\ c % 16 = d % 16
  <2>1. c \div 16 \in 0 .. 15 /\ d \div 16 \in 0 .. 15
    BY <1>1
  <2> QED BY <1>1, <1>2, <2>1
<1> QED BY <1>1, <1>3

\* An escaped character can be told from what follows, and from a quote.
LEMMA EscapeDecodes ==
  ASSUME NEW c \in Nat, NEW d \in Nat, NEW u \in Codes, NEW v \in Codes
  PROVE  /\ Cat(Escape(c), u) = Cat(Escape(d), v) => c = d
         /\ Cat(Escape(c), u) # Cat(<<34>>, v)
<1> DEFINE e == Escape(c)
           f == Escape(d)
           S == {34, 92, 8, 12, 10, 13, 9}
<1>1. /\ e \in Codes
      /\ c \in S => Len(e) = 2 /\ e[1] = 92 /\ e[2] = Short[c]
      /\ Control(c) => /\ Len(e) = 6 /\ e[1] = 92 /\ e[2] = 117
                       /\ e[5] = HexDigit(c \div 16) /\ e[6] = HexDigit(c % 16)
      /\ Plain(c) => Len(e) = 1 /\ e[1] = c
  BY EscapeForms
<1>2. /\ f \in Codes
      /\ d \in S => Len(f) = 2 /\ f[1] = 92 /\ f[2] = Short[d]
      /\ Control(d) => /\ Len(f) = 6 /\ f[1] = 92 /\ f[2] = 117
                       /\ f[5] = HexDigit(d \div 16) /\ f[6] = HexDigit(d % 16)
      /\ Plain(d) => Len(f) = 1 /\ f[1] = d
  BY EscapeForms
<1> HIDE DEF e, f
<1>3. /\ c \in S \/ Control(c) \/ Plain(c)
      /\ d \in S \/ Control(d) \/ Plain(d)
  BY DEF Control, Plain
<1>4. ASSUME NEW g \in Codes, Len(g) \in {1, 2, 6}, NEW w \in Codes
      PROVE  /\ Cat(g, w)[1] = g[1]
             /\ Len(g) # 1 => Cat(g, w)[2] = g[2]
             /\ Len(g) = 6 => Cat(g, w)[5] = g[5] /\ Cat(g, w)[6] = g[6]
  <2>1. 1 \in 1 .. Len(g) /\ (Len(g) # 1 => 2 \in 1 .. Len(g))
        /\ (Len(g) = 6 => 5 \in 1 .. Len(g) /\ 6 \in 1 .. Len(g))
    <3>1. \A n \in {1, 2, 6} : /\ 1 \in 1 .. n /\ (n # 1 => 2 \in 1 .. n)
                              /\ (n = 6 => 5 \in 1 .. n /\ 6 \in 1 .. n)
      OBVIOUS
    <3> QED BY <1>4, <3>1, Zenon
  <2> QED BY <2>1, CatAt
<1>5. Len(e) \in {1, 2, 6} /\ Len(f) \in {1, 2, 6}
  BY <1>1, <1>2, <1>3
<1>6. ASSUME Cat(e, u) = Cat(f, v) PROVE c = d
  <2>1. /\ e[1] = f[1] /\ (Len(e) # 1 /\ Len(f) # 1 => e[2] = f[2])
        /\ (Len(e) = 6 /\ Len(f) = 6 => e[5] = f[5] /\ e[6] = f[6])
    BY <1>1, <1>2, <1>4, <1>5, <1>6
  <2>2. CASE Plain(c)
    BY <1>1, <1>2, <1>3, <2>1, <2>2 DEF Plain
  <2>3. CASE Plain(d)
    BY <1>1, <1>2, <1>3, <2>1, <2>3 DEF Plain
  <2>4. CASE c \in S /\ d \in S
    <3>1. Short[c] = Short[d]
      BY <1>1, <1>2, <2>1, <2>4
    <3> QED BY <2>4, <3>1, ShortRange
  <2>5. CASE c \in S /\ Control(d)
    <3>1. Short[c] = 117
      BY <1>1, <1>2, <2>1, <2>5
    <3> QED BY <2>5, <3>1, ShortRange
  <2>6. CASE Control(c) /\ d \in S
    <3>1. Short[d] = 117
      BY <1>1, <1>2, <2>1, <2>6
    <3> QED BY <2>6, <3>1, ShortRange
  <2>7. CASE Control(c) /\ Control(d)
    <3>1. HexDigit(c \div 16) = HexDigit(d \div 16) /\ HexDigit(c % 16) = HexDigit(d % 16)
      BY <1>1, <1>2, <2>1, <2>7
    <3>2. c \in 0 .. 31 /\ d \in 0 .. 31
      BY <2>7 DEF Control
    <3> QED BY <3>1, <3>2, HexDigitOnce
  <2> QED BY <1>3, <2>2, <2>3, <2>4, <2>5, <2>6, <2>7
<1>7. Cat(e, u) # Cat(<<34>>, v)
  <2>1. Cat(<<34>>, v)[1] = 34
    <3>1. <<34>> \in Codes /\ Len(<<34>>) = 1 /\ <<34>>[1] = 34
      BY OneCode
    <3> QED BY <1>4, <3>1
  <2>2. Cat(e, u)[1] = e[1]
    BY <1>1, <1>4, <1>5
  <2>3. e[1] # 34
    BY <1>1, <1>3 DEF Plain
  <2> QED BY <2>1, <2>2, <2>3
<1> QED BY <1>6, <1>7 DEF e, f

\* Escape as a function of the characters.
EscapeCode == [c \in Char |-> Escape(c)]

\* A character is a code.
LEMMA CharIsCode == Char \subseteq Nat
  BY DEF Char

\* An escaped character is a text.
LEMMA EscapeCodeType == EscapeCode \in [Char -> Codes] /\ \A c \in Char : EscapeCode[c] = Escape(c)
<1>1. \A c \in Char : Escape(c) \in Codes
  BY EscapeForms, CharIsCode
<1> QED BY <1>1 DEF EscapeCode

\* A quoted string is the codes of its characters between quotes.
LEMMA QuotedForm ==
  ASSUME NEW x \in Seq(Char)
  PROVE  /\ Quoted(x) = Cat(<<34>>, Cat(Encoded(EscapeCode, x), <<34>>))
         /\ Quoted(x) \in Codes
<1>1. [i \in DOMAIN x |-> Escape(x[i])] = [i \in DOMAIN x |-> EscapeCode[x[i]]]
  <2>1. \A i \in DOMAIN x : x[i] \in Char
    OBVIOUS
  <2> QED BY <2>1, EscapeCodeType
<1>2. /\ Encoded(EscapeCode, x) \in Codes /\ <<34>> \in Codes
  BY EscapeCodeType, EncodedParts, OneCode
<1>3. Quoted(x) = Cat(Cat(<<34>>, Encoded(EscapeCode, x)), <<34>>)
  BY <1>1, Zenon DEF Quoted, Encoded, Cat
<1>4. Cat(<<34>>, Cat(Encoded(EscapeCode, x), <<34>>)) \in Codes
  BY <1>2, CatIsCodes
<1> QED BY <1>2, <1>3, <1>4, CatAssociative

\* A quoted string can be told from what follows it.
LEMMA QuotedDecodes ==
  ASSUME NEW x \in Seq(Char), NEW y \in Seq(Char), NEW u \in Codes, NEW v \in Codes,
         Cat(Quoted(x), u) = Cat(Quoted(y), v)
  PROVE  x = y /\ u = v
<1> DEFINE q == <<34>>
           E(z) == Encoded(EscapeCode, z)
<1>1. q \in Codes
  BY OneCode
<1> HIDE DEF q
<1>2. ASSUME NEW z \in Seq(Char), NEW w \in Codes
      PROVE  /\ E(z) \in Codes /\ Cat(q, w) \in Codes
             /\ Cat(Quoted(z), w) = Cat(q, Cat(E(z), Cat(q, w)))
  <2>1. E(z) \in Codes /\ Cat(q, w) \in Codes /\ Cat(E(z), q) \in Codes
    BY <1>1, EscapeCodeType, EncodedParts, CatIsCodes
  <2>2. Quoted(z) = Cat(q, Cat(E(z), q))
    BY QuotedForm DEF q
  <2> HIDE DEF E
  <2>3. Cat(Cat(q, Cat(E(z), q)), w) = Cat(q, Cat(Cat(E(z), q), w))
    BY <1>1, <2>1, CatAssociative
  <2>4. Cat(Cat(E(z), q), w) = Cat(E(z), Cat(q, w))
    BY <1>1, <2>1, CatAssociative
  <2> QED BY <2>1, <2>2, <2>3, <2>4
<1>3. Cat(E(x), Cat(q, u)) = Cat(E(y), Cat(q, v))
  <2>1. Cat(q, Cat(E(x), Cat(q, u))) = Cat(q, Cat(E(y), Cat(q, v)))
    BY <1>2
  <2>2. Cat(E(x), Cat(q, u)) \in Codes /\ Cat(E(y), Cat(q, v)) \in Codes
    BY <1>2, CatIsCodes
  <2> HIDE DEF E
  <2> QED BY <1>1, <2>1, <2>2, SameAfter
<1>4. /\ \A w \in Codes : Cat(q, w) \in Codes
      /\ \A a \in Char : \A w \in Codes : Cat(EscapeCode[a], w) \in Codes
  BY <1>1, EscapeCodeType, CatIsCodes
<1>5. ASSUME NEW a \in Char, NEW b \in Char, NEW w \in Codes, NEW z \in Codes
      PROVE  /\ Cat(EscapeCode[a], w) = Cat(EscapeCode[b], z) => a = b
             /\ Cat(EscapeCode[a], w) # Cat(q, z)
  <2>1. a \in Nat /\ b \in Nat /\ EscapeCode[a] = Escape(a) /\ EscapeCode[b] = Escape(b)
    BY EscapeCodeType, CharIsCode
  <2> QED BY <2>1, EscapeDecodes DEF q
<1>6. EscapeCode \in [Char -> Codes]
  BY EscapeCodeType
<1>7. Codes \in SUBSET Codes
  OBVIOUS
<1>8. /\ \A a \in Char, b \in Char : \A w, z \in Codes :
            Cat(EscapeCode[a], w) = Cat(EscapeCode[b], z) => a = b
      /\ \A a \in Char : \A w \in Codes, z \in Codes : Cat(EscapeCode[a], w) # Cat(q, z)
  BY <1>5
<1>9. Readable(Char, EscapeCode, q, Codes)
  BY <1>1, <1>4, <1>6, <1>8 DEF Readable
<1> QED BY <1>3, <1>9, UniqueDecoding

-----------------------------------------------------------------------------
(* Numbers *)

\* The first n + 1 values of Decimal.
Decimals(g, n) ==
  /\ g \in [0 .. n -> Codes]
  /\ \A i \in 0 .. n : g[i] = IF i < 10 THEN <<48 + i>> ELSE Append(g[i \div 10], 48 + (i % 10))

\* Two tables of decimals agree where both are defined.
LEMMA DecimalsAgree ==
  ASSUME NEW m \in Nat, NEW n \in Nat, NEW g, Decimals(g, m), NEW h, Decimals(h, n),
         NEW k \in Nat, k <= m, k <= n
  PROVE  g[k] = h[k]
<1> DEFINE T == {i \in Nat : i <= m /\ i <= n /\ g[i] # h[i]}
<1> SUFFICES ASSUME T # {} PROVE FALSE
  OBVIOUS
<1>1. PICK i \in T : \A j \in T : i <= j
  <2>1. T \subseteq Nat
    OBVIOUS
  <2> HIDE DEF T
  <2> QED BY <2>1, LeastNumber
<1>2. i \in 0 .. m /\ i \in 0 .. n /\ g[i] # h[i]
  OBVIOUS
<1>3. CASE i < 10
  BY <1>2, <1>3 DEF Decimals
<1>4. CASE ~(i < 10)
  <2>1. i \div 10 \in Nat /\ i \div 10 < i
    BY <1>2, <1>4
  <2>2. i \div 10 \notin T
    BY <1>1, <1>2, <2>1
  <2>3. g[i \div 10] = h[i \div 10]
    BY <1>2, <2>1, <2>2
  <2> QED BY <1>2, <1>4, <2>3 DEF Decimals
<1> QED BY <1>3, <1>4

\* There is a table of decimals up to every number.
LEMMA DecimalsExist == \A n \in Nat : \E g : Decimals(g, n)
<1> DEFINE S == {n \in Nat : \E g : Decimals(g, n)}
<1>1. 0 \in S
  <2>1. <<48>> \in Codes
    BY OneCode
  <2>2. Decimals([i \in 0 .. 0 |-> <<48>>], 0)
    BY <2>1 DEF Decimals
  <2> QED BY <2>2
<1>2. ASSUME NEW n \in Nat, n \in S PROVE n + 1 \in S
  <2>1. PICK g : Decimals(g, n)
    BY <1>2
  <2> DEFINE last == IF n + 1 < 10 THEN <<48 + (n + 1)>>
                     ELSE Append(g[(n + 1) \div 10], 48 + ((n + 1) % 10))
             h == [i \in 0 .. n + 1 |-> IF i = n + 1 THEN last ELSE g[i]]
  <2>2. last \in Codes
    <3>1. CASE n + 1 < 10
      BY <3>1, OneCode
    <3>2. CASE ~(n + 1 < 10)
      <4>1. (n + 1) \div 10 \in 0 .. n
        BY <3>2
      <4>2. g[(n + 1) \div 10] \in Codes
        BY <2>1, <4>1 DEF Decimals
      <4>3. 48 + ((n + 1) % 10) \in Nat
        OBVIOUS
      <4> DEFINE d == g[(n + 1) \div 10]
                 x == 48 + ((n + 1) % 10)
      <4>4. Append(d, x) \in Codes
        <5> HIDE DEF d, x
        <5> QED BY <4>2, <4>3 DEF Codes, d, x
      <4> QED BY <3>2, <4>4
    <3> QED BY <3>1, <3>2
  <2> HIDE DEF last
  <2>3. h \in [0 .. n + 1 -> Codes]
    BY <2>1, <2>2 DEF Decimals
  <2>4. ASSUME NEW i \in 0 .. n + 1
        PROVE  h[i] = IF i < 10 THEN <<48 + i>> ELSE Append(h[i \div 10], 48 + (i % 10))
    <3>1. i < 10 \/ (i \div 10 \in 0 .. n /\ i \div 10 # n + 1)
      OBVIOUS
    <3>2. i < 10 \/ h[i \div 10] = g[i \div 10]
      BY <3>1
    <3>3. CASE i = n + 1
      BY <3>2, <3>3 DEF last
    <3>4. CASE i \in 0 .. n
      <4>1. h[i] = g[i]
        BY <3>4
      <4>2. g[i] = IF i < 10 THEN <<48 + i>> ELSE Append(g[i \div 10], 48 + (i % 10))
        BY <2>1, <3>4 DEF Decimals
      <4> HIDE DEF h
      <4> QED BY <3>2, <4>1, <4>2
    <3> QED BY <3>3, <3>4
  <2>5. Decimals(h, n + 1)
    <3> HIDE DEF h
    <3> QED BY <2>3, <2>4 DEF Decimals
  <2> QED BY <2>5
<1> HIDE DEF S
<1>3. Nat \subseteq S
  BY <1>1, <1>2, SetInduction
<1> QED BY <1>3 DEF S

\* Decimal is what its definition says.
LEMMA DecimalDefined ==
  \A n \in Nat : /\ Decimal[n] \in Codes
                 /\ Decimal[n] = IF n < 10 THEN <<48 + n>>
                                 ELSE Append(Decimal[n \div 10], 48 + (n % 10))
<1> DEFINE Equation(f) == f = [n \in Nat |-> IF n < 10 THEN <<48 + n>>
                                             ELSE Append(f[n \div 10], 48 + (n % 10))]
           g(n) == CHOOSE h : Decimals(h, n)
           d == [n \in Nat |-> g(n)[n]]
<1>1. \A n \in Nat : Decimals(g(n), n)
  BY DecimalsExist
<1> HIDE DEF g
<1>2. ASSUME NEW n \in Nat
      PROVE  /\ d[n] \in Codes
             /\ d[n] = IF n < 10 THEN <<48 + n>> ELSE Append(d[n \div 10], 48 + (n % 10))
  <2>1. n \in 0 .. n /\ n \div 10 \in Nat /\ n \div 10 <= n
    OBVIOUS
  <2>2. /\ g(n)[n] \in Codes
        /\ g(n)[n] = IF n < 10 THEN <<48 + n>> ELSE Append(g(n)[n \div 10], 48 + (n % 10))
    BY <1>1, <2>1 DEF Decimals
  <2>3. g(n)[n \div 10] = g(n \div 10)[n \div 10]
    <3>1. Decimals(g(n), n) /\ Decimals(g(n \div 10), n \div 10)
      BY <1>1, <2>1
    <3> QED BY <2>1, <3>1, DecimalsAgree
  <2>4. d[n] = g(n)[n] /\ d[n \div 10] = g(n \div 10)[n \div 10]
    BY <2>1
  <2> HIDE DEF d
  <2> QED BY <2>2, <2>3, <2>4
<1>3. Equation(d)
  <2>1. d = [n \in Nat |-> d[n]]
    OBVIOUS
  <2> HIDE DEF d
  <2> QED BY <1>2, <2>1
<1>4. Equation(Decimal)
  <2>1. Decimal = CHOOSE f : Equation(f)
    BY DEF Decimal
  <2> HIDE DEF Equation, d
  <2> QED BY <1>3, <2>1
<1>5. ASSUME NEW n \in Nat
      PROVE  Decimal[n] = IF n < 10 THEN <<48 + n>> ELSE Append(Decimal[n \div 10], 48 + (n % 10))
  BY <1>4
<1>6. ASSUME NEW n \in Nat PROVE Decimal[n] = d[n]
  <2> DEFINE T == {i \in Nat : Decimal[i] # d[i]}
  <2> SUFFICES ASSUME T # {} PROVE FALSE
    OBVIOUS
  <2> HIDE DEF d
  <2>1. PICK i \in T : \A j \in T : i <= j
    <3>1. T \subseteq Nat
      OBVIOUS
    <3> HIDE DEF T
    <3> QED BY <3>1, LeastNumber
  <2>2. i < 10 \/ (i \div 10 \in Nat /\ i \div 10 < i)
    OBVIOUS
  <2>3. i < 10 \/ Decimal[i \div 10] = d[i \div 10]
    BY <2>1, <2>2
  <2> QED BY <1>2, <1>5, <2>3
<1> QED BY <1>2, <1>5, <1>6

\* Numbers are written in digits, at least one.
Digits(d) == d \in Codes /\ Len(d) \in Nat \ {0} /\ \A i \in 1 .. Len(d) : d[i] \in 48 .. 57

\* A name for Append, which the provers would expand.
Add(d, x) == Append(d, x)

\* What a text is with a code added.
LEMMA DigitAdded ==
  ASSUME NEW d \in Codes, NEW x \in Nat
  PROVE  /\ Add(d, x) \in Codes /\ Len(Add(d, x)) = Len(d) + 1
         /\ Add(d, x)[Len(d) + 1] = x
         /\ \A i \in 1 .. Len(d) : Add(d, x)[i] = d[i]
         /\ Len(d) \in Nat
  BY DEF Codes, Add

\* A text and the code added to it can be told from the result.
LEMMA AddOnce ==
  ASSUME NEW d \in Codes, NEW e \in Codes, NEW x \in Nat, NEW y \in Nat, Add(d, x) = Add(e, y)
  PROVE  d = e /\ x = y
<1>1. d \in Seq(Nat) /\ e \in Seq(Nat)
  BY DEF Codes
<1> QED BY <1>1, AppendInjective DEF Add

\* DecimalDefined for the name.
LEMMA DecimalAdds ==
  ASSUME NEW n \in Nat
  PROVE  /\ n < 10 => Decimal[n] \in Codes /\ Len(Decimal[n]) = 1 /\ Decimal[n][1] = 48 + n
         /\ ~(n < 10) => Decimal[n] = Add(Decimal[n \div 10], 48 + (n % 10))
<1>1. CASE n < 10
  <2>1. Decimal[n] = <<48 + n>>
    BY <1>1, DecimalDefined
  <2>2. 48 + n \in Nat
    OBVIOUS
  <2> QED BY <1>1, <2>1, <2>2, OneCode
<1>2. CASE ~(n < 10)
  BY <1>2, DecimalDefined DEF Add
<1> QED BY <1>1, <1>2

\* Every number is written in digits.
LEMMA DecimalDigits == \A n \in Nat : Digits(Decimal[n])
<1> DEFINE T == {i \in Nat : ~Digits(Decimal[i])}
<1> SUFFICES ASSUME T # {} PROVE FALSE
  OBVIOUS
<1>1. PICK n \in T : \A j \in T : n <= j
  <2>1. T \subseteq Nat
    OBVIOUS
  <2> HIDE DEF T
  <2> QED BY <2>1, LeastNumber
<1>2. CASE n < 10
  <2>1. Decimal[n] \in Codes /\ Len(Decimal[n]) = 1 /\ Decimal[n][1] = 48 + n
    BY <1>2, DecimalAdds
  <2>2. \A i \in 1 .. Len(Decimal[n]) : Decimal[n][i] \in 48 .. 57
    <3>1. \A i \in 1 .. 1 : i = 1
      OBVIOUS
    <3>2. Decimal[n][1] \in 48 .. 57
      BY <1>2, <2>1
    <3> QED BY <2>1, <3>1, <3>2, Zenon
  <2>3. Digits(Decimal[n])
    <3>1. Len(Decimal[n]) \in Nat \ {0}
      BY <2>1
    <3> QED BY <2>1, <2>2, <3>1, Zenon DEF Digits
  <2> QED BY <2>3
<1>3. CASE ~(n < 10)
  <2> DEFINE d == Decimal[n \div 10]
             x == 48 + (n % 10)
             f == Decimal[n]
  <2>1. n \div 10 \in Nat /\ n \div 10 < n /\ x \in 48 .. 57
    BY <1>3
  <2>2. Digits(d)
    BY <1>1, <2>1
  <2>3. f = Add(d, x)
    BY <1>3, DecimalAdds
  <2> HIDE DEF d, x, f
  <2>4. /\ f \in Codes /\ Len(f) = Len(d) + 1 /\ f[Len(d) + 1] = x
        /\ \A i \in 1 .. Len(d) : f[i] = d[i]
    <3>1. d \in Codes /\ x \in Nat
      BY <2>1, <2>2 DEF Digits
    <3> QED BY <2>3, <3>1, DigitAdded
  <2>5. ASSUME NEW i \in 1 .. Len(f) PROVE f[i] \in 48 .. 57
    <3>1. i = Len(d) + 1 \/ i \in 1 .. Len(d)
      BY <2>2, <2>4 DEF Digits
    <3> QED BY <2>1, <2>2, <2>4, <3>1 DEF Digits
  <2>6. Digits(f)
    BY <2>2, <2>4, <2>5 DEF Digits
  <2> QED BY <2>6 DEF f
<1> QED BY <1>2, <1>3

\* Different numbers are written differently.
LEMMA DecimalOnce == \A m, n \in Nat : Decimal[m] = Decimal[n] => m = n
<1> DEFINE T == {i \in Nat : \E j \in Nat : Decimal[i] = Decimal[j] /\ i # j}
<1> SUFFICES ASSUME T # {} PROVE FALSE
  OBVIOUS
<1>1. PICK m \in T : \A j \in T : m <= j
  <2>1. T \subseteq Nat
    OBVIOUS
  <2> HIDE DEF T
  <2> QED BY <2>1, LeastNumber
<1>2. PICK n \in Nat : Decimal[m] = Decimal[n] /\ m # n
  OBVIOUS
<1>3. m \in Nat
  OBVIOUS
<1>8. ASSUME NEW k \in Nat
      PROVE  ~(k < 10) =>
               /\ k \div 10 \in Nat /\ Decimal[k \div 10] \in Codes /\ 48 + (k % 10) \in Nat
               /\ Decimal[k] = Add(Decimal[k \div 10], 48 + (k % 10))
               /\ Len(Decimal[k]) # 1
  <2> SUFFICES ASSUME ~(k < 10)
               PROVE  /\ k \div 10 \in Nat /\ Decimal[k \div 10] \in Codes /\ 48 + (k % 10) \in Nat
                      /\ Decimal[k] = Add(Decimal[k \div 10], 48 + (k % 10))
                      /\ Len(Decimal[k]) # 1
    OBVIOUS
  <2> DEFINE d == Decimal[k \div 10]
             x == 48 + (k % 10)
  <2>1. k \div 10 \in Nat /\ x \in Nat
    OBVIOUS
  <2>2. Digits(d) /\ Decimal[k] = Add(d, x)
    BY <2>1, DecimalDigits, DecimalAdds
  <2> HIDE DEF d, x
  <2>3. Len(Add(d, x)) = Len(d) + 1 /\ Len(d) \in Nat \ {0} /\ d \in Codes
    BY <2>1, <2>2, DigitAdded DEF Digits
  <2>4. Len(Add(d, x)) # 1
    BY <2>3
  <2> QED BY <2>1, <2>2, <2>3, <2>4 DEF d, x
<1>4. CASE m < 10 /\ n < 10
  <2>1. Decimal[m][1] = 48 + m /\ Decimal[n][1] = 48 + n
    BY <1>3, <1>4, DecimalAdds
  <2> HIDE DEF T
  <2> QED BY <1>2, <1>3, <2>1
<1>5. CASE ~(m < 10) /\ ~(n < 10)
  <2> DEFINE d == Decimal[m \div 10]
             e == Decimal[n \div 10]
             x == 48 + (m % 10)
             y == 48 + (n % 10)
  <2>1. /\ d \in Codes /\ e \in Codes /\ x \in Nat /\ y \in Nat /\ Add(d, x) = Add(e, y)
        /\ m \div 10 \in Nat /\ n \div 10 \in Nat
    BY <1>2, <1>3, <1>5, <1>8
  <2>2. d = e /\ x = y
    <3> HIDE DEF d, e, x, y
    <3> QED BY <2>1, AddOnce
  <2>3. m \div 10 < m
    BY <1>5
  <2>4. m \div 10 \notin T
    BY <1>1, <2>3
  <2>5. m \div 10 = n \div 10
    BY <2>1, <2>2, <2>4
  <2>6. m % 10 = n % 10
    BY <2>2
  <2>7. m = 10 * (m \div 10) + (m % 10) /\ n = 10 * (n \div 10) + (n % 10)
    OBVIOUS
  <2> QED BY <1>2, <2>5, <2>6, <2>7
<1>6. CASE m < 10 /\ ~(n < 10)
  <2>1. Len(Decimal[m]) = 1 /\ Len(Decimal[n]) # 1
    BY <1>3, <1>6, <1>8, DecimalAdds
  <2> QED BY <1>2, <2>1
<1>7. CASE ~(m < 10) /\ n < 10
  <2>1. Len(Decimal[n]) = 1 /\ Len(Decimal[m]) # 1
    BY <1>3, <1>7, <1>8, DecimalAdds
  <2> QED BY <1>2, <2>1
<1> QED BY <1>4, <1>5, <1>6, <1>7

\* What may follow a value: a comma, or what closes an array or an object.
Endings == {u \in Codes : Len(u) > 0 /\ u[1] \in {44, 93, 125}}

\* A number can be told from what follows it.
LEMMA DigitsEnd ==
  ASSUME NEW d, Digits(d), NEW e, Digits(e), NEW u \in Endings, NEW v \in Endings,
         Cat(d, u) = Cat(e, v)
  PROVE  Len(d) >= Len(e)
<1> SUFFICES ASSUME Len(d) < Len(e) PROVE FALSE
  BY DEF Digits
<1> DEFINE z == Cat(d, u)
           k == Len(d) + 1
<1>1. /\ d \in Codes /\ e \in Codes /\ Len(d) \in Nat /\ Len(e) \in Nat
      /\ u \in Codes /\ v \in Codes /\ Len(u) \in Nat \ {0}
      /\ u[1] \in {44, 93, 125}
  <2>1. u \in Codes /\ v \in Codes /\ Len(u) > 0 /\ u[1] \in {44, 93, 125}
    BY DEF Endings
  <2>2. Len(u) \in Nat
    BY <2>1 DEF Codes
  <2> QED BY <2>1, <2>2 DEF Digits
<1>2. z = Cat(e, v) /\ k \in 1 .. Len(e) /\ 1 \in 1 .. Len(u)
  BY <1>1
<1>3. z[k] = u[1]
  BY <1>1, <1>2, CatAt
<1>4. z[k] = e[k]
  <2>1. \A i \in 1 .. Len(e) : Cat(e, v)[i] = e[i]
    <3>1. e \in Codes /\ v \in Codes
      BY <1>1
    <3> QED BY ONLY <3>1, CatAt
  <2> HIDE DEF z, k
  <2> QED BY <1>2, <2>1
<1>5. e[k] \in 48 .. 57
  BY <1>2 DEF Digits
<1> HIDE DEF z, k
<1> QED BY <1>1, <1>3, <1>4, <1>5

\* So is a number followed by the end of its member.
LEMMA DecimalDecodes ==
  ASSUME NEW m \in Nat, NEW n \in Nat, NEW u \in Endings, NEW v \in Endings,
         Cat(Decimal[m], u) = Cat(Decimal[n], v)
  PROVE  m = n
<1> DEFINE d == Decimal[m]
           e == Decimal[n]
<1>1. Digits(d) /\ Digits(e)
  BY DecimalDigits
<1>2. u \in Codes /\ v \in Codes
  BY DEF Endings
<1>3. d = e => m = n
  BY DecimalOnce
<1>4. Cat(d, u) = Cat(e, v)
  OBVIOUS
<1> HIDE DEF d, e
<1>5. Len(d) >= Len(e) /\ Len(e) >= Len(d)
  BY <1>1, <1>4, DigitsEnd
<1>6. d \in Codes /\ e \in Codes /\ Len(d) \in Nat /\ Len(e) \in Nat
  BY <1>1 DEF Digits
<1>7. Len(d) = Len(e)
  BY <1>5, <1>6
<1>8. d = e
  BY <1>2, <1>4, <1>6, <1>7, CatCancels
<1> QED BY <1>3, <1>8

\* Scalars that have a canonical form, and what their form starts with.
Atom == [type : {"num"}, n : Int] \cup [type : {"str"}, s : Seq(Char)] \cup {Null}

\* The kinds of scalars, and how each is written.
LEMMA LiteralForms ==
  ASSUME NEW v \in Atom
  PROVE  /\ v.type \in {"num", "str", "null"}
         /\ v.type = "str" => v.s \in Seq(Char) /\ Literal(v) = Quoted(v.s)
                              /\ v = [type |-> "str", s |-> v.s]
         /\ v.type = "num" => v.n \in Int /\ v = [type |-> "num", n |-> v.n]
         /\ v.type = "num" /\ v.n < 0 => Literal(v) = Cat(<<45>>, Decimal[-v.n])
         /\ v.type = "num" /\ ~(v.n < 0) => Literal(v) = Decimal[v.n]
         /\ v.type = "null" => v = Null /\ Literal(v) = <<110, 117, 108, 108>>
<1>1. CASE v \in [type : {"num"}, n : Int]
  BY <1>1 DEF Literal, Cat
<1>2. CASE v \in [type : {"str"}, s : Seq(Char)]
  BY <1>2 DEF Literal
<1>3. CASE v = Null
  BY <1>3 DEF Literal, Null
<1> QED BY <1>1, <1>2, <1>3 DEF Atom

\* A concatenation starts as its first part.
LEMMA CatStarts ==
  ASSUME NEW d \in Codes, NEW u \in Codes, Len(d) > 0
  PROVE  Cat(d, u)[1] = d[1] /\ Len(Cat(d, u)) > 0
<1>1. Len(d) \in Nat /\ Len(u) \in Nat
  BY DEF Codes
<1>2. 1 \in 1 .. Len(d)
  BY <1>1
<1> QED BY <1>1, <1>2, CatAt

\* A literal is not empty, and its first code tells its kind.
LEMMA LiteralStarts ==
  ASSUME NEW v \in Atom
  PROVE  /\ Literal(v) \in Codes /\ Len(Literal(v)) > 0
         /\ v.type = "str" => Literal(v)[1] = 34
         /\ v.type = "num" /\ v.n < 0 => Literal(v)[1] = 45
         /\ v.type = "num" /\ ~(v.n < 0) => Literal(v)[1] \in 48 .. 57
         /\ v.type = "null" => Literal(v)[1] = 110
<1>0. /\ <<34>> \in Codes /\ Len(<<34>>) = 1 /\ <<34>>[1] = 34
      /\ <<45>> \in Codes /\ Len(<<45>>) = 1 /\ <<45>>[1] = 45
  BY OneCode
<1>1. CASE v.type = "str"
  <2>1. v.s \in Seq(Char) /\ Literal(v) = Quoted(v.s)
    BY <1>1, LiteralForms
  <2> DEFINE w == Cat(Encoded(EscapeCode, v.s), <<34>>)
  <2>2. w \in Codes /\ Quoted(v.s) = Cat(<<34>>, w)
    BY <1>0, <2>1, QuotedForm, EscapeCodeType, EncodedParts, CatIsCodes
  <2>3. Quoted(v.s) \in Codes
    BY <2>1, QuotedForm
  <2> HIDE DEF w
  <2>4. Cat(<<34>>, w)[1] = 34 /\ Len(Cat(<<34>>, w)) > 0
    <3> DEFINE q == <<34>>
    <3>1. q \in Codes /\ Len(q) > 0 /\ q[1] = 34
      BY <1>0
    <3> HIDE DEF q
    <3>2. Cat(q, w)[1] = 34 /\ Len(Cat(q, w)) > 0
      BY <2>2, <3>1, CatStarts
    <3> QED BY <3>2 DEF q
  <2> QED BY <1>1, <2>1, <2>2, <2>3, <2>4
<1>2. CASE v.type = "num" /\ v.n < 0
  <2>1. Literal(v) = Cat(<<45>>, Decimal[-v.n]) /\ -v.n \in Nat
    BY <1>2, LiteralForms
  <2>2. Decimal[-v.n] \in Codes
    BY <2>1, DecimalDefined
  <2> DEFINE q == <<45>>
             d == Decimal[-v.n]
  <2>3. q \in Codes /\ Len(q) > 0 /\ q[1] = 45 /\ d \in Codes /\ Literal(v) = Cat(q, d)
    BY <1>0, <2>1, <2>2
  <2> HIDE DEF q, d
  <2>4. Cat(q, d) \in Codes
    BY <2>3, CatIsCodes
  <2>5. Cat(q, d)[1] = 45 /\ Len(Cat(q, d)) > 0
    BY <2>3, CatStarts
  <2> QED BY <1>2, <2>3, <2>4, <2>5
<1>3. CASE v.type = "num" /\ ~(v.n < 0)
  <2>1. Literal(v) = Decimal[v.n] /\ v.n \in Nat
    BY <1>3, LiteralForms
  <2>2. Digits(Decimal[v.n])
    BY <2>1, DecimalDigits
  <2>3. 1 \in 1 .. Len(Decimal[v.n])
    BY <2>2 DEF Digits
  <2> QED BY <1>3, <2>1, <2>2, <2>3 DEF Digits
<1>4. CASE v.type = "null"
  <2>1. Literal(v) = <<110, 117, 108, 108>>
    BY <1>4, LiteralForms
  <2> QED BY <1>4, <2>1 DEF Codes
<1> QED BY <1>1, <1>2, <1>3, <1>4, LiteralForms

\* A scalar can be told from what follows it.
LEMMA LiteralDecodes ==
  ASSUME NEW v \in Atom, NEW w \in Atom, NEW u \in Endings, NEW z \in Endings,
         Cat(Literal(v), u) = Cat(Literal(w), z)
  PROVE  v = w
<1>1. u \in Codes /\ z \in Codes
  BY DEF Endings
<1>2. Literal(v)[1] = Literal(w)[1]
  BY <1>1, LiteralStarts, CatStarts
<1>3. CASE v.type = "str" /\ w.type = "str"
  <2>1. /\ v.s \in Seq(Char) /\ w.s \in Seq(Char)
        /\ Cat(Quoted(v.s), u) = Cat(Quoted(w.s), z)
    BY <1>3, LiteralForms
  <2>2. v.s = w.s
    BY <1>1, <2>1, QuotedDecodes
  <2> QED BY <1>3, <2>2, LiteralForms
<1>4. CASE v.type = "num" /\ v.n < 0 /\ w.type = "num" /\ w.n < 0
  <2> DEFINE d == Decimal[-v.n]
             e == Decimal[-w.n]
             q == <<45>>
  <2>1. /\ v.n \in Int /\ w.n \in Int /\ -v.n \in Nat /\ -w.n \in Nat
        /\ Cat(Cat(q, d), u) = Cat(Cat(q, e), z)
    BY <1>4, LiteralForms
  <2>2. q \in Codes /\ d \in Codes /\ e \in Codes
    BY <2>1, OneCode, DecimalDefined
  <2>3. Cat(d, u) = Cat(e, z)
    <3> HIDE DEF q, d, e
    <3>1. Cat(q, Cat(d, u)) = Cat(q, Cat(e, z))
      BY <1>1, <2>1, <2>2, CatAssociative
    <3>2. Cat(d, u) \in Codes /\ Cat(e, z) \in Codes
      BY <1>1, <2>2, CatIsCodes
    <3> QED BY <2>2, <3>1, <3>2, SameAfter
  <2>4. -v.n = -w.n
    BY <2>1, <2>3, DecimalDecodes
  <2>5. v.n = w.n
    BY <2>1, <2>4
  <2> QED BY <1>4, <2>5, LiteralForms
<1>5. CASE v.type = "num" /\ ~(v.n < 0) /\ w.type = "num" /\ ~(w.n < 0)
  <2>1. /\ v.n \in Nat /\ w.n \in Nat
        /\ Cat(Decimal[v.n], u) = Cat(Decimal[w.n], z)
    BY <1>5, LiteralForms
  <2>2. v.n = w.n
    BY <2>1, DecimalDecodes
  <2> QED BY <1>5, <2>2, LiteralForms
<1>6. CASE v.type = "null" /\ w.type = "null"
  BY <1>6, LiteralForms
<1>7. /\ \/ v.type = "str" \/ v.type = "null"
         \/ (v.type = "num" /\ v.n < 0) \/ (v.type = "num" /\ ~(v.n < 0))
      /\ \/ w.type = "str" \/ w.type = "null"
         \/ (w.type = "num" /\ w.n < 0) \/ (w.type = "num" /\ ~(w.n < 0))
  BY LiteralForms
<1> QED BY <1>2, <1>3, <1>4, <1>5, <1>6, <1>7, LiteralStarts

-----------------------------------------------------------------------------
(* The order of names *)

\* Sequences of numbers by their first difference, shorter ones first.
Lex(a, b) ==
  \E i \in 1 .. Len(b) :
    /\ i <= Len(a) + 1
    /\ \A j \in 1 .. i - 1 : a[j] = b[j]
    /\ i <= Len(a) => a[i] < b[i]

\* A text is made of numbers.
LEMMA CodesElements ==
  ASSUME NEW a \in Codes
  PROVE  Len(a) \in Nat /\ DOMAIN a = 1 .. Len(a) /\ \A i \in 1 .. Len(a) : a[i] \in Nat
  BY DEF Codes

\* No sequence comes before itself.
LEMMA LexIrreflexive == \A a \in Codes : ~Lex(a, a)
  BY CodesElements DEF Lex

\* What comes before the earlier comes before the later.
LEMMA LexTransitive ==
  ASSUME NEW a \in Seq(Nat), NEW b \in Seq(Nat), NEW c \in Seq(Nat), Lex(a, b), Lex(b, c)
  PROVE  Lex(a, c)
<1>1. /\ Len(a) \in Nat /\ \A i \in 1 .. Len(a) : a[i] \in Nat
      /\ Len(b) \in Nat /\ \A i \in 1 .. Len(b) : b[i] \in Nat
      /\ Len(c) \in Nat /\ \A i \in 1 .. Len(c) : c[i] \in Nat
  OBVIOUS
<1>2. PICK i \in 1 .. Len(b) :
        /\ i <= Len(a) + 1
        /\ \A k \in 1 .. i - 1 : a[k] = b[k]
        /\ i <= Len(a) => a[i] < b[i]
  BY DEF Lex
<1>3. PICK j \in 1 .. Len(c) :
        /\ j <= Len(b) + 1
        /\ \A k \in 1 .. j - 1 : b[k] = c[k]
        /\ j <= Len(b) => b[j] < c[j]
  BY DEF Lex
<1>4. i \in Nat /\ j \in Nat
  BY <1>1, <1>2, <1>3
<1>5. CASE i < j
  <2>1. i \in 1 .. Len(c) /\ i \in 1 .. j - 1
    BY <1>1, <1>2, <1>3, <1>4, <1>5
  <2>2. b[i] = c[i] /\ (i <= Len(a) => a[i] < c[i])
    BY <1>1, <1>2, <1>3, <1>4, <2>1
  <2>3. \A k \in 1 .. i - 1 : k \in 1 .. j - 1
    BY <1>4, <1>5
  <2>4. \A k \in 1 .. i - 1 : a[k] = c[k]
    BY <1>1, <1>2, <1>3, <1>4, <2>3
  <2> QED BY <1>2, <2>1, <2>2, <2>4 DEF Lex
<1>6. CASE i = j
  <2>1. \A k \in 1 .. i - 1 : a[k] = c[k]
    BY <1>1, <1>2, <1>3, <1>4, <1>6
  <2>2. ASSUME i <= Len(a) PROVE a[i] < c[i]
    <3>1. i \in 1 .. Len(a) /\ i \in 1 .. Len(b) /\ i \in 1 .. Len(c) /\ i <= Len(b)
      BY <1>1, <1>3, <1>4, <1>6, <2>2
    <3>2. a[i] \in Nat /\ b[i] \in Nat /\ c[i] \in Nat
      BY <1>1, <3>1
    <3>3. a[i] < b[i] /\ b[i] < c[i]
      BY <1>2, <1>3, <1>6, <2>2, <3>1, Zenon
    <3> QED BY <3>2, <3>3
  <2> QED BY <1>1, <1>2, <1>3, <1>4, <1>6, <2>1, <2>2 DEF Lex
<1>7. CASE j < i
  <2>1. j \in 1 .. i - 1 /\ j <= Len(a) /\ j <= Len(b)
    BY <1>1, <1>2, <1>3, <1>4, <1>7
  <2>2. a[j] = b[j] /\ b[j] < c[j] /\ j <= Len(a) + 1
    BY <1>1, <1>2, <1>3, <1>4, <2>1
  <2>3. \A k \in 1 .. j - 1 : k \in 1 .. i - 1
    BY <1>4, <1>7
  <2>4. \A k \in 1 .. j - 1 : a[k] = c[k]
    BY <1>1, <1>2, <1>3, <1>4, <2>3
  <2> QED BY <1>3, <2>2, <2>4 DEF Lex
<1> QED BY <1>4, <1>5, <1>6, <1>7

\* Sequences that begin alike are in the order of their ends.
LEMMA LexAfter ==
  ASSUME NEW p \in Codes, NEW a \in Codes, NEW b \in Codes, Lex(a, b)
  PROVE  Lex(Cat(p, a), Cat(p, b))
<1> DEFINE m == Len(p)
           x == Cat(p, a)
           y == Cat(p, b)
<1>1. /\ Len(x) = m + Len(a) /\ m \in Nat /\ Len(a) \in Nat
      /\ \A i \in 1 .. m : x[i] = p[i]
      /\ \A i \in 1 .. Len(a) : x[m + i] = a[i]
  BY CatAt
<1>2. /\ Len(y) = m + Len(b) /\ Len(b) \in Nat
      /\ \A i \in 1 .. m : y[i] = p[i]
      /\ \A i \in 1 .. Len(b) : y[m + i] = b[i]
  BY CatAt
<1> HIDE DEF m, x, y
<1>3. PICK i \in 1 .. Len(b) :
        /\ i <= Len(a) + 1
        /\ \A k \in 1 .. i - 1 : a[k] = b[k]
        /\ i <= Len(a) => a[i] < b[i]
  BY DEF Lex
<1>4. m + i \in 1 .. Len(y) /\ m + i <= Len(x) + 1
  BY <1>1, <1>2, <1>3
<1>5. ASSUME NEW k \in 1 .. (m + i) - 1 PROVE x[k] = y[k]
  <2>1. CASE k \in 1 .. m
    BY <1>1, <1>2, <2>1
  <2>2. CASE k \notin 1 .. m
    <3>1. k - m \in 1 .. i - 1 /\ k - m \in 1 .. Len(a) /\ k - m \in 1 .. Len(b) /\ m + (k - m) = k
      BY <1>1, <1>2, <1>3, <2>2
    <3>2. x[m + (k - m)] = a[k - m] /\ y[m + (k - m)] = b[k - m] /\ a[k - m] = b[k - m]
      BY <1>1, <1>2, <1>3, <3>1
    <3> QED BY <3>1, <3>2
  <2> QED BY <2>1, <2>2
<1>6. m + i <= Len(x) => x[m + i] < y[m + i]
  BY <1>1, <1>2, <1>3
<1>7. Lex(x, y)
  BY <1>4, <1>5, <1>6 DEF Lex
<1> QED BY <1>7 DEF x, y

\* Utf16 as a function of the characters.
Utf16Code == [c \in Char |-> Utf16(c)]

\* A character is one unit or two, the first of two from U+D800 to U+DBFF.
LEMMA Utf16Forms ==
  ASSUME NEW c \in Char
  PROVE  LET u == Utf16Code[c]
         IN  /\ u \in Codes /\ c \in Nat
             /\ c < 65536 => Len(u) = 1 /\ u[1] = c
             /\ ~(c < 65536) => /\ Len(u) = 2
                                /\ u[1] = 55296 + (c - 65536) \div 1024
                                /\ u[2] = 56320 + ((c - 65536) % 1024)
<1> DEFINE u == Utf16Code[c]
<1>1. u = Utf16(c) /\ c \in Nat
  BY DEF Utf16Code, Char
<1>2. CASE c < 65536
  <2>1. u = <<c>>
    BY <1>1, <1>2 DEF Utf16
  <2> HIDE DEF u
  <2> QED BY <1>1, <1>2, <2>1, OneCode DEF u
<1>3. CASE ~(c < 65536)
  <2> DEFINE hi == 55296 + (c - 65536) \div 1024
             lo == 56320 + ((c - 65536) % 1024)
  <2>1. u = <<hi, lo>>
    BY <1>1, <1>3 DEF Utf16
  <2>2. hi \in Nat /\ lo \in Nat
    BY <1>1, <1>3
  <2> HIDE DEF u, hi, lo
  <2>3. u \in Codes /\ Len(u) = 2 /\ u[1] = hi /\ u[2] = lo
    BY <2>1, <2>2 DEF Codes
  <2> QED BY <1>1, <1>3, <2>3 DEF hi, lo, u
<1> QED BY <1>2, <1>3

\* The units of a name are the codes of its characters.
LEMMA UnitsForm ==
  ASSUME NEW x \in Seq(Char)
  PROVE  Units(x) = Encoded(Utf16Code, x) /\ Units(x) \in Codes
<1>1. [i \in DOMAIN x |-> Utf16(x[i])] = [i \in DOMAIN x |-> Utf16Code[x[i]]]
  <2>1. \A i \in DOMAIN x : x[i] \in Char
    OBVIOUS
  <2> QED BY <2>1 DEF Utf16Code
<1>2. Utf16Code \in [Char -> Codes]
  <2>1. \A c \in Char : Utf16Code[c] \in Codes
    BY Utf16Forms
  <2> QED BY <2>1 DEF Utf16Code
<1>3. Units(x) = Encoded(Utf16Code, x)
  BY <1>1, Zenon DEF Units, Encoded
<1> QED BY <1>2, <1>3, EncodedParts

\* A character in units is a text.
LEMMA Utf16CodeType == Utf16Code \in [Char -> Codes]
<1>1. \A c \in Char : Utf16Code[c] \in Codes
  BY Utf16Forms
<1> QED BY <1>1 DEF Utf16Code

\* The code of a whole is the codes of its parts.
LEMMA SplitFirst ==
  ASSUME NEW A, NEW s \in Seq(A), NEW t \in Seq(A), s # <<>>
  PROVE  /\ Cat(s, t) \in Seq(A) /\ Cat(s, t) # <<>>
         /\ Head(Cat(s, t)) = Head(s) /\ Tail(Cat(s, t)) = Cat(Tail(s), t)
<1> DEFINE x == s \o t
           y == Tail(s) \o t
<1>1. /\ Tail(s) \in Seq(A) /\ Head(s) = s[1] /\ Len(s) \in Nat \ {0} /\ Len(Tail(s)) = Len(s) - 1
      /\ \A i \in 1 .. Len(s) - 1 : Tail(s)[i] = s[i + 1]
  BY FirstAndRest
<1>2. /\ x \in Seq(A) /\ Len(x) = Len(s) + Len(t) /\ Len(t) \in Nat
      /\ \A i \in 1 .. Len(s) : x[i] = s[i]
      /\ \A i \in 1 .. Len(t) : x[Len(s) + i] = t[i]
  BY Joined
<1>3. /\ y \in Seq(A) /\ Len(y) = Len(Tail(s)) + Len(t)
      /\ \A i \in 1 .. Len(Tail(s)) : y[i] = Tail(s)[i]
      /\ \A i \in 1 .. Len(t) : y[Len(Tail(s)) + i] = t[i]
  <2>1. /\ Tail(s) \o t \in Seq(A) /\ Len(Tail(s) \o t) = Len(Tail(s)) + Len(t)
        /\ \A i \in 1 .. Len(Tail(s)) : (Tail(s) \o t)[i] = Tail(s)[i]
        /\ \A i \in 1 .. Len(t) : (Tail(s) \o t)[Len(Tail(s)) + i] = t[i]
    <3> DEFINE r == Tail(s)
    <3>1. r \in Seq(A)
      BY <1>1
    <3> HIDE DEF r
    <3>2. /\ r \o t \in Seq(A) /\ Len(r \o t) = Len(r) + Len(t)
          /\ \A i \in 1 .. Len(r) : (r \o t)[i] = r[i]
          /\ \A i \in 1 .. Len(t) : (r \o t)[Len(r) + i] = t[i]
      BY <3>1, Joined
    <3> QED BY <3>2, Zenon DEF r
  <2> QED BY <2>1, Zenon
<1> DEFINE r == Tail(s)
<1>4. /\ r \in Seq(A) /\ Len(r) = Len(s) - 1 /\ \A i \in 1 .. Len(s) - 1 : r[i] = s[i + 1]
      /\ Len(y) = Len(r) + Len(t)
      /\ \A i \in 1 .. Len(r) : y[i] = r[i]
      /\ \A i \in 1 .. Len(t) : y[Len(r) + i] = t[i]
  BY <1>1, <1>3, Zenon
<1>5. x # <<>> /\ Head(x) = x[1] /\ Tail(x) \in Seq(A) /\ Len(Tail(x)) = Len(x) - 1
      /\ \A i \in 1 .. Len(x) - 1 : Tail(x)[i] = x[i + 1]
  <2> HIDE DEF x
  <2>1. x # <<>>
    BY <1>1, <1>2
  <2> QED BY <1>2, <2>1, FirstAndRest
<1> DEFINE z == Tail(x)
<1>6. z \in Seq(A) /\ Len(z) = Len(x) - 1 /\ \A i \in 1 .. Len(x) - 1 : z[i] = x[i + 1]
  BY <1>5, Zenon
<1> HIDE DEF x, y, r, z
<1>7. Len(z) = Len(y) /\ Len(z) = (Len(s) - 1) + Len(t)
  BY <1>1, <1>2, <1>4, <1>6
<1>8. ASSUME NEW i \in 1 .. Len(z) PROVE z[i] = y[i]
  <2>1. z[i] = x[i + 1]
    BY <1>1, <1>2, <1>6, <1>7
  <2>2. CASE i <= Len(s) - 1
    <3>1. i \in 1 .. Len(s) - 1 /\ i \in 1 .. Len(r) /\ i + 1 \in 1 .. Len(s)
      BY <1>1, <1>4, <1>7, <2>2
    <3> QED BY <1>2, <1>4, <2>1, <3>1
  <2>3. CASE ~(i <= Len(s) - 1)
    <3> DEFINE j == i - (Len(s) - 1)
    <3>1. j \in 1 .. Len(t) /\ Len(s) + j = i + 1 /\ Len(r) + j = i
      BY <1>1, <1>2, <1>4, <1>7, <2>3
    <3> HIDE DEF j
    <3>2. x[Len(s) + j] = t[j] /\ y[Len(r) + j] = t[j]
      BY <1>2, <1>4, <3>1
    <3> QED BY <2>1, <3>1, <3>2
  <2> QED BY <2>2, <2>3
<1>9. y \in Seq(A)
  BY <1>3 DEF y
<1>10. z = y
  BY <1>6, <1>7, <1>8, <1>9, SeqEqual, Zenon
<1>11. Head(x) = Head(s)
  <2>1. 1 \in 1 .. Len(s)
    BY <1>1
  <2> QED BY <1>1, <1>2, <1>5, <2>1
<1>12. x = Cat(s, t) /\ Tail(x) = z /\ y = Cat(Tail(s), t)
  BY DEF x, y, z, Cat
<1> QED BY <1>2, <1>5, <1>10, <1>11, <1>12, Zenon

\* The empty sequence adds nothing to any sequence.
LEMMA CatEmptyFirst == ASSUME NEW A, NEW t \in Seq(A) PROVE Cat(<<>>, t) = t
  BY ConcatEmptySeq DEF Cat

\* By induction over the length of the first part.
LEMMA EncodedWhole ==
  ASSUME NEW A, NEW c \in [A -> Codes], NEW s \in Seq(A), NEW t \in Seq(A)
  PROVE  Encoded(c, Cat(s, t)) = Cat(Encoded(c, s), Encoded(c, t))
<1> DEFINE S == {n \in Nat : \A x \in Seq(A) :
                   Len(x) = n => Encoded(c, Cat(x, t)) = Cat(Encoded(c, x), Encoded(c, t))}
<1>0. Encoded(c, t) \in Codes
  BY EncodedParts
<1>1. 0 \in S
  <2> SUFFICES ASSUME NEW x \in Seq(A), Len(x) = 0
               PROVE  Encoded(c, Cat(x, t)) = Cat(Encoded(c, x), Encoded(c, t))
    OBVIOUS
  <2>1. x = <<>>
    BY EmptySeq
  <2>2. Cat(x, t) = t
    BY <2>1, CatEmptyFirst
  <2>3. Encoded(c, x) = <<>>
    BY <2>1, EncodedParts
  <2> QED BY <1>0, <2>2, <2>3, CatEmpty
<1>2. ASSUME NEW n \in Nat, n \in S PROVE n + 1 \in S
  <2> SUFFICES ASSUME NEW x \in Seq(A), Len(x) = n + 1
               PROVE  Encoded(c, Cat(x, t)) = Cat(Encoded(c, x), Encoded(c, t))
    OBVIOUS
  <2>1. x # <<>> /\ Len(Tail(x)) = n
    OBVIOUS
  <2>2. Head(x) \in A /\ Tail(x) \in Seq(A)
    BY <2>1, FirstAndRest
  <2> DEFINE w == Cat(x, t)
             h == Head(x)
             r == Tail(x)
  <2>3. w \in Seq(A) /\ w # <<>> /\ Head(w) = h /\ Tail(w) = Cat(r, t)
    BY <2>1, SplitFirst
  <2>4. Encoded(c, x) = Cat(c[h], Encoded(c, r))
    BY <2>1, EncodedParts
  <2>5. h \in A /\ r \in Seq(A) /\ Len(r) = n
    BY <2>1, <2>2
  <2> HIDE DEF w, h, r
  <2>6. Encoded(c, w) = Cat(c[h], Encoded(c, Cat(r, t)))
    BY <2>3, EncodedParts
  <2>7. Encoded(c, Cat(r, t)) = Cat(Encoded(c, r), Encoded(c, t))
    BY <1>2, <2>5
  <2>8. c[h] \in Codes /\ Encoded(c, r) \in Codes
    BY <2>5, EncodedParts
  <2>9. Cat(Cat(c[h], Encoded(c, r)), Encoded(c, t)) = Cat(c[h], Cat(Encoded(c, r), Encoded(c, t)))
    BY <1>0, <2>8, CatAssociative
  <2> QED BY <2>4, <2>6, <2>7, <2>9 DEF w
<1> HIDE DEF S
<1>3. Nat \subseteq S
  BY <1>1, <1>2, SetInduction
<1>4. Len(s) \in S
  BY <1>3
<1> QED BY <1>4 DEF S

\* A sequence in two parts, the second from position i on.
LEMMA SplitAt ==
  ASSUME NEW A, NEW s \in Seq(A), NEW i \in 1 .. Len(s)
  PROVE  LET front == SubSeq(s, 1, i - 1)
             back == SubSeq(s, i, Len(s))
         IN  /\ front \in Seq(A) /\ back \in Seq(A) /\ back # <<>> /\ Head(back) = s[i]
             /\ s = Cat(front, back)
<1> DEFINE front == SubSeq(s, 1, i - 1)
           back == SubSeq(s, i, Len(s))
<1>1. Len(s) \in Nat /\ i \in Nat /\ i - 1 \in 0 .. Len(s) /\ i \in i .. Len(s) + 1
      /\ \A j \in 1 .. Len(s) : s[j] \in A
  OBVIOUS
<1>2. front \in Seq(A)
  <2>1. \A j \in 1 .. i - 1 : s[j] \in A
    BY <1>1
  <2> QED BY <1>1, <2>1, SubSeqProperties
<1>3. /\ back \in Seq(A) /\ Len(back) = Len(s) - i + 1
      /\ \A j \in 1 .. Len(s) - i + 1 : back[j] = s[i + j - 1]
  <2>1. \A j \in i .. Len(s) : s[j] \in A
    BY <1>1
  <2> QED BY <1>1, <2>1, SubSeqProperties
<1>4. SubSeq(s, 1, i - 1) \o SubSeq(s, (i - 1) + 1, Len(s)) = SubSeq(s, 1, Len(s))
  <2>1. 1 \in 1 .. Len(s) + 1 /\ i - 1 \in 1 - 1 .. Len(s) /\ Len(s) \in i - 1 .. Len(s)
    BY <1>1
  <2> QED BY <2>1, ConcatAdjacentSubSeq
<1>5. s = front \o back
  <2>1. (i - 1) + 1 = i
    BY <1>1
  <2> QED BY <1>4, <2>1, SubSeqFull
<1>6. back # <<>> /\ Head(back) = s[i]
  <2> HIDE DEF back
  <2>1. Len(back) # 0 /\ back[1] = s[i]
    <3>1. 1 \in 1 .. Len(s) - i + 1 /\ i + 1 - 1 = i /\ Len(s) - i + 1 # 0
      BY <1>1
    <3> QED BY <1>3, <3>1
  <2>2. back # <<>>
    BY <2>1, EmptyCodes
  <2> QED BY <1>3, <2>1, <2>2, FirstAndRest
<1> QED BY <1>2, <1>3, <1>5, <1>6 DEF Cat

\* Names that agree before i are in the order of their characters there.
LEMMA LighterFirst ==
  ASSUME NEW a \in Char, NEW b \in Char, Weight(a) < Weight(b),
         NEW u \in Codes, NEW v \in Codes
  PROVE  Lex(Cat(Utf16Code[a], u), Cat(Utf16Code[b], v))
<1> DEFINE d == Utf16Code[a]
           e == Utf16Code[b]
           x == Cat(d, u)
           y == Cat(e, v)
<1>1. /\ d \in Codes /\ a \in Nat
      /\ a < 65536 => Len(d) = 1 /\ d[1] = a
      /\ ~(a < 65536) => /\ Len(d) = 2
                         /\ d[1] = 55296 + (a - 65536) \div 1024
                         /\ d[2] = 56320 + ((a - 65536) % 1024)
  BY Utf16Forms
<1>2. /\ e \in Codes /\ b \in Nat
      /\ b < 65536 => Len(e) = 1 /\ e[1] = b
      /\ ~(b < 65536) => /\ Len(e) = 2
                         /\ e[1] = 55296 + (b - 65536) \div 1024
                         /\ e[2] = 56320 + ((b - 65536) % 1024)
  BY Utf16Forms
<1>3. /\ a < 55296 \/ (57343 < a /\ a < 1114112)
      /\ b < 55296 \/ (57343 < b /\ b < 1114112)
  BY DEF Char
<1> HIDE DEF d, e
<1>4. /\ Len(x) = Len(d) + Len(u) /\ Len(u) \in Nat
      /\ \A i \in 1 .. Len(d) : x[i] = d[i]
  BY <1>1, CatAt
<1>5. /\ Len(y) = Len(e) + Len(v) /\ Len(v) \in Nat
      /\ \A i \in 1 .. Len(e) : y[i] = e[i]
  BY <1>2, CatAt
<1> HIDE DEF x, y
<1>6. x[1] = d[1] /\ (Len(d) = 2 => x[2] = d[2]) /\ Len(x) \in Nat /\ Len(x) >= Len(d)
  BY <1>1, <1>4
<1>7. y[1] = e[1] /\ (Len(e) = 2 => y[2] = e[2]) /\ Len(y) \in Nat /\ Len(y) >= Len(e)
  BY <1>2, <1>5
<1>8. ASSUME x[1] < y[1] PROVE Lex(x, y)
  <2>1. 1 \in 1 .. Len(y) /\ 1 <= Len(x) + 1 /\ \A j \in 1 .. 1 - 1 : x[j] = y[j]
    BY <1>1, <1>2, <1>6, <1>7
  <2> QED BY <1>8, <2>1 DEF Lex
<1>9. ASSUME Len(e) = 2, x[1] = y[1], x[2] < y[2], Len(x) >= 2 PROVE Lex(x, y)
  <2>1. 2 \in 1 .. Len(y) /\ 2 <= Len(x) + 1 /\ \A j \in 1 .. 2 - 1 : x[j] = y[j]
    BY <1>7, <1>9
  <2> QED BY <1>9, <2>1 DEF Lex
<1>10. CASE a < 65536 \/ b < 65536
  <2>1. ASSUME NEW c \in Nat, ~(c < 65536), c < 1114112
        PROVE  /\ 55296 + (c - 65536) \div 1024 \in Nat
               /\ 55296 <= 55296 + (c - 65536) \div 1024
               /\ 55296 + (c - 65536) \div 1024 <= 56319
    BY <2>1
  <2>2. a < 65536 \/ (d[1] \in Nat /\ 55296 <= d[1] /\ d[1] <= 56319)
    BY <1>1, <1>3, <2>1
  <2>3. b < 65536 \/ (e[1] \in Nat /\ 55296 <= e[1] /\ e[1] <= 56319)
    BY <1>2, <1>3, <2>1
  <2>4. /\ a < 65536 => d[1] = a
        /\ b < 65536 => e[1] = b
        /\ a \in Nat /\ b \in Nat
    BY <1>1, <1>2
  <2>5. d[1] < e[1]
    <3>3. (IF 57343 < a /\ a < 65536 THEN a + 1114112 ELSE a)
            < (IF 57343 < b /\ b < 65536 THEN b + 1114112 ELSE b)
      BY DEF Weight
    <3>4. CASE a < 65536 /\ b < 65536
      BY <1>3, <2>4, <3>3, <3>4
    <3>5. CASE a < 65536 /\ ~(b < 65536)
      <4>1. a < 55296
        BY <1>3, <2>4, <3>3, <3>5
      <4> QED BY <2>3, <2>4, <3>5, <4>1
    <3>6. CASE ~(a < 65536) /\ b < 65536
      <4>1. 57343 < b
        BY <1>3, <2>4, <3>3, <3>6
      <4> QED BY <2>2, <2>4, <3>6, <4>1
    <3> QED BY <1>10, <3>4, <3>5, <3>6
  <2>6. x[1] < y[1]
    BY <1>6, <1>7, <2>5
  <2>7. Lex(x, y)
    BY <1>8, <2>6
  <2> QED BY <2>7 DEF x, y, d, e
<1>11. CASE ~(a < 65536) /\ ~(b < 65536)
  <2> DEFINE m == a - 65536
             n == b - 65536
  <2>1. m \in Nat /\ n \in Nat /\ m < n
    BY <1>1, <1>2, <1>3, <1>11 DEF Weight
  <2> HIDE DEF m, n
  <2>2. \/ m \div 1024 < n \div 1024
        \/ m \div 1024 = n \div 1024 /\ m % 1024 < n % 1024
    BY <2>1
  <2>3. /\ m \div 1024 \in Nat /\ n \div 1024 \in Nat /\ m % 1024 \in Nat /\ n % 1024 \in Nat
    BY <2>1
  <2>4. /\ d[1] = 55296 + m \div 1024 /\ d[2] = 56320 + (m % 1024) /\ Len(d) = 2
        /\ e[1] = 55296 + n \div 1024 /\ e[2] = 56320 + (n % 1024) /\ Len(e) = 2
    BY <1>1, <1>2, <1>11 DEF m, n
  <2>5. CASE m \div 1024 < n \div 1024
    <3>1. d[1] < e[1]
      BY <2>3, <2>4, <2>5
    <3>2. x[1] < y[1]
      BY <1>6, <1>7, <3>1
    <3>3. Lex(x, y)
      BY <1>8, <3>2
    <3> QED BY <3>3 DEF x, y, d, e
  <2>6. CASE m \div 1024 = n \div 1024 /\ m % 1024 < n % 1024
    <3>1. d[1] = e[1] /\ d[2] < e[2]
      BY <2>3, <2>4, <2>6
    <3>2. x[1] = y[1] /\ x[2] < y[2] /\ Len(x) >= 2
      BY <1>6, <1>7, <2>4, <3>1
    <3>3. Lex(x, y)
      BY <1>9, <2>4, <3>2
    <3> QED BY <3>3 DEF x, y, d, e
  <2> QED BY <2>2, <2>5, <2>6
<1> QED BY <1>10, <1>11

\* What the standard puts first has the smaller units.
LEMMA PrecedesInUnits ==
  ASSUME NEW x \in Seq(Char), NEW y \in Seq(Char), Precedes(x, y)
  PROVE  Lex(Units(x), Units(y))
<1> DEFINE U(z) == Encoded(Utf16Code, z)
<1>0. Units(x) = U(x) /\ Units(y) = U(y)
  BY UnitsForm
<1>00. \A z \in Seq(Char) : U(z) \in Codes
  BY Utf16CodeType, EncodedParts
<1>1. ASSUME NEW s \in Seq(Char), NEW t \in Seq(Char) PROVE U(Cat(s, t)) = Cat(U(s), U(t))
  BY Utf16CodeType, EncodedWhole
<1>2. ASSUME NEW s \in Seq(Char), s # <<>>
      PROVE  /\ U(s) = Cat(Utf16Code[Head(s)], U(Tail(s))) /\ Head(s) \in Char
             /\ U(Tail(s)) \in Codes /\ Utf16Code[Head(s)] \in Codes
  <2>1. Head(s) \in Char /\ Tail(s) \in Seq(Char)
    BY <1>2, FirstAndRest
  <2>2. U(s) = Cat(Utf16Code[Head(s)], U(Tail(s)))
    BY <1>2, Utf16CodeType, EncodedParts
  <2> QED BY <1>00, <2>1, <2>2, Utf16CodeType
<1> HIDE DEF U
<1>3. CASE Len(x) < Len(y) /\ x = SubSeq(y, 1, Len(x))
  <2> DEFINE i == Len(x) + 1
             back == SubSeq(y, i, Len(y))
  <2>1. i \in 1 .. Len(y) /\ i - 1 = Len(x)
    BY <1>3
  <2>2. /\ back \in Seq(Char) /\ back # <<>> /\ y = Cat(x, back)
    BY <1>3, <2>1, SplitAt
  <2> HIDE DEF back, i
  <2>3. U(y) = Cat(U(x), U(back)) /\ U(x) \in Codes /\ U(back) \in Codes
    BY <1>00, <1>1, <2>2
  <2>4. Len(U(back)) > 0
    <3>1. /\ U(back) = Cat(Utf16Code[Head(back)], U(Tail(back))) /\ Head(back) \in Char
          /\ U(Tail(back)) \in Codes /\ Utf16Code[Head(back)] \in Codes
      BY <1>2, <2>2
    <3>2. Len(Utf16Code[Head(back)]) > 0
      BY <3>1, Utf16Forms
    <3> QED BY <3>1, <3>2, CatStarts
  <2> DEFINE u == U(x)
             v == U(back)
             w == U(y)
  <2>5. u \in Codes /\ v \in Codes /\ Len(v) > 0 /\ w = Cat(u, v)
    BY <2>3, <2>4
  <2> HIDE DEF u, v, w
  <2>6. /\ Len(w) = Len(u) + Len(v) /\ Len(u) \in Nat /\ Len(v) \in Nat
        /\ \A k \in 1 .. Len(u) : w[k] = u[k]
    BY <2>5, CatAt
  <2>7. /\ Len(u) + 1 \in 1 .. Len(w) /\ ~(Len(u) + 1 <= Len(u))
        /\ \A k \in 1 .. (Len(u) + 1) - 1 : u[k] = w[k]
    BY <2>5, <2>6
  <2>8. Lex(u, w)
    BY <2>6, <2>7 DEF Lex
  <2> QED BY <1>0, <2>8 DEF u, w
<1>4. ASSUME NEW i \in DOMAIN x \cap DOMAIN y, SubSeq(x, 1, i - 1) = SubSeq(y, 1, i - 1),
             Weight(x[i]) < Weight(y[i])
      PROVE  Lex(Units(x), Units(y))
  <2>1. i \in 1 .. Len(x) /\ i \in 1 .. Len(y)
    OBVIOUS
  <2> DEFINE p == SubSeq(x, 1, i - 1)
             s == SubSeq(x, i, Len(x))
             t == SubSeq(y, i, Len(y))
  <2>2. /\ p \in Seq(Char) /\ s \in Seq(Char) /\ s # <<>> /\ Head(s) = x[i] /\ x = Cat(p, s)
    BY <2>1, SplitAt
  <2>3. /\ t \in Seq(Char) /\ t # <<>> /\ Head(t) = y[i] /\ y = Cat(p, t)
    BY <1>4, <2>1, SplitAt
  <2> HIDE DEF p, s, t
  <2>4. Lex(U(s), U(t))
    <3>1. /\ U(s) = Cat(Utf16Code[Head(s)], U(Tail(s))) /\ Head(s) \in Char /\ U(Tail(s)) \in Codes
      BY <1>2, <2>2
    <3>2. /\ U(t) = Cat(Utf16Code[Head(t)], U(Tail(t))) /\ Head(t) \in Char /\ U(Tail(t)) \in Codes
      BY <1>2, <2>3
    <3>3. Weight(Head(s)) < Weight(Head(t))
      BY <1>4, <2>2, <2>3
    <3> QED BY <3>1, <3>2, <3>3, LighterFirst
  <2>5. U(x) = Cat(U(p), U(s)) /\ U(y) = Cat(U(p), U(t))
    BY <1>1, <2>2, <2>3
  <2>6. U(p) \in Codes /\ U(s) \in Codes /\ U(t) \in Codes
    BY <1>00, <2>2, <2>3
  <2> QED BY <1>0, <2>4, <2>5, <2>6, LexAfter
<1> QED BY <1>3, <1>4 DEF Precedes

\* Two prefixes are the same when their elements are.
LEMMA PrefixSame ==
  ASSUME NEW A, NEW x \in Seq(A), NEW y \in Seq(A), NEW n \in Nat, n <= Len(x), n <= Len(y)
  PROVE  SubSeq(x, 1, n) = SubSeq(y, 1, n) <=> \A j \in 1 .. n : x[j] = y[j]
<1> DEFINE p == SubSeq(x, 1, n)
           q == SubSeq(y, 1, n)
<1>1. /\ p \in Seq(A) /\ Len(p) = n /\ \A j \in 1 .. n : p[j] = x[j]
      /\ q \in Seq(A) /\ Len(q) = n /\ \A j \in 1 .. n : q[j] = y[j]
  OBVIOUS
<1> HIDE DEF p, q
<1>2. ASSUME p = q PROVE \A j \in 1 .. n : x[j] = y[j]
  BY <1>1, <1>2
<1>3. ASSUME \A j \in 1 .. n : x[j] = y[j] PROVE p = q
  <2>1. \A j \in 1 .. Len(p) : p[j] = q[j]
    BY <1>1, <1>3
  <2> QED BY <1>1, <2>1, SeqEqual, Zenon
<1> QED BY <1>2, <1>3 DEF p, q

\* lessUTF16 compares the units.
LEMMA LessIsLex ==
  ASSUME NEW x \in Seq(Char), NEW y \in Seq(Char)
  PROVE  lessUTF16(x, y) <=> Lex(Units(x), Units(y))
<1> DEFINE u == Units(x)
           v == Units(y)
<1>1. u \in Seq(Nat) /\ v \in Seq(Nat)
  BY UnitsForm DEF Codes
<1>2. lessUTF16(x, y) <=>
        \E i \in DOMAIN v : /\ i <= Len(u) + 1
                            /\ SubSeq(u, 1, i - 1) = SubSeq(v, 1, i - 1)
                            /\ i <= Len(u) => u[i] < v[i]
  BY DEF lessUTF16
<1> HIDE DEF u, v
<1>3. DOMAIN v = 1 .. Len(v) /\ Len(u) \in Nat /\ Len(v) \in Nat
  BY <1>1
<1>4. ASSUME NEW i \in 1 .. Len(v), i <= Len(u) + 1
      PROVE  SubSeq(u, 1, i - 1) = SubSeq(v, 1, i - 1) <=> \A j \in 1 .. i - 1 : u[j] = v[j]
  <2>1. i - 1 \in Nat /\ i - 1 <= Len(u) /\ i - 1 <= Len(v)
    BY <1>3, <1>4
  <2> QED BY <1>1, <2>1, PrefixSame
<1>5. lessUTF16(x, y) <=> Lex(u, v)
  BY <1>2, <1>3, <1>4, Zenon DEF Lex
<1> QED BY <1>5 DEF u, v

\* Of two names one precedes the other.
LEMMA PrecedesTotal ==
  ASSUME NEW x \in Seq(Char), NEW y \in Seq(Char), x # y
  PROVE  Precedes(x, y) \/ Precedes(y, x)
<1> DEFINE T == {i \in Nat : i \in 1 .. Len(x) /\ i \in 1 .. Len(y) /\ x[i] # y[i]}
<1>0. /\ Len(x) \in Nat /\ Len(y) \in Nat /\ DOMAIN x = 1 .. Len(x) /\ DOMAIN y = 1 .. Len(y)
      /\ \A i \in 1 .. Len(x) : x[i] \in Char
      /\ \A i \in 1 .. Len(y) : y[i] \in Char
  OBVIOUS
<1>1. CASE T = {}
  <2>1. \A i \in Nat : i \in 1 .. Len(x) /\ i \in 1 .. Len(y) => x[i] = y[i]
    BY <1>1
  <2> HIDE DEF T
  <2>2. Len(x) # Len(y)
    <3> SUFFICES ASSUME Len(x) = Len(y) PROVE FALSE
      OBVIOUS
    <3>1. \A i \in 1 .. Len(x) : x[i] = y[i]
      BY <1>0, <2>1
    <3>2. x = y
      BY <3>1, SeqEqual, Zenon
    <3> QED BY <3>2
  <2>3. ASSUME NEW s \in Seq(Char), NEW t \in Seq(Char), Len(s) < Len(t),
               \A i \in 1 .. Len(s) : s[i] = t[i]
        PROVE  Precedes(s, t)
    <3>1. Len(s) \in Nat /\ Len(s) <= Len(s) /\ Len(s) <= Len(t)
      BY <2>3
    <3>2. SubSeq(s, 1, Len(s)) = SubSeq(t, 1, Len(s))
      BY <2>3, <3>1, PrefixSame
    <3>3. s = SubSeq(t, 1, Len(s))
      BY <3>2, SubSeqFull
    <3> QED BY <2>3, <3>3, Zenon DEF Precedes
  <2>4. CASE Len(x) < Len(y)
    <3>1. \A i \in 1 .. Len(x) : x[i] = y[i]
      BY <1>0, <2>1, <2>4
    <3> QED BY <2>3, <2>4, <3>1
  <2>5. CASE Len(y) < Len(x)
    <3>1. \A i \in 1 .. Len(y) : y[i] = x[i]
      BY <1>0, <2>1, <2>5
    <3> QED BY <2>3, <2>5, <3>1
  <2> DEFINE m == Len(x)
             n == Len(y)
  <2>6. m < n \/ n < m
    <3>1. m \in Nat /\ n \in Nat /\ m # n
      BY <1>0, <2>2
    <3> HIDE DEF m, n
    <3> QED BY ONLY <3>1
  <2> QED BY <2>4, <2>5, <2>6
<1>2. CASE T # {}
  <2>1. PICK i \in T : \A j \in T : i <= j
    <3>1. T \subseteq Nat
      OBVIOUS
    <3> HIDE DEF T
    <3> QED BY <1>2, <3>1, LeastNumber
  <2>2. i \in Nat /\ i \in 1 .. Len(x) /\ i \in 1 .. Len(y) /\ x[i] # y[i]
    OBVIOUS
  <2>3. \A j \in 1 .. i - 1 : x[j] = y[j]
    <3> SUFFICES ASSUME NEW j \in 1 .. i - 1, x[j] # y[j] PROVE FALSE
      OBVIOUS
    <3>1. j \in T /\ ~(i <= j)
      BY <1>0, <2>2
    <3> QED BY <2>1, <3>1
  <2> HIDE DEF T
  <2>4. i - 1 \in Nat /\ i - 1 <= Len(x) /\ i - 1 <= Len(y)
    BY <1>0, <2>2
  <2>5. SubSeq(x, 1, i - 1) = SubSeq(y, 1, i - 1)
    BY <2>3, <2>4, PrefixSame
  <2>6. i \in DOMAIN x \cap DOMAIN y /\ i \in DOMAIN y \cap DOMAIN x
    BY <1>0, <2>2
  <2>7. Weight(x[i]) < Weight(y[i]) \/ Weight(y[i]) < Weight(x[i])
    <3>1. ASSUME NEW a \in Char, NEW b \in Char, a # b
          PROVE  Weight(a) < Weight(b) \/ Weight(b) < Weight(a)
      BY <3>1 DEF Char, Weight
    <3>2. x[i] \in Char /\ y[i] \in Char
      BY <1>0, <2>2
    <3> QED BY <2>2, <3>1, <3>2
  <2> QED BY <2>5, <2>6, <2>7, Zenon DEF Precedes
<1> QED BY <1>1, <1>2

\* lessUTF16 is a strict linear order, the one of the standard.
LEMMA NameOrder ==
  /\ \A x \in Seq(Char) : ~lessUTF16(x, x)
  /\ \A x, y, z \in Seq(Char) : lessUTF16(x, y) /\ lessUTF16(y, z) => lessUTF16(x, z)
  /\ \A x, y \in Seq(Char) : x # y => lessUTF16(x, y) \/ lessUTF16(y, x)
  /\ \A x, y \in Seq(Char) : lessUTF16(x, y) <=> Precedes(x, y)
<1>1. ASSUME NEW x \in Seq(Char) PROVE ~lessUTF16(x, x)
  BY UnitsForm, LessIsLex, LexIrreflexive
<1>2. ASSUME NEW x \in Seq(Char), NEW y \in Seq(Char), NEW z \in Seq(Char),
             lessUTF16(x, y), lessUTF16(y, z)
      PROVE  lessUTF16(x, z)
  <2> DEFINE u == Units(x)
             v == Units(y)
             w == Units(z)
  <2>1. u \in Seq(Nat) /\ v \in Seq(Nat) /\ w \in Seq(Nat)
    BY UnitsForm DEF Codes
  <2>2. Lex(u, v) /\ Lex(v, w)
    BY <1>2, LessIsLex
  <2>3. Lex(u, w) => lessUTF16(x, z)
    BY LessIsLex
  <2> HIDE DEF u, v, w
  <2> QED BY <2>1, <2>2, <2>3, LexTransitive
<1>3. ASSUME NEW x \in Seq(Char), NEW y \in Seq(Char), Precedes(x, y) PROVE lessUTF16(x, y)
  BY <1>3, PrecedesInUnits, LessIsLex
<1>4. ASSUME NEW x \in Seq(Char), NEW y \in Seq(Char), x # y
      PROVE  lessUTF16(x, y) \/ lessUTF16(y, x)
  BY <1>3, <1>4, PrecedesTotal
<1>5. ASSUME NEW x \in Seq(Char), NEW y \in Seq(Char), lessUTF16(x, y) PROVE Precedes(x, y)
  <2>1. x # y
    BY <1>1, <1>5
  <2>2. ~Precedes(y, x)
    BY <1>1, <1>2, <1>3, <1>5
  <2> QED BY <2>1, <2>2, PrecedesTotal
<1> QED BY <1>1, <1>2, <1>3, <1>4, <1>5

\* Sorted lists every name.
LEMMA SortedNames ==
  ASSUME NEW D, D \subseteq Seq(Char), IsFiniteSet(D)
  PROVE  /\ Cardinality(D) \in Nat /\ Sorted(D) \in [1 .. Cardinality(D) -> D]
         /\ \A k \in D : \E i \in 1 .. Cardinality(D) : Sorted(D)[i] = k
<1> DEFINE n == Cardinality(D)
           below(k) == {l \in D : lessUTF16(l, k)}
           rank(k) == Cardinality(below(k))
<1>1. n \in Nat
  BY FS_CardinalityType
<1>2. /\ \A x \in D : ~lessUTF16(x, x)
      /\ \A x, y, z \in D : lessUTF16(x, y) /\ lessUTF16(y, z) => lessUTF16(x, z)
      /\ \A x, y \in D : x # y => lessUTF16(x, y) \/ lessUTF16(y, x)
  BY NameOrder
<1>3. Sorted(D) = [i \in 1 .. n |-> CHOOSE k \in D : rank(k) = i - 1]
  BY DEF Sorted
<1>4. \A k \in D : below(k) \subseteq D /\ IsFiniteSet(below(k)) /\ rank(k) \in Nat
  <2> SUFFICES ASSUME NEW k \in D
               PROVE  below(k) \subseteq D /\ IsFiniteSet(below(k)) /\ rank(k) \in Nat
    OBVIOUS
  <2>1. below(k) \in SUBSET D
    OBVIOUS
  <2>2. IsFiniteSet(below(k))
    BY <2>1, FS_Subset
  <2> QED BY <2>1, <2>2, FS_CardinalityType
<1>5. ASSUME NEW k \in D PROVE rank(k) \in 0 .. n - 1
  <2>1. below(k) \in SUBSET (D \ {k})
    BY <1>2
  <2>2. IsFiniteSet(D \ {k}) /\ Cardinality(D \ {k}) = n - 1
    BY FS_RemoveElement
  <2>3. rank(k) <= n - 1
    BY <2>1, <2>2, FS_Subset
  <2>4. rank(k) \in Nat
    BY <1>4
  <2> HIDE DEF rank
  <2> QED BY <1>1, <2>3, <2>4
<1>6. ASSUME NEW k \in D, NEW m \in D, lessUTF16(k, m) PROVE rank(k) < rank(m)
  <2>1. below(k) \in SUBSET (below(m) \ {k})
    BY <1>2, <1>6
  <2>2. k \in below(m)
    BY <1>6
  <2>3. IsFiniteSet(below(m)) /\ rank(k) \in Nat /\ rank(m) \in Nat
    BY <1>4
  <2> DEFINE b == below(k)
             c == below(m)
  <2>4. /\ b \in SUBSET (c \ {k}) /\ k \in c /\ IsFiniteSet(c)
        /\ rank(k) = Cardinality(b) /\ rank(m) = Cardinality(c)
    BY <2>1, <2>2, <2>3
  <2> HIDE DEF b, c, rank
  <2>5. IsFiniteSet(c \ {k}) /\ Cardinality(c \ {k}) = Cardinality(c) - 1
    BY <2>4, FS_RemoveElement
  <2>6. Cardinality(b) <= Cardinality(c \ {k})
    BY <2>4, <2>5, FS_Subset
  <2> QED BY <2>3, <2>4, <2>5, <2>6
<1>7. ASSUME NEW k \in D, NEW m \in D, rank(k) = rank(m) PROVE k = m
  <2> SUFFICES ASSUME k # m PROVE FALSE
    OBVIOUS
  <2>1. rank(k) < rank(m) \/ rank(m) < rank(k)
    BY <1>2, <1>6
  <2>2. rank(k) \in Nat /\ rank(m) \in Nat
    BY <1>4
  <2> HIDE DEF rank
  <2> QED BY <1>7, <2>1, <2>2
<1> DEFINE r == [k \in D |-> rank(k)]
<1> HIDE DEF rank
<1>8. r \in Injection(D, 0 .. n - 1)
  BY <1>5, <1>7 DEF Injection, IsInjective
<1>9. IsFiniteSet(0 .. n - 1) /\ Cardinality(0 .. n - 1) = n
  <2>1. 0 \in Int /\ n - 1 \in Int
    BY <1>1
  <2>2. /\ IsFiniteSet(0 .. n - 1)
        /\ Cardinality(0 .. n - 1) = IF 0 > n - 1 THEN 0 ELSE (n - 1) - 0 + 1
    BY <2>1, FS_Interval
  <2> HIDE DEF n
  <2> QED BY <1>1, <2>2
<1>10. r \in Surjection(D, 0 .. n - 1)
  BY <1>8, <1>9, FS_Injection
<1>11. ASSUME NEW i \in 1 .. n PROVE \E k \in D : rank(k) = i - 1
  <2>1. i - 1 \in 0 .. n - 1
    BY <1>1
  <2> QED BY <1>10, <2>1 DEF Surjection
<1>12. ASSUME NEW i \in 1 .. n PROVE Sorted(D)[i] \in D /\ rank(Sorted(D)[i]) = i - 1
  BY <1>3, <1>11
<1>13. Sorted(D) \in [1 .. n -> D]
  BY <1>3, <1>12
<1>14. ASSUME NEW k \in D PROVE \E i \in 1 .. n : Sorted(D)[i] = k
  <2>1. rank(k) \in 0 .. n - 1
    BY <1>5
  <2>2. rank(k) + 1 \in 1 .. n /\ (rank(k) + 1) - 1 = rank(k)
    BY <1>1, <2>1
  <2>3. Sorted(D)[rank(k) + 1] \in D /\ rank(Sorted(D)[rank(k) + 1]) = rank(k)
    BY <1>12, <2>2
  <2>4. Sorted(D)[rank(k) + 1] = k
    BY <1>7, <2>3
  <2> QED BY <2>2, <2>4
<1> QED BY <1>1, <1>13, <1>14

-----------------------------------------------------------------------------
(* Lists, arrays and objects in canonical form.                            *)

\* Texts of the elements of T that can be told from each other, whatever
\* follows what they are in, and from the end of it.
Told(T, c) ==
  /\ c \in [T -> Codes]
  /\ \A a \in T : Len(c[a]) > 0 /\ c[a][1] \notin {44, 93, 125}
  /\ \A a \in T, b \in T : \A u, v \in Endings : Cat(c[a], u) = Cat(c[b], v) => a = b

\* Each element's text after a comma.
AfterComma(T, c) == [a \in T |-> Cat(<<44>>, c[a])]

\* The elements of a list, each's text, between brackets.
Listing(T, c, open, close) ==
  [s \in Seq(T) |-> Enclosed(open, [i \in DOMAIN s |-> c[s[i]]], close)]

\* Texts that start with a comma or a bracket that closes are endings.
LEMMA EndingsAre ==
  ASSUME NEW n \in {44, 93, 125}, NEW d, d = <<n>>
  PROVE  /\ Endings \subseteq Codes /\ d \in Codes
         /\ \A u \in Codes : Cat(d, u) \in Endings /\ Cat(d, u)[1] = n
<1>1. d \in Codes /\ Len(d) > 0 /\ d[1] = n
  BY OneCode
<1>2. ASSUME NEW u \in Codes PROVE Cat(d, u) \in Endings /\ Cat(d, u)[1] = n
  <2>1. Cat(d, u) \in Codes
    BY <1>1, CatIsCodes
  <2>2. Cat(d, u)[1] = n /\ Len(Cat(d, u)) > 0
    BY <1>1, CatStarts
  <2> QED BY <2>1, <2>2 DEF Endings
<1> QED BY <1>1, <1>2 DEF Endings

\* An element after a comma: what its text is before something else.
LEMMA CommaFirst ==
  ASSUME NEW T, NEW c \in [T -> Codes], NEW comma, comma = << 44 >>
  PROVE  /\ AfterComma(T, c) \in [T -> Codes] /\ comma \in Codes
         /\ \A a \in T : AfterComma(T, c)[a] = Cat(comma, c[a])
         /\ \A a \in T, u \in Codes :
               /\ Cat(c[a], u) \in Codes
               /\ Cat(AfterComma(T, c)[a], u) = Cat(comma, Cat(c[a], u))
<1>1. comma \in Codes
  BY OneCode
<1>2. \A a \in T : AfterComma(T, c)[a] = Cat(comma, c[a]) /\ Cat(comma, c[a]) \in Codes
  BY <1>1, CatIsCodes DEF AfterComma
<1>3. AfterComma(T, c) \in [T -> Codes]
  <2> DEFINE f == AfterComma(T, c)
  <2>1. f = [a \in T |-> Cat(comma, c[a])]
    BY DEF AfterComma
  <2> QED BY <1>2, <2>1
<1>4. ASSUME NEW a \in T, NEW u \in Codes
      PROVE  Cat(c[a], u) \in Codes /\ Cat(AfterComma(T, c)[a], u) = Cat(comma, Cat(c[a], u))
  <2>1. c[a] \in Codes
    OBVIOUS
  <2>2. Cat(Cat(comma, c[a]), u) = Cat(comma, Cat(c[a], u)) /\ Cat(c[a], u) \in Codes
    BY <1>1, <2>1, CatAssociative, CatIsCodes
  <2> QED BY <1>2, <2>2
<1> QED BY <1>1, <1>2, <1>3, <1>4

\* Elements after commas can be read up to what closes their list.
LEMMA ListReadable ==
  ASSUME NEW T, NEW c, Told(T, c), NEW close \in {93, 125}, NEW stop, stop = <<close>>
  PROVE  Readable(T, AfterComma(T, c), stop, Endings)
<1> DEFINE comma == <<44>>
           f == AfterComma(T, c)
<1>1. c \in [T -> Codes] /\ comma = <<44>>
  BY DEF Told
<1>2. /\ Endings \subseteq Codes /\ stop \in Codes
      /\ \A u \in Codes : Cat(stop, u) \in Endings /\ Cat(stop, u)[1] = close
  <2>1. close \in {44, 93, 125}
    OBVIOUS
  <2> QED BY <2>1, EndingsAre
<1>3. \A u \in Codes : Cat(comma, u) \in Endings /\ Cat(comma, u)[1] = 44
  <2>1. 44 \in {44, 93, 125}
    OBVIOUS
  <2> QED BY <1>1, <2>1, EndingsAre
<1>4. /\ f \in [T -> Codes] /\ comma \in Codes
      /\ \A a \in T, u \in Codes :
            Cat(c[a], u) \in Codes /\ Cat(f[a], u) = Cat(comma, Cat(c[a], u))
  BY <1>1, CommaFirst
<1> HIDE DEF comma, f
<1>5. ASSUME NEW a \in T, NEW u \in Endings PROVE Cat(f[a], u) \in Endings
  BY <1>2, <1>3, <1>4
<1>6. ASSUME NEW a \in T, NEW b \in T, NEW u \in Endings, NEW v \in Endings, Cat(f[a], u) = Cat(f[b], v)
      PROVE  a = b
  <2>1. Cat(comma, Cat(c[a], u)) = Cat(comma, Cat(c[b], v))
    BY <1>2, <1>4, <1>6
  <2>2. Cat(c[a], u) = Cat(c[b], v)
    BY <1>2, <1>4, <2>1, SameAfter
  <2> QED BY <2>2 DEF Told
<1>7. ASSUME NEW a \in T, NEW u \in Endings, NEW v \in Codes PROVE Cat(f[a], u) # Cat(stop, v)
  <2>1. Cat(c[a], u) \in Codes /\ Cat(f[a], u) = Cat(comma, Cat(c[a], u))
    BY <1>2, <1>4
  <2>2. Cat(comma, Cat(c[a], u))[1] = 44 /\ Cat(stop, v)[1] = close
    BY <1>2, <1>3, <2>1
  <2>3. 44 # close
    OBVIOUS
  <2> QED BY <2>1, <2>2, <2>3
<1>8. Readable(T, f, stop, Endings)
  BY <1>2, <1>4, <1>5, <1>6, <1>7 DEF Readable
<1> QED BY <1>8 DEF f

\* What is put before the first code is put before all.
LEMMA FlattenPrefixed ==
  ASSUME NEW f \in Seq(Codes), NEW g \in Seq(Codes), Len(f) = Len(g), Len(f) > 0,
         NEW h \in Codes, g[1] = Cat(h, f[1]), \A i \in 2 .. Len(f) : g[i] = f[i]
  PROVE  FlattenSeq(g) = Cat(h, FlattenSeq(f))
<1> DEFINE r == [i \in 1 .. Len(f) - 1 |-> f[i + 1]]
           n == Len(f)
<1>1. n \in Nat \ {0} /\ \A i \in 1 .. n : f[i] \in Codes /\ g[i] \in Codes
  OBVIOUS
<1>2. r \in [1 .. n - 1 -> Codes] /\ n - 1 \in Nat
  BY <1>1
<1>3. r \in Seq(Codes) /\ Len(r) = n - 1
  <2> HIDE DEF r, n
  <2> QED BY <1>2, Listed
<1>4. \A i \in 1 .. n - 1 : f[i + 1] = r[i] /\ g[i + 1] = r[i]
  BY <1>1
<1>5. f[1] \in Codes /\ g[1] \in Codes /\ Len(f) = Len(r) + 1 /\ Len(g) = Len(r) + 1
  BY <1>1, <1>3
<1>6. Len(r) = n - 1
  BY <1>3
<1> HIDE DEF r
<1>7. f = <<f[1]>> \o r /\ g = <<g[1]>> \o r
  <2>1. \A i \in 1 .. Len(r) : f[i + 1] = r[i] /\ g[i + 1] = r[i]
    BY <1>4, <1>6
  <2> QED BY <1>3, <1>5, <2>1, PrependedCodes
<1>8. /\ FlattenSeq(<<f[1]>> \o r) = f[1] \o FlattenSeq(r)
      /\ FlattenSeq(<<g[1]>> \o r) = g[1] \o FlattenSeq(r)
  BY <1>3, <1>5, FlattenFirst
<1>9. FlattenSeq(r) \in Codes
  BY <1>3, FlattenIsCodes
<1> DEFINE a == f[1]
           b == g[1]
           w == FlattenSeq(r)
<1>10. /\ FlattenSeq(f) = Cat(a, w) /\ FlattenSeq(g) = Cat(b, w)
       /\ a \in Codes /\ b = Cat(h, a) /\ w \in Codes
  BY <1>5, <1>7, <1>8, <1>9 DEF Cat
<1> HIDE DEF a, b, w
<1>11. Cat(Cat(h, a), w) = Cat(h, Cat(a, w))
  BY <1>10, CatAssociative
<1> QED BY <1>10, <1>11

\* A list's text is its elements' after commas, but for the first comma.
LEMMA ListForm ==
  ASSUME NEW T, NEW c \in [T -> Codes], NEW s \in Seq(T), NEW open \in Nat, NEW close \in Nat
  PROVE  \E body \in Codes :
           /\ Listing(T, c, open, close)[s] = Cat(<<open>>, Cat(body, <<close>>))
           /\ s = <<>> => body = <<>>
           /\ s # <<>> => Cat(<<44>>, body) = Encoded(AfterComma(T, c), s)
<1> DEFINE f == AfterComma(T, c)
           texts == [i \in DOMAIN s |-> c[s[i]]]
           codes == [i \in DOMAIN s |-> f[s[i]]]
           item(i) == (IF i = 1 THEN <<>> ELSE <<44>>) \o texts[i]
           items == [i \in DOMAIN texts |-> item(i)]
           body == FlattenSeq(items)
           o == <<open>>
           e == <<close>>
           comma == <<44>>
           n == Len(s)
<1>1. /\ n \in Nat /\ DOMAIN s = 1 .. n /\ DOMAIN texts = 1 .. n
      /\ o \in Codes /\ e \in Codes /\ comma \in Codes
      /\ f \in [T -> Codes] /\ \A a \in T : f[a] = Cat(comma, c[a])
  BY OneCode, CommaFirst
<1>2. Listing(T, c, open, close)[s] = Cat(Cat(o, body), e)
  <2>1. Listing(T, c, open, close)[s] = Enclosed(open, texts, close)
    BY DEF Listing
  <2> QED BY <2>1, Zenon DEF Enclosed, Cat
<1>3. Encoded(f, s) = FlattenSeq(codes)
  BY Zenon DEF Encoded
<1>4. /\ codes \in Seq(Codes) /\ Len(codes) = n
      /\ \A i \in 1 .. n : codes[i] = f[s[i]]
  <2> HIDE DEF f
  <2> QED BY <1>1, CodeByCode
<1>5. ASSUME NEW i \in 1 .. n
      PROVE  /\ items[i] \in Codes
             /\ i = 1 => codes[i] = Cat(comma, items[i])
             /\ i # 1 => items[i] = codes[i]
  <2> DEFINE m == c[s[i]]
  <2>1. items[i] = Cat(IF i = 1 THEN <<>> ELSE comma, m)
    <3>1. items[i] = item(i) /\ texts[i] = m
      BY <1>1
    <3> QED BY <3>1, Zenon DEF Cat
  <2>2. m \in Codes /\ codes[i] = Cat(comma, m) /\ codes[i] \in Codes
    <3>1. s[i] \in T
      BY <1>1
    <3> QED BY <1>1, <1>4, <3>1
  <2>3. Cat(<<>>, m) = m
    BY <2>2, CatEmpty
  <2> HIDE DEF items, codes, m, comma
  <2>4. CASE i = 1
    BY <2>1, <2>2, <2>3, <2>4, Zenon
  <2>5. CASE i # 1
    BY <2>1, <2>2, <2>5, Zenon
  <2> QED BY <2>4, <2>5
<1>6. items \in Seq(Codes) /\ Len(items) = n
  <2>1. items = [i \in 1 .. n |-> items[i]]
    BY <1>1
  <2> HIDE DEF items
  <2>2. items \in [1 .. n -> Codes]
    BY <1>5, <2>1
  <2> QED BY <1>1, <2>2, Listed
<1>7. body \in Codes
  BY <1>6, FlattenIsCodes
<1>8. ASSUME s = <<>> PROVE body = <<>>
  <2>1. n = 0
    BY <1>8
  <2> HIDE DEF items
  <2>2. items = <<>>
    BY <1>6, <2>1, EmptySeq
  <2> QED BY <2>2, FlattenEmpty
<1>9. ASSUME s # <<>> PROVE Cat(comma, body) = Encoded(f, s)
  <2>1. 1 \in 1 .. n /\ n > 0
    BY <1>9
  <2> HIDE DEF items, codes, n, comma
  <2>2. codes[1] = Cat(comma, items[1])
    BY <1>5, <2>1
  <2>3. \A i \in 2 .. n : i \in 1 .. n /\ i # 1
    BY <1>1
  <2>4. \A i \in 2 .. n : codes[i] = items[i]
    BY <1>5, <2>3
  <2>5. FlattenSeq(codes) = Cat(comma, FlattenSeq(items))
    <3>1. Len(items) = Len(codes) /\ Len(items) > 0 /\ \A i \in 2 .. Len(items) : codes[i] = items[i]
      BY <1>4, <1>6, <2>1, <2>4
    <3>2. items \in Seq(Codes) /\ codes \in Seq(Codes) /\ comma \in Codes
      BY <1>1, <1>4, <1>6
    <3> QED BY ONLY <2>2, <3>1, <3>2, FlattenPrefixed
  <2> QED BY <1>3, <2>5
<1> HIDE DEF body, o, e, comma
<1>10. Cat(Cat(o, body), e) = Cat(o, Cat(body, e))
  BY <1>1, <1>7, CatAssociative
<1> QED BY <1>2, <1>7, <1>8, <1>9, <1>10 DEF o, e, comma

\* Lists can be told when their elements can.
LEMMA ListTold ==
  ASSUME NEW T, NEW c, Told(T, c),
         NEW open \in Nat, open \notin {44, 93, 125}, NEW close \in {93, 125}
  PROVE  /\ Told(Seq(T), Listing(T, c, open, close))
         /\ \A s \in Seq(T) : Listing(T, c, open, close)[s][1] = open
<1> DEFINE g == Listing(T, c, open, close)
           f == AfterComma(T, c)
           o == <<open>>
           e == <<close>>
           comma == <<44>>
<1>1. /\ o \in Codes /\ Len(o) > 0 /\ o[1] = open /\ e \in Codes /\ comma \in Codes
      /\ c \in [T -> Codes] /\ close \in Nat
  BY OneCode DEF Told
<1>2. \A s \in Seq(T) : \E body \in Codes :
        /\ g[s] = Cat(o, Cat(body, e))
        /\ s = <<>> => body = <<>>
        /\ s # <<>> => Cat(comma, body) = Encoded(f, s)
  BY <1>1, ListForm
<1>3. Readable(T, f, e, Endings)
  BY ListReadable
<1>4. /\ Endings \subseteq Codes
      /\ \A u \in Codes : Cat(e, u)[1] = close
  <2>1. close \in {44, 93, 125}
    OBVIOUS
  <2> QED BY <2>1, EndingsAre
<1>5. /\ f \in [T -> Codes]
      /\ \A a \in T : f[a] = Cat(comma, c[a])
      /\ \A a \in T, u \in Codes : Cat(c[a], u) \in Codes /\ Cat(f[a], u) = Cat(comma, Cat(c[a], u))
  BY <1>1, CommaFirst
<1>6. g = [s \in Seq(T) |-> g[s]]
  BY DEF Listing
<1> HIDE DEF g, f, o, e, comma
<1>7. ASSUME NEW s \in Seq(T) PROVE g[s] \in Codes /\ Len(g[s]) > 0 /\ g[s][1] = open
  <2>1. PICK b \in Codes : g[s] = Cat(o, Cat(b, e))
    BY <1>2
  <2>2. Cat(b, e) \in Codes
    BY <1>1, CatIsCodes
  <2>3. Cat(o, Cat(b, e)) \in Codes
    BY <1>1, <2>2, CatIsCodes
  <2> QED BY <1>1, <2>1, <2>2, <2>3, CatStarts
\* A list with elements does not look as one without.
<1>8. ASSUME NEW s \in Seq(T), s # <<>>, NEW b \in Codes, Cat(comma, b) = Encoded(f, s),
             NEW u \in Codes, NEW v \in Codes, Cat(e, u) = Cat(b, Cat(e, v))
      PROVE  FALSE
  <2> DEFINE h == Head(s)
             r == Encoded(f, Tail(s))
             w == Cat(e, v)
  <2>1. h \in T /\ r \in Codes /\ Encoded(f, s) = Cat(f[h], r) /\ w \in Codes
    <3>1. h \in T /\ Tail(s) \in Seq(T)
      BY <1>8, FirstAndRest
    <3>2. /\ \A x \in Seq(T) : Encoded(f, x) \in Codes
          /\ \A x \in Seq(T) : x # <<>> => Encoded(f, x) = Cat(f[Head(x)], Encoded(f, Tail(x)))
      BY ONLY <1>5, EncodedParts
    <3>3. Cat(e, v) \in Codes
      BY <1>1, CatIsCodes
    <3>4. Encoded(f, Tail(s)) \in Codes
      BY <3>1, <3>2, Zenon
    <3>5. s \in Seq(T) /\ s # <<>>
      BY <1>8
    <3>6. Encoded(f, s) = Cat(f[Head(s)], Encoded(f, Tail(s)))
      BY ONLY <3>2, <3>5, Zenon
    <3> QED BY <3>1, <3>3, <3>4, <3>6
  <2> HIDE DEF h, r, w
  <2>2. c[h] \in Codes /\ Len(c[h]) > 0 /\ c[h][1] \notin {44, 93, 125}
    BY <2>1 DEF Told
  <2>3. Cat(comma, b) = Cat(comma, Cat(c[h], r)) /\ Cat(c[h], r) \in Codes
    BY <1>5, <1>8, <2>1
  <2>4. b = Cat(c[h], r)
    BY <1>1, <2>3, SameAfter
  <2>5. Cat(b, w)[1] = b[1] /\ b[1] = c[h][1]
    <3>0. r \in Codes
      BY <2>1
    <3>1. b[1] = c[h][1] /\ Len(b) > 0
      BY ONLY <2>2, <2>4, <3>0, CatStarts
    <3> QED BY <2>1, <3>1, CatStarts
  <2>6. Cat(e, u)[1] = close
    BY <1>4
  <2> QED BY <1>8, <2>2, <2>5, <2>6 DEF w
<1>9. ASSUME NEW s \in Seq(T), NEW t \in Seq(T), NEW u \in Endings, NEW v \in Endings,
             Cat(g[s], u) = Cat(g[t], v)
      PROVE  s = t
  <2>1. PICK b \in Codes : /\ g[s] = Cat(o, Cat(b, e))
                           /\ s = <<>> => b = <<>>
                           /\ s # <<>> => Cat(comma, b) = Encoded(f, s)
    BY <1>2
  <2>2. PICK d \in Codes : /\ g[t] = Cat(o, Cat(d, e))
                           /\ t = <<>> => d = <<>>
                           /\ t # <<>> => Cat(comma, d) = Encoded(f, t)
    BY <1>2
  <2>3. u \in Codes /\ v \in Codes
    BY <1>4
  <2>4. ASSUME NEW x \in Codes, NEW w \in Codes
        PROVE  /\ Cat(x, Cat(e, w)) \in Codes /\ Cat(e, w) \in Codes
               /\ Cat(Cat(o, Cat(x, e)), w) = Cat(o, Cat(x, Cat(e, w)))
    <3>1. Cat(x, e) \in Codes /\ Cat(e, w) \in Codes /\ Cat(x, Cat(e, w)) \in Codes
      BY <1>1, <2>4, CatIsCodes
    <3>2. Cat(Cat(o, Cat(x, e)), w) = Cat(o, Cat(Cat(x, e), w))
      BY <1>1, <3>1, CatAssociative
    <3>3. Cat(Cat(x, e), w) = Cat(x, Cat(e, w))
      BY <1>1, CatAssociative
    <3> QED BY <3>1, <3>2, <3>3
  <2>5. Cat(b, Cat(e, u)) = Cat(d, Cat(e, v))
    <3>1. Cat(o, Cat(b, Cat(e, u))) = Cat(o, Cat(d, Cat(e, v)))
      BY <1>9, <2>1, <2>2, <2>3, <2>4
    <3> QED BY <1>1, <2>3, <2>4, <3>1, SameAfter
  <2>6. CASE s = <<>> /\ t # <<>>
    <3>1. Cat(b, Cat(e, u)) = Cat(e, u)
      BY <2>1, <2>3, <2>4, <2>6, CatEmpty
    <3>2. Cat(e, u) = Cat(d, Cat(e, v))
      BY <2>5, <3>1
    <3> QED BY <1>8, <2>2, <2>3, <2>6, <3>2
  <2>7. CASE s # <<>> /\ t = <<>>
    <3>1. Cat(d, Cat(e, v)) = Cat(e, v)
      BY <2>2, <2>3, <2>4, <2>7, CatEmpty
    <3>2. Cat(e, v) = Cat(b, Cat(e, u))
      BY <2>5, <3>1
    <3> QED BY <1>8, <2>1, <2>3, <2>7, <3>2
  <2>8. CASE s # <<>> /\ t # <<>>
    <3> DEFINE y == Cat(e, u)
               z == Cat(e, v)
    <3>1. y \in Codes /\ z \in Codes /\ Cat(b, y) = Cat(d, z)
      BY <2>3, <2>4, <2>5
    <3> HIDE DEF y, z
    <3>2. Cat(Cat(comma, b), y) = Cat(Cat(comma, d), z)
      BY <1>1, <3>1, CatAssociative
    <3>3. Cat(Encoded(f, s), Cat(e, u)) = Cat(Encoded(f, t), Cat(e, v))
      BY <2>1, <2>2, <2>8, <3>2 DEF y, z
    <3> QED BY <1>3, <2>3, <3>3, UniqueDecoding
  <2> QED BY <2>6, <2>7, <2>8
<1>10. g \in [Seq(T) -> Codes]
  BY <1>6, <1>7
<1>11. Told(Seq(T), g)
  BY <1>7, <1>9, <1>10 DEF Told
<1> QED BY <1>7, <1>11 DEF g

-----------------------------------------------------------------------------
(* Objects and their canonical form.                                       *)

\* Names with what they stand for, and what is written of one.
Pair(T) == Seq(Char) \X T
\* A pair as it is written.
ItemOf(T, c) == [p \in Pair(T) |-> Item(p[1], c[p[2]])]

\* A quoted string starts with a quote.
LEMMA QuotedStarts ==
  ASSUME NEW k \in Seq(Char), NEW u \in Codes
  PROVE  /\ Quoted(k) \in Codes /\ Cat(Quoted(k), u) \in Codes
         /\ Len(Cat(Quoted(k), u)) > 0 /\ Cat(Quoted(k), u)[1] = 34
<1> DEFINE q == Quoted(k)
           a == <<34>>
           w == Cat(Encoded(EscapeCode, k), a)
<1>1. a \in Codes /\ Len(a) > 0 /\ a[1] = 34
  BY OneCode
<1>2. Encoded(EscapeCode, k) \in Codes
  BY EscapeCodeType, EncodedParts
<1>3. q = Cat(a, w) /\ q \in Codes
  BY QuotedForm
<1> HIDE DEF a, q
<1>4. w \in Codes
  BY <1>1, <1>2, CatIsCodes
<1> HIDE DEF w
<1>5. q[1] = 34 /\ Len(q) > 0
  BY <1>1, <1>3, <1>4, CatStarts
<1>6. Cat(q, u) \in Codes /\ Len(Cat(q, u)) > 0 /\ Cat(q, u)[1] = 34
  BY <1>3, <1>5, CatStarts, CatIsCodes
<1> QED BY <1>3, <1>6 DEF q

\* A pair is a quoted name, a colon and a text.
LEMMA ItemForm ==
  ASSUME NEW k \in Seq(Char), NEW d \in Codes, NEW colon, colon = << 58 >>
  PROVE  /\ Item(k, d) = Cat(Quoted(k), Cat(colon, d)) /\ Item(k, d) \in Codes
         /\ colon \in Codes /\ Cat(colon, d) \in Codes
<1> DEFINE q == Quoted(k)
<1>1. q \in Codes /\ colon \in Codes
  BY QuotedForm, OneCode
<1>2. Item(k, d) = Cat(Cat(q, colon), d)
  BY Zenon DEF Item, Cat
<1> HIDE DEF q
<1>3. Cat(Cat(q, colon), d) = Cat(q, Cat(colon, d)) /\ Cat(colon, d) \in Codes
  BY <1>1, CatAssociative, CatIsCodes
<1>4. Cat(q, Cat(colon, d)) \in Codes
  BY <1>1, <1>3, CatIsCodes
<1> QED BY <1>1, <1>2, <1>3, <1>4 DEF q

\* Pairs can be told when what the names stand for can.
LEMMA ItemTold ==
  ASSUME NEW T, NEW c, Told(T, c)
  PROVE  Told(Pair(T), ItemOf(T, c))
<1> DEFINE f == ItemOf(T, c)
           colon == <<58>>
<1>1. c \in [T -> Codes]
  BY DEF Told
<1>2. ASSUME NEW p \in Pair(T)
      PROVE  /\ p[1] \in Seq(Char) /\ p[2] \in T /\ p = <<p[1], p[2]>> /\ c[p[2]] \in Codes
             /\ f[p] = Item(p[1], c[p[2]])
  BY <1>1 DEF Pair, ItemOf
<1>3. f = [p \in Pair(T) |-> f[p]]
  BY DEF ItemOf
<1> HIDE DEF f
<1>4. ASSUME NEW p \in Pair(T)
      PROVE  /\ f[p] = Cat(Quoted(p[1]), Cat(colon, c[p[2]])) /\ f[p] \in Codes
             /\ colon \in Codes /\ Cat(colon, c[p[2]]) \in Codes
  BY <1>2, ItemForm
<1> HIDE DEF colon
<1>5. ASSUME NEW p \in Pair(T) PROVE Len(f[p]) > 0 /\ f[p][1] = 34
  BY <1>2, <1>4, QuotedStarts
<1>6. ASSUME NEW p \in Pair(T), NEW r \in Pair(T), NEW u \in Endings, NEW v \in Endings,
             Cat(f[p], u) = Cat(f[r], v)
      PROVE  p = r
  <2> DEFINE after(x, w) == Cat(Cat(colon, c[x[2]]), w)
  <2>1. u \in Codes /\ v \in Codes
    BY DEF Endings
  <2>2. ASSUME NEW x \in Pair(T), NEW w \in Codes
        PROVE  /\ Cat(f[x], w) = Cat(Quoted(x[1]), after(x, w)) /\ after(x, w) \in Codes
               /\ after(x, w) = Cat(colon, Cat(c[x[2]], w)) /\ Cat(c[x[2]], w) \in Codes
    <3> DEFINE q == Quoted(x[1])
               d == c[x[2]]
    <3>1. q \in Codes /\ d \in Codes /\ colon \in Codes /\ Cat(colon, d) \in Codes
      BY <1>2, <1>4, QuotedForm
    <3>2. f[x] = Cat(q, Cat(colon, d))
      BY <1>4
    <3> HIDE DEF q, d
    <3>3. Cat(Cat(q, Cat(colon, d)), w) = Cat(q, Cat(Cat(colon, d), w))
      BY <3>1, CatAssociative
    <3>4. Cat(Cat(colon, d), w) = Cat(colon, Cat(d, w)) /\ Cat(d, w) \in Codes
          /\ Cat(Cat(colon, d), w) \in Codes
      BY <3>1, CatAssociative, CatIsCodes
    <3> QED BY <3>2, <3>3, <3>4 DEF q, d
  <2>3. /\ Cat(Quoted(p[1]), after(p, u)) = Cat(Quoted(r[1]), after(r, v))
        /\ after(p, u) \in Codes /\ after(r, v) \in Codes
    BY <1>6, <2>1, <2>2
  <2>4. after(p, u) = Cat(colon, Cat(c[p[2]], u)) /\ after(r, v) = Cat(colon, Cat(c[r[2]], v))
        /\ Cat(c[p[2]], u) \in Codes /\ Cat(c[r[2]], v) \in Codes /\ colon \in Codes
    BY <1>4, <2>1, <2>2
  <2> HIDE DEF after
  <2>5. p[1] = r[1] /\ after(p, u) = after(r, v)
    BY <1>2, <2>3, QuotedDecodes
  <2>6. Cat(c[p[2]], u) = Cat(c[r[2]], v)
    BY <2>4, <2>5, SameAfter
  <2>7. p[2] = r[2]
    BY <1>2, <2>6 DEF Told
  <2> QED BY <1>2, <2>5, <2>7
<1>7. f \in [Pair(T) -> Codes]
  BY <1>3, <1>4
<1>8. Told(Pair(T), f)
  BY <1>5, <1>6, <1>7 DEF Told
<1> QED BY <1>8 DEF f

\* Objects with values in T.
Objects(T) == UNION {[D -> T] : D \in {D \in SUBSET Seq(Char) : IsFiniteSet(D)}}

\* What is known of an object.
LEMMA ObjectIs ==
  ASSUME NEW T, NEW o
  PROVE  o \in Objects(T) <=>
           /\ o = [k \in DOMAIN o |-> o[k]] /\ DOMAIN o \subseteq Seq(Char) /\ IsFiniteSet(DOMAIN o)
           /\ \A k \in DOMAIN o : o[k] \in T
<1>1. ASSUME o \in Objects(T)
      PROVE  /\ o = [k \in DOMAIN o |-> o[k]] /\ DOMAIN o \subseteq Seq(Char) /\ IsFiniteSet(DOMAIN o)
             /\ \A k \in DOMAIN o : o[k] \in T
  <2>1. PICK D \in SUBSET Seq(Char) : IsFiniteSet(D) /\ o \in [D -> T]
    BY <1>1 DEF Objects
  <2> QED BY <2>1
<1>2. ASSUME /\ o = [k \in DOMAIN o |-> o[k]] /\ DOMAIN o \subseteq Seq(Char) /\ IsFiniteSet(DOMAIN o)
             /\ \A k \in DOMAIN o : o[k] \in T
      PROVE  o \in Objects(T)
  <2>1. o \in [DOMAIN o -> T]
    BY <1>2
  <2> QED BY <1>2, <2>1 DEF Objects
<1> QED BY <1>1, <1>2

\* The pairs of an object in the order of their names.
Pairs(o) == [i \in 1 .. Cardinality(DOMAIN o) |-> <<Sorted(DOMAIN o)[i], o[Sorted(DOMAIN o)[i]]>>]

\* There is a pair for each name.
LEMMA PairsType ==
  ASSUME NEW T, NEW q \in Objects(T)
  PROVE  /\ Cardinality(DOMAIN q) \in Nat
         /\ Sorted(DOMAIN q) \in [1 .. Cardinality(DOMAIN q) -> DOMAIN q]
         /\ Pairs(q) \in Seq(Pair(T)) /\ Len(Pairs(q)) = Cardinality(DOMAIN q)
         /\ \A i \in 1 .. Cardinality(DOMAIN q) :
               Pairs(q)[i] = <<Sorted(DOMAIN q)[i], q[Sorted(DOMAIN q)[i]]>>
         /\ \A k \in DOMAIN q : \E i \in 1 .. Cardinality(DOMAIN q) : Sorted(DOMAIN q)[i] = k
<1> DEFINE D == DOMAIN q
           keys == Sorted(D)
           n == Cardinality(D)
<1>1. D \subseteq Seq(Char) /\ IsFiniteSet(D) /\ \A k \in D : q[k] \in T
  BY ObjectIs
<1>2. n \in Nat /\ keys \in [1 .. n -> D] /\ \A k \in D : \E i \in 1 .. n : keys[i] = k
  <2> HIDE DEF D
  <2> QED BY <1>1, SortedNames
<1>3. Pairs(q) = [i \in 1 .. n |-> <<keys[i], q[keys[i]]>>]
  BY DEF Pairs
<1> HIDE DEF D, keys, n
<1>4. \A i \in 1 .. n : Pairs(q)[i] = <<keys[i], q[keys[i]]>>
  BY <1>2, <1>3
<1>5. Pairs(q) \in [1 .. n -> Pair(T)]
  BY <1>1, <1>2, <1>3 DEF Pair
<1>6. Pairs(q) \in Seq(Pair(T)) /\ Len(Pairs(q)) = n
  BY <1>2, <1>5, Listed
<1> QED BY <1>2, <1>4, <1>6 DEF D, keys, n

\* The pairs in order determine the object.
LEMMA PairsOnce ==
  ASSUME NEW T, NEW o \in Objects(T), NEW p \in Objects(T), Pairs(o) = Pairs(p)
  PROVE  o = p
<1>1. ASSUME NEW q \in Objects(T)
      PROVE  /\ Cardinality(DOMAIN q) \in Nat
             /\ Pairs(q) \in Seq(Pair(T)) /\ Len(Pairs(q)) = Cardinality(DOMAIN q)
             /\ \A i \in 1 .. Cardinality(DOMAIN q) :
                  Pairs(q)[i] = <<Sorted(DOMAIN q)[i], q[Sorted(DOMAIN q)[i]]>>
             /\ \A k \in DOMAIN q : \E i \in 1 .. Cardinality(DOMAIN q) : Pairs(q)[i] = <<k, q[k]>>
             /\ \A i \in 1 .. Cardinality(DOMAIN q) :
                  \E k \in DOMAIN q : Pairs(q)[i] = <<k, q[k]>>
  <2> DEFINE keys == Sorted(DOMAIN q)
             n == Cardinality(DOMAIN q)
  <2>1. /\ n \in Nat /\ keys \in [1 .. n -> DOMAIN q]
        /\ Pairs(q) \in Seq(Pair(T)) /\ Len(Pairs(q)) = n
        /\ \A i \in 1 .. n : Pairs(q)[i] = <<keys[i], q[keys[i]]>>
        /\ \A k \in DOMAIN q : \E i \in 1 .. n : keys[i] = k
    BY <1>1, PairsType
  <2> DEFINE ps == Pairs(q)
  <2> HIDE DEF keys, n, ps
  <2>2. \A i \in 1 .. n : keys[i] \in DOMAIN q
    BY <2>1
  <2>3. \A k \in DOMAIN q : \E i \in 1 .. n : ps[i] = <<k, q[k]>>
    BY <2>1 DEF ps
  <2>4. \A i \in 1 .. n : \E k \in DOMAIN q : ps[i] = <<k, q[k]>>
    BY <2>1, <2>2 DEF ps
  <2> QED BY <2>1, <2>3, <2>4 DEF keys, n, ps
<1>2. ASSUME NEW q \in Objects(T), NEW r \in Objects(T), Pairs(q) = Pairs(r)
      PROVE  \A k \in DOMAIN q : k \in DOMAIN r /\ q[k] = r[k]
  <2> SUFFICES ASSUME NEW k \in DOMAIN q PROVE k \in DOMAIN r /\ q[k] = r[k]
    OBVIOUS
  <2>1. PICK i \in 1 .. Cardinality(DOMAIN q) : Pairs(q)[i] = <<k, q[k]>>
    BY <1>1, <1>2
  <2>2. Cardinality(DOMAIN q) = Cardinality(DOMAIN r)
    BY <1>1, <1>2
  <2>3. PICK m \in DOMAIN r : Pairs(r)[i] = <<m, r[m]>>
    BY <1>1, <1>2, <2>1, <2>2
  <2>4. <<k, q[k]>> = <<m, r[m]>>
    BY <1>2, <2>1, <2>3
  <2> QED BY <2>4
<1>3. DOMAIN o = DOMAIN p /\ \A k \in DOMAIN o : o[k] = p[k]
  BY <1>2
<1>4. o = [k \in DOMAIN o |-> o[k]] /\ p = [k \in DOMAIN p |-> p[k]]
  BY ObjectIs
<1> QED BY <1>3, <1>4

\* An object as it is written.
ObjectOf(T, c) == [o \in Objects(T) |-> Braced([k \in DOMAIN o |-> c[o[k]]])]

\* An object is written as the list of its pairs.
LEMMA ObjectForm ==
  ASSUME NEW T, NEW c \in [T -> Codes], NEW o \in Objects(T)
  PROVE  ObjectOf(T, c)[o] = Listing(Pair(T), ItemOf(T, c), 123, 125)[Pairs(o)]
<1> DEFINE text == [k \in DOMAIN o |-> c[o[k]]]
           keys == Sorted(DOMAIN o)
           n == Cardinality(DOMAIN o)
           ps == Pairs(o)
           f == ItemOf(T, c)
<1>1. /\ n \in Nat /\ keys \in [1 .. n -> DOMAIN o] /\ ps \in Seq(Pair(T)) /\ Len(ps) = n
      /\ \A i \in 1 .. n : ps[i] = <<keys[i], o[keys[i]]>>
  BY PairsType
<1>2. DOMAIN text = DOMAIN o
  OBVIOUS
<1>3. Braced(text) = Enclosed(123, [i \in DOMAIN keys |-> Item(keys[i], text[keys[i]])], 125)
  BY <1>2 DEF Braced
<1>4. ASSUME NEW i \in 1 .. n PROVE f[ps[i]] = Item(keys[i], text[keys[i]])
  <2>1. ps[i] \in Pair(T) /\ ps[i] = <<keys[i], o[keys[i]]>> /\ keys[i] \in DOMAIN o
    BY <1>1
  <2>2. f[ps[i]] = Item(ps[i][1], c[ps[i][2]])
    BY <2>1 DEF ItemOf
  <2>3. text[keys[i]] = c[o[keys[i]]]
    BY <2>1
  <2> HIDE DEF f, text, keys, ps
  <2> QED BY <2>1, <2>2, <2>3
<1>5. DOMAIN keys = 1 .. n /\ DOMAIN ps = 1 .. n
  BY <1>1
<1>6. [i \in DOMAIN keys |-> Item(keys[i], text[keys[i]])] = [i \in DOMAIN ps |-> f[ps[i]]]
  <2> HIDE DEF f, text, keys, ps
  <2> QED BY <1>4, <1>5
<1>7. ObjectOf(T, c)[o] = Braced(text)
  BY DEF ObjectOf
<1>8. Listing(Pair(T), f, 123, 125)[ps] = Enclosed(123, [i \in DOMAIN ps |-> f[ps[i]]], 125)
  <2> HIDE DEF f, ps
  <2> QED BY <1>1 DEF Listing
<1> QED BY <1>3, <1>6, <1>7, <1>8

\* Objects can be told when their values can.
LEMMA ObjectsTold ==
  ASSUME NEW T, NEW c, Told(T, c)
  PROVE  /\ Told(Objects(T), ObjectOf(T, c))
         /\ \A o \in Objects(T) : ObjectOf(T, c)[o][1] = 123
<1> DEFINE g == ObjectOf(T, c)
           h == Listing(Pair(T), ItemOf(T, c), 123, 125)
<1>1. /\ Told(Seq(Pair(T)), h)
      /\ \A s \in Seq(Pair(T)) : h[s][1] = 123
  <2>1. Told(Pair(T), ItemOf(T, c))
    BY ItemTold
  <2>2. 123 \in Nat /\ 123 \notin {44, 93, 125} /\ 125 \in {93, 125}
    OBVIOUS
  <2> QED BY <2>1, <2>2, ListTold
<1>2. \A o \in Objects(T) : g[o] = h[Pairs(o)] /\ Pairs(o) \in Seq(Pair(T))
  <2>1. c \in [T -> Codes]
    BY DEF Told
  <2> QED BY <2>1, ObjectForm, PairsType
<1>3. g = [o \in Objects(T) |-> g[o]]
  BY DEF ObjectOf
<1> HIDE DEF g, h
<1>4. /\ h \in [Seq(Pair(T)) -> Codes]
      /\ \A s \in Seq(Pair(T)) : Len(h[s]) > 0 /\ h[s][1] \notin {44, 93, 125}
      /\ \A s \in Seq(Pair(T)), t \in Seq(Pair(T)) :
            \A u, v \in Endings : Cat(h[s], u) = Cat(h[t], v) => s = t
  BY <1>1, Zenon DEF Told
<1>5. g \in [Objects(T) -> Codes]
  BY <1>2, <1>3, <1>4
<1>6. \A o \in Objects(T) : Len(g[o]) > 0 /\ g[o][1] = 123 /\ g[o][1] \notin {44, 93, 125}
  BY <1>1, <1>2, <1>4
<1>7. ASSUME NEW o \in Objects(T), NEW p \in Objects(T), NEW u \in Endings, NEW v \in Endings,
             Cat(g[o], u) = Cat(g[p], v)
      PROVE  o = p
  <2>1. Pairs(o) = Pairs(p)
    BY <1>2, <1>4, <1>7
  <2> QED BY <2>1, PairsOnce
<1>8. Told(Objects(T), g)
  BY <1>5, <1>6, <1>7 DEF Told
<1> QED BY <1>6, <1>8 DEF g

\* Values with a canonical form: atoms, objects of atoms, lists of such objects.
CanonicalValue ==
  Atom \cup [type : {"obj"}, parts : [{1} -> Objects(Atom)]]
       \cup [type : {"arr"}, parts : Seq(Objects(Atom))]

\* Atoms can be told.
LEMMA AtomsTold ==
  /\ Told(Atom, [a \in Atom |-> Literal(a)])
  /\ \A a \in Atom : Literal(a)[1] \notin {91, 123}
<1> DEFINE c == [a \in Atom |-> Literal(a)]
<1>1. ASSUME NEW a \in Atom
      PROVE  Literal(a) \in Codes /\ Len(Literal(a)) > 0 /\ Literal(a)[1] \notin {44, 91, 93, 123, 125}
  <2>1. \/ a.type = "str" \/ a.type = "null"
        \/ (a.type = "num" /\ a.n < 0) \/ (a.type = "num" /\ ~(a.n < 0))
    BY LiteralForms
  <2>2. Literal(a)[1] \in {34, 45, 110} \cup 48 .. 57
    BY <2>1, LiteralStarts
  <2> QED BY <2>2, LiteralStarts
<1>2. \A a \in Atom : c[a] = Literal(a)
  OBVIOUS
<1>3. c \in [Atom -> Codes]
  BY <1>1
<1> HIDE DEF c
<1>4. \A a \in Atom, b \in Atom : \A u, v \in Endings : Cat(c[a], u) = Cat(c[b], v) => a = b
  BY <1>2, LiteralDecodes
<1>5. \A a \in Atom : Len(c[a]) > 0 /\ c[a][1] \notin {44, 93, 125}
  BY <1>1, <1>2
<1>6. Told(Atom, c)
  BY <1>3, <1>4, <1>5 DEF Told
<1> QED BY <1>1, <1>6 DEF c

\* An object of atoms is written as Flat says.
LEMMA FlatForm ==
  LET c == [a \in Atom |-> Literal(a)]
  IN  \A o \in Objects(Atom) : Flat(o) = ObjectOf(Atom, c)[o]
<1> DEFINE c == [a \in Atom |-> Literal(a)]
<1> SUFFICES ASSUME NEW o \in Objects(Atom) PROVE Flat(o) = ObjectOf(Atom, c)[o]
  OBVIOUS
<1>1. \A k \in DOMAIN o : o[k] \in Atom
  BY ObjectIs
<1>2. [k \in DOMAIN o |-> c[o[k]]] = [k \in DOMAIN o |-> Literal(o[k])]
  BY <1>1
<1>3. ObjectOf(Atom, c)[o] = Braced([k \in DOMAIN o |-> c[o[k]]])
  BY DEF ObjectOf
<1> QED BY <1>2, <1>3 DEF Flat

\* The three forms of a value.
LEMMA ValueForms ==
  LET c == [a \in Atom |-> Literal(a)]
      f == ObjectOf(Atom, c)
      g == Listing(Objects(Atom), f, 91, 93)
  IN  \A v \in CanonicalValue :
        \/ v \in Atom /\ ~Nested(v) /\ TextOf(v) = c[v]
        \/ v.type = "obj" /\ v = [type |-> "obj", parts |-> v.parts]
           /\ v.parts \in [{1} -> Objects(Atom)] /\ TextOf(v) = f[v.parts[1]]
        \/ v.type = "arr" /\ v = [type |-> "arr", parts |-> v.parts]
           /\ v.parts \in Seq(Objects(Atom)) /\ TextOf(v) = g[v.parts]
<1> DEFINE c == [a \in Atom |-> Literal(a)]
           f == ObjectOf(Atom, c)
           g == Listing(Objects(Atom), f, 91, 93)
<1> SUFFICES ASSUME NEW v \in CanonicalValue
             PROVE  \/ v \in Atom /\ ~Nested(v) /\ TextOf(v) = c[v]
                    \/ v.type = "obj" /\ v = [type |-> "obj", parts |-> v.parts]
                       /\ v.parts \in [{1} -> Objects(Atom)] /\ TextOf(v) = f[v.parts[1]]
                    \/ v.type = "arr" /\ v = [type |-> "arr", parts |-> v.parts]
                       /\ v.parts \in Seq(Objects(Atom)) /\ TextOf(v) = g[v.parts]
  OBVIOUS
<1>1. CASE v \in Atom
  <2>1. v.type \in {"num", "str", "null"}
    BY <1>1, LiteralForms
  <2>2. TextOf(v) = Literal(v)
    BY <2>1 DEF TextOf
  <2> QED BY <1>1, <2>1, <2>2 DEF Nested
<1>2. CASE v \in [type : {"obj"}, parts : [{1} -> Objects(Atom)]]
  <2>1. v.type = "obj" /\ v = [type |-> "obj", parts |-> v.parts] /\ v.parts \in [{1} -> Objects(Atom)]
    BY <1>2
  <2>2. TextOf(v) = Flat(v.parts[1]) /\ v.parts[1] \in Objects(Atom)
    BY <2>1 DEF TextOf
  <2>3. Flat(v.parts[1]) = f[v.parts[1]]
    BY <2>2, FlatForm
  <2> QED BY <2>1, <2>2, <2>3
<1>3. CASE v \in [type : {"arr"}, parts : Seq(Objects(Atom))]
  <2>1. v.type = "arr" /\ v = [type |-> "arr", parts |-> v.parts] /\ v.parts \in Seq(Objects(Atom))
    BY <1>3
  <2>2. TextOf(v) = Enclosed(91, [j \in DOMAIN v.parts |-> Flat(v.parts[j])], 93)
    BY <2>1 DEF TextOf
  <2>3. \A j \in DOMAIN v.parts : v.parts[j] \in Objects(Atom)
    BY <2>1
  <2>4. [j \in DOMAIN v.parts |-> Flat(v.parts[j])] = [j \in DOMAIN v.parts |-> f[v.parts[j]]]
    <3>1. \A j \in DOMAIN v.parts : Flat(v.parts[j]) = f[v.parts[j]]
      BY <2>3, FlatForm
    <3> QED BY <3>1
  <2>5. g[v.parts] = Enclosed(91, [j \in DOMAIN v.parts |-> f[v.parts[j]]], 93)
    <3> HIDE DEF f
    <3> QED BY <2>1 DEF Listing
  <2> QED BY <2>1, <2>2, <2>4, <2>5
<1> QED BY <1>1, <1>2, <1>3 DEF CanonicalValue

\* Values can be told: an atom, an object and a list start differently.
LEMMA ValuesTold == Told(CanonicalValue, [v \in CanonicalValue |-> TextOf(v)])
<1> DEFINE c == [a \in Atom |-> Literal(a)]
           f == ObjectOf(Atom, c)
           g == Listing(Objects(Atom), f, 91, 93)
           t == [v \in CanonicalValue |-> TextOf(v)]
<1>1. Told(Atom, c) /\ \A a \in Atom : c[a][1] \notin {91, 123}
  BY AtomsTold
<1>2. \A v \in CanonicalValue : t[v] = TextOf(v)
  OBVIOUS
<1>3. t = [v \in CanonicalValue |-> t[v]]
  OBVIOUS
<1>4. \A v \in CanonicalValue :
        \/ v \in Atom /\ t[v] = c[v]
        \/ v.type = "obj" /\ v = [type |-> "obj", parts |-> v.parts]
           /\ v.parts \in [{1} -> Objects(Atom)] /\ t[v] = f[v.parts[1]]
        \/ v.type = "arr" /\ v = [type |-> "arr", parts |-> v.parts]
           /\ v.parts \in Seq(Objects(Atom)) /\ t[v] = g[v.parts]
  <2> HIDE DEF c, f, g, t
  <2> QED BY <1>2, ValueForms DEF c, f, g
<1> HIDE DEF c, t
<1>5. Told(Objects(Atom), f) /\ \A o \in Objects(Atom) : f[o][1] = 123
  BY <1>1, ObjectsTold
<1> HIDE DEF f
<1>6. Told(Seq(Objects(Atom)), g) /\ \A s \in Seq(Objects(Atom)) : g[s][1] = 91
  <2>1. 91 \in Nat /\ 91 \notin {44, 93, 125} /\ 93 \in {93, 125}
    OBVIOUS
  <2> QED BY <1>5, <2>1, ListTold
<1> HIDE DEF g
<1>7. ASSUME NEW v \in CanonicalValue
      PROVE  t[v] \in Codes /\ Len(t[v]) > 0 /\ t[v][1] \notin {44, 93, 125}
  <2>1. CASE v \in Atom /\ t[v] = c[v]
    BY <1>1, <2>1 DEF Told
  <2>2. CASE v.type = "obj" /\ v.parts \in [{1} -> Objects(Atom)] /\ t[v] = f[v.parts[1]]
    BY <1>5, <2>2 DEF Told
  <2>3. CASE v.type = "arr" /\ v.parts \in Seq(Objects(Atom)) /\ t[v] = g[v.parts]
    BY <1>6, <2>3 DEF Told
  <2> QED BY <1>4, <2>1, <2>2, <2>3
<1>8. ASSUME NEW v \in CanonicalValue, NEW w \in CanonicalValue, NEW u \in Endings, NEW z \in Endings,
             Cat(t[v], u) = Cat(t[w], z)
      PROVE  v = w
  <2>1. u \in Codes /\ z \in Codes
    BY DEF Endings
  <2>2. t[v][1] = t[w][1]
    BY <1>7, <1>8, <2>1, CatStarts
  <2>3. CASE v \in Atom /\ t[v] = c[v] /\ w \in Atom /\ t[w] = c[w]
    BY <1>1, <1>8, <2>3 DEF Told
  <2>4. CASE /\ v = [type |-> "obj", parts |-> v.parts] /\ v.parts \in [{1} -> Objects(Atom)]
             /\ t[v] = f[v.parts[1]]
             /\ w = [type |-> "obj", parts |-> w.parts] /\ w.parts \in [{1} -> Objects(Atom)]
             /\ t[w] = f[w.parts[1]]
    <3>1. v.parts[1] \in Objects(Atom) /\ w.parts[1] \in Objects(Atom)
      BY <2>4
    <3>2. v.parts[1] = w.parts[1]
      BY <1>5, <1>8, <2>4, <3>1 DEF Told
    <3>3. v.parts = w.parts
      BY <2>4, <3>2
    <3> QED BY <2>4, <3>3
  <2>5. CASE /\ v = [type |-> "arr", parts |-> v.parts] /\ v.parts \in Seq(Objects(Atom))
             /\ t[v] = g[v.parts]
             /\ w = [type |-> "arr", parts |-> w.parts] /\ w.parts \in Seq(Objects(Atom))
             /\ t[w] = g[w.parts]
    <3>1. v.parts = w.parts
      BY <1>6, <1>8, <2>5 DEF Told
    <3> QED BY <2>5, <3>1
  <2>6. /\ v \in Atom /\ t[v] = c[v] => t[v][1] \notin {91, 123}
        /\ w \in Atom /\ t[w] = c[w] => t[w][1] \notin {91, 123}
        /\ v.parts \in [{1} -> Objects(Atom)] /\ t[v] = f[v.parts[1]] => t[v][1] = 123
        /\ w.parts \in [{1} -> Objects(Atom)] /\ t[w] = f[w.parts[1]] => t[w][1] = 123
        /\ v.parts \in Seq(Objects(Atom)) /\ t[v] = g[v.parts] => t[v][1] = 91
        /\ w.parts \in Seq(Objects(Atom)) /\ t[w] = g[w.parts] => t[w][1] = 91
    BY <1>1, <1>5, <1>6
  <2> QED BY <1>4, <2>2, <2>3, <2>4, <2>5, <2>6
<1>9. t \in [CanonicalValue -> Codes]
  BY <1>3, <1>7
<1>10. Told(CanonicalValue, t)
  BY <1>7, <1>8, <1>9 DEF Told
<1> QED BY <1>10 DEF t

\* Two objects with one canonical form are one object, lists and objects in
\* them included: the bytes that Canonicalize returns, and that a signature is
\* over, say what was signed.
THEOREM CanonicalOnce ==
  ASSUME NEW o \in Objects(CanonicalValue), NEW p \in Objects(CanonicalValue),
         Canonical(o) = Canonical(p)
  PROVE  o = p
<1> DEFINE t == [v \in CanonicalValue |-> TextOf(v)]
           g == ObjectOf(CanonicalValue, t)
           comma == <<44>>
<1>1. Told(CanonicalValue, t)
  BY ValuesTold
<1>2. ASSUME NEW q \in Objects(CanonicalValue) PROVE Canonical(q) = g[q]
  <2>1. \A k \in DOMAIN q : q[k] \in CanonicalValue
    BY ObjectIs
  <2>2. [k \in DOMAIN q |-> t[q[k]]] = [k \in DOMAIN q |-> TextOf(q[k])]
    BY <2>1
  <2>3. g[q] = Braced([k \in DOMAIN q |-> t[q[k]]])
    <3> HIDE DEF t
    <3> QED BY DEF ObjectOf
  <2> QED BY <2>2, <2>3 DEF Canonical
<1> HIDE DEF t
<1>3. Told(Objects(CanonicalValue), g)
  BY <1>1, ObjectsTold
<1>4. comma \in Endings
  BY OneCode DEF Endings
<1> HIDE DEF g, comma
<1>5. Cat(g[o], comma) = Cat(g[p], comma)
  BY <1>2
<1> QED BY <1>3, <1>4, <1>5 DEF Told

\* A canonical form is not empty.
LEMMA CanonicalStarts ==
  ASSUME NEW o \in Objects(CanonicalValue)
  PROVE  Canonical(o) # <<>>
<1> DEFINE t == [v \in CanonicalValue |-> TextOf(v)]
           g == ObjectOf(CanonicalValue, t)
<1>1. Told(CanonicalValue, t)
  BY ValuesTold
<1>2. \A k \in DOMAIN o : o[k] \in CanonicalValue
  BY ObjectIs
<1>3. [k \in DOMAIN o |-> t[o[k]]] = [k \in DOMAIN o |-> TextOf(o[k])]
  BY <1>2
<1>4. g[o] = Braced([k \in DOMAIN o |-> t[o[k]]])
  <2> HIDE DEF t
  <2> QED BY DEF ObjectOf
<1>5. Canonical(o) = g[o]
  BY <1>3, <1>4 DEF Canonical
<1> HIDE DEF t
<1>6. Told(Objects(CanonicalValue), g)
  BY <1>1, ObjectsTold
<1> HIDE DEF g
<1>7. Len(g[o]) > 0
  BY <1>6 DEF Told
<1> QED BY <1>5, <1>7, EmptyCodes

-----------------------------------------------------------------------------
(* Documents and how they are read.                                        *)

\* What documents are made of, and what is within them.
Named(V) == [name : Seq(Char), value : V]
\* The members of a document.
Members == Named(Value)

\* The last of finitely many positions.
LEMMA LatestIsLast ==
  ASSUME NEW n \in Nat, NEW I, I \subseteq 1 .. n, I # {}
  PROVE  Latest(I) \in I /\ \A j \in I : j <= Latest(I)
<1> DEFINE T == {m \in Nat : n - m \in I}
<1>1. T \subseteq Nat /\ T # {}
  <2>1. PICK i \in I : TRUE
    OBVIOUS
  <2>2. n - i \in Nat /\ n - (n - i) = i
    <3>1. i \in 1 .. n
      OBVIOUS
    <3> QED BY <3>1
  <2> QED BY <2>2
<1>2. PICK m \in T : \A k \in T : m <= k
  <2> HIDE DEF T
  <2> QED BY <1>1, LeastNumber
<1>3. m \in Nat /\ n - m \in I
  OBVIOUS
<1>4. ASSUME NEW j \in I PROVE j <= n - m
  <2>1. j \in 1 .. n /\ n - j \in Nat /\ n - (n - j) = j
    OBVIOUS
  <2>2. m <= n - j
    BY <1>2, <2>1
  <2> QED BY <1>3, <2>1, <2>2
<1>5. \E i \in I : \A j \in I : j <= i
  BY <1>3, <1>4
<1> QED BY <1>5, Zenon DEF Latest


\* What is left when of members with one name the last counts.
LEMMA LastForm ==
  ASSUME NEW V, NEW ms \in Seq(Named(V))
  PROVE  /\ LastOf(ms) \in Objects(V)
         /\ \A i \in DOMAIN ms : /\ ms[i].name \in Seq(Char) /\ ms[i].value \in V
                                 /\ ms[i].name \in DOMAIN LastOf(ms)
         /\ \A k \in DOMAIN LastOf(ms) :
               LET i == Latest({i \in DOMAIN ms : ms[i].name = k})
               IN  /\ i \in DOMAIN ms /\ ms[i].name = k /\ LastOf(ms)[k] = ms[i].value
                   /\ \A j \in DOMAIN ms : ms[j].name = k => j <= i
<1> DEFINE D == {ms[i].name : i \in DOMAIN ms}
           named(k) == {i \in DOMAIN ms : ms[i].name = k}
           n == Len(ms)
           o == LastOf(ms)
<1>1. /\ n \in Nat /\ DOMAIN ms = 1 .. n
      /\ \A i \in 1 .. n : ms[i].name \in Seq(Char) /\ ms[i].value \in V
  <2>1. n \in Nat /\ DOMAIN ms = 1 .. n /\ \A i \in 1 .. n : ms[i] \in Named(V)
    OBVIOUS
  <2>2. \A e \in Named(V) : e.name \in Seq(Char) /\ e.value \in V
    BY DEF Named
  <2> QED BY <2>1, <2>2
<1>2. o = [k \in D |-> ms[Latest(named(k))].value]
  BY DEF LastOf
<1>3. D \subseteq Seq(Char)
  BY <1>1
<1>4. IsFiniteSet(D)
  <2> DEFINE f == [i \in 1 .. n |-> ms[i].name]
  <2>1. f \in Surjection(1 .. n, D)
    BY <1>1 DEF Surjection
  <2>2. IsFiniteSet(1 .. n)
    BY <1>1, FS_Interval
  <2> HIDE DEF f, D, n
  <2> QED BY <2>1, <2>2, FS_Surjection
<1>5. ASSUME NEW k \in D
      PROVE  /\ Latest(named(k)) \in DOMAIN ms /\ ms[Latest(named(k))].name = k
             /\ \A j \in DOMAIN ms : ms[j].name = k => j <= Latest(named(k))
  <2>1. named(k) \subseteq 1 .. n /\ named(k) # {}
    BY <1>1
  <2>2. Latest(named(k)) \in named(k) /\ \A j \in named(k) : j <= Latest(named(k))
    <3> HIDE DEF named
    <3> QED BY <1>1, <2>1, LatestIsLast
  <2> QED BY <2>2
<1>6. DOMAIN o = D
  BY <1>2
<1>7. \A i \in DOMAIN ms : ms[i].name \in D
  OBVIOUS
<1>8. ASSUME NEW k \in D PROVE o[k] = ms[Latest(named(k))].value
  BY <1>2
<1>9. o = [k \in DOMAIN o |-> o[k]]
  BY <1>2
<1> HIDE DEF D, named, o
<1>10. \A k \in D : o[k] \in V
  BY <1>1, <1>5, <1>8
<1>11. o \in Objects(V)
  BY <1>3, <1>4, <1>6, <1>9, <1>10, ObjectIs
<1>12. \A k \in DOMAIN o :
          LET i == Latest({i \in DOMAIN ms : ms[i].name = k})
          IN  /\ i \in DOMAIN ms /\ ms[i].name = k /\ o[k] = ms[i].value
              /\ \A j \in DOMAIN ms : ms[j].name = k => j <= i
  BY <1>5, <1>6, <1>8, Zenon DEF named
<1>13. \A i \in DOMAIN ms : /\ ms[i].name \in Seq(Char) /\ ms[i].value \in V
                            /\ ms[i].name \in DOMAIN o
  BY <1>1, <1>6, <1>7
<1> QED BY <1>11, <1>12, <1>13 DEF o

\* Where every name occurs once, none is lost.
LEMMA OnceIsLast ==
  ASSUME NEW V, NEW ms \in Seq(Named(V)), NamedOnce(ms)
  PROVE  \A i \in DOMAIN ms : LastOf(ms)[ms[i].name] = ms[i].value
<1> SUFFICES ASSUME NEW i \in DOMAIN ms PROVE LastOf(ms)[ms[i].name] = ms[i].value
  OBVIOUS
<1> DEFINE k == ms[i].name
           l == Latest({j \in DOMAIN ms : ms[j].name = k})
<1>1. k \in DOMAIN LastOf(ms)
  BY LastForm
<1>2. l \in DOMAIN ms /\ ms[l].name = k /\ LastOf(ms)[k] = ms[l].value
  BY <1>1, LastForm
<1> HIDE DEF l
<1>3. l = i
  BY <1>2 DEF NamedOnce
<1> QED BY <1>2, <1>3

\* A value that is read is of the same type, and its parts are read.
LEMMA ReadForm ==
  ASSUME NEW v \in Value
  PROVE  /\ Read(v).type = v.type
         /\ ~Nested(v) => v \in Scalar /\ Read(v) = v /\ Parts(v) = <<>>
         /\ Nested(v) => /\ v.parts \in Seq(Seq(Entry)) /\ Parts(v) = v.parts
                         /\ Read(v) = [type |-> v.type, parts |-> Read(v).parts]
                         /\ Read(v).parts \in Seq(Objects(Scalar))
                         /\ Len(Read(v).parts) = Len(v.parts) /\ DOMAIN Read(v).parts = DOMAIN v.parts
                         /\ \A j \in DOMAIN v.parts :
                               v.parts[j] \in Seq(Named(Scalar)) /\ Read(v).parts[j] = LastOf(v.parts[j])
         /\ v.type = "obj" => Len(v.parts) = 1
<1> DEFINE parts == [j \in DOMAIN v.parts |-> LastOf(v.parts[j])]
<1>1. CASE v \in Scalar
  <2>1. v.type \notin {"obj", "arr"}
    BY <1>1 DEF Scalar, Fraction, Null
  <2>2. ~Nested(v)
    BY <2>1 DEF Nested
  <2> QED BY <1>1, <2>1, <2>2 DEF Read, Parts
<1>2. ASSUME v.type \in {"obj", "arr"}, v.parts \in Seq(Seq(Entry)), v.type = "obj" => Len(v.parts) = 1
      PROVE  /\ Nested(v) /\ Read(v) = [type |-> v.type, parts |-> parts] /\ Parts(v) = v.parts
             /\ parts \in Seq(Objects(Scalar)) /\ Len(parts) = Len(v.parts)
             /\ DOMAIN parts = DOMAIN v.parts
             /\ \A j \in DOMAIN v.parts : v.parts[j] \in Seq(Named(Scalar)) /\ parts[j] = LastOf(v.parts[j])
  <2>1. Nested(v)
    BY <1>2 DEF Nested
  <2>2. Read(v) = [type |-> v.type, parts |-> parts] /\ Parts(v) = v.parts
    BY <2>1 DEF Read, Parts
  <2> DEFINE ps == v.parts
             n == Len(ps)
  <2>3. n \in Nat /\ DOMAIN ps = 1 .. n /\ \A j \in 1 .. n : ps[j] \in Seq(Entry)
    BY <1>2
  <2>4. Entry = Named(Scalar)
    BY DEF Entry, Named
  <2>5. \A j \in 1 .. n : ps[j] \in Seq(Named(Scalar)) /\ LastOf(ps[j]) \in Objects(Scalar)
    BY <2>3, <2>4, LastForm
  <2>6. parts = [j \in 1 .. n |-> LastOf(ps[j])]
    BY <2>3
  <2>7. parts \in [1 .. n -> Objects(Scalar)] /\ \A j \in 1 .. n : parts[j] = LastOf(ps[j])
    BY <2>5, <2>6
  <2> HIDE DEF parts, ps, n
  <2>8. parts \in Seq(Objects(Scalar)) /\ Len(parts) = n
    BY <2>3, <2>7, Listed
  <2>9. DOMAIN parts = 1 .. n
    BY <2>7
  <2> QED BY <2>1, <2>2, <2>3, <2>5, <2>7, <2>8, <2>9 DEF ps, n
<1>3. CASE v \in [type : {"obj"}, parts : [{1} -> Seq(Entry)]]
  <2>1. v.type = "obj" /\ v.parts \in [{1} -> Seq(Entry)]
    BY <1>3
  <2> DEFINE ps == v.parts
  <2>2. ps \in [1 .. 1 -> Seq(Entry)]
    <3>1. 1 .. 1 = {1}
      OBVIOUS
    <3> QED BY <2>1, <3>1
  <2>3. 1 \in Nat
    OBVIOUS
  <2> HIDE DEF ps
  <2>4. ps \in Seq(Seq(Entry)) /\ Len(ps) = 1
    BY <2>2, <2>3, Listed
  <2>5. v.type \in {"obj", "arr"} /\ v.parts \in Seq(Seq(Entry)) /\ (v.type = "obj" => Len(v.parts) = 1)
    BY <2>1, <2>4 DEF ps
  <2> QED BY <1>2, <2>1, <2>4, <2>5 DEF ps
<1>4. CASE v \in [type : {"arr"}, parts : Seq(Seq(Entry))]
  <2>1. v.type = "arr" /\ v.parts \in Seq(Seq(Entry))
    BY <1>4
  <2>2. v.type \in {"obj", "arr"} /\ (v.type = "obj" => Len(v.parts) = 1)
    BY <2>1
  <2>3. /\ Nested(v) /\ Read(v) = [type |-> v.type, parts |-> parts] /\ Parts(v) = v.parts
        /\ parts \in Seq(Objects(Scalar)) /\ Len(parts) = Len(v.parts)
        /\ DOMAIN parts = DOMAIN v.parts
        /\ \A j \in DOMAIN v.parts : v.parts[j] \in Seq(Named(Scalar)) /\ parts[j] = LastOf(v.parts[j])
    BY <1>2, <2>1, <2>2
  <2>4. Read(v).type = v.type /\ Read(v).parts = parts
    BY <2>3
  <2> HIDE DEF parts
  <2> QED BY <2>1, <2>3, <2>4
<1> QED BY <1>1, <1>3, <1>4 DEF Value

\* What the generic reading of a document is.
LEMMA ParsedForm ==
  ASSUME NEW ms \in Seq(Members)
  PROVE  /\ Parsed(ms) = [k \in DOMAIN Parsed(ms) |-> Parsed(ms)[k]]
         /\ DOMAIN Parsed(ms) \subseteq Seq(Char) /\ IsFiniteSet(DOMAIN Parsed(ms))
         /\ \A i \in DOMAIN ms : /\ ms[i].name \in Seq(Char) /\ ms[i].value \in Value
                                 /\ ms[i].name \in DOMAIN Parsed(ms)
         /\ \A k \in DOMAIN Parsed(ms) :
               LET i == Latest({i \in DOMAIN ms : ms[i].name = k})
               IN  /\ i \in DOMAIN ms /\ ms[i].name = k /\ Parsed(ms)[k] = Read(ms[i].value)
                   /\ \A j \in DOMAIN ms : ms[j].name = k => j <= i
<1>1. ms \in Seq(Named(Value))
  BY DEF Members
<1>2. /\ LastOf(ms) \in Objects(Value)
      /\ \A i \in DOMAIN ms : /\ ms[i].name \in Seq(Char) /\ ms[i].value \in Value
                              /\ ms[i].name \in DOMAIN LastOf(ms)
      /\ \A k \in DOMAIN LastOf(ms) :
            LET i == Latest({i \in DOMAIN ms : ms[i].name = k})
            IN  /\ i \in DOMAIN ms /\ ms[i].name = k /\ LastOf(ms)[k] = ms[i].value
                /\ \A j \in DOMAIN ms : ms[j].name = k => j <= i
  BY ONLY <1>1, LastForm
<1>3. DOMAIN LastOf(ms) \subseteq Seq(Char) /\ IsFiniteSet(DOMAIN LastOf(ms))
  BY <1>2, ObjectIs
<1>4. /\ Parsed(ms) = [k \in DOMAIN Parsed(ms) |-> Parsed(ms)[k]]
      /\ DOMAIN Parsed(ms) = DOMAIN LastOf(ms)
      /\ \A k \in DOMAIN LastOf(ms) : Parsed(ms)[k] = Read(LastOf(ms)[k])
  BY DEF Parsed
<1> QED BY <1>2, <1>3, <1>4, Zenon

\* What can be canonicalized is an object with a canonical form.
LEMMA ParsedIsObject ==
  ASSUME NEW ms \in Seq(Members), Canonicalizable(Parsed(ms))
  PROVE  Parsed(ms) \in Objects(CanonicalValue)
<1> DEFINE o == Parsed(ms)
<1>1. /\ o = [k \in DOMAIN o |-> o[k]]
      /\ DOMAIN o \subseteq Seq(Char) /\ IsFiniteSet(DOMAIN o)
      /\ \A k \in DOMAIN o : \E v \in Value : o[k] = Read(v)
  <2>1. \A k \in DOMAIN Parsed(ms) : \E i \in DOMAIN ms : Parsed(ms)[k] = Read(ms[i].value)
    BY ParsedForm, Zenon
  <2>2. \A i \in DOMAIN ms : ms[i].value \in Value
    BY ParsedForm
  <2>3. \A k \in DOMAIN o : \E v \in Value : o[k] = Read(v)
    BY <2>1, <2>2, Zenon
  <2> QED BY <2>3, ParsedForm
<1>2. Canonicalizable(o)
  OBVIOUS
<1> HIDE DEF o
<1>3. \A a \in Scalar : Safe(a) => a \in Atom
  BY DEF Safe, Scalar, Atom, Fraction, Null
<1>4. ASSUME NEW k \in DOMAIN o PROVE o[k] \in CanonicalValue
  <2>1. PICK v \in Value : o[k] = Read(v)
    BY <1>1
  <2>2. Read(v).type = v.type /\ (Nested(Read(v)) <=> Nested(v))
    BY ReadForm DEF Nested
  <2>3. CASE ~Nested(v)
    <3>1. o[k] \in Scalar /\ Safe(o[k])
      BY <1>2, <2>1, <2>2, <2>3, ReadForm DEF Canonicalizable
    <3> QED BY <1>3, <3>1 DEF CanonicalValue
  <2>4. CASE Nested(v)
    <3> DEFINE w == Read(v)
               ps == w.parts
    <3>1. /\ w = [type |-> v.type, parts |-> ps] /\ ps \in Seq(Objects(Scalar))
          /\ Len(ps) = Len(v.parts) /\ v.type \in {"obj", "arr"}
          /\ v.type = "obj" => Len(v.parts) = 1
      BY <2>4, ReadForm DEF Nested
    <3>2. \A j \in DOMAIN ps : \A l \in DOMAIN ps[j] : Safe(ps[j][l])
      BY <1>2, <2>1, <2>2, <2>4 DEF Canonicalizable
    <3> HIDE DEF w, ps
    <3>3. ASSUME NEW j \in DOMAIN ps PROVE ps[j] \in Objects(Atom)
      <4>1. ps[j] \in Objects(Scalar)
        BY <3>1
      <4>2. /\ ps[j] = [l \in DOMAIN ps[j] |-> ps[j][l]]
            /\ DOMAIN ps[j] \subseteq Seq(Char) /\ IsFiniteSet(DOMAIN ps[j])
            /\ \A l \in DOMAIN ps[j] : ps[j][l] \in Scalar
        BY <4>1, ObjectIs
      <4>3. \A l \in DOMAIN ps[j] : ps[j][l] \in Atom
        BY <1>3, <3>2, <4>2
      <4> QED BY <4>2, <4>3, ObjectIs
    <3>4. Len(ps) \in Nat /\ DOMAIN ps = 1 .. Len(ps) /\ ps = [j \in 1 .. Len(ps) |-> ps[j]]
      BY <3>1
    <3>5. ps \in [1 .. Len(ps) -> Objects(Atom)]
      BY <3>3, <3>4
    <3>6. CASE v.type = "obj"
      <4>0. Len(ps) = 1 /\ 1 .. 1 = {1}
        BY <3>1, <3>6
      <4>1. 1 .. Len(ps) = {1}
        BY <4>0, Zenon
      <4>2. ps \in [{1} -> Objects(Atom)]
        BY <3>5, <4>1
      <4> QED BY <2>1, <3>1, <3>6, <4>2 DEF CanonicalValue, w
    <3>7. CASE v.type = "arr"
      <4>1. ps \in Seq(Objects(Atom))
        <5> DEFINE m == Len(ps)
        <5>1. m \in Nat /\ ps \in [1 .. m -> Objects(Atom)]
          BY <3>4, <3>5
        <5> HIDE DEF m
        <5> QED BY <5>1, Listed
      <4> QED BY <2>1, <3>1, <3>7, <4>1 DEF CanonicalValue, w
    <3> QED BY <3>1, <3>6, <3>7
  <2> QED BY <2>3, <2>4
<1>5. o \in Objects(CanonicalValue)
  BY <1>1, <1>4, ObjectIs
<1> QED BY <1>5 DEF o

\* Names that decoders know have no capitals, and differ.
LEMMA KnownNames ==
  /\ \A k \in KnownName \cup MemberField : Fold(k) = k /\ k \in Seq(Char)
  /\ VersionName \in KnownName
  /\ \A kind \in Kind : /\ IdName[kind] \in KnownName /\ BoxName[kind] \in KnownName
                        /\ IdName[kind] # VersionName /\ IdName[kind] # BoxName[kind]
                        /\ BoxName[kind] # VersionName
                        /\ \A other \in Kind : IdName[kind] \in {IdName[other], BoxName[other]} => kind = other
<1>1. ASSUME NEW c \in {97, 100, 105, 109, 115, 118, 119} PROVE Fold(<<c>>) = <<c>> /\ <<c>> \in Seq(Char)
  <2>1. c \in Char
    BY DEF Char
  <2> QED BY <2>1 DEF Fold
<1>2. /\ IdName["manifest"] = <<109>> /\ IdName["registry"] = <<119>> /\ VersionName = <<118>>
      /\ BoxName["manifest"] = <<100>> /\ BoxName["registry"] = <<115>>
      /\ MemberField = {<<105>>, <<97>>}
  BY DEF IdName, VersionName, BoxName, MemberField
<1>3. \A a, b \in {97, 100, 105, 109, 115, 118, 119} : <<a>> = <<b>> => a = b
  OBVIOUS
<1>4. KnownName = {<<109>>, <<119>>, <<118>>, <<100>>, <<115>>}
  BY <1>2 DEF KnownName, Kind
<1>5. \A k \in KnownName \cup MemberField : Fold(k) = k /\ k \in Seq(Char)
  <2> SUFFICES ASSUME NEW k \in KnownName \cup MemberField PROVE Fold(k) = k /\ k \in Seq(Char)
    OBVIOUS
  <2>1. \E c \in {97, 100, 105, 109, 115, 118, 119} : k = <<c>>
    BY <1>2, <1>4
  <2> QED BY <1>1, <2>1
<1> QED BY <1>2, <1>4, <1>5 DEF Kind

-----------------------------------------------------------------------------
(* What was signed, and what a document that says so is decoded into.      *)

\* The parts of a payload's map or slice; none when it is left out.
BoxOf(kind, o) == IF BoxName[kind] \in DOMAIN o THEN o[BoxName[kind]].parts ELSE <<>>

\* A map takes every entry, a struct those it has fields for.
Taken(kind, q) == IF kind = "manifest" THEN q ELSE [f \in DOMAIN q \cap MemberField |-> q[f]]

\* What a map or slice holds that was decoded from the payload alone.
ContentsOf(kind, o) == [j \in 1 .. Len(BoxOf(kind, o)) |-> Taken(kind, BoxOf(kind, o)[j])]

\* A map of strings, or what fits a struct with known fields in one spelling.
PartFits(kind, q) ==
  \A f \in DOMAIN q :
    /\ kind = "manifest" \/ Fold(f) \in MemberField => q[f].type = "str"
    /\ kind = "registry" /\ Fold(f) \in MemberField => f \in MemberField

\* A payload of one kind, with valid known fields and none in another spelling.
Sound(kind, o) ==
  /\ kind \in Kind
  /\ IdName[kind] \in DOMAIN o /\ VersionName \in DOMAIN o
  /\ \A k \in DOMAIN o : Fold(k) \in KnownName => k \in {IdName[kind], VersionName, BoxName[kind]}
  /\ o[IdName[kind]].type = "str" /\ ValidMemberID(o[IdName[kind]].s)
  /\ o[VersionName].type = "num" /\ o[VersionName].n \in 1 .. MaxSafeInteger
  /\ BoxName[kind] \in DOMAIN o =>
        /\ o[BoxName[kind]].type = IF kind = "manifest" THEN "obj" ELSE "arr"
        /\ \A j \in DOMAIN o[BoxName[kind]].parts : PartFits(kind, o[BoxName[kind]].parts[j])
  /\ kind = "registry" => Len(BoxOf(kind, o)) > 0

\* In a document that says something sound, known names have one spelling.
LEMMA OneSpelling ==
  ASSUME NEW ms \in Seq(Members), NEW kind, Sound(kind, Parsed(ms)),
         NEW name \in {IdName[kind], VersionName, BoxName[kind]}
  PROVE  /\ Setters(ms, name) = {i \in DOMAIN ms : ms[i].name = name}
         /\ name \notin DOMAIN Parsed(ms) => Setters(ms, name) = {}
         /\ name \in DOMAIN Parsed(ms) =>
               LET l == Latest(Setters(ms, name))
               IN  /\ l \in Setters(ms, name) /\ \A j \in Setters(ms, name) : j <= l
                   /\ l \in DOMAIN ms /\ ms[l].value \in Value
                   /\ Parsed(ms)[name] = Read(ms[l].value)
<1> DEFINE o == Parsed(ms)
           named == {i \in DOMAIN ms : ms[i].name = name}
<1>1. /\ kind \in Kind
      /\ \A k \in DOMAIN o : Fold(k) \in KnownName => k \in {IdName[kind], VersionName, BoxName[kind]}
  BY DEF Sound
<1>2. /\ \A k \in KnownName : Fold(k) = k
      /\ name \in KnownName
      /\ {IdName[kind], VersionName, BoxName[kind]} \subseteq KnownName
  BY <1>1, KnownNames
<1>3. \A i \in DOMAIN ms : /\ ms[i].name \in DOMAIN o
                           /\ ms[i].value \in Value
  BY ParsedForm
<1>4. \A i \in DOMAIN ms : Fold(ms[i].name) = name <=> ms[i].name = name
  <2> SUFFICES ASSUME NEW i \in DOMAIN ms PROVE Fold(ms[i].name) = name <=> ms[i].name = name
    OBVIOUS
  <2>1. ms[i].name \in DOMAIN o
    BY <1>3
  <2> HIDE DEF o
  <2>2. ASSUME Fold(ms[i].name) = name PROVE Fold(ms[i].name) = ms[i].name
    BY <1>1, <1>2, <2>1, <2>2
  <2> QED BY <1>2, <2>2
<1>5. Setters(ms, name) = named
  BY <1>4 DEF Setters
<1>6. ASSUME name \notin DOMAIN o PROVE Setters(ms, name) = {}
  BY <1>3, <1>5, <1>6
<1>7. ASSUME name \in DOMAIN o
      PROVE  /\ Latest(named) \in DOMAIN ms /\ ms[Latest(named)].name = name
             /\ o[name] = Read(ms[Latest(named)].value)
             /\ \A j \in DOMAIN ms : ms[j].name = name => j <= Latest(named)
  BY <1>7, ParsedForm, Zenon
<1>8. ASSUME name \in DOMAIN o
      PROVE  LET l == Latest(Setters(ms, name))
             IN  /\ l \in Setters(ms, name) /\ \A j \in Setters(ms, name) : j <= l
                 /\ l \in DOMAIN ms /\ ms[l].value \in Value
                 /\ o[name] = Read(ms[l].value)
  <2> DEFINE l == Latest(named)
  <2>1. /\ l \in DOMAIN ms /\ ms[l].name = name /\ o[name] = Read(ms[l].value)
        /\ \A j \in DOMAIN ms : ms[j].name = name => j <= l
    BY <1>7, <1>8
  <2>2. Latest(Setters(ms, name)) = l
    BY <1>5
  <2> HIDE DEF l, o
  <2>3. l \in named /\ \A j \in named : j <= l
    BY <2>1
  <2>4. ms[l].value \in Value
    BY <1>3, <2>1
  <2> QED BY <1>5, <2>1, <2>2, <2>3, <2>4
<1> QED BY <1>5, <1>6, <1>8

\* Identifier and version are decoded as they are read generically.
LEMMA SameScalars ==
  ASSUME NEW ms \in Seq(Members), NEW kind, Sound(kind, Parsed(ms)),
         NEW name \in {IdName[kind], VersionName}
  PROVE  Given(ms, name) # {} /\ Decoded(ms, name) = Parsed(ms)[name]
<1> DEFINE o == Parsed(ms)
           S == Setters(ms, name)
           l == Latest(S)
<1>1. name \in DOMAIN o /\ o[name].type \in {"str", "num"}
  BY DEF Sound
<1>2. /\ l \in S /\ \A j \in S : j <= l
      /\ l \in DOMAIN ms /\ ms[l].value \in Value /\ o[name] = Read(ms[l].value)
      /\ S = {i \in DOMAIN ms : ms[i].name = name}
  BY <1>1, OneSpelling
<1>3. ms[l].value.type \in {"str", "num"}
  BY <1>1, <1>2, ReadForm
<1>4. ms[l].value # Null /\ ~Nested(ms[l].value)
  BY <1>3 DEF Null, Nested
<1>5. o[name] = ms[l].value
  BY <1>2, <1>4, ReadForm
<1>6. l \in Given(ms, name) /\ Given(ms, name) \subseteq S
  BY <1>2, <1>4 DEF Given
<1> DEFINE G == Given(ms, name)
           n == Len(ms)
<1>7. n \in Nat /\ G \subseteq 1 .. n
  BY <1>2, <1>6
<1> HIDE DEF G, n, S, l
<1>8. G # {} /\ Latest(G) \in G /\ \A j \in G : j <= Latest(G)
  BY <1>6, <1>7, LatestIsLast DEF G
<1>9. Latest(G) = l
  <2>1. l <= Latest(G) /\ Latest(G) <= l
    BY <1>2, <1>6, <1>8 DEF G
  <2>2. l \in Nat /\ Latest(G) \in Nat
    BY <1>6, <1>7, <1>8 DEF G
  <2> QED BY <2>1, <2>2
<1> QED BY <1>5, <1>8, <1>9 DEF Decoded, G, o

\* What the entries of a part that fits set is what they say read generically.
LEMMA SameSetting ==
  ASSUME NEW kind \in Kind, NEW part \in Seq(Named(Scalar)), PartFits(kind, LastOf(part)), NEW f
  PROVE  /\ Setting(kind, part, f) # {} <=> f \in DOMAIN Taken(kind, LastOf(part))
         /\ f \in DOMAIN Taken(kind, LastOf(part)) =>
               /\ Stored(part[Latest(Setting(kind, part, f))].value) = Taken(kind, LastOf(part))[f]
               /\ \E n \in DOMAIN part : part[n].name = f
<1> DEFINE q == LastOf(part)
           named == {n \in DOMAIN part : part[n].name = f}
           T == Setting(kind, part, f)
<1>1. /\ \A n \in DOMAIN part : part[n].name \in DOMAIN q
      /\ f \in DOMAIN q => /\ Latest(named) \in named /\ q[f] = part[Latest(named)].value
                           /\ \A j \in named : j <= Latest(named)
  <2>1. \A n \in DOMAIN part : part[n].name \in DOMAIN q
    BY LastForm
  <2>2. ASSUME f \in DOMAIN q
        PROVE  /\ Latest(named) \in DOMAIN part /\ part[Latest(named)].name = f
               /\ q[f] = part[Latest(named)].value
               /\ \A j \in DOMAIN part : part[j].name = f => j <= Latest(named)
    <3>1. \A k \in DOMAIN LastOf(part) :
             LET i == Latest({i \in DOMAIN part : part[i].name = k})
             IN  /\ i \in DOMAIN part /\ part[i].name = k /\ LastOf(part)[k] = part[i].value
                 /\ \A j \in DOMAIN part : part[j].name = k => j <= i
      BY LastForm
    <3> QED BY <2>2, <3>1, Zenon
  <2> QED BY <2>1, <2>2
<1>2. /\ \A g \in DOMAIN q : kind = "manifest" \/ Fold(g) \in MemberField => q[g].type = "str"
      /\ \A g \in DOMAIN q : kind = "registry" /\ Fold(g) \in MemberField => g \in MemberField
  BY DEF PartFits
<1>3. \A g \in MemberField : Fold(g) = g
  BY KnownNames
<1>4. \A v : v.type = "str" => v # Null /\ Stored(v) = v
  BY DEF Null, Stored
<1>5. CASE kind = "manifest"
  <2>1. T = named /\ Taken(kind, q) = q
    BY <1>5 DEF Setting, Taken
  <2> HIDE DEF T, named, q
  <2>2. T # {} <=> f \in DOMAIN q
    BY <1>1, <2>1 DEF named
  <2>3. ASSUME f \in DOMAIN q
        PROVE  Stored(part[Latest(T)].value) = q[f] /\ \E n \in DOMAIN part : part[n].name = f
    <3>1. q[f] = part[Latest(T)].value /\ q[f].type = "str" /\ Latest(named) \in named
      BY <1>1, <1>2, <1>5, <2>1, <2>3
    <3>2. Stored(q[f]) = q[f]
      BY <1>4, <3>1
    <3>3. \E n \in DOMAIN part : part[n].name = f
      BY <3>1 DEF named
    <3> QED BY <3>1, <3>2, <3>3
  <2> QED BY <2>1, <2>2, <2>3 DEF T, q
<1>6. CASE kind = "registry"
  <2>1. /\ T = {n \in DOMAIN part : f \in MemberField /\ Fold(part[n].name) = f /\ part[n].value # Null}
        /\ Taken(kind, q) = [g \in DOMAIN q \cap MemberField |-> q[g]]
    BY <1>6 DEF Setting, Taken
  <2>2. \A n \in DOMAIN part : f \in MemberField => (Fold(part[n].name) = f <=> part[n].name = f)
    <3> SUFFICES ASSUME NEW n \in DOMAIN part, f \in MemberField
                 PROVE  Fold(part[n].name) = f <=> part[n].name = f
      OBVIOUS
    <3>1. part[n].name \in DOMAIN q
      BY <1>1
    <3> HIDE DEF q
    <3>2. ASSUME Fold(part[n].name) = f PROVE part[n].name = f
      BY <1>2, <1>3, <1>6, <3>1, <3>2
    <3> QED BY <1>3, <3>2
  <2>3. ASSUME f \in MemberField, f \in DOMAIN q
        PROVE  /\ T # {} /\ Stored(part[Latest(T)].value) = q[f]
               /\ \E n \in DOMAIN part : part[n].name = f
    <3> DEFINE l == Latest(named)
    <3>1. /\ l \in named /\ q[f] = part[l].value /\ \A j \in named : j <= l
          /\ q[f].type = "str"
      <4>1. q[f].type = "str"
        BY <1>2, <1>3, <2>3
      <4> QED BY <1>1, <2>3, <4>1
    <3>2. q[f] # Null /\ Stored(q[f]) = q[f]
      BY <1>4, <3>1
    <3>3. T \subseteq named /\ l \in T
      <4>1. l \in DOMAIN part /\ part[l].name = f
        BY <3>1
      <4> HIDE DEF l, q
      <4>2. Fold(part[l].name) = f /\ part[l].value # Null
        BY <2>2, <2>3, <3>1, <3>2, <4>1
      <4>3. \A n \in T : part[n].name = f /\ n \in DOMAIN part
        BY <2>1, <2>2, <2>3
      <4> QED BY <2>1, <2>3, <4>1, <4>2, <4>3
    <3> DEFINE m == Len(part)
    <3>4. m \in Nat /\ named \subseteq 1 .. m
      OBVIOUS
    <3> HIDE DEF T, l, q, named, m
    <3>5. Latest(T) \in T /\ \A j \in T : j <= Latest(T)
      <4>1. T \subseteq 1 .. m /\ T # {}
        BY <3>3, <3>4
      <4> QED BY <3>4, <4>1, LatestIsLast
    <3>6. Latest(T) = l
      <4>1. l <= Latest(T) /\ Latest(T) <= l /\ l \in Nat /\ Latest(T) \in Nat
        <5>1. l \in named /\ Latest(T) \in named
          BY <3>3, <3>5
        <5>2. l \in 1 .. m /\ Latest(T) \in 1 .. m
          BY <3>4, <5>1
        <5>3. l <= Latest(T) /\ Latest(T) <= l
          BY <3>1, <3>3, <3>5, <5>1
        <5> QED BY <3>4, <5>2, <5>3
      <4> QED BY <4>1
    <3>7. \E n \in DOMAIN part : part[n].name = f
      BY <3>1 DEF named
    <3> QED BY <3>1, <3>2, <3>3, <3>6, <3>7
  <2>4. ASSUME T # {} PROVE f \in MemberField /\ f \in DOMAIN q
    <3>1. PICK n \in T : TRUE
      BY <2>4
    <3>2. n \in DOMAIN part /\ f \in MemberField /\ Fold(part[n].name) = f
      BY <2>1
    <3>3. part[n].name = f
      BY <2>2, <3>2
    <3> QED BY <1>1, <3>2, <3>3
  <2> HIDE DEF T, q
  <2>5. /\ DOMAIN Taken(kind, q) = DOMAIN q \cap MemberField
        /\ \A g \in DOMAIN Taken(kind, q) : Taken(kind, q)[g] = q[g]
    BY <2>1
  <2> QED BY <2>3, <2>4, <2>5 DEF T, q
<1> QED BY <1>5, <1>6 DEF Kind

\* The map or slice that a sound document is decoded into has everything that
\* the payload says; when one member sets it, nothing else.
LEMMA SameContents ==
  ASSUME NEW ms \in Seq(Members), NEW kind, Sound(kind, Parsed(ms))
  PROVE  LET c == Contents(ms, kind)
             d == ContentsOf(kind, Parsed(ms))
         IN  /\ Len(c) = Len(d) /\ DOMAIN c = DOMAIN d
             /\ \A j \in DOMAIN c : \A f \in DOMAIN d[j] : f \in DOMAIN c[j] /\ c[j][f] = d[j][f]
             /\ (\A i, j \in Setters(ms, BoxName[kind]) : i = j) => c = d
             /\ Size(ms, kind) = Len(BoxOf(kind, Parsed(ms)))
<1> DEFINE o == Parsed(ms)
           box == BoxName[kind]
           S == Setters(ms, box)
           c == Contents(ms, kind)
           d == ContentsOf(kind, o)
           once == \A i, j \in S : i = j
<1>1. box \in {IdName[kind], VersionName, BoxName[kind]} /\ kind \in Kind
  BY DEF Sound
<1>2. CASE box \notin DOMAIN o
  <2>1. S = {}
    BY <1>1, <1>2, OneSpelling
  <2>2. Size(ms, kind) = 0 /\ BoxOf(kind, o) = <<>> /\ Len(BoxOf(kind, o)) = 0
    BY <1>2, <2>1 DEF Size, BoxOf
  <2>3. c = [j \in 1 .. 0 |-> Slot(ms, kind, j)] /\ d = [j \in 1 .. 0 |-> Taken(kind, BoxOf(kind, o)[j])]
    BY <2>2 DEF Contents, ContentsOf
  <2>4. 1 .. 0 = {}
    OBVIOUS
  <2>5. c = d
    BY <2>3, <2>4
  <2>6. DOMAIN c = {}
    BY <2>3, <2>4
  <2> HIDE DEF c, d
  <2> QED BY <2>2, <2>5, <2>6 DEF c, d
<1>3. CASE box \in DOMAIN o
  <2> DEFINE l == Latest(S)
             v == ms[l].value
             n == Len(v.parts)
  <2>1. /\ l \in S /\ \A j \in S : j <= l
        /\ l \in DOMAIN ms /\ v \in Value /\ o[box] = Read(v)
        /\ S = {i \in DOMAIN ms : ms[i].name = box}
    BY <1>1, <1>3, OneSpelling
  <2>2. /\ o[box].type = IF kind = "manifest" THEN "obj" ELSE "arr"
        /\ \A j \in DOMAIN o[box].parts : PartFits(kind, o[box].parts[j])
    BY <1>3 DEF Sound
  <2>3. Read(v).type = v.type /\ Nested(v)
    BY <2>1, <2>2, ReadForm DEF Nested
  <2>4. /\ v.parts \in Seq(Seq(Entry)) /\ Parts(v) = v.parts
        /\ o[box].parts \in Seq(Objects(Scalar))
        /\ Len(o[box].parts) = n /\ DOMAIN o[box].parts = DOMAIN v.parts
        /\ \A j \in DOMAIN v.parts : v.parts[j] \in Seq(Named(Scalar)) /\ o[box].parts[j] = LastOf(v.parts[j])
    BY <2>1, <2>3, ReadForm
  <2>5. n \in Nat /\ DOMAIN v.parts = 1 .. n /\ S \subseteq 1 .. Len(ms) /\ Len(ms) \in Nat
    BY <2>1, <2>4
  <2>6. Size(ms, kind) = n
    BY <2>1, <2>4 DEF Size
  <2>7. BoxOf(kind, o) = o[box].parts
    BY <1>3 DEF BoxOf
  <2>8. /\ c = [j \in 1 .. n |-> Slot(ms, kind, j)]
        /\ d = [j \in 1 .. n |-> Taken(kind, o[box].parts[j])]
    BY <2>4, <2>6, <2>7 DEF Contents, ContentsOf
  <2>9. ASSUME n > 0 PROVE l \in Live(ms, box)
    <3>1. Parts(v) # <<>>
      BY <2>4, <2>9
    <3>2. ASSUME NEW j \in S, l <= j PROVE Parts(ms[j].value) # <<>>
      <4>1. j <= l /\ j \in Nat /\ l \in Nat
        BY <2>1, <2>5
      <4>2. j = l
        BY <3>2, <4>1
      <4> QED BY <3>1, <4>2
    <3> QED BY <2>1, <3>2 DEF Live
  <2> HIDE DEF l, n, o
  <2>10. ASSUME NEW j \in 1 .. n
         PROVE  LET q == Taken(kind, o[box].parts[j])
                    s == Slot(ms, kind, j)
                IN  /\ \A f \in DOMAIN q : f \in DOMAIN s /\ s[f] = q[f]
                    /\ once => s = q
    <3> DEFINE part == v.parts[j]
               q == Taken(kind, o[box].parts[j])
               s == Slot(ms, kind, j)
               W(f) == Writers(ms, kind, j, f)
    <3>1. /\ j \in DOMAIN v.parts /\ part \in Seq(Named(Scalar)) /\ o[box].parts[j] = LastOf(part)
          /\ PartFits(kind, LastOf(part))
      BY <2>2, <2>4, <2>5, <2>10
    <3>2. \A f : /\ Setting(kind, part, f) # {} <=> f \in DOMAIN q
                 /\ f \in DOMAIN q =>
                       /\ Stored(part[Latest(Setting(kind, part, f))].value) = q[f]
                       /\ \E m \in DOMAIN part : part[m].name = f
      <4> DEFINE p == part
      <4>1. p \in Seq(Named(Scalar)) /\ PartFits(kind, LastOf(p)) /\ kind \in Kind
        BY <1>1, <3>1
      <4>2. q = Taken(kind, LastOf(p))
        BY <3>1
      <4> HIDE DEF p, q
      <4>3. \A f : /\ Setting(kind, p, f) # {} <=> f \in DOMAIN Taken(kind, LastOf(p))
                   /\ f \in DOMAIN Taken(kind, LastOf(p)) =>
                         /\ Stored(p[Latest(Setting(kind, p, f))].value) = Taken(kind, LastOf(p))[f]
                         /\ \E m \in DOMAIN p : p[m].name = f
        BY <4>1, SameSetting
      <4> QED BY <4>2, <4>3 DEF p
    <3>3. l \in Live(ms, box)
      <4>1. n > 0
        BY <2>5, <2>10
      <4> QED BY <2>9, <4>1
    <3>4. s = [f \in {f \in Settable(ms, kind, j) : W(f) # {}} |->
                  Stored(ms[Latest(W(f))].value.parts[j]
                           [Latest(Setting(kind, ms[Latest(W(f))].value.parts[j], f))].value)]
      BY DEF Slot
    <3>5. \A f : /\ W(f) \subseteq S
                 /\ Setting(kind, part, f) # {} => l \in W(f)
                 /\ l \in W(f) => Setting(kind, part, f) # {}
      BY <3>1, <3>3 DEF Writers, Live
    <3>6. \A f : (\E m \in DOMAIN part : part[m].name = f) => f \in Settable(ms, kind, j)
      <4> SUFFICES ASSUME NEW m \in DOMAIN part PROVE part[m].name \in Settable(ms, kind, j)
        OBVIOUS
      <4> DEFINE I == {i \in Live(ms, box) : j \in DOMAIN ms[i].value.parts}
                 P == {ms[i].value.parts[j] : i \in I}
                 N(p) == {p[k].name : k \in DOMAIN p}
      <4>1. l \in I
        BY <3>1, <3>3
      <4>2. part \in P
        BY <4>1
      <4>3. part[m].name \in N(part)
        OBVIOUS
      <4>4. Settable(ms, kind, j) = MemberField \cup UNION {N(p) : p \in P}
        BY Zenon DEF Settable
      <4> HIDE DEF I, P, N
      <4>5. part[m].name \in UNION {N(p) : p \in P}
        BY <4>2, <4>3
      <4> QED BY <4>4, <4>5
    <3>7. \A f : l \in W(f) => Latest(W(f)) = l
      <4> SUFFICES ASSUME NEW f, l \in W(f) PROVE Latest(W(f)) = l
        OBVIOUS
      <4> DEFINE w == W(f)
                 m == Len(ms)
      <4>1. l \in w /\ w \subseteq S /\ m \in Nat /\ S \subseteq 1 .. m
        BY <2>5, <3>5
      <4> HIDE DEF w, m, S
      <4>2. Latest(w) \in w /\ \A i \in w : i <= Latest(w)
        <5>1. w \subseteq 1 .. m /\ w # {}
          BY <4>1
        <5> QED BY <4>1, <5>1, LatestIsLast
      <4>3. l <= Latest(w) /\ Latest(w) <= l /\ l \in Nat /\ Latest(w) \in Nat
        BY <2>1, <4>1, <4>2
      <4>4. Latest(w) = l
        BY <4>3
      <4> QED BY <4>4 DEF w
    <3> HIDE DEF W, s, q, S
    <3>8. \A f \in DOMAIN q : f \in DOMAIN s /\ s[f] = q[f]
      <4> SUFFICES ASSUME NEW f \in DOMAIN q PROVE f \in DOMAIN s /\ s[f] = q[f]
        OBVIOUS
      <4>1. l \in W(f) /\ f \in Settable(ms, kind, j)
        BY <3>2, <3>5, <3>6
      <4>2. f \in DOMAIN s
        BY <3>4, <4>1
      <4>3. s[f] = Stored(ms[Latest(W(f))].value.parts[j]
                            [Latest(Setting(kind, ms[Latest(W(f))].value.parts[j], f))].value)
        BY <3>4, <4>1
      <4>4. Latest(W(f)) = l
        BY <3>7, <4>1
      <4>5. s[f] = Stored(part[Latest(Setting(kind, part, f))].value)
        BY <4>3, <4>4
      <4> QED BY <3>2, <4>2, <4>5
    <3>9. ASSUME once PROVE s = q
      <4>1. \A f \in DOMAIN s : f \in DOMAIN q
        <5> SUFFICES ASSUME NEW f \in DOMAIN s PROVE f \in DOMAIN q
          OBVIOUS
        <5>1. W(f) # {}
          BY <3>4
        <5>2. l \in W(f)
          BY <2>1, <3>5, <3>9, <5>1
        <5> QED BY <3>2, <3>5, <5>2
      <4>2. s = [f \in DOMAIN s |-> s[f]]
        BY <3>4
      <4>3. q = [f \in DOMAIN q |-> q[f]]
        <5>1. LastOf(part) = [f \in DOMAIN LastOf(part) |-> LastOf(part)[f]]
          BY DEF LastOf
        <5> QED BY <3>1, <5>1 DEF Taken, q
      <4>4. DOMAIN s = DOMAIN q /\ \A f \in DOMAIN s : s[f] = q[f]
        BY <3>8, <4>1
      <4> QED BY <4>2, <4>3, <4>4
    <3> QED BY <3>8, <3>9 DEF s, q
  <2> HIDE DEF S
  <2>11. \A j \in 1 .. n : c[j] = Slot(ms, kind, j) /\ d[j] = Taken(kind, o[box].parts[j])
    BY <2>8
  <2>12. DOMAIN c = 1 .. n /\ DOMAIN d = 1 .. n /\ Len(c) = n /\ Len(d) = n
    BY <2>5, <2>8
  <2>13. once => c = d
    <3> SUFFICES ASSUME once PROVE c = d
      OBVIOUS
    <3>1. \A j \in 1 .. n : Slot(ms, kind, j) = Taken(kind, o[box].parts[j])
      BY <2>10
    <3> QED BY <2>8, <3>1
  <2>14. \A j \in DOMAIN c : \A f \in DOMAIN d[j] : f \in DOMAIN c[j] /\ c[j][f] = d[j][f]
    <3> SUFFICES ASSUME NEW j \in 1 .. n, NEW f \in DOMAIN d[j]
                 PROVE  f \in DOMAIN c[j] /\ c[j][f] = d[j][f]
      BY <2>12
    <3> HIDE DEF c, d
    <3> QED BY <2>10, <2>11
  <2>15. Size(ms, kind) = Len(BoxOf(kind, o))
    BY <2>4, <2>6, <2>7 DEF n
  <2> HIDE DEF c, d
  <2> QED BY <2>12, <2>13, <2>14, <2>15 DEF c, d, S, o
<1> QED BY <1>2, <1>3

-----------------------------------------------------------------------------
(* The invariant of the envelope.                                          *)

\* What the key's owner signs: a sound payload in canonical form, whose map or
\* slice holds what the payload says.
Genuine(kind, payload, contents, bytes) ==
  /\ payload \in Objects(CanonicalValue) /\ Canonicalizable(payload)
  /\ bytes = Canonical(payload)
  /\ Sound(kind, payload)
  /\ contents = ContentsOf(kind, payload)

\* The documents are made of members, and whatever else is done to them,
\* what was signed stays genuine.
EInv ==
  /\ members \in Seq(Members)
  /\ signed = Nothing \/ Genuine(signed.kind, signed.payload, signed.contents, signature)
  /\ signed = Nothing => signature = <<>>

\* A sequence of some things is one of more, and all its elements are of them.
LEMMA SeqOfMore ==
  ASSUME NEW A, NEW B, A \subseteq B, NEW x \in Seq(A)
  PROVE  x \in Seq(B) /\ \A i \in DOMAIN x : x[i] \in A
  OBVIOUS

\* The invariant holds initially.
LEMMA InitEInv == EInit => EInv
  BY DEF EInit, EInv

\* The members that the owner puts in a payload for its map or slice.
BoxMember(kind, e) ==
  /\ e \in Members /\ e.name = BoxName[kind]
  /\ kind = "manifest" => e.value.type = "obj"
  /\ kind = "registry" => e.value.type = "arr"
  /\ \A j \in DOMAIN e.value.parts : PartFits(kind, LastOf(e.value.parts[j]))

\* What the owner's map and slice are made of fits.
LEMMA BoxesFit ==
  /\ \A metadata \in Metadata : BoxMember("manifest", Member(BoxName["manifest"], Object(metadata)))
  /\ \A roster \in Roster : BoxMember("registry", Member(BoxName["registry"], Array(roster)))
<1> DEFINE strings == {v \in Scalar : v.type = "str"}
           known == [name : MemberField, value : strings]
           unknown == [name : Extension, value : Scalar]
<1>1. /\ Metadata \subseteq Seq([name : Seq(Char), value : strings])
      /\ Roster \subseteq Seq(Seq(known \cup unknown))
      /\ Extension \subseteq Seq(Char) /\ \A k \in Extension : Fold(k) \notin MemberField
  BY EnvelopeAssumption
<1>2. BoxName["manifest"] \in Seq(Char) /\ BoxName["registry"] \in Seq(Char) /\ MemberField \subseteq Seq(Char)
  BY KnownNames DEF Kind
<1>3. Entry = Named(Scalar)
  BY DEF Entry, Named
<1>4. \A k \in Seq(Char), v \in Value : /\ Member(k, v) \in Members
                                       /\ Member(k, v).name = k /\ Member(k, v).value = v
  BY DEF Member, Members, Named
\* Where every value is a string, or the names tell which is, the part fits.
<1>5. ASSUME NEW kind \in Kind, NEW part \in Seq(Entry),
             \A n \in DOMAIN part :
                /\ kind = "manifest" \/ Fold(part[n].name) \in MemberField => part[n].value.type = "str"
                /\ kind = "registry" /\ Fold(part[n].name) \in MemberField => part[n].name \in MemberField
      PROVE  PartFits(kind, LastOf(part))
  <2>1. part \in Seq(Named(Scalar))
    BY <1>3
  <2>2. \A k \in DOMAIN LastOf(part) : \E n \in DOMAIN part :
           part[n].name = k /\ LastOf(part)[k] = part[n].value
    <3>1. \A k \in DOMAIN LastOf(part) :
             LET i == Latest({i \in DOMAIN part : part[i].name = k})
             IN  /\ i \in DOMAIN part /\ part[i].name = k /\ LastOf(part)[k] = part[i].value
                 /\ \A j \in DOMAIN part : part[j].name = k => j <= i
      BY <2>1, LastForm
    <3> QED BY <3>1, Zenon
  <2> SUFFICES ASSUME NEW f \in DOMAIN LastOf(part)
               PROVE  /\ kind = "manifest" \/ Fold(f) \in MemberField => LastOf(part)[f].type = "str"
                      /\ kind = "registry" /\ Fold(f) \in MemberField => f \in MemberField
    BY Zenon DEF PartFits
  <2>3. PICK n \in DOMAIN part : part[n].name = f /\ LastOf(part)[f] = part[n].value
    BY <2>2
  <2>4. /\ kind = "manifest" \/ Fold(part[n].name) \in MemberField => part[n].value.type = "str"
        /\ kind = "registry" /\ Fold(part[n].name) \in MemberField => part[n].name \in MemberField
    BY <1>5
  <2> QED BY <2>3, <2>4
<1>6. ASSUME NEW metadata \in Metadata
      PROVE  BoxMember("manifest", Member(BoxName["manifest"], Object(metadata)))
  <2> DEFINE v == Object(metadata)
  <2>1. metadata \in Seq([name : Seq(Char), value : strings])
    BY <1>1
  <2>2. metadata \in Seq(Entry) /\ \A n \in DOMAIN metadata : metadata[n].value.type = "str"
    <3> DEFINE A == [name : Seq(Char), value : strings]
    <3>1. \A e \in A : e \in Entry /\ e.value.type = "str"
      BY DEF Entry
    <3>2. metadata \in Seq(A) /\ A \subseteq Entry
      BY <2>1, <3>1
    <3> HIDE DEF A
    <3>3. metadata \in Seq(Entry) /\ \A n \in DOMAIN metadata : metadata[n] \in A
      BY <3>2, SeqOfMore
    <3> QED BY <3>1, <3>3
  <2>3. v.type = "obj" /\ v.parts = <<metadata>> /\ v = [type |-> "obj", parts |-> <<metadata>>]
    BY DEF Object
  <2>4. <<metadata>> \in [{1} -> Seq(Entry)] /\ DOMAIN v.parts = {1} /\ v.parts[1] = metadata
    BY <2>2, <2>3
  <2>5. v \in Value
    BY <2>3, <2>4 DEF Value
  <2>6. PartFits("manifest", LastOf(metadata))
    BY <1>5, <2>2 DEF Kind
  <2> DEFINE e == Member(BoxName["manifest"], v)
  <2> HIDE DEF v
  <2>7. e \in Members /\ e.name = BoxName["manifest"] /\ e.value = v
    BY <1>2, <1>4, <2>5
  <2> HIDE DEF e
  <2>8. \A j \in DOMAIN e.value.parts : PartFits("manifest", LastOf(e.value.parts[j]))
    BY <2>4, <2>6, <2>7
  <2>9. BoxMember("manifest", e)
    BY <2>3, <2>7, <2>8 DEF BoxMember
  <2> QED BY <2>9 DEF e, v
<1>7. ASSUME NEW roster \in Roster
      PROVE  BoxMember("registry", Member(BoxName["registry"], Array(roster)))
  <2> DEFINE v == Array(roster)
  <2>1. roster \in Seq(Seq(known \cup unknown))
    BY <1>1
  <2>2. \A e \in known \cup unknown :
           /\ e \in Entry
           /\ Fold(e.name) \in MemberField => e.name \in MemberField /\ e.value.type = "str"
    BY <1>1, <1>2 DEF Entry
  <2> HIDE DEF known, unknown
  <2>3. ASSUME NEW j \in DOMAIN roster
        PROVE  roster[j] \in Seq(Entry) /\ PartFits("registry", LastOf(roster[j]))
    <3> DEFINE part == roster[j]
    <3>1. part \in Seq(known \cup unknown)
      BY <2>1
    <3>2. part \in Seq(Entry)
      BY <2>2, <3>1
    <3>3. \A n \in DOMAIN part : Fold(part[n].name) \in MemberField
                                 => part[n].name \in MemberField /\ part[n].value.type = "str"
      <4>1. \A n \in DOMAIN part : part[n] \in known \cup unknown
        BY <3>1
      <4> QED BY <2>2, <4>1
    <3> HIDE DEF part
    <3>4. PartFits("registry", LastOf(part))
      BY <1>5, <3>2, <3>3 DEF Kind
    <3> QED BY <3>2, <3>4 DEF part
  <2>4. roster \in Seq(Seq(Entry))
    <3> DEFINE n == Len(roster)
    <3>1. n \in Nat /\ roster \in [1 .. n -> Seq(Entry)]
      BY <2>1, <2>3
    <3> HIDE DEF n
    <3> QED BY <3>1, Listed
  <2>5. v.type = "arr" /\ v.parts = roster /\ v = [type |-> "arr", parts |-> roster]
    BY DEF Array
  <2>6. v \in Value
    BY <2>4, <2>5 DEF Value
  <2> DEFINE e == Member(BoxName["registry"], v)
  <2> HIDE DEF v
  <2>7. e \in Members /\ e.name = BoxName["registry"] /\ e.value = v
    BY <1>2, <1>4, <2>6
  <2> HIDE DEF e
  <2>8. \A j \in DOMAIN e.value.parts : PartFits("registry", LastOf(e.value.parts[j]))
    BY <2>3, <2>5, <2>7
  <2>9. BoxMember("registry", e)
    BY <2>5, <2>7, <2>8 DEF BoxMember
  <2> QED BY <2>9 DEF e, v
<1> QED BY <1>6, <1>7

\* The members of a payload that is being signed.
Written(kind, s, m, box, more, ms) ==
  /\ kind \in Kind /\ s \in Text /\ m \in Nat /\ more \in More
  /\ box \in Seq(Members) /\ Len(box) <= 1
  /\ \A i \in DOMAIN box : BoxMember(kind, box[i])
  /\ ms = <<Member(IdName[kind], Str(s)), Member(VersionName, Num(m))>> \o box \o more

\* They are: first the identifier and the
\* version, then at most one map or slice, then names that no decoder knows.
LEMMA PayloadForm ==
  ASSUME NEW kind, NEW s, NEW m, NEW box, NEW more, NEW ms, Written(kind, s, m, box, more, ms)
  PROVE  /\ ms \in Seq(Members) /\ 1 \in DOMAIN ms /\ 2 \in DOMAIN ms
         /\ ms[1] = Member(IdName[kind], Str(s)) /\ ms[2] = Member(VersionName, Num(m))
         /\ Str(s) \in Scalar /\ Num(m) \in Scalar
         /\ \A i \in DOMAIN ms :
               \/ i = 1 \/ i = 2 \/ (i = 3 /\ BoxMember(kind, ms[i]))
               \/ Fold(ms[i].name) \notin KnownName
<1> DEFINE head == <<Member(IdName[kind], Str(s)), Member(VersionName, Num(m))>>
           Unknown == {e \in Members : Fold(e.name) \notin KnownName}
           z == head \o box
<1>0. /\ kind \in Kind /\ s \in Text /\ m \in Nat /\ more \in More
      /\ box \in Seq(Members) /\ Len(box) <= 1
      /\ \A i \in DOMAIN box : BoxMember(kind, box[i])
      /\ ms = head \o box \o more
  BY Zenon DEF Written
<1> HIDE DEF head
<1>1. Str(s) \in Scalar /\ Num(m) \in Scalar
  BY <1>0, EnvelopeAssumption DEF Str, Num, Scalar
<1>2. /\ IdName[kind] \in Seq(Char) /\ VersionName \in Seq(Char)
      /\ Extension \subseteq Seq(Char) /\ \A k \in Extension : Fold(k) \notin KnownName
  BY <1>0, KnownNames, EnvelopeAssumption
<1>3. Member(IdName[kind], Str(s)) \in Members /\ Member(VersionName, Num(m)) \in Members
  BY <1>1, <1>2 DEF Member, Members, Named, Value
<1>4. more \in Seq(Unknown)
  <2>1. \A e \in [name : Extension, value : Value] : e \in Unknown
    BY <1>2 DEF Members, Named
  <2>2. more \in Seq([name : Extension, value : Value])
    BY <1>0, EnvelopeAssumption
  <2> DEFINE A == [name : Extension, value : Value]
  <2>3. A \subseteq Unknown /\ more \in Seq(A)
    BY <2>1, <2>2
  <2> HIDE DEF Unknown, A
  <2> QED BY <2>3, SeqOfMore
<1>5. \A e \in Unknown : e \in Members /\ Fold(e.name) \notin KnownName
  OBVIOUS
<1> HIDE DEF Unknown
<1>6. more \in Seq(Members)
  BY <1>4, <1>5
<1>7. /\ head \in Seq(Members) /\ Len(head) = 2
      /\ head[1] = Member(IdName[kind], Str(s)) /\ head[2] = Member(VersionName, Num(m))
  BY <1>3 DEF head
<1> DEFINE b == Len(box)
           n == Len(more)
<1>8. /\ z \in Seq(Members) /\ Len(z) = 2 + b /\ b \in Nat
      /\ \A i \in 1 .. 2 : z[i] = head[i]
      /\ \A i \in 1 .. b : z[2 + i] = box[i]
  <2>1. 2 = Len(head) /\ b = Len(box)
    BY <1>7
  <2> HIDE DEF z, b
  <2>2. z = head \o box
    BY DEF z
  <2>3. head \in Seq(Members) /\ box \in Seq(Members)
    BY <1>0, <1>7
  <2> DEFINE p == 2
  <2>4. p = Len(head)
    BY <2>1
  <2> HIDE DEF p
  <2>5. /\ z \in Seq(Members) /\ Len(z) = p + Len(box) /\ Len(box) \in Nat
        /\ \A i \in 1 .. p : z[i] = head[i]
        /\ \A i \in 1 .. Len(box) : z[p + i] = box[i]
    BY ONLY <2>2, <2>3, <2>4, JoinedAs
  <2> QED BY <2>1, <2>5 DEF p
<1>9. ms = z \o more
  BY <1>0
<1> HIDE DEF z, b, n
<1>10. /\ ms \in Seq(Members) /\ Len(ms) = (2 + b) + n /\ n \in Nat
       /\ \A i \in 1 .. 2 + b : ms[i] = z[i]
       /\ \A i \in 1 .. n : ms[(2 + b) + i] = more[i]
  <2>1. 2 + b = Len(z) /\ n = Len(more)
    BY <1>8 DEF n
  <2> DEFINE p == 2 + b
  <2>2. z \in Seq(Members) /\ more \in Seq(Members) /\ ms = z \o more /\ p = Len(z)
    BY <1>6, <1>8, <1>9, <2>1
  <2> HIDE DEF p
  <2>3. /\ ms \in Seq(Members) /\ Len(ms) = p + Len(more) /\ Len(more) \in Nat
        /\ \A i \in 1 .. p : ms[i] = z[i]
        /\ \A i \in 1 .. Len(more) : ms[p + i] = more[i]
    BY ONLY <2>2, JoinedAs
  <2> QED BY <2>1, <2>3 DEF p
<1>11. DOMAIN ms = 1 .. (2 + b) + n /\ b <= 1 /\ b \in Nat /\ n \in Nat
  <2>1. DOMAIN ms = 1 .. Len(ms)
    BY <1>10
  <2> QED BY <1>0, <1>8, <1>10, <2>1 DEF b
<1>12. 1 \in DOMAIN ms /\ 2 \in DOMAIN ms /\ ms[1] = head[1] /\ ms[2] = head[2]
  <2>1. 1 \in 1 .. 2 /\ 2 \in 1 .. 2 /\ 1 \in 1 .. 2 + b /\ 2 \in 1 .. 2 + b
    BY <1>11
  <2>2. ms[1] = z[1] /\ ms[2] = z[2] /\ z[1] = head[1] /\ z[2] = head[2]
    BY <1>8, <1>10, <2>1
  <2>3. 1 \in 1 .. (2 + b) + n /\ 2 \in 1 .. (2 + b) + n
    BY <1>11
  <2> QED BY <1>11, <2>2, <2>3
<1>13. ASSUME NEW i \in DOMAIN ms, i # 1, i # 2
       PROVE  (i = 3 /\ BoxMember(kind, ms[i])) \/ Fold(ms[i].name) \notin KnownName
  <2>1. i \in 1 .. (2 + b) + n
    BY <1>11
  <2>2. CASE i <= 2 + b
    <3>1. i = 3 /\ i \in 1 .. 2 + b /\ 1 \in 1 .. b /\ 2 + 1 = i
      BY <1>11, <1>13, <2>1, <2>2
    <3>2. ms[i] = box[1]
      BY <1>8, <1>10, <3>1
    <3>3. 1 \in DOMAIN box
      BY <3>1 DEF b
    <3> QED BY <1>0, <3>1, <3>2, <3>3
  <2>3. CASE i > 2 + b
    <3>1. i - (2 + b) \in 1 .. n /\ (2 + b) + (i - (2 + b)) = i
      BY <1>11, <2>1, <2>3
    <3>2. ms[i] = more[i - (2 + b)]
      BY <1>10, <3>1
    <3>3. more[i - (2 + b)] \in Unknown
      BY <1>4, <3>1 DEF n
    <3> QED BY <1>5, <3>2, <3>3
  <2> QED BY <1>11, <2>1, <2>2, <2>3
<1>14. \A i \in DOMAIN ms :
          \/ i = 1 \/ i = 2 \/ (i = 3 /\ BoxMember(kind, ms[i]))
          \/ Fold(ms[i].name) \notin KnownName
  <2> SUFFICES ASSUME NEW i \in DOMAIN ms, i # 1, i # 2
               PROVE  (i = 3 /\ BoxMember(kind, ms[i])) \/ Fold(ms[i].name) \notin KnownName
    OBVIOUS
  <2> QED BY <1>13, Zenon
<1> QED BY <1>1, <1>7, <1>10, <1>12, <1>14, Zenon

\* What is signed is genuine.
LEMMA SignGenuine ==
  ASSUME NEW kind, NEW s, NEW m, NEW box, NEW more, NEW ms, Written(kind, s, m, box, more, ms),
         Valid(ms, kind), Canonicalizable(Parsed(ms))
  PROVE  /\ ms \in Seq(Members)
         /\ Genuine(kind, Parsed(ms), Contents(ms, kind), Canonical(Parsed(ms)))
<1> DEFINE id == IdName[kind]
           ver == VersionName
           bx == BoxName[kind]
           o == Parsed(ms)
<1>0. kind \in Kind
  BY DEF Written
<1>1. /\ ms \in Seq(Members) /\ 1 \in DOMAIN ms /\ 2 \in DOMAIN ms
      /\ ms[1] = Member(id, Str(s)) /\ ms[2] = Member(ver, Num(m))
      /\ Str(s) \in Scalar /\ Num(m) \in Scalar
      /\ \A i \in DOMAIN ms :
            \/ i = 1 \/ i = 2 \/ (i = 3 /\ BoxMember(kind, ms[i]))
            \/ Fold(ms[i].name) \notin KnownName
  BY PayloadForm, Zenon
<1>2. /\ id \in KnownName /\ ver \in KnownName /\ bx \in KnownName
      /\ id # ver /\ id # bx /\ bx # ver
      /\ \A k \in KnownName : Fold(k) = k
  BY <1>0, KnownNames
<1>3. /\ ms[1].name = id /\ ms[1].value = Str(s) /\ ms[2].name = ver /\ ms[2].value = Num(m)
      /\ Str(s).type = "str" /\ Num(m).type = "num"
  BY <1>1 DEF Member, Str, Num
<1>4. \A e : BoxMember(kind, e) => e.name = bx
  BY DEF BoxMember
<1> HIDE DEF id, ver, bx
<1>5. ASSUME NEW i \in DOMAIN ms, Fold(ms[i].name) \in KnownName
      PROVE  \/ i = 1 /\ ms[i].name = id
             \/ i = 2 /\ ms[i].name = ver
             \/ i = 3 /\ ms[i].name = bx /\ BoxMember(kind, ms[i])
  BY <1>1, <1>3, <1>4, <1>5
<1>6. \A i \in DOMAIN ms : /\ Fold(ms[i].name) = id => i = 1
                           /\ Fold(ms[i].name) = ver => i = 2
                           /\ Fold(ms[i].name) = bx => (i = 3 /\ BoxMember(kind, ms[i]))
                           /\ Fold(ms[i].name) \in KnownName => ms[i].name \in {id, ver, bx}
  <2> SUFFICES ASSUME NEW i \in DOMAIN ms, Fold(ms[i].name) \in KnownName
               PROVE  /\ Fold(ms[i].name) = id => i = 1
                      /\ Fold(ms[i].name) = ver => i = 2
                      /\ Fold(ms[i].name) = bx => (i = 3 /\ BoxMember(kind, ms[i]))
                      /\ ms[i].name \in {id, ver, bx}
    BY <1>2
  <2>1. CASE i = 1 /\ ms[i].name = id
    BY <1>2, <2>1
  <2>2. CASE i = 2 /\ ms[i].name = ver
    BY <1>2, <2>2
  <2>3. CASE i = 3 /\ ms[i].name = bx /\ BoxMember(kind, ms[i])
    BY <1>2, <2>3
  <2> QED BY <1>5, <2>1, <2>2, <2>3
<1>7. \A k \in DOMAIN o : \E i \in DOMAIN ms : ms[i].name = k /\ o[k] = Read(ms[i].value)
  <2>1. \A k \in DOMAIN Parsed(ms) :
           LET i == Latest({i \in DOMAIN ms : ms[i].name = k})
           IN  /\ i \in DOMAIN ms /\ ms[i].name = k /\ Parsed(ms)[k] = Read(ms[i].value)
               /\ \A j \in DOMAIN ms : ms[j].name = k => j <= i
    <3>1. ms \in Seq(Members)
      BY <1>1
    <3> QED BY ONLY <3>1, ParsedForm
  <2> QED BY <2>1, Zenon
<1>8. \A i \in DOMAIN ms : ms[i].name \in DOMAIN o /\ ms[i].value \in Value
  BY <1>1, ParsedForm
<1> HIDE DEF o
<1>9. \A v \in Scalar : v.type \in {"str", "num"} => Read(v) = v /\ v # Null
  BY DEF Read, Nested, Null
<1>10. id \in DOMAIN o /\ o[id] = Str(s) /\ ver \in DOMAIN o /\ o[ver] = Num(m)
  <2>1. id \in DOMAIN o /\ ver \in DOMAIN o
    BY <1>1, <1>3, <1>8
  <2>2. PICK i \in DOMAIN ms : ms[i].name = id /\ o[id] = Read(ms[i].value)
    BY <1>7, <2>1
  <2>3. PICK j \in DOMAIN ms : ms[j].name = ver /\ o[ver] = Read(ms[j].value)
    BY <1>7, <2>1
  <2>4. i = 1 /\ j = 2
    BY <1>2, <1>6, <2>2, <2>3
  <2>5. o[id] = Read(Str(s)) /\ o[ver] = Read(Num(m))
    BY <1>3, <2>2, <2>3, <2>4
  <2> QED BY <1>1, <1>3, <1>9, <2>1, <2>5
<1>11. ValidMemberID(Str(s).s) /\ Num(m).n \in 1 .. MaxSafeInteger
  <2>1. /\ Given(ms, id) # {} /\ ValidMemberID(Decoded(ms, id).s)
        /\ Given(ms, ver) # {} /\ Decoded(ms, ver).n \in 1 .. MaxSafeInteger
    BY DEF Valid, id, ver
  <2>2. Given(ms, id) \subseteq {1} /\ Given(ms, ver) \subseteq {2}
    BY <1>6 DEF Given, Setters
  <2>3. Given(ms, id) = {1} /\ Given(ms, ver) = {2}
    BY <2>1, <2>2
  <2>4. \A k \in Nat : Latest({k}) = k
    BY DEF Latest
  <2>5. Decoded(ms, id) = Str(s) /\ Decoded(ms, ver) = Num(m)
    BY <1>3, <2>3, <2>4 DEF Decoded
  <2> QED BY <2>1, <2>5
<1>12. ASSUME bx \in DOMAIN o
       PROVE  /\ 3 \in DOMAIN ms /\ BoxMember(kind, ms[3]) /\ o[bx] = Read(ms[3].value)
              /\ o[bx].type = IF kind = "manifest" THEN "obj" ELSE "arr"
              /\ Nested(ms[3].value) /\ Parts(ms[3].value) = ms[3].value.parts
              /\ Len(o[bx].parts) = Len(ms[3].value.parts)
              /\ \A j \in DOMAIN o[bx].parts : PartFits(kind, o[bx].parts[j])
  <2>1. PICK i \in DOMAIN ms : ms[i].name = bx /\ o[bx] = Read(ms[i].value)
    BY <1>7, <1>12
  <2>2. (i = 3 /\ BoxMember(kind, ms[i]))
    BY <1>2, <1>6, <2>1
  <2> DEFINE v == ms[3].value
  <2>3. /\ v \in Value /\ o[bx] = Read(v)
        /\ v.type = IF kind = "manifest" THEN "obj" ELSE "arr"
        /\ \A j \in DOMAIN v.parts : PartFits(kind, LastOf(v.parts[j]))
    BY <1>0, <1>8, <2>1, <2>2 DEF BoxMember, Kind
  <2> HIDE DEF v
  <2>4. Nested(v)
    BY <2>3 DEF Nested
  <2>5. /\ Read(v).type = v.type /\ Parts(v) = v.parts
        /\ Len(Read(v).parts) = Len(v.parts) /\ DOMAIN Read(v).parts = DOMAIN v.parts
        /\ \A j \in DOMAIN v.parts : Read(v).parts[j] = LastOf(v.parts[j])
    BY <2>3, <2>4, ReadForm
  <2>6. \A j \in DOMAIN o[bx].parts : PartFits(kind, o[bx].parts[j])
    BY <2>3, <2>5
  <2> QED BY <2>1, <2>2, <2>3, <2>4, <2>5, <2>6 DEF v
<1>13. ASSUME kind = "registry" PROVE Len(BoxOf(kind, o)) > 0
  <2>1. Size(ms, kind) > 0
    BY <1>13 DEF Valid
  <2>2. Setters(ms, bx) # {}
    <3>1. ASSUME Setters(ms, bx) = {} PROVE FALSE
      <4>1. Size(ms, kind) = 0
        BY <3>1 DEF Size, bx
      <4> QED BY <2>1, <4>1
    <3> QED BY <3>1
  <2>3. Setters(ms, bx) \subseteq {3}
    BY <1>6 DEF Setters
  <2>4. Setters(ms, bx) = {3} /\ 3 \in DOMAIN ms /\ BoxMember(kind, ms[3])
    <3>1. Setters(ms, bx) = {3}
      BY <2>2, <2>3
    <3>2. 3 \in DOMAIN ms /\ Fold(ms[3].name) = bx
      BY <3>1 DEF Setters
    <3> QED BY <1>6, <3>1, <3>2
  <2>5. bx \in DOMAIN o
    BY <1>4, <1>8, <2>4
  <2>6. Latest({3}) = 3
    BY DEF Latest
  <2>7. Size(ms, kind) = Len(Parts(ms[3].value))
    BY <2>4, <2>6 DEF Size, bx
  <2>8. BoxOf(kind, o) = o[bx].parts
    BY <2>5 DEF BoxOf, bx
  <2> QED BY <1>12, <2>1, <2>5, <2>7, <2>8
<1>14. \A k \in DOMAIN o : Fold(k) \in KnownName => k \in {id, ver, bx}
  BY <1>6, <1>7
<1>15. bx \in DOMAIN o => /\ o[bx].type = IF kind = "manifest" THEN "obj" ELSE "arr"
                          /\ \A j \in DOMAIN o[bx].parts : PartFits(kind, o[bx].parts[j])
  BY <1>12
<1>16. /\ o[id].type = "str" /\ ValidMemberID(o[id].s)
       /\ o[ver].type = "num" /\ o[ver].n \in 1 .. MaxSafeInteger
  BY <1>3, <1>10, <1>11
<1>17. Sound(kind, o)
  BY <1>0, <1>10, <1>13, <1>14, <1>15, <1>16, Zenon DEF Sound, id, ver, bx
<1>18. Contents(ms, kind) = ContentsOf(kind, o)
  <2>1. \A i, j \in Setters(ms, BoxName[kind]) : i = j
    BY <1>6 DEF Setters, bx
  <2>2. ms \in Seq(Members) /\ Sound(kind, Parsed(ms))
    BY <1>1, <1>17 DEF o
  <2> QED BY <2>1, <2>2, SameContents DEF o
<1>19. o \in Objects(CanonicalValue) /\ Canonicalizable(o)
  BY <1>1, ParsedIsObject DEF o
<1>20. Genuine(kind, o, Contents(ms, kind), Canonical(o))
  BY <1>17, <1>18, <1>19 DEF Genuine
<1> QED BY <1>1, <1>20 DEF o

\* However a document is rewritten, it is one of members.
LEMMA RewrittenMembers ==
  ASSUME NEW ms \in Seq(Members)
  PROVE  /\ \A i \in 1 .. Len(ms) + 1, e \in Members : InsertAt(ms, i, e) \in Seq(Members)
         /\ \A i \in DOMAIN ms : RemoveAt(ms, i) \in Seq(Members)
         /\ \A i \in 1 .. Len(ms) - 1 :
               [ms EXCEPT ![i] = ms[i + 1], ![i + 1] = ms[i]] \in Seq(Members)
<1>1. \A a, b \in Seq(Members) : a \o b \in Seq(Members)
  BY Joined
<1>2. ASSUME NEW i \in 1 .. Len(ms) + 1, NEW e \in Members
      PROVE  InsertAt(ms, i, e) \in Seq(Members)
  <2> DEFINE a == SubSeq(ms, 1, i - 1)
             b == SubSeq(ms, i, Len(ms))
             c == <<e>>
  <2>1. a \in Seq(Members) /\ b \in Seq(Members) /\ c \in Seq(Members)
    OBVIOUS
  <2>2. InsertAt(ms, i, e) = (a \o c) \o b
    BY Zenon DEF InsertAt
  <2> HIDE DEF a, b, c
  <2>3. a \o c \in Seq(Members)
    BY <1>1, <2>1, Zenon
  <2>4. (a \o c) \o b \in Seq(Members)
    BY <1>1, <2>1, <2>3, Zenon
  <2> QED BY <2>2, <2>4, Zenon
<1>3. ASSUME NEW i \in DOMAIN ms PROVE RemoveAt(ms, i) \in Seq(Members)
  <2> DEFINE a == SubSeq(ms, 1, i - 1)
             b == SubSeq(ms, i + 1, Len(ms))
  <2>1. a \in Seq(Members) /\ b \in Seq(Members)
    OBVIOUS
  <2>2. RemoveAt(ms, i) = a \o b
    BY Zenon DEF RemoveAt
  <2> HIDE DEF a, b
  <2> QED BY <1>1, <2>1, <2>2, Zenon
<1>4. ASSUME NEW i \in 1 .. Len(ms) - 1
      PROVE  [ms EXCEPT ![i] = ms[i + 1], ![i + 1] = ms[i]] \in Seq(Members)
  <2>1. i \in 1 .. Len(ms) /\ i + 1 \in 1 .. Len(ms) /\ ms[i] \in Members /\ ms[i + 1] \in Members
    OBVIOUS
  <2>2. ms \in [1 .. Len(ms) -> Members] /\ Len(ms) \in Nat
    OBVIOUS
  <2> DEFINE f == [ms EXCEPT ![i] = ms[i + 1], ![i + 1] = ms[i]]
  <2>3. f \in [1 .. Len(ms) -> Members]
    BY <2>1, <2>2
  <2> HIDE DEF f
  <2>4. f \in Seq(Members)
    BY <2>2, <2>3, Listed
  <2> QED BY <2>4 DEF f
<1> QED BY <1>2, <1>3, <1>4

\* Signing makes a document that says what was signed.
LEMMA SignKeepsEInv ==
  ASSUME NEW kind \in Kind, NEW s \in Text, NEW m \in Nat, NEW more \in More,
         NEW box \in Seq(Members), Len(box) <= 1, \A i \in DOMAIN box : BoxMember(kind, box[i]),
         Sign(kind, Str(s), Num(m), box, more)
  PROVE  EInv'
<1> DEFINE ms == <<Member(IdName[kind], Str(s)), Member(VersionName, Num(m))>> \o box \o more
<1>1. /\ Valid(ms, kind) /\ Canonicalizable(Parsed(ms))
      /\ signed' = [kind |-> kind, payload |-> Parsed(ms), contents |-> Contents(ms, kind)]
      /\ signature' = Canonical(Parsed(ms)) /\ members' = ms
  BY Zenon DEF Sign
<1> HIDE DEF ms
<1>2. ms \in Seq(Members) /\ Genuine(kind, Parsed(ms), Contents(ms, kind), Canonical(Parsed(ms)))
  <2>1. Written(kind, s, m, box, more, ms)
    BY Zenon DEF Written, ms
  <2> QED BY <1>1, <2>1, SignGenuine
<1>3. /\ signed'.kind = kind /\ signed'.payload = Parsed(ms)
      /\ signed'.contents = Contents(ms, kind)
  BY <1>1
<1>4. signed' # Nothing
  <2>1. kind # "nothing" /\ Nothing.kind = "nothing"
    BY DEF Kind, Nothing
  <2> QED BY <1>3, <2>1
<1> QED BY <1>1, <1>2, <1>3, <1>4 DEF EInv

\* Signing a manifest, with metadata or without.
LEMMA SignManifestKeeps ==
  ASSUME NEW s \in Text, NEW m \in Nat, NEW metadata \in Metadata, NEW more \in More,
         SignManifest(Str(s), Num(m), metadata, more)
  PROVE  EInv'
<1> DEFINE e == Member(BoxName["manifest"], Object(metadata))
           box == IF metadata = <<>> THEN <<>> ELSE <<e>>
<1>1. BoxMember("manifest", e) /\ e \in Members
  BY BoxesFit DEF BoxMember
<1>2. Sign("manifest", Str(s), Num(m), box, more) /\ "manifest" \in Kind
  BY Zenon DEF SignManifest, Kind
<1> HIDE DEF e
<1>3. box \in Seq(Members) /\ Len(box) <= 1 /\ \A i \in DOMAIN box : BoxMember("manifest", box[i])
  BY <1>1
<1> HIDE DEF box
<1> QED BY <1>2, <1>3, SignKeepsEInv

\* Signing a registry.
LEMMA SignRegistryKeeps ==
  ASSUME NEW s \in Text, NEW m \in Nat, NEW roster \in Roster, NEW more \in More,
         SignRegistry(Str(s), Num(m), roster, more)
  PROVE  EInv'
<1> DEFINE e == Member(BoxName["registry"], Array(roster))
           box == <<e>>
<1>1. BoxMember("registry", e) /\ e \in Members
  BY BoxesFit DEF BoxMember
<1>2. Sign("registry", Str(s), Num(m), box, more) /\ "registry" \in Kind
  BY Zenon DEF SignRegistry, Kind
<1> HIDE DEF e
<1>3. box \in Seq(Members) /\ Len(box) <= 1 /\ \A i \in DOMAIN box : BoxMember("registry", box[i])
  BY <1>1
<1> HIDE DEF box
<1> QED BY <1>2, <1>3, SignKeepsEInv

\* What a document gains on its way are members.
LEMMA StrayAreMembers == Stray \subseteq Members
  BY EnvelopeAssumption DEF Members, Named

\* Every step preserves the invariant.
LEMMA StepEInv ==
  ASSUME EInv, [ENext]_evars
  PROVE  EInv'
<1> DEFINE Kept == members' \in Seq(Members) /\ UNCHANGED <<signed, signature>>
<1>1. Kept => EInv'
  BY DEF EInv
<1>2. members \in Seq(Members)
  BY DEF EInv
<1>3. CASE \E s \in Text, n \in 0 .. MaxSafeInteger + 1, more \in More :
               \/ \E metadata \in Metadata : SignManifest(Str(s), Num(n), metadata, more)
               \/ \E roster \in Roster : SignRegistry(Str(s), Num(n), roster, more)
  <2>1. PICK s \in Text, n \in 0 .. MaxSafeInteger + 1, more \in More :
               \/ \E metadata \in Metadata : SignManifest(Str(s), Num(n), metadata, more)
               \/ \E roster \in Roster : SignRegistry(Str(s), Num(n), roster, more)
    BY <1>3
  <2>2. n \in Nat
    BY EnvelopeAssumption
  <2>3. CASE \E metadata \in Metadata : SignManifest(Str(s), Num(n), metadata, more)
    <3>1. PICK metadata \in Metadata : SignManifest(Str(s), Num(n), metadata, more)
      BY <2>3
    <3> QED BY <2>2, <3>1, SignManifestKeeps
  <2>4. CASE \E roster \in Roster : SignRegistry(Str(s), Num(n), roster, more)
    <3>1. PICK roster \in Roster : SignRegistry(Str(s), Num(n), roster, more)
      BY <2>4
    <3> QED BY <2>2, <3>1, SignRegistryKeeps
  <2> QED BY <2>1, <2>3, <2>4
<1>4. ASSUME NEW i \in 1 .. Len(members) + 1, NEW e \in Stray, Insert(i, e) PROVE Kept
  <2>1. InsertAt(members, i, e) \in Seq(Members)
    BY <1>2, RewrittenMembers, StrayAreMembers
  <2> QED BY <1>4, <2>1, Zenon DEF Insert, Rewrite
<1>5. ASSUME NEW i \in DOMAIN members, Drop(i) PROVE Kept
  <2>1. RemoveAt(members, i) \in Seq(Members)
    BY <1>2, RewrittenMembers
  <2> QED BY <1>5, <2>1, Zenon DEF Drop, Rewrite
<1>6. ASSUME NEW i \in 1 .. Len(members) - 1, Swap(i) PROVE Kept
  <2>1. [members EXCEPT ![i] = members[i + 1], ![i + 1] = members[i]] \in Seq(Members)
    BY <1>2, RewrittenMembers
  <2> QED BY <1>6, <2>1, Zenon DEF Swap, Rewrite
<1>7. ASSUME NEW kind \in Kind, Relabel(kind) PROVE Kept
  BY <1>2, <1>7, Zenon DEF Relabel, Rewrite
<1>8. CASE UNCHANGED evars
  BY <1>2, <1>8 DEF evars, EInv
<1> HIDE DEF Kept
<1> QED BY <1>1, <1>3, <1>4, <1>5, <1>6, <1>7, <1>8, Zenon DEF ENext

\* The invariant holds throughout.
LEMMA EInvAlways == ESpec => []EInv
<1>1. EInit => EInv
  BY InitEInv
<1>2. EInv /\ [ENext]_evars => EInv'
  BY StepEInv
<1> QED BY <1>1, <1>2, PTL DEF ESpec

\* What a signature is of is what a document says that it is over.
LEMMA SignedIsRead ==
  ASSUME EInv, Canonicalizable(Parsed(members)), Canonical(Parsed(members)) = signature
  PROVE  /\ Parsed(members) = signed.payload
         /\ Genuine(signed.kind, signed.payload, signed.contents, signature)
<1> DEFINE o == Parsed(members)
<1>1. members \in Seq(Members)
  BY DEF EInv
<1>2. o \in Objects(CanonicalValue)
  BY <1>1, ParsedIsObject
<1>3. signature # <<>>
  BY <1>2, CanonicalStarts
<1>4. Genuine(signed.kind, signed.payload, signed.contents, signature)
  BY <1>3 DEF EInv
<1>5. signed.payload \in Objects(CanonicalValue) /\ Canonical(o) = Canonical(signed.payload)
  BY <1>4 DEF Genuine
<1> HIDE DEF o
<1>6. o = signed.payload
  BY <1>2, <1>5, CanonicalOnce
<1> QED BY <1>4, <1>6 DEF o

\* Where at most one position is counted, all are the same.
LEMMA AtMostOne ==
  ASSUME NEW n \in Nat, NEW S, S \subseteq 1 .. n, Cardinality(S) <= 1
  PROVE  \A i, j \in S : i = j
<1> SUFFICES ASSUME NEW i \in S, NEW j \in S, i # j PROVE FALSE
  OBVIOUS
<1>1. IsFiniteSet(S)
  <2>1. IsFiniteSet(1 .. n)
    BY FS_Interval
  <2> QED BY <2>1, FS_Subset
<1>2. IsFiniteSet({i}) /\ Cardinality({i}) = 1
  BY FS_Singleton
<1>3. Cardinality({i} \cup {j}) = 2
  <2>1. j \notin {i}
    OBVIOUS
  <2> QED BY <1>2, <2>1, FS_AddElement
<1>4. {i} \cup {j} \in SUBSET S
  OBVIOUS
<1>5. Cardinality({i} \cup {j}) <= Cardinality(S)
  BY <1>1, <1>4, FS_Subset
<1>6. Cardinality(S) \in Nat
  BY <1>1, FS_CardinalityType
<1> QED BY <1>3, <1>5, <1>6

\* A document that VerifyManifestBytes or VerifyRegistryBytes accepts says
\* what the owner of the key signed: as a payload of that kind, in all its
\* fields when it is read generically; decoded into the struct, it has the
\* identifier and the version that were signed and all that was signed of the
\* map or slice, and nothing else there if one member sets it.
THEOREM VerifiedDocuments == ESpec => []VerifiedIsSigned
<1>1. ASSUME EInv, NEW kind \in Kind, Accepted(kind)
      PROVE  /\ kind = signed.kind
             /\ Parsed(members) = signed.payload
             /\ \A name \in {IdName[kind], VersionName} :
                    Decoded(members, name) = signed.payload[name]
             /\ LET contents == Contents(members, kind)
                IN  /\ Len(contents) = Len(signed.contents)
                    /\ \A j \in DOMAIN contents : \A f \in DOMAIN signed.contents[j] :
                           f \in DOMAIN contents[j] /\ contents[j][f] = signed.contents[j][f]
                    /\ Cardinality(Setters(members, BoxName[kind])) <= 1
                       => contents = signed.contents
  <2> DEFINE o == Parsed(members)
             owner == signed.kind
  <2>1. /\ Canonicalizable(o) /\ Canonical(o) = signature
        /\ Given(members, IdName[kind]) # {}
    BY <1>1 DEF Accepted, VerifyManifestBytes, VerifyRegistryBytes, Verifies, Valid
  <2>2. o = signed.payload /\ Genuine(owner, signed.payload, signed.contents, signature)
    BY <1>1, <2>1, SignedIsRead
  <2>3. members \in Seq(Members)
    BY <1>1 DEF EInv
  <2>4. Sound(owner, Parsed(members)) /\ signed.contents = ContentsOf(owner, Parsed(members))
    BY <2>2 DEF Genuine
\* The identifier's name tells the kind of the payload.
  <2>5. kind = owner
    <3>1. PICK i \in DOMAIN members : Fold(members[i].name) = IdName[kind]
      BY <2>1 DEF Given, Setters
    <3>2. members[i].name \in DOMAIN o
      BY <2>3, ParsedForm
    <3>3. IdName[kind] \in KnownName /\ owner \in Kind /\ VersionName \in KnownName
      BY <2>4, KnownNames DEF Sound
    <3>4. members[i].name \in {IdName[owner], VersionName, BoxName[owner]}
      BY <2>4, <3>1, <3>2, <3>3 DEF Sound
    <3>5. Fold(members[i].name) = members[i].name
      BY <3>3, <3>4, KnownNames
    <3>6. IdName[kind] \in {IdName[owner], VersionName, BoxName[owner]} /\ IdName[kind] # VersionName
      BY <3>1, <3>4, <3>5, KnownNames
    <3> QED BY <3>3, <3>6, KnownNames
  <2>6. \A name \in {IdName[owner], VersionName} : Decoded(members, name) = o[name]
    BY <2>3, <2>4, SameScalars
  <2> DEFINE c == Contents(members, owner)
             d == ContentsOf(owner, Parsed(members))
             S == Setters(members, BoxName[owner])
  <2>7. /\ Len(c) = Len(d)
        /\ \A j \in DOMAIN c : \A f \in DOMAIN d[j] : f \in DOMAIN c[j] /\ c[j][f] = d[j][f]
        /\ (\A i, j \in S : i = j) => c = d
    BY <2>3, <2>4, SameContents
  <2>8. Cardinality(S) <= 1 => \A i, j \in S : i = j
    <3> DEFINE n == Len(members)
    <3>1. n \in Nat /\ S \subseteq 1 .. n
      BY <2>3 DEF Setters
    <3> HIDE DEF S, n
    <3> QED BY <3>1, AtMostOne
  <2> HIDE DEF c, d, S, o, owner
  <2>9. /\ Len(c) = Len(signed.contents)
        /\ \A j \in DOMAIN c : \A f \in DOMAIN signed.contents[j] :
               f \in DOMAIN c[j] /\ c[j][f] = signed.contents[j][f]
        /\ Cardinality(S) <= 1 => c = signed.contents
    BY <2>4, <2>7, <2>8 DEF d
  <2>10. Parsed(members) = signed.payload /\ kind = signed.kind
    BY <2>2, <2>5 DEF o, owner
  <2>11. \A name \in {IdName[kind], VersionName} : Decoded(members, name) = signed.payload[name]
    BY <2>2, <2>5, <2>6
  <2>12. c = Contents(members, kind) /\ S = Setters(members, BoxName[kind])
    BY <2>5 DEF c, S
  <2> QED BY <2>9, <2>10, <2>11, <2>12
<1>2. EInv => VerifiedIsSigned
  BY <1>1, Zenon DEF VerifiedIsSigned
<1> QED BY <1>2, EInvAlways, PTL

\* A document that names every field once and says something sound is one
\* that decoding and Validate take.
LEMMA SoundIsTaken ==
  ASSUME NEW ms \in Seq(Members), NEW kind, Sound(kind, Parsed(ms)), NamedOnce(ms),
         \A i \in DOMAIN ms : \A j \in DOMAIN Parts(ms[i].value) : NamedOnce(ms[i].value.parts[j])
  PROVE  WellTyped(ms, kind) /\ Valid(ms, kind)
<1> DEFINE o == Parsed(ms)
           id == IdName[kind]
           ver == VersionName
           bx == BoxName[kind]
<1>1. /\ kind \in Kind /\ o[id].type = "str" /\ ValidMemberID(o[id].s)
      /\ o[ver].type = "num" /\ o[ver].n \in 1 .. MaxSafeInteger
      /\ bx \in DOMAIN o => /\ o[bx].type = IF kind = "manifest" THEN "obj" ELSE "arr"
                            /\ \A j \in DOMAIN o[bx].parts : PartFits(kind, o[bx].parts[j])
      /\ kind = "registry" => Len(BoxOf(kind, o)) > 0
  BY DEF Sound
<1>2. ASSUME NEW name \in {id, ver, bx}, NEW i \in Setters(ms, name)
      PROVE  /\ i \in DOMAIN ms /\ ms[i].value \in Value /\ name \in DOMAIN o
             /\ o[name] = Read(ms[i].value)
  <2>0. name \in {IdName[kind], VersionName, BoxName[kind]}
    BY <1>2
  <2>a. name \notin DOMAIN Parsed(ms) => Setters(ms, name) = {}
    BY <2>0, OneSpelling
  <2>1. name \in DOMAIN o
    BY <1>2, <2>a
  <2> DEFINE S == Setters(ms, name)
             l == Latest(S)
  <2>2. /\ S = {k \in DOMAIN ms : ms[k].name = name} /\ l \in S
        /\ l \in DOMAIN ms /\ ms[l].value \in Value /\ o[name] = Read(ms[l].value)
    BY <1>2, <2>1, OneSpelling
  <2> HIDE DEF l, S, o, id, ver, bx
  <2>3. ms[l].name = name /\ ms[i].name = name /\ i \in DOMAIN ms
    BY <1>2, <2>2 DEF S
  <2>4. l = i
    BY <2>2, <2>3 DEF NamedOnce
  <2> QED BY <2>1, <2>2, <2>4
<1>3. \A i \in Given(ms, id) : ms[i].value.type = "str"
  BY <1>1, <1>2, ReadForm DEF Given
<1>4. \A i \in Given(ms, ver) : ms[i].value.type = "num" /\ ms[i].value.n >= 0
  <2> SUFFICES ASSUME NEW i \in Setters(ms, ver)
               PROVE  ms[i].value.type = "num" /\ ms[i].value.n >= 0
    BY DEF Given
  <2> DEFINE v == ms[i].value
  <2>1. v \in Value /\ o[ver] = Read(v)
    BY <1>2
  <2> HIDE DEF v, o
  <2>2. v.type = "num"
    BY <1>1, <2>1, ReadForm
  <2>3. o[ver] = v
    BY <2>1, <2>2, ReadForm DEF Nested
  <2>4. v.n \in 1 .. MaxSafeInteger /\ MaxSafeInteger \in Nat
    BY <1>1, <2>3, EnvelopeAssumption
  <2> QED BY <2>2, <2>4 DEF v
<1>5. ASSUME NEW i \in Given(ms, bx)
      PROVE  /\ ms[i].value.type = IF kind = "manifest" THEN "obj" ELSE "arr"
             /\ \A j \in DOMAIN ms[i].value.parts :
                    LET part == ms[i].value.parts[j]
                    IN  \A n \in DOMAIN part :
                            kind = "manifest" \/ Fold(part[n].name) \in MemberField
                            => part[n].value.type \in {"str", "null"}
  <2> DEFINE v == ms[i].value
  <2>1. v \in Value /\ o[bx] = Read(v) /\ bx \in DOMAIN o /\ i \in DOMAIN ms
    <3>1. i \in Setters(ms, bx)
      BY DEF Given
    <3> QED BY <1>2, <3>1
  <2>2. \A j \in DOMAIN Parts(v) : NamedOnce(v.parts[j])
    BY <2>1
  <2> HIDE DEF v, o, bx
  <2>3. v.type = IF kind = "manifest" THEN "obj" ELSE "arr"
    BY <1>1, <2>1, ReadForm
  <2>4. Nested(v)
    BY <2>3 DEF Nested
  <2>5. /\ Parts(v) = v.parts /\ DOMAIN Read(v).parts = DOMAIN v.parts
        /\ \A j \in DOMAIN v.parts : v.parts[j] \in Seq(Named(Scalar)) /\ Read(v).parts[j] = LastOf(v.parts[j])
    BY <2>1, <2>4, ReadForm
  <2>6. ASSUME NEW j \in DOMAIN v.parts, NEW n \in DOMAIN v.parts[j],
               kind = "manifest" \/ Fold(v.parts[j][n].name) \in MemberField
        PROVE  v.parts[j][n].value.type \in {"str", "null"}
    <3> DEFINE part == v.parts[j]
               q == LastOf(part)
               f == part[n].name
    <3>1. part \in Seq(Named(Scalar)) /\ NamedOnce(part) /\ PartFits(kind, q)
      BY <1>1, <2>1, <2>2, <2>5
    <3>2. f \in DOMAIN q /\ q[f] = part[n].value
      BY <3>1, LastForm, OnceIsLast
    <3> HIDE DEF q
    <3>3. q[f].type = "str"
      BY <2>6, <3>1, <3>2 DEF PartFits
    <3> QED BY <3>2, <3>3
  <2> QED BY <2>3, <2>6 DEF v
<1>6. WellTyped(ms, kind)
  BY <1>3, <1>4, <1>5, Zenon DEF WellTyped
<1>7. /\ Given(ms, id) # {} /\ Decoded(ms, id) = o[id]
      /\ Given(ms, ver) # {} /\ Decoded(ms, ver) = o[ver]
  BY SameScalars
<1>8. kind = "registry" => Size(ms, kind) > 0
  BY <1>1, SameContents
<1> HIDE DEF o, id, ver, bx
<1>9. Valid(ms, kind)
  BY <1>1, <1>7, <1>8 DEF Valid, id, ver
<1> QED BY <1>6, <1>9

\* A rewritten document that still says what was signed, each name once, is
\* accepted: the order of members, white space, spelling of strings and
\* fields of a later version make no difference.
THEOREM RewrittenDocumentsVerify == ESpec => []EveryEncodingVerifies
<1>1. ASSUME EInv, signed # Nothing, field = signed.kind, NamedOnce(members),
             \A i \in DOMAIN members : \A j \in DOMAIN Parts(members[i].value) :
                 NamedOnce(members[i].value.parts[j]),
             Parsed(members) = signed.payload
      PROVE  Accepted(signed.kind)
  <2>1. /\ members \in Seq(Members)
        /\ Genuine(signed.kind, Parsed(members), signed.contents, signature)
    BY <1>1 DEF EInv
  <2>2. /\ Canonicalizable(Parsed(members)) /\ Canonical(Parsed(members)) = signature
        /\ Sound(signed.kind, Parsed(members))
    BY <2>1 DEF Genuine
  <2>3. WellTyped(members, signed.kind) /\ Valid(members, signed.kind)
    BY <1>1, <2>1, <2>2, SoundIsTaken
  <2>4. Verifies(signed.kind)
    BY <1>1, <2>2, <2>3 DEF Verifies
  <2>5. signed.kind \in Kind
    BY <2>2 DEF Sound
  <2> QED BY <2>4, <2>5 DEF Accepted, VerifyManifestBytes, VerifyRegistryBytes, Kind
<1>2. EInv => EveryEncodingVerifies
  BY <1>1, Zenon DEF EveryEncodingVerifies
<1> QED BY <1>2, EInvAlways, PTL

\* The names of every signed payload are in the order of RFC 8785 by
\* characters, although lessUTF16 compares 16-bit units.
THEOREM NamesAreOrdered == ESpec => []NamesInOrder
<1>1. ASSUME EInv PROVE NamesInOrder
  <2>1. CASE signed = Nothing
    <3>1. DOMAIN signed.payload = {}
      BY <2>1 DEF Nothing
    <3> QED BY <3>1 DEF NamesInOrder
  <2>2. CASE signed # Nothing
    <3>1. signed.payload \in Objects(CanonicalValue)
      BY <1>1, <2>2 DEF EInv, Genuine
    <3>2. DOMAIN signed.payload \subseteq Seq(Char)
      BY <3>1, ObjectIs
    <3> QED BY <3>2, NameOrder DEF NamesInOrder
  <2> QED BY <2>1, <2>2
<1> QED BY <1>1, EInvAlways, PTL

-----------------------------------------------------------------------------
(* The watch of the registry file.                                         *)

USE RegistryAssumption

-----------------------------------------------------------------------------
(* The invariant of the watch.                                             *)

\* The Watcher's variables hold registries where they are used as such.
Loaded ==
  /\ Running => watch.reg \in Registry
  /\ watch.step = "install" => watch.got \in Registry

\* A time that was noted is the file's, or one that the file had.
Noted(time) == time = file.mtime \/ time \in used

TimesNoted ==
  /\ watch.step \in {"opening", "load", "install"} => Noted(watch.stat)
  /\ Running => Noted(watch.mtime)

\* A noted time that stands for the present file and no other.
Current(time) == time = file.mtime /\ time \notin used

\* What was read under such a time is in the file.
ReadIsCurrent ==
  /\ watch.step = "install" /\ Current(watch.stat) => watch.got = file.content
  /\ Running /\ Current(watch.mtime) => watch.reg = file.content

\* The file that registry-sign is writing is torn until it has written it.
SigningIsTorn == signing # None => file.content = Torn

Inv ==
  /\ TypeOK
  /\ Loaded
  /\ TimesNoted
  /\ ReadIsCurrent
  /\ SigningIsTorn

\* The fields of the Watcher.
LEMMA WatcherFields ==
  ASSUME TypeOK
  PROVE  /\ watch.step \in {"down", "opening", "idle", "load", "install"}
         /\ watch.reg \in Registry \cup {None}
         /\ watch.mtime \in Time
         /\ watch.stat \in Time
         /\ watch.got \in Registry \cup {None}
         /\ file.mtime \in Time
         /\ file.content \in Registry \cup {None, Torn}
  BY DEF TypeOK, Watcher, File

\* The state of a Watcher that does not run is well typed and claims nothing.
LEMMA DownIsTyped == Down \in Watcher
  BY DEF Down, Watcher, Time

-----------------------------------------------------------------------------
(* Steps of the file.                                                      *)

\* Whoever gives the file another content and time through Stamped leaves
\* nothing current, so all claims about what was read hold of nothing.
LEMMA StampedKeeps ==
  ASSUME Inv, NEW content \in Registry \cup {None, Torn}, NEW mtime \in Time,
         Stamped(content, mtime), UNCHANGED watch
  PROVE  /\ file' \in File /\ used' \subseteq Time
         /\ Loaded' /\ TimesNoted' /\ ReadIsCurrent'
<1>1. /\ file' = [content |-> content, mtime |-> mtime]
      /\ used' = used \cup {file.mtime}
  BY DEF Stamped
<1>2. file' \in File /\ used' \subseteq Time
  BY <1>1, WatcherFields DEF Inv, TypeOK, File
<1>3. Loaded'
  BY DEF Inv, Loaded, Running
<1>4. \A time : Noted(time) => time \in used'
  BY <1>1 DEF Noted
<1>5. TimesNoted'
  BY <1>4 DEF Inv, TimesNoted, Running, Noted
<1>6. ReadIsCurrent'
  BY <1>4 DEF Inv, TimesNoted, ReadIsCurrent, Running, Current
<1> QED BY <1>2, <1>3, <1>5, <1>6

\* The steps of the operators preserve the invariant.
LEMMA OperatorsStep ==
  ASSUME Inv, Operators
  PROVE  Inv'
<1>1. TypeOK /\ SigningIsTorn
  BY DEF Inv
<1>2. CASE Tick
  BY <1>2 DEF Tick, Inv, TypeOK, Loaded, TimesNoted, ReadIsCurrent, SigningIsTorn,
              Running, Noted, Current, Time, bundles
<1>3. ASSUME NEW r \in Registry, SignTruncate(r) PROVE Inv'
  <2>1. /\ Stamped(Torn, clock) /\ signing' = r
        /\ UNCHANGED <<clock, watch, bundles, settled>>
    BY <1>3 DEF SignTruncate
  <2>2. clock \in Time
    BY <1>1 DEF TypeOK
  <2>3. file' \in File /\ used' \subseteq Time /\ Loaded' /\ TimesNoted' /\ ReadIsCurrent'
    BY <2>1, <2>2, StampedKeeps
  <2>4. file'.content = Torn
    BY <2>1 DEF Stamped
  <2> QED BY <1>1, <2>1, <2>3, <2>4 DEF Inv, TypeOK, SigningIsTorn, bundles
<1>4. CASE SignWrite
  <2>1. /\ signing # None /\ signing' = None /\ signing \in Registry
        /\ file' = [content |-> signing, mtime |-> clock]
        /\ used' = IF clock = file.mtime THEN used ELSE used \cup {file.mtime}
        /\ UNCHANGED <<clock, watch, bundles, settled>>
    BY <1>1, <1>4 DEF SignWrite, TypeOK
  <2>2. file.content = Torn
    BY <1>1, <2>1 DEF SigningIsTorn
  <2>3. /\ watch.step = "install" => ~Current(watch.stat)
        /\ Running => ~Current(watch.mtime)
    BY <2>2 DEF Inv, Loaded, ReadIsCurrent
  <2>4. TypeOK'
    BY <1>1, <2>1, WatcherFields DEF TypeOK, File, bundles
  <2>5. \A time : Noted(time) => Noted(time)'
    BY <2>1 DEF Noted
  <2>6. \A time : Noted(time) /\ ~Current(time) => ~Current(time)'
    BY <2>1 DEF Noted, Current
  <2>7. Loaded' /\ TimesNoted'
    BY <2>1, <2>5 DEF Inv, Loaded, TimesNoted, Running
  <2>8. ReadIsCurrent'
    BY <2>1, <2>3, <2>6 DEF Inv, TimesNoted, ReadIsCurrent, Running
  <2> QED BY <2>1, <2>4, <2>7, <2>8 DEF Inv, SigningIsTorn
<1>5. ASSUME NEW r \in Registry, NEW time \in Time, Replace(r, time) PROVE Inv'
  <2>1. /\ Stamped(r, time) /\ signing' = None
        /\ UNCHANGED <<clock, watch, bundles, settled>>
    BY <1>5 DEF Replace
  <2>2. file' \in File /\ used' \subseteq Time /\ Loaded' /\ TimesNoted' /\ ReadIsCurrent'
    BY <2>1, StampedKeeps
  <2> QED BY <1>1, <2>1, <2>2 DEF Inv, TypeOK, SigningIsTorn, bundles
<1>6. CASE Unlink
  <2>1. /\ Stamped(None, file.mtime) /\ signing' = None
        /\ UNCHANGED <<clock, watch, bundles, settled>>
    BY <1>6 DEF Unlink
  <2>2. file.mtime \in Time
    BY <1>1, WatcherFields
  <2>3. file' \in File /\ used' \subseteq Time /\ Loaded' /\ TimesNoted' /\ ReadIsCurrent'
    BY <2>1, <2>2, StampedKeeps
  <2> QED BY <1>1, <2>1, <2>3 DEF Inv, TypeOK, SigningIsTorn, bundles
<1>7. ASSUME NEW bundle \in Bundle, Publish(bundle) PROVE Inv'
  BY <1>7 DEF Publish, disk, Inv, TypeOK, Loaded, TimesNoted, ReadIsCurrent,
              SigningIsTorn, Running, Noted, Current
<1>8. CASE Stop
  <2>1. /\ watch' = Down /\ sync' = None
        /\ UNCHANGED <<disk, offered, held, settled>>
    BY <1>8 DEF Stop
  <2>2. TypeOK'
    BY <1>1, <2>1, DownIsTyped DEF TypeOK, disk
  <2>3. watch'.step = "down"
    BY <2>1 DEF Down
  <2> QED BY <1>1, <2>1, <2>2, <2>3 DEF Inv, Loaded, TimesNoted, ReadIsCurrent,
                                        SigningIsTorn, Running, disk
<1>9. CASE Settle
  BY <1>9 DEF Settle, disk, bundles, Inv, TypeOK, Loaded, TimesNoted, ReadIsCurrent,
              SigningIsTorn, Running, Noted, Current
<1> QED
  BY <1>2, <1>3, <1>4, <1>5, <1>6, <1>7, <1>8, <1>9 DEF Operators

-----------------------------------------------------------------------------
(* Steps of the agent.                                                     *)

\* The steps of the Watcher preserve the invariant.
LEMMA WatchingStep ==
  ASSUME Inv, Watching
  PROVE  Inv'
<1>1. TypeOK /\ Loaded /\ TimesNoted /\ ReadIsCurrent /\ SigningIsTorn
  BY DEF Inv
<1>2. /\ watch \in Watcher /\ DOMAIN watch = {"step", "reg", "mtime", "stat", "got"}
      /\ watch.step \in {"down", "opening", "idle", "load", "install"}
      /\ watch.reg \in Registry \cup {None} /\ watch.got \in Registry \cup {None}
      /\ watch.mtime \in Time /\ watch.stat \in Time /\ file.mtime \in Time
  BY <1>1, WatcherFields DEF TypeOK, Watcher
<1>3. UNCHANGED <<disk, bundles, settled>>
  BY DEF Watching, OpenStat, OpenLoad, ReloadStat, ReloadLoad, ReloadInstall
<1>4. \A time : (Noted(time) => Noted(time)') /\ (Current(time)' => Current(time))
  BY <1>3 DEF Noted, Current, disk
<1>5. ASSUME watch' \in Watcher PROVE TypeOK' /\ SigningIsTorn'
  BY <1>1, <1>3, <1>5 DEF TypeOK, SigningIsTorn, disk, bundles
<1>6. CASE OpenStat
  <2>1. watch' = [Down EXCEPT !.step = "opening", !.stat = file.mtime]
    BY <1>6 DEF OpenStat
  <2>2. watch' \in Watcher /\ watch'.step = "opening" /\ watch'.stat = file.mtime
    BY <1>2, <2>1, DownIsTyped DEF Watcher
  <2>3. Noted(file.mtime)
    BY DEF Noted
  <2> QED BY <1>4, <1>5, <2>2, <2>3 DEF Inv, Loaded, TimesNoted, ReadIsCurrent, Running
<1>7. CASE OpenLoad
  <2>1. CASE Startable(file.content)
    <3>0. file.content \in Registry
      BY <2>1 DEF Startable
    <3>1. watch' = [Down EXCEPT !.step = "idle", !.reg = file.content, !.mtime = watch.stat]
      BY <1>7, <2>1 DEF OpenLoad
    <3>2. /\ watch' \in Watcher /\ watch'.step = "idle" /\ watch'.reg = file.content
          /\ watch'.mtime = watch.stat
      BY <1>2, <3>0, <3>1, DownIsTyped DEF Watcher
    <3>3. Noted(watch.stat)
      BY <1>1, <1>7 DEF OpenLoad, TimesNoted
    <3> QED BY <1>3, <1>4, <1>5, <3>0, <3>2, <3>3
            DEF Inv, Loaded, TimesNoted, ReadIsCurrent, Running, disk
  <2>2. CASE ~Startable(file.content)
    <3>1. watch' = Down /\ watch'.step = "down"
      BY <1>7, <2>2 DEF OpenLoad, Down
    <3> QED BY <1>5, <3>1, DownIsTyped
            DEF Inv, Loaded, TimesNoted, ReadIsCurrent, Running
  <2> QED BY <2>1, <2>2
<1>8. CASE ReloadStat
  <2>1. watch.step = "idle" /\ watch' = [watch EXCEPT !.step = "load", !.stat = file.mtime]
    BY <1>8 DEF ReloadStat
  <2>2. /\ watch' \in Watcher /\ watch'.step = "load" /\ watch'.stat = file.mtime
        /\ watch'.reg = watch.reg /\ watch'.mtime = watch.mtime
    BY <1>2, <2>1 DEF Watcher
  <2>3. Noted(file.mtime)
    BY DEF Noted
  <2> QED BY <1>1, <1>3, <1>4, <1>5, <2>1, <2>2, <2>3
          DEF Inv, Loaded, TimesNoted, ReadIsCurrent, Running, disk
<1>9. CASE ReloadLoad
  <2>1. CASE file.content \in Registry
    <3>1. /\ watch.step = "load"
          /\ watch' = [watch EXCEPT !.step = "install", !.got = file.content]
      BY <1>9, <2>1 DEF ReloadLoad
    <3>2. /\ watch' \in Watcher /\ watch'.step = "install" /\ watch'.got = file.content
          /\ watch'.reg = watch.reg /\ watch'.mtime = watch.mtime
          /\ watch'.stat = watch.stat
      BY <1>2, <2>1, <3>1 DEF Watcher
    <3> QED BY <1>1, <1>3, <1>4, <1>5, <2>1, <3>1, <3>2
            DEF Inv, Loaded, TimesNoted, ReadIsCurrent, Running, disk
  <2>2. CASE file.content \notin Registry
    <3>1. watch.step = "load" /\ watch' = [watch EXCEPT !.step = "idle"]
      BY <1>9, <2>2 DEF ReloadLoad
    <3>2. /\ watch' \in Watcher /\ watch'.step = "idle"
          /\ watch'.reg = watch.reg /\ watch'.mtime = watch.mtime
      BY <1>2, <3>1 DEF Watcher
    <3> QED BY <1>1, <1>3, <1>4, <1>5, <3>1, <3>2
            DEF Inv, Loaded, TimesNoted, ReadIsCurrent, Running, disk
  <2> QED BY <2>1, <2>2
<1>10. CASE ReloadInstall
  <2>1. watch.step = "install" /\ watch.got \in Registry
    BY <1>1, <1>10 DEF ReloadInstall, Loaded
  <2>2. CASE VersionOf[watch.got] < VersionOf[watch.reg]
    <3>1. watch' = [watch EXCEPT !.step = "idle", !.got = None]
      BY <1>10, <2>2 DEF ReloadInstall
    <3>2. /\ watch' \in Watcher /\ watch'.step = "idle"
          /\ watch'.reg = watch.reg /\ watch'.mtime = watch.mtime
      BY <1>2, <3>1 DEF Watcher
    <3> QED BY <1>1, <1>3, <1>4, <1>5, <2>1, <3>2
            DEF Inv, Loaded, TimesNoted, ReadIsCurrent, Running, disk
  <2>3. CASE ~(VersionOf[watch.got] < VersionOf[watch.reg])
    <3>1. watch' = [watch EXCEPT !.step = "idle", !.got = None,
                                 !.reg = watch.got, !.mtime = watch.stat]
      BY <1>10, <2>3 DEF ReloadInstall
    <3>2. /\ watch' \in Watcher /\ watch'.step = "idle"
          /\ watch'.reg = watch.got /\ watch'.mtime = watch.stat
      BY <1>2, <2>1, <3>1 DEF Watcher
    <3> QED BY <1>1, <1>3, <1>4, <1>5, <2>1, <3>2
            DEF Inv, Loaded, TimesNoted, ReadIsCurrent, Running, disk
  <2> QED BY <2>2, <2>3
<1> QED BY <1>6, <1>7, <1>8, <1>9, <1>10 DEF Watching

\* The fetcher touches neither the file nor the Watcher.
LEMMA FetchingStep ==
  ASSUME Inv, Fetching
  PROVE  Inv'
<1>1. UNCHANGED <<disk, watch, offered, settled>>
  BY DEF Fetching, SyncStart, SyncEnd
<1>2. held' \in Bundle \cup {NoBundle} /\ sync' \in Key \cup {None}
  <2>1. CASE SyncStart
    <3>1. watch.reg \in Registry
      BY <2>1 DEF SyncStart, Inv, Loaded
    <3>2. KeyOf[watch.reg] \in Key \cup {None}
      BY <3>1
    <3> QED BY <2>1, <3>2 DEF SyncStart, Inv, TypeOK
  <2>2. CASE SyncEnd
    BY <2>2 DEF SyncEnd, Inv, TypeOK
  <2> QED BY <2>1, <2>2 DEF Fetching
<1> QED BY <1>1, <1>2 DEF Inv, TypeOK, Loaded, TimesNoted, ReadIsCurrent, SigningIsTorn,
                          Running, Noted, Current, disk

-----------------------------------------------------------------------------
(* The theorems.                                                           *)

\* The invariant holds initially.
LEMMA InitInv == Init => Inv
<1> SUFFICES ASSUME Init PROVE Inv
  OBVIOUS
<1>1. watch \in Watcher /\ watch.step = "down"
  BY DownIsTyped DEF Init, Down
<1>2. 0 \in Time
  BY DEF Time
<1>3. file \in File
  BY <1>2 DEF Init, File
<1>4. TypeOK
  BY <1>1, <1>2, <1>3 DEF Init, TypeOK
<1> QED BY <1>1, <1>4 DEF Init, Inv, Loaded, TimesNoted, ReadIsCurrent, SigningIsTorn, Running

\* Every step preserves it.
LEMMA StepInv == Inv /\ [Next]_vars => Inv'
<1> SUFFICES ASSUME Inv, [Next]_vars PROVE Inv'
  OBVIOUS
<1>1. CASE Watching
  BY <1>1, WatchingStep
<1>2. CASE Fetching
  BY <1>2, FetchingStep
<1>3. CASE Operators
  BY <1>3, OperatorsStep
<1>4. CASE UNCHANGED vars
  BY <1>4 DEF vars, disk, bundles, Inv, TypeOK, Loaded, TimesNoted, ReadIsCurrent,
              SigningIsTorn, Running, Noted, Current
<1> QED BY <1>1, <1>2, <1>3, <1>4 DEF Next

\* The invariant holds throughout.
LEMMA Invariant == Spec => []Inv
  BY InitInv, StepInv, PTL DEF Spec

\* Type correctness of the registry file, the Watcher and the bundle.
THEOREM TypeCorrect == Spec => []TypeOK
<1>1. Inv => TypeOK
  BY DEF Inv
<1> QED BY <1>1, Invariant, PTL

\* However a reload falls together with the writing of the file, an update
\* with a time of its own is not missed (Reload stats before it loads).
THEOREM NoUpdateIsMissed == Spec => []NoUpdateMissed
<1>1. Inv => NoUpdateMissed
  BY DEF Inv, ReadIsCurrent, Running, Current, NoUpdateMissed
<1> QED BY <1>1, Invariant, PTL

\* The registry in force of a running agent never goes down a version
\* (Reload's rollback check), whatever is put into the file.
THEOREM RegistryOnlyMovesUp == Spec => RegistryMovesUp
<1> DEFINE Up == Running /\ Running' => VersionOf[watch'.reg] >= VersionOf[watch.reg]
<1>1. ASSUME Inv, [Next]_vars PROVE [Up]_vars
  <2> SUFFICES ASSUME Running, Running' PROVE VersionOf[watch'.reg] >= VersionOf[watch.reg]
    OBVIOUS
  <2>1. watch.reg \in Registry /\ VersionOf[watch.reg] \in Nat
    BY <1>1 DEF Inv, Loaded
  <2>2. watch \in Watcher
    BY <1>1 DEF Inv, TypeOK
  <2>3. watch'.reg = watch.reg => VersionOf[watch'.reg] >= VersionOf[watch.reg]
    BY <2>1
  <2>4. CASE ReloadInstall
    <3>1. watch.got \in Registry /\ VersionOf[watch.got] \in Nat
      BY <1>1, <2>4 DEF Inv, Loaded, ReloadInstall
    <3>2. CASE VersionOf[watch.got] < VersionOf[watch.reg]
      BY <2>2, <2>3, <2>4, <3>2 DEF ReloadInstall, Watcher
    <3>3. CASE ~(VersionOf[watch.got] < VersionOf[watch.reg])
      <4>1. watch'.reg = watch.got
        BY <2>2, <2>4, <3>3 DEF ReloadInstall, Watcher
      <4> QED BY <2>1, <3>1, <3>3, <4>1
    <3> QED BY <3>2, <3>3
  <2>5. CASE ReloadStat \/ ReloadLoad
    BY <2>2, <2>3, <2>5 DEF ReloadStat, ReloadLoad, Watcher
  <2>6. CASE OpenStat \/ OpenLoad
    BY <2>6 DEF OpenStat, OpenLoad, Running
  <2>7. CASE Fetching
    BY <2>3, <2>7 DEF Fetching, SyncStart, SyncEnd
  <2>8. CASE Operators
    <3>1. ~Stop
      BY DEF Stop, Down, Running
    <3>2. UNCHANGED watch
      BY <2>8, <3>1 DEF Operators, Tick, SignTruncate, SignWrite, Replace, Unlink,
                        Publish, Settle
    <3> QED BY <2>3, <3>2
  <2>9. CASE UNCHANGED vars
    BY <2>3, <2>9 DEF vars
  <2> QED BY <1>1, <2>4, <2>5, <2>6, <2>7, <2>8, <2>9 DEF Next, Watching
<1> QED BY <1>1, Invariant, PTL DEF Spec, RegistryMovesUp
===============================================================================

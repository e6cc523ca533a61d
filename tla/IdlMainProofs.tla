---------------------------- MODULE IdlMainProofs ----------------------------
(***************************************************************************)
(* The generator, for every interface description, of any length and with  *)
(* any names, and for every command line: what it records of a file that   *)
(* it accepts is what the file declares, the page serves it, and whatever  *)
(* way main() is left, the standard streams have the buffers they had.     *)
(*                                                                         *)
(* w is the sequence of the tokens that the parser has taken for good      *)
(* between the braces of interfaces.  ParserInv(w) says that what is       *)
(* recorded is what w declares, by induction on w: v is w and one more     *)
(* token x.  ScanInv and Holds(w) say that the text of the file is w and   *)
(* what the scanner has read ahead.  ReadInv puts the two together.        *)
(***************************************************************************)
EXTENDS IdlMain, FiniteSetTheorems, SequenceTheorems, TLAPS

-----------------------------------------------------------------------------
(* What the text says, and what is recorded of it *)

\* The places of the parser between the braces of an interface, and what counts there.
BodyPoints ==
    {"body", "readonly", "attribute_type", "unsigned", "unsigned_long", "long", "attribute",
     "after_attribute", "method", "(", "first_parameter", "next_parameter",
     "parameter_type", "parameter", "after_parameter", ")"}
Countable == (Words \cup Single \cup Openers) \ {"lbrace", "rbrace"}

\* Where w has a name.
Pos(w) == {p \in 1..Len(w) : w[p] \in Names}

\* The item that p is in begins at s.
Begin(w, s, p) ==
    /\ s \in 1..p
    /\ s = 1 \/ w[s - 1] = "semicolon"
    /\ \A q \in s..(p - 1) : w[q] # "semicolon"
Same(w, k, q) == \E s \in 1..k : Begin(w, s, k) /\ Begin(w, s, q)

\* The words of t are at h, and no other word of a type after them.
Run(w, h, t) == h + Len(t) <= Len(w) + 1 /\ \A i \in 1..Len(t) : w[h + i - 1] = t[i]
Whole(w, h, t) == Run(w, h, t) /\ h + Len(t) <= Len(w) /\ w[h + Len(t)] \notin TypeWords
\* A type that parseType() may read: its first and last words agree on the number that
\* it is.
GoodType(t) ==
    /\ t \in Seq(TypeWords) /\ Len(t) > 0
    /\ t[1] \in {"octet", "unsigned", "short", "long"} <=> t[Len(t)] \in {"octet", "short", "long"}
    /\ t[1] = "float" <=> t[Len(t)] = "float"

\* The type of an attribute begins at h, after the words that it needs from s on; that of
\* a parameter of direction d does.
AttrHead(w, s, h, r) ==
    s <= Len(w) /\ IF r THEN w[s] = "readonly" /\ h = s + 2 ELSE w[s] = "attribute" /\ h = s + 1
ParamHead(w, h, d) ==
    /\ w[h - 1] \in {"(", "comma"} \cup Directions
    /\ d = IF w[h - 1] \in Directions THEN w[h - 1] ELSE "none"

\* The places of the names of attributes, of methods, and of the parameters of the
\* method whose name is at k.
AttrPos(w) == {p \in Pos(w) : \E s \in 1..p : Begin(w, s, p)
                                              /\ w[s] \in {"readonly", "attribute"}}
MethPos(w) == {p \in Pos(w) : \E s \in 1..p : Begin(w, s, p)
                                              /\ \A q \in s..(p - 1) : w[q] \in TypeWords}
ParamPos(w, k) == {q \in Pos(w) : q > k /\ Same(w, k, q)}
\* What p is in the order of S; T is S and one place after all of it.
Rank(S, p) == Cardinality({q \in S : q <= p})
Adds(n, S, T) == n \in Nat /\ S \in SUBSET (1..n) /\ T = S \cup {n + 1}

Attributes == [type : Seq(TypeWords), name : Names, readonly : BOOLEAN]
Parameters == [dir : Directions \cup {"none"}, type : Seq(TypeWords), name : Names]
Methods == [type : Seq(TypeWords), name : Names, params : Seq(Parameters)]

\* What is recorded is what w says at the place, and so for lists of it.
AttrIs(w, p, a) ==
    /\ a \in Attributes /\ a.name = w[p] /\ GoodType(a.type)
    /\ \E s \in 1..p : /\ Begin(w, s, p)
                       /\ \E h \in 1..p : AttrHead(w, s, h, a.readonly) /\ Whole(w, h, a.type)
ParamIs(w, p, r) ==
    /\ r \in Parameters /\ r.name = w[p] /\ GoodType(r.type)
    /\ \E h \in 2..p : ParamHead(w, h, r.dir) /\ Whole(w, h, r.type) /\ p = h + Len(r.type)
ListsParams(w, k, list) ==
    /\ list \in Seq(Parameters) /\ Len(list) = Cardinality(ParamPos(w, k))
    /\ \A q \in ParamPos(w, k) : ParamIs(w, q, list[Rank(ParamPos(w, k), q)])
MethIs(w, k, m) ==
    /\ m \in Methods /\ m.name = w[k] /\ GoodType(m.type)
    /\ \E s \in 1..k : Begin(w, s, k) /\ Whole(w, s, m.type)
    /\ ListsParams(w, k, m.params)
ListsAttrs(w, list) ==
    /\ list \in Seq(Attributes) /\ Len(list) = Cardinality(AttrPos(w))
    /\ \A p \in AttrPos(w) : AttrIs(w, p, list[Rank(AttrPos(w), p)])
ListsMeths(w, list) ==
    /\ list \in Seq(Methods) /\ Len(list) = Cardinality(MethPos(w))
    /\ \A p \in MethPos(w) : MethIs(w, p, list[Rank(MethPos(w), p)])
\* Every place is in an item; a name that is not of an attribute is in the item of a
\* method, and a parenthesis follows the name of that one only.
NamesInv(w) ==
    /\ \A p \in 1..Len(w) : \E s \in 1..p : Begin(w, s, p)
    /\ \A p \in Pos(w) \ AttrPos(w) : \E k \in MethPos(w) : k <= p /\ Same(w, k, p)
    /\ \A p \in Pos(w) \ AttrPos(w) : p < Len(w) => (p \in MethPos(w) <=> w[p + 1] = "(")

\* v is w and one more token.
Longer(w, v, x) ==
    /\ w \in Seq(Countable) /\ v \in Seq(Countable) /\ Len(v) = Len(w) + 1
    /\ \A i \in 1..Len(w) : v[i] = w[i]
    /\ v[Len(w) + 1] = x

-----------------------------------------------------------------------------
(* Sequences that grow, and where items begin *)

\* Names are none of the words and signs that the grammar has.
LEMMA NamesApart ==
    /\ \A x \in Names : x \notin TypeWords /\ x \notin Directions
    /\ \A x \in Names : x \notin {"readonly", "attribute", "semicolon", "(", ")", "comma",
                                 "lbrace", "rbrace", "none"}
BY NamesAssumption DEF s_keywords, Single, Others, Directions

\* One token more.
LEMMA AppendLonger ==
    ASSUME NEW w \in Seq(Countable), NEW x \in Countable
    PROVE  Longer(w, Append(w, x), x)
BY DEF Longer

\* An item begins at one place only, which is the one of its first part.
LEMMA BeginUnique ==
    ASSUME NEW w, NEW p \in Nat, NEW s, NEW r, Begin(w, s, p), Begin(w, r, p)
    PROVE  s = r
<1>1. s \in 1..p /\ r \in 1..p
    BY DEF Begin
<1>2. ~(s < r)
    <2> SUFFICES ASSUME s < r PROVE FALSE
        OBVIOUS
    <2>1. w[r - 1] = "semicolon" /\ r - 1 \in s..(p - 1)
        BY <1>1 DEF Begin
    <2> QED BY <2>1 DEF Begin
<1>3. ~(r < s)
    <2> SUFFICES ASSUME r < s PROVE FALSE
        OBVIOUS
    <2>1. w[s - 1] = "semicolon" /\ s - 1 \in r..(p - 1)
        BY <1>1 DEF Begin
    <2> QED BY <2>1 DEF Begin
<1> QED BY <1>1, <1>2, <1>3

\* What comes later says nothing of where items begin.
LEMMA BeginOld ==
    ASSUME NEW w, NEW v, NEW x, Longer(w, v, x), NEW p \in 1..(Len(w) + 1), NEW s
    PROVE  Begin(v, s, p) <=> Begin(w, s, p)
<1>1. Len(w) \in Nat
    BY DEF Longer
<1>2. ASSUME s \in 1..p PROVE /\ s # 1 => v[s - 1] = w[s - 1]
                              /\ \A q \in s..(p - 1) : v[q] = w[q]
    BY <1>1, <1>2 DEF Longer
<1> QED BY <1>2 DEF Begin

\* A semicolon is the end of an item, and another token is in it.
LEMMA BeginNext ==
    ASSUME NEW w, NEW v, NEW x, Longer(w, v, x), NEW s, Begin(w, s, Len(w) + 1)
    PROVE  /\ x # "semicolon" => Begin(v, s, Len(v) + 1)
           /\ x = "semicolon" => Begin(v, Len(v) + 1, Len(v) + 1)
<1>1. Len(w) \in Nat /\ Len(v) = Len(w) + 1 /\ s \in 1..(Len(w) + 1) /\ v[Len(w) + 1] = x
    BY DEF Longer, Begin
<1>2. Begin(v, s, Len(w) + 1)
    BY <1>1, BeginOld
<1>3. x # "semicolon" => Begin(v, s, Len(v) + 1)
    BY <1>1, <1>2 DEF Begin
<1>4. x = "semicolon" => Begin(v, Len(v) + 1, Len(v) + 1)
    BY <1>1 DEF Begin
<1> QED BY <1>3, <1>4

\* ... nor where types are.
LEMMA RunOld ==
    ASSUME NEW w, NEW v, NEW x, Longer(w, v, x), NEW h \in Nat \ {0}, NEW t \in Seq(TypeWords)
    PROVE  /\ Run(w, h, t) => Run(v, h, t)
           /\ Whole(w, h, t) => Whole(v, h, t)
           /\ Run(w, h, t) /\ h + Len(t) = Len(w) + 1 =>
                /\ x \in TypeWords => Run(v, h, Append(t, x)) /\ h + Len(Append(t, x)) = Len(v) + 1
                /\ x \notin TypeWords => Whole(v, h, t)
<1>1. Len(w) \in Nat /\ Len(t) \in Nat /\ Len(v) = Len(w) + 1 /\ v[Len(w) + 1] = x
    BY DEF Longer
<1>2. ASSUME Run(w, h, t) PROVE Run(v, h, t)
    <2>1. ASSUME NEW i \in 1..Len(t) PROVE v[h + i - 1] = t[i]
        <3>1. h + i - 1 \in 1..Len(w) /\ w[h + i - 1] = t[i]
            BY <1>1, <1>2 DEF Run
        <3> QED BY <3>1 DEF Longer
    <2> QED BY <1>1, <1>2, <2>1 DEF Run
<1>3. Whole(w, h, t) => Whole(v, h, t)
    BY <1>1, <1>2 DEF Longer, Whole
<1>4. ASSUME Run(w, h, t), h + Len(t) = Len(w) + 1
      PROVE  /\ x \in TypeWords => Run(v, h, Append(t, x)) /\ h + Len(Append(t, x)) = Len(v) + 1
             /\ x \notin TypeWords => Whole(v, h, t)
    <2>1. x \notin TypeWords => Whole(v, h, t)
        BY <1>1, <1>2, <1>4 DEF Whole
    <2>2. ASSUME x \in TypeWords
          PROVE Run(v, h, Append(t, x)) /\ h + Len(Append(t, x)) = Len(v) + 1
        <3>1. /\ Len(Append(t, x)) = Len(t) + 1 /\ Append(t, x)[Len(t) + 1] = x
              /\ \A i \in 1..Len(t) : Append(t, x)[i] = t[i]
            BY <2>2
        <3>2. \A i \in 1..Len(t) : v[h + i - 1] = t[i]
            BY <1>2, <1>4 DEF Run
        <3>3. v[h + Len(t)] = x
            BY <1>1, <1>4
        <3>4. ASSUME NEW i \in 1..(Len(t) + 1) PROVE v[h + i - 1] = Append(t, x)[i]
            BY <1>1, <3>1, <3>2, <3>3
        <3> QED BY <1>1, <1>4, <3>1, <3>4 DEF Run
    <2> QED BY <2>1, <2>2
<1> QED BY <1>2, <1>3, <1>4

\* Sets of places are finite.
LEMMA PlacesFinite ==
    ASSUME NEW n \in Nat, NEW S \in SUBSET (1..n)
    PROVE  IsFiniteSet(S) /\ Cardinality(S) \in Nat
<1>1. IsFiniteSet(1..n)
    BY FS_Interval
<1>2. IsFiniteSet(S)
    BY <1>1, FS_Subset
<1> QED BY <1>2, FS_CardinalityType

\* Ranks in a set of places, when a later one is added.
LEMMA RankGrows ==
    ASSUME NEW n, NEW S, NEW T, Adds(n, S, T)
    PROVE  /\ Cardinality(S) \in Nat /\ Cardinality(T) = Cardinality(S) + 1
           /\ Rank(T, n + 1) = Cardinality(S) + 1
           /\ \A p \in S : Rank(T, p) = Rank(S, p) /\ Rank(S, p) \in 1..Cardinality(S)
<1>0. n \in Nat /\ S \in SUBSET (1..n) /\ T = S \cup {n + 1}
    BY DEF Adds
<1>1. IsFiniteSet(S) /\ Cardinality(S) \in Nat
    BY <1>0, PlacesFinite
<1>2. Cardinality(T) = Cardinality(S) + 1
    <2>1. n + 1 \notin S
        BY <1>0
    <2> QED BY <1>0, <1>1, <2>1, FS_AddElement
<1>3. Rank(T, n + 1) = Cardinality(S) + 1
    <2>1. \A q \in T : q <= n + 1
        BY <1>0
    <2>2. {q \in T : q <= n + 1} = T
        BY <2>1, Zenon
    <2> QED BY <1>2, <2>2 DEF Rank
<1>4. ASSUME NEW p \in S
      PROVE  Rank(T, p) = Rank(S, p) /\ Rank(S, p) \in 1..Cardinality(S)
    <2>1. S \subseteq T /\ \A q \in T : q <= p => q \in S
        BY <1>0
    <2>2. {q \in T : q <= p} = {q \in S : q <= p}
        BY <2>1
    <2> DEFINE U == {q \in S : q <= p}
    <2>3. U \subseteq S /\ p \in U
        BY <1>0
    <2>4. IsFiniteSet(U) /\ Cardinality(U) <= Cardinality(S) /\ Cardinality(U) \in Nat
        BY <1>1, <2>3, FS_Subset, FS_CardinalityType
    <2>5. Cardinality(U) # 0
        BY <2>3, <2>4, FS_EmptySet
    <2> QED BY <1>1, <2>2, <2>4, <2>5 DEF Rank
<1> QED BY <1>1, <1>2, <1>3, <1>4

\* The last place of a set has the last rank, and only that one.
LEMMA RankOfLast ==
    ASSUME NEW n \in Nat, NEW S \in SUBSET (1..n), NEW k \in S, \A q \in S : q <= k
    PROVE  Rank(S, k) = Cardinality(S) /\ \A p \in S : p # k => Rank(S, p) < Cardinality(S)
<1>1. IsFiniteSet(S) /\ Cardinality(S) \in Nat
    BY PlacesFinite
<1>2. {q \in S : q <= k} = S
    OBVIOUS
<1>3. ASSUME NEW p \in S, p # k PROVE Rank(S, p) < Cardinality(S)
    <2> DEFINE T == {q \in S : q <= p}
    <2>1. T \subseteq S /\ T # S
        <3>1. p \in 1..n /\ k \in 1..n /\ p < k /\ k \notin T
            BY <1>3
        <3> QED BY <3>1
    <2>2. Cardinality(T) <= Cardinality(S) /\ Cardinality(T) # Cardinality(S)
        BY <1>1, <2>1, FS_Subset
    <2>3. Cardinality(T) \in Nat
        BY <2>1, PlacesFinite
    <2> QED BY <1>1, <2>2, <2>3 DEF Rank
<1> QED BY <1>2, <1>3 DEF Rank

-----------------------------------------------------------------------------
(* The places of names in the text *)

\* What comes later changes no place.
LEMMA PlacesOld ==
    ASSUME NEW w, NEW v, NEW x, Longer(w, v, x)
    PROVE  /\ Len(w) \in Nat /\ Len(v) = Len(w) + 1 /\ v[Len(w) + 1] = x
           /\ Pos(w) \in SUBSET (1..Len(w)) /\ Pos(v) \in SUBSET (1..Len(v))
           /\ \A p \in 1..Len(w) : /\ p \in Pos(v) <=> p \in Pos(w)
                                   /\ p \in AttrPos(v) <=> p \in AttrPos(w)
                                   /\ p \in MethPos(v) <=> p \in MethPos(w)
           /\ \A k, q \in 1..Len(w) : /\ Same(v, k, q) <=> Same(w, k, q)
                                      /\ q \in ParamPos(v, k) <=> q \in ParamPos(w, k)
<1>1. /\ Len(w) \in Nat /\ Len(v) = Len(w) + 1 /\ v[Len(w) + 1] = x
      /\ \A i \in 1..Len(w) : v[i] = w[i]
    BY DEF Longer
<1>2. Pos(w) \in SUBSET (1..Len(w)) /\ Pos(v) \in SUBSET (1..Len(v))
    BY DEF Pos
<1>3. ASSUME NEW p \in 1..Len(w)
      PROVE  /\ p \in Pos(v) <=> p \in Pos(w)
             /\ p \in AttrPos(v) <=> p \in AttrPos(w)
             /\ p \in MethPos(v) <=> p \in MethPos(w)
    <2>1. p \in Pos(v) <=> p \in Pos(w)
        BY <1>1 DEF Pos
    <2>2. ASSUME NEW s \in 1..p
          PROVE  /\ Begin(v, s, p) <=> Begin(w, s, p)
                 /\ v[s] = w[s] /\ \A q \in s..(p - 1) : v[q] = w[q]
        <3>1. p \in 1..(Len(w) + 1) /\ s \in 1..Len(w) /\ s..(p - 1) \subseteq 1..Len(w)
            BY <1>1
        <3> QED BY <1>1, <3>1, BeginOld
    <2>3. p \in AttrPos(v) <=> p \in AttrPos(w)
        BY <2>1, <2>2 DEF AttrPos
    <2>4. p \in MethPos(v) <=> p \in MethPos(w)
        BY <2>1, <2>2 DEF MethPos
    <2> QED BY <2>1, <2>3, <2>4
<1>4. ASSUME NEW k \in 1..Len(w), NEW q \in 1..Len(w)
      PROVE  /\ Same(v, k, q) <=> Same(w, k, q)
             /\ q \in ParamPos(v, k) <=> q \in ParamPos(w, k)
    <2>1. \A s : /\ Begin(v, s, k) <=> Begin(w, s, k)
                 /\ Begin(v, s, q) <=> Begin(w, s, q)
        BY <1>1, BeginOld
    <2> QED BY <1>3, <2>1 DEF Same, ParamPos
<1> QED BY <1>1, <1>2, <1>3, <1>4

\* Places are places of names.
LEMMA PlacesAreNames ==
    ASSUME NEW w
    PROVE  /\ AttrPos(w) \subseteq Pos(w) /\ MethPos(w) \subseteq Pos(w)
           /\ \A k : ParamPos(w, k) \subseteq Pos(w)
BY DEF AttrPos, MethPos, ParamPos

\* A set of places with one that may be more.
LEMMA SetGrows ==
    ASSUME NEW n \in Nat, NEW S \in SUBSET (1..n), NEW T \in SUBSET (1..(n + 1)),
           \A p \in 1..n : p \in T <=> p \in S
    PROVE  /\ n + 1 \notin T => T = S
           /\ n + 1 \in T => T = S \cup {n + 1}
<1>1. /\ \A p \in S : p \in 1..n
      /\ \A p \in T : p \in 1..n \/ p = n + 1
    OBVIOUS
<1> QED BY <1>1

\* The places in a text are among the first ones.
LEMMA PlacesRange ==
    ASSUME NEW w, NEW v, NEW x, Longer(w, v, x)
    PROVE  /\ AttrPos(w) \in SUBSET (1..Len(w)) /\ MethPos(w) \in SUBSET (1..Len(w))
           /\ \A k : ParamPos(w, k) \in SUBSET (1..Len(w))
           /\ AttrPos(v) \in SUBSET (1..(Len(w) + 1)) /\ MethPos(v) \in SUBSET (1..(Len(w) + 1))
           /\ \A k : ParamPos(v, k) \in SUBSET (1..(Len(w) + 1))
<1>1. /\ Pos(w) \in SUBSET (1..Len(w)) /\ Pos(v) \in SUBSET (1..(Len(w) + 1))
    BY PlacesOld
<1> QED BY <1>1, PlacesAreNames

\* A sign or a keyword is no place.
LEMMA NoNewPlace ==
    ASSUME NEW w, NEW v, NEW x, Longer(w, v, x), x \notin Names
    PROVE  /\ Pos(v) = Pos(w) /\ AttrPos(v) = AttrPos(w) /\ MethPos(v) = MethPos(w)
           /\ \A k \in 1..Len(w) : ParamPos(v, k) = ParamPos(w, k)
<1>1. Len(w) + 1 \notin Pos(v)
    BY PlacesOld DEF Pos
<1>2. /\ Len(w) + 1 \notin AttrPos(v) /\ Len(w) + 1 \notin MethPos(v)
      /\ \A k : Len(w) + 1 \notin ParamPos(v, k)
    BY <1>1, PlacesAreNames
<1>3. Len(w) \in Nat /\ Len(v) = Len(w) + 1
    BY PlacesOld
<1>4. Pos(v) = Pos(w)
    BY <1>1, <1>3, PlacesOld, SetGrows
<1>5. AttrPos(v) = AttrPos(w)
    BY <1>2, <1>3, PlacesOld, PlacesRange, SetGrows
<1>6. MethPos(v) = MethPos(w)
    BY <1>2, <1>3, PlacesOld, PlacesRange, SetGrows
<1>7. ASSUME NEW k \in 1..Len(w) PROVE ParamPos(v, k) = ParamPos(w, k)
    <2>1. \A q \in 1..Len(w) : q \in ParamPos(v, k) <=> q \in ParamPos(w, k)
        BY PlacesOld
    <2> QED BY <1>2, <1>3, <2>1, PlacesRange, SetGrows
<1> QED BY <1>4, <1>5, <1>6, <1>7

\* A name in an item that has begun is a place of the kind that the item tells.
LEMMA NewPlace ==
    ASSUME NEW w, NEW v, NEW x, Longer(w, v, x), x \in Names,
           NEW s \in 1..Len(w), Begin(w, s, Len(w) + 1)
    PROVE  /\ Len(v) \in Pos(v)
           /\ Len(v) \in AttrPos(v) <=> w[s] \in {"readonly", "attribute"}
           /\ Len(v) \in MethPos(v) <=> \A q \in s..Len(w) : w[q] \in TypeWords
           /\ \A k \in 1..Len(w) : /\ Same(v, k, Len(v)) <=> Begin(w, s, k)
                                   /\ Len(v) \in ParamPos(v, k) <=> Begin(w, s, k)
<1>1. /\ Len(w) \in Nat /\ Len(v) = Len(w) + 1 /\ v[Len(w) + 1] = x
      /\ \A i \in 1..Len(w) : v[i] = w[i]
    BY DEF Longer
<1>2. Begin(v, s, Len(v))
    BY <1>1, BeginOld
<1>3. \A r : Begin(v, r, Len(v)) => r = s
    BY <1>1, <1>2, BeginUnique
<1>4. Len(v) \in Pos(v)
    BY <1>1 DEF Pos
<1>5. Len(v) \in AttrPos(v) <=> w[s] \in {"readonly", "attribute"}
    BY <1>1, <1>2, <1>3, <1>4 DEF AttrPos
<1>6. Len(v) \in MethPos(v) <=> \A q \in s..Len(w) : w[q] \in TypeWords
    <2>1. Len(v) \in MethPos(v) <=> \A q \in s..(Len(v) - 1) : v[q] \in TypeWords
        BY <1>1, <1>2, <1>3, <1>4 DEF MethPos
    <2> QED BY <1>1, <2>1
<1>7. ASSUME NEW k \in 1..Len(w)
      PROVE  /\ Same(v, k, Len(v)) <=> Begin(w, s, k)
             /\ Len(v) \in ParamPos(v, k) <=> Begin(w, s, k)
    <2>1. Begin(v, s, k) <=> Begin(w, s, k)
        BY <1>1, BeginOld
    <2>2. Begin(v, s, k) => s \in 1..k
        BY DEF Begin
    <2> QED BY <1>1, <1>2, <1>3, <1>4, <2>1, <2>2 DEF Same, ParamPos
<1> QED BY <1>4, <1>5, <1>6, <1>7

\* A name adds its own place, if any, to the ones there are.
LEMMA PlacesGrow ==
    ASSUME NEW w, NEW v, NEW x, Longer(w, v, x)
    PROVE  /\ AttrPos(v) = AttrPos(w) \/ (/\ AttrPos(v) = AttrPos(w) \cup {Len(w) + 1}
                                          /\ Len(v) \in AttrPos(v))
           /\ MethPos(v) = MethPos(w) \/ (/\ MethPos(v) = MethPos(w) \cup {Len(w) + 1}
                                          /\ Len(v) \in MethPos(v))
           /\ \A k \in 1..Len(w) :
                \/ ParamPos(v, k) = ParamPos(w, k)
                \/ /\ ParamPos(v, k) = ParamPos(w, k) \cup {Len(w) + 1}
                   /\ Len(v) \in ParamPos(v, k)
<1>1. Len(w) \in Nat /\ Len(v) = Len(w) + 1
    BY PlacesOld
<1>2. AttrPos(v) = AttrPos(w) \/ (/\ AttrPos(v) = AttrPos(w) \cup {Len(w) + 1}
                                  /\ Len(v) \in AttrPos(v))
    BY <1>1, PlacesOld, PlacesRange, SetGrows
<1>3. MethPos(v) = MethPos(w) \/ (/\ MethPos(v) = MethPos(w) \cup {Len(w) + 1}
                                  /\ Len(v) \in MethPos(v))
    BY <1>1, PlacesOld, PlacesRange, SetGrows
<1>4. ASSUME NEW k \in 1..Len(w)
      PROVE  \/ ParamPos(v, k) = ParamPos(w, k)
             \/ /\ ParamPos(v, k) = ParamPos(w, k) \cup {Len(w) + 1}
                /\ Len(v) \in ParamPos(v, k)
    <2>1. \A q \in 1..Len(w) : q \in ParamPos(v, k) <=> q \in ParamPos(w, k)
        BY PlacesOld
    <2> QED BY <1>1, <2>1, PlacesRange, SetGrows
<1> QED BY <1>2, <1>3, <1>4

-----------------------------------------------------------------------------
(* What is recorded of the old places stays right *)

\* What is recorded of the text stays right when more of it is read.
LEMMA RecordsOld ==
    ASSUME NEW w, NEW v, NEW x, Longer(w, v, x), NEW p \in 1..Len(w), NEW r
    PROVE  /\ AttrIs(w, p, r) => AttrIs(v, p, r)
           /\ ParamIs(w, p, r) => ParamIs(v, p, r)
<1>1. /\ Len(w) \in Nat /\ Len(v) = Len(w) + 1
      /\ \A i \in 1..Len(w) : v[i] = w[i]
    BY DEF Longer
<1>2. ASSUME AttrIs(w, p, r) PROVE AttrIs(v, p, r)
    <2>1. r \in Attributes /\ r.name = w[p] /\ GoodType(r.type) /\ r.type \in Seq(TypeWords)
        BY <1>2 DEF AttrIs, GoodType
    <2>2. PICK s \in 1..p : /\ Begin(w, s, p)
                            /\ \E h \in 1..p : AttrHead(w, s, h, r.readonly) /\ Whole(w, h, r.type)
        BY <1>2 DEF AttrIs
    <2>3. PICK h \in 1..p : AttrHead(w, s, h, r.readonly) /\ Whole(w, h, r.type)
        BY <2>2
    <2>4. Begin(v, s, p)
        BY <1>1, <2>2, BeginOld
    <2>5. Whole(v, h, r.type)
        BY <2>1, <2>3, RunOld
    <2>6. AttrHead(v, s, h, r.readonly)
        BY <1>1, <2>3 DEF AttrHead
    <2>7. r.name = v[p]
        BY <1>1, <2>1
    <2> QED BY <2>1, <2>4, <2>5, <2>6, <2>7 DEF AttrIs
<1>3. ASSUME ParamIs(w, p, r) PROVE ParamIs(v, p, r)
    <2>1. r \in Parameters /\ r.name = w[p] /\ GoodType(r.type) /\ r.type \in Seq(TypeWords)
        BY <1>3 DEF ParamIs, GoodType
    <2>2. PICK h \in 2..p : ParamHead(w, h, r.dir) /\ Whole(w, h, r.type) /\ p = h + Len(r.type)
        BY <1>3 DEF ParamIs
    <2>3. Whole(v, h, r.type)
        BY <2>1, <2>2, RunOld
    <2>4. ParamHead(v, h, r.dir)
        <3>1. h - 1 \in 1..Len(w)
            BY <1>1
        <3> QED BY <1>1, <2>2, <3>1 DEF ParamHead
    <2>5. r.name = v[p]
        BY <1>1, <2>1
    <2> QED BY <2>1, <2>2, <2>3, <2>4, <2>5 DEF ParamIs
<1> QED BY <1>2, <1>3

\* So do the parameters of a method, with one more when there is one.
LEMMA ListsParamsOld ==
    ASSUME NEW w, NEW v, NEW x, Longer(w, v, x), NEW k \in 1..Len(w), NEW l,
           ListsParams(w, k, l)
    PROVE  /\ ParamPos(v, k) = ParamPos(w, k) => ListsParams(v, k, l)
           /\ \A r : Len(v) \in ParamPos(v, k) /\ ParamIs(v, Len(v), r) =>
                        ListsParams(v, k, Append(l, r))
<1> DEFINE S == ParamPos(w, k)
           T == ParamPos(v, k)
<1>1. Len(w) \in Nat /\ Len(v) = Len(w) + 1 /\ S \in SUBSET (1..Len(w))
    BY PlacesOld, PlacesRange
<1>2. l \in Seq(Parameters) /\ Len(l) = Cardinality(S) /\ \A q \in S : ParamIs(w, q, l[Rank(S, q)])
    BY DEF ListsParams
<1>3. \A q \in S : ParamIs(v, q, l[Rank(S, q)])
    BY <1>1, <1>2, RecordsOld
<1>4. T = S => ListsParams(v, k, l)
    BY <1>2, <1>3 DEF ListsParams
<1>5. ASSUME NEW r, Len(v) \in T, ParamIs(v, Len(v), r)
      PROVE  ListsParams(v, k, Append(l, r))
    <2>1. T = S \cup {Len(w) + 1}
        <3>1. Len(v) \notin S
            BY <1>1
        <3> QED BY <1>5, <3>1, PlacesGrow
    <2>2. /\ Cardinality(S) \in Nat /\ Cardinality(T) = Cardinality(S) + 1
          /\ Rank(T, Len(v)) = Cardinality(S) + 1
          /\ \A q \in S : Rank(T, q) = Rank(S, q) /\ Rank(S, q) \in 1..Cardinality(S)
        <3>a. Adds(Len(w), S, T)
            BY <1>1, <2>1 DEF Adds
        <3>1. /\ Cardinality(S) \in Nat /\ Cardinality(T) = Cardinality(S) + 1
              /\ Rank(T, Len(w) + 1) = Cardinality(S) + 1
            BY <3>a, RankGrows
        <3>2. ASSUME NEW q \in S
              PROVE  Rank(T, q) = Rank(S, q) /\ Rank(S, q) \in 1..Cardinality(S)
            BY <3>a, RankGrows
        <3> QED BY <1>1, <3>1, <3>2
    <2>3. r \in Parameters
        BY <1>5 DEF ParamIs
    <2>4. /\ Append(l, r) \in Seq(Parameters) /\ Len(Append(l, r)) = Len(l) + 1
          /\ Append(l, r)[Len(l) + 1] = r
          /\ \A i \in 1..Len(l) : Append(l, r)[i] = l[i]
        BY <1>2, <2>3
    <2>5. ASSUME NEW q \in T PROVE ParamIs(v, q, Append(l, r)[Rank(T, q)])
        <3>1. CASE q \in S
            <4>1. Append(l, r)[Rank(T, q)] = l[Rank(S, q)]
                BY <1>2, <2>2, <2>4, <3>1
            <4> QED BY <1>3, <3>1, <4>1
        <3>2. CASE q = Len(v)
            BY <1>2, <1>5, <2>2, <2>4, <3>2
        <3> QED BY <1>1, <2>1, <3>1, <3>2
    <2> QED BY <1>2, <2>2, <2>4, <2>5 DEF ListsParams
<1> QED BY <1>4, <1>5

\* The list of attributes, when one is read or when none is.
LEMMA ListsAttrsOld ==
    ASSUME NEW w, NEW v, NEW x, Longer(w, v, x), NEW l, ListsAttrs(w, l)
    PROVE  /\ AttrPos(v) = AttrPos(w) => ListsAttrs(v, l)
           /\ \A r : Len(v) \in AttrPos(v) /\ AttrIs(v, Len(v), r) => ListsAttrs(v, Append(l, r))
<1> DEFINE S == AttrPos(w)
           T == AttrPos(v)
<1>1. Len(w) \in Nat /\ Len(v) = Len(w) + 1 /\ S \in SUBSET (1..Len(w))
    BY PlacesOld, PlacesRange
<1>2. l \in Seq(Attributes) /\ Len(l) = Cardinality(S) /\ \A q \in S : AttrIs(w, q, l[Rank(S, q)])
    BY DEF ListsAttrs
<1>3. \A q \in S : AttrIs(v, q, l[Rank(S, q)])
    BY <1>1, <1>2, RecordsOld
<1>4. T = S => ListsAttrs(v, l)
    BY <1>2, <1>3 DEF ListsAttrs
<1>5. ASSUME NEW r, Len(v) \in T, AttrIs(v, Len(v), r)
      PROVE  ListsAttrs(v, Append(l, r))
    <2>1. T = S \cup {Len(w) + 1}
        <3>1. Len(v) \notin S
            BY <1>1
        <3> QED BY <1>5, <3>1, PlacesGrow
    <2>2. /\ Cardinality(S) \in Nat /\ Cardinality(T) = Cardinality(S) + 1
          /\ Rank(T, Len(v)) = Cardinality(S) + 1
          /\ \A q \in S : Rank(T, q) = Rank(S, q) /\ Rank(S, q) \in 1..Cardinality(S)
        <3>a. Adds(Len(w), S, T)
            BY <1>1, <2>1 DEF Adds
        <3>1. /\ Cardinality(S) \in Nat /\ Cardinality(T) = Cardinality(S) + 1
              /\ Rank(T, Len(w) + 1) = Cardinality(S) + 1
            BY <3>a, RankGrows
        <3>2. ASSUME NEW q \in S
              PROVE  Rank(T, q) = Rank(S, q) /\ Rank(S, q) \in 1..Cardinality(S)
            BY <3>a, RankGrows
        <3> QED BY <1>1, <3>1, <3>2
    <2>3. r \in Attributes
        BY <1>5 DEF AttrIs
    <2>4. /\ Append(l, r) \in Seq(Attributes) /\ Len(Append(l, r)) = Len(l) + 1
          /\ Append(l, r)[Len(l) + 1] = r
          /\ \A i \in 1..Len(l) : Append(l, r)[i] = l[i]
        BY <1>2, <2>3
    <2>5. ASSUME NEW q \in T PROVE AttrIs(v, q, Append(l, r)[Rank(T, q)])
        <3>1. CASE q \in S
            <4>1. Append(l, r)[Rank(T, q)] = l[Rank(S, q)]
                BY <1>2, <2>2, <2>4, <3>1
            <4> QED BY <1>3, <3>1, <4>1
        <3>2. CASE q = Len(v)
            BY <1>2, <1>5, <2>2, <2>4, <3>2
        <3> QED BY <1>1, <2>1, <3>1, <3>2
    <2> QED BY <1>2, <2>2, <2>4, <2>5 DEF ListsAttrs
<1> QED BY <1>4, <1>5

\* A method whose parameters are the same.
LEMMA MethIsOld ==
    ASSUME NEW w, NEW v, NEW x, Longer(w, v, x), NEW k \in 1..Len(w), NEW m, MethIs(w, k, m)
    PROVE  /\ ParamPos(v, k) = ParamPos(w, k) => MethIs(v, k, m)
           /\ \A n \in Methods :
                n.name = m.name /\ n.type = m.type /\ ListsParams(v, k, n.params) => MethIs(v, k, n)
<1>1. /\ Len(w) \in Nat /\ Len(v) = Len(w) + 1
      /\ \A i \in 1..Len(w) : v[i] = w[i]
    BY DEF Longer
<1>2. /\ m \in Methods /\ m.name = w[k] /\ GoodType(m.type) /\ m.type \in Seq(TypeWords)
      /\ ListsParams(w, k, m.params)
    BY DEF MethIs, GoodType
<1>3. PICK s \in 1..k : Begin(w, s, k) /\ Whole(w, s, m.type)
    BY DEF MethIs
<1>4. Begin(v, s, k) /\ Whole(v, s, m.type)
    BY <1>1, <1>2, <1>3, BeginOld, RunOld
<1>5. m.name = v[k]
    BY <1>1, <1>2
<1>6. ParamPos(v, k) = ParamPos(w, k) => ListsParams(v, k, m.params)
    BY <1>2, ListsParamsOld
<1>7. MethIs(v, k, m) <=> ListsParams(v, k, m.params)
    BY <1>2, <1>4, <1>5 DEF MethIs
<1>8. ASSUME NEW n \in Methods, n.name = m.name, n.type = m.type,
             ListsParams(v, k, n.params)
      PROVE  MethIs(v, k, n)
    BY <1>2, <1>4, <1>5, <1>8 DEF MethIs
<1>9. ParamPos(v, k) = ParamPos(w, k) => MethIs(v, k, m)
    BY <1>6, <1>7
<1> QED BY <1>8, <1>9, Zenon

\* The list of methods, when no name is read, or one of no method and no parameter.
LEMMA ListsMethsOld ==
    ASSUME NEW w, NEW v, NEW x, Longer(w, v, x), NEW l, ListsMeths(w, l),
           MethPos(v) = MethPos(w),
           \A k \in MethPos(w) : ParamPos(v, k) = ParamPos(w, k)
    PROVE  ListsMeths(v, l)
<1>1. Len(w) \in Nat /\ MethPos(w) \in SUBSET (1..Len(w))
    BY PlacesOld, PlacesRange
<1>2. ASSUME NEW p \in MethPos(w) PROVE MethIs(v, p, l[Rank(MethPos(w), p)])
    <2>1. MethIs(w, p, l[Rank(MethPos(w), p)]) /\ p \in 1..Len(w)
        BY <1>1 DEF ListsMeths
    <2> QED BY <2>1, MethIsOld
<1> QED BY <1>2 DEF ListsMeths

\* ... when the name of a method is read.
LEMMA ListsMethsNew ==
    ASSUME NEW w, NEW v, NEW x, Longer(w, v, x), NEW l, ListsMeths(w, l),
           Len(v) \in MethPos(v), NEW m, MethIs(v, Len(v), m),
           \A k \in MethPos(w) : ParamPos(v, k) = ParamPos(w, k)
    PROVE  ListsMeths(v, Append(l, m))
<1> DEFINE S == MethPos(w)
           T == MethPos(v)
<1>1. Len(w) \in Nat /\ Len(v) = Len(w) + 1 /\ S \in SUBSET (1..Len(w))
    BY PlacesOld, PlacesRange
<1>2. l \in Seq(Methods) /\ Len(l) = Cardinality(S) /\ \A q \in S : MethIs(w, q, l[Rank(S, q)])
    BY DEF ListsMeths
<1>3. ASSUME NEW p \in S PROVE MethIs(v, p, l[Rank(S, p)])
    <2>1. MethIs(w, p, l[Rank(S, p)]) /\ p \in 1..Len(w)
        BY <1>1, <1>2
    <2> QED BY <2>1, MethIsOld
<1>4. T = S \cup {Len(w) + 1}
    <2>1. Len(v) \notin S
        BY <1>1
    <2> QED BY <2>1, PlacesGrow
<1>5. /\ Cardinality(S) \in Nat /\ Cardinality(T) = Cardinality(S) + 1
      /\ Rank(T, Len(v)) = Cardinality(S) + 1
      /\ \A q \in S : Rank(T, q) = Rank(S, q) /\ Rank(S, q) \in 1..Cardinality(S)
    <2>1. Adds(Len(w), S, T)
        BY <1>1, <1>4 DEF Adds
    <2>2. /\ Cardinality(S) \in Nat /\ Cardinality(T) = Cardinality(S) + 1
          /\ Rank(T, Len(w) + 1) = Cardinality(S) + 1
        BY <2>1, RankGrows
    <2>3. ASSUME NEW q \in S
          PROVE  Rank(T, q) = Rank(S, q) /\ Rank(S, q) \in 1..Cardinality(S)
        BY <2>1, RankGrows
    <2> QED BY <1>1, <2>2, <2>3
<1>6. m \in Methods
    BY DEF MethIs
<1>7. /\ Append(l, m) \in Seq(Methods) /\ Len(Append(l, m)) = Len(l) + 1
      /\ Append(l, m)[Len(l) + 1] = m
      /\ \A i \in 1..Len(l) : Append(l, m)[i] = l[i]
    BY <1>2, <1>6
<1>8. ASSUME NEW q \in T PROVE MethIs(v, q, Append(l, m)[Rank(T, q)])
    <2>1. CASE q \in S
        <3>1. Append(l, m)[Rank(T, q)] = l[Rank(S, q)]
            BY <1>2, <1>5, <1>7, <2>1
        <3> QED BY <1>3, <2>1, <3>1
    <2>2. CASE q = Len(v)
        BY <1>2, <1>5, <1>7, <2>2
    <2> QED BY <1>1, <1>4, <2>1, <2>2
<1> QED BY <1>2, <1>5, <1>7, <1>8 DEF ListsMeths

\* ... and when a parameter of the last one is read.
LEMMA ListsMethsParam ==
    ASSUME NEW w, NEW v, NEW x, Longer(w, v, x), NEW l, NEW m, NEW n \in Methods,
           m \in Methods, l \in Seq(Methods), ListsMeths(w, Append(l, m)),
           NEW k \in MethPos(w), \A q \in MethPos(w) : q <= k,
           MethPos(v) = MethPos(w),
           \A q \in MethPos(w) : q # k => ParamPos(v, q) = ParamPos(w, q),
           n.name = m.name, n.type = m.type, ListsParams(w, k, m.params) => ListsParams(v, k, n.params)
    PROVE  ListsMeths(v, Append(l, n))
<1> DEFINE S == MethPos(w)
<1>1. Len(w) \in Nat /\ S \in SUBSET (1..Len(w)) /\ k \in 1..Len(w)
    BY PlacesOld, PlacesRange
<1>2. /\ \A p \in {m, n} : /\ Append(l, p) \in Seq(Methods) /\ Len(Append(l, p)) = Len(l) + 1
                           /\ Append(l, p)[Len(l) + 1] = p
                           /\ \A i \in 1..Len(l) : Append(l, p)[i] = l[i]
      /\ Len(l) \in Nat
    OBVIOUS
<1>3. /\ Len(Append(l, m)) = Cardinality(S)
      /\ \A q \in S : MethIs(w, q, Append(l, m)[Rank(S, q)])
    BY DEF ListsMeths
<1>4. Rank(S, k) = Cardinality(S) /\ \A p \in S : p # k => Rank(S, p) < Cardinality(S)
    BY <1>1, RankOfLast
<1>5. \A p \in S : Rank(S, p) \in 1..Cardinality(S)
    <2>1. Adds(Len(w), S, S \cup {Len(w) + 1})
        BY <1>1 DEF Adds
    <2> QED BY <2>1, RankGrows
<1>6. MethIs(v, k, n)
    <2>1. MethIs(w, k, m)
        BY <1>2, <1>3, <1>4
    <2>2. ListsParams(v, k, n.params)
        BY <2>1 DEF MethIs
    <2> QED BY <1>1, <2>1, <2>2, MethIsOld
<1>7. ASSUME NEW q \in S PROVE MethIs(v, q, Append(l, n)[Rank(S, q)])
    <2>1. CASE q = k
        BY <1>2, <1>3, <1>4, <1>6, <2>1
    <2>2. CASE q # k
        <3>1. Rank(S, q) \in 1..Len(l)
            BY <1>2, <1>3, <1>4, <1>5, <2>2
        <3>2. Append(l, n)[Rank(S, q)] = Append(l, m)[Rank(S, q)]
            BY <1>2, <3>1
        <3>3. MethIs(w, q, Append(l, n)[Rank(S, q)]) /\ q \in 1..Len(w)
            BY <1>1, <1>3, <3>2
        <3> QED BY <2>2, <3>3, MethIsOld
    <2> QED BY <2>1, <2>2
<1> QED BY <1>2, <1>3, <1>7 DEF ListsMeths

\* The names of the text, one token later.
LEMMA NamesInvNext ==
    ASSUME NEW w, NEW v, NEW x, Longer(w, v, x), NamesInv(w),
           NEW s, Begin(w, s, Len(w) + 1),
           Len(v) \in Pos(v) \ AttrPos(v) =>
                \E k \in MethPos(v) : k <= Len(v) /\ Same(v, k, Len(v)),
           Len(w) \in Pos(w) \ AttrPos(w) => (Len(w) \in MethPos(w) <=> x = "(")
    PROVE  NamesInv(v)
<1>1. /\ Len(w) \in Nat /\ Len(v) = Len(w) + 1 /\ v[Len(w) + 1] = x
      /\ \A i \in 1..Len(w) : v[i] = w[i]
    BY DEF Longer
<1>2. ASSUME NEW p \in 1..Len(v) PROVE \E r \in 1..p : Begin(v, r, p)
    <2>1. CASE p \in 1..Len(w)
        <3>1. PICK r \in 1..p : Begin(w, r, p)
            BY <2>1 DEF NamesInv
        <3> QED BY <1>1, <2>1, <3>1, BeginOld
    <2>2. CASE p = Len(w) + 1
        <3>1. s \in 1..p
            BY <2>2 DEF Begin
        <3> QED BY <1>1, <2>2, <3>1, BeginOld
    <2> QED BY <1>1, <2>1, <2>2
<1>3. ASSUME NEW p \in Pos(v) \ AttrPos(v)
      PROVE  \E k \in MethPos(v) : k <= p /\ Same(v, k, p)
    <2>1. CASE p \in 1..Len(w)
        <3>1. p \in Pos(w) \ AttrPos(w)
            BY <2>1, PlacesOld
        <3>2. PICK k \in MethPos(w) : k <= p /\ Same(w, k, p)
            BY <3>1 DEF NamesInv
        <3>3. k \in 1..Len(w)
            BY PlacesRange
        <3> QED BY <2>1, <3>2, <3>3, PlacesOld
    <2>2. CASE p = Len(v)
        BY <2>2
    <2> QED BY <1>1, <2>1, <2>2, PlacesOld
<1>4. ASSUME NEW p \in Pos(v) \ AttrPos(v), p < Len(v)
      PROVE  p \in MethPos(v) <=> v[p + 1] = "("
    <2>1. p \in 1..Len(w) /\ p \in Pos(w) \ AttrPos(w) /\ (p \in MethPos(v) <=> p \in MethPos(w))
        <3>1. p \in 1..Len(w)
            BY <1>1, <1>4, PlacesOld
        <3> QED BY <3>1, PlacesOld
    <2>2. CASE p < Len(w)
        <3>1. v[p + 1] = w[p + 1]
            BY <1>1, <2>1, <2>2
        <3> QED BY <2>1, <2>2, <3>1 DEF NamesInv
    <2>3. CASE p = Len(w)
        BY <1>1, <2>1, <2>3
    <2> QED BY <1>1, <2>1, <2>2, <2>3
<1> QED BY <1>2, <1>3, <1>4 DEF NamesInv

-----------------------------------------------------------------------------
(* The places of the parser *)

TypePoints == {"unsigned", "unsigned_long", "long"}
MethodPoints == {"(", "first_parameter", "next_parameter", "parameter_type", "parameter",
                 "after_parameter", ")"}

\* The place that a type is read for, and any other place.
Reader(p, cl) == IF p \in TypePoints THEN cl ELSE p

\* The words of t are at the end, from h on, and at p this is a type or the start of one.
TypeRead(w, h, p, t) ==
    /\ Run(w, h, t) /\ h + Len(t) = Len(w) + 1
    /\ t \in Seq(TypeWords) /\ Len(t) > 0
    /\ p \in TypePoints => t[1] \in {"unsigned", "long"}
    /\ p # "unsigned" => GoodType(t)

\* The item that begins at s, so far.
Item(w, s, p, cl, t, ro, d) ==
    /\ p \notin BodyPoints \ {"body"} => s = Len(w) + 1
    /\ p = "readonly" => s = Len(w) /\ w[s] = "readonly" /\ ro = TRUE
    /\ p = "attribute_type" => AttrHead(w, s, Len(w) + 1, ro)
    /\ Reader(p, cl) = "attribute" =>
        \E h \in 1..(Len(w) + 1) :
            /\ AttrHead(w, s, h, ro)
            /\ TypeRead(w, h, p, t) \/ (p = "attribute" /\ Whole(w, h, t) /\ GoodType(t))
    /\ p = "after_attribute" =>
        \E h \in 1..Len(w) : AttrHead(w, s, h, ro) /\ Whole(w, h, t) /\ GoodType(t)
    /\ Reader(p, cl) = "method" => TypeRead(w, s, p, t)
    /\ Reader(p, cl) \in MethodPoints =>
        \E k \in MethPos(w) : Begin(w, s, k) /\ \A q \in MethPos(w) : q <= k
    /\ Reader(p, cl) = "parameter" =>
        \E h \in 2..Len(w) : ParamHead(w, h, d) /\ TypeRead(w, h, p, t)

\* The last token.
LastToken(w, p, d) ==
    /\ Len(w) > 0 /\ w[Len(w)] \in Names => p \in {"(", "after_attribute", "after_parameter"}
    /\ p = "(" => Len(w) \in MethPos(w)
    /\ p = "after_attribute" => Len(w) \in AttrPos(w)
    /\ p = "after_parameter" => Len(w) \in Pos(w) \ MethPos(w)
    /\ p = "first_parameter" => Len(w) > 0 /\ w[Len(w)] = "("
    /\ p = "next_parameter" => Len(w) > 0 /\ w[Len(w)] = "comma"
    /\ p = "parameter_type" => Len(w) > 0 /\ w[Len(w)] = d /\ d \in Directions

\* Where the parser is agrees with how w ends.
Place(w, p, cl, t, ro, d) ==
    /\ w \in Seq(Countable) /\ ro \in BOOLEAN /\ d \in Directions \cup {"none"}
    /\ p \in TypePoints => cl \in {"attribute", "method", "parameter"}
    /\ NamesInv(w) /\ LastToken(w, p, d)
    /\ \E s \in 1..(Len(w) + 1) : Begin(w, s, Len(w) + 1) /\ Item(w, s, p, cl, t, ro, d)

\* The moves <<p, T, q>> of FirstWord, those between the braces, and what the other ones
\* have in common.
First(T, q, who) ==
    \/ T = TypeWords \ {"unsigned", "long"} /\ q = who
    \/ T = {"unsigned"} /\ q = "unsigned"
    \/ T = {"long"} /\ q = "long"

BodyMove(p, T, q) ==
    \/ p = "body" /\ T = {"rbrace"} /\ q = "after_body"
    \/ p = "body" /\ T = {"readonly"} /\ q = "readonly"
    \/ p = "body" /\ T = {"attribute"} /\ q = "attribute_type"
    \/ p = "body" /\ First(T, q, "method")
    \/ p = "readonly" /\ T = {"attribute"} /\ q = "attribute_type"
    \/ p = "attribute_type" /\ First(T, q, "attribute")
    \/ p = "attribute" /\ T = Names /\ q = "after_attribute"
    \/ p = "after_attribute" /\ T = {"comma"} /\ q = "attribute"
    \/ p = "after_attribute" /\ T = {"semicolon"} /\ q = "body"
    \/ p = "method" /\ T = Names /\ q = "("
    \/ p = "(" /\ T = {"("} /\ q = "first_parameter"
    \/ p = "first_parameter" /\ T = {")"} /\ q = ")"
    \/ p \in {"first_parameter", "next_parameter"} /\ T = Directions /\ q = "parameter_type"
    \/ p \in {"first_parameter", "next_parameter", "parameter_type"} /\ First(T, q, "parameter")
    \/ p = "parameter" /\ T = Names /\ q = "after_parameter"
    \/ p = "after_parameter" /\ T = {"comma"} /\ q = "next_parameter"
    \/ p = "after_parameter" /\ T = {")"} /\ q = ")"
    \/ p = ")" /\ T = {"semicolon"} /\ q = "body"
    \/ p = "unsigned" /\ T = {"short"} /\ q = "typed"
    \/ p = "unsigned" /\ T = {"long"} /\ q = "unsigned_long"
    \/ p \in {"unsigned_long", "long"} /\ T = Tokens /\ q = "typed"

OutMove(p, T, q) ==
    /\ p \notin BodyPoints /\ p \notin {"accepted", "refused"}
    /\ q \notin BodyPoints \/ (q = "body" /\ T = {"lbrace"})
    /\ "lbrace" \in T => q = "body"
    /\ q \notin {"typed", "refused"}
    /\ T \subseteq Words \cup Single \cup Openers \cup {"EOF"} /\ "rbrace" \notin T
    /\ "EOF" \in T \/ q = "accepted" => q = "accepted" /\ T = {"EOF"}
    /\ p = "uuid_(" <=> q = "uuid_value"

\* The moves of the parser, between the braces and elsewhere.
LEMMA MoveCases ==
    ASSUME NEW move \in Moves
    PROVE  \/ OutMove(move[1], move[2], move[3])
           \/ BodyMove(move[1], move[2], move[3])
<1> USE DEF OutMove, BodyPoints, UuidValue, Words, s_keywords, Single, Openers, Others
<1>1. CASE move \in parse \cup parseInclude
    BY <1>1, NamesAssumption DEF parse, parseInclude
<1>2. CASE move \in parseDefinitionParams
    BY <1>2, NamesAssumption DEF parseDefinitionParams
<1>3. CASE move \in parseDefinition
    <2>1. CASE move = <<"body", {"rbrace"}, "after_body">>
        BY <2>1 DEF BodyMove
    <2>2. CASE move # <<"body", {"rbrace"}, "after_body">>
        BY <1>3, <2>2, NamesAssumption DEF parseDefinition
    <2> QED BY <2>1, <2>2
<1>8. CASE move \in parseBasicInterfaces
    BY <1>8, NamesAssumption DEF parseBasicInterfaces
<1>4. CASE move \in parseInterfaceBody
    BY <1>4 DEF parseInterfaceBody, FirstWord, BodyMove, First
<1>5. CASE move \in parseType
    BY <1>5 DEF parseType, BodyMove
<1>6. CASE move \in parseAttribute
    BY <1>6 DEF parseAttribute, FirstWord, BodyMove, First
<1>7. CASE move \in parseMethod
    BY <1>7 DEF parseMethod, FirstWord, BodyMove, First
<1> QED BY <1>1, <1>2, <1>3, <1>4, <1>5, <1>6, <1>7, <1>8 DEF Moves

-----------------------------------------------------------------------------
(* What a token changes of the item that is parsed *)

\* What the locals of the parser are after it takes x at p.
TypeNext(p, x, t) ==
    IF x \notin TypeWords THEN t ELSE IF Owner(p) # "none" THEN <<x>> ELSE Append(t, x)
CallerNext(p, cl) == IF Owner(p) = "none" THEN cl ELSE Owner(p)
ReadonlyNext(p, x, ro) == IF p = "body" THEN x = "readonly" ELSE ro
DirNext(p, x, d) ==
    IF p \notin {"first_parameter", "next_parameter"} THEN d
    ELSE IF x \in Directions THEN x ELSE "none"

\* x is taken at p, on the way to q, and is not pushed back.
Takes(p, x, q) ==
    /\ \E T : BodyMove(p, T, q) /\ x \in T
    /\ x # "rbrace" /\ (p \in {"unsigned_long", "long"} => x = "long")

\* A name is followed by a parenthesis when it is that of a method.
LEMMA NameFollowed ==
    ASSUME NEW w, NEW p, NEW x, NEW q, NEW d, LastToken(w, p, d), Takes(p, x, q)
    PROVE  Len(w) \in Pos(w) \ AttrPos(w) => (Len(w) \in MethPos(w) <=> x = "(")
<1> SUFFICES ASSUME Len(w) \in Pos(w), Len(w) \notin AttrPos(w)
             PROVE  Len(w) \in MethPos(w) <=> x = "("
    OBVIOUS
<1>1. p \in {"(", "after_parameter"}
    <2>1. Len(w) > 0 /\ w[Len(w)] \in Names
        BY DEF Pos
    <2> QED BY <2>1 DEF LastToken
<1>2. IF p = "(" THEN x = "(" ELSE x \in {"comma", ")"}
    BY <1>1 DEF Takes, BodyMove, First
<1> QED BY <1>1, <1>2 DEF LastToken

\* The names stay right when the next token is none.
LEMMA SignKeepsNames ==
    ASSUME NEW w, NEW v, NEW x, Longer(w, v, x), x \notin Names,
           NEW p, NEW q, NEW d, LastToken(w, p, d), Takes(p, x, q),
           NamesInv(w), NEW s, Begin(w, s, Len(w) + 1)
    PROVE  NamesInv(v)
<1>1. Len(v) \notin Pos(v)
    BY PlacesOld DEF Pos
<1> QED BY <1>1, NameFollowed, NamesInvNext

\* A place between the braces where a type begins, and what is read before it.
LEMMA TypeBegins ==
    ASSUME NEW w, NEW v, NEW x, Longer(w, v, x), NEW q, NEW who, NEW T, First(T, q, who), x \in T,
           who \notin TypePoints
    PROVE  TypeRead(v, Len(w) + 1, q, <<x>>)
<1>1. Len(w) \in Nat /\ Len(v) = Len(w) + 1 /\ v[Len(w) + 1] = x
    BY PlacesOld
<1>2. x \in TypeWords /\ <<x>> \in Seq(TypeWords) /\ Len(<<x>>) = 1 /\ <<x>>[1] = x
    BY DEF First, TypeWords
<1>3. Run(v, Len(w) + 1, <<x>>)
    BY <1>1, <1>2 DEF Run
<1>4. q \in TypePoints => x \in {"unsigned", "long"}
    BY DEF First, TypePoints
<1>5. q # "unsigned" => GoodType(<<x>>)
    <2>1. q # "unsigned" => x # "unsigned"
        BY DEF First
    <2> QED BY <1>2, <2>1 DEF GoodType, TypeWords
<1> QED BY <1>1, <1>2, <1>3, <1>4, <1>5 DEF TypeRead

\* ... and where another word of it is read.
LEMMA TypeGoesOn ==
    ASSUME NEW w, NEW v, NEW x, Longer(w, v, x), NEW h \in Nat \ {0}, NEW t, NEW p, NEW q, NEW cl,
           TypeRead(w, h, p, t),
           \/ p = "unsigned" /\ x = "short" /\ q = cl
           \/ p = "unsigned" /\ x = "long" /\ q = "unsigned_long"
           \/ p \in {"unsigned_long", "long"} /\ x = "long" /\ q = cl,
           cl \notin TypePoints
    PROVE  TypeRead(v, h, q, Append(t, x))
<1>1. Run(w, h, t) /\ h + Len(t) = Len(w) + 1 /\ t \in Seq(TypeWords) /\ Len(t) > 0
    BY DEF TypeRead
<1>2. x \in TypeWords
    BY DEF TypeWords
<1>3. Run(v, h, Append(t, x)) /\ h + Len(Append(t, x)) = Len(v) + 1
    BY <1>1, <1>2, RunOld
<1>4. /\ Append(t, x) \in Seq(TypeWords) /\ Len(Append(t, x)) = Len(t) + 1
      /\ Append(t, x)[1] = t[1] /\ Append(t, x)[Len(t) + 1] = x
    BY <1>1, <1>2
<1>5. t[1] \in {"unsigned", "long"}
    BY DEF TypeRead, TypePoints
<1>6. GoodType(Append(t, x))
    BY <1>4, <1>5 DEF GoodType
<1> QED BY <1>1, <1>3, <1>4, <1>5, <1>6 DEF TypeRead

\* What was before it stays.
LEMMA HeadsOld ==
    ASSUME NEW w, NEW v, NEW x, Longer(w, v, x), NEW s \in 1..(Len(w) + 1), NEW h, NEW r
    PROVE  /\ AttrHead(w, s, h, r) => AttrHead(v, s, h, r)
           /\ h \in 2..(Len(w) + 1) /\ ParamHead(w, h, r) => ParamHead(v, h, r)
<1>1. Len(w) \in Nat /\ Len(v) = Len(w) + 1 /\ \A i \in 1..Len(w) : v[i] = w[i]
    BY DEF Longer
<1>2. AttrHead(w, s, h, r) => AttrHead(v, s, h, r)
    BY <1>1 DEF AttrHead
<1>3. h \in 2..(Len(w) + 1) /\ ParamHead(w, h, r) => ParamHead(v, h, r)
    BY <1>1 DEF ParamHead
<1> QED BY <1>2, <1>3

\* The first part of an item.
LEMMA ItemBegins ==
    ASSUME NEW w, NEW v, NEW x, Longer(w, v, x),
           NEW q, NEW cl, NEW t, NEW ro, NEW d,
           \/ q = "readonly" /\ x = "readonly" /\ ro = TRUE
           \/ q = "attribute_type" /\ x = "attribute" /\ ro = FALSE
           \/ /\ \E T : First(T, q, "method") /\ x \in T
              /\ cl = "method" /\ t = <<x>>
    PROVE  Item(v, Len(w) + 1, q, cl, t, ro, d)
<1>1. Len(w) \in Nat /\ Len(v) = Len(w) + 1 /\ v[Len(w) + 1] = x
    BY PlacesOld
<1>2. CASE q = "readonly" /\ x = "readonly" /\ ro = TRUE
    BY <1>1, <1>2 DEF Item, Reader, TypePoints, MethodPoints, BodyPoints
<1>3. CASE q = "attribute_type" /\ x = "attribute" /\ ro = FALSE
    BY <1>1, <1>3 DEF Item, Reader, TypePoints, MethodPoints, BodyPoints, AttrHead
<1>4. ASSUME NEW T, First(T, q, "method"), x \in T, cl = "method", t = <<x>>
      PROVE  Item(v, Len(w) + 1, q, cl, t, ro, d)
    <2>1. q \in {"method", "unsigned", "long"} /\ Reader(q, cl) = "method"
        BY <1>4 DEF First, Reader, TypePoints
    <2>2. TypeRead(v, Len(w) + 1, q, t)
        BY <1>4, TypeBegins DEF TypePoints
    <2> QED BY <2>1, <2>2 DEF Item, MethodPoints, BodyPoints
<1> QED BY <1>2, <1>3, <1>4

\* The rest of an attribute.
LEMMA AttributeGoesOn ==
    ASSUME NEW w, NEW v, NEW x, Longer(w, v, x), NEW s \in 1..(Len(w) + 1),
           NEW p, NEW q, NEW T, NEW cl, NEW t, NEW ro, NEW d,
           Item(w, s, p, cl, t, ro, d), x \in T,
           \/ p = "readonly" /\ x = "attribute" /\ q = "attribute_type"
           \/ p = "attribute_type" /\ First(T, q, "attribute")
           \/ p = "attribute" /\ x \in Names /\ q = "after_attribute"
           \/ p = "after_attribute" /\ x = "comma" /\ q = "attribute"
    PROVE  Item(v, s, q, CallerNext(p, cl), TypeNext(p, x, t), ro, d)
<1>1. Len(w) \in Nat /\ Len(v) = Len(w) + 1 /\ v[Len(w) + 1] = x
    BY PlacesOld
<1>2. CASE p = "readonly" /\ x = "attribute" /\ q = "attribute_type"
    <2>1. s = Len(w) /\ w[s] = "readonly" /\ ro = TRUE
        BY <1>2 DEF Item
    <2>2. AttrHead(w, s, Len(v) + 1, ro)
        BY <1>1, <2>1 DEF AttrHead
    <2>3. AttrHead(v, s, Len(v) + 1, ro)
        BY <2>2, HeadsOld
    <2> QED BY <1>2, <2>3 DEF Item, Reader, TypePoints, MethodPoints, BodyPoints
<1>3. CASE p = "attribute_type" /\ First(T, q, "attribute")
    <2>1. AttrHead(w, s, Len(w) + 1, ro)
        BY <1>3 DEF Item
    <2>2. AttrHead(v, s, Len(w) + 1, ro)
        BY <2>1, HeadsOld
    <2>3. x \in TypeWords /\ q \in {"attribute", "unsigned", "long"}
        BY <1>3 DEF First, TypeWords
    <2>4. /\ CallerNext(p, cl) = "attribute" /\ TypeNext(p, x, t) = <<x>>
          /\ Reader(q, CallerNext(p, cl)) = "attribute"
        BY <1>3, <2>3 DEF CallerNext, TypeNext, Owner, Reader, TypePoints
    <2>5. TypeRead(v, Len(w) + 1, q, <<x>>)
        BY <1>3, TypeBegins DEF TypePoints
    <2>6. Len(w) + 1 \in 1..(Len(v) + 1)
        BY <1>1
    <2> QED BY <2>2, <2>3, <2>4, <2>5, <2>6 DEF Item, MethodPoints, BodyPoints
<1>4. CASE p = "attribute" /\ x \in Names /\ q = "after_attribute"
    <2>1. PICK h \in 1..(Len(w) + 1) :
              /\ AttrHead(w, s, h, ro)
              /\ TypeRead(w, h, p, t) \/ (Whole(w, h, t) /\ GoodType(t))
        BY <1>4 DEF Item, Reader, TypePoints
    <2>2. GoodType(t) /\ t \in Seq(TypeWords)
        BY <1>4, <2>1 DEF TypeRead, GoodType
    <2>3. x \notin TypeWords
        BY <1>4, NamesApart
    <2>4. Whole(v, h, t)
        <3>1. h \in Nat \ {0}
            BY <1>1
        <3> QED BY <2>1, <2>2, <2>3, <3>1, RunOld DEF TypeRead
    <2>5. AttrHead(v, s, h, ro) /\ h \in 1..Len(v)
        BY <1>1, <2>1, HeadsOld
    <2>6. TypeNext(p, x, t) = t
        BY <2>3 DEF TypeNext
    <2> QED BY <1>4, <2>2, <2>4, <2>5, <2>6 DEF Item, Reader, TypePoints, MethodPoints, BodyPoints
<1>5. CASE p = "after_attribute" /\ x = "comma" /\ q = "attribute"
    <2>1. PICK h \in 1..Len(w) : AttrHead(w, s, h, ro) /\ Whole(w, h, t) /\ GoodType(t)
        BY <1>5 DEF Item
    <2>2. Whole(v, h, t)
        <3>1. h \in Nat \ {0} /\ t \in Seq(TypeWords)
            BY <1>1, <2>1 DEF GoodType
        <3> QED BY <2>1, <3>1, RunOld
    <2>3. AttrHead(v, s, h, ro) /\ h \in 1..(Len(v) + 1)
        BY <1>1, <2>1, HeadsOld
    <2>4. TypeNext(p, x, t) = t
        BY <1>5 DEF TypeNext, TypeWords
    <2> QED BY <1>5, <2>1, <2>2, <2>3, <2>4 DEF Item, Reader, TypePoints, MethodPoints, BodyPoints
<1> QED BY <1>2, <1>3, <1>4, <1>5

\* More words of a type.
LEMMA WordsGoOn ==
    ASSUME NEW w, NEW v, NEW x, Longer(w, v, x), NEW s \in 1..(Len(w) + 1),
           NEW p, NEW q, NEW cl, NEW t, NEW ro, NEW d,
           Item(w, s, p, cl, t, ro, d), cl \in {"attribute", "method", "parameter"},
           \/ p = "unsigned" /\ x = "short" /\ q = cl
           \/ p = "unsigned" /\ x = "long" /\ q = "unsigned_long"
           \/ p \in {"unsigned_long", "long"} /\ x = "long" /\ q = cl
    PROVE  Item(v, s, q, CallerNext(p, cl), TypeNext(p, x, t), ro, d)
<1>1. Len(w) \in Nat /\ Len(v) = Len(w) + 1 /\ v[Len(w) + 1] = x
    BY PlacesOld
<1>2. CallerNext(p, cl) = cl /\ TypeNext(p, x, t) = Append(t, x)
    BY DEF CallerNext, TypeNext, Owner, TypeWords
<1>3. Reader(p, cl) = cl /\ Reader(q, cl) = cl
    BY DEF Reader, TypePoints
<1>4. ASSUME NEW h \in Nat \ {0}, TypeRead(w, h, p, t) PROVE TypeRead(v, h, q, Append(t, x))
    BY <1>4, TypeGoesOn DEF TypePoints
<1>5. q # "readonly" /\ q # "attribute_type" /\ q # "after_attribute" /\ q \in BodyPoints \ {"body"}
    BY DEF BodyPoints
<1>6. CASE cl = "attribute"
    <2>1. PICK h \in 1..(Len(w) + 1) : AttrHead(w, s, h, ro) /\ TypeRead(w, h, p, t)
        BY <1>3, <1>6 DEF Item
    <2>2. AttrHead(v, s, h, ro) /\ h \in 1..(Len(v) + 1) /\ h \in Nat \ {0}
        BY <1>1, <2>1, HeadsOld
    <2>3. TypeRead(v, h, q, Append(t, x))
        BY <1>4, <2>1, <2>2
    <2> QED BY <1>2, <1>3, <1>5, <1>6, <2>2, <2>3 DEF Item, MethodPoints
<1>7. CASE cl = "method"
    <2>1. TypeRead(w, s, p, t) /\ s \in Nat \ {0}
        BY <1>1, <1>3, <1>7 DEF Item
    <2>2. TypeRead(v, s, q, Append(t, x))
        BY <1>4, <2>1
    <2> QED BY <1>2, <1>3, <1>5, <1>7, <2>2 DEF Item, MethodPoints
<1>8. CASE cl = "parameter"
    <2>1. PICK h \in 2..Len(w) : ParamHead(w, h, d) /\ TypeRead(w, h, p, t)
        BY <1>3, <1>8 DEF Item
    <2>2. ParamHead(v, h, d) /\ h \in 2..Len(v) /\ h \in Nat \ {0}
        BY <1>1, <2>1, HeadsOld
    <2>3. TypeRead(v, h, q, Append(t, x))
        BY <1>4, <2>1, <2>2
    <2>4. x \notin Names
        BY NamesApart DEF TypeWords
    <2>5. MethPos(v) = MethPos(w)
        BY <2>4, NoNewPlace
    <2>6. PICK k \in MethPos(w) : Begin(w, s, k) /\ \A r \in MethPos(w) : r <= k
        BY <1>3, <1>8 DEF Item, MethodPoints
    <2>7. Begin(v, s, k)
        <3>1. k \in 1..(Len(w) + 1)
            BY <1>1, PlacesRange
        <3> QED BY <2>6, <3>1, BeginOld
    <2>8. \E h1 \in 2..Len(v) : ParamHead(v, h1, d) /\ TypeRead(v, h1, q, Append(t, x))
        BY <2>2, <2>3
    <2>9. \E k1 \in MethPos(v) : Begin(v, s, k1) /\ \A r \in MethPos(v) : r <= k1
        BY <2>5, <2>6, <2>7
    <2> QED BY <1>2, <1>3, <1>5, <1>8, <2>8, <2>9 DEF Item
<1> QED BY <1>6, <1>7, <1>8

\* The words of the type of a method are all that is before its name.
LEMMA TypeWordsRead ==
    ASSUME NEW w, NEW h \in Nat \ {0}, NEW p, NEW t, TypeRead(w, h, p, t), Len(w) \in Nat
    PROVE  h \in 1..Len(w) /\ \A q \in h..Len(w) : w[q] \in TypeWords
<1>1. /\ h + Len(t) = Len(w) + 1 /\ t \in Seq(TypeWords) /\ Len(t) \in Nat /\ Len(t) > 0
      /\ \A i \in 1..Len(t) : w[h + i - 1] = t[i]
    BY DEF TypeRead, Run
<1>2. ASSUME NEW q \in h..Len(w) PROVE w[q] \in TypeWords
    <2>1. q - h + 1 \in 1..Len(t) /\ h + (q - h + 1) - 1 = q
        BY <1>1
    <2>2. w[q] = t[q - h + 1]
        BY <1>1, <2>1
    <2> QED BY <1>1, <2>1, <2>2
<1> QED BY <1>1, <1>2

\* The name of a method.
LEMMA MethodBegins ==
    ASSUME NEW w, NEW v, NEW x, Longer(w, v, x), NEW s \in 1..(Len(w) + 1), Begin(w, s, Len(w) + 1),
           NEW cl, NEW t, NEW ro, NEW d, Item(w, s, "method", cl, t, ro, d), x \in Names
    PROVE  /\ Item(v, s, "(", cl, t, ro, d)
           /\ Len(v) \in MethPos(v) /\ Len(v) \notin AttrPos(v)
           /\ Begin(v, s, Len(v)) /\ Whole(v, s, t) /\ GoodType(t)
           /\ \A k \in MethPos(w) : ParamPos(v, k) = ParamPos(w, k)
           /\ ParamPos(v, Len(v)) = {}
<1>1. Len(w) \in Nat /\ Len(v) = Len(w) + 1 /\ v[Len(w) + 1] = x
    BY PlacesOld
<1>2. TypeRead(w, s, "method", t)
    BY DEF Item, Reader, TypePoints
<1>3. s \in 1..Len(w) /\ \A q \in s..Len(w) : w[q] \in TypeWords
    BY <1>1, <1>2, TypeWordsRead
<1>4. Len(v) \in MethPos(v)
    BY <1>3, NewPlace
<1>5. Len(v) \notin AttrPos(v)
    <2>1. w[s] \in TypeWords
        BY <1>3
    <2>2. w[s] \notin {"readonly", "attribute"}
        BY <2>1 DEF TypeWords
    <2> QED BY <1>3, <2>2, NewPlace
<1>6. Begin(v, s, Len(v))
    BY <1>1, BeginOld
<1>7. Whole(v, s, t) /\ GoodType(t)
    <2>1. x \notin TypeWords /\ s \in Nat \ {0}
        BY <1>1, NamesApart
    <2> QED BY <1>2, <2>1, RunOld DEF TypeRead
<1>8. \A q \in MethPos(v) : q <= Len(v)
    BY <1>1, PlacesRange
<1>9. Item(v, s, "(", cl, t, ro, d)
    BY <1>4, <1>6, <1>8 DEF Item, Reader, TypePoints, MethodPoints, BodyPoints
<1>10. ASSUME NEW k \in MethPos(w) PROVE ParamPos(v, k) = ParamPos(w, k)
    <2>1. k \in 1..Len(w) /\ w[k] \in Names
        BY PlacesRange, PlacesAreNames DEF Pos
    <2>2. ~Begin(w, s, k)
        <3> SUFFICES ASSUME Begin(w, s, k) PROVE FALSE
            OBVIOUS
        <3>1. k \in s..Len(w)
            BY <2>1 DEF Begin
        <3> QED BY <1>3, <2>1, <3>1, NamesApart
    <2>3. Len(v) \notin ParamPos(v, k)
        BY <1>3, <2>1, <2>2, NewPlace
    <2> QED BY <2>1, <2>3, PlacesGrow
<1>11. ParamPos(v, Len(v)) = {}
    <2>1. \A q \in ParamPos(v, Len(v)) : q > Len(v) /\ q \in 1..Len(v)
        BY PlacesOld DEF ParamPos
    <2> QED BY <1>1, <2>1
<1> QED BY <1>4, <1>5, <1>6, <1>7, <1>9, <1>10, <1>11

\* The method whose parameters are read.
LEMMA InMethodGoesOn ==
    ASSUME NEW w, NEW v, NEW x, Longer(w, v, x), NEW s, MethPos(v) = MethPos(w),
           \E k \in MethPos(w) : Begin(w, s, k) /\ \A q \in MethPos(w) : q <= k
    PROVE  \E k \in MethPos(v) : Begin(v, s, k) /\ \A q \in MethPos(v) : q <= k
<1>1. PICK k \in MethPos(w) : Begin(w, s, k) /\ \A q \in MethPos(w) : q <= k
    OBVIOUS
<1>2. k \in 1..Len(w) /\ Len(w) \in Nat
    BY PlacesRange, PlacesOld
<1>3. Begin(v, s, k)
    BY <1>1, <1>2, BeginOld
<1> QED BY <1>1, <1>3

\* The name of a parameter.
LEMMA ParameterNamed ==
    ASSUME NEW w, NEW v, NEW x, Longer(w, v, x), NEW s \in 1..(Len(w) + 1), Begin(w, s, Len(w) + 1),
           NEW cl, NEW t, NEW ro, NEW d, Item(w, s, "parameter", cl, t, ro, d), x \in Names,
           d \in Directions \cup {"none"}
    PROVE  /\ Item(v, s, "after_parameter", cl, t, ro, d)
           /\ MethPos(v) = MethPos(w) /\ AttrPos(v) = AttrPos(w) /\ Len(v) \in Pos(v)
           /\ ParamIs(v, Len(v), [dir |-> d, type |-> t, name |-> x])
           /\ \E k \in MethPos(w) :
                /\ \A q \in MethPos(w) : q <= k
                /\ Same(v, k, Len(v)) /\ Len(v) \in ParamPos(v, k)
                /\ \A q \in MethPos(w) : q # k => ParamPos(v, q) = ParamPos(w, q)
<1>1. Len(w) \in Nat /\ Len(v) = Len(w) + 1 /\ v[Len(w) + 1] = x
    BY PlacesOld
<1>2. PICK h \in 2..Len(w) : ParamHead(w, h, d) /\ TypeRead(w, h, "parameter", t)
    BY DEF Item, Reader, TypePoints
<1>3. PICK k \in MethPos(w) : Begin(w, s, k) /\ \A q \in MethPos(w) : q <= k
    BY DEF Item, Reader, TypePoints, MethodPoints
<1>4. k \in 1..Len(w) /\ w[k] \in Names /\ k \in s..Len(w) /\ s \in 1..Len(w)
    <2>1. k \in 1..Len(w) /\ w[k] \in Names
        BY PlacesRange, PlacesAreNames DEF Pos
    <2> QED BY <1>1, <1>3, <2>1 DEF Begin
<1>5. Len(v) \notin MethPos(v)
    BY <1>4, NamesApart, NewPlace
<1>6. Len(v) \notin AttrPos(v)
    <2>1. w[s] \in TypeWords \/ w[s] \in Names
        <3>1. PICK r \in 1..k : Begin(w, r, k) /\ \A q \in r..(k - 1) : w[q] \in TypeWords
            BY <1>3 DEF MethPos
        <3>2. r = s
            BY <1>3, <1>4, <3>1, BeginUnique
        <3> QED BY <1>4, <3>1, <3>2
    <2>2. w[s] \notin {"readonly", "attribute"}
        BY <2>1, NamesApart DEF TypeWords
    <2> QED BY <1>4, <2>2, NewPlace
<1>7. MethPos(v) = MethPos(w) /\ AttrPos(v) = AttrPos(w)
    BY <1>5, <1>6, PlacesGrow
<1>8. Item(v, s, "after_parameter", cl, t, ro, d)
    BY <1>3, <1>7, InMethodGoesOn DEF Item, Reader, TypePoints, MethodPoints, BodyPoints
<1>9. ParamIs(v, Len(v), [dir |-> d, type |-> t, name |-> x])
    <2> DEFINE r == [dir |-> d, type |-> t, name |-> x]
    <2>1. GoodType(t) /\ t \in Seq(TypeWords) /\ h + Len(t) = Len(v)
        BY <1>1, <1>2 DEF TypeRead
    <2>2. r \in Parameters /\ r.name = v[Len(v)] /\ r.type = t /\ r.dir = d
        BY <1>1, <2>1 DEF Parameters
    <2>3. ParamHead(v, h, d)
        BY <1>1, <1>2, HeadsOld
    <2>4. Whole(v, h, t)
        <3>1. x \notin TypeWords /\ h \in Nat \ {0}
            BY NamesApart
        <3> QED BY <1>2, <3>1, RunOld DEF TypeRead
    <2>5. h \in 2..Len(v)
        BY <1>1
    <2>6. ParamIs(v, Len(v), r)
        <3> HIDE DEF r
        <3> QED BY <2>1, <2>2, <2>3, <2>4, <2>5 DEF ParamIs
    <2> QED BY <2>6
<1>10. Same(v, k, Len(v)) /\ Len(v) \in ParamPos(v, k) /\ Len(v) \in Pos(v)
    BY <1>3, <1>4, NewPlace
<1>11. ASSUME NEW q \in MethPos(w), q # k PROVE ParamPos(v, q) = ParamPos(w, q)
    <2>1. q \in 1..Len(w) /\ w[q] \in Names /\ q < k
        <3>1. q \in 1..Len(w) /\ w[q] \in Names
            BY PlacesRange, PlacesAreNames DEF Pos
        <3>2. q <= k
            BY <1>3
        <3> QED BY <1>4, <1>11, <3>1, <3>2
    <2>2. ~Begin(w, s, q)
        <3> SUFFICES ASSUME Begin(w, s, q) PROVE FALSE
            OBVIOUS
        <3>1. PICK r \in 1..k : Begin(w, r, k) /\ \A i \in r..(k - 1) : w[i] \in TypeWords
            BY <1>3 DEF MethPos
        <3>2. r = s
            BY <1>3, <1>4, <3>1, BeginUnique
        <3>3. q \in r..(k - 1)
            BY <1>4, <2>1, <3>2 DEF Begin
        <3> QED BY <2>1, <3>1, <3>3, NamesApart
    <2>3. Len(v) \notin ParamPos(v, q)
        BY <1>4, <2>1, <2>2, NewPlace
    <2> QED BY <2>1, <2>3, PlacesGrow
<1> QED BY <1>3, <1>7, <1>8, <1>9, <1>10, <1>11

\* The signs and directions of a list of parameters, and the first word of a type in it.
LEMMA ParametersGoOn ==
    ASSUME NEW w, NEW v, NEW x, Longer(w, v, x), NEW s \in 1..(Len(w) + 1),
           NEW p, NEW q, NEW T, NEW cl, NEW t, NEW ro, NEW d,
           Item(w, s, p, cl, t, ro, d), LastToken(w, p, d), x \in T, p \in MethodPoints, x \notin Names,
           \/ q \in MethodPoints \ {"parameter"}
           \/ /\ p \in {"first_parameter", "next_parameter", "parameter_type"}
              /\ First(T, q, "parameter")
    PROVE  Item(v, s, q, CallerNext(p, cl), TypeNext(p, x, t), ro, DirNext(p, x, d))
<1>1. Len(w) \in Nat /\ Len(v) = Len(w) + 1 /\ v[Len(w) + 1] = x
    BY PlacesOld
<1>2. MethPos(v) = MethPos(w)
    BY NoNewPlace
<1>3. \E k \in MethPos(v) : Begin(v, s, k) /\ \A r \in MethPos(v) : r <= k
    BY <1>2, InMethodGoesOn DEF Item, Reader, TypePoints, MethodPoints
<1>4. CASE q \in MethodPoints \ {"parameter"}
    BY <1>3, <1>4 DEF Item, Reader, TypePoints, MethodPoints, BodyPoints
<1>5. CASE /\ p \in {"first_parameter", "next_parameter", "parameter_type"}
           /\ First(T, q, "parameter")
    <2>1. x \in TypeWords /\ x \notin Directions /\ q \in {"parameter", "unsigned", "long"}
        BY <1>5 DEF First, TypeWords, Directions
    <2>2. /\ CallerNext(p, cl) = "parameter" /\ TypeNext(p, x, t) = <<x>>
          /\ Reader(q, CallerNext(p, cl)) = "parameter"
        BY <1>5, <2>1 DEF CallerNext, TypeNext, Owner, Reader, TypePoints
    <2>3. TypeRead(v, Len(w) + 1, q, <<x>>)
        BY <1>5, TypeBegins DEF TypePoints
    <2>4. Len(w) > 0
        BY <1>5 DEF LastToken
    <2>5. ParamHead(v, Len(w) + 1, DirNext(p, x, d))
        <3>1. v[Len(w)] = w[Len(w)]
            BY <1>1, <2>4 DEF Longer
        <3> QED BY <1>1, <1>5, <2>1, <3>1 DEF LastToken, DirNext, ParamHead, Directions
    <2>6. Len(w) + 1 \in 2..Len(v)
        BY <1>1, <2>4
    <2> QED BY <1>3, <2>1, <2>2, <2>3, <2>5, <2>6 DEF Item, BodyPoints
<1> QED BY <1>4, <1>5

-----------------------------------------------------------------------------
(* The parser and the text, token by token *)

\* The place that follows.
PlaceNext(p, q, cl) == IF q = "typed" THEN cl ELSE q

\* What the parser knows of the text when it has taken a token that is not a name.
LEMMA SignTaken ==
    ASSUME NEW w, NEW v, NEW x, Longer(w, v, x), x \notin Names,
           NEW p, NEW q, NEW cl, NEW t, NEW ro, NEW d, Place(w, p, cl, t, ro, d), Takes(p, x, q)
    PROVE  Place(v, PlaceNext(p, q, cl), CallerNext(p, cl), TypeNext(p, x, t),
                 ReadonlyNext(p, x, ro), DirNext(p, x, d))
<1> DEFINE np == PlaceNext(p, q, cl)
           nc == CallerNext(p, cl)
           nt == TypeNext(p, x, t)
           nr == ReadonlyNext(p, x, ro)
           nd == DirNext(p, x, d)
<1>1. Len(w) \in Nat /\ Len(v) = Len(w) + 1 /\ v[Len(w) + 1] = x
    BY PlacesOld
<1>2. PICK s \in 1..(Len(w) + 1) : Begin(w, s, Len(w) + 1) /\ Item(w, s, p, cl, t, ro, d)
    BY DEF Place
<1>3. PICK T : BodyMove(p, T, q) /\ x \in T
    BY DEF Takes
<1>4. v \in Seq(Countable) /\ nr \in BOOLEAN /\ nd \in Directions \cup {"none"}
    BY DEF Place, Longer, ReadonlyNext, DirNext
<1>5. np \in TypePoints => nc \in {"attribute", "method", "parameter"}
    BY <1>3 DEF Place, PlaceNext, CallerNext, TypePoints, Owner, BodyMove, First
<1>6. NamesInv(v)
    BY <1>2, SignKeepsNames DEF Place
<1>7. LastToken(v, np, nd)
    BY <1>1, <1>3 DEF Place, LastToken, PlaceNext, DirNext, BodyMove, First, TypePoints, Directions
<1>8. \E r \in 1..(Len(v) + 1) : Begin(v, r, Len(v) + 1) /\ Item(v, r, np, nc, nt, nr, nd)
    <2>1. CASE x = "semicolon"
        <3>1. q = "body" /\ np = "body"
            BY <1>3, <2>1 DEF Takes, BodyMove, First, TypeWords, Directions, PlaceNext
        <3>2. Begin(v, Len(v) + 1, Len(v) + 1)
            BY <1>2, <2>1, BeginNext
        <3>3. Item(v, Len(v) + 1, np, nc, nt, nr, nd)
            BY <3>1 DEF Item, Reader, TypePoints, MethodPoints, BodyPoints
        <3> QED BY <1>1, <3>2, <3>3
    <2>2. ASSUME x # "semicolon" PROVE Item(v, s, np, nc, nt, nr, nd)
        <3>1. CASE p = "body"
            <4>1. s = Len(w) + 1
                BY <1>2, <3>1 DEF Item
            <4>2. q # "typed"
                BY <1>3, <3>1 DEF BodyMove, First
            <4>3. \/ q = "readonly" /\ x = "readonly" /\ nr = TRUE
                  \/ q = "attribute_type" /\ x = "attribute" /\ nr = FALSE
                  \/ (\E U : First(U, q, "method") /\ x \in U) /\ nc = "method" /\ nt = <<x>>
                <5>1. CASE First(T, q, "method")
                    <6>1. x \in TypeWords
                        BY <1>3, <5>1 DEF First, TypeWords
                    <6> QED BY <1>3, <3>1, <5>1, <6>1 DEF CallerNext, TypeNext, Owner
                <5> QED BY <1>3, <3>1, <5>1 DEF Takes, BodyMove, ReadonlyNext
            <4> QED BY <4>1, <4>2, <4>3, ItemBegins DEF PlaceNext
        <3>2. CASE p \in {"readonly", "attribute_type", "after_attribute"}
            <4>1. np = q /\ nr = ro /\ nd = d
                BY <1>3, <3>2 DEF BodyMove, First, PlaceNext, ReadonlyNext, DirNext
            <4>2. \/ p = "readonly" /\ x = "attribute" /\ q = "attribute_type"
                  \/ p = "attribute_type" /\ First(T, q, "attribute")
                  \/ p = "after_attribute" /\ x = "comma" /\ q = "attribute"
                BY <1>3, <2>2, <3>2 DEF BodyMove
            <4> QED BY <1>2, <1>3, <4>1, <4>2, AttributeGoesOn
        <3>3. CASE p \in TypePoints
            <4>1. nr = ro /\ nd = d
                BY <3>3 DEF ReadonlyNext, DirNext, TypePoints
            <4>2. \/ p = "unsigned" /\ x = "short" /\ np = cl
                  \/ p = "unsigned" /\ x = "long" /\ np = "unsigned_long"
                  \/ p \in {"unsigned_long", "long"} /\ x = "long" /\ np = cl
                BY <1>3, <3>3 DEF Takes, BodyMove, PlaceNext, TypePoints
            <4>3. cl \in {"attribute", "method", "parameter"}
                BY <3>3 DEF Place
            <4> QED BY <1>2, <4>1, <4>2, <4>3, WordsGoOn
        <3>4. CASE p \in MethodPoints
            <4>1. np = q /\ nr = ro /\ p # "parameter"
                BY <1>3, <3>4 DEF BodyMove, First, PlaceNext, ReadonlyNext, MethodPoints
            <4>2. \/ q \in MethodPoints \ {"parameter"}
                  \/ /\ p \in {"first_parameter", "next_parameter", "parameter_type"}
                     /\ First(T, q, "parameter")
                BY <1>3, <2>2, <3>4 DEF BodyMove, MethodPoints
            <4>3. LastToken(w, p, d)
                BY DEF Place
            <4> QED BY <1>2, <1>3, <3>4, <4>1, <4>2, <4>3, ParametersGoOn
        <3>5. p \notin {"attribute", "method"}
            BY <1>3 DEF BodyMove
        <3> QED BY <1>3, <3>1, <3>2, <3>3, <3>4, <3>5 DEF BodyMove, TypePoints, MethodPoints
    <2>3. ASSUME x # "semicolon" PROVE Begin(v, s, Len(v) + 1) /\ s \in 1..(Len(v) + 1)
        BY <1>1, <1>2, <2>3, BeginNext
    <2> QED BY <2>1, <2>2, <2>3
<1> QED BY <1>4, <1>5, <1>6, <1>7, <1>8 DEF Place

\* The methods that are recorded, with the one that is still read.
Recorded == IF Reader(point, caller) \in MethodPoints THEN Append(m_methods, method) ELSE m_methods

\* What the parser has recorded of the tokens w that it has taken between braces.
ParserInv(w) ==
    /\ Place(w, point, caller, type, readonly, dir)
    /\ ListsAttrs(w, m_attributes)
    /\ m_methods \in Seq(Methods)
    /\ Reader(point, caller) \in MethodPoints => method \in Methods
    /\ ListsMeths(w, Recorded)

\* The parser's locals after a token, by the functions above.
LEMMA LocalsNext ==
    ASSUME NEW move, Take(move), ~LooksAhead
    PROVE  /\ point' = PlaceNext(point, move[3], caller)
           /\ caller' = CallerNext(point, caller)
           /\ type' = TypeNext(point, token, type)
           /\ readonly' = ReadonlyNext(point, token, readonly)
           /\ dir' = DirNext(point, token, dir)
BY DEF Take, PlaceNext, CallerNext, TypeAfter, TypeNext, ReadonlyNext, DirectionAfter, DirNext

\* A token between braces that is not a name.
LEMMA TakeSign ==
    ASSUME NEW w, NEW v, Longer(w, v, token), ParserInv(w), NEW move, Take(move), ~LooksAhead,
           Takes(point, token, move[3]), token \notin Names
    PROVE  ParserInv(v)'
<1>1. Place(v, point', caller', type', readonly', dir')
    BY LocalsNext, SignTaken DEF ParserInv
<1>2. PICK T : BodyMove(point, T, move[3]) /\ token \in T
    BY DEF Takes
<1>3. point \notin {"attribute", "method", "parameter"}
    BY <1>2 DEF BodyMove
<1>4. m_attributes' = m_attributes /\ method' = method
    BY <1>3 DEF Take, MethodAfter
<1>5. Recorded' = Recorded /\ m_methods' \in Seq(Methods)
      /\ (Reader(point', caller') \in MethodPoints => Reader(point, caller) \in MethodPoints)
    <2>1. CASE point = ")"
        <3>1. point' = "body"
            BY <1>2, <2>1, LocalsNext DEF BodyMove, PlaceNext
        <3>2. m_methods' = Append(m_methods, method) /\ method \in Methods
            BY <2>1 DEF Take, ParserInv, Reader, TypePoints, MethodPoints
        <3> QED BY <2>1, <3>1, <3>2 DEF Recorded, Reader, TypePoints, MethodPoints, ParserInv
    <2>2. CASE point # ")"
        <3>1. m_methods' = m_methods
            BY <2>2 DEF Take
        <3>2. Reader(point', caller') \in MethodPoints <=> Reader(point, caller) \in MethodPoints
            <4>1. point' = PlaceNext(point, move[3], caller) /\ caller' = CallerNext(point, caller)
                BY LocalsNext
            <4>2. point \in TypePoints => caller \in {"attribute", "method", "parameter"}
                BY DEF ParserInv, Place
            <4> QED BY <1>2, <1>3, <2>2, <4>1, <4>2
                    DEF BodyMove, First, PlaceNext, CallerNext, Owner, Reader, TypePoints, MethodPoints,
                        Takes
        <3> QED BY <1>4, <3>1, <3>2 DEF Recorded, ParserInv
    <2> QED BY <2>1, <2>2
<1>6. AttrPos(v) = AttrPos(w) /\ MethPos(v) = MethPos(w)
      /\ \A k \in MethPos(w) : ParamPos(v, k) = ParamPos(w, k)
    BY NoNewPlace, PlacesRange
<1>7. ListsAttrs(v, m_attributes) /\ ListsMeths(v, Recorded)
    BY <1>6, ListsAttrsOld, ListsMethsOld DEF ParserInv
<1> QED BY <1>1, <1>4, <1>5, <1>7 DEF ParserInv

\* A token that is pushed back, and one that is not between braces.
LEMMA TakeNothing ==
    ASSUME NEW w, ParserInv(w), NEW move, Take(move),
           \/ LooksAhead /\ BodyMove(point, move[2], move[3])
           \/ token = "rbrace" /\ BodyMove(point, move[2], move[3])
           \/ OutMove(point, move[2], move[3])
    PROVE  ParserInv(w)'
<1>1. token \in move[2]
    BY DEF Take
<1>2. CASE LooksAhead /\ BodyMove(point, move[2], move[3])
    <2>1. point \in TypePoints \ {"unsigned"} /\ caller \in {"attribute", "method", "parameter"}
        BY <1>2 DEF LooksAhead, TypePoints, ParserInv, Place
    <2>2. point' = caller /\ caller' = caller
        BY <1>2, <2>1 DEF Take, BodyMove, First, Owner, TypePoints
    <2>3. UNCHANGED <<type, readonly, dir, method, m_attributes, m_methods>>
        BY <1>2, <2>1 DEF Take, TypeAfter, DirectionAfter, MethodAfter, TypePoints
    <2>4. Reader(point, caller) = caller /\ Reader(point', caller') = caller
        BY <2>1, <2>2 DEF Reader, TypePoints
    <2>5. Recorded' = Recorded
        BY <2>3, <2>4 DEF Recorded
    <2>6. ASSUME NEW s, Item(w, s, point, caller, type, readonly, dir)
          PROVE  Item(w, s, caller, caller, type, readonly, dir)
        <3>1. \A h : TypeRead(w, h, point, type) => TypeRead(w, h, caller, type)
            BY <2>1 DEF TypeRead, TypePoints
        <3> QED BY <2>1, <2>6, <3>1 DEF Item, Reader, TypePoints, MethodPoints, BodyPoints
    <2>7. LastToken(w, caller, dir)
        BY <2>1 DEF ParserInv, Place, LastToken, TypePoints
    <2>8. Place(w, caller, caller, type, readonly, dir)
        BY <2>1, <2>6, <2>7 DEF ParserInv, Place, TypePoints
    <2> QED BY <2>2, <2>3, <2>4, <2>5, <2>8 DEF ParserInv
<1>3. CASE \/ token = "rbrace" /\ BodyMove(point, move[2], move[3]) /\ ~LooksAhead
           \/ OutMove(point, move[2], move[3])
    <2>1. /\ point = "body" \/ point \notin BodyPoints
          /\ point' = "body" \/ point' \notin BodyPoints
        BY <1>1, <1>3, NamesAssumption
           DEF Take, BodyMove, First, OutMove, TypeWords, Directions, BodyPoints, LooksAhead, Single
    <2>2. UNCHANGED <<dir, method, m_attributes, m_methods>> /\ readonly' \in BOOLEAN
        BY <2>1 DEF Take, DirectionAfter, MethodAfter, BodyPoints, ParserInv, Place
    <2>3. /\ Reader(point, caller) = point /\ point \notin MethodPoints
          /\ Reader(point', caller') = point' /\ point' \notin MethodPoints
        BY <2>1 DEF Reader, TypePoints, MethodPoints, BodyPoints
    <2>4. Recorded' = Recorded
        BY <2>2, <2>3 DEF Recorded
    <2>5. ASSUME NEW s, Item(w, s, point, caller, type, readonly, dir)
          PROVE  Item(w, s, point', caller', type', readonly', dir')
        <3>1. s = Len(w) + 1
            BY <2>1, <2>5 DEF Item
        <3> QED BY <2>1, <2>3, <3>1 DEF Item, BodyPoints, MethodPoints
    <2>6. LastToken(w, point', dir')
        <3>1. ~(Len(w) > 0 /\ w[Len(w)] \in Names)
            BY <2>1 DEF ParserInv, Place, LastToken, BodyPoints
        <3> QED BY <2>1, <3>1 DEF LastToken, BodyPoints
    <2>7. point' \notin TypePoints
        BY <2>1 DEF TypePoints, BodyPoints
    <2>8. Place(w, point', caller', type', readonly', dir')
        BY <2>2, <2>5, <2>6, <2>7 DEF ParserInv, Place
    <2> QED BY <2>2, <2>3, <2>4, <2>8 DEF ParserInv
<1> QED BY <1>2, <1>3

\* The name of an attribute.
LEMMA TakeAttributeName ==
    ASSUME NEW w, NEW v, Longer(w, v, token), ParserInv(w), NEW move, Take(move),
           point = "attribute", token \in Names, move[3] = "after_attribute"
    PROVE  ParserInv(v)'
<1>1. Len(w) \in Nat /\ Len(v) = Len(w) + 1 /\ v[Len(w) + 1] = token
    BY PlacesOld
<1>2. token \notin TypeWords /\ ~LooksAhead
    BY NamesApart DEF LooksAhead
<1>3. PICK s \in 1..(Len(w) + 1) : /\ Begin(w, s, Len(w) + 1)
                                   /\ Item(w, s, point, caller, type, readonly, dir)
    BY DEF ParserInv, Place
<1>4. /\ point' = "after_attribute" /\ UNCHANGED <<caller, type, readonly, dir, method, m_methods>>
      /\ m_attributes' = Append(m_attributes, [type |-> type, name |-> token, readonly |-> readonly])
    BY <1>2 DEF Take, Owner, TypeAfter, DirectionAfter, MethodAfter
<1>5. Item(v, s, "after_attribute", caller, type, readonly, dir)
    <2>1. CallerNext(point, caller) = caller /\ TypeNext(point, token, type) = type
        BY <1>2 DEF CallerNext, TypeNext, Owner
    <2>2. Item(v, s, "after_attribute", CallerNext(point, caller), TypeNext(point, token, type),
               readonly, dir)
        <3>1. token \in {token}
            OBVIOUS
        <3> QED BY <1>3, <3>1, AttributeGoesOn
    <2> QED BY <2>1, <2>2
<1>6. PICK h \in 1..Len(v) : AttrHead(v, s, h, readonly) /\ Whole(v, h, type) /\ GoodType(type)
    BY <1>5 DEF Item
<1>7. PICK g \in 1..(Len(w) + 1) : AttrHead(w, s, g, readonly)
    BY <1>3 DEF Item, Reader, TypePoints
<1>8. s \in 1..Len(w) /\ w[s] \in {"readonly", "attribute"}
    BY <1>1, <1>7 DEF AttrHead
<1>9. Begin(v, s, Len(v)) /\ Len(v) \in AttrPos(v) /\ Len(v) \notin MethPos(v)
    <2>1. w[s] \notin TypeWords /\ s \in s..Len(w)
        BY <1>8 DEF TypeWords
    <2> QED BY <1>1, <1>3, <1>8, <2>1, BeginOld, NewPlace
<1>10. AttrIs(v, Len(v), [type |-> type, name |-> token, readonly |-> readonly])
    <2> DEFINE r == [type |-> type, name |-> token, readonly |-> readonly]
    <2>1. r \in Attributes /\ r.name = v[Len(v)] /\ r.type = type /\ r.readonly = readonly
        BY <1>1, <1>6 DEF Attributes, GoodType, ParserInv, Place
    <2>2. AttrIs(v, Len(v), r)
        <3> HIDE DEF r
        <3>1. s \in 1..Len(v)
            BY <1>1
        <3> QED BY <1>6, <1>9, <2>1, <3>1 DEF AttrIs
    <2> QED BY <2>2
<1>11. ListsAttrs(v, m_attributes')
    BY <1>4, <1>9, <1>10, ListsAttrsOld DEF ParserInv
<1>12. MethPos(v) = MethPos(w) /\ \A k \in MethPos(w) : ParamPos(v, k) = ParamPos(w, k)
    <2>1. ASSUME NEW k \in MethPos(w) PROVE ParamPos(v, k) = ParamPos(w, k)
        <3>1. k \in 1..Len(w)
            BY PlacesRange
        <3>2. ~Begin(w, s, k)
            <4> SUFFICES ASSUME Begin(w, s, k) PROVE FALSE
                OBVIOUS
            <4>1. PICK r \in 1..k : Begin(w, r, k) /\ \A q \in r..(k - 1) : w[q] \in TypeWords
                BY DEF MethPos
            <4>2. r = s
                BY <3>1, <4>1, BeginUnique
            <4>3. w[s] \in TypeWords \/ w[s] \in Names
                BY <3>1, <4>1, <4>2, PlacesAreNames DEF Pos
            <4> QED BY <1>8, <4>3, NamesApart DEF TypeWords
        <3>3. Len(v) \notin ParamPos(v, k)
            BY <1>3, <1>8, <3>1, <3>2, NewPlace
        <3> QED BY <3>1, <3>3, PlacesGrow
    <2> QED BY <1>9, <2>1, PlacesGrow
<1>13. ListsMeths(v, Recorded')
    <2>1. Recorded' = Recorded
        BY <1>4 DEF Recorded, Reader, TypePoints, MethodPoints
    <2> QED BY <1>12, <2>1, ListsMethsOld DEF ParserInv
<1>14. NamesInv(v)
    <2>1. Len(w) \notin Pos(w)
        BY DEF ParserInv, Place, LastToken, Pos
    <2> QED BY <1>3, <1>9, <2>1, NamesInvNext DEF ParserInv, Place
<1>15. Begin(v, s, Len(v) + 1) /\ s \in 1..(Len(v) + 1)
    BY <1>1, <1>3, NamesApart, BeginNext
<1>16. LastToken(v, point', dir')
    BY <1>1, <1>4, <1>9 DEF LastToken
<1>17. Place(v, point', caller', type', readonly', dir')
    BY <1>4, <1>5, <1>14, <1>15, <1>16 DEF Place, ParserInv, Longer, TypePoints
<1> QED BY <1>4, <1>11, <1>13, <1>17 DEF ParserInv, Reader, TypePoints, MethodPoints

\* The name of a method.
LEMMA TakeMethodName ==
    ASSUME NEW w, NEW v, Longer(w, v, token), ParserInv(w), NEW move, Take(move),
           point = "method", token \in Names, move[3] = "("
    PROVE  ParserInv(v)'
<1>1. Len(w) \in Nat /\ Len(v) = Len(w) + 1 /\ v[Len(w) + 1] = token
    BY PlacesOld
<1>2. token \notin TypeWords /\ ~LooksAhead
    BY NamesApart DEF LooksAhead
<1>3. PICK s \in 1..(Len(w) + 1) : /\ Begin(w, s, Len(w) + 1)
                                   /\ Item(w, s, point, caller, type, readonly, dir)
    BY DEF ParserInv, Place
<1>4. /\ point' = "(" /\ UNCHANGED <<caller, type, readonly, dir, m_attributes, m_methods>>
      /\ method' = [type |-> type, name |-> token, params |-> <<>>]
    BY <1>2 DEF Take, Owner, TypeAfter, DirectionAfter, MethodAfter
<1>5. /\ Item(v, s, "(", caller, type, readonly, dir)
      /\ Len(v) \in MethPos(v) /\ Len(v) \notin AttrPos(v)
      /\ Begin(v, s, Len(v)) /\ Whole(v, s, type) /\ GoodType(type)
      /\ \A k \in MethPos(w) : ParamPos(v, k) = ParamPos(w, k)
      /\ ParamPos(v, Len(v)) = {}
    BY <1>3, MethodBegins
<1>6. method' \in Methods /\ MethIs(v, Len(v), method')
    <2>1. <<>> \in Seq(Parameters) /\ Len(<<>>) = 0
        OBVIOUS
    <2>2. /\ method' \in Methods /\ method'.name = v[Len(v)] /\ method'.type = type
          /\ method'.params = <<>>
        BY <1>1, <1>4, <1>5, <2>1 DEF Methods, GoodType
    <2>3. ListsParams(v, Len(v), <<>>)
        BY <1>5, <2>1, FS_EmptySet DEF ListsParams
    <2>4. s \in 1..Len(v)
        BY <1>1
    <2> QED BY <1>5, <2>2, <2>3, <2>4 DEF MethIs
<1>7. ListsMeths(v, Recorded')
    <2>1. Recorded = m_methods /\ Recorded' = Append(m_methods, method')
        BY <1>4 DEF Recorded, Reader, TypePoints, MethodPoints
    <2> QED BY <1>5, <1>6, <2>1, ListsMethsNew DEF ParserInv
<1>8. ListsAttrs(v, m_attributes')
    BY <1>4, <1>5, PlacesGrow, ListsAttrsOld DEF ParserInv
<1>9. NamesInv(v)
    <2>1. Len(w) \notin Pos(w)
        BY DEF ParserInv, Place, LastToken, Pos
    <2>2. Len(v) <= Len(v) /\ Same(v, Len(v), Len(v))
        BY <1>1, <1>5 DEF Same
    <2> QED BY <1>3, <1>5, <2>1, <2>2, NamesInvNext DEF ParserInv, Place
<1>10. Begin(v, s, Len(v) + 1) /\ s \in 1..(Len(v) + 1)
    BY <1>1, <1>3, NamesApart, BeginNext
<1>11. LastToken(v, point', dir')
    BY <1>1, <1>4, <1>5 DEF LastToken
<1>12. Place(v, point', caller', type', readonly', dir')
    BY <1>4, <1>5, <1>9, <1>10, <1>11 DEF Place, ParserInv, Longer, TypePoints
<1> QED BY <1>4, <1>6, <1>7, <1>8, <1>12 DEF ParserInv

\* The name of a parameter.
LEMMA TakeParameterName ==
    ASSUME NEW w, NEW v, Longer(w, v, token), ParserInv(w), NEW move, Take(move),
           point = "parameter", token \in Names, move[3] = "after_parameter"
    PROVE  ParserInv(v)'
<1>1. Len(w) \in Nat /\ Len(v) = Len(w) + 1 /\ v[Len(w) + 1] = token
    BY PlacesOld
<1>2. token \notin TypeWords /\ ~LooksAhead
    BY NamesApart DEF LooksAhead
<1>3. PICK s \in 1..(Len(w) + 1) : /\ Begin(w, s, Len(w) + 1)
                                   /\ Item(w, s, point, caller, type, readonly, dir)
    BY DEF ParserInv, Place
<1> DEFINE r == [dir |-> dir, type |-> type, name |-> token]
<1>4. /\ point' = "after_parameter"
      /\ UNCHANGED <<caller, type, readonly, dir, m_attributes, m_methods>>
      /\ method' = [method EXCEPT !.params = Append(@, r)]
    BY <1>2 DEF Take, Owner, TypeAfter, DirectionAfter, MethodAfter
<1>5. /\ Item(v, s, "after_parameter", caller, type, readonly, dir)
      /\ MethPos(v) = MethPos(w) /\ AttrPos(v) = AttrPos(w) /\ Len(v) \in Pos(v)
      /\ ParamIs(v, Len(v), r)
    BY <1>3, ParameterNamed DEF ParserInv, Place
<1>6. PICK k \in MethPos(w) :
        /\ \A q \in MethPos(w) : q <= k
        /\ Same(v, k, Len(v)) /\ Len(v) \in ParamPos(v, k)
        /\ \A q \in MethPos(w) : q # k => ParamPos(v, q) = ParamPos(w, q)
    BY <1>3, ParameterNamed DEF ParserInv, Place
<1>7. method \in Methods /\ m_methods \in Seq(Methods) /\ ListsMeths(w, Append(m_methods, method))
    BY DEF ParserInv, Recorded, Reader, TypePoints, MethodPoints
<1>8. /\ method' \in Methods /\ method'.name = method.name /\ method'.type = method.type
      /\ method'.params = Append(method.params, r)
    <2>1. r \in Parameters
        BY <1>5 DEF ParamIs
    <2> HIDE DEF r
    <2>2. Append(method.params, r) \in Seq(Parameters)
        BY <1>7, <2>1 DEF Methods
    <2> QED BY <1>4, <1>7, <2>2 DEF Methods
<1>9. ListsMeths(v, Append(m_methods, method'))
    <2>1. ListsParams(w, k, method.params) => ListsParams(v, k, method'.params)
        <3>1. k \in 1..Len(w)
            BY PlacesRange
        <3> HIDE DEF r
        <3> QED BY <1>5, <1>6, <1>8, <3>1, ListsParamsOld
    <2> QED BY <1>5, <1>6, <1>7, <1>8, <2>1, ListsMethsParam
<1>10. Recorded' = Append(m_methods, method')
    BY <1>4 DEF Recorded, Reader, TypePoints, MethodPoints
<1>11. ListsAttrs(v, m_attributes')
    BY <1>4, <1>5, ListsAttrsOld DEF ParserInv
<1>12. NamesInv(v)
    <2>1. Len(w) \notin Pos(w)
        BY DEF ParserInv, Place, LastToken, Pos
    <2>2. k \in MethPos(v) /\ k <= Len(v)
        BY <1>1, <1>5, PlacesRange
    <2> QED BY <1>3, <1>6, <2>1, <2>2, NamesInvNext DEF ParserInv, Place
<1>13. Begin(v, s, Len(v) + 1) /\ s \in 1..(Len(v) + 1)
    BY <1>1, <1>3, NamesApart, BeginNext
<1>14. LastToken(v, point', dir')
    <2>1. Len(v) \notin MethPos(v)
        BY <1>1, <1>5, PlacesRange
    <2> QED BY <1>1, <1>4, <1>5, <2>1 DEF LastToken
<1>15. Place(v, point', caller', type', readonly', dir')
    BY <1>4, <1>5, <1>12, <1>13, <1>14 DEF Place, ParserInv, Longer, TypePoints
<1> QED BY <1>4, <1>7, <1>8, <1>9, <1>10, <1>11, <1>15 DEF ParserInv

\* The parser takes a token for good, of the text between the braces.
Counted == point \in BodyPoints /\ token # "rbrace" /\ ~LooksAhead

\* A token that a function between the braces takes for good is one that counts.
LEMMA CountedCounts ==
    ASSUME NEW T, NEW q, BodyMove(point, T, q), token \in T, Counted
    PROVE  token \in Countable /\ Takes(point, token, q)
<1>1. point \in {"unsigned_long", "long"} => token = "long"
    BY DEF Counted, LooksAhead
<1>2. \/ point \in {"unsigned_long", "long"}
      \/ token \in Names \cup TypeWords \cup Directions
                   \cup {"rbrace", "readonly", "attribute", "comma", "semicolon", "(", ")"}
    BY DEF BodyMove, First, TypeWords
<1>3. token \in Names \cup TypeWords \cup Directions
                   \cup {"readonly", "attribute", "comma", "semicolon", "(", ")"}
    BY <1>1, <1>2 DEF Counted, TypeWords
<1>4. token \notin {"lbrace", "rbrace"}
    BY <1>3, NamesApart DEF Counted, TypeWords, Directions
<1> QED BY <1>1, <1>3, <1>4 DEF Takes, Counted, Countable, Words, s_keywords, Single

\* What the parser has recorded, after any token.
LEMMA ParserKept ==
    ASSUME NEW w, NEW v, ParserInv(w), NEW move \in Moves, Take(move),
           v = IF Counted THEN Append(w, token) ELSE w
    PROVE  ParserInv(v)'
<1>1. move[1] = point /\ token \in move[2]
    BY DEF Take
<1>2. CASE OutMove(point, move[2], move[3])
    BY <1>2, TakeNothing DEF OutMove, Counted
<1>3. CASE BodyMove(point, move[2], move[3])
    <2>1. point \in BodyPoints
        BY <1>3 DEF BodyMove, BodyPoints
    <2>2. CASE LooksAhead \/ token = "rbrace"
        BY <1>3, <2>2, TakeNothing DEF Counted
    <2>3. CASE ~(LooksAhead \/ token = "rbrace")
        <3>1. Counted
            BY <2>1, <2>3 DEF Counted
        <3>2. token \in Countable /\ Takes(point, token, move[3])
            BY <1>1, <1>3, <3>1, CountedCounts
        <3>3. Longer(w, v, token)
            BY <3>1, <3>2, AppendLonger DEF ParserInv, Place
        <3>4. CASE token \notin Names
            BY <2>3, <3>2, <3>3, <3>4, TakeSign
        <3>5. CASE token \in Names
            <4>1. token \notin TypeWords \cup Directions
                               \cup {"readonly", "attribute", "comma", "semicolon", "(", ")", "rbrace"}
                BY <3>5, NamesApart
            <4>2. \/ point = "attribute" /\ move[3] = "after_attribute"
                  \/ point = "method" /\ move[3] = "("
                  \/ point = "parameter" /\ move[3] = "after_parameter"
                BY <1>1, <1>3, <2>3, <4>1 DEF BodyMove, First, LooksAhead, TypeWords
            <4> QED BY <3>3, <3>5, <4>2, TakeAttributeName, TakeMethodName, TakeParameterName
        <3> QED BY <3>4, <3>5
    <2> QED BY <2>2, <2>3
<1> QED BY <1>1, <1>2, <1>3, MoveCases

-----------------------------------------------------------------------------
(* The scanner and the text, character by character *)

Bad == {"double", "LEX_ERROR"}
States == {"INITIAL", "IDENTIFIER", "UUID", "/", "LINE", "BLOCK"} \cup Openers

\* What is read and not taken: a token, or the word or sign that will be one, and
\* after it a character that was put back.
Ahead ==
    IF state \in {"IDENTIFIER", "UUID"} THEN param
    ELSE IF state \in Openers THEN state
    ELSE IF token # "none" THEN token
    ELSE IF m_token_queue # <<>> THEN Head(m_token_queue) ELSE "none"

Grown(w, ch) == IF ch \in Countable THEN Append(w, ch) ELSE w

\* The text is what the parser has taken, w, and what it has still to take.
Holds(w) == text = IF point \in BodyPoints THEN Grown(Grown(w, Ahead), unget) ELSE w

\* The file is not accepted any more.
Doomed ==
    /\ point # "accepted"
    /\ \/ point = "refused"
       \/ m_token_queue = <<>> /\ token \in Bad
       \/ token = "none" /\ \E x \in Bad : m_token_queue = <<x>>

CommentInv ==
    CASE state = "/" -> comment = "slash"
      [] state = "LINE" -> comment = "line"
      [] state = "BLOCK" -> /\ comment \in {"opened", "star", "block"}
                            /\ c = "*" <=> comment # "block"
      [] OTHER -> IF unget = "/" THEN comment = "slash"
                  ELSE IF unget = "eof" \/ Ahead = "EOF" \/ point = "accepted"
                  THEN comment \in {"code", "line"}
                  ELSE comment = "code"

DepthInv ==
    /\ Ahead \in {"lbrace", "rbrace"} => unget = "none"
    /\ depth = IF point \in BodyPoints
               THEN IF Ahead = "rbrace" \/ unget = "rbrace" THEN 0 ELSE 1
               ELSE IF Ahead = "lbrace" \/ unget = "lbrace" THEN 1 ELSE 0

EndInv ==
    /\ Ahead = "EOF" => unget = "none"
    /\ point = "accepted" => Ahead = "none" /\ unget = "none" /\ state = "INITIAL"

ScanInv ==
    /\ state \in States /\ unget \in Characters \cup {"none"} /\ token \in Tokens \cup {"none"}
    /\ m_token_queue = <<>> \/ (token = "none" /\ \E x \in Tokens : m_token_queue = <<x>>)
    /\ state # "INITIAL" => token = "none" /\ m_token_queue = <<>> /\ unget = "none"
    /\ state \in {"IDENTIFIER", "UUID"} => param \in Words /\ c \in Words
    /\ state = "INITIAL" => c \notin Words
    /\ state = "UUID" => m_accept_uuids = TRUE
    /\ m_accept_uuids = TRUE => point = "uuid_value"
    /\ DepthInv /\ CommentInv /\ EndInv

\* The sorts of characters, apart from one another.
LEMMA Sorts ==
    /\ \A ch \in Words : ch \notin Single \cup Openers
            \cup {"/", "*", "blank", "newline", "eof", "none", "double", "EOF", "LEX_ERROR"}
    /\ \A ch \in Single : ch \notin Openers
            \cup {"/", "*", "blank", "newline", "eof", "none", "double", "EOF", "LEX_ERROR"}
    /\ \A ch \in Openers : ch \notin
            {"/", "*", "blank", "newline", "eof", "none", "double", "EOF", "LEX_ERROR",
             "INITIAL", "IDENTIFIER", "UUID", "LINE", "BLOCK"}
<1>1. \A ch \in Names : ch \notin Single \cup Openers \cup Others
            \cup {"/", "*", "blank", "newline", "eof"}
    BY NamesAssumption
<1>2. \A ch \in s_keywords \cup {UuidValue} : ch \notin Single \cup Openers
            \cup {"/", "*", "blank", "newline", "eof", "none", "double", "EOF", "LEX_ERROR"}
    BY DEF s_keywords, UuidValue, TypeWords, Directions, Single, Openers
<1>3. \A ch \in Single : ch \notin Openers
            \cup {"/", "*", "blank", "newline", "eof", "none", "double", "EOF", "LEX_ERROR"}
    BY DEF Single, Openers
<1>4. \A ch \in Openers : ch \notin
            {"/", "*", "blank", "newline", "eof", "none", "double", "EOF", "LEX_ERROR",
             "INITIAL", "IDENTIFIER", "UUID", "LINE", "BLOCK"}
    BY DEF Openers
<1> QED BY <1>1, <1>2, <1>3, <1>4 DEF Words, Others

\* A token that was pushed back comes again.
LEMMA PopKeeps ==
    ASSUME ScanInv, NEW w, Holds(w), Pop, UNCHANGED parseVars
    PROVE  ScanInv' /\ Holds(w)'
<1>1. PICK x \in Tokens : m_token_queue = <<x>>
    BY DEF ScanInv, Pop
<1>2. /\ token' = x /\ m_token_queue' = <<>> /\ token = "none" /\ state = "INITIAL"
      /\ UNCHANGED <<state, c, param, unget, m_accept_uuids, comment, depth, text, point>>
    BY <1>1 DEF Pop, fileVars, parseVars, ScanInv
<1>3. x # "none"
    BY Sorts DEF Tokens
<1>4. Ahead = x /\ Ahead' = x
    BY <1>1, <1>2, <1>3, Sorts DEF Ahead
<1>5. DepthInv' /\ CommentInv' /\ EndInv' /\ Holds(w)'
    BY <1>2, <1>3, <1>4 DEF ScanInv, DepthInv, CommentInv, EndInv, Holds
<1> QED BY <1>2, <1>5 DEF ScanInv

\* A character that may be of a token: what the file has in it after it, if the text
\* before it was v.
Read(v, ch) ==
    /\ text' = IF point \in BodyPoints THEN Grown(v, ch) ELSE v
    /\ depth' = IF point \in BodyPoints THEN IF ch = "rbrace" THEN 0 ELSE 1
                ELSE IF ch = "lbrace" THEN 1 ELSE 0
    /\ CASE ch = "/" -> comment' = "slash"
         [] ch = "eof" -> comment' \in {"code", "line"}
         [] OTHER -> comment' = "code"

\* What counts, in words of the text alone.
LEMMA CountsHere ==
    ASSUME NEW ch, comment = "code", depth = IF point \in BodyPoints THEN 1 ELSE 0
    PROVE  Counts(ch) <=> point \in BodyPoints /\ ch \in Countable
BY DEF Counts, Countable

\* A character that comes from the file where comments do not matter.
LEMMA FileReads ==
    ASSUME NEW ch, comment = "code", depth = IF point \in BodyPoints THEN 1 ELSE 0,
           unget = "none", Gets(ch)
    PROVE  Read(text, ch)
<1>1. /\ comment' = CommentAfter(ch) /\ text' = IF Counts(ch) THEN Append(text, ch) ELSE text
      /\ (ch = "lbrace" => depth = 0) /\ (ch = "rbrace" => depth = 1)
    BY Zenon DEF Gets, MayFollow
<1>2. comment' = IF ch = "/" THEN "slash" ELSE "code"
    BY <1>1 DEF CommentAfter
<1>3. text' = IF point \in BodyPoints THEN Grown(text, ch) ELSE text
    <2>1. CASE point \in BodyPoints /\ ch \in Countable
        BY <1>1, <2>1, CountsHere DEF Grown
    <2>2. CASE ~(point \in BodyPoints /\ ch \in Countable)
        BY <1>1, <2>2, CountsHere DEF Grown
    <2> QED BY <2>1, <2>2
<1>4. depth' = IF point \in BodyPoints THEN IF ch = "rbrace" THEN 0 ELSE 1
                ELSE IF ch = "lbrace" THEN 1 ELSE 0
    <2>1. depth' = CASE ch = "lbrace" -> 1 [] ch = "rbrace" -> 0 [] OTHER -> depth
        BY DEF Gets
    <2> QED BY <1>1, <2>1
<1> QED BY <1>2, <1>3, <1>4 DEF Read

\* Between tokens, a character that was put back is as good as one from the file.
LEMMA InitialReads ==
    ASSUME ScanInv, NEW w, Holds(w), state = "INITIAL", token = "none", m_token_queue = <<>>,
           point # "accepted", NEW ch, Gets(ch)
    PROVE  Read(w, ch)
<1>1. Ahead = "none"
    BY DEF Ahead, Openers
<1>2. "none" \notin Countable
    BY Sorts DEF Countable
<1>3. Grown(w, Ahead) = w
    BY <1>1, <1>2 DEF Grown
<1>4. CASE unget = "none"
    <2>1. comment = "code" /\ depth = IF point \in BodyPoints THEN 1 ELSE 0
        BY <1>1, <1>4 DEF ScanInv, CommentInv, DepthInv, Openers
    <2>2. text = w
        BY <1>2, <1>3, <1>4 DEF Holds, Grown
    <2> QED BY <1>4, <2>1, <2>2, FileReads
<1>5. CASE unget # "none"
    <2>1. ch = unget /\ UNCHANGED <<comment, depth, text>>
        BY <1>5 DEF Gets, fileVars
    <2>2. text = IF point \in BodyPoints THEN Grown(w, ch) ELSE w
        BY <1>3, <2>1 DEF Holds
    <2>3. depth = IF point \in BodyPoints THEN IF ch = "rbrace" THEN 0 ELSE 1
                ELSE IF ch = "lbrace" THEN 1 ELSE 0
        BY <1>1, <2>1 DEF ScanInv, DepthInv
    <2>4. CASE ch = "/"
        BY <1>1, <2>1, <2>2, <2>3, <2>4 DEF Read, ScanInv, CommentInv, Openers
    <2>5. CASE ch # "/"
        <3>1. IF ch = "eof" THEN comment \in {"code", "line"} ELSE comment = "code"
            BY <1>1, <2>1, <2>5 DEF ScanInv, CommentInv, Openers
        <3> QED BY <2>1, <2>2, <2>3, <2>5, <3>1 DEF Read
    <2> QED BY <2>4, <2>5
<1> QED BY <1>4, <1>5

\* A character between tokens.
LEMMA ScanInitial ==
    ASSUME ScanInv, NEW w, Holds(w), NEW ch \in Characters, Scan(ch), UNCHANGED parseVars,
           state = "INITIAL", point # "accepted"
    PROVE  (ScanInv' /\ Holds(w)') \/ Doomed'
<1>1. /\ token = "none" /\ m_token_queue = <<>> /\ Gets(ch) /\ point' = point
      /\ UNCHANGED <<m_token_queue, m_accept_uuids>>
    BY DEF Scan, parseVars
<1>2. Read(w, ch)
    BY <1>1, InitialReads
<1>3. m_accept_uuids' = TRUE => point' = "uuid_value"
    BY <1>1 DEF ScanInv
<1>4. CASE ch \in Words
    <2>1. ch \notin Openers \cup {"/", "blank", "newline", "eof", "none"} /\ ch # "EOF"
        BY <1>4, Sorts
    <2>2. StateAfter(ch) = IF m_accept_uuids THEN "UUID" ELSE "IDENTIFIER"
        BY <1>4 DEF StateAfter
    <2>3. /\ state' = IF m_accept_uuids THEN "UUID" ELSE "IDENTIFIER"
          /\ c' = ch /\ param' = ch /\ unget' = "none" /\ token' = "none"
        BY <1>1, <1>4, <2>1, <2>2 DEF Scan
    <2>4. Ahead' = ch
        BY <2>3 DEF Ahead
    <2>5. ch \notin {"lbrace", "rbrace"}
        BY <1>4, Sorts DEF Single
    <2>6. DepthInv' /\ CommentInv' /\ EndInv'
        BY <1>1, <1>2, <2>1, <2>3, <2>4, <2>5 DEF DepthInv, CommentInv, EndInv, Read
    <2>7. Holds(w)'
        BY <1>1, <1>2, <2>3, <2>4, Sorts DEF Holds, Read, Grown, Countable
    <2> QED BY <1>1, <1>3, <1>4, <2>3, <2>6, <2>7 DEF ScanInv, States
<1>5. CASE ch \in Openers
    <2>1. ch \notin Words \cup {"/", "blank", "newline", "eof", "none", "lbrace", "rbrace", "EOF",
                                "INITIAL", "IDENTIFIER", "UUID", "LINE", "BLOCK"}
        BY <1>5, Sorts DEF Single
    <2>2. /\ state' = ch /\ c' = ch /\ param' = param /\ unget' = "none" /\ token' = "none"
        BY <1>1, <1>5, <2>1 DEF Scan, StateAfter
    <2>3. Ahead' = ch
        BY <1>5, <2>1, <2>2 DEF Ahead
    <2>4. DepthInv' /\ CommentInv' /\ EndInv'
        BY <1>1, <1>2, <2>1, <2>2, <2>3 DEF DepthInv, CommentInv, EndInv, Read
    <2>5. Holds(w)'
        BY <1>1, <1>2, <2>2, <2>3, Sorts DEF Holds, Read, Grown, Countable
    <2> QED BY <1>1, <1>3, <1>5, <2>1, <2>2, <2>4, <2>5 DEF ScanInv, States
<1>6. CASE ch \in {"/", "blank", "newline"}
    <2>1. ch \notin Words \cup Openers \cup Single
        BY <1>6, Sorts
    <2>2. /\ state' = IF ch = "/" THEN "/" ELSE "INITIAL"
          /\ c' = ch /\ unget' = "none" /\ token' = "none"
        BY <1>1, <1>6, <2>1 DEF Scan, StateAfter
    <2>3. Ahead' = "none"
        BY <1>1, <2>2 DEF Ahead, Openers
    <2>4. DepthInv' /\ CommentInv' /\ EndInv'
        BY <1>1, <1>2, <1>6, <2>2, <2>3 DEF DepthInv, CommentInv, EndInv, Read, Openers
    <2>5. Holds(w)'
        BY <1>1, <1>2, <2>1, <2>2, <2>3, Sorts DEF Holds, Read, Grown, Countable
    <2> QED BY <1>1, <1>3, <2>1, <2>2, <2>4, <2>5 DEF ScanInv, States
<1>7. CASE ch \in Single \cup {"eof"}
    <2>1. /\ ch \notin Words \cup Openers \cup {"/", "*", "blank", "newline", "none", "EOF"}
          /\ ch = "eof" <=> ch \notin Single
        BY <1>7, Sorts
    <2>2. /\ token' = IF ch = "eof" THEN "EOF" ELSE ch
          /\ state' = "INITIAL" /\ c' = "none" /\ unget' = "none"
        <3>1. StateAfter(ch) = "none" /\ ~PutsBack(ch)
            BY <2>1 DEF StateAfter, PutsBack, Openers
        <3>2. TokenAt(ch) = IF ch = "eof" THEN "EOF" ELSE ch
            BY <2>1 DEF TokenAt, Openers
        <3> QED BY <3>1, <3>2 DEF Scan
    <2>3. token' \in Tokens /\ token' # "none" /\ (ch # "eof" => token' # "EOF")
        BY <1>7, <2>1, <2>2 DEF Tokens
    <2>4. Ahead' = token'
        BY <2>2, <2>3 DEF Ahead, Openers
    <2>5. DepthInv' /\ CommentInv' /\ EndInv'
        BY <1>1, <1>2, <2>1, <2>2, <2>3, <2>4 DEF DepthInv, CommentInv, EndInv, Read, Openers
    <2>6. Holds(w)'
        BY <1>1, <1>2, <2>1, <2>2, <2>3, <2>4, Sorts DEF Holds, Read, Grown, Countable
    <2>7. c' \notin Words
        BY <2>2, Sorts
    <2> QED BY <1>1, <1>3, <2>2, <2>3, <2>5, <2>6, <2>7 DEF ScanInv, States
<1>8. CASE ch = "*"
    <2>1. ch \notin Words \cup Openers
        BY <1>8, Sorts
    <2>2. token' = "LEX_ERROR"
        BY <1>8, <2>1 DEF Scan, StateAfter, TokenAt, Openers
    <2> QED BY <1>1, <2>2 DEF Doomed, Bad
<1> QED BY <1>4, <1>5, <1>6, <1>7, <1>8 DEF Characters

\* The character after a word, or after a sign that may be doubled, is put back.
LEMMA ScanEndOfToken ==
    ASSUME ScanInv, NEW w, Holds(w), NEW ch \in Characters, Scan(ch), UNCHANGED parseVars,
           state \in {"IDENTIFIER", "UUID"} \cup Openers, point # "accepted"
    PROVE  (ScanInv' /\ Holds(w)') \/ Doomed'
<1>1. /\ token = "none" /\ m_token_queue = <<>> /\ Gets(ch) /\ point' = point /\ unget = "none"
      /\ UNCHANGED <<m_token_queue, m_accept_uuids>>
    BY DEF Scan, parseVars, ScanInv, Openers
<1>2. Ahead \in Words \cup Openers /\ (state \in Openers => Ahead = state)
    BY DEF Ahead, ScanInv, Openers
<1>3. Ahead \notin {"none", "/", "eof", "EOF", "lbrace", "rbrace", "double", "LEX_ERROR"}
    BY <1>2, Sorts DEF Single
<1>4. comment = "code" /\ depth = IF point \in BodyPoints THEN 1 ELSE 0
    BY <1>1, <1>3 DEF ScanInv, CommentInv, DepthInv, Openers
<1>5. Read(text, ch)
    BY <1>1, <1>4, FileReads
<1>6. text = IF point \in BodyPoints THEN Grown(w, Ahead) ELSE w
    BY <1>1, Sorts DEF Holds, Grown, Countable
<1>7. StateAfter(ch) = "none"
    BY DEF StateAfter, Openers
<1>8. /\ token' = TokenAt(ch) /\ state' = "INITIAL" /\ c' = "none"
      /\ unget' = IF ch # "eof" /\ PutsBack(ch) THEN ch ELSE "none"
    BY <1>7 DEF Scan
<1>9. CASE ch = "eof" \/ TokenAt(ch) \in Bad
    <2>1. token' \in Bad
        BY <1>8, <1>9 DEF TokenAt, Bad, Openers
    <2> QED BY <1>1, <2>1 DEF Doomed
<1>10. CASE ch # "eof" /\ TokenAt(ch) \notin Bad
    <2>1. TokenAt(ch) = Ahead /\ PutsBack(ch)
        <3>1. CASE state \in {"IDENTIFIER", "UUID"}
            <4>1. TokenAt(ch) = WordToken
                BY <1>10, <3>1 DEF TokenAt, Openers
            <4>2. WordToken = param \/ WordToken = "LEX_ERROR"
                BY DEF WordToken
            <4>3. PutsBack(ch)
                BY <3>1 DEF PutsBack
            <4> QED BY <1>10, <3>1, <4>1, <4>2, <4>3 DEF Ahead, Bad
        <3>2. CASE state \in Openers
            <4>1. state \notin {"IDENTIFIER", "UUID"}
                BY <3>2, Sorts
            <4>2. TokenAt(ch) = IF ch = state THEN "double" ELSE state
                BY <1>10, <3>2, <4>1 DEF TokenAt
            <4> QED BY <1>2, <1>10, <3>2, <4>2 DEF Bad, PutsBack
        <3> QED BY <3>1, <3>2
    <2>2. token' = Ahead /\ unget' = ch
        BY <1>8, <1>10, <2>1
    <2>3. Ahead' = Ahead
        BY <1>3, <1>8, <2>2 DEF Ahead, Openers
    <2>4. DepthInv'
        BY <1>1, <1>3, <1>5, <2>2, <2>3 DEF DepthInv, Read
    <2>5. CommentInv' /\ EndInv'
        BY <1>1, <1>3, <1>5, <1>8, <1>10, <2>2, <2>3 DEF CommentInv, EndInv, Read, Openers
    <2>6. Holds(w)'
        BY <1>1, <1>5, <1>6, <2>2, <2>3 DEF Holds, Read
    <2>7. token' \in Tokens /\ c' \notin Words
        BY <1>2, <1>8, <2>2, Sorts DEF Tokens
    <2> QED BY <1>1, <1>8, <2>2, <2>4, <2>5, <2>6, <2>7 DEF ScanInv, States
<1> QED BY <1>9, <1>10

\* A character of a comment, or after the slash that may begin one.
LEMMA ScanComment ==
    ASSUME ScanInv, NEW w, Holds(w), NEW ch \in Characters, Scan(ch), UNCHANGED parseVars,
           state \in {"/", "LINE", "BLOCK"}, point # "accepted"
    PROVE  (ScanInv' /\ Holds(w)') \/ Doomed'
<1>1. /\ token = "none" /\ m_token_queue = <<>> /\ Gets(ch) /\ point' = point /\ unget = "none"
      /\ UNCHANGED <<m_token_queue, m_accept_uuids>>
    BY DEF Scan, parseVars, ScanInv
<1>2. Ahead = "none"
    BY <1>1 DEF Ahead, Openers
<1>3. comment # "code" /\ (state = "/" => comment = "slash") /\ (state = "LINE" => comment = "line")
      /\ (state = "BLOCK" => comment \in {"opened", "star", "block"}
                             /\ (c = "*" <=> comment # "block"))
    BY DEF ScanInv, CommentInv
<1>4. /\ comment' = CommentAfter(ch) /\ MayFollow(ch)
      /\ depth' = depth /\ text' = text
    <2>1. ~Counts(ch)
        BY <1>3 DEF Counts
    <2> QED BY <1>1, <1>3, <2>1, Zenon DEF Gets
<1>5. CASE ch = "eof" /\ state # "LINE"
    <2>1. token' = "LEX_ERROR"
        BY <1>5 DEF Scan, TokenAt
    <2> QED BY <1>1, <2>1 DEF Doomed, Bad
<1>6. CASE ~(ch = "eof" /\ state # "LINE")
    <2>1. StateAfter(ch) \in {"/", "LINE", "BLOCK", "INITIAL"}
        BY DEF StateAfter
    <2>2. /\ state' = StateAfter(ch) /\ c' = ch /\ token' = "none"
          /\ unget' = IF ch = "eof" THEN "eof" ELSE "none"
        BY <1>1, <1>6, <2>1 DEF Scan
    <2>3. Ahead' = "none"
        BY <1>1, <2>1, <2>2 DEF Ahead, Openers
    <2>4. DepthInv' /\ EndInv'
        BY <1>1, <1>2, <1>4, <2>2, <2>3 DEF ScanInv, DepthInv, EndInv
    <2>5. Holds(w)'
        <3>1. "none" \notin Countable /\ "eof" \notin Countable
            BY Sorts DEF Countable
        <3> QED BY <1>1, <1>2, <1>4, <2>2, <2>3, <3>1 DEF Holds, Grown
    <2>6. /\ CommentInv' /\ (state' = "INITIAL" => c' \notin Words)
          /\ (state' # "INITIAL" => unget' = "none")
        <3>1. CASE state = "/"
            <4>1. ch \in {"/", "*"}
                BY <1>3, <1>4, <1>6, <3>1 DEF MayFollow
            <4>2. \/ ch = "/" /\ state' = "LINE" /\ comment' = "line"
                  \/ ch = "*" /\ state' = "BLOCK" /\ comment' = "opened"
                BY <1>3, <1>4, <2>2, <3>1, <4>1 DEF StateAfter, CommentAfter
            <4> QED BY <2>2, <4>2 DEF CommentInv
        <3>2. CASE state = "LINE"
            <4>1. /\ comment' = IF ch = "newline" THEN "code" ELSE "line"
                  /\ state' = IF ch \in {"newline", "eof"} THEN "INITIAL" ELSE "LINE"
                BY <1>3, <1>4, <2>2, <3>2 DEF StateAfter, CommentAfter
            <4> QED BY <1>6, <2>2, <2>3, <4>1, Sorts DEF CommentInv, Openers
        <3>3. CASE state = "BLOCK"
            <4>1. /\ comment' = IF comment = "star" /\ ch = "/" THEN "code"
                                ELSE IF ch = "*" THEN "star" ELSE "block"
                  /\ comment = "opened" => ch # "/"
                BY <1>3, <1>4, <3>3 DEF CommentAfter, MayFollow
            <4>2. state' = IF c = "*" /\ ch = "/" THEN "INITIAL" ELSE "BLOCK"
                BY <2>2, <3>3 DEF StateAfter
            <4>3. ch # "eof"
                BY <1>6, <3>3
            <4>4. "/" \notin Words
                BY Sorts
            <4> QED BY <1>3, <2>2, <2>3, <3>3, <4>1, <4>2, <4>3, <4>4 DEF CommentInv, Openers
        <3> QED BY <3>1, <3>2, <3>3
    <2> QED BY <1>1, <2>1, <2>2, <2>4, <2>5, <2>6 DEF ScanInv, States
<1> QED BY <1>5, <1>6

\* Whatever the scanner reads.
LEMMA ScanKeeps ==
    ASSUME ScanInv, NEW w, Holds(w), getNextToken, UNCHANGED parseVars, point # "accepted"
    PROVE  (ScanInv' /\ Holds(w)') \/ Doomed'
<1>1. state \in States
    BY DEF ScanInv
<1> QED BY <1>1, PopKeeps, ScanInitial, ScanEndOfToken, ScanComment DEF getNextToken, States

-----------------------------------------------------------------------------
(* The scanner and the parser together *)

\* The scanner and the parser agree on what the file says, or will refuse it.
ReadInv ==
    /\ caller # "accepted"
    /\ Doomed \/ (ScanInv /\ \E w : Holds(w) /\ ParserInv(w))

\* The parser takes a token that the scanner has for it.
LEMMA TakeKeeps ==
    ASSUME ScanInv, NEW w, Holds(w), ParserInv(w), NEW move \in Moves, Take(move),
           token # "none", token' = "none", UNCHANGED <<state, c, param, unget, fileVars>>
    PROVE  ScanInv' /\ \E v : Holds(v)' /\ ParserInv(v)'
<1>11. PICK v : v = IF Counted THEN Append(w, token) ELSE w
    OBVIOUS
<1>1. /\ state = "INITIAL" /\ m_token_queue = <<>> /\ Ahead = token
      /\ UNCHANGED <<state, c, param, unget, comment, depth, text>>
    BY DEF ScanInv, fileVars, Ahead, Openers
<1>0. /\ point \in BodyPoints => text = Grown(Grown(w, token), unget)
      /\ point \notin BodyPoints => text = w
    <2>1. Ahead = token
        BY <1>1
    <2> QED BY <2>1 DEF Holds
<1>2. /\ token \in Tokens /\ token \in move[2] /\ move[1] = point
      /\ point' = IF move[3] = "typed" THEN caller ELSE move[3]
      /\ m_token_queue' = IF LooksAhead THEN <<token>> ELSE <<>>
    BY <1>1 DEF ScanInv, Take, pushToken
<1>3. Ahead' = IF LooksAhead THEN token ELSE "none"
    BY <1>1, <1>2 DEF Ahead, Openers
<1>4. m_token_queue' = <<>> \/ (token' = "none" /\ \E x \in Tokens : m_token_queue' = <<x>>)
    BY <1>2
<1>5. ParserInv(v)'
    BY <1>11, ParserKept
<1>6. "none" \notin Countable /\ "rbrace" \notin Countable /\ "EOF" \notin Countable
    BY Sorts DEF Countable
<1>10. \A u : Grown(u, "none") = u /\ Grown(u, "rbrace") = u
    BY <1>6 DEF Grown
<1>7. CASE BodyMove(point, move[2], move[3]) /\ token = "rbrace" /\ ~LooksAhead
    <2>1. point = "body" /\ point' = "after_body"
        <3>1. "rbrace" \notin Names \cup TypeWords \cup Directions
            BY NamesApart DEF TypeWords, Directions
        <3>2. point \notin {"unsigned_long", "long"}
            BY <1>7 DEF LooksAhead
        <3>3. point = "body" /\ move[3] = "after_body"
            BY <1>2, <1>7, <3>1, <3>2 DEF BodyMove, First
        <3> QED BY <1>2, <3>3
    <2>2. unget = "none" /\ depth = 0
        BY <1>1, <1>7, <2>1 DEF ScanInv, DepthInv, BodyPoints
    <2>3. v = w /\ text = w
        <3>1. text = Grown(Grown(w, token), unget)
            BY <1>0, <2>1 DEF BodyPoints
        <3>2. v = w
            BY <1>7, <1>11 DEF Counted
        <3> QED BY <1>7, <1>10, <2>2, <3>1, <3>2
    <2>4. Holds(v)'
        BY <1>1, <2>1, <2>3 DEF Holds, BodyPoints
    <2>5. DepthInv' /\ EndInv'
        BY <1>1, <1>3, <1>7, <2>1, <2>2 DEF DepthInv, EndInv, BodyPoints
    <2>6. CommentInv'
        BY <1>1, <1>3, <1>7, <2>1, <2>2 DEF ScanInv, CommentInv, Openers
    <2>7. m_accept_uuids' = TRUE => point' = "uuid_value"
        BY <2>1 DEF Take, ScanInv
    <2> QED BY <1>1, <1>4, <1>5, <2>4, <2>5, <2>6, <2>7 DEF ScanInv
<1>8. CASE BodyMove(point, move[2], move[3]) /\ (LooksAhead \/ token # "rbrace")
    <2>1. /\ point \in BodyPoints /\ point \notin {"uuid_(", "uuid_value", "accepted"}
          /\ move[3] = "typed" => point \in TypePoints
          /\ move[3] # "typed" => move[3] \in BodyPoints \/ move[3] = "after_body"
          /\ move[3] = "after_body" => token = "rbrace" /\ ~LooksAhead
        BY <1>2, <1>8 DEF BodyMove, First, BodyPoints, TypePoints, LooksAhead
    <2>2. point' \in BodyPoints /\ point' \notin {"uuid_(", "uuid_value", "accepted"}
        <3>1. point \in TypePoints => caller \in {"attribute", "method", "parameter"}
            BY DEF ParserInv, Place
        <3>2. point' \in BodyPoints
            BY <1>2, <1>8, <2>1, <3>1 DEF BodyPoints
        <3> QED BY <3>2 DEF BodyPoints
    <2>3. ~LooksAhead => Counted /\ token \in Countable /\ token \notin {"EOF", "rbrace"}
        <3>1. ~LooksAhead => Counted
            BY <1>8, <2>1 DEF Counted
        <3> QED BY <1>2, <1>6, <1>8, <3>1, CountedCounts
    <2>4. Holds(v)'
        <3>1. text = Grown(Grown(w, token), unget)
            BY <1>0, <2>1
        <3>2. CASE LooksAhead
            <4>1. v = w
                BY <1>11, <3>2 DEF Counted
            <4>2. text' = Grown(Grown(w, Ahead'), unget')
                BY <1>1, <1>3, <3>1, <3>2
            <4> QED BY <2>2, <4>1, <4>2 DEF Holds
        <3>3. CASE ~LooksAhead
            <4>1. v = Grown(w, token)
                BY <1>11, <2>3, <3>3 DEF Grown
            <4>2. text' = Grown(Grown(v, Ahead'), unget')
                BY <1>1, <1>3, <1>10, <3>1, <3>3, <4>1
            <4> QED BY <2>2, <4>2 DEF Holds
        <3> QED BY <3>2, <3>3
    <2>5. DepthInv' /\ EndInv'
        BY <1>1, <1>3, <2>1, <2>2, <2>3 DEF ScanInv, DepthInv, EndInv
    <2>6. CommentInv'
        BY <1>1, <1>3, <2>1, <2>2, <2>3 DEF ScanInv, CommentInv, Openers
    <2>7. m_accept_uuids' = TRUE => point' = "uuid_value"
        BY <2>1 DEF Take, ScanInv
    <2> QED BY <1>1, <1>4, <1>5, <2>4, <2>5, <2>6, <2>7 DEF ScanInv
<1>9. CASE OutMove(point, move[2], move[3])
    <2>1. /\ point \notin BodyPoints /\ ~LooksAhead /\ ~Counted /\ point # "accepted"
          /\ point' = move[3]
          /\ point' \notin BodyPoints \/ (point' = "body" /\ token = "lbrace")
          /\ token = "lbrace" => point' = "body"
          /\ token # "rbrace" /\ (token = "EOF" <=> point' = "accepted")
        BY <1>2, <1>9 DEF OutMove, LooksAhead, Counted, BodyPoints
    <2>2. Ahead' = "none" /\ v = w
        BY <1>3, <1>11, <2>1
    <2>3. token = "lbrace" => unget = "none"
        BY <1>1 DEF ScanInv, DepthInv
    <2>4. Holds(v)'
        <3>1. text' = w
            BY <1>0, <1>1, <2>1
        <3>2. point' = "body" => unget' = "none"
            BY <1>1, <2>1, <2>3 DEF BodyPoints
        <3>3. point' \in BodyPoints => text' = Grown(Grown(w, Ahead'), unget')
            BY <1>10, <2>1, <2>2, <3>1, <3>2
        <3> QED BY <2>2, <3>1, <3>3 DEF Holds
    <2>5. DepthInv' /\ EndInv'
        BY <1>1, <2>1, <2>2, <2>3 DEF ScanInv, DepthInv, EndInv, BodyPoints
    <2>6. CommentInv'
        BY <1>1, <2>1, <2>2 DEF ScanInv, CommentInv, Openers
    <2>7. m_accept_uuids' = TRUE => point' = "uuid_value"
        BY <1>9, <2>1 DEF Take, ScanInv, OutMove
    <2> QED BY <1>1, <1>4, <1>5, <2>4, <2>5, <2>6, <2>7 DEF ScanInv
<1> QED BY <1>2, <1>7, <1>8, <1>9, MoveCases

\* A file that has a lexical error is refused when the token is taken.
LEMMA DoomStays ==
    ASSUME Doomed, caller # "accepted", ParseNext
    PROVE  Doomed'
<1>1. point \notin {"accepted", "refused"}
    BY DEF ParseNext
<1>2. CASE getNextToken /\ UNCHANGED parseVars
    <2>1. point' = point /\ token = "none"
        BY <1>2 DEF parseVars, getNextToken, Pop, Scan
    <2>2. PICK x \in Bad : m_token_queue = <<x>>
        BY <1>1, <2>1 DEF Doomed, Bad
    <2>3. token' = x /\ m_token_queue' = <<>>
        BY <1>2, <2>2 DEF getNextToken, Pop, Scan
    <2> QED BY <1>1, <2>1, <2>3 DEF Doomed
<1>3. CASE handleError
    BY <1>3 DEF handleError, Doomed
<1>4. ASSUME NEW move \in Moves, Take(move), token # "none", token' = "none" PROVE Doomed'
    <2>1. token \in Bad /\ m_token_queue = <<>>
        BY <1>1, <1>4 DEF Doomed
    <2>2. token \in move[2] /\ move[1] = point
        BY <1>4 DEF Take
    <2>3. token \notin Words \cup Single \cup Openers \cup {"EOF"}
        BY <2>1, Sorts DEF Bad
    <2>4. BodyMove(point, move[2], move[3])
        BY <2>2, <2>3, MoveCases DEF OutMove
    <2>5. LooksAhead /\ move[3] = "typed"
        <3>1. \A x \in Names \cup TypeWords \cup Directions : x \in Words
            BY DEF Words, s_keywords
        <3>2. \A x \in {"rbrace", "comma", "semicolon", "(", ")"} : x \in Single
            BY DEF Single
        <3>3. {"readonly", "attribute"} \subseteq Words
            BY DEF Words, s_keywords
        <3>4. point \in {"unsigned_long", "long"}
            BY <2>2, <2>3, <2>4, <3>1, <3>2, <3>3 DEF BodyMove, First, TypeWords
        <3> QED BY <2>1, <2>4, <3>4 DEF BodyMove, First, LooksAhead, Bad
    <2>6. m_token_queue' = <<token>> /\ point' = caller
        BY <1>4, <2>1, <2>5 DEF Take, pushToken
    <2> QED BY <1>4, <2>1, <2>6 DEF Doomed
<1> QED BY <1>2, <1>3, <1>4 DEF ParseNext

\* The initial state.
LEMMA ReadStarts == Init => ReadInv
<1> SUFFICES ASSUME Init PROVE ReadInv
    OBVIOUS
<1>1. /\ state = "INITIAL" /\ c = "none" /\ unget = "none" /\ token = "none" /\ m_token_queue = <<>>
      /\ m_accept_uuids = FALSE /\ comment = "code" /\ depth = 0 /\ text = <<>>
      /\ point = "top" /\ caller = "none" /\ readonly = FALSE /\ dir = "none"
      /\ m_attributes = <<>> /\ m_methods = <<>>
    BY DEF Init, ParserInit, ScannerInit
<1>2. Ahead = "none"
    BY <1>1 DEF Ahead, Openers
<1>3. ScanInv
    BY <1>1, <1>2, Sorts DEF ScanInv, States, DepthInv, CommentInv, EndInv, BodyPoints, Openers
<1>4. Holds(<<>>)
    BY <1>1 DEF Holds, BodyPoints
<1>5. Pos(<<>>) = {} /\ AttrPos(<<>>) = {} /\ MethPos(<<>>) = {} /\ Cardinality({}) = 0
    BY FS_EmptySet DEF Pos, AttrPos, MethPos
<1>6. Place(<<>>, point, caller, type, readonly, dir)
    <2>1. Len(<<>>) = 0 /\ <<>> \in Seq(Countable)
        OBVIOUS
    <2>2. NamesInv(<<>>) /\ LastToken(<<>>, point, dir)
        BY <1>1, <1>5, <2>1 DEF NamesInv, LastToken
    <2>3. Begin(<<>>, 1, Len(<<>>) + 1)
        BY <2>1 DEF Begin
    <2>4. Item(<<>>, 1, point, caller, type, readonly, dir)
        BY <1>1, <2>1 DEF Item, Reader, TypePoints, MethodPoints, BodyPoints
    <2>5. 1 \in 1..(Len(<<>>) + 1)
        BY <2>1
    <2> QED BY <1>1, <2>1, <2>2, <2>3, <2>4, <2>5 DEF Place, TypePoints
<1>7. ParserInv(<<>>)
    <2>1. Reader(point, caller) \notin MethodPoints
        BY <1>1 DEF Reader, TypePoints, MethodPoints
    <2>2. <<>> \in Seq(Attributes) /\ <<>> \in Seq(Methods) /\ Len(<<>>) = 0
        OBVIOUS
    <2> QED BY <1>1, <1>5, <1>6, <2>1, <2>2 DEF ParserInv, ListsAttrs, ListsMeths, Recorded
<1> QED BY <1>1, <1>3, <1>4, <1>7 DEF ReadInv

readVars == <<scanVars, fileVars, parseVars>>

\* Every step of the program.
LEMMA ReadStep == ReadInv /\ [Next]_vars => ReadInv'
<1> SUFFICES ASSUME ReadInv, [Next]_vars PROVE ReadInv'
    OBVIOUS
<1>1. CASE UNCHANGED readVars
    <2>1. UNCHANGED <<state, c, param, unget, token, m_token_queue, m_accept_uuids, comment, depth,
                      text, point, caller, type, readonly, dir, method, m_attributes, m_methods>>
        BY <1>1 DEF readVars, scanVars, fileVars, parseVars
    <2>2. Doomed' <=> Doomed
        BY <2>1 DEF Doomed
    <2>3. Ahead' = Ahead /\ Recorded' = Recorded
        BY <2>1 DEF Ahead, Recorded
    <2>4. ScanInv' <=> ScanInv
        BY <2>1, <2>3 DEF ScanInv, DepthInv, CommentInv, EndInv
    <2>5. \A w : (Holds(w)' <=> Holds(w)) /\ (ParserInv(w)' <=> ParserInv(w))
        BY <2>1, <2>3 DEF Holds, ParserInv
    <2> QED BY <2>1, <2>2, <2>4, <2>5 DEF ReadInv
<1>2. CASE ParseNext
    <2>1. point \notin {"accepted", "refused"}
        BY <1>2 DEF ParseNext
    <2>2. caller' # "accepted"
        BY <1>2 DEF ParseNext, parseVars, handleError, Take, Owner, ReadInv
    <2>3. CASE Doomed
        BY <1>2, <2>2, <2>3, DoomStays DEF ReadInv
    <2>4. ASSUME ScanInv, NEW w, Holds(w), ParserInv(w) PROVE ReadInv'
        <3>1. CASE getNextToken /\ UNCHANGED parseVars
            <4>1. (ScanInv' /\ Holds(w)') \/ Doomed'
                BY <2>1, <2>4, <3>1, ScanKeeps
            <4>2. ParserInv(w)'
                BY <2>4, <3>1 DEF parseVars, ParserInv, Recorded
            <4> QED BY <2>2, <4>1, <4>2 DEF ReadInv
        <3>2. CASE handleError
            BY <2>2, <3>2 DEF handleError, Doomed, ReadInv
        <3>3. ASSUME NEW move \in Moves, Take(move), token # "none", token' = "none",
                     UNCHANGED <<state, c, param, unget, fileVars>>
              PROVE  ReadInv'
            BY <2>2, <2>4, <3>3, TakeKeeps DEF ReadInv
        <3> QED BY <1>2, <3>1, <3>2, <3>3 DEF ParseNext
    <2> QED BY <2>3, <2>4 DEF ReadInv
<1> QED BY <1>1, <1>2 DEF Next, vars, readVars, ReadOptions, redirect, Parse, generate, MainRestores,
                         Destructors

-----------------------------------------------------------------------------
(* What the file says, as IdlMain reads it *)

\* When the file is accepted, all of its text was taken.
LEMMA AllTaken ==
    ASSUME ReadInv, point = "accepted"
    PROVE  /\ ParserInv(text) /\ depth = 0 /\ comment \in {"code", "line"}
           /\ Recorded = m_methods
<1>1. PICK w : ScanInv /\ Holds(w) /\ ParserInv(w)
    BY DEF ReadInv, Doomed
<1>2. text = w
    BY <1>1 DEF Holds, BodyPoints
<1>3. state = "INITIAL" /\ Ahead = "none" /\ unget = "none"
    BY <1>1 DEF ScanInv, EndInv
<1>4. depth = 0
    BY <1>1, <1>3 DEF ScanInv, DepthInv, BodyPoints
<1>5. comment \in {"code", "line"}
    BY <1>1, <1>3 DEF ScanInv, CommentInv
<1>6. Recorded = m_methods
    BY DEF Recorded, Reader, TypePoints, MethodPoints
<1> QED BY <1>1, <1>2, <1>4, <1>5, <1>6

\* The item of a name begins where IdlMain looks for it.
LEMMA ItemStartIs ==
    ASSUME NEW p \in Nat, NEW s, Begin(text, s, p)
    PROVE  ItemStart(p) = s
<1> DEFINE P(r) == /\ r = 1 \/ text[r - 1] = "semicolon"
                   /\ \A q \in r..(p - 1) : text[q] # "semicolon"
<1>1. s \in 1..p /\ P(s)
    BY DEF Begin
<1>2. ASSUME NEW r \in 1..p, P(r) PROVE r = s
    BY <1>2, BeginUnique DEF Begin
<1>3. ItemStart(p) = CHOOSE r \in 1..p : P(r)
    BY DEF ItemStart
<1> HIDE DEF P
<1>4. ItemStart(p) \in 1..p /\ P(ItemStart(p))
    BY <1>1, <1>3
<1> QED BY <1>2, <1>4

\* A whole type is the one that IdlMain finds at its place.
LEMMA TypeFromIs ==
    ASSUME text \in Seq(Countable), NEW h \in Nat \ {0}, NEW t \in Seq(TypeWords), Len(t) > 0,
           Whole(text, h, t)
    PROVE  TypeFrom(h) = t
<1> DEFINE S == {SubSeq(text, h, q) : q \in h..Len(text)}
           P(u) == Elements(u) \subseteq TypeWords /\ text[h + Len(u)] \notin TypeWords
<1>1. Len(text) \in Nat /\ Len(t) \in Nat /\ h + Len(t) <= Len(text)
      /\ (\A i \in 1..Len(t) : text[h + i - 1] = t[i]) /\ text[h + Len(t)] \notin TypeWords
    BY DEF Whole, Run
<1>2. t = SubSeq(text, h, h + Len(t) - 1)
    <2> DEFINE u == SubSeq(text, h, h + Len(t) - 1)
    <2>1. u \in Seq(Countable) /\ Len(u) = Len(t) /\ \A i \in 1..Len(t) : u[i] = text[h + i - 1]
        BY <1>1
    <2>2. \A i \in 1..Len(t) : u[i] = t[i]
        BY <1>1, <2>1
    <2> HIDE DEF u
    <2>3. u = t
        BY <2>1, <2>2
    <2> QED BY <2>3 DEF u
<1>3. t \in S
    <2>1. h + Len(t) - 1 \in h..Len(text)
        BY <1>1
    <2> QED BY <1>2, <2>1, Zenon
<1>4. P(t)
    <2>1. \A i \in 1..Len(t) : t[i] \in TypeWords
        OBVIOUS
    <2>2. Elements(t) \subseteq TypeWords
        BY <2>1, Zenon DEF Elements
    <2> QED BY <1>1, <2>2
<1>5. ASSUME NEW u \in S, P(u) PROVE u = t
    <2>1. PICK q \in h..Len(text) : u = SubSeq(text, h, q)
        OBVIOUS
    <2>2. u \in Seq(Countable) /\ Len(u) \in Nat /\ \A i \in 1..Len(u) : u[i] = text[h + i - 1]
        BY <1>1, <2>1
    <2>3. \A i \in 1..Len(u) : u[i] \in TypeWords
        BY <1>5 DEF Elements
    <2>4. ~(Len(u) > Len(t))
        <3> SUFFICES ASSUME Len(u) > Len(t) PROVE FALSE
            OBVIOUS
        <3>1. Len(t) + 1 \in 1..Len(u) /\ h + (Len(t) + 1) - 1 = h + Len(t)
            BY <1>1, <2>2
        <3>2. u[Len(t) + 1] = text[h + Len(t)]
            BY <2>2, <3>1
        <3> QED BY <1>1, <2>3, <3>1, <3>2
    <2>5. ~(Len(u) < Len(t))
        <3> SUFFICES ASSUME Len(u) < Len(t) PROVE FALSE
            OBVIOUS
        <3>1. Len(u) + 1 \in 1..Len(t) /\ h + (Len(u) + 1) - 1 = h + Len(u)
            BY <1>1, <2>2
        <3>2. text[h + Len(u)] = t[Len(u) + 1] /\ t[Len(u) + 1] \in TypeWords
            BY <1>1, <3>1
        <3> QED BY <1>5, <3>2
    <2>6. Len(u) = Len(t)
        BY <1>1, <2>2, <2>4, <2>5
    <2>7. \A i \in 1..Len(t) : u[i] = t[i]
        BY <1>1, <2>2, <2>6
    <2>8. t \in Seq(Countable)
        <3>1. TypeWords \subseteq Countable
            BY DEF Countable, Words, s_keywords, TypeWords
        <3> QED BY <3>1
    <2> QED BY <2>2, <2>6, <2>7, <2>8
<1>6. TypeFrom(h) = CHOOSE u \in S : P(u)
    BY DEF TypeFrom
<1> HIDE DEF S, P
<1> QED BY <1>3, <1>4, <1>5, <1>6

\* What ParserInv knows of an attribute is what the file says of it.
LEMMA AttributeAtIs ==
    ASSUME text \in Seq(Countable), NEW p \in Pos(text), NEW a, AttrIs(text, p, a)
    PROVE  AttributeAt(p) = a
<1>1. PICK s \in 1..p, h \in 1..p :
        Begin(text, s, p) /\ AttrHead(text, s, h, a.readonly) /\ Whole(text, h, a.type)
    BY DEF AttrIs
<1>2. a \in Attributes /\ a.name = text[p] /\ GoodType(a.type) /\ p \in Nat
    BY DEF AttrIs, Pos
<1>3. ItemStart(p) = s
    BY <1>1, <1>2, ItemStartIs
<1>4. TypeFrom(h) = a.type
    BY <1>1, <1>2, TypeFromIs DEF GoodType
<1>5. a.readonly = (text[s] = "readonly") /\ h = IF text[s] = "readonly" THEN s + 2 ELSE s + 1
    BY <1>1, <1>2 DEF AttrHead, Attributes
<1>6. a = [type |-> a.type, name |-> a.name, readonly |-> a.readonly]
    BY <1>2 DEF Attributes
<1> QED BY <1>2, <1>3, <1>4, <1>5, <1>6 DEF AttributeAt

\* ... and of a parameter.
LEMMA ParamAtIs ==
    ASSUME text \in Seq(Countable), NEW p \in Pos(text), NEW r, ParamIs(text, p, r)
    PROVE  ParamAt(p) = r
<1> DEFINE P(q) == /\ text[q - 1] \in {"(", "comma"} \cup Directions
                   /\ \A i \in q..(p - 1) : text[i] \in TypeWords
<1>1. PICK h \in 2..p :
        ParamHead(text, h, r.dir) /\ Whole(text, h, r.type) /\ p = h + Len(r.type)
    BY DEF ParamIs
<1>2. r \in Parameters /\ r.name = text[p] /\ GoodType(r.type) /\ p \in Nat
    BY DEF ParamIs, Pos
<1>3. P(h)
    <2>1. ASSUME NEW i \in h..(p - 1) PROVE text[i] \in TypeWords
        <3>1. i - h + 1 \in 1..Len(r.type) /\ h + (i - h + 1) - 1 = i
            BY <1>1, <1>2 DEF GoodType
        <3>2. text[i] = r.type[i - h + 1]
            BY <1>1, <3>1 DEF Whole, Run
        <3> QED BY <1>2, <3>1, <3>2 DEF GoodType
    <2> QED BY <1>1, <2>1 DEF ParamHead
<1>4. ASSUME NEW q \in 2..p, P(q) PROVE q = h
    <2>1. \A x \in {"(", "comma"} \cup Directions : x \notin TypeWords
        BY DEF Directions, TypeWords
    <2>2. ~(q < h)
        <3> SUFFICES ASSUME q < h PROVE FALSE
            OBVIOUS
        <3>1. h - 1 \in q..(p - 1)
            BY <1>1
        <3> QED BY <1>3, <1>4, <2>1, <3>1
    <2>3. ~(h < q)
        <3> SUFFICES ASSUME h < q PROVE FALSE
            OBVIOUS
        <3>1. q - 1 \in h..(p - 1)
            BY <1>1
        <3> QED BY <1>3, <1>4, <2>1, <3>1
    <2> QED BY <1>1, <2>2, <2>3
<1> HIDE DEF P
<1>5. (CHOOSE q \in 2..p : P(q)) = h
    BY <1>3, <1>4
<1>6. TypeFrom(h) = r.type
    BY <1>1, <1>2, TypeFromIs DEF GoodType
<1>7. r = [dir |-> r.dir, type |-> r.type, name |-> r.name]
    BY <1>2 DEF Parameters
<1>8. ParamAt(p) = LET q == CHOOSE q \in 2..p : P(q)
                   IN  [dir |-> IF text[q - 1] \in Directions THEN text[q - 1] ELSE "none",
                        type |-> TypeFrom(q), name |-> text[p]]
    BY DEF ParamAt, P
<1>9. ParamAt(p) = [dir |-> IF text[h - 1] \in Directions THEN text[h - 1] ELSE "none",
                    type |-> TypeFrom(h), name |-> text[p]]
    BY <1>5, <1>8
<1> QED BY <1>1, <1>2, <1>6, <1>7, <1>9 DEF ParamHead

\* In the text of an accepted file a name is of an attribute, of a method or of a
\* parameter as IdlMain says.
LEMMA PlacesRead ==
    ASSUME ParserInv(text), point = "accepted", NEW p \in Pos(text)
    PROVE  /\ IsAttribute(p) <=> p \in AttrPos(text)
           /\ IsMethod(p) <=> p \in MethPos(text)
           /\ IsParam(p) <=> p \notin AttrPos(text) \cup MethPos(text)
<1>1. /\ text \in Seq(Countable) /\ NamesInv(text)
      /\ LastToken(text, point, dir)
    BY DEF ParserInv, Place
<1>2. p \in 1..Len(text) /\ text[p] \in Names /\ p < Len(text) /\ p \in Nat
    BY <1>1 DEF LastToken, Pos
<1>3. PICK s \in 1..p : Begin(text, s, p)
    BY <1>1, <1>2 DEF NamesInv
<1>4. ItemStart(p) = s /\ \A r : Begin(text, r, p) => r = s
    BY <1>2, <1>3, ItemStartIs, BeginUnique
<1>5. IsAttribute(p) <=> p \in AttrPos(text)
    BY <1>3, <1>4 DEF IsAttribute, AttrPos
<1>6. p \in MethPos(text) => p \notin AttrPos(text)
    <2> SUFFICES ASSUME p \in MethPos(text), p \in AttrPos(text) PROVE FALSE
        OBVIOUS
    <2>1. text[s] \in {"readonly", "attribute"}
        BY <1>4 DEF AttrPos
    <2>2. \A q \in s..(p - 1) : text[q] \in TypeWords
        BY <1>4 DEF MethPos
    <2>3. s = p \/ text[s] \in TypeWords
        BY <1>2, <2>2
    <2> QED BY <1>2, <2>1, <2>3, NamesApart DEF TypeWords
<1>7. p \notin AttrPos(text) => (p \in MethPos(text) <=> text[p + 1] = "(")
    BY <1>1, <1>2 DEF NamesInv
<1> QED BY <1>5, <1>6, <1>7 DEF IsMethod, IsParam

\* ... and the parameters of a method are those that IdlMain counts.
LEMMA ParamsRead ==
    ASSUME ParserInv(text), NEW k \in Pos(text)
    PROVE  {q \in Positions : q > k /\ ItemStart(q) = ItemStart(k)} = ParamPos(text, k)
<1>1. ASSUME NEW q \in Pos(text), q > k PROVE ItemStart(q) = ItemStart(k) <=> Same(text, k, q)
    <2>1. q \in 1..Len(text) /\ k \in 1..Len(text) /\ NamesInv(text) /\ Len(text) \in Nat
        BY DEF Pos, ParserInv, Place
    <2>2. PICK s \in 1..q : Begin(text, s, q)
        BY <2>1 DEF NamesInv
    <2>3. PICK r \in 1..k : Begin(text, r, k)
        BY <2>1 DEF NamesInv
    <2>4. ItemStart(q) = s /\ ItemStart(k) = r
        BY <2>1, <2>2, <2>3, ItemStartIs
    <2>5. \A i : (Begin(text, i, q) => i = s) /\ (Begin(text, i, k) => i = r)
        BY <2>1, <2>2, <2>3, BeginUnique
    <2> QED BY <2>2, <2>3, <2>4, <2>5 DEF Same
<1>2. Positions = Pos(text)
    BY DEF Positions, Pos
<1> QED BY <1>1, <1>2 DEF ParamPos

\* What is recorded of a file that is accepted is what it declares.
LEMMA ReadIsRecorded == ReadInv => RecordedAsWritten
<1> SUFFICES ASSUME ReadInv, point = "accepted" PROVE RecordedAsWritten
    BY DEF RecordedAsWritten
<1> DEFINE attributes == {p \in Positions : IsAttribute(p)}
           methods == {p \in Positions : IsMethod(p)}
<1>1. ParserInv(text) /\ depth = 0 /\ comment \in {"code", "line"} /\ Recorded = m_methods
    BY AllTaken
<1>2. text \in Seq(Countable) /\ ListsAttrs(text, m_attributes) /\ ListsMeths(text, m_methods)
    BY <1>1 DEF ParserInv, Place
<1>3. Positions = Pos(text)
    BY DEF Positions, Pos
<1>4. attributes = AttrPos(text) /\ methods = MethPos(text)
    <2>1. AttrPos(text) \subseteq Pos(text) /\ MethPos(text) \subseteq Pos(text)
        BY DEF AttrPos, MethPos
    <2>2. \A p \in Pos(text) : /\ IsAttribute(p) <=> p \in AttrPos(text)
                               /\ IsMethod(p) <=> p \in MethPos(text)
        BY <1>1, PlacesRead
    <2> QED BY <1>3, <2>1, <2>2
<1>5. Lists(m_attributes, AttributeAt, {p \in Positions : IsAttribute(p)})
    <2>1. Len(m_attributes) = Cardinality(AttrPos(text))
        BY <1>2 DEF ListsAttrs
    <2>2. ASSUME NEW p \in AttrPos(text)
          PROVE  m_attributes[Cardinality({q \in AttrPos(text) : q <= p})] = AttributeAt(p)
        <3>1. AttrIs(text, p, m_attributes[Rank(AttrPos(text), p)]) /\ p \in Pos(text)
            BY <1>2 DEF ListsAttrs, AttrPos
        <3>2. AttributeAt(p) = m_attributes[Rank(AttrPos(text), p)]
            BY <1>2, <3>1, AttributeAtIs
        <3> QED BY <3>2 DEF Rank
    <2>3. Lists(m_attributes, AttributeAt, AttrPos(text))
        BY <2>1, <2>2 DEF Lists
    <2>4. AttrPos(text) = {p \in Positions : IsAttribute(p)}
        BY <1>4
    <2> QED BY <2>3, <2>4, Zenon
<1>6. ASSUME NEW k \in MethPos(text)
      PROVE  MethodIs(m_methods[Cardinality({q \in MethPos(text) : q <= k})], k)
    <2> DEFINE m == m_methods[Rank(MethPos(text), k)]
    <2>1. MethIs(text, k, m) /\ k \in Pos(text) /\ k \in Nat
        <3>1. MethIs(text, k, m)
            BY <1>2 DEF ListsMeths
        <3>2. k \in Pos(text)
            BY DEF MethPos
        <3>3. k \in Nat
            BY <1>2, <3>2 DEF Pos
        <3> QED BY <3>1, <3>2, <3>3
    <2> HIDE DEF m
    <2>2. PICK s \in 1..k : Begin(text, s, k) /\ Whole(text, s, m.type)
        BY <2>1 DEF MethIs
    <2>3. m.name = text[k] /\ m.type = TypeFrom(ItemStart(k))
        BY <1>2, <2>1, <2>2, ItemStartIs, TypeFromIs DEF MethIs, GoodType
    <2>4. Lists(m.params, ParamAt, ParamPos(text, k))
        <3>1. Len(m.params) = Cardinality(ParamPos(text, k))
            BY <2>1 DEF MethIs, ListsParams
        <3>2. ASSUME NEW p \in ParamPos(text, k)
              PROVE  m.params[Cardinality({q \in ParamPos(text, k) : q <= p})] = ParamAt(p)
            <4>1. ParamIs(text, p, m.params[Rank(ParamPos(text, k), p)]) /\ p \in Pos(text)
                BY <2>1 DEF MethIs, ListsParams, ParamPos
            <4>2. ParamAt(p) = m.params[Rank(ParamPos(text, k), p)]
                BY <1>2, <4>1, ParamAtIs
            <4> QED BY <4>2 DEF Rank
        <3> QED BY <3>1, <3>2 DEF Lists
    <2>5. MethodIs(m, k)
        BY <1>1, <2>1, <2>3, <2>4, ParamsRead DEF MethodIs
    <2> QED BY <2>5 DEF m, Rank
<1>7. Len(m_methods) = Cardinality(methods)
    BY <1>2, <1>4 DEF ListsMeths
<1>8. \A p \in methods : MethodIs(m_methods[Cardinality({q \in methods : q <= p})], p)
    <2> HIDE DEF methods
    <2> QED BY <1>4, <1>6
<1> QED BY <1>1, <1>5, <1>7, <1>8 DEF RecordedAsWritten

\* What the parser has recorded of a file that it accepts is what the file declares, for
\* files of any length and any names (getNextToken, parse and what it calls).
THEOREM RecordsWhatIsWritten == Spec => []RecordedAsWritten
BY ReadStarts, ReadStep, ReadIsRecorded, PTL DEF Spec

-----------------------------------------------------------------------------
(* The standard streams *)

\* A stream that was replaced has what it had in its RedirectHelper, which has
\* nothing of the other ones, nor before redirect() and after the destructor.
HelperInv ==
    /\ (m_cin_streambuf = "NULL" /\ cin = "stdin") \/ m_cin_streambuf = "stdin"
    /\ (m_cout_streambuf = "NULL" /\ cout = "stdout") \/ m_cout_streambuf = "stdout"
    /\ phase \in {"options", "redirect", "done"} =>
        m_cin_streambuf = "NULL" /\ m_cout_streambuf = "NULL"

streams == <<cin, cout, m_cin_streambuf, m_cout_streambuf>>

\* restore() gives both back.
LEMMA RestoreGivesBack ==
    ASSUME HelperInv, restore
    PROVE /\ cin' = "stdin" /\ cout' = "stdout"
          /\ m_cin_streambuf' = "NULL" /\ m_cout_streambuf' = "NULL"
BY DEF HelperInv, restore

\* The other steps after the options leave the streams alone.
LEMMA HelperKept ==
    ASSUME HelperInv, UNCHANGED streams,
           phase' \in {"options", "redirect", "done"} => phase \in {"options", "redirect", "done"}
    PROVE HelperInv'
BY DEF HelperInv, streams

\* Every step keeps HelperInv.
LEMMA HelperStep == HelperInv /\ [Next]_vars => HelperInv'
<1> SUFFICES ASSUME HelperInv, [Next]_vars PROVE HelperInv'
    OBVIOUS
<1>1. CASE ReadOptions
  <2>1. phase = "options" /\ UNCHANGED streams
      BY <1>1 DEF ReadOptions, streams
  <2> QED BY <2>1, HelperKept
<1>2. ASSUME NEW inputOpens \in BOOLEAN, NEW outputOpens \in BOOLEAN,
             redirect(inputOpens, outputOpens)
      PROVE HelperInv'
  <2>1. /\ cin = "stdin" /\ cout = "stdout"
        /\ m_cin_streambuf = "NULL" /\ m_cout_streambuf = "NULL"
      BY <1>2 DEF redirect, HelperInv
  <2>2. phase' \in {"parse", "return"}
      BY <1>2, Zenon DEF redirect, Return
  <2>3. (cin' = cin /\ m_cin_streambuf' = m_cin_streambuf) \/ m_cin_streambuf' = cin
      BY <1>2, Zenon DEF redirect
  <2>4. (cout' = cout /\ m_cout_streambuf' = m_cout_streambuf) \/ m_cout_streambuf' = cout
      BY <1>2, Zenon DEF redirect
  <2> QED BY <2>1, <2>2, <2>3, <2>4 DEF HelperInv
<1>3. CASE Parse
  <2>1. UNCHANGED streams
      BY <1>3 DEF Parse, streams
  <2>2. phase = "parse" /\ phase' \in {"generate", "return", "parse"}
    <3>1. phase = "parse" /\ (\/ phase' = "generate" \/ Return(1) \/ UNCHANGED <<phase, exit>>)
        BY <1>3, Zenon DEF Parse
    <3> QED BY <3>1 DEF Return
  <2> QED BY <2>1, <2>2, HelperKept
<1>4. CASE generate
  <2>1. phase' = "restore" /\ UNCHANGED streams
      BY <1>4 DEF generate, streams
  <2> QED BY <2>1, HelperKept
<1>5. CASE MainRestores \/ Destructors
  <2>1. restore
      BY <1>5 DEF MainRestores, Destructors
  <2> QED BY <2>1, RestoreGivesBack DEF HelperInv
<1>6. CASE UNCHANGED vars
  <2>1. phase' = phase /\ UNCHANGED streams
      BY <1>6 DEF vars, mainVars, streams
  <2> QED BY <2>1, HelperKept
<1> QED BY <1>1, <1>2, <1>3, <1>4, <1>5, <1>6 DEF Next

\* The standard streams have their own buffers again when the helper's are gone,
\* for every text and every way out of main (main.cpp: redirect, restore).
THEOREM StreamsAlwaysRestored == Spec => []StreamsRestored
<1>1. Init => HelperInv
    BY DEF Init, HelperInv
<1>2. HelperInv => StreamsRestored
    BY DEF HelperInv, StreamsRestored
<1> QED BY <1>1, <1>2, HelperStep, PTL DEF Spec
-----------------------------------------------------------------------------
(* The page *)

\* A rank is a place in the list.
LEMMA RankInList ==
    ASSUME NEW n \in Nat, NEW S \in SUBSET (1..n), NEW p \in S
    PROVE  Rank(S, p) \in 1..Cardinality(S)
<1>1. IsFiniteSet(S) /\ Cardinality(S) \in Nat
    BY PlacesFinite
<1> DEFINE T == {q \in S : q <= p}
<1>2. T \subseteq S /\ p \in T
    OBVIOUS
<1>3. IsFiniteSet(T) /\ Cardinality(T) \in Nat /\ Cardinality(T) <= Cardinality(S)
    <2> HIDE DEF T
    <2> QED BY <1>1, <1>2, FS_Subset, FS_CardinalityType
<1>4. Cardinality(T) # 0
    <2> HIDE DEF T
    <2> QED BY <1>2, <1>3, FS_EmptySet
<1>5. Rank(S, p) = Cardinality(T)
    BY DEF Rank
<1> HIDE DEF T
<1> QED BY <1>1, <1>3, <1>4, <1>5

\* So what is listed for a place is in the list: an attribute,
LEMMA ListedAttr ==
    ASSUME text \in Seq(Countable), NEW list, ListsAttrs(text, list), NEW p \in AttrPos(text)
    PROVE  \E a \in Elements(list) : AttrIs(text, p, a)
<1>1. AttrPos(text) \in SUBSET (1..Len(text)) /\ Len(text) \in Nat
    BY DEF AttrPos, Pos
<1>2. Rank(AttrPos(text), p) \in 1..Len(list)
    BY <1>1, RankInList DEF ListsAttrs
<1> QED BY <1>2 DEF ListsAttrs, Elements

\* ... a method,
LEMMA ListedMeth ==
    ASSUME text \in Seq(Countable), NEW list, ListsMeths(text, list), NEW k \in MethPos(text)
    PROVE  \E m \in Elements(list) : MethIs(text, k, m)
<1>1. MethPos(text) \in SUBSET (1..Len(text)) /\ Len(text) \in Nat
    BY DEF MethPos, Pos
<1>2. Rank(MethPos(text), k) \in 1..Len(list)
    BY <1>1, RankInList DEF ListsMeths
<1> QED BY <1>2 DEF ListsMeths, Elements

\* ... and a parameter of one.
LEMMA ListedParam ==
    ASSUME text \in Seq(Countable), NEW k, NEW list, ListsParams(text, k, list),
           NEW p \in ParamPos(text, k)
    PROVE  \E r \in Elements(list) : ParamIs(text, p, r)
<1>1. ParamPos(text, k) \in SUBSET (1..Len(text)) /\ Len(text) \in Nat
    BY DEF ParamPos, Pos
<1>2. Rank(ParamPos(text, k), p) \in 1..Len(list)
    BY <1>1, RankInList DEF ListsParams
<1> QED BY <1>2 DEF ListsParams, Elements

\* Every rank is that of a place.
LEMMA RankOnto ==
    ASSUME NEW n \in Nat, NEW S \in SUBSET (1..n), NEW i \in 1..Cardinality(S)
    PROVE  \E p \in S : Rank(S, p) = i
<1> DEFINE T == 1..Cardinality(S)
           f == [p \in S |-> Rank(S, p)]
<1>1. IsFiniteSet(S) /\ Cardinality(S) \in Nat
    BY PlacesFinite
<1>2. IsFiniteSet(T) /\ Cardinality(T) = Cardinality(S)
    BY <1>1, FS_Interval
<1>3. ASSUME NEW p \in S, NEW q \in S, p < q PROVE Rank(S, p) # Rank(S, q)
  <2> DEFINE P == {r \in S : r <= p}
             Q == {r \in S : r <= q}
  <2>1. P \subseteq Q /\ q \in Q /\ q \notin P /\ Q \subseteq S
    <3>1. p \in Nat /\ q \in Nat /\ \A r \in S : r \in Nat
        OBVIOUS
    <3>2. \A r \in S : r <= p => r <= q
        BY <1>3, <3>1
    <3>3. q <= q /\ ~(q <= p)
        BY <1>3, <3>1
    <3> QED BY <3>2, <3>3
  <2>2. Rank(S, p) = Cardinality(P) /\ Rank(S, q) = Cardinality(Q)
      BY DEF Rank
  <2> HIDE DEF P, Q
  <2>3. IsFiniteSet(Q)
      BY <1>1, <2>1, FS_Subset
  <2>4. Cardinality(Q) = Cardinality(P) => Q = P
      BY <2>1, <2>3, FS_Subset
  <2> QED BY <2>1, <2>2, <2>4
<1>4. \A p, q \in S : p # q => Rank(S, p) # Rank(S, q)
  <2>1. \A p, q \in S : p < q \/ q < p \/ p = q
      OBVIOUS
  <2> QED BY <1>3, <2>1, Zenon
<1>5. \A p \in S : Rank(S, p) \in T
    BY RankInList
<1> HIDE DEF T
<1>6. f \in Injection(S, T)
    BY <1>4, <1>5 DEF Injection, IsInjective
<1> HIDE DEF f
<1>7. f \in Surjection(S, T)
    BY <1>2, <1>6, FS_Injection
<1>8. PICK p \in S : f[p] = i
    BY <1>7 DEF Surjection, T
<1> QED BY <1>8 DEF f

\* So what is listed as an attribute is one of the text.
LEMMA AttrOfList ==
    ASSUME text \in Seq(Countable), NEW list, ListsAttrs(text, list), NEW a \in Elements(list)
    PROVE  \E q \in AttrPos(text) : AttrIs(text, q, a)
<1>1. AttrPos(text) \in SUBSET (1..Len(text)) /\ Len(text) \in Nat
    BY DEF AttrPos, Pos
<1>2. PICK i \in 1..Len(list) : a = list[i]
    BY DEF Elements
<1>3. i \in 1..Cardinality(AttrPos(text))
    BY <1>2 DEF ListsAttrs
<1>4. PICK q \in AttrPos(text) : Rank(AttrPos(text), q) = i
    BY <1>1, <1>3, RankOnto
<1> QED BY <1>2, <1>4 DEF ListsAttrs

\* The id of the checkbox of a row tells whose row it is, and is not that of the control.
LEMMA ToggledTells ==
    ASSUME NEW s \in Seq(Parts), NEW t \in Seq(Parts)
    PROVE  (Toggled(s) = Toggled(t) => s = t) /\ Toggled(s) # s
<1> DEFINE T == Parts \cup {"Toggled"}
<1>1. s \in Seq(T) /\ t \in Seq(T) /\ Len(s) \in Nat /\ Len(t) \in Nat
    BY SeqMonotonic
<1>2. /\ Toggled(s) \in Seq(T) /\ Len(Toggled(s)) = Len(s) + 1
      /\ \A i \in 1..Len(s) : Toggled(s)[i] = s[i]
      /\ Toggled(t) \in Seq(T) /\ Len(Toggled(t)) = Len(t) + 1
      /\ \A i \in 1..Len(t) : Toggled(t)[i] = t[i]
    BY <1>1, AppendProperties DEF Toggled
<1> HIDE DEF T
<1>3. Toggled(s) # s
    BY <1>1, <1>2
<1>4. ASSUME Toggled(s) = Toggled(t) PROVE s = t
  <2>1. Len(s) = Len(t)
      BY <1>1, <1>2, <1>4
  <2>2. \A i \in 1..Len(s) : s[i] = t[i]
      BY <1>2, <1>4, <2>1
  <2> QED BY <1>1, <2>1, <2>2, SeqEqual
<1> QED BY <1>3, <1>4

\* What getElementById() may answer for the ids of an attribute's row is in that row, if
\* no other attribute takes them.
LEMMA AnswersFit ==
    ASSUME text \in Seq(Countable), ListsAttrs(text, m_attributes),
           page.attributes = UNION {AttributeRow(b) : b \in Elements(m_attributes)},
           \A q \in AttrPos(text) : q \in Positions /\ IsAttribute(q),
           NEW p \in AttrPos(text), HasOwnIds(p),
           NEW a \in Elements(m_attributes), AttrIs(text, p, a),
           NEW id, id \in {Spelling[text[p]], Toggled(Spelling[text[p]])}
    PROVE  /\ AttributeRow(a) \subseteq page.attributes
           /\ \A k \in Answers(id) : k \in AttributeRow(a)
<1>1. AttributeRow(a) \subseteq page.attributes
  <2>1. AttributeRow(a) \in {AttributeRow(b) : b \in Elements(m_attributes)}
      OBVIOUS
  <2> DEFINE U == {AttributeRow(b) : b \in Elements(m_attributes)}
  <2>2. AttributeRow(a) \in U /\ page.attributes = UNION U
      BY <2>1
  <2> HIDE DEF U
  <2> QED BY <2>2
<1>2. ASSUME NEW k \in Answers(id) PROVE k \in AttributeRow(a)
  <2>1. k \in page.attributes /\ k.id = id
      BY DEF Answers
  <2>2. PICK b \in Elements(m_attributes) : k \in AttributeRow(b)
      BY <2>1, Zenon
  <2>3. PICK q \in AttrPos(text) : AttrIs(text, q, b)
      BY AttrOfList
  <2>4. p \in Pos(text) /\ q \in Pos(text) /\ text[p] \in Names /\ text[q] \in Names
      BY DEF AttrPos, Pos
  <2>5. Spelling[text[p]] \in Seq(Parts) /\ Spelling[text[q]] \in Seq(Parts)
      BY <2>4, SpellingAssumption
  <2>6. k.id = Spelling[text[q]] \/ k.id = Toggled(Spelling[text[q]])
      BY <2>2, <2>3 DEF AttributeRow, Row, AttrIs
  <2>7. CASE q # p
    <3>1. /\ text[q] # text[p]
          /\ Toggled(Spelling[text[q]]) # Spelling[text[p]]
          /\ Spelling[text[q]] # Toggled(Spelling[text[p]])
        BY <2>7 DEF HasOwnIds
    <3>2. Spelling[text[q]] # Spelling[text[p]]
        BY <2>4, <3>1, SpellingAssumption
    <3>3. Toggled(Spelling[text[q]]) # Toggled(Spelling[text[p]])
        BY <2>5, <3>2, ToggledTells
    <3> QED BY <2>1, <2>6, <3>1, <3>2, <3>3
  <2>8. CASE q = p
    <3>1. AttributeAt(p) = a /\ AttributeAt(p) = b
        BY <2>3, <2>4, <2>8, AttributeAtIs
    <3> QED BY <2>2, <3>1
  <2> QED BY <2>7, <2>8
<1> QED BY <1>1, <1>2

\* So the script finds what it reads.
LEMMA ScriptAlwaysFinds ==
    ASSUME text \in Seq(Countable), ListsAttrs(text, m_attributes),
           page.attributes = UNION {AttributeRow(b) : b \in Elements(m_attributes)},
           \A q \in AttrPos(text) : q \in Positions /\ IsAttribute(q),
           NEW p \in AttrPos(text), HasOwnIds(p),
           NEW a \in Elements(m_attributes), AttrIs(text, p, a)
    PROVE  ScriptFinds(p, Assignment(a))
<1> DEFINE id == Spelling[text[p]]
           kind == IF text[p] \in TrustStores THEN "textarea" ELSE Kind(a.type)
           box == [id |-> Toggled(id), kind |-> "checkbox"]
           control == [id |-> id, kind |-> kind]
<1>1. p \in Pos(text) /\ text[p] \in Names /\ a.name = text[p] /\ AttributeAt(p) = a
    BY AttributeAtIs DEF AttrPos, Pos, AttrIs
<1>2. AttributeRow(a) = {box, control}
    BY <1>1 DEF AttributeRow, Row
<1>3. Toggled(id) # id
    BY <1>1, SpellingAssumption, ToggledTells
<1>4. /\ AttributeRow(a) \subseteq page.attributes
      /\ \A k \in Answers(id) : k \in AttributeRow(a)
      /\ \A k \in Answers(Toggled(id)) : k \in AttributeRow(a)
    BY AnswersFit
<1>5. box.id = Toggled(id) /\ box.kind = "checkbox" /\ control.id = id /\ control.kind = kind
    OBVIOUS
<1> HIDE DEF id, kind, box, control
<1>6. /\ \A k \in Answers(id) : k.id = id
      /\ \A k \in Answers(Toggled(id)) : k.id = Toggled(id)
      /\ box \in Answers(Toggled(id)) /\ control \in Answers(id)
    BY <1>2, <1>4, <1>5 DEF Answers
<1>7. \A k \in Answers(Toggled(id)) : k = box
    BY <1>2, <1>3, <1>4, <1>5, <1>6
<1>8. \A k \in Answers(id) : k = control
    BY <1>2, <1>3, <1>4, <1>5, <1>6
<1>9. AreOf({"checkbox"}, Answers(Toggled(id)))
    BY <1>5, <1>6, <1>7 DEF AreOf
<1>10. ASSUME a.type # <<"boolean">> \/ text[p] \notin TrustStores
       PROVE  kind \in IF Assignment(a).reads = "checked" THEN {"checkbox"} ELSE {"text", "textarea"}
    BY <1>10 DEF Assignment, IsBoolean, Kind, kind
<1>11. a.type # <<"boolean">> \/ text[p] \notin TrustStores =>
          AreOf(IF Assignment(a).reads = "checked" THEN {"checkbox"} ELSE {"text", "textarea"},
                Answers(id))
    BY <1>5, <1>6, <1>8, <1>10 DEF AreOf
<1> QED BY <1>1, <1>9, <1>11 DEF ScriptFinds, id

Target == IF o.output THEN "m_ofb" ELSE "stdout"

\* The page, once there is one, is of what was recorded when the file was accepted.
AttributeRows == UNION {AttributeRow(a) : a \in Elements(m_attributes)}
ParameterRows == UNION {UNION {ParameterRow(m, p) : p \in Elements(m.params)} :
                            m \in Elements(m_methods)}
Written(to) == [to |-> to,
                assigns |-> {Assignment(a) : a \in Elements(m_attributes)},
                attributes |-> AttributeRows,
                parameters |-> ParameterRows,
                buttons |-> {m.name : m \in Elements(m_methods)}]

PageInv ==
    /\ o \in Options
    /\ page = NoPage \/ (point = "accepted" /\ page = Written(Target))
    /\ phase \in {"generate", "restore"} => point = "accepted"
    /\ phase \in {"options", "redirect", "parse", "generate"} => page = NoPage
    /\ phase = "restore" => page # NoPage
    /\ phase \in {"redirect", "parse", "generate", "restore"} => ~o.help
    /\ phase \in {"parse", "generate"} => cout = Target
    /\ phase \in {"return", "done"} => (page # NoPage <=> exit = 0 /\ ~o.help)

\* Every step keeps PageInv.
LEMMA PageStep == HelperInv /\ PageInv /\ [Next]_vars => PageInv'
<1> SUFFICES ASSUME HelperInv, PageInv, [Next]_vars PROVE PageInv'
    OBVIOUS
<1>1. CASE ReadOptions
  <2>1. o' = o /\ page' = page /\ point' = point /\ page = NoPage
      BY <1>1 DEF ReadOptions, parseVars, PageInv
  <2>2. \/ phase' = "return" /\ exit' = 1
        \/ phase' = "return" /\ exit' = 0 /\ o.help
        \/ phase' = "redirect" /\ ~o.help
      BY <1>1 DEF ReadOptions, Return, PageInv, Options
  <2> QED BY <2>1, <2>2 DEF PageInv
<1>2. ASSUME NEW inputOpens \in BOOLEAN, NEW outputOpens \in BOOLEAN,
             redirect(inputOpens, outputOpens)
      PROVE PageInv'
  <2>1. o' = o /\ page' = page /\ point' = point /\ page = NoPage /\ ~o.help
      BY <1>2 DEF redirect, parseVars, PageInv
  <2>2. \/ phase' = "return" /\ exit' = 1
        \/ phase' = "parse" /\ cout' = Target
    <3>1. cout = "stdout"
        BY <1>2 DEF redirect, HelperInv
    <3>2. CASE (o.input => inputOpens) /\ (o.output => outputOpens)
        <4>1. cout' = Target
            BY <1>2, <3>1, <3>2, Zenon DEF redirect, Target
        <4>2. phase' = "parse"
            BY <1>2, <3>2, Zenon DEF redirect
        <4> QED BY <4>1, <4>2
    <3>3. CASE ~((o.input => inputOpens) /\ (o.output => outputOpens))
        BY <1>2, <3>3, Zenon DEF redirect, Return
    <3> QED BY <3>2, <3>3
  <2> QED BY <2>1, <2>2 DEF PageInv, Target
<1>3. CASE Parse
  <2>1. o' = o /\ page' = page /\ page = NoPage /\ cout' = cout /\ cout = Target /\ ~o.help
      BY <1>3 DEF Parse, PageInv
  <2>2. \/ phase' = "generate" /\ point' = "accepted"
        \/ phase' = "return" /\ exit' = 1
        \/ phase' = "parse"
    <3>1. phase = "parse"
        BY <1>3 DEF Parse
    <3>2. CASE point' = "accepted"
        BY <1>3, <3>2 DEF Parse
    <3>3. CASE point' = "refused"
        BY <1>3, <3>3 DEF Parse, Return
    <3>4. CASE point' \notin {"accepted", "refused"}
        BY <1>3, <3>1, <3>4 DEF Parse
    <3> QED BY <3>2, <3>3, <3>4
  <2> QED BY <2>1, <2>2 DEF PageInv, Target
<1>4. CASE generate
  <2>1. /\ o' = o /\ point' = point /\ point = "accepted" /\ phase' = "restore" /\ ~o.help
        /\ cout = Target /\ page' = Written(cout)
      BY <1>4 DEF generate, parseVars, PageInv, Written, AttributeRows, ParameterRows
  <2>2. page' = Written(Target)' /\ page' = Written(Target)
    <3>1. Target' = Target
        BY <2>1 DEF Target
    <3>2. Written(Target)' = Written(Target)
        <4>1. UNCHANGED parseVars
            BY <1>4 DEF generate
        <4>2. m_attributes' = m_attributes /\ m_methods' = m_methods
            BY <4>1 DEF parseVars
        <4> QED BY <3>1, <4>2 DEF Written, AttributeRows, ParameterRows
    <3> QED BY <2>1, <3>2
  <2>3. page' # NoPage
    <3>1. page'.to \in {"m_ofb", "stdout"}
        BY <2>2 DEF Written, Target
    <3> QED BY <3>1 DEF NoPage
  <2> QED BY <2>1, <2>2, <2>3 DEF PageInv
<1>5. CASE MainRestores \/ Destructors
  <2>1. /\ o' = o /\ page' = page /\ UNCHANGED parseVars /\ point' = point
        /\ phase' \in {"return", "done"} /\ (page # NoPage <=> exit' = 0 /\ ~o.help)
      BY <1>5 DEF MainRestores, Destructors, Return, parseVars, PageInv
  <2>2. Written(Target)' = Written(Target)
      BY <2>1 DEF parseVars, Written, AttributeRows, ParameterRows, Target
  <2> QED BY <2>1, <2>2 DEF PageInv
<1>6. CASE UNCHANGED vars
  <2>1. UNCHANGED mainVars /\ UNCHANGED parseVars
      BY <1>6 DEF vars
  <2>2. UNCHANGED <<phase, o, cout, page, exit, point, m_attributes, m_methods>>
      BY <2>1 DEF mainVars, parseVars
  <2>3. Written(Target)' = Written(Target) /\ Target' = Target
      BY <2>2 DEF Written, AttributeRows, ParameterRows, Target
  <2> QED BY <2>2, <2>3 DEF PageInv
<1> QED BY <1>1, <1>2, <1>3, <1>4, <1>5, <1>6 DEF Next

\* What PageServesFile says of an attribute and of a parameter.
AttributeServed(p) ==
    \E a \in page.assigns :
        /\ a.name = text[p] /\ a.cast = CastAt(p)
        /\ HasOwnIds(p) => ScriptFinds(p, a)
ParameterServed(p) ==
    \E q \in Positions :
        /\ IsMethod(q) /\ ItemStart(q) = ItemStart(p)
        /\ Row(Spelling[text[q]] \o Spelling[text[p]], Kind(ParamAt(p).type)) \subseteq page.parameters

\* The last word of a type asks for the number that the first one says.
LEMMA CastIs ==
    ASSUME NEW p, GoodType(AttributeAt(p).type)
    PROVE  Cast(AttributeAt(p).type) = CastAt(p)
BY DEF Cast, CastAt, GoodType

\* A page that was written serves the text of its file.
LEMMA PageServes == HelperInv /\ PageInv /\ ReadInv => PageServesFile
<1> SUFFICES ASSUME PageInv, ReadInv, phase = "done" PROVE PageServesFile
    BY DEF PageServesFile
<1>1. page # NoPage <=> exit = 0 /\ ~o.help
    BY DEF PageInv
<1>2. ASSUME page # NoPage
      PROVE  /\ page.to = IF o.output THEN "m_ofb" ELSE "stdout"
             /\ \A p \in Positions :
                    CASE IsAttribute(p) -> AttributeServed(p)
                      [] IsMethod(p) -> text[p] \in page.buttons
                      [] IsParam(p) -> ParameterServed(p)
  <2>1. point = "accepted" /\ page = Written(Target)
      BY <1>2 DEF PageInv
  <2>2. /\ page.to = Target /\ page.assigns = {Assignment(a) : a \in Elements(m_attributes)}
        /\ page.attributes = AttributeRows /\ page.parameters = ParameterRows
        /\ page.buttons = {m.name : m \in Elements(m_methods)}
      BY <2>1 DEF Written
  <2>3. ParserInv(text) /\ Recorded = m_methods
      BY <2>1, AllTaken
  <2>4. /\ text \in Seq(Countable) /\ ListsAttrs(text, m_attributes)
        /\ ListsMeths(text, m_methods) /\ NamesInv(text)
      BY <2>3 DEF ParserInv, Place
  <2>5. Positions = Pos(text)
      BY DEF Positions, Pos
  <2>6. ASSUME NEW p \in Positions
        PROVE  /\ IsAttribute(p) <=> p \in AttrPos(text)
               /\ IsMethod(p) <=> p \in MethPos(text)
               /\ IsParam(p) <=> p \notin AttrPos(text) \cup MethPos(text)
      BY <2>1, <2>3, <2>5, PlacesRead
  <2>7. ASSUME NEW p \in AttrPos(text) PROVE AttributeServed(p)
    <3>1. PICK a \in Elements(m_attributes) : AttrIs(text, p, a)
        BY <2>4, ListedAttr
    <3>2. AttributeAt(p) = a /\ a.name = text[p] /\ GoodType(a.type)
        BY <2>4, <3>1, AttributeAtIs DEF AttrIs, AttrPos
    <3>3. Assignment(a) \in page.assigns
        BY <2>2, <3>1
    <3>4. Assignment(a).name = text[p] /\ Assignment(a).cast = CastAt(p)
        BY <3>2, CastIs DEF Assignment
    <3>5. \A q \in AttrPos(text) : q \in Positions /\ IsAttribute(q)
        BY <2>5, <2>6 DEF AttrPos
    <3>6. HasOwnIds(p) => ScriptFinds(p, Assignment(a))
        BY <2>2, <2>4, <3>1, <3>5, ScriptAlwaysFinds DEF AttributeRows
    <3> QED BY <3>3, <3>4, <3>6 DEF AttributeServed
  <2>8. ASSUME NEW k \in MethPos(text)
        PROVE  \E m \in Elements(m_methods) : MethIs(text, k, m)
      BY <2>4, ListedMeth
  <2>9. ASSUME NEW k \in MethPos(text) PROVE text[k] \in page.buttons
      BY <2>2, <2>8 DEF MethIs
  <2>10. ASSUME NEW p \in Pos(text), p \notin AttrPos(text) \cup MethPos(text)
         PROVE  ParameterServed(p)
    <3>1. PICK k \in MethPos(text) : k <= p /\ Same(text, k, p)
        BY <2>4, <2>10 DEF NamesInv
    <3>2. k \in Pos(text) /\ p \in 1..Len(text) /\ k \in 1..Len(text) /\ Len(text) \in Nat /\ p # k
        BY <2>4, <2>10 DEF MethPos, Pos
    <3>3. p \in ParamPos(text, k)
        BY <3>1, <3>2 DEF ParamPos
    <3>4. ItemStart(k) = ItemStart(p)
      <4>1. PICK s \in 1..k : Begin(text, s, k) /\ Begin(text, s, p)
          BY <3>1 DEF Same
      <4> QED BY <3>2, <4>1, ItemStartIs
    <3>5. PICK m \in Elements(m_methods) : MethIs(text, k, m)
        BY <2>8
    <3>6. PICK r \in Elements(m.params) : ParamIs(text, p, r)
        BY <2>4, <3>3, <3>5, ListedParam DEF MethIs
    <3>7. m.name = text[k] /\ r.name = text[p] /\ ParamAt(p) = r
        BY <2>4, <3>5, <3>6, ParamAtIs DEF MethIs, ParamIs
    <3>8. ParameterRow(m, r) \subseteq ParameterRows
      <4> DEFINE S == {ParameterRow(m, p1) : p1 \in Elements(m.params)}
                 U == {UNION {ParameterRow(m1, p1) : p1 \in Elements(m1.params)} :
                            m1 \in Elements(m_methods)}
      <4>1. ParameterRow(m, r) \in S
          BY <3>6
      <4>2. UNION S \in U
          BY <3>5
      <4>3. ParameterRows = UNION U
          BY DEF ParameterRows
      <4> HIDE DEF S, U
      <4> QED BY <4>1, <4>2, <4>3
    <3>9. ParameterRow(m, r) = Row(Spelling[text[k]] \o Spelling[text[p]], Kind(ParamAt(p).type))
        BY <3>7 DEF ParameterRow
    <3>10. k \in Positions /\ IsMethod(k)
        BY <2>5, <2>6, <3>2
    <3> QED BY <2>2, <3>4, <3>8, <3>9, <3>10, Zenon DEF ParameterServed
  <2>11. ASSUME NEW p \in Positions
         PROVE  CASE IsAttribute(p) -> AttributeServed(p)
                  [] IsMethod(p) -> text[p] \in page.buttons
                  [] IsParam(p) -> ParameterServed(p)
    <3>1. IsAttribute(p) => ~IsMethod(p) /\ ~IsParam(p)
        BY DEF IsMethod, IsParam
    <3>2. CASE IsAttribute(p)
        BY <2>6, <2>7, <3>1, <3>2
    <3>3. CASE ~IsAttribute(p) /\ IsMethod(p)
        BY <2>6, <2>9, <3>3 DEF IsParam
    <3>4. CASE ~IsAttribute(p) /\ ~IsMethod(p)
        BY <2>5, <2>6, <2>10, <3>4
    <3> QED BY <3>2, <3>3, <3>4
  <2> QED BY <2>2, <2>11 DEF Target
<1> QED BY <1>1, <1>2 DEF PageServesFile, AttributeServed, ParameterServed

\* Whatever the file declares and the command line asks, a page is written when main
\* returns 0 and it is one that serves all of the file (generate, main).
THEOREM PageAlwaysServesFile == Spec => []PageServesFile
<1>1. Init => PageInv /\ HelperInv
    BY InvocationsAssumption DEF Init, PageInv, HelperInv
<1> QED BY <1>1, HelperStep, PageStep, ReadStarts, ReadStep, PageServes, PTL DEF Spec

=============================================================================

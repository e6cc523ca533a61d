-------------------------- MODULE ScriptValuesProofs --------------------------
(***************************************************************************)
(* What becomes of a script's value on its way to a port, for any numbers. *)
(***************************************************************************)
EXTENDS ScriptValues, TLAPS

\* What a string property is set to is a text.
LEMMA ConvertedIsText ==
    ASSUME NEW value \in Values PROVE Converted(value) \subseteq Texts
<1> USE NumbersAssumption
<1>1. CASE value.type = "string"
  <2>1. value.text \in Texts
      BY <1>1 DEF Values, Text, Boolean, Int32, Double, Texts, Number, Empty, Other
  <2> QED BY <1>1, <2>1 DEF Converted
<1>2. CASE value.type = "boolean"
    BY <1>2 DEF Converted, Texts
<1>3. CASE value.type \in {"int32", "double"}
  <2>1. value.text.n \in Int
      BY <1>3 DEF Values, Text, Boolean, Int32, Double, Number
  <2>2. Converted(value) = {Number(n) : n \in InVal(value)}
      BY <1>3 DEF Converted
  <2> DEFINE n == value.text.n
             whole == IF n < 0 THEN -((-n) \div 2) ELSE n \div 2
  <2>3. n % Width \in Int
      BY <2>1 DEF Width
  <2>4. whole \in Int
      BY <2>1
  <2>5. whole % Width \in Int
      BY <2>4 DEF Width
  <2>6. InVal(value) \in {{n % Width}, {whole}, {whole % Width, 0}}
      BY Zenon DEF InVal
  <2> HIDE DEF n, whole
  <2>7. InVal(value) \subseteq Int
      BY <2>3, <2>4, <2>5, <2>6
  <2> QED BY <2>2, <2>7 DEF Texts, Number
<1> QED BY <1>1, <1>2, <1>3 DEF Values, Text, Boolean, Int32, Double

\* What is sent as a port fits in one.
LEMMA SendPortFits == \A x : SendPort(x) \in 0 .. Width - 1
<1> SUFFICES ASSUME NEW x PROVE SendPort(x) \in 0 .. Width - 1
    OBVIOUS
<1>1. portToInt(x) = -1 \/ portToInt(x) \in 0 .. Width - 1
    BY DEF portToInt
<1>2. 0 \in 0 .. Width - 1
    BY DEF Width
<1> QED BY <1>1, <1>2 DEF SendPort

\* A number is kept as an integer, and as itself when it is one that fits.
LEMMA NumberKept ==
    ASSUME NEW value, value.type \in {"int32", "double"}, value.text.form = "number",
           value.text.n \in Int, NEW n \in InVal(value)
    PROVE n \in Int /\ (PortAsked(value) = -1 \/ n = PortAsked(value))
<1> DEFINE m == value.text.n
           whole == IF m < 0 THEN -((-m) \div 2) ELSE m \div 2
<1>1. whole \in Int /\ m \in Int
    OBVIOUS
<1>2. CASE value.type = "int32"
  <2>1. n = m % Width
      BY <1>2 DEF InVal
  <2>2. PortAsked(value) = IF m \in 0 .. Width - 1 THEN m ELSE -1
      BY <1>2 DEF PortAsked
  <2> HIDE DEF m
  <2>3. ASSUME m \in 0 .. Width - 1 PROVE m % Width = m
    <3>1. 0 <= m /\ m < 65536
        BY <1>1, <2>3 DEF Width
    <3>2. m % 65536 = m
        BY <1>1, <3>1
    <3> QED BY <3>2 DEF Width
  <2>4. m % Width \in Int
      BY <1>1 DEF Width
  <2> QED BY <2>1, <2>2, <2>3, <2>4
<1>3. CASE value.type = "double"
  <2>1. n \in IF whole \in 0 .. Width - 1 THEN {whole} ELSE {whole % Width, 0}
      BY <1>3 DEF InVal
  <2>2. PortAsked(value) = IF m % 2 = 0 /\ m \div 2 \in 0 .. Width - 1 THEN m \div 2 ELSE -1
      BY <1>3 DEF PortAsked
  <2>3. m \div 2 \in 0 .. Width - 1 => whole = m \div 2
    <3> HIDE DEF m
    <3> QED BY <1>1 DEF Width
  <2> HIDE DEF m, whole
  <2>4. n \in Int
      BY <1>1, <2>1 DEF Width
  <2> QED BY <1>1, <2>1, <2>2, <2>3, <2>4
<1> QED BY <1>2, <1>3

\* A property that holds x, when the page gave it value, gives connect() the port
\* that the page asked for; a text that is none gives it no port.
GivesPort(value, x) ==
    LET p == PortAsked(value)
    IN IF p = -1 THEN IsNumber(value) \/ SendPort(x) = 0 ELSE SendPort(x) = p

\* What is sent is what is read, unless no port is.
LEMMA SentIsRead ==
    \A x : IF portToInt(x) = -1 THEN SendPort(x) = 0 ELSE SendPort(x) = portToInt(x)
<1> SUFFICES ASSUME NEW x
             PROVE  IF portToInt(x) = -1 THEN SendPort(x) = 0 ELSE SendPort(x) = portToInt(x)
    OBVIOUS
<1>1. CASE portToInt(x) = -1
    BY <1>1 DEF SendPort
<1>2. CASE x.form = "number" /\ x.n \in 0 .. Width - 1
  <2>1. portToInt(x) = x.n
      BY <1>2 DEF portToInt
  <2>2. x.n > 0 \/ x.n = 0
    <3>1. \A n \in 0 .. Width - 1 : n > 0 \/ n = 0
        BY DEF Width
    <3> QED BY <1>2, <3>1
  <2>3. SendPort(x) = x.n
      BY <2>1, <2>2 DEF SendPort
  <2> QED BY <2>1, <2>2, <2>3
<1> QED BY <1>1, <1>2 DEF portToInt

\* A text, a boolean or a number of a page that a property is set to.
LEMMA ConvertedGivesPort ==
    ASSUME NEW value \in Values, NEW x \in Converted(value) PROVE GivesPort(value, x)
<1> USE NumbersAssumption
<1>1. \/ value.type = "string"
      \/ value.type = "boolean"
      \/ value.type \in {"int32", "double"} /\ value.text.form = "number" /\ value.text.n \in Int
    BY DEF Values, Text, Boolean, Int32, Double, Number
<1>2. CASE value.type = "string"
  <2>1. x = value.text
      BY <1>2 DEF Converted
  <2>2. PortAsked(value) = portToInt(x)
      BY <1>2, <2>1 DEF PortAsked, portToInt
  <2> QED BY <2>2, SentIsRead DEF GivesPort
<1>3. CASE value.type = "boolean"
  <2>1. x = Empty
      BY <1>3 DEF Converted
  <2>2. PortAsked(value) = -1
      BY <1>3 DEF PortAsked
  <2> QED BY <2>1, <2>2 DEF GivesPort, SendPort, portToInt, Empty
<1>4. CASE value.type \in {"int32", "double"} /\ value.text.form = "number" /\ value.text.n \in Int
  <2>1. PICK n \in InVal(value) : x = Number(n)
      BY <1>4 DEF Converted
  <2>2. n \in Int /\ (PortAsked(value) = -1 \/ n = PortAsked(value))
      BY <1>4, NumberKept
  <2>3. PortAsked(value) = -1 \/ PortAsked(value) \in 0 .. Width - 1
      BY DEF PortAsked
  <2> QED BY <1>4, <2>1, <2>2, <2>3 DEF GivesPort, IsNumber, SendPort, portToInt, Number
<1> QED BY <1>1, <1>2, <1>3, <1>4

=============================================================================

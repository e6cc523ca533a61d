---------------------------- MODULE ScriptValues ----------------------------
(***************************************************************************)
(* The values that a page's script gives to the plugin's properties, and   *)
(* what SetProperty (nsScriptablePeer.cpp) and connect() (plugin.cpp) make *)
(* of them: a number goes through an unsigned short and a string before it *)
(* is read as a port.                                                      *)
(***************************************************************************)
EXTENDS Integers

CONSTANTS
    Numbers     \* the numbers a page may write in a property

ASSUME NumbersAssumption == Numbers \subseteq Int

\* The texts of a string property: a decimal numeral, the empty string, and
\* anything else, in which strtol() finds no number or something after it.
Number(n) == [form |-> "number", n |-> n]
Empty == [form |-> "empty", n |-> 0]
Other == [form |-> "other", n |-> 0]
Texts == [form : {"number"}, n : Int] \cup {Empty, Other}

\* The values of a script.  A double is written as the number of its halves.
\* Values of the other types leave every property as it is.
Text(x) == [type |-> "string", text |-> x]
Boolean(n) == [type |-> "boolean", text |-> Number(n)]
Int32(n) == [type |-> "int32", text |-> Number(n)]
Double(h) == [type |-> "double", text |-> Number(h)]
Unset == [type |-> "unset", text |-> Empty]
Values ==
    {Text(Number(n)) : n \in Numbers} \cup {Text(Empty), Text(Other), Boolean(0), Boolean(1)}
    \cup {Int32(n) : n \in Numbers}
    \cup {Double(2 * n) : n \in Numbers} \cup {Double(2 * n + 1) : n \in Numbers}

-----------------------------------------------------------------------------
Width == 65536   \* of an unsigned short

\* A number put into the unsigned short val.  A double that does not fit is
\* undefined behaviour: builds wrap it, or make it 0 when it has no int either.
InVal(value) ==
    LET n == value.text.n
        whole == IF n < 0 THEN -((-n) \div 2) ELSE n \div 2
    IN IF value.type = "int32" THEN {n % Width}
       ELSE IF whole \in 0 .. Width - 1 THEN {whole}
       ELSE {whole % Width, 0}

\* The string that a string property is set to.
Converted(value) ==
    CASE value.type = "string" -> {value.text}
      [] value.type = "boolean" -> {Empty}
      [] OTHER -> {Number(n) : n \in InVal(value)}

IsTrue(value) == value.type = "boolean" /\ value.text.n = 1

portToInt(x) == IF x.form = "number" /\ x.n \in 0 .. Width - 1 THEN x.n ELSE -1

\* The port connect() sends, 0 when it sends none.
SendPort(x) == IF portToInt(x) > 0 THEN portToInt(x) ELSE 0

-----------------------------------------------------------------------------
(* What a page means by a value, for the properties *)

\* The number that a value is as a port, -1 when it is none.
PortAsked(value) ==
    LET n == value.text.n
        number == IF value.type = "double" THEN n \div 2 ELSE n
    IN IF /\ value.type \in {"string", "int32", "double"}
          /\ value.text.form = "number"
          /\ value.type = "double" => n % 2 = 0
          /\ number \in 0 .. Width - 1
       THEN number ELSE -1

IsNumber(value) == value.type \in {"int32", "double"}
=============================================================================

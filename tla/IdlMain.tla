------------------------------ MODULE IdlMain ------------------------------
(***************************************************************************)
(* The test page generator as a program (main.cpp): its options, the       *)
(* streams that RedirectHelper puts in the place of the standard ones, the *)
(* parser, and the page that Generator writes.  The layout of the page is  *)
(* left out: a page is what its script assigns, the elements it finds by   *)
(* their ids, and its buttons.  An id is the sequence of the parts that it *)
(* is joined of, so that two ids may be the same as they may in the page.  *)
(***************************************************************************)
EXTENDS IdlParser

CONSTANTS
    Invocations,    \* the command lines it is called with
    Spelling,       \* of each name: the parts of it that names share
    TrustStores     \* the names that are "truststore" in small letters

Options == [good : BOOLEAN, help : BOOLEAN, input : BOOLEAN, output : BOOLEAN]

ASSUME InvocationsAssumption == Invocations \subseteq Options

Parts == UNION {{Spelling[n][i] : i \in DOMAIN Spelling[n]} : n \in Names}

ASSUME SpellingAssumption ==
    /\ Spelling \in [Names -> Seq(Parts)]
    /\ \A x, y \in Names : x # y => Spelling[x] # Spelling[y]
    /\ TrustStores \subseteq Names

VARIABLES
    phase,              \* of main(): "options", "redirect", "parse", "generate",
                        \* "restore", "return" (the destructors), "done"
    o,                  \* the options
    cin, cout,          \* the buffers of the standard streams
    m_cin_streambuf,    \* the ones that were replaced, or "NULL"
    m_cout_streambuf,
    page,               \* what was generated, and where to
    exit                \* the value that main returns, 2 until then

mainVars == <<phase, o, cin, cout, m_cin_streambuf, m_cout_streambuf, page, exit>>
vars == <<scanVars, fileVars, parseVars, mainVars>>

NoPage == [to |-> "nowhere", assigns |-> {}, attributes |-> {}, parameters |-> {},
           buttons |-> {}]

Init ==
    /\ ParserInit
    /\ phase = "options" /\ o \in Invocations
    /\ cin = "stdin" /\ cout = "stdout"
    /\ m_cin_streambuf = "NULL" /\ m_cout_streambuf = "NULL"
    /\ page = NoPage /\ exit = 2

Return(value) == phase' = "return" /\ exit' = value

ReadOptions ==
    /\ phase = "options"
    /\ CASE ~o.good -> Return(1)
         [] o.good /\ o.help -> Return(0)
         [] OTHER -> phase' = "redirect" /\ UNCHANGED exit
    /\ UNCHANGED <<scanVars, fileVars, parseVars, o, cin, cout, m_cin_streambuf,
                   m_cout_streambuf, page>>

\* The files may not open; the input is redirected although the output is not.
redirect(inputOpens, outputOpens) ==
    LET opened == o.input => inputOpens
    IN  /\ phase = "redirect"
        /\ cin' = IF o.input /\ inputOpens THEN "m_ifb" ELSE cin
        /\ m_cin_streambuf' = IF o.input /\ inputOpens THEN cin ELSE m_cin_streambuf
        /\ cout' = IF opened /\ o.output /\ outputOpens THEN "m_ofb" ELSE cout
        /\ m_cout_streambuf' = IF opened /\ o.output /\ outputOpens THEN cout
                               ELSE m_cout_streambuf
        /\ IF opened /\ (o.output => outputOpens)
           THEN phase' = "parse" /\ UNCHANGED exit
           ELSE Return(1)
        /\ UNCHANGED <<scanVars, fileVars, parseVars, o, page>>

Parse ==
    /\ phase = "parse"
    /\ ParseNext
    /\ CASE point' = "accepted" -> phase' = "generate" /\ UNCHANGED exit
         [] point' = "refused" -> Return(1)
         [] OTHER -> UNCHANGED <<phase, exit>>
    /\ UNCHANGED <<o, cin, cout, m_cin_streambuf, m_cout_streambuf, page>>

-----------------------------------------------------------------------------
(* Generator *)

Elements(s) == {s[i] : i \in 1..Len(s)}
IsBoolean(t) == t = <<"boolean">>

\* generateConnectVarsParse(): by the last word of a type, which tells what its first
\* one does ("unsigned" is never alone); first a mutant that knows one-word types only.
CastShort(t) ==
    IF Len(t) # 1 THEN "none"
    ELSE IF t[1] \in {"octet", "short", "long"} THEN "parseInt"
    ELSE IF t[1] = "float" THEN "parseFloat" ELSE "none"
Cast(t) == CASE t[Len(t)] \in {"octet", "short", "long"} -> "parseInt"
             [] t[Len(t)] = "float" -> "parseFloat"
             [] OTHER -> "none"

\* generateConnectVars(): one assignment to the plugin for each attribute, from a
\* property of the element that has its name as id.
Assignment(a) ==
    [name |-> a.name, reads |-> IF IsBoolean(a.type) THEN "checked" ELSE "value",
     cast |-> Cast(a.type)]

\* generateContent() and attributeToHtmlElement(): a row for each attribute, and after
\* all of these one for each parameter; a row has a checkbox that switches its control.
Toggled(id) == Append(id, "Toggled")
Row(id, kind) == {[id |-> Toggled(id), kind |-> "checkbox"], [id |-> id, kind |-> kind]}
Kind(t) == IF IsBoolean(t) THEN "checkbox" ELSE "text"
AttributeRow(a) ==
    Row(Spelling[a.name], IF a.name \in TrustStores THEN "textarea" ELSE Kind(a.type))
ParameterRow(m, p) == Row(Spelling[m.name] \o Spelling[p.name], Kind(p.type))

\* The functions that generateHeader() and generateConnectVars() define.
ScriptFunctions ==
    {"bodyLoad", "bodyUnload", "connect", "disconnect", "OnDisconnected", "log",
     "setLanguageStrings", "SetUsbFilter", "show", "ConnectedStatus", "toggle",
     "setConnectVars"}

generate ==
    /\ phase = "generate"
    /\ page' = [to |-> cout,
                assigns |-> {Assignment(a) : a \in Elements(m_attributes)},
                attributes |-> UNION {AttributeRow(a) : a \in Elements(m_attributes)},
                parameters |-> UNION {UNION {ParameterRow(m, p) : p \in Elements(m.params)} :
                                        m \in Elements(m_methods)},
                buttons |-> {m.name : m \in Elements(m_methods)}]
    /\ phase' = "restore"
    /\ UNCHANGED <<scanVars, fileVars, parseVars, o, cin, cout, m_cin_streambuf,
                   m_cout_streambuf, exit>>

\* RedirectHelper::restore(), called by main and by the destructor; first a mutant
\* that gives back the input only when the output was redirected, too.
RestoreBoth ==
    /\ cin' = IF "NULL" \in {m_cin_streambuf, m_cout_streambuf} THEN cin
              ELSE m_cin_streambuf
    /\ cout' = IF m_cout_streambuf = "NULL" THEN cout ELSE m_cout_streambuf
    /\ m_cin_streambuf' = "NULL" /\ m_cout_streambuf' = "NULL"
restore ==
    /\ cin' = IF m_cin_streambuf = "NULL" THEN cin ELSE m_cin_streambuf
    /\ cout' = IF m_cout_streambuf = "NULL" THEN cout ELSE m_cout_streambuf
    /\ m_cin_streambuf' = "NULL" /\ m_cout_streambuf' = "NULL"

MainRestores ==
    /\ phase = "restore"
    /\ restore
    /\ Return(0)
    /\ UNCHANGED <<scanVars, fileVars, parseVars, o, page>>

Destructors ==
    /\ phase = "return"
    /\ restore
    /\ phase' = "done"
    /\ UNCHANGED <<scanVars, fileVars, parseVars, o, page, exit>>

Next ==
    \/ ReadOptions
    \/ \E inputOpens, outputOpens \in BOOLEAN : redirect(inputOpens, outputOpens)
    \/ Parse
    \/ generate
    \/ MainRestores
    \/ Destructors

Spec == Init /\ [][Next]_vars

-----------------------------------------------------------------------------
(* What the file says, read from the text between its braces *)

Positions == {p \in 1..Len(text) : text[p] \in Names}
ItemStart(p) == CHOOSE s \in 1..p : /\ s = 1 \/ text[s - 1] = "semicolon"
                                    /\ \A q \in s..(p - 1) : text[q] # "semicolon"
TypeFrom(s) == CHOOSE t \in {SubSeq(text, s, q) : q \in s..Len(text)} :
                  /\ Elements(t) \subseteq TypeWords
                  /\ text[s + Len(t)] \notin TypeWords
IsAttribute(p) == text[ItemStart(p)] \in {"readonly", "attribute"}
IsMethod(p) == ~IsAttribute(p) /\ text[p + 1] = "("
IsParam(p) == ~IsAttribute(p) /\ text[p + 1] # "("

AttributeAt(p) ==
    LET s == ItemStart(p)
        isReadonly == text[s] = "readonly"
    IN  [type |-> TypeFrom(IF isReadonly THEN s + 2 ELSE s + 1), name |-> text[p],
         readonly |-> isReadonly]
ParamAt(p) ==
    LET s == CHOOSE q \in 2..p : /\ text[q - 1] \in {"(", "comma"} \cup Directions
                                 /\ \A r \in q..(p - 1) : text[r] \in TypeWords
    IN  [dir |-> IF text[s - 1] \in Directions THEN text[s - 1] ELSE "none",
         type |-> TypeFrom(s), name |-> text[p]]

\* The sequence `list' has the elements At(p), for the positions p in their order.
Lists(list, At(_), places) ==
    /\ Len(list) = Cardinality(places)
    /\ \A p \in places : list[Cardinality({q \in places : q <= p})] = At(p)

MethodIs(m, p) ==
    /\ m.type = TypeFrom(ItemStart(p)) /\ m.name = text[p]
    /\ Lists(m.params, ParamAt, {q \in Positions : q > p /\ ItemStart(q) = ItemStart(p)})

\* A file that the parser accepts is read to its end, and what it has recorded is
\* what the file declares, in the same order, with the comments, the spaces and the
\* words of types that need a look ahead on the way (getNextToken, parseType).  A file
\* with "/*/" or with a "/" outside of comments is not one of those of MayFollow.
RecordedAsWritten ==
    point = "accepted" =>
        LET methods == {p \in Positions : IsMethod(p)}
        IN  /\ comment \in {"code", "line"} /\ depth = 0
            /\ Lists(m_attributes, AttributeAt, {p \in Positions : IsAttribute(p)})
            /\ Len(m_methods) = Cardinality(methods)
            /\ \A p \in methods :
                    MethodIs(m_methods[Cardinality({q \in methods : q <= p})], p)

\* What the file says of the number that an attribute is.
CastAt(p) == CASE AttributeAt(p).type[1] \in {"octet", "unsigned", "short", "long"} -> "parseInt"
               [] AttributeAt(p).type[1] = "float" -> "parseFloat"
               [] OTHER -> "none"

\* No other attribute of the file gives an element of the page an id of the row of p.
HasOwnIds(p) ==
    \A q \in {r \in Positions : IsAttribute(r)} \ {p} :
        /\ text[q] # text[p]
        /\ Toggled(Spelling[text[q]]) # Spelling[text[p]]
        /\ Spelling[text[q]] # Toggled(Spelling[text[p]])

\* The elements that getElementById() may answer: the rows of the attributes come first.
Answers(id) == {k \in page.attributes : k.id = id}
AreOf(kinds, elements) == elements # {} /\ \A k \in elements : k.kind \in kinds

\* The script reads of the element that it finds what an element of its kind has.  A
\* boolean trust store is the exception: it has a text area, and its `checked' is read.
ScriptFinds(p, a) ==
    /\ AreOf({"checkbox"}, Answers(Toggled(Spelling[text[p]])))
    /\ AttributeAt(p).type # <<"boolean">> \/ text[p] \notin TrustStores =>
        AreOf(IF a.reads = "checked" THEN {"checkbox"} ELSE {"text", "textarea"},
              Answers(Spelling[text[p]]))

\* A page is written exactly when the program reports success, to the file that was
\* asked for; each attribute of the file is assigned, by way of the number that its
\* type asks for, and from elements that fit if no other attribute takes their ids,
\* whatever the methods and parameters are called; each method has a button, and each
\* parameter a row under the joined name of its method and its own (generate, main).
PageServesFile ==
    phase = "done" =>
        /\ page # NoPage <=> exit = 0 /\ ~o.help
        /\ page # NoPage =>
            /\ page.to = IF o.output THEN "m_ofb" ELSE "stdout"
            /\ \A p \in Positions :
                CASE IsAttribute(p) ->
                        \E a \in page.assigns :
                            /\ a.name = text[p] /\ a.cast = CastAt(p)
                            /\ HasOwnIds(p) => ScriptFinds(p, a)
                  [] IsMethod(p) -> text[p] \in page.buttons
                  [] IsParam(p) ->
                        \E q \in Positions :
                            /\ IsMethod(q) /\ ItemStart(q) = ItemStart(p)
                            /\ Row(Spelling[text[q]] \o Spelling[text[p]],
                                   Kind(ParamAt(p).type)) \subseteq page.parameters

\* When the RedirectHelper and its buffers are gone, the standard streams use the
\* buffers that they had: their last flush, at exit, meets no freed buffer (redirect
\* and restore, on every way out of main).
StreamsRestored == phase = "done" => cin = "stdin" /\ cout = "stdout"

\* The buttons of a page call functions of its script (README: "input elements and
\* action buttons, that are read from interface description").
ButtonsCall == page.buttons \subseteq ScriptFunctions
=============================================================================

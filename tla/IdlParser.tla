----------------------------- MODULE IdlParser -----------------------------
(***************************************************************************)
(* The recursive descent parser of the test page generator (parser.cpp).   *)
(* `point' is the place in its functions that waits for a token, and each  *)
(* function is the set of moves <<point, tokens, next point>> that it      *)
(* makes from one call of getNextToken to the next.  What the functions    *)
(* keep in local variables is in `caller', `type', `dir' and `method'.     *)
(***************************************************************************)
EXTENDS IdlScanner, FiniteSets

VARIABLES
    point,          \* the place in the parser, "accepted" or "refused" at last
    caller,         \* the place that parseType() returns to
    type,           \* the words of the last type
    readonly,       \* of the attribute
    dir,            \* of the parameter, "none" when it has no direction
    method,         \* the method that is parsed
    m_attributes,
    m_methods

parseVars == <<point, caller, type, readonly, dir, method, m_attributes, m_methods>>

ParserInit ==
    /\ ScannerInit
    /\ point = "top" /\ caller = "none" /\ type = <<>> /\ readonly = FALSE /\ dir = "none"
    /\ method = [type |-> <<>>, name |-> "none", params |-> <<>>]
    /\ m_attributes = <<>> /\ m_methods = <<>>

Tokens == Words \cup Single \cup Openers \cup {"double", "EOF", "LEX_ERROR"}

-----------------------------------------------------------------------------
(* The moves of each function *)

parse == {<<"top", {"interface"}, "interface_name">>, <<"top", {"["}, "param">>,
          <<"top", {"#"}, "include">>, <<"top", {"EOF"}, "accepted">>}

parseInclude ==
    {<<"include", {"include"}, "file">>,
     <<"file", {"quote"}, "quoted">>, <<"file", {"<"}, "angled">>,
     <<"quoted", Names \cup {"."}, "quoted">>, <<"quoted", {"quote"}, "top">>,
     <<"angled", Names \cup {"."}, "angled">>, <<"angled", {">"}, "top">>}

parseDefinitionParams ==
    {<<"param", {"uuid"}, "uuid_(">>, <<"param", Names, "after_param">>,
     <<"uuid_(", {"("}, "uuid_value">>, <<"uuid_value", {UuidValue}, "uuid_)">>,
     <<"uuid_)", {")"}, "after_param">>,
     <<"after_param", {"comma"}, "param">>, <<"after_param", {"]"}, "interface">>}

parseDefinition ==
    {<<"interface", {"interface"}, "interface_name">>,
     <<"interface_name", Names, "after_interface">>,
     <<"after_interface", {":"}, "basic">>, <<"after_interface", {"lbrace"}, "body">>,
     <<"body", {"rbrace"}, "after_body">>, <<"after_body", {"semicolon"}, "top">>}

parseBasicInterfaces ==
    {<<"basic", Names, "after_basic">>,
     <<"after_basic", {"comma"}, "basic">>, <<"after_basic", {"lbrace"}, "body">>}

\* parseType(): its first word, read at p on behalf of `who', and the others; the
\* token that shows that a type is complete is read, too.
FirstWord(p, who) ==
    {<<p, TypeWords \ {"unsigned", "long"}, who>>,
     <<p, {"unsigned"}, "unsigned">>, <<p, {"long"}, "long">>}

parseType ==
    {<<"unsigned", {"short"}, "typed">>, <<"unsigned", {"long"}, "unsigned_long">>,
     <<"unsigned_long", Tokens, "typed">>, <<"long", Tokens, "typed">>}

parseInterfaceBody ==
    {<<"body", {"readonly"}, "readonly">>, <<"body", {"attribute"}, "attribute_type">>}
        \cup FirstWord("body", "method")

parseAttribute ==
    {<<"readonly", {"attribute"}, "attribute_type">>,
     <<"attribute", Names, "after_attribute">>,
     <<"after_attribute", {"comma"}, "attribute">>, <<"after_attribute", {"semicolon"}, "body">>}
        \cup FirstWord("attribute_type", "attribute")

parseMethod ==
    {<<"method", Names, "(">>, <<"(", {"("}, "first_parameter">>,
     <<"first_parameter", {")"}, ")">>,
     <<"first_parameter", Directions, "parameter_type">>,
     <<"next_parameter", Directions, "parameter_type">>,
     <<"parameter", Names, "after_parameter">>,
     <<"after_parameter", {"comma"}, "next_parameter">>, <<"after_parameter", {")"}, ")">>,
     <<")", {"semicolon"}, "body">>}
        \cup UNION {FirstWord(p, "parameter") :
                        p \in {"first_parameter", "next_parameter", "parameter_type"}}

Moves == parse \cup parseInclude \cup parseDefinitionParams \cup parseDefinition
         \cup parseBasicInterfaces \cup parseInterfaceBody \cup parseType
         \cup parseAttribute \cup parseMethod

-----------------------------------------------------------------------------
(* What the functions do on the way *)

\* Who the type read at a place belongs to.
Owner(p) == CASE p = "body" -> "method"
              [] p = "attribute_type" -> "attribute"
              [] p \in {"first_parameter", "next_parameter", "parameter_type"} -> "parameter"
              [] OTHER -> "none"

LooksAhead == point \in {"unsigned_long", "long"} /\ token # "long"

\* A token that was read too early goes back.
pushToken == IF LooksAhead THEN Append(m_token_queue, token) ELSE m_token_queue

TypeAfter ==
    IF token \notin TypeWords \/ LooksAhead THEN type
    ELSE IF Owner(point) # "none" THEN <<token>> ELSE Append(type, token)

DirectionAfter == IF point \notin {"first_parameter", "next_parameter"} THEN dir
                  ELSE IF token \in Directions THEN token ELSE "none"

MethodAfter ==
    CASE point = "method" -> [type |-> type, name |-> token, params |-> <<>>]
      [] point = "parameter" ->
            [method EXCEPT !.params = Append(@, [dir |-> dir, type |-> type, name |-> token])]
      [] OTHER -> method

Take(move) ==
    /\ move[1] = point /\ token \in move[2]
    /\ point' = IF move[3] = "typed" THEN caller ELSE move[3]
    /\ caller' = IF Owner(point) = "none" THEN caller ELSE Owner(point)
    /\ m_accept_uuids' = CASE point = "uuid_(" -> TRUE
                           [] point = "uuid_value" -> FALSE
                           [] OTHER -> m_accept_uuids
    /\ m_token_queue' = pushToken
    /\ type' = TypeAfter
    /\ readonly' = IF point = "body" THEN token = "readonly" ELSE readonly
    /\ dir' = DirectionAfter
    /\ method' = MethodAfter
    /\ m_attributes' = IF point # "attribute" THEN m_attributes
                       ELSE Append(m_attributes, [type |-> type, name |-> token,
                                                  readonly |-> readonly])
    /\ m_methods' = IF point = ")" THEN Append(m_methods, method) ELSE m_methods

\* The token has no place here, or is a lexical error.
handleError ==
    /\ ~\E move \in Moves : move[1] = point /\ token \in move[2]
    /\ point' = "refused"
    /\ UNCHANGED <<m_token_queue, m_accept_uuids, caller, type, readonly, dir, method,
                   m_attributes, m_methods>>

\* One step of parse(): the scanner goes on to the next token, or the parser takes it.
ParseNext ==
    /\ point \notin {"accepted", "refused"}
    /\ \/ getNextToken /\ UNCHANGED parseVars
       \/ /\ token # "none" /\ token' = "none"
          /\ handleError \/ \E move \in Moves : Take(move)
          /\ UNCHANGED <<state, c, param, unget, fileVars>>
=============================================================================

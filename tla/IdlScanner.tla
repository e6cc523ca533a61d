----------------------------- MODULE IdlScanner -----------------------------
(***************************************************************************)
(* The scanner of the test page generator (scanner.cpp), one step for each *)
(* character it gets from the standard input.  A whole word counts as one  *)
(* character, so that two words never follow one another.  The file is     *)
(* read as it is made up: the reader of this module chooses the next       *)
(* character, and history variables keep what a file like it means.        *)
(***************************************************************************)
EXTENDS Integers, Sequences

CONSTANTS
    Names,      \* the identifiers of the file
    MaxText,    \* bound on the characters between the braces of interfaces
    Alphabet    \* the characters of each part of the file, all of them or some

ASSUME ScannerAssumption == MaxText \in Nat

\* The words of types: "float" stands for "double", too, and "string" for "wstring",
\* "char", "wchar" and "void".
TypeWords == {"boolean", "string", "octet", "float", "unsigned", "short", "long"}
Directions == {"in", "out"}                 \* "inout" is one more of them
s_keywords == TypeWords \cup Directions
              \cup {"attribute", "readonly", "interface", "uuid", "include"}
UuidValue == "36_hexadecimal_digits"
Words == s_keywords \cup Names \cup {UuidValue}

\* The characters that are tokens, those that begin one, and the others.  Words,
\* numbers and characters that the parser accepts nowhere are left out.
Single == {"[", "]", "lbrace", "rbrace", "(", ")", "comma", "semicolon", "#", "quote", "."}
Openers == {":", "<", ">"}
Characters == Words \cup Single \cup Openers \cup {"/", "*", "blank", "newline", "eof"}

\* The other values of the scanner's variables.
Others == {"none", "double", "EOF", "LEX_ERROR"}

ASSUME AlphabetAssumption ==
    Alphabet \in [{"header", "body", "comment"} -> SUBSET Characters]

ASSUME NamesAssumption ==
    Names \cap (s_keywords \cup {UuidValue} \cup Single \cup Openers
               \cup {"/", "*", "blank", "newline", "eof"} \cup Others) = {}

VARIABLES
    state,          \* of getNextToken
    c,              \* the last character it got, "none" when it begins
    param,          \* the word it is in
    unget,          \* the character it put back, or "none"
    token,          \* the token it returned, "none" while it looks for one
    m_token_queue,  \* the tokens that the parser pushed back
    m_accept_uuids,
    comment,        \* history: where the character before is, by the rules of C
    depth,          \* history: the braces that are open
    text            \* history: what is between braces and not in a comment

scanVars == <<state, c, param, unget, token, m_token_queue, m_accept_uuids>>
fileVars == <<comment, depth, text>>

ScannerInit ==
    /\ state = "INITIAL" /\ c = "none" /\ param = "none" /\ unget = "none"
    /\ token = "none" /\ m_token_queue = <<>> /\ m_accept_uuids = FALSE
    /\ comment = "code" /\ depth = 0 /\ text = <<>>

-----------------------------------------------------------------------------
(* The file *)

\* What a character means after the ones before it.
CommentAfter(ch) ==
    CASE comment = "code" -> IF ch = "/" THEN "slash" ELSE "code"
      [] comment = "slash" -> IF ch = "/" THEN "line" ELSE "opened"
      [] comment = "line" -> IF ch = "newline" THEN "code" ELSE "line"
      [] comment = "star" /\ ch = "/" -> "code"
      [] OTHER -> IF ch = "*" THEN "star" ELSE "block"

Counts(ch) == comment = "code" /\ depth > 0 /\ ch \in Words \cup Single \cup Openers
              /\ ch \notin {"lbrace", "rbrace"}

\* The part of the file that the next character is in.
Part == IF comment \notin {"code", "slash"} THEN "comment"
        ELSE IF depth = 0 THEN "header" ELSE "body"

\* A file in which every "/" is of a comment; "/*/", which the scanner takes for
\* a whole comment, is left out, and so are nested braces.
MayFollow(ch) ==
    /\ ch \in Alphabet[Part]
    /\ ch \in Words => c \notin Words
    /\ comment = "slash" => ch \in {"/", "*", "eof"}
    /\ comment = "opened" => ch # "/"
    /\ comment = "code" => (ch = "lbrace" => depth = 0) /\ (ch = "rbrace" => depth = 1)
    /\ Counts(ch) => Len(text) < MaxText

\* The next character, one that was put back first.
Gets(ch) ==
    IF unget # "none"
    THEN ch = unget /\ UNCHANGED fileVars
    ELSE /\ MayFollow(ch)
         /\ comment' = CommentAfter(ch)
         /\ depth' = IF comment # "code" THEN depth
                     ELSE CASE ch = "lbrace" -> 1 [] ch = "rbrace" -> 0 [] OTHER -> depth
         /\ text' = IF Counts(ch) THEN Append(text, ch) ELSE text

-----------------------------------------------------------------------------
(* getNextToken() *)

\* A word is a keyword's token or an identifier's; the token keeps the word.
WordToken == IF state = "UUID" /\ param # UuidValue THEN "LEX_ERROR" ELSE param

\* The state after ch in a token that goes on, "none" when ch ends the token.
\* (First a mutant that leaves a comment at any star.)
StateAfterStar(ch) ==
    CASE state = "INITIAL" ->
            IF ch \in Words THEN IF m_accept_uuids THEN "UUID" ELSE "IDENTIFIER"
            ELSE IF ch \in Openers \cup {"/"} THEN ch
            ELSE IF ch \in {"blank", "newline"} THEN "INITIAL" ELSE "none"
      [] state = "/" -> IF ch = "/" THEN "LINE" ELSE IF ch = "*" THEN "BLOCK" ELSE "/"
      [] state = "LINE" -> IF ch \in {"newline", "eof"} THEN "INITIAL" ELSE "LINE"
      [] state = "BLOCK" -> IF c = "*" THEN "INITIAL" ELSE "BLOCK"
      [] OTHER -> "none"
StateAfter(ch) ==
    CASE state = "INITIAL" ->
            IF ch \in Words THEN IF m_accept_uuids THEN "UUID" ELSE "IDENTIFIER"
            ELSE IF ch \in Openers \cup {"/"} THEN ch
            ELSE IF ch \in {"blank", "newline"} THEN "INITIAL" ELSE "none"
      [] state = "/" -> IF ch = "/" THEN "LINE" ELSE IF ch = "*" THEN "BLOCK" ELSE "/"
      [] state = "LINE" -> IF ch \in {"newline", "eof"} THEN "INITIAL" ELSE "LINE"
      [] state = "BLOCK" -> IF c = "*" /\ ch = "/" THEN "INITIAL" ELSE "BLOCK"
      [] OTHER -> "none"

\* The token that ch ends.
TokenAt(ch) ==
    IF ch = "eof" THEN IF state = "INITIAL" THEN "EOF" ELSE "LEX_ERROR"
    ELSE CASE state \in {"IDENTIFIER", "UUID"} -> WordToken
           [] state \in Openers -> IF ch = state THEN "double" ELSE state
           [] OTHER -> IF ch = "*" THEN "LEX_ERROR" ELSE ch

\* The end of a word, or of one of the Openers, is found one character late.
PutsBack(ch) == state \in {"IDENTIFIER", "UUID"} \/ (state \in Openers /\ ch # state)

Scan(ch) ==
    /\ token = "none" /\ m_token_queue = <<>>
    /\ Gets(ch)
    /\ IF StateAfter(ch) = "none" \/ (ch = "eof" /\ state # "LINE")
       THEN /\ token' = TokenAt(ch)
            /\ unget' = IF ch # "eof" /\ PutsBack(ch) THEN ch ELSE "none"
            /\ state' = "INITIAL" /\ c' = "none" /\ param' = "none"
       ELSE /\ state' = StateAfter(ch)
            /\ c' = ch
            /\ param' = IF ch \in Words /\ state = "INITIAL" THEN ch ELSE param
            /\ unget' = IF ch = "eof" THEN "eof" ELSE "none"
            /\ UNCHANGED token
    /\ UNCHANGED <<m_token_queue, m_accept_uuids>>

\* A token that was pushed back comes before the file.
Pop ==
    /\ token = "none" /\ m_token_queue # <<>>
    /\ token' = Head(m_token_queue) /\ m_token_queue' = Tail(m_token_queue)
    /\ UNCHANGED <<state, c, param, unget, m_accept_uuids, fileVars>>

getNextToken == Pop \/ \E ch \in Characters : Scan(ch)
=============================================================================

------------------------------- MODULE MCIdl -------------------------------
EXTENDS IdlMain

\* A trust store, and an attribute named like the checkbox beside it.
MCNames == {"TrustStore", "TrustStoreToggled"}
MCTrustStores == {"TrustStore"}
MCSpelling == [n \in MCNames |-> IF n = "TrustStore" THEN <<"TrustStore">>
                                 ELSE <<"TrustStore", "Toggled">>]

\* The method of nsISpicec.idl whose button has no function.
ButtonNames == {"SetLanguageStrings"}
ButtonSpelling == [n \in ButtonNames |-> <<n>>]

\* In each part of the file every character that the parser accepts there, two of the
\* words and signs that it refuses, and in comments those that scanner.cpp looks for.
Signs == {"lbrace", "rbrace", "(", ")", "comma", "semicolon", ":", "/", "*", "newline", "eof"}
MCAlphabet ==
    [header |-> Signs \cup {CHOOSE n \in Names : TRUE}
                \cup {"interface", "[", "]", "uuid", UuidValue, "#", "include", "quote",
                      "<", ">", ".", "attribute"},
     body |-> Signs \cup Names \cup TypeWords \cup {"in", "attribute", "readonly"},
     comment |-> {"/", "*", "newline", "semicolon", "eof"}]

\* Every way not to parse, and one way to parse a file, for what is made of it.
MCInvocations == {[good |-> TRUE, help |-> FALSE, input |-> TRUE, output |-> TRUE]}
                 \cup {i \in Options : ~i.good \/ i.help}
=============================================================================

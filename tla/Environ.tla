------------------------------- MODULE Environ -------------------------------
(***************************************************************************)
(* The environment lists of glib-compat.c, which stand in for GLib's where *)
(* GLib is old: a list of texts "name=value", searched from the front.     *)
(* A text is a sequence of symbols; a value is one symbol.                 *)
(***************************************************************************)
EXTENDS Integers, Sequences, FiniteSetsExt

CONSTANTS
    NotSet      \* the value of a variable that is not in a list: NULL

Entry(variable, value) == variable \o <<"=", value>>

\* strncmp() over the length of the name, and the sign after it (first a
\* mutant that forgets the sign).
StartsWith(entry, symbols) ==
    Len(entry) >= Len(symbols) /\ SubSeq(entry, 1, Len(symbols)) = symbols
MatchesPrefix(entry, variable) == StartsWith(entry, variable)
Matches(entry, variable) == StartsWith(entry, Append(variable, "="))

\* The first entry of the variable, or 0.
g_environ_find(envp, variable) ==
    LET at == {i \in DOMAIN envp : Matches(envp[i], variable)}
    IN IF at = {} THEN 0 ELSE Min(at)

g_environ_getenv(envp, variable) ==
    LET index == g_environ_find(envp, variable)
    IN IF index = 0 THEN NotSet ELSE envp[index][Len(variable) + 2]

\* With overwrite, the only way it is called here.
g_environ_setenv(envp, variable, value) ==
    LET index == g_environ_find(envp, variable)
    IN IF index = 0 THEN Append(envp, Entry(variable, value))
       ELSE [envp EXCEPT ![index] = Entry(variable, value)]
=============================================================================

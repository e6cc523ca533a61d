------------------------------- MODULE NpEntry -------------------------------
(***************************************************************************)
(* How the browser and the plugin exchange their function tables           *)
(* (np_entry.cpp) and how the plugin calls the browser through the copy it *)
(* keeps (npn_gate.cpp).  Browsers of several versions exist: each brings  *)
(* the functions of its version and of the earlier ones.  The library may  *)
(* stay loaded after NP_Shutdown and be initialized again, with another    *)
(* table: the functions of the earlier table are then gone.                *)
(***************************************************************************)
EXTENDS Naturals

CONSTANTS
    Minors,     \* the minor versions of the browsers
    MaxLoads    \* bound on the calls of NP_Initialize

ASSUME EntryAssumption == Minors \subseteq 0 .. 255 /\ MaxLoads \in Nat

\* The functions of NPNetscapeFuncs by the version that brought them.
Classic == {"geturl", "posturl", "requestread", "status", "uagent", "memalloc",
            "memfree", "memflush", "reloadplugins"}
Streams == {"newstream", "write", "destroystream"}
Notified == {"geturlnotify", "posturlnotify", "getJavaEnv", "getJavaPeer"}
Windowless == {"getvalue", "setvalue", "invalidaterect", "invalidateregion", "forceredraw"}
Runtime == {"getstringidentifier", "getstringidentifiers", "getintidentifier",
            "identifierisstring", "utf8fromidentifier", "intfromidentifier",
            "createobject", "retainobject", "releaseobject", "invoke", "invokeDefault",
            "evaluate", "getproperty", "setproperty", "removeproperty", "hasproperty",
            "hasmethod", "releasevariantvalue", "setexception"}
Later == {"enumerate", "construct"}
Functions == Classic \cup Streams \cup Notified \cup Windowless \cup Runtime \cup Later

Since(f) ==
    CASE f \in Classic -> 0
      [] f \in Streams -> 8
      [] f \in Notified -> 9
      [] f \in Windowless -> 11
      [] f \in Runtime -> 14
      [] f \in Later -> 18

NULL == [major |-> 0, minor |-> 0, load |-> 0, has |-> {}]

\* What a browser of version major.minor hands over: NULL, or no entry at all,
\* for the functions it does not have.  load tells one table from another.
TableOf(major, minor, load) ==
    [major |-> major, minor |-> minor, load |-> load,
     has |-> {f \in Functions : Since(f) <= minor}]

VARIABLES
    NPNFuncs,       \* the plugin's copy: for each function the load that gave it, or 0
    version,        \* the version in the copy
    loads,          \* the calls of NP_Initialize
    answer,         \* what the last of them answered
    loaded,         \* the browser has initialized the plugin and not shut it down
    badCall         \* the plugin called a function that is NULL or is gone

entryVars == <<NPNFuncs, version, loads, answer, loaded, badCall>>

NP_VERSION_MAJOR == 0
NPERR_NO_ERROR == "NO_ERROR"

EntryInit ==
    /\ NPNFuncs = [f \in Functions |-> 0] /\ version = 0
    /\ loads = 0 /\ answer = NPERR_NO_ERROR /\ loaded = FALSE
    /\ badCall = FALSE

-----------------------------------------------------------------------------
\* The copy of a table: what it does not reach is NULL.  First a mutant
\* without the memset.
CopyOver(table) == [f \in Functions |-> IF f \in table.has THEN table.load ELSE NPNFuncs[f]]
CopyOf(table) == [f \in Functions |-> IF f \in table.has THEN table.load ELSE 0]

\* fillNetscapeFunctionTable().
TableError(table) ==
    IF table = NULL THEN "INVALID_FUNCTABLE_ERROR"
    ELSE IF table.major > NP_VERSION_MAJOR THEN "INCOMPATIBLE_VERSION_ERROR"
    ELSE NPERR_NO_ERROR

fillNetscapeFunctionTable(table) ==
    IF TableError(table) = NPERR_NO_ERROR
    THEN NPNFuncs' = CopyOf(table) /\ version' = table.minor
    ELSE UNCHANGED <<NPNFuncs, version>>

\* plugins says whether the browser gives a table to fill for the plugin's
\* functions.  The browser's table is replaced even when it does not.
NP_Initialize(table, plugins) ==
    /\ ~loaded /\ loads < MaxLoads
    /\ loads' = loads + 1
    /\ fillNetscapeFunctionTable(table)
    /\ answer' = IF TableError(table) = NPERR_NO_ERROR /\ ~plugins
                 THEN "INVALID_FUNCTABLE_ERROR" ELSE TableError(table)
    /\ loaded' = (answer' = NPERR_NO_ERROR)
    /\ UNCHANGED badCall

Initialize ==
    \E table \in {TableOf(major, minor, loads + 1) : major \in {0, 1}, minor \in Minors} \cup {NULL},
       plugins \in BOOLEAN : NP_Initialize(table, plugins)

\* NS_PluginShutdown() does nothing: the copy stays.
NP_Shutdown ==
    /\ loaded /\ loaded' = FALSE
    /\ UNCHANGED <<NPNFuncs, version, loads, answer, badCall>>

-----------------------------------------------------------------------------
(* The NPN_ wrappers *)

\* The version a wrapper asks for before it calls (first a mutant that is off
\* by one); the others ask for none.
AskedForLess(f) ==
    CASE f \in Streams -> 8 - 1
      [] f \in {"geturlnotify", "posturlnotify"} -> 9
      [] OTHER -> 0
AskedFor(f) ==
    CASE f \in Streams -> 8
      [] f \in {"geturlnotify", "posturlnotify"} -> 9
      [] OTHER -> 0

\* What calling a wrapper does: "refused" with an error of its own, "NULL" a
\* call of no function, "gone" a call of a function of an earlier table.
Outcome(f) ==
    IF version < AskedFor(f) THEN "refused"
    ELSE IF NPNFuncs[f] = 0 THEN "NULL"
    ELSE IF NPNFuncs[f] # loads THEN "gone"
    ELSE "called"

Callable(fs) == \A f \in fs : Outcome(f) = "called"

-----------------------------------------------------------------------------
(* Properties *)

\* Types; and that an error of NP_Initialize leaves the plugin unloaded.
EntryTypeOK ==
    /\ NPNFuncs \in [Functions -> 0 .. MaxLoads]
    /\ version \in 0 .. 255
    /\ loads \in 0 .. MaxLoads
    /\ answer \in {NPERR_NO_ERROR, "INVALID_FUNCTABLE_ERROR", "INCOMPATIBLE_VERSION_ERROR"}
    /\ loaded \in BOOLEAN /\ badCall \in BOOLEAN
    /\ loaded => answer = NPERR_NO_ERROR

\* The wrapper of every function can be called in every browser that has the
\* function, and a wrapper that asks for a version never calls a function
\* that is not there: whatever tables came before, of whatever versions
\* (np_entry.cpp:115-120, npn_gate.cpp:62-156).
TableIsCurrent ==
    loaded =>
        \A f \in Functions :
            /\ version >= Since(f) => Outcome(f) = "called"
            /\ AskedFor(f) > 0 => Outcome(f) \in {"called", "refused"}
            /\ Outcome(f) # "gone"
=============================================================================

------------------------ MODULE PluginSettingsProofs ------------------------
(***************************************************************************)
(* The settings from the browser's table to the client's messages, for any *)
(* versions of browsers, any numbers that a page may write and any number  *)
(* of writes: the table is current, no missing function is called, a page  *)
(* reads back what it set and the client is told it.                       *)
(***************************************************************************)
EXTENDS PluginSettings, ScriptValuesProofs

\* The plugin's copy of the table is that of the browser that has it loaded.
EntryInv ==
    /\ EntryTypeOK
    /\ loaded =>
        /\ loads # 0
        /\ \A f \in Functions : NPNFuncs[f] = IF Since(f) <= version THEN loads ELSE 0

\* What a function's version is.
LEMMA SinceIsNumber == \A f \in Functions : Since(f) \in Nat
BY DEF Functions, Since

\* No table is loaded at first.
LEMMA EntryInitInv == EntryInit => EntryInv
<1> SUFFICES ASSUME EntryInit PROVE EntryInv
    OBVIOUS
<1>1. NPNFuncs \in [Functions -> 0 .. MaxLoads] /\ version \in 0 .. 255 /\ loads \in 0 .. MaxLoads
    BY EntryAssumption DEF EntryInit
<1>2. answer = NPERR_NO_ERROR /\ loaded = FALSE /\ badCall = FALSE
    BY DEF EntryInit
<1> QED BY <1>1, <1>2, Zenon DEF EntryInv, EntryTypeOK

\* A table that is accepted replaces the one before, whatever its version.
LEMMA EntryInitialize == EntryInv /\ Initialize => EntryInv'
<1> SUFFICES ASSUME EntryInv, NEW table, NEW plugins, NP_Initialize(table, plugins),
                    \/ table = NULL
                    \/ \E major \in {0, 1}, minor \in Minors :
                            table = TableOf(major, minor, loads + 1)
             PROVE EntryInv'
    BY DEF Initialize
<1>1. loads' = loads + 1 /\ loads' \in 0 .. MaxLoads /\ loads' # 0
    BY EntryAssumption DEF NP_Initialize, EntryInv, EntryTypeOK
<1>2. TableError(table) \in {NPERR_NO_ERROR, "INVALID_FUNCTABLE_ERROR", "INCOMPATIBLE_VERSION_ERROR"}
    BY DEF TableError
<1>3. /\ answer' \in {NPERR_NO_ERROR, "INVALID_FUNCTABLE_ERROR", "INCOMPATIBLE_VERSION_ERROR"}
      /\ answer' = NPERR_NO_ERROR => TableError(table) = NPERR_NO_ERROR
    BY <1>2 DEF NP_Initialize, NPERR_NO_ERROR
<1>4. /\ loaded' \in BOOLEAN
      /\ loaded' => answer' = NPERR_NO_ERROR
      /\ badCall' \in BOOLEAN
  <2>1. loaded' = (answer' = NPERR_NO_ERROR) /\ badCall' = badCall
      BY Zenon DEF NP_Initialize
  <2>2. badCall \in BOOLEAN
      BY Zenon DEF EntryInv, EntryTypeOK
  <2> QED BY <2>1, <2>2, Zenon
<1>5. /\ NPNFuncs' \in [Functions -> 0 .. MaxLoads] /\ version' \in 0 .. 255
      /\ TableError(table) = NPERR_NO_ERROR =>
            \A f \in Functions : NPNFuncs'[f] = IF Since(f) <= version' THEN loads' ELSE 0
  <2>1. CASE TableError(table) = NPERR_NO_ERROR
    <3>1. PICK minor \in Minors : table = TableOf(0, minor, loads + 1)
        BY <2>1 DEF TableError, TableOf, NPERR_NO_ERROR, NP_VERSION_MAJOR
    <3>2. NPNFuncs' = CopyOf(table) /\ version' = minor /\ minor \in 0 .. 255
        BY <2>1, <3>1, EntryAssumption DEF NP_Initialize, fillNetscapeFunctionTable, TableOf
    <3>3. \A f \in Functions : f \in table.has <=> Since(f) <= minor
        BY <3>1 DEF TableOf
    <3>4. NPNFuncs' = [f \in Functions |-> IF f \in table.has THEN loads + 1 ELSE 0]
        BY <3>1, <3>2 DEF CopyOf, TableOf
    <3>5. \A f \in Functions : (IF f \in table.has THEN loads + 1 ELSE 0) \in 0 .. MaxLoads
        BY <1>1, EntryAssumption
    <3>6. NPNFuncs' \in [Functions -> 0 .. MaxLoads]
        BY <3>4, <3>5
    <3> QED BY <1>1, <3>2, <3>3, <3>4, <3>6
  <2>2. CASE TableError(table) # NPERR_NO_ERROR
      BY <2>2 DEF NP_Initialize, fillNetscapeFunctionTable, EntryInv, EntryTypeOK
  <2> QED BY <2>1, <2>2
<1>6. EntryTypeOK'
  <2>1. /\ NPNFuncs' \in [Functions -> 0 .. MaxLoads] /\ version' \in 0 .. 255
        /\ loads' \in 0 .. MaxLoads
        /\ answer' \in {NPERR_NO_ERROR, "INVALID_FUNCTABLE_ERROR", "INCOMPATIBLE_VERSION_ERROR"}
      BY <1>1, <1>3, <1>5
  <2> QED BY <1>4, <2>1, Zenon DEF EntryTypeOK
<1>7. loaded' => /\ loads' # 0
                 /\ \A f \in Functions :
                        NPNFuncs'[f] = IF Since(f) <= version' THEN loads' ELSE 0
  <2>1. loaded' => answer' = NPERR_NO_ERROR
      BY <1>4, Zenon
  <2>2. ASSUME TableError(table) = NPERR_NO_ERROR
        PROVE \A f \in Functions : NPNFuncs'[f] = IF Since(f) <= version' THEN loads' ELSE 0
      BY <1>5, <2>2
  <2>3. answer' = NPERR_NO_ERROR => TableError(table) = NPERR_NO_ERROR
      BY <1>3
  <2> QED BY <1>1, <2>1, <2>2, <2>3, Zenon
<1> QED BY <1>6, <1>7, Zenon DEF EntryInv

\* NP_Shutdown leaves the copy as it is.
LEMMA EntryShutdown == EntryInv /\ NP_Shutdown => EntryInv'
<1> SUFFICES ASSUME EntryInv, NP_Shutdown PROVE EntryInv'
    OBVIOUS
<1>1. loaded' = FALSE /\ UNCHANGED <<NPNFuncs, version, loads, answer, badCall>>
    BY DEF NP_Shutdown
<1> QED BY <1>1, Zenon DEF EntryInv, EntryTypeOK

\* A call of a function that the browser has comes to that function.
LEMMA HasIsCalled ==
    ASSUME EntryInv, loaded, NEW f \in Functions, Since(f) <= version
    PROVE Outcome(f) = "called"
<1>1. AskedFor(f) <= Since(f)
    BY DEF AskedFor, Since, Functions, Streams, Classic, Notified, Windowless, Runtime, Later
<1>2. AskedFor(f) \in Nat /\ Since(f) \in Nat /\ version \in Nat
    BY SinceIsNumber DEF AskedFor, EntryInv, EntryTypeOK
<1>3. ~(version < AskedFor(f))
    BY <1>1, <1>2
<1> QED BY <1>3 DEF Outcome, EntryInv

\* A copy of this browser's functions is a current table.
LEMMA TableInvCurrent == EntryInv => TableIsCurrent
<1> SUFFICES ASSUME EntryInv, loaded, NEW f \in Functions
             PROVE /\ version >= Since(f) => Outcome(f) = "called"
                   /\ AskedFor(f) > 0 => Outcome(f) \in {"called", "refused"}
                   /\ Outcome(f) # "gone"
    BY DEF TableIsCurrent
<1>1. AskedFor(f) \in Nat /\ Since(f) \in Nat /\ version \in Nat
    BY SinceIsNumber DEF AskedFor, EntryInv, EntryTypeOK
<1>2. AskedFor(f) > 0 => AskedFor(f) = Since(f)
    BY DEF AskedFor, Since, Functions, Streams, Classic, Notified, Windowless, Runtime, Later
<1>3. CASE Since(f) <= version
    BY <1>3, HasIsCalled
<1>4. CASE ~(Since(f) <= version)
    BY <1>1, <1>2, <1>4 DEF EntryInv, Outcome
<1> QED BY <1>1, <1>3, <1>4

-----------------------------------------------------------------------------
(* The calls that the plugin makes of the browser *)

\* There is a peer only in a browser that knows scripts, and an instance only
\* in one that has the plugin loaded.
LivesInv ==
    /\ alive \in BOOLEAN /\ peer \in BOOLEAN
    /\ peer => (alive /\ version >= 14)
    /\ alive => loaded
    /\ NoBadCall

\* The version that brought windowless plugins.
LEMMA SinceWindowless == \A f \in Windowless : f \in Functions /\ Since(f) = 11
<1>1. \A f \in Windowless : f \in Functions
    BY DEF Functions
<1>2. \A f \in Windowless : f \notin Classic \cup Streams \cup Notified \cup Runtime \cup Later
    BY DEF Windowless, Classic, Streams, Notified, Runtime, Later
<1>3. \A f \in Windowless : Since(f) = 11
    BY <1>2 DEF Since
<1> QED BY <1>1, <1>3

\* The version that brought scripts.
LEMMA SinceRuntime == \A f \in Runtime : f \in Functions /\ Since(f) = 14
<1>1. \A f \in Runtime : f \in Functions
    BY DEF Functions
<1>2. \A f \in Runtime : f \notin Classic \cup Streams \cup Notified \cup Windowless \cup Later
    BY DEF Windowless, Classic, Streams, Notified, Runtime, Later
<1>3. \A f \in Runtime : Since(f) = 14
    BY <1>2 DEF Since
<1> QED BY <1>1, <1>3

\* The functions that are called for a new instance, and those called for a peer.
LEMMA UsesSafe ==
    ASSUME EntryInv, loaded, NEW fs, Uses(fs),
           \/ fs \subseteq {"setvalue"}
           \/ (version >= 14 /\ fs \subseteq Windowless \cup Runtime)
    PROVE badCall' \in BOOLEAN /\ (badCall' => version < 11)
<1>1. badCall' = ~Callable(fs)
    BY Zenon DEF Uses
<1>2. version \in 0 .. 255
    BY DEF EntryInv, EntryTypeOK
<1>3. ASSUME version >= 11 PROVE Callable(fs)
  <2> SUFFICES ASSUME NEW f \in fs PROVE Outcome(f) = "called"
      BY DEF Callable
  <2>1. f \in Functions /\ Since(f) <= version
    <3>1. CASE fs \subseteq {"setvalue"}
      <4>1. f \in Windowless
          BY <3>1 DEF Windowless
      <4> QED BY <1>2, <1>3, <4>1, SinceWindowless
    <3>2. CASE version >= 14 /\ fs \subseteq Windowless \cup Runtime
        BY <1>2, <1>3, <3>2, SinceWindowless, SinceRuntime
    <3> QED BY <3>1, <3>2
  <2> QED BY <2>1, HasIsCalled
<1>4. ~Callable(fs) => version < 11
    BY <1>2, <1>3
<1> QED BY <1>1, <1>4, Zenon

\* A step that calls such functions, or none, and changes no table.
LEMMA KeepsEntry ==
    ASSUME EntryInv, UNCHANGED entryState, badCall' \in BOOLEAN
    PROVE EntryInv'
<1>1. UNCHANGED <<NPNFuncs, version, loads, answer, loaded>>
    BY DEF entryState
<1> QED BY <1>1, Zenon DEF EntryInv, EntryTypeOK

LivesAndEntryInv == EntryInv /\ LivesInv

\* The browser loads and unloads a plugin without instances.
LEMMA LivesEntry ==
    ASSUME LivesAndEntryInv, ~badCall, Entry PROVE LivesAndEntryInv'
<1>1. ~alive /\ ~peer /\ alive \in BOOLEAN /\ peer \in BOOLEAN /\ ~badCall
    BY Zenon DEF LivesAndEntryInv, LivesInv, Entry
<1>2. UNCHANGED <<alive, peer, badCall>>
  <2>1. UNCHANGED <<alive, peer>> /\ (Initialize \/ NP_Shutdown)
      BY Zenon DEF Entry
  <2>2. Initialize => badCall' = badCall
      BY DEF Initialize, NP_Initialize
  <2>3. NP_Shutdown => badCall' = badCall
      BY DEF NP_Shutdown
  <2> QED BY <2>1, <2>2, <2>3
<1>3. EntryInv'
    BY EntryInitialize, EntryShutdown, Zenon DEF Entry, LivesAndEntryInv
<1> QED BY <1>1, <1>2, <1>3, Zenon DEF LivesAndEntryInv, LivesInv, NoBadCall

\* A new instance calls a function that its browser has.
LEMMA LivesNew ==
    ASSUME LivesAndEntryInv, ~badCall, NPP_New PROVE LivesAndEntryInv'
<1>1. EntryInv /\ loaded /\ ~peer /\ peer \in BOOLEAN /\ Uses({"setvalue"})
    BY Zenon DEF LivesAndEntryInv, LivesInv, NPP_New
<1>2. alive' = TRUE /\ UNCHANGED <<entryState, peer>> /\ UNCHANGED <<version, loaded>>
    BY DEF NPP_New, entryState
<1>3. badCall' \in BOOLEAN /\ (badCall' => version < 11)
    BY <1>1, UsesSafe
<1>4. EntryInv'
    BY <1>1, <1>2, <1>3, KeepsEntry
<1> QED BY <1>1, <1>2, <1>3, <1>4, Zenon DEF LivesAndEntryInv, LivesInv, NoBadCall

\* So does the end of an instance.
LEMMA LivesDestroy ==
    ASSUME LivesAndEntryInv, ~badCall, NPP_Destroy PROVE LivesAndEntryInv'
<1> DEFINE fs == IF peer THEN {"releaseobject"} ELSE {}
<1>1. EntryInv /\ loaded /\ Uses(fs)
    BY Zenon DEF LivesAndEntryInv, LivesInv, NPP_Destroy
<1>2. alive' = FALSE /\ peer' = FALSE /\ UNCHANGED <<entryState, version>>
    BY DEF NPP_Destroy, entryState
<1>3. fs \subseteq {"setvalue"} \/ (version >= 14 /\ fs \subseteq Windowless \cup Runtime)
  <2>1. "releaseobject" \in Runtime
      BY DEF Runtime
  <2>2. peer => version >= 14
      BY Zenon DEF LivesAndEntryInv, LivesInv
  <2> QED BY <2>1, <2>2, Zenon
<1> HIDE DEF fs
<1>4. badCall' \in BOOLEAN /\ (badCall' => version < 11)
    BY <1>1, <1>3, UsesSafe
<1>5. EntryInv'
    BY <1>1, <1>2, <1>4, KeepsEntry
<1> QED BY <1>2, <1>4, <1>5, Zenon DEF LivesAndEntryInv, LivesInv, NoBadCall

\* The peer is made in a browser that knows scripts.
LEMMA LivesGetValue ==
    ASSUME LivesAndEntryInv, ~badCall, NEW variable, GetValue(variable) PROVE LivesAndEntryInv'
<1> DEFINE fs == IF ~IsForPeer(variable) THEN {}
                 ELSE {"retainobject"} \cup IF peer THEN {} ELSE {"createobject", "getstringidentifier"}
<1>1. EntryInv /\ loaded /\ alive /\ peer \in BOOLEAN /\ Uses(fs)
    BY Zenon DEF LivesAndEntryInv, LivesInv, GetValue
<1>2. alive' = alive /\ peer' = (peer \/ IsForPeer(variable))
      /\ UNCHANGED entryState /\ UNCHANGED <<version, loaded>>
    BY DEF GetValue, entryState
<1>3. IsForPeer(variable) => version >= 14
    BY Zenon DEF GetValue, IsForPeer
<1>4. fs \subseteq {"setvalue"} \/ (version >= 14 /\ fs \subseteq Windowless \cup Runtime)
  <2>1. {"retainobject", "createobject", "getstringidentifier"} \subseteq Runtime
      BY DEF Runtime
  <2>2. fs \subseteq {"retainobject", "createobject", "getstringidentifier"}
        /\ (~IsForPeer(variable) => fs = {})
      BY Zenon
  <2> HIDE DEF fs
  <2> QED BY <1>3, <2>1, <2>2
<1> HIDE DEF fs
<1>5. badCall' \in BOOLEAN /\ (badCall' => version < 11)
    BY <1>1, <1>4, UsesSafe
<1>6. EntryInv'
    BY <1>1, <1>2, <1>5, KeepsEntry
<1>7. peer => version >= 14
    BY Zenon DEF LivesAndEntryInv, LivesInv
<1> QED BY <1>1, <1>2, <1>3, <1>5, <1>6, <1>7, Zenon DEF LivesAndEntryInv, LivesInv, NoBadCall

\* connect() without a port tells the page by functions of scripts.
LEMMA LivesConnect ==
    ASSUME LivesAndEntryInv, ~badCall, Connect PROVE LivesAndEntryInv'
<1> DEFINE fs == IF HasPort THEN {} ELSE OnDisconnectedUses
<1>1. EntryInv /\ loaded /\ alive \in BOOLEAN /\ peer \in BOOLEAN /\ alive /\ peer /\ version >= 14 /\ Uses(fs)
    BY Zenon DEF LivesAndEntryInv, LivesInv, Connect
<1>2. UNCHANGED <<entryState, alive, peer, version, loaded>>
    BY DEF Connect, entryState
<1>3. fs \subseteq Windowless \cup Runtime
  <2>1. OnDisconnectedUses \subseteq Windowless \cup Runtime
      BY DEF Windowless, Runtime, OnDisconnectedUses
  <2> QED BY <2>1, Zenon
<1> HIDE DEF fs
<1>4. badCall' \in BOOLEAN /\ (badCall' => version < 11)
    BY <1>1, <1>3, UsesSafe
<1>5. EntryInv'
    BY <1>1, <1>2, <1>4, KeepsEntry
<1> QED BY <1>1, <1>2, <1>4, <1>5, Zenon DEF LivesAndEntryInv, LivesInv, NoBadCall

\* Setting a property calls nothing.
LEMMA LivesKept ==
    ASSUME LivesAndEntryInv, UNCHANGED <<entryVars, alive, peer>> PROVE LivesAndEntryInv'
<1>1. UNCHANGED <<NPNFuncs, version, loads, answer, loaded, badCall, alive, peer>>
    BY DEF entryVars
<1>2. UNCHANGED entryState
    BY <1>1 DEF entryState
<1>3. EntryInv /\ badCall' \in BOOLEAN
    BY <1>1, Zenon DEF LivesAndEntryInv, EntryInv, EntryTypeOK
<1>4. EntryInv'
    BY <1>2, <1>3, KeepsEntry
<1>5. alive' = alive /\ peer' = peer /\ loaded' = loaded /\ version' = version /\ badCall' = badCall
    BY <1>1
<1>6. badCall' => version' < 11
  <2>1. badCall => version < 11
      BY Zenon DEF LivesAndEntryInv, LivesInv, NoBadCall
  <2> QED BY <1>5, <2>1
<1>7. peer' => (alive' /\ version' >= 14)
  <2>1. peer => (alive /\ version >= 14)
      BY Zenon DEF LivesAndEntryInv, LivesInv
  <2> QED BY <1>5, <2>1
<1>8. alive' \in BOOLEAN /\ peer' \in BOOLEAN /\ (alive' => loaded')
  <2>1. alive \in BOOLEAN /\ peer \in BOOLEAN /\ (alive => loaded)
      BY Zenon DEF LivesAndEntryInv, LivesInv
  <2> QED BY <1>5, <2>1
<1> QED BY <1>4, <1>6, <1>7, <1>8, Zenon DEF LivesAndEntryInv, LivesInv, NoBadCall

\* EntryInv and LivesInv are invariants.
LEMMA LivesInvariant == Spec => []LivesAndEntryInv
<1>1. Init => LivesAndEntryInv
  <2> SUFFICES ASSUME Init PROVE LivesAndEntryInv
      OBVIOUS
  <2>1. EntryInv /\ badCall = FALSE /\ alive = FALSE /\ peer = FALSE
      BY EntryInitInv, Zenon DEF Init, EntryInit
  <2> QED BY <2>1, Zenon DEF LivesAndEntryInv, LivesInv, NoBadCall
<1>2. LivesAndEntryInv /\ [Next]_vars => LivesAndEntryInv'
  <2> SUFFICES ASSUME LivesAndEntryInv, [Next]_vars PROVE LivesAndEntryInv'
      OBVIOUS
  <2>1. CASE UNCHANGED vars
    <3>1. UNCHANGED <<entryVars, alive, peer>>
        BY <2>1 DEF vars
    <3> QED BY <3>1, LivesKept
  <2>2. ASSUME Page, ~badCall PROVE LivesAndEntryInv'
    <3>1. CASE Connect
        BY <2>2, <3>1, LivesConnect
    <3>2. ASSUME NEW name, NEW value, Write(name, value) PROVE LivesAndEntryInv'
        BY <3>2, LivesKept DEF Write
    <3> QED BY <2>2, <3>1, <3>2, Zenon DEF Page, SetProperty, SetUsbFilter
  <2>3. CASE Stopped
      BY <2>1, <2>3, Zenon DEF Stopped
  <2> QED BY <2>1, <2>2, <2>3, LivesEntry, LivesNew, LivesDestroy, LivesGetValue, Zenon DEF Next
<1> QED BY <1>1, <1>2, PTL DEF Spec

\* The table is that of the browser, after any number of loads in browsers of
\* any versions (np_entry.cpp, npn_gate.cpp).
THEOREM TableAlwaysCurrent == Spec => []TableIsCurrent
<1>1. LivesAndEntryInv => TableIsCurrent
    BY TableInvCurrent DEF LivesAndEntryInv
<1> QED BY <1>1, LivesInvariant, PTL

\* No browser that knows windowless plugins is called where it has no function
\* (npn_gate.cpp:194, plugin.cpp:161, 837-848).
THEOREM NeverBadCall == Spec => []NoBadCall
<1>1. LivesAndEntryInv => NoBadCall
    BY Zenon DEF LivesAndEntryInv, LivesInv
<1> QED BY <1>1, LivesInvariant, PTL

-----------------------------------------------------------------------------
(* What the properties keep *)

\* No two properties share a member.
LEMMA OwnMember ==
    /\ \A a, b \in Attributes : MemberOf(a) = MemberOf(b) => a = b
    /\ \A a \in Attributes : /\ MemberOf(a) # "m_usb_filter"
                             /\ MemberOf(a) = "m_ssl_channels" <=> a = "SSLChannels"
                             /\ MemberOf(a) = "m_proxy" <=> a = "Proxy"
                             /\ a # "UsbFilter"
<1> USE DEF Attributes, HasProperty, MemberOf, Addressing, Presentation, Guest
<1>1. \A a, b \in Attributes : MemberOf(a) = MemberOf(b) => a = b
    OBVIOUS
<1>2. \A a \in Attributes : MemberOf(a) # "m_usb_filter" /\ a # "UsbFilter"
    OBVIOUS
<1>3. \A a \in Attributes : MemberOf(a) = "m_ssl_channels" <=> a = "SSLChannels"
    OBVIOUS
<1>4. \A a \in Attributes : MemberOf(a) = "m_proxy" <=> a = "Proxy"
    OBVIOUS
<1> QED BY <1>1, <1>2, <1>3, <1>4

\* The types of the values of a script.
LEMMA ValueTypes ==
    ASSUME NEW value \in Values \cup ChannelValues
    PROVE \/ value.type = "string" /\ value.text \in MemberTexts
          \/ value.type = "boolean" /\ value.text.n \in {0, 1}
          \/ /\ value.type \in {"int32", "double"}
             /\ value.text.form = "number" /\ value.text.n \in Int
<1> USE NumbersAssumption
        DEF Text, Boolean, Int32, Double, Number, Empty, Other, Texts, MemberTexts, Channels
<1>1. CASE value \in Values
    BY <1>1 DEF Values
<1>2. CASE value \in ChannelValues
    BY <1>2 DEF ChannelValues
<1> QED BY <1>1, <1>2

\* What a member is set to has the member's type.
LEMMA StoredTypes ==
    ASSUME NEW name \in Attributes, NEW value \in Values \cup ChannelValues,
           NEW x \in Stored(MemberOf(name), value)
    PROVE x \in IF MemberOf(name) \in FlagMembers THEN {Flag(0), Flag(1)} ELSE MemberTexts
<1>1. \A y \in Converted(value) : y \in MemberTexts
  <2>1. CASE value.type = "string"
      BY <2>1, ValueTypes DEF Converted
  <2>2. CASE value.type = "boolean"
      BY <2>2 DEF Converted, MemberTexts, Texts
  <2>3. CASE value.type \in {"int32", "double"}
    <3>1. \A n \in InVal(value) : n \in Int
        BY <2>3, ValueTypes, NumberKept
    <3>2. Converted(value) = {Number(n) : n \in InVal(value)}
        BY <2>3 DEF Converted
    <3> QED BY <3>1, <3>2 DEF MemberTexts, Texts, Number
  <2> QED BY <2>1, <2>2, <2>3, ValueTypes
<1>2. \A y \in MemberTexts : Renamed(y) \in MemberTexts
    BY DEF Renamed, MemberTexts, Texts, Channels, Number, Empty, Other
<1> QED BY <1>1, <1>2 DEF Stored

\* What a member is set to is what the page asked for.
LEMMA StoredMeans ==
    ASSUME NEW name \in Attributes, NEW value \in Values \cup ChannelValues,
           NEW x \in Stored(MemberOf(name), value)
    PROVE Means(name, value, x)
<1> DEFINE flag == MemberOf(name) \in FlagMembers
<1>1. name # "UsbFilter" /\ (MemberOf(name) = "m_ssl_channels" <=> name = "SSLChannels")
    BY OwnMember
<1>2. CASE value.type = "string"
  <2>1. CASE flag
      BY <1>1, <1>2, <2>1 DEF Means
  <2>2. CASE ~flag /\ name # "SSLChannels"
    <3>1. x = value.text
        BY <1>1, <1>2, <2>2 DEF Stored, Converted
    <3> QED BY <1>1, <1>2, <2>2, <3>1 DEF Means
  <2>3. CASE ~flag /\ name = "SSLChannels"
    <3>1. x = Renamed(value.text)
        BY <1>1, <1>2, <2>3 DEF Stored, Converted
    <3>2. \/ value.text \in {Channels(1), Channels(2)}
          \/ x = value.text
        BY <1>2, <3>1, ValueTypes DEF Renamed, MemberTexts, Texts, Channels, Number, Empty, Other
    <3>3. value.text = Channels(1) => x = Channels(0)
        BY <3>1 DEF Renamed, Channels
    <3> QED BY <1>1, <1>2, <2>3, <3>2, <3>3 DEF Means
  <2> QED BY <2>1, <2>2, <2>3
<1>3. CASE value.type = "boolean"
  <2>1. flag => x = Flag(value.text.n)
      BY <1>3, ValueTypes DEF Stored, IsTrue
  <2> QED BY <1>1, <1>3, <2>1 DEF Means
<1>4. CASE value.type \in {"int32", "double"}
  <2>1. CASE flag
      BY <1>1, <1>4, <2>1 DEF Means
  <2>2. CASE ~flag
    <3>1. PICK y \in Converted(value) : x = y \/ x = Renamed(y)
        BY <2>2 DEF Stored
    <3>2. PICK n \in InVal(value) : y = Number(n)
        BY <1>4, <3>1 DEF Converted
    <3>3. x = Number(n)
        BY <3>1, <3>2 DEF Renamed, Number
    <3>4. PortAsked(value) = -1 \/ n = PortAsked(value)
        BY <1>4, ValueTypes, NumberKept
    <3> QED BY <1>1, <1>4, <2>2, <3>3, <3>4 DEF Means
  <2> QED BY <2>1, <2>2
<1> QED BY <1>2, <1>3, <1>4, ValueTypes

-----------------------------------------------------------------------------
\* Every member has what was last asked for by its property, the controller has
\* the proxy, and the messages that were sent are those of the members.
KeptInv ==
    /\ DOMAIN members = Members
    /\ \A member \in Members :
        members[member] \in IF member \in FlagMembers THEN {Flag(0), Flag(1)} ELSE MemberTexts
    /\ proxy = members["m_proxy"]
    /\ asked \in [Asked -> Values \cup ChannelValues \cup {Unset}]
    /\ writes \in 0 .. MaxWrites
    /\ \A name \in Attributes : Faithful(name, members[MemberOf(name)])
    /\ Faithful("UsbFilter", members["m_usb_filter"])
    /\ sent = NotSent \/ sent = Messages(members)

\* Each property's member is a member.
LEMMA MembersAndNames ==
    /\ \A name \in Attributes : MemberOf(name) \in Members /\ name \in Asked
    /\ "m_proxy" \in Members \ FlagMembers /\ "m_usb_filter" \in Members \ FlagMembers
    /\ "UsbFilter" \in Asked
<1>1. "Proxy" \in Attributes /\ MemberOf("Proxy") = "m_proxy"
    BY DEF Attributes, HasProperty, MemberOf, Addressing, Presentation, Guest
<1> QED BY <1>1 DEF Members, Asked, Attributes, FlagMembers

\* A new instance, or none.
Fresh ==
    /\ members = Constructed /\ proxy = Empty
    /\ asked = NotAsked /\ sent = NotSent /\ writes \in 0 .. MaxWrites

\* A new instance keeps the defaults.
LEMMA KeptFresh == Fresh => KeptInv
<1> SUFFICES ASSUME Fresh PROVE KeptInv
    OBVIOUS
<1> USE DEF Fresh
<1>1. \A member \in Members : members[member] = Default(member)
    BY DEF Constructed
<1>2. \A member \in Members :
        Default(member) \in IF member \in FlagMembers THEN {Flag(0), Flag(1)} ELSE MemberTexts
    BY DEF Default, FlagMembers, MemberTexts, Texts
<1>3. \A name \in Asked : asked[name] = Unset
    BY DEF NotAsked
<1>4. \A name \in Attributes : Means(name, Unset, Default(MemberOf(name)))
    BY OwnMember DEF Means, Unset
<1>5. Means("UsbFilter", Unset, Default("m_usb_filter"))
    BY DEF Means, Unset
<1>6. asked \in [Asked -> Values \cup ChannelValues \cup {Unset}]
    BY DEF NotAsked
<1>7. proxy = members["m_proxy"]
    BY <1>1, MembersAndNames DEF Default, FlagMembers
<1>8. DOMAIN members = Members
    BY DEF Constructed
<1>9. \A name \in Attributes : Faithful(name, members[MemberOf(name)])
    BY <1>1, <1>3, <1>4, MembersAndNames DEF Faithful
<1>10. Faithful("UsbFilter", members["m_usb_filter"])
    BY <1>1, <1>3, <1>5, MembersAndNames DEF Faithful
<1> QED BY <1>1, <1>2, <1>6, <1>7, <1>8, <1>9, <1>10 DEF KeptInv

\* So does the next state, when the instance is made or deleted.
LEMMA KeptFreshNext == Fresh' => KeptInv'
BY KeptFresh, PTL

\* A write: to the property's member alone, a value that it may keep.
LEMMA KeptWrite ==
    ASSUME KeptInv, NEW name \in Asked, NEW value \in Values \cup ChannelValues,
           Write(name, value), NEW member, NEW x,
           members' = IF member = "none" THEN members ELSE [members EXCEPT ![member] = x],
           proxy' = IF member = "m_proxy" THEN x ELSE proxy,
           \/ name = "UsbListenPort" /\ member = "none"
           \/ name \in Attributes /\ member = MemberOf(name) /\ x \in Stored(member, value)
           \/ /\ name = "UsbFilter" /\ member = "m_usb_filter"
              /\ value.type = "string" /\ x = value.text
    PROVE KeptInv'
<1>1. /\ writes' \in 0 .. MaxWrites /\ sent' = NotSent
      /\ asked' = [asked EXCEPT ![name] = value]
    BY SettingsAssumption DEF Write, KeptInv
<1>2. /\ asked' \in [Asked -> Values \cup ChannelValues \cup {Unset}]
      /\ asked'[name] = value
      /\ \A other \in Asked \ {name} : asked'[other] = asked[other]
    BY <1>1 DEF KeptInv
<1>3. "none" \notin Members
    BY DEF Members, Attributes, HasProperty, MemberOf, Addressing, Presentation, Guest
<1>4. member # "none" => member \in Members
    BY MembersAndNames
<1>5. /\ DOMAIN members' = Members
      /\ \A m \in Members : members'[m] = IF m = member THEN x ELSE members[m]
    BY <1>3, <1>4 DEF KeptInv
<1>6. member # "none" => x \in IF member \in FlagMembers THEN {Flag(0), Flag(1)} ELSE MemberTexts
    BY StoredTypes, ValueTypes, MembersAndNames
<1>7. \A m \in Members :
        members'[m] \in IF m \in FlagMembers THEN {Flag(0), Flag(1)} ELSE MemberTexts
    BY <1>3, <1>5, <1>6 DEF KeptInv
<1>8. proxy' = members'["m_proxy"]
    BY <1>5, MembersAndNames DEF KeptInv
<1>9. ASSUME NEW other \in Attributes PROVE Faithful(other, members[MemberOf(other)])'
  <2>1. CASE other = name
    <3>1. members'[MemberOf(other)] = x /\ Means(name, value, x)
        BY <1>5, <2>1, OwnMember, MembersAndNames, StoredMeans DEF Attributes
    <3> QED BY <1>2, <2>1, <3>1 DEF Faithful
  <2>2. CASE other # name
    <3>1. MemberOf(other) # member /\ MemberOf(other) \in Members /\ other \in Asked
        BY <1>3, <2>2, OwnMember, MembersAndNames
    <3>2. members'[MemberOf(other)] = members[MemberOf(other)] /\ asked'[other] = asked[other]
        BY <1>2, <1>5, <2>2, <3>1
    <3> QED BY <3>2 DEF Faithful, KeptInv
  <2> QED BY <2>1, <2>2
<1>10. Faithful("UsbFilter", members["m_usb_filter"])'
  <2>1. CASE name = "UsbFilter"
    <3>1. members'["m_usb_filter"] = x /\ value.type = "string" /\ x = value.text
        BY <1>5, <2>1, OwnMember, MembersAndNames
    <3>2. Means("UsbFilter", value, x)
        BY <3>1 DEF Means
    <3> QED BY <1>2, <2>1, <3>1, <3>2 DEF Faithful
  <2>2. CASE name # "UsbFilter"
    <3>1. /\ members'["m_usb_filter"] = members["m_usb_filter"]
          /\ asked'["UsbFilter"] = asked["UsbFilter"]
        BY <1>2, <1>5, <2>2, OwnMember, MembersAndNames
    <3> QED BY <3>1 DEF Faithful, KeptInv
  <2> QED BY <2>1, <2>2
<1> QED BY <1>1, <1>2, <1>5, <1>7, <1>8, <1>9, <1>10 DEF KeptInv

\* A setter changes its own member, and connect() sends the members.
LEMMA KeptPage == KeptInv /\ Page => KeptInv'
<1> SUFFICES ASSUME KeptInv, Page PROVE KeptInv'
    OBVIOUS
<1>1. CASE Connect
  <2>1. /\ UNCHANGED <<members, proxy, asked, writes>>
        /\ sent' = IF HasPort THEN Messages(members) ELSE NotSent
      BY <1>1 DEF Connect
  <2>2. Messages(members)' = Messages(members)
      BY <2>1 DEF Messages
  <2> QED BY <2>1, <2>2 DEF KeptInv, Faithful
<1>2. ASSUME NEW name \in HasProperty, NEW value \in Values \cup ChannelValues,
             SetProperty(name, value)
      PROVE KeptInv'
  <2>1. name \in Asked /\ Write(name, value)
      BY <1>2 DEF SetProperty, Asked
  <2>2. CASE name = "UsbListenPort"
      BY <1>2, <2>1, <2>2, KeptWrite DEF SetProperty
  <2>3. CASE name # "UsbListenPort"
    <3>1. name \in Attributes
        BY <2>3 DEF Attributes
    <3>2. PICK x \in Stored(MemberOf(name), value) :
            /\ members' = [members EXCEPT ![MemberOf(name)] = x]
            /\ proxy' = IF name = "Proxy" THEN x ELSE proxy
        BY <1>2, <2>3 DEF SetProperty
    <3>3. MemberOf(name) # "none" /\ (name = "Proxy" <=> MemberOf(name) = "m_proxy")
        BY <3>1, OwnMember
           DEF Attributes, HasProperty, MemberOf, Addressing, Presentation, Guest
    <3> QED BY <2>1, <3>1, <3>2, <3>3, KeptWrite
  <2> QED BY <2>2, <2>3
<1>3. ASSUME NEW value \in Values, SetUsbFilter(value) PROVE KeptInv'
  <2>1. /\ "UsbFilter" \in Asked /\ Write("UsbFilter", value) /\ value.type = "string"
        /\ members' = [members EXCEPT !["m_usb_filter"] = value.text] /\ proxy' = proxy
      BY <1>3 DEF SetUsbFilter, Asked
  <2>2. /\ value \in Values \cup ChannelValues
        /\ members' = IF "m_usb_filter" = "none" THEN members
                      ELSE [members EXCEPT !["m_usb_filter"] = value.text]
        /\ proxy' = IF "m_usb_filter" = "m_proxy" THEN value.text ELSE proxy
      BY <2>1
  <2> QED BY <2>1, <2>2, KeptWrite
<1> QED BY <1>1, <1>2, <1>3 DEF Page

\* KeptInv is an invariant.
LEMMA KeptInvariant == Spec => []KeptInv
<1>1. Init => KeptInv
  <2>1. Init => Fresh
      BY SettingsAssumption DEF Init, Fresh
  <2> QED BY <2>1, KeptFresh
<1>2. KeptInv /\ [Next]_vars => KeptInv'
  <2> SUFFICES ASSUME KeptInv, [Next]_vars PROVE KeptInv'
      OBVIOUS
  <2>1. ASSUME UNCHANGED <<instanceVars, writes>> PROVE KeptInv'
    <3>1. Messages(members)' = Messages(members)
        BY <2>1 DEF Messages, instanceVars
    <3> QED BY <2>1, <3>1 DEF KeptInv, Faithful, instanceVars
  <2>2. ASSUME Cleared, writes' = writes PROVE KeptInv'
    <3>1. Fresh'
        BY <2>2 DEF Cleared, Fresh, KeptInv
    <3> QED BY <3>1, KeptFreshNext
  <2>3. CASE Entry
      BY <2>1, <2>3, Zenon DEF Entry
  <2>4. CASE NPP_New \/ NPP_Destroy
      BY <2>2, <2>4, Zenon DEF NPP_New, NPP_Destroy
  <2>5. CASE \E variable \in {"ScriptableNPObject", "other"} : GetValue(variable)
      BY <2>1, <2>5, Zenon DEF GetValue
  <2>6. CASE UNCHANGED vars
    <3>1. UNCHANGED <<instanceVars, writes>>
        BY <2>6 DEF vars
    <3> QED BY <2>1, <3>1
  <2> QED BY <2>3, <2>4, <2>5, <2>6, KeptPage, Zenon DEF Next, Stopped
<1> QED BY <1>1, <1>2, PTL DEF Spec

\* Types, for any numbers that a page may write and any number of writes
\* (nsScriptablePeer.cpp:281-328).
THEOREM SettingsTypeCorrect == Spec => []SettingsTypeOK
<1>1. LivesAndEntryInv /\ KeptInv => SettingsTypeOK
  <2> SUFFICES ASSUME LivesAndEntryInv, KeptInv PROVE SettingsTypeOK
      OBVIOUS
  <2>1. EntryTypeOK /\ alive \in BOOLEAN /\ peer \in BOOLEAN
      BY Zenon DEF LivesAndEntryInv, LivesInv, EntryInv
  <2>2. /\ writes \in 0 .. MaxWrites
        /\ \A member \in Members : members[member]
                \in IF member \in FlagMembers THEN {Flag(0), Flag(1)} ELSE MemberTexts
        /\ proxy \in MemberTexts
        /\ asked \in [Asked -> Values \cup ChannelValues \cup {Unset}]
      BY MembersAndNames DEF KeptInv
  <2> QED BY <2>1, <2>2, Zenon DEF SettingsTypeOK
<1> QED BY <1>1, LivesInvariant, KeptInvariant, PTL

\* A page reads back what it set, after any number of other writes
\* (plugin.cpp:312-590).
THEOREM ReadsBack == Spec => []ReadBack
<1>1. KeptInv => ReadBack
  <2> SUFFICES ASSUME KeptInv, NEW name \in Attributes PROVE Faithful(name, GetProperty(name))
      BY DEF ReadBack
  <2>1. GetProperty(name) = members[MemberOf(name)]
      BY DEF GetProperty, Attributes
  <2> QED BY <2>1 DEF KeptInv
<1> QED BY <1>1, KeptInvariant, PTL

\* Every message says what the page asked for with its property (plugin.cpp:707-730).
THEOREM MessagesAlwaysAsAsked == Spec => []EndToEnd
<1>1. KeptInv => EndToEnd
  <2> SUFFICES ASSUME KeptInv, sent.CONNECT
               PROVE /\ \A message \in DOMAIN About : Faithful(About[message], sent[message])
                     /\ Faithful("fullScreen", Flag(sent.FULL_SCREEN % 2))
                     /\ Faithful("AdminConsole", Flag(1 - sent.FULL_SCREEN \div 2))
                     /\ asked["ColorDepth"].type = "string" =>
                            sent.COLOR_DEPTH = atoi(asked["ColorDepth"].text)
      BY DEF EndToEnd
  <2>1. sent = Messages(members)
      BY DEF KeptInv, NotSent
  <2>2. \A name \in Attributes : Faithful(name, members[MemberOf(name)])
      BY DEF KeptInv
  <2>3. \A message \in DOMAIN About : Faithful(About[message], sent[message])
    <3>1. /\ Faithful("hostIP", members["m_host_ip"]) /\ Faithful("Smartcard", members["m_smartcard"])
          /\ Faithful("Password", members["m_password"])
          /\ Faithful("CipherSuite", members["m_cipher_suite"])
          /\ Faithful("Title", members["m_title"])
          /\ Faithful("SendCtrlAltDelete", members["m_send_ctrlaltdel"])
          /\ Faithful("UsbAutoShare", members["m_usb_auto_share"])
          /\ Faithful("SSLChannels", members["m_ssl_channels"])
          /\ Faithful("TrustStore", members["m_trust_store"])
          /\ Faithful("HostSubject", members["m_host_subject"])
          /\ Faithful("HotKey", members["m_hot_keys"])
          /\ Faithful("DisableEffects", members["m_disable_effects"])
          /\ Faithful("Proxy", members["m_proxy"])
        BY <2>2 DEF Attributes, HasProperty, MemberOf, Addressing, Presentation, Guest
    <3>2. Faithful("UsbFilter", members["m_usb_filter"]) /\ proxy = members["m_proxy"]
        BY DEF KeptInv
    <3> QED BY <2>1, <3>1, <3>2 DEF About, Messages
  <2>4. /\ members["m_fullscreen"] \in {Flag(0), Flag(1)}
        /\ members["m_admin_console"] \in {Flag(0), Flag(1)}
        /\ Faithful("fullScreen", members["m_fullscreen"])
        /\ Faithful("AdminConsole", members["m_admin_console"])
    <3>1. /\ "fullScreen" \in Attributes /\ MemberOf("fullScreen") = "m_fullscreen"
          /\ "AdminConsole" \in Attributes /\ MemberOf("AdminConsole") = "m_admin_console"
        BY DEF Attributes, HasProperty, MemberOf, Addressing, Presentation, Guest
    <3> QED BY <2>2, <3>1, MembersAndNames DEF KeptInv, FlagMembers
  <2>5. sent.FULL_SCREEN = members["m_fullscreen"].n + 2 * (1 - members["m_admin_console"].n)
      BY <2>1 DEF Messages, FullScreen
  <2>6. /\ Flag(sent.FULL_SCREEN % 2) = members["m_fullscreen"]
        /\ Flag(1 - sent.FULL_SCREEN \div 2) = members["m_admin_console"]
      BY <2>4, <2>5 DEF Flag
  <2>7. asked["ColorDepth"].type = "string" =>
            sent.COLOR_DEPTH = atoi(asked["ColorDepth"].text)
    <3>1. /\ "ColorDepth" \in Attributes /\ MemberOf("ColorDepth") = "m_color_depth"
          /\ "m_color_depth" \notin FlagMembers
        BY DEF Attributes, HasProperty, MemberOf, Addressing, Presentation, Guest, FlagMembers
    <3>2. asked["ColorDepth"].type = "string" =>
            members["m_color_depth"] = asked["ColorDepth"].text
        BY <2>2, <3>1 DEF Faithful, Means
    <3> QED BY <2>1, <3>2 DEF Messages
  <2> QED BY <2>3, <2>4, <2>6, <2>7
<1> QED BY <1>1, KeptInvariant, PTL
=============================================================================

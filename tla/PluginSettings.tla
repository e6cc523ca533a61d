--------------------------- MODULE PluginSettings ---------------------------
(***************************************************************************)
(* The 23 properties of the plugin's object and its method SetUsbFilter    *)
(* (nsScriptablePeer.cpp), the members they are kept in and the messages   *)
(* that connect() makes of them (plugin.cpp), from the moment the browser  *)
(* initializes the plugin (NpEntry) to the moment the client is told.      *)
(* Properties, members and messages are all different strings in the code, *)
(* joined by hand in chains of comparisons.                                *)
(***************************************************************************)
EXTENDS NpEntry, ScriptValues

CONSTANTS
    MaxWrites   \* bound on the properties set in a behaviour

ASSUME SettingsAssumption == MaxWrites \in Nat

\* A flag is kept like a text, to have one function for all members.  The
\* names in a list of channels have n letters s before the name of today.
Flag(n) == [form |-> "flag", n |-> n]
Channels(n) == [form |-> "channels", n |-> n]

\* The member behind each property.
Addressing == [hostIP |-> "m_host_ip", port |-> "m_port", SecurePort |-> "m_secure_port",
    Password |-> "m_password", CipherSuite |-> "m_cipher_suite",
    SSLChannels |-> "m_ssl_channels", TrustStore |-> "m_trust_store",
    HostSubject |-> "m_host_subject"]
Presentation == [fullScreen |-> "m_fullscreen", Smartcard |-> "m_smartcard",
    Title |-> "m_title", dynamicMenu |-> "m_dynamic_menu",
    NumberOfMonitors |-> "m_number_of_monitors", AdminConsole |-> "m_admin_console",
    GuestHostName |-> "m_guest_host_name"]
\* (First a mutant, in which two properties share a member.)
GuestShared == [HotKey |-> "m_hot_keys", NoTaskMgrExecution |-> "m_no_taskmgr_execution",
    SendCtrlAltDelete |-> "m_send_ctrlaltdel", UsbAutoShare |-> "m_usb_auto_share",
    ColorDepth |-> "m_color_depth", DisableEffects |-> "m_color_depth",
    Proxy |-> "m_proxy"]
Guest == [HotKey |-> "m_hot_keys", NoTaskMgrExecution |-> "m_no_taskmgr_execution",
    SendCtrlAltDelete |-> "m_send_ctrlaltdel", UsbAutoShare |-> "m_usb_auto_share",
    ColorDepth |-> "m_color_depth", DisableEffects |-> "m_disable_effects",
    Proxy |-> "m_proxy"]

FlagMembers == {"m_fullscreen", "m_smartcard", "m_admin_console", "m_no_taskmgr_execution",
                "m_send_ctrlaltdel", "m_usb_auto_share"}

HasProperty == DOMAIN Addressing \cup DOMAIN Presentation \cup DOMAIN Guest \cup {"UsbListenPort"}
Attributes == HasProperty \ {"UsbListenPort"}

MemberOf(name) ==
    IF name \in DOMAIN Addressing THEN Addressing[name]
    ELSE IF name \in DOMAIN Presentation THEN Presentation[name]
    ELSE Guest[name]

Members == {MemberOf(name) : name \in Attributes} \cup {"m_usb_filter"}

\* What a new instance has: two of the flags are set.
Default(member) ==
    IF member \in {"m_send_ctrlaltdel", "m_usb_auto_share"} THEN Flag(1)
    ELSE IF member \in FlagMembers THEN Flag(0) ELSE Empty

Asked == HasProperty \cup {"UsbFilter"}

VARIABLES
    alive,      \* there is a plugin instance
    peer,       \* the page has its object
    members,    \* the members of the plugin
    proxy,      \* the controller's m_proxy, which the client's environment gets
    asked,      \* history: the value the page last gave each property
    sent,       \* the messages of the last connect(), if nothing was set since
    writes      \* the properties set so far

instanceVars == <<members, proxy, asked, sent>>
vars == <<entryVars, alive, peer, instanceVars, writes>>

NotSent == [CONNECT |-> FALSE]

Constructed == [member \in Members |-> Default(member)]
NotAsked == [name \in Asked |-> Unset]

\* Of no instance, and of a new one.
Cleared ==
    /\ members' = Constructed /\ proxy' = Empty
    /\ asked' = NotAsked /\ sent' = NotSent

Init ==
    /\ EntryInit
    /\ alive = FALSE /\ peer = FALSE
    /\ members = Constructed /\ proxy = Empty
    /\ asked = NotAsked /\ sent = NotSent /\ writes = 0

-----------------------------------------------------------------------------
(* The instance and its peer *)

\* The browser starts and stops a plugin that has no instances.
Entry == ~alive /\ (Initialize \/ NP_Shutdown) /\ UNCHANGED <<alive, peer, instanceVars, writes>>

\* A call of functions of the browser; one that is not there is the end.
Uses(fs) == badCall' = ~Callable(fs)

entryState == <<NPNFuncs, version, loads, answer, loaded>>

NPP_New ==
    /\ loaded /\ ~alive
    /\ Uses({"setvalue"})
    /\ alive' = TRUE /\ Cleared
    /\ UNCHANGED <<entryState, peer, writes>>

NPP_Destroy ==
    /\ alive
    /\ Uses(IF peer THEN {"releaseobject"} ELSE {})
    /\ alive' = FALSE /\ peer' = FALSE /\ Cleared
    /\ UNCHANGED <<entryState, writes>>

\* Whether GetValue() answers with the peer (first a mutant that always does).
IsForPeerAlways(variable) == variable \in {"ScriptableNPObject", "other"}
IsForPeer(variable) == variable = "ScriptableNPObject"

\* Browsers that know scripts ask for the peer; any may ask for something else.
GetValue(variable) ==
    /\ alive
    /\ variable = "ScriptableNPObject" => version >= 14
    /\ Uses(IF ~IsForPeer(variable) THEN {}
            ELSE {"retainobject"} \cup IF peer THEN {} ELSE {"createobject", "getstringidentifier"})
    /\ peer' = (peer \/ IsForPeer(variable))
    /\ UNCHANGED <<entryState, alive, instanceVars, writes>>

-----------------------------------------------------------------------------
(* The properties *)

\* SetSSLChannels: every name of the list loses one leading s, if it has one.
Renamed(x) == IF x.form = "channels" /\ x.n > 0 THEN Channels(x.n - 1) ELSE x

\* What a member may become when the page gives value (first a mutant that
\* gives every setter the string).
StoredAsText(member, value) == Converted(value)
Stored(member, value) ==
    IF member \in FlagMembers THEN {Flag(IF IsTrue(value) THEN 1 ELSE 0)}
    ELSE IF member = "m_ssl_channels" THEN {Renamed(x) : x \in Converted(value)}
    ELSE Converted(value)

Write(name, value) ==
    /\ peer /\ writes < MaxWrites
    /\ writes' = writes + 1
    /\ asked' = [asked EXCEPT ![name] = value]
    /\ sent' = NotSent
    /\ UNCHANGED <<entryVars, alive, peer>>

\* The setter of UsbListenPort does nothing.
SetProperty(name, value) ==
    /\ Write(name, value)
    /\ IF name = "UsbListenPort" THEN UNCHANGED <<members, proxy>>
       ELSE \E x \in Stored(MemberOf(name), value) :
                /\ members' = [members EXCEPT ![MemberOf(name)] = x]
                /\ proxy' = IF name = "Proxy" THEN x ELSE proxy

\* The method; a page that gives it anything but a string is left out.
SetUsbFilter(value) ==
    /\ value.type = "string"
    /\ Write("UsbFilter", value)
    /\ members' = [members EXCEPT !["m_usb_filter"] = value.text]
    /\ UNCHANGED proxy

GetProperty(name) == IF name = "UsbListenPort" THEN Number(0) ELSE members[MemberOf(name)]

-----------------------------------------------------------------------------
(* connect() *)

\* atoi() of a decimal numeral; of the empty string and of words it is 0.
atoi(x) == IF x.form = "number" THEN x.n ELSE 0

\* CONTROLLER_SET_FULL_SCREEN is bit 0, CONTROLLER_AUTO_DISPLAY_RES bit 1
\* (first a mutant that takes the admin console for the other bit).
FullScreenSame(m) == m["m_fullscreen"].n + 2 * m["m_admin_console"].n
FullScreen(m) == m["m_fullscreen"].n + 2 * (1 - m["m_admin_console"].n)

\* The messages by name; Empty and 0 are those that are not sent.  CA_FILE is
\* the content of the file, PROXY the variable in the client's environment.
Messages(m) ==
   [CONNECT |-> TRUE, HOST |-> m["m_host_ip"],
    PORT |-> SendPort(m["m_port"]), SPORT |-> SendPort(m["m_secure_port"]),
    FULL_SCREEN |-> FullScreen(m), ENABLE_SMARTCARD |-> m["m_smartcard"],
    PASSWORD |-> m["m_password"], TLS_CIPHERS |-> m["m_cipher_suite"],
    SET_TITLE |-> m["m_title"], SEND_CAD |-> m["m_send_ctrlaltdel"],
    ENABLE_USB_AUTOSHARE |-> m["m_usb_auto_share"], USB_FILTER |-> m["m_usb_filter"],
    SECURE_CHANNELS |-> m["m_ssl_channels"], CA_FILE |-> m["m_trust_store"],
    HOST_SUBJECT |-> m["m_host_subject"], HOTKEYS |-> m["m_hot_keys"],
    COLOR_DEPTH |-> atoi(m["m_color_depth"]), DISABLE_EFFECTS |-> m["m_disable_effects"],
    PROXY |-> proxy]

HasPort == SendPort(members["m_port"]) > 0 \/ SendPort(members["m_secure_port"]) > 0

\* Without a port the page is told through OnDisconnected and no client starts.
OnDisconnectedUses == {"getvalue", "getstringidentifier", "getproperty", "invokeDefault",
                       "releaseobject", "releasevariantvalue"}
Connect ==
    /\ peer
    /\ sent' = IF HasPort THEN Messages(members) ELSE NotSent
    /\ Uses(IF HasPort THEN {} ELSE OnDisconnectedUses)
    /\ UNCHANGED <<entryState, alive, peer, members, proxy, asked, writes>>

-----------------------------------------------------------------------------
ChannelValues == {Text(Channels(n)) : n \in 0 .. 2}

Page ==
    \/ \E name \in HasProperty, value \in Values \cup ChannelValues : SetProperty(name, value)
    \/ \E value \in Values : SetUsbFilter(value)
    \/ Connect

Stopped == (badCall \/ (~alive /\ ~loaded /\ loads = MaxLoads)) /\ UNCHANGED vars

Next ==
    \/ /\ ~badCall
       /\ \/ Entry \/ NPP_New \/ NPP_Destroy \/ Page
          \/ \E variable \in {"ScriptableNPObject", "other"} : GetValue(variable)
    \/ Stopped

Spec == Init /\ [][Next]_vars

-----------------------------------------------------------------------------
(* Properties *)

MemberTexts == Texts \cup {Channels(n) : n \in 0 .. 2}

\* Every variable keeps its type: a flag is never given a text, nor a string
\* member a flag (nsScriptablePeer.cpp:281-328).
SettingsTypeOK ==
    /\ EntryTypeOK
    /\ alive \in BOOLEAN /\ peer \in BOOLEAN /\ writes \in 0 .. MaxWrites
    /\ \A member \in Members :
        members[member] \in IF member \in FlagMembers THEN {Flag(0), Flag(1)} ELSE MemberTexts
    /\ proxy \in MemberTexts
    /\ asked \in [Asked -> Values \cup ChannelValues \cup {Unset}]

\* The plugin only calls functions that are there, in every browser that knows
\* windowless plugins, whatever it was loaded in before: the wrappers it uses
\* ask for no version, and it is the order of the calls that keeps those of
\* npruntime from an older browser (npn_gate.cpp:194, plugin.cpp:161, 837-848).
NoBadCall == badCall => version < 11

\* got is what the page asked for when it gave property name this value, or the
\* default.  A value of another type than the property's, and a number that fits
\* no unsigned short, say nothing.
Means(name, value, got) ==
    LET member == IF name = "UsbFilter" THEN "m_usb_filter" ELSE MemberOf(name)
        flag == member \in FlagMembers
    IN CASE value.type = "unset" -> got = Default(member)
         [] value.type = "string" ->
                \/ flag
                \/ got = IF name = "SSLChannels" /\ value.text = Channels(1)
                         THEN Channels(0) ELSE value.text
                \/ name = "SSLChannels" /\ value.text = Channels(2)
         [] value.type = "boolean" -> ~flag \/ got = Flag(value.text.n)
         [] OTHER -> flag \/ PortAsked(value) = -1 \/ got = Number(PortAsked(value))

Faithful(name, got) == Means(name, asked[name], got)

\* A page reads back what it set, whatever it set after it: no property is kept
\* in the member of another, and a list of channels reads as the names of today,
\* however old the names it was given are (plugin.cpp:312-590).
ReadBack == peer => \A name \in Attributes : Faithful(name, GetProperty(name))

\* The property each message is about.
About == [HOST |-> "hostIP", ENABLE_SMARTCARD |-> "Smartcard", PASSWORD |-> "Password",
    TLS_CIPHERS |-> "CipherSuite", SET_TITLE |-> "Title", SEND_CAD |-> "SendCtrlAltDelete",
    ENABLE_USB_AUTOSHARE |-> "UsbAutoShare", USB_FILTER |-> "UsbFilter",
    SECURE_CHANNELS |-> "SSLChannels", CA_FILE |-> "TrustStore",
    HOST_SUBJECT |-> "HostSubject", HOTKEYS |-> "HotKey",
    DISABLE_EFFECTS |-> "DisableEffects", PROXY |-> "Proxy"]

\* The client is told what the page asked for: every message carries the value
\* last given to its own property, the bits of the full screen message those of
\* two (plugin.cpp:707-730).
EndToEnd ==
    sent.CONNECT =>
        /\ \A message \in DOMAIN About : Faithful(About[message], sent[message])
        /\ Faithful("fullScreen", Flag(sent.FULL_SCREEN % 2))
        /\ Faithful("AdminConsole", Flag(1 - sent.FULL_SCREEN \div 2))
        /\ asked["ColorDepth"].type = "string" =>
            sent.COLOR_DEPTH = atoi(asked["ColorDepth"].text)
=============================================================================

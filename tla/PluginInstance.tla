--------------------------- MODULE PluginInstance ---------------------------
(***************************************************************************)
(* The life of one plugin instance between NPP_New and NPP_Destroy         *)
(* (npp_gate.cpp, plugin.cpp) and of its scriptable peer, the object that  *)
(* the page's scripts hold (nsScriptablePeer.cpp).  The browser counts the *)
(* references on the peer, which may outlive the plugin it points to.      *)
(*                                                                         *)
(* All of it runs in the browser's main thread, but in the order the page  *)
(* and the browser choose.  The page sets properties with values of any    *)
(* type (ScriptValues).                                                    *)
(***************************************************************************)
EXTENDS ScriptValues, FiniteSets

CONSTANTS
    Holders     \* the script variables that can hold the peer

ASSUME InstanceAssumption == IsFiniteSet(Holders)

Ports == {"port", "SecurePort"}
Names == Ports \cup {"fullScreen"}

VARIABLES
    plugin,         \* the nsPluginInstance object: "none", "alive" or "deleted"
    m_initialized,
    m_scriptable_peer,  \* whether the field names the peer
    peer,           \* the peer's memory: "none", "allocated" or "freed"
    refs,           \* the peer's reference count
    m_plugin,       \* whether the peer's pointer to the plugin is set
    held,           \* the script variables that hold the peer
    settings,       \* the members of the plugin behind Names
    asked,          \* history: the value the page last gave each property
    sent,           \* what connect() handed on, if nothing was set since then
    fault           \* the deleted plugin was used: the end of the behaviour

peerVars == <<m_scriptable_peer, peer, refs, m_plugin, held>>
settingVars == <<settings, asked, sent>>
vars == <<plugin, m_initialized, peerVars, settingVars, fault>>

Alive == plugin = "alive"

Cleared == [port |-> Empty, SecurePort |-> Empty, fullScreen |-> FALSE]
NotSent == [made |-> FALSE, port |-> 0, SecurePort |-> 0, fullScreen |-> FALSE]

Init ==
    /\ plugin = "none" /\ m_initialized = FALSE
    /\ m_scriptable_peer = FALSE /\ peer = "none" /\ refs = 0
    /\ m_plugin = FALSE /\ held = {}
    /\ settings = Cleared /\ asked = [name \in Names |-> Unset] /\ sent = NotSent
    /\ fault = FALSE

-----------------------------------------------------------------------------
(* The instance *)

\* m_initialized as the constructor leaves it, and a mutant.
AtConstructionNot == FALSE
AtConstruction == TRUE

NPP_New ==
    /\ plugin = "none"
    /\ plugin' = "alive"
    /\ m_initialized' = AtConstruction
    /\ settings' = Cleared
    /\ UNCHANGED <<peerVars, asked, sent, fault>>

\* init() empties the settings; it runs for a window that finds the instance
\* not initialized.
NPP_SetWindow(window) ==
    LET initializes == ~m_initialized /\ window
    IN /\ Alive
       /\ m_initialized' = (m_initialized \/ initializes)
       /\ settings' = IF initializes THEN Cleared ELSE settings
       /\ sent' = IF initializes THEN NotSent ELSE sent
       /\ UNCHANGED <<plugin, peerVars, asked, fault>>

-----------------------------------------------------------------------------
(* The peer and its references *)

\* What a count becomes when a reference is taken (first a mutant) and released.
RetainedNot(n) == n
Retained(n) == n + 1
Released(n) == n - 1

Freed(n) == IF n = 0 THEN "freed" ELSE "allocated"

\* NPP_GetValue: the first call creates the peer, with a reference that the
\* plugin keeps; every call takes one for the browser.
GetScriptablePeer(h) ==
    /\ Alive
    /\ h \notin held
    /\ refs' = Retained(IF m_scriptable_peer THEN refs ELSE 1)
    /\ peer' = IF m_scriptable_peer THEN peer ELSE "allocated"
    /\ m_plugin' = IF m_scriptable_peer THEN m_plugin ELSE TRUE
    /\ m_scriptable_peer' = TRUE
    /\ held' = held \cup {h}
    /\ UNCHANGED <<plugin, m_initialized, settingVars, fault>>

\* The page copies the peer to another variable, and overwrites one.
PageKeeps(h) ==
    /\ held # {} /\ h \notin held
    /\ refs' = refs + 1
    /\ held' = held \cup {h}
    /\ UNCHANGED <<plugin, m_initialized, m_scriptable_peer, peer, m_plugin,
                   settingVars, fault>>

PageDrops(h) ==
    /\ h \in held
    /\ refs' = Released(refs)
    /\ peer' = Freed(refs')
    /\ held' = held \ {h}
    /\ UNCHANGED <<plugin, m_initialized, m_scriptable_peer, m_plugin, settingVars, fault>>

\* The count once the destructor has released the plugin's own reference
\* (first a mutant that does not).
ReleasedByPluginNot == refs
ReleasedByPlugin == IF m_scriptable_peer THEN Released(refs) ELSE refs

\* shut(), then the destructor.
NPP_Destroy ==
    /\ Alive
    /\ plugin' = "deleted"
    /\ m_initialized' = FALSE
    /\ refs' = ReleasedByPlugin
    /\ peer' = IF m_scriptable_peer THEN Freed(refs') ELSE peer
    /\ m_scriptable_peer' = FALSE
    /\ UNCHANGED <<m_plugin, held, settingVars, fault>>

-----------------------------------------------------------------------------
(* Calls of the page, which go through the peer *)

\* Every hook of the peer returns at once when its m_plugin is not set.
Through(h) == h \in held /\ m_plugin

SetProperty(h, name, value) ==
    /\ Through(h) /\ Alive
    /\ IF name \in Ports
       THEN \E x \in Converted(value) : settings' = [settings EXCEPT ![name] = x]
       ELSE settings' = [settings EXCEPT !.fullScreen = IsTrue(value)]
    /\ asked' = [asked EXCEPT ![name] = value]
    /\ sent' = NotSent
    /\ UNCHANGED <<plugin, m_initialized, peerVars, fault>>

\* With no port to send, connect() only tells the page.
Connect(h) ==
    /\ Through(h) /\ Alive
    /\ sent' = [made |-> TRUE, port |-> SendPort(settings.port),
                SecurePort |-> SendPort(settings.SecurePort),
                fullScreen |-> settings.fullScreen]
    /\ UNCHANGED <<plugin, m_initialized, peerVars, settings, asked, fault>>

\* A call through the peer when the plugin is gone.
CallAfterDestroy(h) ==
    /\ Through(h) /\ plugin = "deleted"
    /\ fault' = TRUE
    /\ UNCHANGED <<plugin, m_initialized, peerVars, settingVars>>

\* The instance is gone and nobody holds the peer.
Gone == plugin = "deleted" /\ (held = {} \/ fault) /\ UNCHANGED vars

PageCalls(h) ==
    \/ \E name \in Names, value \in Values : SetProperty(h, name, value)
    \/ Connect(h)
    \/ CallAfterDestroy(h)

Next ==
    \/ /\ ~fault
       /\ \/ NPP_New
          \/ \E window \in BOOLEAN : NPP_SetWindow(window)
          \/ NPP_Destroy
          \/ \E h \in Holders :
                GetScriptablePeer(h) \/ PageKeeps(h) \/ PageDrops(h) \/ PageCalls(h)
    \/ Gone

Spec == Init /\ [][Next]_vars

-----------------------------------------------------------------------------
(* Properties *)

SettingsType == [port : Texts, SecurePort : Texts, fullScreen : BOOLEAN]
SentType == [made : BOOLEAN, port : 0 .. Width - 1, SecurePort : 0 .. Width - 1,
             fullScreen : BOOLEAN]

\* Every variable keeps its type: the count is never below zero, and what is
\* sent as a port fits in one (plugin.cpp:97-107).
InstanceTypeOK ==
    /\ plugin \in {"none", "alive", "deleted"}
    /\ m_initialized \in BOOLEAN /\ m_scriptable_peer \in BOOLEAN
    /\ peer \in {"none", "allocated", "freed"}
    /\ refs \in Nat
    /\ m_plugin \in BOOLEAN
    /\ held \subseteq Holders
    /\ settings \in SettingsType
    /\ asked \in [Names -> Values \cup {Unset}]
    /\ sent \in SentType
    /\ fault \in BOOLEAN

\* The peer is there as long as the plugin or a script can use it, and it is
\* freed when neither can: the references that the creation, the getter and
\* the destructor take and release balance, in whatever order the page and
\* the browser call them (plugin.cpp:256, 852-863).
PeerLife ==
    /\ held # {} \/ m_scriptable_peer => peer = "allocated"
    /\ peer = "allocated" => held # {} \/ Alive

\* connect() works with what the page last asked for, whatever the browser did
\* with the plugin's window in between: a port given as a text, or as a number
\* that is one, is sent as it is, a text that is none is not sent, and a
\* boolean setting is the boolean the page gave.  (Numbers that are no ports
\* are the matter of PortsAreValidated.)
SentAsAsked ==
    sent.made =>
        /\ \A name \in Ports :
            LET p == PortAsked(asked[name])
            IN IF p = -1 THEN IsNumber(asked[name]) \/ sent[name] = 0
               ELSE sent[name] = p
        /\ asked["fullScreen"].type = "boolean" =>
            (sent.fullScreen <=> asked["fullScreen"].text.n = 1)

\* "helper function for tcp/udp range conversion and validation" (plugin.cpp:97),
\* "added tcp ports validation support" (NEWS:16): a number out of the range of
\* ports is not sent as a port.  The code does not have this property.
PortsAreValidated ==
    sent.made =>
        \A name \in Ports :
            asked[name].type = "int32" /\ PortAsked(asked[name]) = -1 => sent[name] = 0

\* "we should take precaution in case it will be called later and zero its
\* m_plugin member" (plugin.cpp:252-255): a peer that outlives its plugin does
\* not point to it.  The code does not have this property.
PeerForgetsPlugin == plugin = "deleted" /\ peer = "allocated" => ~m_plugin
=============================================================================

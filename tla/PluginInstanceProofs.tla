------------------------ MODULE PluginInstanceProofs ------------------------
(***************************************************************************)
(* The reference count of the scriptable peer, for any number of script    *)
(* variables that hold it and any values that are set through it.          *)
(***************************************************************************)
EXTENDS PluginInstance, ScriptValuesProofs, FiniteSetTheorems

\* One reference for each holder and one for the plugin; the peer is allocated
\* while there are any, and nobody holds a peer that was never created.
RefInv ==
    /\ refs = Cardinality(held) + (IF m_scriptable_peer THEN 1 ELSE 0)
    /\ peer = "allocated" <=> refs > 0
    /\ m_scriptable_peer => Alive
    /\ plugin # "deleted" /\ ~m_scriptable_peer => held = {}

LifeInv == InstanceTypeOK /\ RefInv

-----------------------------------------------------------------------------
\* What a new instance starts with.
LEMMA InitialTypes == Cleared \in SettingsType /\ NotSent \in SentType
BY DEF Cleared, SettingsType, Texts, NotSent, SentType, Width

-----------------------------------------------------------------------------
\* The holders are finitely many, and counted by a natural number.
LEMMA HeldIsFinite ==
    ASSUME held \subseteq Holders
    PROVE IsFiniteSet(held) /\ Cardinality(held) \in Nat
BY InstanceAssumption, FS_Subset, FS_CardinalityType

\* A script variable more, or less, that holds the peer.
LEMMA CountHolder ==
    ASSUME held \subseteq Holders, NEW h \in Holders
    PROVE /\ h \notin held => Cardinality(held \cup {h}) = Cardinality(held) + 1
          /\ h \in held => Cardinality(held \ {h}) = Cardinality(held) - 1
BY HeldIsFinite, FS_AddElement, FS_RemoveElement

\* Somebody holds the peer exactly when the count of holders is not zero.
LEMMA NobodyHolds ==
    ASSUME held \subseteq Holders
    PROVE held = {} <=> Cardinality(held) = 0
BY HeldIsFinite, FS_EmptySet

-----------------------------------------------------------------------------
\* The invariant holds at first.
LEMMA LifeInvInit == Init => LifeInv
<1> SUFFICES ASSUME Init PROVE LifeInv
    OBVIOUS
<1>1. settings \in SettingsType /\ sent \in SentType
    BY InitialTypes DEF Init
<1>2. asked \in [Names -> Values \cup {Unset}]
    BY DEF Init
<1>3. RefInv
    BY FS_EmptySet DEF Init, RefInv, Alive
<1>4. InstanceTypeOK
    BY <1>1, <1>2 DEF Init, InstanceTypeOK
<1> QED BY <1>3, <1>4 DEF LifeInv

\* The steps that touch neither the peer nor the plugin's life keep RefInv.
LEMMA RefInvFrame ==
    ASSUME RefInv, UNCHANGED <<plugin, m_scriptable_peer, peer, refs, held>>
    PROVE RefInv'
BY DEF RefInv, Alive

\* Every step keeps the types and the count of references.
LEMMA LifeInvNext == LifeInv /\ [Next]_vars => LifeInv'
<1> SUFFICES ASSUME LifeInv, [Next]_vars PROVE LifeInv'
    OBVIOUS
<1> USE DEF LifeInv
<1> DEFINE Counted == Cardinality(held) \in Nat /\ (held = {} <=> Cardinality(held) = 0)
<1>0. Counted
    BY HeldIsFinite, NobodyHolds DEF InstanceTypeOK
<1>1. CASE NPP_New
  <2>1. InstanceTypeOK'
      BY <1>1, InitialTypes DEF NPP_New, peerVars, InstanceTypeOK, AtConstruction
  <2>2. RefInv'
      BY <1>1 DEF NPP_New, peerVars, RefInv, Alive
  <2> QED BY <2>1, <2>2
<1>2. ASSUME NEW window \in BOOLEAN, NPP_SetWindow(window) PROVE LifeInv'
  <2>1. settings' = settings \/ settings' = Cleared
      BY <1>2 DEF NPP_SetWindow
  <2>2. sent' = sent \/ sent' = NotSent
      BY <1>2 DEF NPP_SetWindow
  <2>3. m_initialized' \in BOOLEAN
      BY <1>2 DEF NPP_SetWindow, InstanceTypeOK
  <2>4. InstanceTypeOK'
      BY <1>2, <2>1, <2>2, <2>3, InitialTypes DEF NPP_SetWindow, peerVars, InstanceTypeOK
  <2>5. RefInv'
      BY <1>2, RefInvFrame DEF NPP_SetWindow, peerVars
  <2> QED BY <2>4, <2>5
<1>3. CASE NPP_Destroy
  <2>1. m_scriptable_peer => refs \in Nat /\ refs > 0
      BY <1>0 DEF RefInv, InstanceTypeOK
  <2>2. refs' = Cardinality(held) /\ refs' \in Nat
      BY <1>3, <1>0, <2>1 DEF NPP_Destroy, ReleasedByPlugin, Released, RefInv
  <2>3. peer' = "allocated" <=> refs' > 0
      BY <1>3, <2>2 DEF NPP_Destroy, ReleasedByPlugin, Freed, RefInv
  <2>4. InstanceTypeOK'
      BY <1>3, <2>2 DEF NPP_Destroy, Freed, settingVars, InstanceTypeOK
  <2>5. RefInv'
      BY <1>3, <2>2, <2>3, <1>0 DEF NPP_Destroy, RefInv
  <2> QED BY <2>4, <2>5
<1>4. ASSUME NEW h \in Holders, GetScriptablePeer(h) PROVE LifeInv'
  <2>1. Cardinality(held') = Cardinality(held) + 1
      BY <1>4, CountHolder DEF GetScriptablePeer, InstanceTypeOK
  <2>2. refs' = Cardinality(held') + 1
      BY <1>4, <1>0, <2>1 DEF GetScriptablePeer, Retained, RefInv, Alive
  <2>3. refs' \in Nat /\ refs' > 0
      BY <2>1, <2>2, <1>0
  <2>4. peer' = "allocated"
      BY <1>4, <1>0 DEF GetScriptablePeer, RefInv
  <2>5. InstanceTypeOK'
      BY <1>4, <2>3, <2>4 DEF GetScriptablePeer, settingVars, InstanceTypeOK
  <2>6. RefInv'
      BY <1>4, <2>2, <2>3, <2>4 DEF GetScriptablePeer, RefInv, Alive
  <2> QED BY <2>5, <2>6
<1>5. ASSUME NEW h \in Holders, PageKeeps(h) PROVE LifeInv'
  <2>1. Cardinality(held') = Cardinality(held) + 1
      BY <1>5, CountHolder DEF PageKeeps, InstanceTypeOK
  <2>2. refs > 0 /\ refs' \in Nat /\ refs' > 0
      BY <1>5, <1>0 DEF PageKeeps, RefInv, InstanceTypeOK
  <2>3. InstanceTypeOK'
      BY <1>5, <2>2 DEF PageKeeps, settingVars, InstanceTypeOK
  <2>4. RefInv'
      BY <1>5, <2>1, <2>2, <1>0 DEF PageKeeps, RefInv, Alive
  <2> QED BY <2>3, <2>4
<1>6. ASSUME NEW h \in Holders, PageDrops(h) PROVE LifeInv'
  <2>1. Cardinality(held') = Cardinality(held) - 1 /\ Cardinality(held) > 0
      BY <1>6, <1>0, CountHolder DEF PageDrops, InstanceTypeOK
  <2>2. refs' = Cardinality(held') + (IF m_scriptable_peer THEN 1 ELSE 0)
      BY <1>6, <2>1, <1>0 DEF PageDrops, Released, RefInv
  <2>3. refs' \in Nat
      BY <2>1, <2>2, <1>0
  <2>4. InstanceTypeOK'
      BY <1>6, <2>3 DEF PageDrops, Freed, settingVars, InstanceTypeOK
  <2>5. RefInv'
      BY <1>6, <2>2, <2>3 DEF PageDrops, Freed, RefInv, Alive
  <2> QED BY <2>4, <2>5
<1>7. ASSUME NEW h \in Holders, NEW name \in Names, NEW value \in Values,
             SetProperty(h, name, value)
      PROVE LifeInv'
  <2>1. settings' \in SettingsType
    <3>1. CASE name \in Ports
      <4>1. PICK x \in Converted(value) : settings' = [settings EXCEPT ![name] = x]
          BY <1>7, <3>1 DEF SetProperty
      <4>2. x \in Texts
          BY <4>1, ConvertedIsText
      <4> QED BY <4>1, <4>2, <3>1 DEF InstanceTypeOK, SettingsType, Ports
    <3>2. CASE name \notin Ports
      <4>1. IsTrue(value) \in BOOLEAN
          BY DEF IsTrue
      <4>2. settings' = [settings EXCEPT !.fullScreen = IsTrue(value)]
          BY <1>7, <3>2 DEF SetProperty
      <4> QED BY <4>1, <4>2 DEF InstanceTypeOK, SettingsType
    <3> QED BY <3>1, <3>2
  <2>2. asked' \in [Names -> Values \cup {Unset}]
      BY <1>7 DEF SetProperty, InstanceTypeOK
  <2>3. InstanceTypeOK'
      BY <1>7, <2>1, <2>2, InitialTypes DEF SetProperty, peerVars, InstanceTypeOK
  <2>4. RefInv'
      BY <1>7, RefInvFrame DEF SetProperty, peerVars
  <2> QED BY <2>3, <2>4
<1>8. ASSUME NEW h \in Holders, Connect(h) PROVE LifeInv'
  <2>1. sent' \in SentType
    <3>1. settings.fullScreen \in BOOLEAN
        BY DEF InstanceTypeOK, SettingsType
    <3>2. SendPort(settings.port) \in 0 .. Width - 1
          /\ SendPort(settings.SecurePort) \in 0 .. Width - 1
        BY SendPortFits
    <3> QED BY <1>8, <3>1, <3>2 DEF Connect, SentType
  <2>2. InstanceTypeOK'
      BY <1>8, <2>1 DEF Connect, peerVars, InstanceTypeOK
  <2>3. RefInv'
      BY <1>8, RefInvFrame DEF Connect, peerVars
  <2> QED BY <2>2, <2>3
<1>9. ASSUME NEW h \in Holders, CallAfterDestroy(h) PROVE LifeInv'
  <2>1. InstanceTypeOK'
      BY <1>9 DEF CallAfterDestroy, peerVars, settingVars, InstanceTypeOK
  <2>2. RefInv'
      BY <1>9, RefInvFrame DEF CallAfterDestroy, peerVars
  <2> QED BY <2>1, <2>2
<1>10. CASE UNCHANGED vars
  <2>1. InstanceTypeOK'
      BY <1>10 DEF vars, peerVars, settingVars, InstanceTypeOK
  <2>2. RefInv'
      BY <1>10, RefInvFrame DEF vars, peerVars
  <2> QED BY <2>1, <2>2
<1> QED BY <1>1, <1>2, <1>3, <1>4, <1>5, <1>6, <1>7, <1>8, <1>9, <1>10
        DEF Next, PageCalls, Gone

\* LifeInv is an invariant of the instance.
LEMMA LifeInvariant == Spec => []LifeInv
BY LifeInvInit, LifeInvNext, PTL DEF Spec

\* The types of the instance: no reference is released that was not taken, and
\* nothing but a port is sent as one.
THEOREM InstanceTypeCorrect == Spec => []InstanceTypeOK
<1>1. LifeInv => InstanceTypeOK
    BY DEF LifeInv
<1> QED BY LifeInvariant, <1>1, PTL

\* However the page's variables and the browser take and drop the peer, it lives
\* as long as somebody can use it and no longer.
THEOREM PeerLivesAsNeeded == Spec => []PeerLife
<1>1. LifeInv => PeerLife
  <2> SUFFICES ASSUME LifeInv PROVE PeerLife
      OBVIOUS
  <2>1. Cardinality(held) \in Nat /\ (held = {} <=> Cardinality(held) = 0)
      BY HeldIsFinite, NobodyHolds DEF LifeInv, InstanceTypeOK
  <2> QED BY <2>1 DEF LifeInv, RefInv, PeerLife, Alive
<1> QED BY LifeInvariant, <1>1, PTL

-----------------------------------------------------------------------------
(* What connect() works with *)

\* The settings are those that the page asked for: a window initializes nothing,
\* for the instance is initialized while it is alive.
AskedInv ==
    /\ Alive => m_initialized
    /\ plugin = "none" => asked = [name \in Names |-> Unset] /\ ~sent.made
    /\ \A name \in Ports : GivesPort(asked[name], settings[name])
    /\ asked["fullScreen"].type = "boolean" =>
        (settings.fullScreen <=> asked["fullScreen"].text.n = 1)

\* What was handed on is what the settings still are.
HandedInv ==
    sent.made =>
        /\ \A name \in Ports : sent[name] = SendPort(settings[name])
        /\ sent.fullScreen = settings.fullScreen

SentInv == AskedInv /\ HandedInv

\* A property that nobody has set.
LEMMA UnsetAsked ==
    ASSUME asked = [name \in Names |-> Unset], settings = Cleared
    PROVE  /\ \A name \in Ports : GivesPort(asked[name], settings[name])
           /\ asked["fullScreen"].type # "boolean"
BY DEF GivesPort, PortAsked, SendPort, portToInt, Unset, Empty, Cleared, Names, Ports

\* When nothing was asked in the next state, its empty settings are faithful.
LEMMA UnsetAskedNext ==
    ASSUME asked' = [name \in Names |-> Unset], settings' = Cleared
    PROVE  /\ \A name \in Ports : GivesPort(asked'[name], settings'[name])
           /\ asked'["fullScreen"].type # "boolean"
BY DEF GivesPort, PortAsked, SendPort, portToInt, Unset, Empty, Cleared, Names, Ports

\* Nothing is asked or sent at first.
LEMMA SentInvInit == Init => SentInv
BY UnsetAsked DEF Init, SentInv, AskedInv, HandedInv, Alive, NotSent

\* A property that is set, and the others.
LEMMA SentInvSet ==
    ASSUME LifeInv, SentInv, NEW h \in Holders, NEW name \in Names, NEW value \in Values,
           SetProperty(h, name, value)
    PROVE  SentInv'
<1>1. /\ asked' = [asked EXCEPT ![name] = value] /\ ~sent'.made
      /\ UNCHANGED <<plugin, m_initialized>> /\ Alive
    BY DEF SetProperty, NotSent
<1>2. /\ DOMAIN asked = Names /\ asked \in [Names -> Values \cup {Unset}]
      /\ settings \in SettingsType
    BY DEF LifeInv, InstanceTypeOK
<1>3. CASE name \in Ports
  <2>1. PICK x \in Converted(value) : settings' = [settings EXCEPT ![name] = x]
      BY <1>3 DEF SetProperty
  <2>2. GivesPort(value, x)
      BY <2>1, ConvertedGivesPort
  <2>3. name # "fullScreen"
      BY <1>3 DEF Ports
  <2>4. /\ settings'[name] = x /\ asked'[name] = value
        /\ \A other \in Names : other # name =>
            settings'[other] = settings[other] /\ asked'[other] = asked[other]
      BY <1>1, <1>2, <2>1 DEF SettingsType, Names, Ports
  <2>5. \A other \in Ports : GivesPort(asked'[other], settings'[other])
      BY <2>2, <2>4 DEF SentInv, AskedInv, Names
  <2>6. asked'["fullScreen"] = asked["fullScreen"] /\ settings'.fullScreen = settings.fullScreen
      BY <2>3, <2>4 DEF Names
  <2> QED BY <1>1, <2>5, <2>6 DEF SentInv, AskedInv, HandedInv, Alive
<1>4. CASE name = "fullScreen"
  <2>1. settings' = [settings EXCEPT !.fullScreen = IsTrue(value)]
      BY <1>4 DEF SetProperty, Ports
  <2>2. \A other \in Ports : settings'[other] = settings[other] /\ asked'[other] = asked[other]
      BY <1>1, <1>2, <1>4, <2>1 DEF SettingsType, Ports, Names
  <2>3. asked'["fullScreen"] = value /\ settings'.fullScreen = IsTrue(value)
      BY <1>1, <1>2, <1>4, <2>1 DEF SettingsType
  <2>4. \A other \in Ports : GivesPort(asked'[other], settings'[other])
      BY <2>2 DEF SentInv, AskedInv
  <2>5. value.type = "boolean" => (IsTrue(value) <=> value.text.n = 1)
      BY DEF IsTrue
  <2> QED BY <1>1, <2>3, <2>4, <2>5 DEF SentInv, AskedInv, HandedInv, Alive
<1> QED BY <1>3, <1>4 DEF Names

\* Every step keeps AskedInv and HandedInv.
LEMMA SentInvNext == LifeInv /\ SentInv /\ [Next]_vars => SentInv'
<1> SUFFICES ASSUME LifeInv, SentInv, [Next]_vars PROVE SentInv'
    OBVIOUS
<1> USE DEF SentInv, AskedInv, HandedInv, Alive
<1>1. CASE NPP_New
  <2>1. asked' = [name \in Names |-> Unset] /\ settings' = Cleared
      BY <1>1 DEF NPP_New
  <2>2. plugin' = "alive" /\ m_initialized' /\ sent' = sent
      BY <1>1 DEF NPP_New, AtConstruction
  <2>3. ~sent.made
      BY <1>1 DEF NPP_New, SentInv, AskedInv
  <2> QED BY <2>1, <2>2, <2>3, UnsetAskedNext
<1>2. ASSUME NEW window \in BOOLEAN, NPP_SetWindow(window) PROVE SentInv'
    BY <1>2 DEF NPP_SetWindow
<1>3. CASE NPP_Destroy
    BY <1>3 DEF NPP_Destroy, settingVars
<1>4. ASSUME NEW h \in Holders, GetScriptablePeer(h) \/ PageKeeps(h) \/ PageDrops(h)
      PROVE  SentInv'
    BY <1>4 DEF GetScriptablePeer, PageKeeps, PageDrops, settingVars
<1>5. ASSUME NEW h \in Holders, NEW name \in Names, NEW value \in Values,
             SetProperty(h, name, value)
      PROVE  SentInv'
    BY <1>5, SentInvSet
<1>6. ASSUME NEW h \in Holders, Connect(h) PROVE SentInv'
    BY <1>6 DEF Connect, Ports
<1>7. ASSUME NEW h \in Holders, CallAfterDestroy(h) PROVE SentInv'
    BY <1>7 DEF CallAfterDestroy, settingVars
<1>8. CASE UNCHANGED vars
    BY <1>8 DEF vars, settingVars
<1> QED BY <1>1, <1>2, <1>3, <1>4, <1>5, <1>6, <1>7, <1>8 DEF Next, PageCalls, Gone

\* connect() works with what the page last asked for, whatever numbers and texts
\* it gave and whatever became of the window meanwhile.
THEOREM ConnectUsesAsked == Spec => []SentAsAsked
<1>1. SentInv => SentAsAsked
  <2> SUFFICES ASSUME SentInv, sent.made PROVE SentAsAsked
      BY DEF SentAsAsked
  <2>1. \A name \in Ports : GivesPort(asked[name], settings[name])
                            /\ sent[name] = SendPort(settings[name])
      BY DEF SentInv, AskedInv, HandedInv
  <2> QED BY <2>1 DEF SentInv, AskedInv, HandedInv, SentAsAsked, GivesPort
<1> QED BY <1>1, SentInvInit, SentInvNext, LifeInvariant, PTL DEF Spec
=============================================================================

-------------------------- MODULE PluginSessionProofs --------------------------
(***************************************************************************)
(* The session of the page implements the Unix controller, and what the    *)
(* client is told, the files it needs and the page's callbacks are right   *)
(* for any number of sessions, attempts and settings.                      *)
(***************************************************************************)
EXTENDS PluginSession, ControllerUnixProofs

\* Where the main thread of the plugin is, against where the controller is.
PhaseInv ==
    /\ mpc = "connecting" <=> ctl = "trying"
    /\ mpc \in {"trust", "name", "sending"} => ctl = "out"
    /\ ctl = "dtor" \/ deleted => mpc = "idle"
    /\ mpc # "idle" => cur \in Threads

\* The main thread is nowhere at first.
LEMMA PhaseInvInit == Init => PhaseInv
BY DEF Init, UnixInit, WatchInit, PhaseInv

\* The steps that change none of mpc, cur, ctl and deleted.
LEMMA PhaseKept ==
    ASSUME \/ ConnectBadPorts
           \/ \E t \in Threads : SessionThreadStep(t)
           \/ SendNext
           \/ Show
           \/ Disconnect
           \/ \E c \in Threads : ClientBinds(c) \/ ClientExits(c) \/ ClientReaped(c)
           \/ SessionGone
    PROVE  UNCHANGED <<mpc, ctl, deleted, cur>>
<1> USE DEF unixVars, watchVars, callVars, endVars, sessionVars, pageVars
<1>1. CASE ConnectBadPorts
    BY <1>1 DEF ConnectBadPorts
<1>2. ASSUME NEW t \in Threads, SessionThreadStep(t) PROVE UNCHANGED <<mpc, ctl, deleted, cur>>
    <2>1. CASE SetsUpPipe(t)
        BY <2>1 DEF SetsUpPipe, SetName, SetupControllerPipe
    <2>2. CASE Watches(t)
        BY <2>2 DEF Watches, WatchStep, Spawn, SpawnFails, SetPid, WatchChild, RunLoop,
            ChildExited, LeaveLoop, UnrefLoop, ClosePid, UseAfterDelete, UseFreedLoop
    <2>3. CASE OnSpiceClientExit(t)
        BY <2>3 DEF OnSpiceClientExit, SetExitStatus, CallOnDisconnected,
            DisconnectCloses, ExitCloses, DisconnectUnlinks, ExitUnlinks,
            RemoveTrustStoreFile, ClearTrustStoreName, HandlerReturns, ExitReturns,
            ExitHandled
    <2> QED BY <1>2, <2>1, <2>2, <2>3 DEF SessionThreadStep
<1>3. CASE SendNext
    BY <1>3 DEF SendNext
<1>4. CASE Show \/ Disconnect
    BY <1>4 DEF Show, WriteCall, Disconnect, StopCall, CallStopClient, StopClient
<1>5. ASSUME NEW c \in Threads, ClientBinds(c) \/ ClientExits(c) \/ ClientReaped(c)
      PROVE UNCHANGED <<mpc, ctl, deleted, cur>>
    BY <1>5 DEF ClientBinds, Bind, ClientExits, Exit, ClientExit, ClientReaped,
        ReapClient, Reap
<1>6. CASE SessionGone
    BY <1>6 DEF SessionGone, vars
<1> QED BY <1>1, <1>2, <1>3, <1>4, <1>5, <1>6

\* Every step keeps the places of the plugin and of the controller together.
LEMMA PhaseInvNext == PhaseInv /\ [Next]_vars => PhaseInv'
<1> SUFFICES ASSUME PhaseInv, [Next]_vars PROVE PhaseInv'
    OBVIOUS
<1> USE DEF PhaseInv, unixVars, watchVars, callVars, endVars, sessionVars, pageVars
<1>1. CASE UNCHANGED vars
    BY <1>1 DEF vars
<1>2. ASSUME NEW t \in Threads, ConnectBegins(t) PROVE PhaseInv'
    BY <1>2 DEF ConnectBegins, Connect, StartClient
<1>3. CASE ConnectTries
    BY <1>3 DEF ConnectTries, AttemptWithoutName, AttemptConnected, AttemptSucceeds,
        AttemptFails, Attempt
<1>4. CASE ConnectReached
    BY <1>4 DEF ConnectReached, ConnectReturns, CallStopClient, StopClient
<1>5. CASE CreateTrustStoreFile \/ CreateTrustStoreFails \/ NameTrustStoreFile \/ ConnectEnds
    BY <1>5 DEF CreateTrustStoreFile, CreateTrustStoreFails, NameTrustStoreFile,
        ConnectEnds
<1>6. CASE Deleted \/ Destroy
    BY <1>6 DEF Deleted, DeleteController, Delete, Destroy, CloseController
<1>7. CASE UNCHANGED <<mpc, ctl, deleted, cur>>
    BY <1>7
<1> QED BY <1>1, <1>2, <1>3, <1>4, <1>5, <1>6, <1>7, PhaseKept
        DEF Next, SessionMainStep

\* PhaseInv is an invariant of the session.
LEMMA PhaseInvariant == Spec => []PhaseInv
BY PhaseInvInit, PhaseInvNext, PTL DEF Spec

-----------------------------------------------------------------------------
\* The script is a list of twenty messages.
LEMMA ScriptIsSeq ==
    /\ Len(Script) = 20
    /\ \A i \in 1..Len(Script) : Script[i] \in Messages
<1>1. Len(Script) = 20
    BY DEF Script
<1>2. \A i \in 1..20 : Script[i] \in Range(Script)
    BY DEF Script, Range
<1> QED BY <1>1, <1>2, SessionAssumption

\* The types hold at first.
LEMMA TypeOKInit == Init => TypeOK
<1> SUFFICES ASSUME Init PROVE TypeOK
    OBVIOUS
<1>1. step \in [Threads -> {"status", "tell", "close", "unlink", "remove", "clear",
                            "return", "done"}]
    BY DEF Init
<1>2. told \in [Threads -> Nat]
    BY DEF Init
<1>3. sent \in 0..Len(Script) /\ m_connected_status \in Statuses
    BY ScriptIsSeq DEF Init, Statuses
<1> QED BY <1>1, <1>2, <1>3 DEF Init, TypeOK

\* Every step keeps the types.
LEMMA TypeOKNext == TypeOK /\ PhaseInv /\ [Next]_vars => TypeOK'
<1> SUFFICES ASSUME TypeOK, PhaseInv, [Next]_vars PROVE TypeOK'
    OBVIOUS
<1> USE DEF TypeOK, sessionVars, pageVars, trustVars
<1>1. CASE UNCHANGED sessionVars
    BY <1>1
<1>2. CASE ConnectBadPorts
    BY <1>2 DEF ConnectBadPorts, Statuses
<1>3. ASSUME NEW t \in Threads, ConnectBegins(t) PROVE TypeOK'
    BY <1>3 DEF ConnectBegins
<1>4. CASE ConnectReached
    BY <1>4 DEF ConnectReached
<1>5. CASE CreateTrustStoreFile \/ CreateTrustStoreFails
    BY <1>5 DEF CreateTrustStoreFile, CreateTrustStoreFails, PhaseInv
<1>6. CASE NameTrustStoreFile
    BY <1>6, ScriptIsSeq DEF NameTrustStoreFile, StoreName
<1>7. CASE SendNext
    BY <1>7, ScriptIsSeq DEF SendNext
<1>8. CASE ConnectEnds
    BY <1>8 DEF ConnectEnds, Statuses
<1>9. ASSUME NEW t \in Threads, OnSpiceClientExit(t) PROVE TypeOK'
    <2>1. CASE SetExitStatus(t)
        BY <2>1 DEF SetExitStatus, Handles, StoreStatus, Statuses
    <2>2. CASE CallOnDisconnected(t)
        <3>1. \A c \in Threads : told[c] \in Nat /\ told[c] + 1 \in Nat
            OBVIOUS
        <3>2. \A c \in Threads : told'[c] = told[c] \/ told'[c] = told[c] + 1
            BY <2>2 DEF CallOnDisconnected, Tell
        <3>3. told' = [c \in Threads |-> told'[c]]
            BY <2>2 DEF CallOnDisconnected, Tell
        <3>4. told' \in [Threads -> Nat]
            BY <3>1, <3>2, <3>3
        <3> QED BY <2>2, <3>4 DEF CallOnDisconnected, Handles
    <2>3. CASE DisconnectCloses(t) \/ DisconnectUnlinks(t) \/ HandlerReturns(t)
        BY <2>3 DEF DisconnectCloses, DisconnectUnlinks, HandlerReturns, Handles
    <2>4. CASE RemoveTrustStoreFile(t) \/ ClearTrustStoreName(t)
        BY <2>4 DEF RemoveTrustStoreFile, ClearTrustStoreName, Handles
    <2> QED BY <1>9, <2>1, <2>2, <2>3, <2>4 DEF OnSpiceClientExit
<1> QED BY <1>1, <1>2, <1>3, <1>4, <1>5, <1>6, <1>7, <1>8, <1>9
        DEF Next, SessionThreadStep, SessionMainStep, SetsUpPipe, Watches, ConnectTries,
            Show, Disconnect, Destroy, Deleted, ClientBinds, ClientExits, ClientReaped,
            SessionGone, vars

\* The variables of the session always have their types: connectedStatus only
\* takes the values that a page can tell apart (PluginSession.TypeOK).
THEOREM SessionTypeCorrect == Spec => []TypeOK
BY TypeOKInit, TypeOKNext, PhaseInvariant, PTL DEF Spec

-----------------------------------------------------------------------------
\* Every step of the session is a step of the controller, or a stutter.
LEMMA SessionNextUnix == TypeOK /\ PhaseInv /\ [Next]_vars => [UnixNext]_unixVars
<1> SUFFICES ASSUME TypeOK, PhaseInv, Next PROVE [UnixNext]_unixVars
    BY DEF vars
<1>1. fault = "none"
    BY DEF Next
<1>2. ASSUME NEW t \in Threads, ConnectBegins(t) PROVE UnixNext
    BY <1>1, <1>2 DEF ConnectBegins, UnixNext
<1>3. ASSUME NEW t \in Threads, SessionThreadStep(t) PROVE [UnixNext]_unixVars
    <2>1. UnixThreadStep(t) \/ UNCHANGED unixVars
        BY <1>3 DEF SessionThreadStep, SetsUpPipe, Watches, OnSpiceClientExit,
            SetExitStatus, CallOnDisconnected, DisconnectCloses, DisconnectUnlinks,
            RemoveTrustStoreFile, ClearTrustStoreName, HandlerReturns, UnixThreadStep
    <2> QED BY <1>1, <2>1 DEF UnixNext
<1>4. CASE SendNext
    <2>1. CASE Filled(Script[sent + 1])
        <3>1. Script[sent + 1] \in Messages
            <4>1. sent + 1 \in 1..Len(Script)
                BY <1>4, ScriptIsSeq DEF SendNext, TypeOK
            <4> QED BY <4>1, ScriptIsSeq
        <3>2. WriteCall(Script[sent + 1])
            BY <1>4, <2>1 DEF SendNext, WriteCall, PhaseInv
        <3> QED BY <1>1, <3>1, <3>2 DEF UnixNext
    <2>2. CASE ~Filled(Script[sent + 1])
        BY <1>4, <2>2 DEF SendNext, unixVars, socketVars
    <2> QED BY <2>1, <2>2
<1>5. CASE ConnectTries \/ ConnectReached \/ Deleted
    <2>1. MainStep
        BY <1>5 DEF ConnectTries, ConnectReached, Deleted, MainStep
    <2> QED BY <1>1, <2>1 DEF UnixNext
<1>6. CASE ConnectBadPorts \/ CreateTrustStoreFile \/ CreateTrustStoreFails
           \/ NameTrustStoreFile \/ ConnectEnds \/ SessionGone
    BY <1>6 DEF ConnectBadPorts, CreateTrustStoreFile, CreateTrustStoreFails,
        NameTrustStoreFile, ConnectEnds, SessionGone, vars
<1>7. CASE Show
    <2>1. "SHOW" \in Messages
        BY SessionAssumption DEF Script, Range
    <2> QED BY <1>1, <1>7, <2>1 DEF Show, UnixNext
<1>8. CASE Disconnect \/ Destroy
    BY <1>1, <1>8 DEF Disconnect, Destroy, UnixNext
<1>9. ASSUME NEW c \in Threads, ClientBinds(c) \/ ClientExits(c) \/ ClientReaped(c)
      PROVE UnixNext
    BY <1>1, <1>9 DEF ClientBinds, ClientExits, ClientReaped, UnixNext
<1> QED BY <1>2, <1>3, <1>4, <1>5, <1>6, <1>7, <1>8, <1>9 DEF Next, SessionMainStep

\* Every behaviour of a session is one of the Unix controller: whatever the page
\* calls, the controller only makes steps that ControllerUnix describes.
THEOREM SessionImplementsUnix == Spec => UnixSpec
<1>1. Init => UnixInit
    BY DEF Init
<1> QED BY <1>1, SessionNextUnix, PhaseInvariant, SessionTypeCorrect, PTL DEF Spec, UnixSpec

\* What is proved of the controller and of the threads holds of the session.
LEMMA SessionInvariants ==
    Spec => [](TypeOK /\ PhaseInv /\ UnixTypeOK /\ TypeInv /\ ReportInv /\ SoloInv)
<1>1. WatchSpec => []ReportInv
    BY TypeInvInit, TypeInvNext, ReportInvInit, ReportInvNext, PTL DEF WatchSpec
<1> QED BY <1>1, SessionTypeCorrect, PhaseInvariant, SessionImplementsUnix,
        UnixImplementsWatch, WatchInvariants, PTL

-----------------------------------------------------------------------------
(* What a client reads, whatever sessions overlap.                         *)

\* A write adds one message to what one running client has read, or is lost.
LEMMA WriteAppends ==
    ASSUME UnixTypeOK, NEW msg \in Messages, Write(msg), NEW c \in Threads
    PROVE  \/ recv'[c] = recv[c]
           \/ /\ m_client_socket = "connected" /\ peer = c /\ proc[c] = "running"
              /\ Len(recv[c]) < MaxRead
              /\ recv'[c] = Append(recv[c], msg)
BY DEF UnixTypeOK, Write

\* The first message stays the first.
LEMMA AppendHead ==
    ASSUME NEW s \in Seq(Messages), NEW m \in Messages
    PROVE  /\ Append(s, m) # <<>>
           /\ s = <<>> => Head(Append(s, m)) = m
           /\ s # <<>> => Head(Append(s, m)) = Head(s)
OBVIOUS

\* Where the main thread is while the client it is connected to has read nothing.
Opening ==
    \/ ctl = "trying" /\ rc = 0
    \/ mpc \in {"trust", "name"}
    \/ mpc = "sending" /\ sent = 0

InitInv ==
    /\ m_client_socket = "connected" => proc[peer] # "none"
    /\ InitFirst
    /\ HasTmp /\ MaxRead # 0 =>
        \A c \in Threads :
            m_client_socket = "connected" /\ peer = c /\ proc[c] = "running" =>
                recv[c] # <<>> \/ Opening

\* A step that neither starts a client, nor connects to it, nor writes to it,
\* nor moves the main thread on, keeps the invariant.
LEMMA InitInvFrame ==
    ASSUME InitInv, UnixTypeOK, UNCHANGED <<recv, ctl, rc, mpc, sent>>,
           \/ UNCHANGED <<m_client_socket, peer>>
           \/ m_client_socket' # "connected",
           \A c \in Threads : \/ proc'[c] = proc[c]
                              \/ proc'[c] \notin {"none", "running"}
    PROVE  InitInv'
BY ConstAssumption DEF InitInv, InitFirst, HasTmp, Opening, UnixTypeOK

\* A write that comes first is INIT, or meets nobody who has read nothing.
LEMMA InitInvWrite ==
    ASSUME InitInv, UnixTypeOK, NEW msg \in Messages, Write(msg),
           UNCHANGED <<proc, m_client_socket, peer>>,
           HasTmp /\ MaxRead # 0 => msg = "INIT" \/ ~Opening
    PROVE  /\ InitFirst'
           /\ HasTmp /\ MaxRead # 0 =>
                \A c \in Threads :
                    m_client_socket = "connected" /\ peer = c /\ proc[c] = "running" =>
                        recv'[c] # <<>> \/ (Opening /\ recv'[c] = recv[c])
<1> SUFFICES ASSUME HasTmp, NEW c \in Threads
             PROVE  /\ recv'[c] # <<>> => Head(recv'[c]) = "INIT"
                    /\ MaxRead # 0 /\ m_client_socket = "connected" /\ peer = c
                       /\ proc[c] = "running" =>
                        recv'[c] # <<>> \/ (Opening /\ recv'[c] = recv[c])
    BY DEF InitFirst, HasTmp
<1>1. recv[c] \in Seq(Messages)
    BY DEF UnixTypeOK
<1>2. recv[c] # <<>> => Head(recv[c]) = "INIT"
    BY DEF InitInv, InitFirst
<1>3. CASE recv'[c] = recv[c]
    BY <1>2, <1>3 DEF InitInv
<1>4. CASE /\ m_client_socket = "connected" /\ peer = c /\ proc[c] = "running"
           /\ Len(recv[c]) < MaxRead
           /\ recv'[c] = Append(recv[c], msg)
    <2>1. MaxRead # 0
        BY <1>1, <1>4, UnixAssumption
    <2>2. recv[c] # <<>> \/ msg = "INIT"
        BY <1>4, <2>1 DEF InitInv
    <2> QED BY <1>1, <1>2, <1>4, <2>2, AppendHead
<1> QED BY <1>3, <1>4, WriteAppends

\* Every step keeps InitInv.
LEMMA InitInvNext ==
    /\ TypeOK /\ PhaseInv /\ UnixTypeOK /\ TypeInv /\ InitInv
    /\ [Next]_vars
    => InitInv'
<1> SUFFICES ASSUME TypeOK, PhaseInv, UnixTypeOK, TypeInv, InitInv, [Next]_vars
             PROVE InitInv'
    OBVIOUS
<1> USE DEF unixVars, watchVars, clientVars, socketVars, callVars, sessionVars, pageVars
<1>1. CASE UNCHANGED vars \/ ConnectBadPorts \/ SessionGone
    BY <1>1, InitInvFrame DEF vars, ConnectBadPorts, SessionGone
<1>2. ASSUME NEW t \in Threads, SetsUpPipe(t) PROVE InitInv'
    BY <1>2, InitInvFrame DEF SetsUpPipe, SetName, SetupControllerPipe
<1>3. ASSUME NEW t \in Threads, Watches(t) PROVE InitInv'
    <2>1. CASE Spawn(t)
        <3>1. proc[t] = "none"
            BY <2>1 DEF Spawn, Goes, TypeInv
        <3>2. ~(m_client_socket = "connected" /\ peer = t)
            BY <3>1 DEF InitInv
        <3>3. UNCHANGED <<m_client_socket, peer, recv, ctl, rc, mpc, sent>>
            BY <1>3 DEF Watches, WatchStep
        <3>4. \A c \in Threads : proc'[c] = IF c = t THEN "running" ELSE proc[c]
            BY <2>1 DEF Spawn, TypeInv, WatchTypeOK
        <3> QED BY <3>2, <3>3, <3>4 DEF InitInv, InitFirst, Opening, UnixTypeOK
    <2>2. CASE ChildExited(t)
        <3>1. \A c \in Threads : proc'[c] = proc[c] \/ proc'[c] = "reported"
            BY <2>2 DEF ChildExited, TakeStatus, TypeInv, WatchTypeOK
        <3> QED BY <1>3, <3>1, InitInvFrame DEF Watches, WatchStep
    <2>3. CASE UNCHANGED proc
        BY <1>3, <2>3, InitInvFrame DEF Watches, WatchStep
    <2> QED BY <1>3, <2>1, <2>2, <2>3 DEF Watches, WatchStep, SpawnFails, SetPid,
            WatchChild, RunLoop, LeaveLoop, UnrefLoop, ClosePid, UseAfterDelete,
            UseFreedLoop
<1>4. ASSUME NEW t \in Threads, OnSpiceClientExit(t) PROVE InitInv'
    <2>1. CASE DisconnectCloses(t)
        BY <2>1, InitInvFrame DEF DisconnectCloses, ExitCloses, CloseSocket
    <2>2. CASE DisconnectUnlinks(t)
        BY <2>2, InitInvFrame DEF DisconnectUnlinks, ExitUnlinks
    <2>3. CASE HandlerReturns(t)
        BY <2>3, InitInvFrame DEF HandlerReturns, ExitReturns, ExitHandled
    <2>4. CASE SetExitStatus(t) \/ CallOnDisconnected(t) \/ RemoveTrustStoreFile(t)
               \/ ClearTrustStoreName(t)
        BY <2>4, InitInvFrame DEF SetExitStatus, CallOnDisconnected,
            RemoveTrustStoreFile, ClearTrustStoreName
    <2> QED BY <1>4, <2>1, <2>2, <2>3, <2>4 DEF OnSpiceClientExit
<1>5. CASE Disconnect
    BY <1>5, InitInvFrame DEF Disconnect, StopCall, CallStopClient, StopClient
<1>6. ASSUME NEW c \in Threads, ClientBinds(c) \/ ClientExits(c) \/ ClientReaped(c)
      PROVE InitInv'
    <2>1. \A t \in Threads : proc'[t] = proc[t] \/ proc'[t] \in {"exited", "reaped"}
        BY <1>6 DEF ClientBinds, Bind, ClientExits, Exit, ClientExit, ClientReaped,
            ReapClient, Reap, TypeInv, WatchTypeOK
    <2>2. UNCHANGED <<m_client_socket, peer, recv, ctl, rc, mpc, sent>>
        BY <1>6 DEF ClientBinds, Bind, ClientExits, Exit, ClientReaped, ReapClient
    <2> QED BY <2>1, <2>2, InitInvFrame
<1>7. ASSUME NEW t \in Threads, ConnectBegins(t) PROVE InitInv'
    BY <1>7 DEF ConnectBegins, Connect, StartClient, InitInv, InitFirst, Opening
<1>8. CASE ConnectTries
    <2>1. ~Opening
        BY <1>8 DEF ConnectTries, AttemptWithoutName, AttemptConnected,
            AttemptSucceeds, AttemptFails, Attempt, Opening, PhaseInv
    <2>2. CASE AttemptSucceeds
        BY <1>8, <2>2 DEF ConnectTries, AttemptSucceeds, Attempt, Listening, InitInv,
            InitFirst, Opening
    <2>3. CASE AttemptWithoutName \/ AttemptConnected \/ AttemptFails
        BY <1>8, <2>1, <2>3 DEF ConnectTries, AttemptWithoutName, AttemptConnected,
            AttemptFails, Attempt, InitInv, InitFirst, Opening
    <2> QED BY <1>8, <2>2, <2>3 DEF ConnectTries
<1>9. CASE ConnectReached
    BY <1>9 DEF ConnectReached, ConnectReturns, CallStopClient, StopClient, InitInv,
        InitFirst, Opening, PhaseInv
<1>10. CASE CreateTrustStoreFile \/ NameTrustStoreFile
    BY <1>10, ScriptIsSeq DEF CreateTrustStoreFile, NameTrustStoreFile, InitInv,
        InitFirst, Opening
<1>11. CASE CreateTrustStoreFails
    BY <1>11 DEF CreateTrustStoreFails, InitInv, InitFirst, HasTmp
<1>12. CASE SendNext
    <2>1. sent \in Nat /\ Script[sent + 1] \in Messages
        BY <1>12, ScriptIsSeq DEF SendNext, TypeOK
    <2>2. Opening <=> sent = 0
        BY <1>12 DEF SendNext, Opening, PhaseInv
    <2>3. Script[1] = "INIT" /\ Filled("INIT")
        BY DEF Script, Filled, AlwaysSent
    <2>4. UNCHANGED <<proc, m_client_socket, peer, mpc>> /\ sent' = sent + 1
        BY <1>12 DEF SendNext
    <2>5. CASE Filled(Script[sent + 1])
        <3>1. Write(Script[sent + 1])
            BY <1>12, <2>5 DEF SendNext
        <3>2. sent = 0 => Script[sent + 1] = "INIT"
            BY <2>3
        <3>3. InitFirst' /\ (HasTmp /\ MaxRead # 0 =>
                \A c \in Threads :
                    m_client_socket = "connected" /\ peer = c /\ proc[c] = "running" =>
                        recv'[c] # <<>> \/ (Opening /\ recv'[c] = recv[c]))
            BY <2>1, <2>2, <2>4, <3>1, <3>2, InitInvWrite
        <3>4. ASSUME HasTmp, MaxRead # 0, NEW c \in Threads,
                     m_client_socket = "connected", peer = c, proc[c] = "running"
              PROVE  recv'[c] # <<>>
            <4>1. recv[c] \in Seq(Messages) /\ MaxRead > 0
                BY UnixAssumption, <3>4 DEF UnixTypeOK
            <4>2. CASE recv[c] = <<>>
                <5>1. recv'[c] = Append(recv[c], Script[sent + 1])
                    BY <3>1, <3>4, <4>1, <4>2 DEF Write, UnixTypeOK
                <5> QED BY <2>1, <4>1, <5>1, AppendHead
            <4> QED BY <3>3, <3>4, <4>2
        <3> QED BY <2>4, <3>3, <3>4 DEF InitInv, HasTmp
    <2>6. CASE ~Filled(Script[sent + 1])
        BY <1>12, <2>2, <2>3, <2>4, <2>6 DEF SendNext, InitInv, InitFirst, HasTmp, Opening
    <2> QED BY <2>5, <2>6
<1>13. CASE ConnectEnds
    BY <1>13, ScriptIsSeq DEF ConnectEnds, InitInv, InitFirst, HasTmp, Opening, PhaseInv
<1>14. CASE Show
    <2>1. "SHOW" \in Messages
        BY SessionAssumption DEF Script, Range
    <2>2. ~Opening /\ Write("SHOW") /\ UNCHANGED <<proc, m_client_socket, peer>>
        BY <1>14 DEF Show, WriteCall, Opening
    <2> QED BY <1>14, <2>1, <2>2, InitInvWrite DEF Show, WriteCall, InitInv, HasTmp
<1>15. CASE Destroy \/ Deleted
    BY <1>15 DEF Destroy, CloseController, CloseSocket, Deleted, DeleteController,
        Delete, InitInv, InitFirst, HasTmp, Opening
<1> QED BY <1>1, <1>2, <1>3, <1>4, <1>5, <1>6, <1>7, <1>8, <1>9, <1>10, <1>11, <1>12,
        <1>13, <1>14, <1>15 DEF Next, SessionThreadStep, SessionMainStep

\* The first message that a client reads is INIT, in spite of show(), of sessions
\* that overlap and of client threads that close the socket under the main one
\* (PluginSession.InitFirst).
THEOREM InitAlwaysFirst == Spec => []InitFirst
<1>1. Init => InitInv
    BY DEF Init, UnixInit, InitInv, InitFirst
<1>2. InitInv => InitFirst
    BY DEF InitInv
<1> QED BY <1>1, <1>2, InitInvNext, SessionInvariants, PTL DEF Spec

-----------------------------------------------------------------------------
(* One session at a time: whose thread lives, and the trust store file.    *)

\* The steps of a thread, other than its first, and those of the client.
LEMMA ThreadsGoOn ==
    ASSUME TypeInv, NEW t \in Threads, ThreadStep(t) \/ ClientExit(t) \/ Reap(t)
    PROVE  Live' \subseteq Live
BY DEF ThreadStep, SetupControllerPipe, Spawn, SpawnFails, SetPid, WatchChild, RunLoop,
    ChildExited, ExitHandled, LeaveLoop, UnrefLoop, ClosePid, UseAfterDelete,
    UseFreedLoop, Goes, ClientExit, Reap, Live, TypeInv, WatchTypeOK

\* Only connect() starts a thread, and only it changes cur.
LEMMA OnlyConnectStarts ==
    ASSUME TypeInv, [Next]_vars, ~\E t \in Threads : ConnectBegins(t)
    PROVE  Live' \subseteq Live /\ cur' = cur
<1> USE DEF unixVars, watchVars, sessionVars, pageVars, Live
<1>1. CASE UNCHANGED vars \/ SessionGone
    BY <1>1 DEF vars, SessionGone
<1>2. ASSUME NEW t \in Threads, SessionThreadStep(t)
      PROVE  Live' \subseteq Live /\ cur' = cur
    <2>1. cur' = cur
        BY <1>2 DEF SessionThreadStep, SetsUpPipe, Watches, OnSpiceClientExit,
            SetExitStatus, CallOnDisconnected, DisconnectCloses, DisconnectUnlinks,
            RemoveTrustStoreFile, ClearTrustStoreName, HandlerReturns
    <2>2. ThreadStep(t) \/ UNCHANGED pc
        BY <1>2 DEF SessionThreadStep, SetsUpPipe, SetName, Watches, WatchStep,
            OnSpiceClientExit, SetExitStatus, CallOnDisconnected, DisconnectCloses,
            ExitCloses, DisconnectUnlinks, ExitUnlinks, RemoveTrustStoreFile,
            ClearTrustStoreName, HandlerReturns, ExitReturns, ThreadStep
    <2> QED BY <2>1, <2>2, ThreadsGoOn
<1>3. ASSUME NEW c \in Threads, ClientBinds(c) \/ ClientExits(c) \/ ClientReaped(c)
      PROVE  Live' \subseteq Live /\ cur' = cur
    BY <1>3 DEF ClientBinds, Bind, ClientExits, Exit, ClientExit, ClientReaped,
        ReapClient, Reap
<1>4. CASE ConnectBadPorts \/ Show \/ Disconnect \/ Destroy
    BY <1>4 DEF ConnectBadPorts, Show, WriteCall, Disconnect, StopCall, CallStopClient,
        StopClient, Destroy, CloseController
<1>5. CASE SessionMainStep
    BY <1>5 DEF SessionMainStep, ConnectTries, AttemptWithoutName, AttemptConnected,
        AttemptSucceeds, AttemptFails, Attempt, ConnectReached, ConnectReturns,
        CallStopClient, StopClient, CreateTrustStoreFile, CreateTrustStoreFails,
        NameTrustStoreFile, SendNext, ConnectEnds, Deleted, DeleteController, Delete
<1> QED BY <1>1, <1>2, <1>3, <1>4, <1>5 DEF Next

CurInv == Patient => \A t \in Live : t = cur

\* Every step keeps CurInv: a patient page begins no thread while one lives.
LEMMA CurInvNext == TypeInv /\ CurInv /\ [Next]_vars => CurInv'
<1> SUFFICES ASSUME TypeInv, CurInv, [Next]_vars, Patient PROVE CurInv'
    BY DEF CurInv, Patient
<1>1. ASSUME NEW t \in Threads, ConnectBegins(t) PROVE CurInv'
    <2>1. Live = {} /\ pc' = [pc EXCEPT ![t] = "setup"] /\ cur' = t
        BY <1>1 DEF ConnectBegins, Connect, StartClient, Patient
    <2> QED BY <2>1 DEF CurInv, Live, TypeInv, WatchTypeOK
<1>2. CASE ~\E t \in Threads : ConnectBegins(t)
    BY <1>2, OnlyConnectStarts DEF CurInv
<1> QED BY <1>1, <1>2

\* CurInv is an invariant of the session.
LEMMA CurInvariant == Spec => []CurInv
<1>1. Init => CurInv
    BY DEF Init, UnixInit, WatchInit, CurInv, Live
<1> QED BY <1>1, CurInvNext, SessionInvariants, PTL DEF Spec

\* What a list contains when something is added to it.
LEMMA AppendContains ==
    ASSUME NEW s \in Seq(Messages), NEW m \in Messages, NEW x, Contains(Append(s, m), x)
    PROVE  x = m \/ Contains(s, x)
BY DEF Contains

FileInv ==
    /\ \A c \in Threads : proc[c] = "none" => recv[c] = <<>>
    /\ CaFileStays
    /\ Patient /\ mpc \in {"name", "sending"} => cur \in files \/ proc[cur] = "reported"

\* A step that starts no client, writes nothing and removes no file.
LEMMA FileInvFrame ==
    ASSUME FileInv, TypeInv, UNCHANGED recv, files \subseteq files',
           \A c \in Threads :
                /\ proc'[c] = "none" => proc[c] = "none"
                /\ proc'[c] = "running" => proc[c] = "running"
                /\ proc[c] = "reported" => proc'[c] = "reported"
    PROVE  /\ \A c \in Threads : proc'[c] = "none" => recv'[c] = <<>>
           /\ CaFileStays'
           /\ cur \in Threads \/ mpc = "idle" =>
                (UNCHANGED <<cur, mpc>> => FileInv')
BY DEF FileInv, CaFileStays, Patient

\* A client that is written to runs, and so has its file.
LEMMA FileInvWrite ==
    ASSUME FileInv, UnixTypeOK, TypeInv, SoloInv, CurInv, NEW msg \in Messages,
           Write(msg), UNCHANGED <<proc, files>>,
           mpc = "sending" \/ msg # "CA_FILE"
    PROVE  /\ \A c \in Threads : proc'[c] = "none" => recv'[c] = <<>>
           /\ CaFileStays'
<1>1. ASSUME NEW c \in Threads PROVE proc'[c] = "none" => recv'[c] = <<>>
    BY WriteAppends DEF FileInv
<1>2. ASSUME Patient, NEW c \in Threads, proc[c] = "running", Contains(recv'[c], "CA_FILE")
      PROVE  c \in files
    <2>1. recv[c] \in Seq(Messages)
        BY DEF UnixTypeOK
    <2>2. CASE Contains(recv[c], "CA_FILE")
        BY <1>2, <2>2 DEF FileInv, CaFileStays
    <2>3. CASE ~Contains(recv[c], "CA_FILE")
        <3>1. recv'[c] = Append(recv[c], msg)
            BY <1>2, <2>3, WriteAppends
        <3>2. msg = "CA_FILE"
            BY <1>2, <2>1, <2>3, <3>1, AppendContains
        <3>3. c = cur
            BY <1>2, RunningHasThread DEF CurInv, Live
        <3> QED BY <1>2, <3>2, <3>3 DEF FileInv
    <2> QED BY <2>2, <2>3
<1> QED BY <1>1, <1>2 DEF CaFileStays, Patient

\* Every step keeps FileInv.
LEMMA FileInvNext ==
    /\ TypeOK /\ PhaseInv /\ UnixTypeOK /\ TypeInv /\ SoloInv /\ CurInv /\ FileInv
    /\ [Next]_vars
    => FileInv'
<1> SUFFICES ASSUME TypeOK, PhaseInv, UnixTypeOK, TypeInv, SoloInv, CurInv, FileInv,
                    [Next]_vars
             PROVE FileInv'
    OBVIOUS
<1> USE DEF unixVars, watchVars, clientVars, socketVars, sessionVars, pageVars, trustVars
<1>0. cur \in Threads \/ mpc = "idle"
    BY DEF PhaseInv
<1>1. CASE UNCHANGED vars \/ ConnectBadPorts \/ SessionGone
    BY <1>0, <1>1, FileInvFrame DEF vars, ConnectBadPorts, SessionGone
<1>2. ASSUME NEW t \in Threads, SetsUpPipe(t) PROVE FileInv'
    BY <1>0, <1>2, FileInvFrame DEF SetsUpPipe, SetName, SetupControllerPipe
<1>3. ASSUME NEW t \in Threads, Watches(t) PROVE FileInv'
    <2>0. UNCHANGED <<recv, files, cur, mpc>>
        BY <1>3 DEF Watches, WatchStep
    <2>1. CASE Spawn(t)
        <3>1. proc[t] = "none" /\ recv[t] = <<>>
            BY <2>1 DEF Spawn, Goes, TypeInv, FileInv
        <3>2. ~Contains(recv[t], "CA_FILE")
            BY <3>1 DEF Contains
        <3>3. \A c \in Threads : proc'[c] = IF c = t THEN "running" ELSE proc[c]
            BY <2>1 DEF Spawn, TypeInv, WatchTypeOK
        <3> QED BY <1>0, <2>0, <3>1, <3>2, <3>3 DEF FileInv, CaFileStays, Patient
    <2>2. CASE ChildExited(t)
        <3>1. \A c \in Threads : \/ proc'[c] = proc[c]
                                 \/ proc[c] = "reaped" /\ proc'[c] = "reported"
            BY <2>2 DEF ChildExited, Dispatches, TakeStatus, TypeInv, WatchTypeOK
        <3> QED BY <1>0, <2>0, <3>1, FileInvFrame
    <2>3. CASE UNCHANGED proc
        BY <1>0, <2>0, <2>3, FileInvFrame
    <2> QED BY <1>3, <2>1, <2>2, <2>3 DEF Watches, WatchStep, SpawnFails, SetPid,
            WatchChild, RunLoop, LeaveLoop, UnrefLoop, ClosePid, UseAfterDelete,
            UseFreedLoop
<1>4. ASSUME NEW t \in Threads, OnSpiceClientExit(t) PROVE FileInv'
    <2>1. CASE RemoveTrustStoreFile(t)
        <3>1. UNCHANGED <<proc, recv, mpc, cur>> /\ files' = files \ {m_trust_store_file}
            BY <2>1 DEF RemoveTrustStoreFile
        <3>2. pc[t] = "exit"
            BY <2>1 DEF RemoveTrustStoreFile, Handles
        <3>3. Patient => t = cur /\ proc[t] = "reported"
            BY <3>2 DEF CurInv, Live, SoloInv, SoloExit
        <3>4. \A c \in Threads : Patient /\ proc[c] = "running" => c = cur
            BY RunningHasThread DEF CurInv, Live
        <3>5. Patient => \A c \in Threads : proc[c] # "running"
            BY <3>3, <3>4
        <3> QED BY <3>1, <3>3, <3>5 DEF FileInv, CaFileStays, Patient
    <2>2. CASE SetExitStatus(t) \/ CallOnDisconnected(t) \/ ClearTrustStoreName(t)
        BY <1>0, <2>2, FileInvFrame DEF SetExitStatus, CallOnDisconnected,
            ClearTrustStoreName
    <2>3. CASE DisconnectCloses(t) \/ DisconnectUnlinks(t) \/ HandlerReturns(t)
        BY <1>0, <2>3, FileInvFrame DEF DisconnectCloses, ExitCloses, DisconnectUnlinks,
            ExitUnlinks, HandlerReturns, ExitReturns, ExitHandled
    <2> QED BY <1>4, <2>1, <2>2, <2>3 DEF OnSpiceClientExit
<1>5. CASE Disconnect \/ Destroy \/ Deleted
    BY <1>0, <1>5, FileInvFrame DEF Disconnect, StopCall, CallStopClient, StopClient,
        Destroy, CloseController, Deleted, DeleteController, Delete
<1>6. ASSUME NEW c \in Threads, ClientBinds(c) \/ ClientExits(c) \/ ClientReaped(c)
      PROVE FileInv'
    <2>1. \A t \in Threads :
            \/ proc'[t] = proc[t]
            \/ proc[t] \in {"running", "exited"} /\ proc'[t] \in {"exited", "reaped"}
        BY <1>6 DEF ClientBinds, Bind, ClientExits, Exit, ClientExit, ClientReaped,
            ReapClient, Reap, TypeInv, WatchTypeOK
    <2>2. UNCHANGED <<recv, mpc, cur, files>>
        BY <1>6 DEF ClientBinds, Bind, ClientExits, Exit, ClientReaped, ReapClient
    <2> QED BY <1>0, <2>1, <2>2, FileInvFrame
<1>7. ASSUME NEW t \in Threads, ConnectBegins(t) PROVE FileInv'
    BY <1>7 DEF ConnectBegins, Connect, StartClient, FileInv, CaFileStays, Patient
<1>8. CASE ConnectTries \/ ConnectReached \/ ConnectEnds
    <2>1. UNCHANGED <<proc, recv, files, cur>> /\ mpc' \notin {"name", "sending"}
        BY <1>8 DEF ConnectTries, AttemptWithoutName, AttemptConnected, AttemptSucceeds,
            AttemptFails, Attempt, ConnectReached, ConnectReturns, CallStopClient,
            StopClient, ConnectEnds, PhaseInv
    <2> QED BY <2>1 DEF FileInv, CaFileStays, Patient
<1>9. CASE CreateTrustStoreFile
    BY <1>9 DEF CreateTrustStoreFile, FileInv, CaFileStays, Patient
<1>10. CASE CreateTrustStoreFails
    <2>1. files \subseteq files' /\ UNCHANGED <<proc, recv>> /\ mpc' = "idle"
        BY <1>10 DEF CreateTrustStoreFails
    <2> QED BY <2>1 DEF FileInv, CaFileStays, Patient
<1>11. CASE NameTrustStoreFile
    BY <1>11 DEF NameTrustStoreFile, FileInv, CaFileStays, Patient
<1>12. CASE SendNext
    <2>1. Script[sent + 1] \in Messages
        <3>1. sent + 1 \in 1..Len(Script)
            BY <1>12, ScriptIsSeq DEF SendNext, TypeOK
        <3> QED BY <3>1, ScriptIsSeq
    <2>2. mpc = "sending" /\ UNCHANGED <<proc, files, mpc, cur>>
        BY <1>12 DEF SendNext
    <2>3. CASE Write(Script[sent + 1])
        BY <1>0, <2>1, <2>2, <2>3, FileInvWrite DEF FileInv, Patient
    <2>4. CASE UNCHANGED recv
        BY <1>0, <2>2, <2>4, FileInvFrame
    <2> QED BY <1>12, <2>3, <2>4 DEF SendNext
<1>13. CASE Show
    <2>1. "SHOW" \in Messages
        BY SessionAssumption DEF Script, Range
    <2>2. Write("SHOW") /\ UNCHANGED <<proc, files, mpc, cur>>
        BY <1>13 DEF Show, WriteCall
    <2> QED BY <1>13, <2>1, <2>2, FileInvWrite DEF Show, FileInv, Patient
<1> QED BY <1>1, <1>2, <1>3, <1>4, <1>5, <1>6, <1>7, <1>8, <1>9, <1>10, <1>11, <1>12,
        <1>13 DEF Next, SessionThreadStep, SessionMainStep

\* With one session at a time, the CA file that a client was told of exists for
\* as long as the client runs (PluginSession.CaFileStays).
THEOREM CaFileAlwaysStays == Spec => []CaFileStays
<1>1. Init => FileInv
    <2>1. ~Contains(<<>>, "CA_FILE")
        BY DEF Contains
    <2> QED BY <2>1 DEF Init, UnixInit, WatchInit, FileInv, CaFileStays
<1>2. FileInv => CaFileStays
    BY DEF FileInv
<1> QED BY <1>1, <1>2, FileInvNext, CurInvariant, SessionInvariants, PTL DEF Spec
-----------------------------------------------------------------------------
(* What the page is told, whatever sessions overlap.                       *)

\* Where a thread is in its handler, against the exit it has reported.
HandlerInv ==
    \A t \in Threads :
        /\ handles[t] = NoThread => step[t] = "status"
        /\ handles[t] # NoThread => handles[t] = runs[t]
        /\ pc[t] = "exit" => handles[t] # NoThread
        /\ pc[t] # "exit" /\ handles[t] # NoThread => step[t] = "done"
        /\ pc[t] \in {"idle", "setup", "spawn", "set_pid", "watch", "run"} =>
            handles[t] = NoThread
        /\ "debug" \in Allowed => step[t] \notin {"tell", "close", "unlink"}

\* The thread that handles the exit of c is the only one that tells it.
HasTold(t) == step[t] \notin {"status", "tell"}

ToldInv ==
    /\ \A c \in Threads :
        told[c] = 0 \/ /\ told[c] = 1
                       /\ "debug" \notin Allowed
                       /\ \E t \in Threads : handles[t] = c /\ HasTold(t)
    /\ \A t \in Threads : "debug" \notin Allowed /\ HasTold(t) => told[handles[t]] = 1

TellInv == HandlerInv /\ ToldInv

\* The steps that are no part of OnSpiceClientExit leave its labels alone, and
\* where a thread goes in them.
Elsewhere ==
    /\ UNCHANGED <<step, told>>
    /\ \A t \in Threads :
        \/ UNCHANGED <<pc[t], handles[t], runs[t]>>
        \/ /\ UNCHANGED <<handles[t], runs[t]>>
           /\ pc[t] \in {"setup", "spawn", "set_pid", "watch"}
           /\ pc'[t] \notin {"idle", "exit"}
        \/ /\ UNCHANGED <<handles[t], runs[t]>>
           /\ pc[t] = "idle"
           /\ pc'[t] = "setup"
        \/ /\ UNCHANGED <<handles[t], runs[t]>>
           /\ pc[t] \in {"watching", "unref", "close"}
           /\ pc'[t] \in {"unref", "close", "done"}
        \/ pc[t] = "run" /\ pc'[t] = "watching" /\ UNCHANGED handles[t]

\* Steps outside of the handler keep TellInv.
LEMMA TellInvElsewhere ==
    ASSUME TypeInv, TellInv, Elsewhere PROVE TellInv'
<1>1. \A t \in Threads : handles'[t] = handles[t] /\ (HasTold(t)' <=> HasTold(t))
    BY DEF Elsewhere, HasTold
<1>2. HandlerInv'
    BY <1>1 DEF TellInv, HandlerInv, Elsewhere
<1>3. ToldInv'
    BY <1>1 DEF TellInv, ToldInv, Elsewhere
<1> QED BY <1>2, <1>3 DEF TellInv

\* The steps of a thread outside of the handler.
LEMMA WatchesElsewhere ==
    ASSUME TypeInv, NEW t \in Threads, SetsUpPipe(t) \/ Watches(t), ~ChildExited(t)
    PROVE  Elsewhere /\ Begun' = Begun /\ UNCHANGED m_connected_status
<1> USE DEF TypeInv, WatchTypeOK, Elsewhere, Goes, loopVars, sessionVars, Begun
<1>1. CASE SetsUpPipe(t)
    BY <1>1 DEF SetsUpPipe, SetName, SetupControllerPipe
<1>2. CASE Watches(t) /\ (Spawn(t) \/ SpawnFails(t) \/ SetPid(t) \/ WatchChild(t))
    BY <1>2 DEF Watches, Spawn, SpawnFails, SetPid, WatchChild
<1>3. CASE Watches(t) /\ RunLoop(t)
    BY <1>3 DEF Watches, RunLoop
<1>4. CASE Watches(t) /\ (LeaveLoop(t) \/ UnrefLoop(t) \/ ClosePid(t))
    BY <1>4 DEF Watches, LeaveLoop, UnrefLoop, ClosePid
<1>5. CASE Watches(t) /\ (UseAfterDelete(t) \/ UseFreedLoop(t))
    BY <1>5 DEF Watches, UseAfterDelete, UseFreedLoop
<1> QED BY <1>1, <1>2, <1>3, <1>4, <1>5 DEF Watches, WatchStep

\* A thread comes to its handler with an exit that nobody has reported.
LEMMA TellInvReports ==
    ASSUME TypeOK, TypeInv, ReportInv, TellInv, NEW t \in Threads, Watches(t),
           ChildExited(t)
    PROVE  TellInv' /\ handles[t] = NoThread /\ step[t] = "status"
<1>1. /\ pc[t] = "watching" /\ pc' = [pc EXCEPT ![t] = "exit"]
      /\ runs[t] \in Threads /\ proc[runs[t]] = "reaped"
      /\ handles' = [handles EXCEPT ![t] = runs[t]]
      /\ UNCHANGED <<runs, step, told>>
    BY DEF Watches, ChildExited, Dispatches, Goes, TypeInv, Ran, sessionVars
<1>2. handles[t] = NoThread
    BY <1>1 DEF TellInv, HandlerInv, ReportInv
<1>3. step[t] = "status"
    BY <1>2 DEF TellInv, HandlerInv
<1>4. \A s \in Threads : HasTold(s)' <=> HasTold(s)
    BY <1>1 DEF HasTold
<1>5. \A s \in Threads : s # t => handles'[s] = handles[s]
    BY <1>1 DEF TypeInv, WatchTypeOK
<1>6. ~HasTold(t)
    BY <1>3 DEF HasTold
<1>7. HandlerInv'
    BY <1>1, <1>3, ConstAssumption DEF TellInv, HandlerInv, TypeInv, WatchTypeOK
<1>8. ToldInv'
    BY <1>1, <1>4, <1>5, <1>6 DEF TellInv, ToldInv
<1> QED BY <1>2, <1>3, <1>7, <1>8 DEF TellInv

\* The page is told of an exit that it was not told of.
LEMMA TellInvTells ==
    ASSUME TypeOK, TypeInv, ReportInv, TellInv, NEW t \in Threads, CallOnDisconnected(t)
    PROVE  /\ handles[t] \in Threads
           /\ told[handles[t]] = 0
           /\ told' = [told EXCEPT ![handles[t]] = 1]
           /\ TellInv'
<1>1. /\ pc[t] = "exit" /\ step[t] = "tell"
      /\ step' = [step EXCEPT ![t] = "close"]
      /\ told' = [told EXCEPT ![handles[t]] = @ + 1]
      /\ UNCHANGED <<pc, handles, runs>>
    BY DEF CallOnDisconnected, Handles, Tell, unixVars, watchVars, loopVars
<1>2. handles[t] \in Threads /\ "debug" \notin Allowed
    BY <1>1 DEF TellInv, HandlerInv, TypeInv, WatchTypeOK
<1>3. \A s \in Threads : handles[s] = handles[t] => s = t
    BY <1>2, ConstAssumption DEF ReportInv
<1>4. told[handles[t]] = 0
    BY <1>1, <1>2, <1>3 DEF TellInv, ToldInv, HasTold
<1>5. told' = [told EXCEPT ![handles[t]] = 1]
    BY <1>1, <1>2, <1>4 DEF TypeOK
<1>6. \A s \in Threads : step'[s] = IF s = t THEN "close" ELSE step[s]
    BY <1>1 DEF TypeOK
<1>7. HandlerInv'
    BY <1>1, <1>2, <1>6, ConstAssumption DEF TellInv, HandlerInv
<1>8. \A c \in Threads : told'[c] = IF c = handles[t] THEN 1 ELSE told[c]
    BY <1>2, <1>5 DEF TypeOK
<1>9. HasTold(t)' /\ \A s \in Threads : s # t => (HasTold(s)' <=> HasTold(s))
    BY <1>6 DEF HasTold
<1>10. \A s \in Threads : HasTold(s) => handles[s] \in Threads
    BY DEF HasTold, TellInv, HandlerInv, TypeInv, WatchTypeOK
<1>11. ToldInv'
    <2>1. ASSUME NEW c \in Threads
          PROVE  \/ told'[c] = 0
                 \/ /\ told'[c] = 1
                    /\ "debug" \notin Allowed
                    /\ \E s \in Threads : handles'[s] = c /\ HasTold(s)'
        <3>1. CASE c = handles[t]
            BY <1>1, <1>2, <1>8, <1>9, <3>1
        <3>2. CASE c # handles[t]
            <4>1. told'[c] = told[c]
                BY <1>8, <3>2
            <4>2. \A s \in Threads : handles[s] = c => s # t
                BY <3>2
            <4> QED BY <1>1, <1>9, <4>1, <4>2 DEF TellInv, ToldInv
        <3> QED BY <3>1, <3>2
    <2>2. ASSUME NEW s \in Threads, "debug" \notin Allowed, HasTold(s)'
          PROVE  told'[handles'[s]] = 1
        <3>1. CASE s = t
            BY <1>1, <1>2, <1>8, <3>1
        <3>2. CASE s # t
            <4>1. HasTold(s) /\ handles[s] # handles[t] /\ handles[s] \in Threads
                BY <1>3, <1>9, <1>10, <2>2, <3>2
            <4> QED BY <1>1, <1>8, <2>2, <4>1 DEF TellInv, ToldInv
        <3> QED BY <3>1, <3>2
    <2> QED BY <2>1, <2>2 DEF ToldInv
<1> QED BY <1>2, <1>4, <1>5, <1>7, <1>11 DEF TellInv

\* The other steps of the handler move one thread one label on.
LEMMA TellInvHandles ==
    ASSUME TypeOK, TypeInv, TellInv, NEW t \in Threads, NEW to,
           pc[t] = "exit",
           step' = [step EXCEPT ![t] = to],
           pc' = IF to = "done" THEN [pc EXCEPT ![t] = "watching"] ELSE pc,
           UNCHANGED <<handles, runs, told>>,
           "debug" \in Allowed => to \notin {"tell", "close", "unlink"},
           "debug" \notin Allowed => (to \notin {"status", "tell"} <=> HasTold(t))
    PROVE  TellInv'
<1>1. handles[t] \in Threads /\ handles[t] # NoThread
    BY DEF TellInv, HandlerInv, TypeInv, WatchTypeOK
<1>2. \A s \in Threads : s # t => step'[s] = step[s] /\ pc'[s] = pc[s]
    BY DEF TypeOK, TypeInv, WatchTypeOK
<1>3. step'[t] = to /\ pc'[t] = IF to = "done" THEN "watching" ELSE "exit"
    BY DEF TypeOK, TypeInv, WatchTypeOK
<1>4. HandlerInv'
    BY <1>1, <1>2, <1>3 DEF TellInv, HandlerInv
<1>5. "debug" \notin Allowed => \A s \in Threads : HasTold(s)' <=> HasTold(s)
    BY <1>2, <1>3 DEF HasTold
<1>6. ToldInv'
    BY <1>5 DEF TellInv, ToldInv
<1> QED BY <1>4, <1>6 DEF TellInv

\* What a step of a session is for the page: nothing, or one of these.
LEMMA SessionSteps ==
    ASSUME TypeInv, [Next]_vars
    PROVE  \/ Elsewhere /\ Begun' = Begun /\ UNCHANGED m_connected_status
           \/ Elsewhere /\ Begun' = Begun /\ (ConnectBadPorts \/ ConnectEnds)
           \/ Elsewhere /\ \E t \in Threads : ConnectBegins(t)
           \/ \E t \in Threads : Watches(t) /\ ChildExited(t)
           \/ \E t \in Threads : OnSpiceClientExit(t)
<1> DEFINE Hidden == Elsewhere /\ Begun' = Begun /\ UNCHANGED m_connected_status
           Aside == Elsewhere /\ Begun' = Begun
<1>1. CASE UNCHANGED vars \/ SessionGone \/ ConnectBadPorts \/ ConnectEnds
    <2>1. UNCHANGED <<pc, handles, runs, step, told>>
        BY <1>1 DEF vars, SessionGone, ConnectBadPorts, ConnectEnds, unixVars, watchVars,
            loopVars, sessionVars
    <2>2. Aside
        BY <2>1 DEF Elsewhere, Begun
    <2>3. ConnectBadPorts \/ ConnectEnds \/ UNCHANGED m_connected_status
        BY <1>1 DEF vars, SessionGone, sessionVars
    <2> QED BY <2>2, <2>3
<1>2. ASSUME NEW t \in Threads, ConnectBegins(t) PROVE Elsewhere
    BY <1>2 DEF ConnectBegins, Connect, StartClient, TypeInv, WatchTypeOK, Elsewhere,
        loopVars
<1>3. CASE Show \/ Disconnect \/ Destroy
    BY <1>3 DEF Show, WriteCall, Disconnect, StopCall, CallStopClient, StopClient,
        Destroy, CloseController, Elsewhere, Begun, watchVars, loopVars, sessionVars
<1>4. CASE SessionMainStep /\ ~ConnectEnds
    BY <1>4 DEF SessionMainStep, ConnectTries, AttemptWithoutName, AttemptConnected,
        AttemptSucceeds, AttemptFails, Attempt, ConnectReached, ConnectReturns,
        CallStopClient, StopClient, CreateTrustStoreFile, CreateTrustStoreFails,
        NameTrustStoreFile, SendNext, Deleted, DeleteController, Delete, Elsewhere,
        Begun, unixVars, watchVars, loopVars, sessionVars
<1>5. ASSUME NEW c \in Threads, ClientBinds(c) \/ ClientExits(c) \/ ClientReaped(c)
      PROVE  Hidden
    BY <1>5 DEF ClientBinds, Bind, ClientExits, Exit, ClientExit, ClientReaped,
        ReapClient, Reap, Elsewhere, Begun, watchVars, loopVars, sessionVars
<1>6. ASSUME NEW t \in Threads, SessionThreadStep(t)
      PROVE  Hidden \/ (Watches(t) /\ ChildExited(t)) \/ OnSpiceClientExit(t)
    <2>1. CASE (SetsUpPipe(t) \/ Watches(t)) /\ ~ChildExited(t)
        BY <2>1, WatchesElsewhere
    <2>2. CASE SetsUpPipe(t) /\ ChildExited(t)
        BY <2>2 DEF SetsUpPipe, SetName, SetupControllerPipe, ChildExited, Goes
    <2> HIDE DEF Hidden
    <2> QED BY <1>6, <2>1, <2>2 DEF SessionThreadStep
<1>7. CASE Next
    <2>1. \/ SessionGone \/ ConnectBadPorts \/ ConnectEnds
          \/ \E t \in Threads : ConnectBegins(t) \/ SessionThreadStep(t)
          \/ SessionMainStep /\ ~ConnectEnds
          \/ Show \/ Disconnect \/ Destroy
          \/ \E c \in Threads : ClientBinds(c) \/ ClientExits(c) \/ ClientReaped(c)
        BY <1>7 DEF Next
    <2> HIDE DEF Hidden
    <2> QED BY <2>1, <1>1, <1>2, <1>3, <1>4, <1>5, <1>6 DEF Hidden
<1> QED BY <1>1, <1>7

\* Every step keeps TellInv.
LEMMA TellInvNext ==
    TypeOK /\ TypeInv /\ ReportInv /\ TellInv /\ [Next]_vars => TellInv'
<1> SUFFICES ASSUME TypeOK, TypeInv, ReportInv, TellInv, [Next]_vars PROVE TellInv'
    OBVIOUS
<1>1. CASE Elsewhere
    BY <1>1, TellInvElsewhere
<1>2. ASSUME NEW t \in Threads, Watches(t) /\ ChildExited(t) PROVE TellInv'
    BY <1>2, TellInvReports
<1>3. ASSUME NEW t \in Threads, OnSpiceClientExit(t) PROVE TellInv'
    <2> USE DEF Handles, unixVars, watchVars, loopVars, HasTold
    <2>1. CASE SetExitStatus(t)
        <3> DEFINE to == IF "debug" \in Allowed THEN "remove" ELSE "tell"
        <3>1. pc[t] = "exit" /\ step[t] = "status" /\ step' = [step EXCEPT ![t] = to]
              /\ UNCHANGED <<pc, handles, runs, told>>
            BY <2>1 DEF SetExitStatus
        <3> QED BY <3>1, TellInvHandles
    <2>2. CASE CallOnDisconnected(t)
        BY <2>2, TellInvTells
    <2>3. CASE DisconnectCloses(t)
        <3>1. pc[t] = "exit" /\ step[t] = "close" /\ step' = [step EXCEPT ![t] = "unlink"]
              /\ UNCHANGED <<pc, handles, runs, told>> /\ "debug" \notin Allowed
            BY <2>3 DEF DisconnectCloses, ExitCloses
        <3> QED BY <3>1, TellInvHandles
    <2>4. CASE DisconnectUnlinks(t)
        <3>1. pc[t] = "exit" /\ step[t] = "unlink" /\ step' = [step EXCEPT ![t] = "remove"]
              /\ UNCHANGED <<pc, handles, runs, told>>
            BY <2>4 DEF DisconnectUnlinks, ExitUnlinks
        <3> QED BY <3>1, TellInvHandles
    <2>5. CASE RemoveTrustStoreFile(t)
        <3> DEFINE to == IF m_trust_store_file \in files THEN "clear" ELSE "return"
        <3>1. pc[t] = "exit" /\ step[t] = "remove" /\ step' = [step EXCEPT ![t] = to]
              /\ UNCHANGED <<pc, handles, runs, told>>
            BY <2>5 DEF RemoveTrustStoreFile
        <3> QED BY <3>1, TellInvHandles
    <2>6. CASE ClearTrustStoreName(t)
        <3>1. pc[t] = "exit" /\ step[t] = "clear" /\ step' = [step EXCEPT ![t] = "return"]
              /\ UNCHANGED <<pc, handles, runs, told>>
            BY <2>6 DEF ClearTrustStoreName
        <3> QED BY <3>1, TellInvHandles
    <2>7. CASE HandlerReturns(t)
        <3>1. pc[t] = "exit" /\ step[t] = "return" /\ step' = [step EXCEPT ![t] = "done"]
              /\ pc' = [pc EXCEPT ![t] = "watching"]
              /\ UNCHANGED <<handles, runs, told>>
            BY <2>7 DEF HandlerReturns, ExitReturns, ExitHandled, Goes
        <3> QED BY <3>1, TellInvHandles
    <2> QED BY <1>3, <2>1, <2>2, <2>3, <2>4, <2>5, <2>6, <2>7 DEF OnSpiceClientExit
<1> QED BY <1>1, <1>2, <1>3, SessionSteps

\* TellInv is an invariant of the session.
LEMMA TellInvariant == Spec => []TellInv
<1>1. Init => TellInv
    BY DEF Init, UnixInit, WatchInit, TellInv, HandlerInv, ToldInv, HasTold
<1> QED BY <1>1, TellInvNext, SessionInvariants, PTL DEF Spec

-----------------------------------------------------------------------------
\* One session at a time: the exit of a client is reported by its own thread.
OwnInv == Patient => \A t \in Threads : proc[t] = "reported" => handles[t] = t

\* Every step keeps OwnInv.
LEMMA OwnInvNext ==
    TypeInv /\ SoloInv /\ OwnInv /\ [WatchNext]_watchVars => OwnInv'
<1> SUFFICES ASSUME TypeInv, SoloInv, OwnInv, [WatchNext]_watchVars, Patient
             PROVE  OwnInv'
    BY DEF OwnInv, Patient
<1> USE DEF OwnInv, TypeInv, WatchTypeOK
<1>1. CASE UNCHANGED <<proc, handles>>
    BY <1>1
<1>2. ASSUME NEW t \in Threads, ChildExited(t) PROVE OwnInv'
    <2>1. runs[t] = t
        BY <1>2 DEF ChildExited, Dispatches, SoloInv, SoloLoop
    <2> QED BY <1>2, <2>1 DEF ChildExited, TakeStatus
<1>3. ASSUME NEW t \in Threads, Spawn(t) \/ ClientExit(t) \/ Reap(t) PROVE OwnInv'
    BY <1>3 DEF Spawn, ClientExit, Reap
<1>4. ASSUME NEW t \in Threads, ThreadStep(t), ~Spawn(t), ~ChildExited(t)
      PROVE UNCHANGED <<proc, handles>>
    BY <1>4 DEF ThreadStep, SetupControllerPipe, SpawnFails, SetPid, WatchChild,
        RunLoop, ExitHandled, LeaveLoop, UnrefLoop, ClosePid, UseAfterDelete,
        UseFreedLoop, clientVars
<1> QED BY <1>1, <1>2, <1>3, <1>4 DEF WatchNext, StartClient, StopClient, Delete, Gone,
        watchVars, clientVars

\* OwnInv is an invariant of the session.
LEMMA OwnInvariant == Spec => []OwnInv
<1>1. WatchInit => OwnInv
    BY DEF WatchInit, OwnInv
<1>2. WatchSpec => []TypeInv
    BY TypeInvInit, TypeInvNext, PTL DEF WatchSpec
<1> QED BY <1>1, <1>2, OwnInvNext, SoloInvariant, SessionImplementsUnix,
        UnixImplementsWatch, PTL DEF WatchSpec

\* No exit is told to the page twice, and with one session at a time none is
\* left untold when its thread ends (PluginSession.ToldOnce).
THEOREM PageToldOnce == Spec => []ToldOnce
<1>1. TypeOK /\ TellInv /\ OwnInv => ToldOnce
    <2> SUFFICES ASSUME TypeOK, TellInv, OwnInv, NEW t \in Threads
                 PROVE  /\ told[t] <= 1
                        /\ Patient /\ pc[t] = "done" /\ proc[t] = "reported" =>
                            told[t] = IF "debug" \in Allowed THEN 0 ELSE 1
        BY DEF ToldOnce
    <2>1. told[t] \in {0, 1}
        BY DEF TellInv, ToldInv
    <2>2. "debug" \in Allowed => told[t] = 0
        BY DEF TellInv, ToldInv
    <2>3. ASSUME Patient, pc[t] = "done", proc[t] = "reported", "debug" \notin Allowed
          PROVE  told[t] = 1
        <3>1. handles[t] = t /\ t # NoThread
            BY <2>3, ConstAssumption DEF OwnInv
        <3>2. step[t] = "done"
            BY <2>3, <3>1 DEF TellInv, HandlerInv
        <3> QED BY <2>3, <3>1, <3>2 DEF TellInv, ToldInv, HasTold
    <2> QED BY <2>1, <2>2, <2>3
<1> QED BY <1>1, TellInvariant, OwnInvariant, SessionTypeCorrect, PTL

-----------------------------------------------------------------------------
(* What the page sees is SessionPromise.                                   *)

\* connect() goes on in the session that it began.
BegunInv == mpc # "idle" => cur \in Begun

\* Every step keeps BegunInv.
LEMMA BegunInvNext ==
    TypeInv /\ TypeOK /\ PhaseInv /\ BegunInv /\ [Next]_vars => BegunInv'
<1> SUFFICES ASSUME TypeInv, TypeOK, PhaseInv, BegunInv, [Next]_vars PROVE BegunInv'
    OBVIOUS
<1>1. CASE \E t \in Threads : ConnectBegins(t)
    BY <1>1 DEF ConnectBegins, Connect, StartClient, BegunInv, Begun, TypeInv, WatchTypeOK
<1>2. CASE ~\E t \in Threads : ConnectBegins(t)
    <2>1. Begun \subseteq Begun'
        <3>1. CASE Elsewhere
            BY <3>1 DEF Elsewhere, Begun
        <3>2. ASSUME NEW t \in Threads, Watches(t) /\ ChildExited(t)
              PROVE  Begun \subseteq Begun'
            BY <3>2 DEF ChildExited, Goes, Begun, TypeInv, WatchTypeOK
        <3>3. ASSUME NEW t \in Threads, OnSpiceClientExit(t)
              PROVE  Begun \subseteq Begun'
            BY <3>3 DEF OnSpiceClientExit, SetExitStatus, CallOnDisconnected,
                DisconnectCloses, ExitCloses, DisconnectUnlinks, ExitUnlinks,
                RemoveTrustStoreFile, ClearTrustStoreName, HandlerReturns, ExitReturns,
                ExitHandled, Goes, unixVars, watchVars, Begun, TypeInv, WatchTypeOK
        <3> QED BY <3>1, <3>2, <3>3, SessionSteps
    <2>2. cur' = cur
        BY <1>2, OnlyConnectStarts
    <2>3. mpc' # "idle" => mpc # "idle"
        <3>1. CASE SessionMainStep
            BY <3>1 DEF SessionMainStep, ConnectTries, ConnectReached, ConnectReturns,
                CreateTrustStoreFile, CreateTrustStoreFails, NameTrustStoreFile,
                SendNext, ConnectEnds, Deleted, DeleteController, sessionVars, pageVars,
                PhaseInv
        <3>2. CASE UNCHANGED vars \/ Destroy
            BY <3>2 DEF vars, Destroy, sessionVars, pageVars
        <3> QED BY <1>2, <3>1, <3>2, PhaseKept DEF Next
    <2> QED BY <2>1, <2>2, <2>3 DEF BegunInv
<1> QED BY <1>1, <1>2

\* A session begins as SessionPromise does.
LEMMA PromiseInit == Init => Promise!Init
<1> SUFFICES ASSUME Init PROVE Promise!Init
    OBVIOUS
<1>1. Begun = {} /\ Ended = {}
    BY DEF Init, UnixInit, WatchInit, Begun, Ended
<1> QED BY <1>1 DEF Init, Promise!Init, Promise!Never

\* Every step of a session is a step of SessionPromise, or a stutter.
LEMMA PromiseNext ==
    /\ TypeOK /\ TypeInv /\ ReportInv /\ PhaseInv /\ TellInv /\ BegunInv
    /\ [Next]_vars
    => [Promise!Next]_(Promise!promise)
<1> SUFFICES ASSUME TypeOK, TypeInv, ReportInv, PhaseInv, TellInv, BegunInv, [Next]_vars
             PROVE  Promise!Next \/ UNCHANGED <<m_connected_status, Begun, Ended, told>>
    BY DEF Promise!promise
<1>1. Elsewhere => Ended' = Ended /\ told' = told
    BY DEF Elsewhere, Ended
<1>2. CASE Elsewhere /\ Begun' = Begun /\ UNCHANGED m_connected_status
    BY <1>1, <1>2
<1>3. CASE Elsewhere /\ Begun' = Begun /\ (ConnectBadPorts \/ ConnectEnds)
    <2>1. CASE ConnectBadPorts
        BY <1>1, <1>3, <2>1 DEF ConnectBadPorts, Promise!Next, Promise!Refused,
            Promise!BadPorts
    <2>2. CASE ConnectEnds
        <3>1. Begun # {}
            BY <2>2 DEF ConnectEnds, BegunInv
        <3>2. m_connected_status' = -1
            BY <2>2 DEF ConnectEnds
        <3> QED BY <1>1, <1>3, <3>1, <3>2 DEF Promise!Next, Promise!Connects,
                Promise!Connected
    <2> QED BY <1>3, <2>1, <2>2
<1>4. ASSUME Elsewhere, NEW t \in Threads, ConnectBegins(t) PROVE Promise!Next
    <2>1. pc[t] = "idle" /\ Begun' = Begun \cup {t} /\ t \notin Begun
        BY <1>4 DEF ConnectBegins, Connect, StartClient, Begun, TypeInv, WatchTypeOK
    <2>2. UNCHANGED m_connected_status
        BY <1>4 DEF ConnectBegins
    <2>3. Promise!Begins(t)
        BY <1>1, <1>4, <2>1, <2>2 DEF Promise!Begins
    <2> QED BY <2>3 DEF Promise!Next
<1>5. ASSUME NEW t \in Threads, Watches(t) /\ ChildExited(t)
      PROVE  UNCHANGED <<m_connected_status, Begun, Ended, told>>
    <2>1. handles[t] = NoThread /\ step[t] = "status"
        BY <1>5, TellInvReports
    <2>2. \A s \in Threads : s # t => handles'[s] = handles[s]
        BY <1>5 DEF ChildExited, TypeInv, WatchTypeOK
    <2>3. UNCHANGED <<m_connected_status, step, told>>
        BY <1>5 DEF Watches, sessionVars
    <2>4. Begun' = Begun
        BY <1>5 DEF ChildExited, Goes, Begun, TypeInv, WatchTypeOK
    <2>5. Ended' = Ended
        BY <2>1, <2>2, <2>3 DEF Ended
    <2> QED BY <2>3, <2>4, <2>5
<1>6. ASSUME NEW t \in Threads, OnSpiceClientExit(t)
      PROVE  Promise!Next \/ UNCHANGED <<m_connected_status, Begun, Ended, told>>
    <2>1. pc[t] = "exit" /\ handles' = handles
        BY <1>6 DEF OnSpiceClientExit, SetExitStatus, CallOnDisconnected,
            DisconnectCloses, ExitCloses, DisconnectUnlinks, ExitUnlinks,
            RemoveTrustStoreFile, ClearTrustStoreName, HandlerReturns, ExitReturns,
            ExitHandled, Handles, unixVars, watchVars
    <2>2. handles[t] \in Threads
        BY <2>1 DEF TellInv, HandlerInv, TypeInv, WatchTypeOK
    <2>3. Begun' = Begun
        BY <1>6 DEF OnSpiceClientExit, SetExitStatus, CallOnDisconnected,
            DisconnectCloses, ExitCloses, DisconnectUnlinks, ExitUnlinks,
            RemoveTrustStoreFile, ClearTrustStoreName, HandlerReturns, ExitReturns,
            ExitHandled, Handles, Goes, unixVars, watchVars, Begun, TypeInv, WatchTypeOK
    <2>4. CASE SetExitStatus(t)
        <3>1. step[t] = "status" /\ told' = told /\ m_connected_status' \in ExitStatuses
            BY <2>4 DEF SetExitStatus, StoreStatus, Handles
        <3>2. \A s \in Threads : step'[s] = "status" <=> (s # t /\ step[s] = "status")
            BY <2>4, <3>1 DEF SetExitStatus, Handles, TypeOK
        <3>3. handles[t] \notin Ended
            BY <2>2, <3>1, ConstAssumption DEF Ended, ReportInv
        <3>4. Ended' = Ended \cup {handles[t]}
            BY <2>1, <2>2, <3>1, <3>2 DEF Ended
        <3>5. handles[t] \in Begun
            BY <2>2, ConstAssumption DEF ReportInv, TypeInv, Begun
        <3>6. Promise!Ends(handles[t])
            BY <2>3, <3>1, <3>3, <3>4, <3>5 DEF Promise!Ends
        <3> QED BY <2>2, <3>6 DEF Promise!Next
    <2>5. CASE CallOnDisconnected(t)
        <3>1. told[handles[t]] = 0 /\ told' = [told EXCEPT ![handles[t]] = 1]
            BY <2>5, TellInvTells
        <3>2. step[t] = "tell" /\ UNCHANGED m_connected_status
            BY <2>5 DEF CallOnDisconnected, Handles
        <3>3. \A s \in Threads : step'[s] = "status" <=> step[s] = "status"
            BY <2>5, <3>2 DEF CallOnDisconnected, Handles, TypeOK
        <3>4. Ended' = Ended /\ handles[t] \in Ended
            BY <2>1, <2>2, <3>2, <3>3 DEF Ended
        <3>5. Promise!Tells(handles[t])
            BY <2>3, <3>1, <3>2, <3>4 DEF Promise!Tells
        <3> QED BY <2>2, <3>5 DEF Promise!Next
    <2>6. CASE \/ DisconnectCloses(t) \/ DisconnectUnlinks(t) \/ RemoveTrustStoreFile(t)
               \/ ClearTrustStoreName(t) \/ HandlerReturns(t)
        <3>1. UNCHANGED <<m_connected_status, told>>
            BY <2>6 DEF DisconnectCloses, DisconnectUnlinks, RemoveTrustStoreFile,
                ClearTrustStoreName, HandlerReturns
        <3>2. \A s \in Threads : step'[s] = "status" <=> step[s] = "status"
            BY <2>6 DEF DisconnectCloses, DisconnectUnlinks, RemoveTrustStoreFile,
                ClearTrustStoreName, HandlerReturns, Handles, TypeOK
        <3>3. Ended' = Ended
            BY <2>1, <3>2 DEF Ended
        <3> QED BY <2>3, <3>1, <3>3
    <2> QED BY <1>6, <2>4, <2>5, <2>6 DEF OnSpiceClientExit
<1> QED BY <1>2, <1>3, <1>4, <1>5, <1>6, SessionSteps

\* Whatever sessions overlap, the page sees SessionPromise: the status and the
\* calls of OnDisconnected, in the order it may rely on (PluginSession.PromiseKept).
THEOREM SessionKeepsPromise == Spec => PromiseKept
<1>1. Init => BegunInv
    BY DEF Init, BegunInv
<1> QED BY <1>1, BegunInvNext, PromiseInit, PromiseNext, TellInvariant,
        SessionInvariants, PTL DEF Spec, PromiseKept, Promise!Spec

-----------------------------------------------------------------------------
(* One session at a time, whose client waits for connect(): the status and  *)
(* the trust store file it leaves.                                          *)

\* The exit of the last session is still to come, or being handled; and the
\* handler is past the file.
Waiting == {"set_pid", "watch", "run", "watching", "exit"}
FileDone == {"clear", "return", "done"}

EndInv ==
    Patient /\ Waits =>
        /\ (ctl = "trying" /\ rc = 0) \/ mpc \in {"trust", "name", "sending"} =>
            proc[cur] = "running"
        /\ m_connected_status = -1 =>
            cur \in Threads /\ pc[cur] \in Waiting /\ step[cur] = "status"
        /\ HasTmp =>
            /\ files \subseteq {cur}
            /\ files # {} =>
                /\ pc[cur] \in Waiting /\ step[cur] \notin FileDone
                /\ mpc # "name" => m_trust_store_file = cur

\* A client that runs has a thread that waits for it and has handled nothing.
LEMMA RunningAwaited ==
    ASSUME TypeInv, ReportInv, SoloInv, TellInv, Patient,
           NEW c \in Threads, proc[c] = "running"
    PROVE  pc[c] \in {"set_pid", "watch", "run", "watching"} /\ step[c] = "status"
<1>1. pc[c] \in {"set_pid", "watch", "run", "watching"}
    BY RunningHasThread
<1>2. pc[c] = "watching" => runs[c] = c
    BY DEF SoloInv, SoloLoop
<1>3. handles[c] = NoThread
    BY <1>1, <1>2 DEF TellInv, HandlerInv, ReportInv
<1> QED BY <1>1, <1>3 DEF TellInv, HandlerInv

\* A step that touches neither the file nor the status, nor ends the wait.
LEMMA EndInvFrame ==
    ASSUME EndInv, TypeOK,
           UNCHANGED <<cur, mpc, ctl, rc, m_connected_status, trustVars, step>>,
           Patient /\ Waits =>
            /\ mpc # "idle" /\ proc[cur] = "running" => proc'[cur] = "running"
            /\ cur \in Threads /\ pc[cur] \in Waiting /\ step[cur] \notin FileDone =>
                pc'[cur] \in Waiting,
           PhaseInv
    PROVE  EndInv'
BY DEF EndInv, PhaseInv, TypeOK, trustVars, Waits, Patient, HasTmp, FileDone

\* The steps of a thread outside of the handler keep EndInv.
LEMMA EndInvWatches ==
    ASSUME TypeOK, TypeInv, ReportInv, SoloInv, TellInv, OwnInv, CurInv, PhaseInv, EndInv,
           NEW t \in Threads, SetsUpPipe(t) \/ Watches(t)
    PROVE  EndInv'
<1>1. UNCHANGED <<cur, mpc, ctl, rc, m_connected_status, trustVars, step>>
    BY DEF SetsUpPipe, SetName, Watches, WatchStep, sessionVars, pageVars, callVars
<1>2. ASSUME Patient, mpc # "idle", proc[cur] = "running" PROVE proc'[cur] = "running"
    <2>1. cur \in Threads
        BY <1>2 DEF PhaseInv
    <2>2. Spawn(t) => proc[t] = "none"
        BY DEF Spawn, Goes, TypeInv
    <2>3. ChildExited(t) => proc[runs[t]] = "reaped" /\ runs[t] \in Threads
        BY DEF ChildExited, Dispatches, TypeInv, Ran
    <2> QED BY <1>2, <2>1, <2>2, <2>3 DEF SetsUpPipe, SetName, SetupControllerPipe, Watches,
            WatchStep, Spawn, SpawnFails, SetPid, WatchChild, RunLoop, ChildExited, TakeStatus,
            LeaveLoop, UnrefLoop, ClosePid, UseAfterDelete, UseFreedLoop, clientVars,
            TypeInv, WatchTypeOK
<1>3. ASSUME Patient, cur \in Threads, pc[cur] \in Waiting, step[cur] \notin FileDone
      PROVE  pc'[cur] \in Waiting
    <2>1. ~(LeaveLoop(t) /\ t = cur)
        <3> SUFFICES ASSUME LeaveLoop(cur) PROVE FALSE
            OBVIOUS
        <3>1. pc[cur] = "watching" /\ runs[cur] = cur /\ cur \notin running
            BY <1>3 DEF LeaveLoop, LoopHasQuit, Goes, SoloInv, SoloLoop
        <3>2. proc[cur] = "reported"
            BY <1>3, <3>1 DEF SoloInv, SoloExit
        <3>3. handles[cur] = cur /\ cur # NoThread
            BY <1>3, <3>2, ConstAssumption DEF OwnInv
        <3>4. step[cur] = "done"
            BY <1>3, <3>1, <3>3 DEF TellInv, HandlerInv
        <3> QED BY <1>3, <3>4 DEF FileDone
    <2>2. CASE t # cur
        BY <1>3, <2>2 DEF SetsUpPipe, SetName, SetupControllerPipe, Watches,
            WatchStep, Spawn, SpawnFails, SetPid, WatchChild, RunLoop, ChildExited,
            LeaveLoop, UnrefLoop, ClosePid, UseAfterDelete, UseFreedLoop, Goes,
            TypeInv, WatchTypeOK
    <2>3. CASE t = cur
        BY <1>3, <2>1, <2>3 DEF SetsUpPipe, SetName, SetupControllerPipe, Watches,
            WatchStep, Spawn, SpawnFails, SetPid, WatchChild, RunLoop, ChildExited,
            UnrefLoop, ClosePid, UseAfterDelete, UseFreedLoop, Goes, Waiting,
            TypeInv, WatchTypeOK
    <2> QED BY <2>2, <2>3
<1> QED BY <1>1, <1>2, <1>3, EndInvFrame

\* The handler of the last session: its client has exited, and connect() is over.
LEMMA EndInvHandles ==
    ASSUME TypeOK, TypeInv, SoloInv, CurInv, PhaseInv, EndInv,
           NEW t \in Threads, OnSpiceClientExit(t)
    PROVE  EndInv'
<1> SUFFICES ASSUME Patient, Waits PROVE EndInv'
    BY DEF EndInv, Patient, Waits
<1>1. pc[t] = "exit" /\ t = cur /\ proc[t] = "reported"
    <2>1. pc[t] = "exit"
        BY DEF OnSpiceClientExit, SetExitStatus, CallOnDisconnected, DisconnectCloses,
            DisconnectUnlinks, RemoveTrustStoreFile, ClearTrustStoreName, HandlerReturns,
            Handles
    <2> QED BY <2>1 DEF CurInv, Live, SoloInv, SoloExit
<1>2. ~(ctl = "trying" /\ rc = 0) /\ mpc \notin {"trust", "name", "sending"}
    BY <1>1 DEF EndInv
<1>3. UNCHANGED <<cur, mpc, ctl, rc>> /\ step' = [step EXCEPT ![t] = step'[t]]
    BY DEF OnSpiceClientExit, SetExitStatus, CallOnDisconnected, DisconnectCloses,
        ExitCloses, DisconnectUnlinks, ExitUnlinks, RemoveTrustStoreFile,
        ClearTrustStoreName, HandlerReturns, ExitReturns, Handles, unixVars, callVars,
        pageVars, TypeOK
<1>4. pc'[t] \in Waiting
    BY <1>1 DEF OnSpiceClientExit, SetExitStatus, CallOnDisconnected, DisconnectCloses,
        ExitCloses, DisconnectUnlinks, ExitUnlinks, RemoveTrustStoreFile,
        ClearTrustStoreName, HandlerReturns, ExitReturns, ExitHandled, Goes, unixVars,
        watchVars, Waiting, TypeInv, WatchTypeOK
<1>5. m_connected_status' # -1
    <2>1. CASE SetExitStatus(t)
        BY <2>1 DEF SetExitStatus, StoreStatus, ExitStatuses
    <2>2. CASE ~SetExitStatus(t)
        <3>1. UNCHANGED m_connected_status /\ step[t] # "status"
            BY <2>2 DEF OnSpiceClientExit, CallOnDisconnected, DisconnectCloses,
                DisconnectUnlinks, RemoveTrustStoreFile, ClearTrustStoreName,
                HandlerReturns, Handles
        <3> QED BY <1>1, <3>1 DEF EndInv
    <2> QED BY <2>1, <2>2
<1>6. ASSUME HasTmp, files' # {}
      PROVE  /\ files' = files /\ files # {} /\ step'[t] \notin FileDone
             /\ UNCHANGED m_trust_store_file
    <2>1. files \subseteq {cur} /\ (files # {} => m_trust_store_file = cur)
        BY <1>2, <1>6 DEF EndInv
    <2>2. files # {} => step[t] \notin FileDone
        BY <1>1, <1>6 DEF EndInv
    <2>3. ~RemoveTrustStoreFile(t)
        BY <1>6, <2>1 DEF RemoveTrustStoreFile
    <2>4. files' = files
        BY <2>3 DEF OnSpiceClientExit, SetExitStatus, CallOnDisconnected, DisconnectCloses,
            DisconnectUnlinks, ClearTrustStoreName, HandlerReturns, trustVars
    <2>5. step[t] \notin FileDone
        BY <1>6, <2>2, <2>4
    <2> QED BY <1>6, <2>3, <2>4, <2>5 DEF OnSpiceClientExit, SetExitStatus,
            CallOnDisconnected, DisconnectCloses, DisconnectUnlinks, ClearTrustStoreName,
            HandlerReturns, Handles, trustVars, FileDone, TypeOK
<1> QED BY <1>1, <1>2, <1>3, <1>4, <1>5, <1>6 DEF EndInv, HasTmp

\* Every step keeps EndInv.
LEMMA EndInvNext ==
    /\ TypeOK /\ TypeInv /\ ReportInv /\ SoloInv /\ TellInv /\ OwnInv /\ CurInv
    /\ PhaseInv /\ EndInv /\ [Next]_vars
    => EndInv'
<1> SUFFICES ASSUME TypeOK, TypeInv, ReportInv, SoloInv, TellInv, OwnInv, CurInv,
                    PhaseInv, EndInv, [Next]_vars, Patient, Waits
             PROVE  EndInv'
    BY DEF EndInv, Patient, Waits
<1> USE DEF unixVars, watchVars, clientVars, sessionVars, pageVars, trustVars, callVars
<1>0. /\ mpc \in {"connecting", "trust", "name", "sending"} => cur \in Threads
      /\ m_connected_status = -1 => cur \in Live
      /\ HasTmp /\ files # {} => cur \in Live
    BY DEF PhaseInv, EndInv, Live, Waiting, TypeOK
<1>1. CASE UNCHANGED vars \/ SessionGone
    BY <1>1, EndInvFrame DEF vars, SessionGone
<1>2. CASE ConnectBadPorts
    BY <1>2 DEF ConnectBadPorts, EndInv, HasTmp
<1>3. ASSUME NEW t \in Threads, ConnectBegins(t) PROVE EndInv'
    <2>1. Live = {} /\ rc' = -1 /\ mpc' = "connecting"
          /\ UNCHANGED <<m_connected_status, files>>
        BY <1>3 DEF ConnectBegins, Connect, StartClient, Patient
    <2>2. m_connected_status # -1 /\ (HasTmp => files = {})
        BY <1>0, <2>1
    <2> QED BY <2>1, <2>2 DEF EndInv, HasTmp
<1>4. ASSUME NEW t \in Threads, SessionThreadStep(t) PROVE EndInv'
    BY <1>4, EndInvWatches, EndInvHandles DEF SessionThreadStep
<1>5. CASE ConnectTries
    <2>1. mpc = "connecting" /\ UNCHANGED <<mpc, cur, m_connected_status, files, step, pc, proc>>
        BY <1>5 DEF ConnectTries, AttemptWithoutName, AttemptConnected, AttemptSucceeds,
            AttemptFails, Attempt, PhaseInv, clientVars
    <2>2. UNCHANGED m_trust_store_file
        BY <1>5 DEF ConnectTries
    <2>3. rc' = 0 => proc[cur] = "running"
        <3>1. rc' = 0 => bound \in Threads /\ proc[bound] = "running"
            BY <1>5 DEF ConnectTries, AttemptWithoutName, AttemptConnected,
                AttemptSucceeds, AttemptFails, Listening
        <3>2. \A c \in Threads : proc[c] = "running" => c = cur
            BY RunningHasThread DEF CurInv, Live
        <3> QED BY <3>1, <3>2
    <2> QED BY <2>1, <2>2, <2>3 DEF EndInv, HasTmp
<1>6. CASE ConnectReached
    <2>1. /\ ctl = "trying" /\ ctl' = "out" /\ mpc' = IF rc = 0 THEN "trust" ELSE "idle"
          /\ UNCHANGED <<cur, files, m_trust_store_file, m_connected_status, step, pc, proc>>
        BY <1>6 DEF ConnectReached, ConnectReturns, CallStopClient, StopClient
    <2>2. mpc = "connecting"
        BY <2>1 DEF PhaseInv
    <2> QED BY <2>1, <2>2 DEF EndInv, HasTmp
<1>7. CASE CreateTrustStoreFile
    <2>1. /\ mpc = "trust" /\ mpc' = "name" /\ files' = files \cup {cur}
          /\ UNCHANGED <<cur, m_connected_status, m_trust_store_file, step, pc, proc, ctl, rc>>
        BY <1>7 DEF CreateTrustStoreFile
    <2>2. proc[cur] = "running"
        BY <2>1 DEF EndInv
    <2>3. pc[cur] \in Waiting /\ step[cur] = "status"
        BY <1>0, <2>1, <2>2, RunningAwaited DEF Waiting
    <2> QED BY <1>0, <2>1, <2>2, <2>3 DEF EndInv, HasTmp, FileDone
<1>8. CASE CreateTrustStoreFails
    <2>1. /\ ~HasTmp /\ mpc' = "idle"
          /\ UNCHANGED <<cur, m_connected_status, step, pc, proc, ctl, rc>>
        BY <1>8 DEF CreateTrustStoreFails, HasTmp
    <2> QED BY <2>1 DEF EndInv, HasTmp
<1>9. CASE NameTrustStoreFile
    <2>1. /\ mpc = "name" /\ mpc' = "sending" /\ m_trust_store_file' = cur
          /\ UNCHANGED <<cur, files, m_connected_status, step, pc, proc, ctl, rc>>
        BY <1>9 DEF NameTrustStoreFile, StoreName
    <2> QED BY <2>1 DEF EndInv, HasTmp
<1>10. CASE SendNext \/ Show \/ Disconnect
    BY <1>10, EndInvFrame DEF SendNext, Show, WriteCall, Disconnect, StopCall,
        CallStopClient, StopClient
<1>11. CASE ConnectEnds
    <2>1. /\ mpc = "sending" /\ mpc' = "idle"
          /\ UNCHANGED <<cur, files, m_trust_store_file, step, pc, proc, ctl, rc>>
        BY <1>11 DEF ConnectEnds
    <2>2. proc[cur] = "running" /\ cur \in Threads
        BY <1>0, <2>1 DEF EndInv
    <2>3. pc[cur] \in Waiting /\ step[cur] = "status"
        BY <2>2, RunningAwaited DEF Waiting
    <2> QED BY <2>1, <2>2, <2>3 DEF EndInv, HasTmp
<1>12. CASE Destroy \/ Deleted
    <2>1. /\ mpc = "idle" /\ ctl' = "dtor"
          /\ UNCHANGED <<mpc, cur, files, m_trust_store_file, m_connected_status, step, pc, proc>>
        BY <1>12 DEF Destroy, CloseController, Deleted, DeleteController, Delete, PhaseInv
    <2> QED BY <2>1 DEF EndInv, HasTmp
<1>13. ASSUME NEW c \in Threads, ClientBinds(c) \/ ClientExits(c) \/ ClientReaped(c)
       PROVE EndInv'
    <2>1. UNCHANGED <<cur, mpc, ctl, rc, m_connected_status, trustVars, step, pc>>
        BY <1>13 DEF ClientBinds, Bind, ClientExits, Exit, ClientExit, ClientReaped,
            ReapClient, Reap
    <2>2. mpc # "idle" /\ proc[cur] = "running" => proc'[cur] = "running"
        BY <1>0, <1>13 DEF ClientBinds, Bind, ClientExits, Exit, ClientExit, ClientReaped,
            ReapClient, Reap, Waits, TypeInv, WatchTypeOK, clientVars, PhaseInv
    <2> QED BY <2>1, <2>2, EndInvFrame
<1> QED BY <1>1, <1>2, <1>3, <1>4, <1>5, <1>6, <1>7, <1>8, <1>9, <1>10, <1>11, <1>12,
        <1>13 DEF Next, SessionMainStep

\* EndInv is an invariant of the session.
LEMMA EndInvariant == Spec => []EndInv
<1>1. Init => EndInv
    BY DEF Init, UnixInit, WatchInit, EndInv
<1> QED BY <1>1, EndInvNext, SessionInvariants, TellInvariant, OwnInvariant, CurInvariant,
        PTL DEF Spec

\* With one session at a time and a client that waits for connect(), nothing
\* that connect() made in the file system is left when the session is over
\* (PluginSession.TrustFilesRemoved).
THEOREM TrustFilesAlwaysRemoved == Spec => []TrustFilesRemoved
<1>1. TypeOK /\ EndInv => TrustFilesRemoved
    <2> SUFFICES ASSUME TypeOK, EndInv, Patient, Waits, HasTmp, Quiet, files # {}
                 PROVE  FALSE
        BY DEF TrustFilesRemoved
    <2>1. pc[cur] \in Waiting /\ cur \in Threads
        BY DEF EndInv, TypeOK
    <2> QED BY <2>1 DEF Quiet, Live, Waiting
<1> QED BY <1>1, EndInvariant, SessionTypeCorrect, PTL

\* A thread that is about to tell the page has set the status of the exit.
TellingInv ==
    Patient /\ Waits =>
        \A t \in Threads : step[t] = "tell" => m_connected_status \in ExitStatuses

\* Every step keeps TellingInv: the main thread sets the status either with no
\* client thread alive or while the client of the only one runs.
LEMMA TellingInvNext ==
    TypeOK /\ TypeInv /\ SoloInv /\ TellInv /\ CurInv /\ EndInv /\ TellingInv /\ [Next]_vars
    => TellingInv'
<1> SUFFICES ASSUME TypeOK, TypeInv, SoloInv, TellInv, CurInv, EndInv, TellingInv,
                    [Next]_vars, Patient, Waits
             PROVE  TellingInv'
    BY DEF TellingInv, Patient, Waits
<1>1. CASE Elsewhere /\ UNCHANGED m_connected_status
    BY <1>1 DEF Elsewhere, TellingInv
<1>2. CASE Elsewhere /\ (ConnectBadPorts \/ ConnectEnds)
    <2> SUFFICES ASSUME NEW t \in Threads, step[t] = "tell" PROVE FALSE
        BY <1>2 DEF Elsewhere, TellingInv
    <2>1. pc[t] = "exit"
        BY DEF TellInv, HandlerInv
    <2>2. t \in Live /\ t = cur /\ proc[cur] = "reported"
        BY <2>1 DEF Live, CurInv, SoloInv, SoloExit
    <2>3. ~ConnectBadPorts
        BY <2>2 DEF ConnectBadPorts, Patient
    <2>4. ~ConnectEnds
        BY <2>2 DEF ConnectEnds, EndInv
    <2> QED BY <1>2, <2>3, <2>4
<1>3. ASSUME NEW t \in Threads, ConnectBegins(t) PROVE UNCHANGED m_connected_status
    BY <1>3 DEF ConnectBegins
<1>4. ASSUME NEW t \in Threads, Watches(t) PROVE TellingInv'
    BY <1>4 DEF Watches, sessionVars, TellingInv
<1>5. ASSUME NEW t \in Threads, OnSpiceClientExit(t) PROVE TellingInv'
    <2>1. CASE SetExitStatus(t)
        BY <2>1 DEF SetExitStatus, StoreStatus, TellingInv
    <2>2. CASE ~SetExitStatus(t)
        <3>1. /\ UNCHANGED m_connected_status
              /\ step' = [step EXCEPT ![t] = step'[t]] /\ step'[t] # "tell"
            BY <1>5, <2>2 DEF OnSpiceClientExit, CallOnDisconnected, DisconnectCloses,
                DisconnectUnlinks, RemoveTrustStoreFile, ClearTrustStoreName,
                HandlerReturns, Handles, TypeOK
        <3> QED BY <3>1 DEF TellingInv, TypeOK
    <2> QED BY <2>1, <2>2
<1> QED BY <1>1, <1>2, <1>3, <1>4, <1>5, SessionSteps

\* TellingInv is an invariant of the session.
LEMMA TellingInvariant == Spec => []TellingInv
<1>1. Init => TellingInv
    BY DEF Init, TellingInv
<1> QED BY <1>1, TellingInvNext, SessionTypeCorrect, SessionInvariants, TellInvariant,
        CurInvariant, EndInvariant, PTL DEF Spec

\* With one session at a time and a client that waits for connect(), the status is
\* that of the exit when the page is told of it (PluginSession.ToldAfterStatus).
THEOREM PageToldAfterStatus == Spec => ToldAfterStatus
<1>1. TypeInv /\ TellingInv /\ [Next]_vars
        => [Patient /\ Waits /\ told' # told => m_connected_status \in ExitStatuses]_vars
    <2> SUFFICES ASSUME TypeInv, TellingInv, [Next]_vars, Patient, Waits, told' # told
                 PROVE  m_connected_status \in ExitStatuses
        OBVIOUS
    <2>1. PICK t \in Threads : CallOnDisconnected(t)
        <3>1. ASSUME NEW t \in Threads, Watches(t) /\ ChildExited(t) PROVE told' = told
            BY <3>1 DEF Watches, sessionVars
        <3>2. ASSUME NEW t \in Threads, OnSpiceClientExit(t), told' # told
              PROVE  CallOnDisconnected(t)
            BY <3>2 DEF OnSpiceClientExit, SetExitStatus, DisconnectCloses, DisconnectUnlinks,
                RemoveTrustStoreFile, ClearTrustStoreName, HandlerReturns
        <3> QED BY <3>1, <3>2, SessionSteps DEF Elsewhere
    <2> QED BY <2>1 DEF CallOnDisconnected, Handles, TellingInv
<1> QED BY <1>1, SessionInvariants, TellingInvariant, PTL DEF Spec, ToldAfterStatus

-----------------------------------------------------------------------------
(* The status that is left when nothing is going on, whatever overlaps.    *)

StatusInv ==
    Waits =>
        /\ (ctl = "trying" /\ rc = 0) \/ mpc \in {"trust", "name", "sending"} =>
            \E c \in Threads : proc[c] = "running"
        /\ fault = "none" /\ m_connected_status = -1 =>
            Leaked \/ \E c \in Threads : pc[c] \in Waiting /\ step[c] = "status"

\* While no loop is lost, a client that runs has its own thread to set the status.
LEMMA CalmAwaited ==
    ASSUME TypeInv, ReportInv, TellInv, Calm, NEW c \in Threads, proc[c] = "running"
    PROVE  pc[c] \in Waiting /\ step[c] = "status"
<1>1. pc[c] \in {"set_pid", "watch", "run", "watching"}
    BY DEF TypeInv, WatchTypeOK, Calm
<1>2. pc[c] = "watching" => runs[c] = c
    BY <1>1 DEF Calm, Runners
<1>3. handles[c] = NoThread
    BY <1>1, <1>2 DEF TellInv, HandlerInv, ReportInv
<1> QED BY <1>1, <1>3 DEF TellInv, HandlerInv, Waiting

\* And that thread does not leave its loop before.
LEMMA CalmStays ==
    ASSUME TypeInv, TellInv, Calm, NEW c \in Threads, step[c] = "status" PROVE ~LeaveLoop(c)
<1> SUFFICES ASSUME LeaveLoop(c) PROVE FALSE
    OBVIOUS
<1>1. pc[c] = "watching" /\ runs[c] \notin running
    BY DEF LeaveLoop, Goes, LoopHasQuit
<1>2. runs[c] = c
    BY <1>1 DEF Calm, Runners
<1>3. handles[c] = c /\ c # NoThread
    BY <1>1, <1>2, ConstAssumption DEF Calm
<1> QED BY <1>1, <1>3 DEF TellInv, HandlerInv

\* The steps of a thread that waits for a client, until it leaves its loop.
LEMMA WaitingGoesOn ==
    ASSUME TypeInv, [WatchNext]_watchVars, NEW c \in Threads, pc[c] \in Waiting, ~LeaveLoop(c)
    PROVE  pc'[c] \in Waiting
<1> USE DEF TypeInv, WatchTypeOK, Waiting, Goes
<1>1. CASE UNCHANGED pc
    BY <1>1
<1>2. ASSUME NEW t \in Threads, StartClient(t) \/ ThreadStep(t) PROVE pc'[c] \in Waiting
    <2>1. CASE t = c
        BY <1>2, <2>1 DEF StartClient, ThreadStep, SetupControllerPipe, Spawn, SpawnFails, SetPid,
            WatchChild, RunLoop, ChildExited, ExitHandled, UnrefLoop, ClosePid, UseAfterDelete,
            UseFreedLoop
    <2>2. CASE t # c
        BY <1>2, <2>2 DEF StartClient, ThreadStep, SetupControllerPipe, Spawn, SpawnFails, SetPid,
            WatchChild, RunLoop, ChildExited, ExitHandled, LeaveLoop, UnrefLoop, ClosePid,
            UseAfterDelete, UseFreedLoop
    <2> QED BY <2>1, <2>2
<1> QED BY <1>1, <1>2 DEF WatchNext, StopClient, Delete, ClientExit, Reap, Gone, watchVars

\* A client that waits for connect() runs for as long as connect() does.
LEMMA RunsWhileConnecting ==
    ASSUME TypeInv, [Next]_vars, Waits, mpc # "idle", NEW c \in Threads, proc[c] = "running"
    PROVE  proc'[c] = "running"
<1>0. UNCHANGED proc => proc'[c] = "running"
    OBVIOUS
<1> USE DEF unixVars, watchVars, clientVars, sessionVars, pageVars
<1>1. CASE UNCHANGED vars \/ SessionGone \/ ConnectBadPorts \/ Show \/ Disconnect \/ Destroy
    BY <1>0, <1>1 DEF vars, SessionGone, ConnectBadPorts, Show, WriteCall, Disconnect, StopCall,
        CallStopClient, StopClient, Destroy, CloseController
<1>2. ASSUME NEW t \in Threads, ConnectBegins(t) PROVE proc'[c] = "running"
    BY <1>2 DEF ConnectBegins, Connect, StartClient
<1>3. ASSUME NEW t \in Threads, SessionThreadStep(t) PROVE proc'[c] = "running"
    <2>1. CASE SetsUpPipe(t) \/ OnSpiceClientExit(t)
        BY <1>0, <2>1 DEF SetsUpPipe, SetName, SetupControllerPipe, OnSpiceClientExit, SetExitStatus,
            CallOnDisconnected, DisconnectCloses, ExitCloses, DisconnectUnlinks, ExitUnlinks,
            RemoveTrustStoreFile, ClearTrustStoreName, HandlerReturns, ExitReturns, ExitHandled
    <2>2. CASE Watches(t)
        <3>1. CASE Spawn(t)
            BY <3>1 DEF Spawn, Goes, TypeInv, WatchTypeOK
        <3>2. CASE ChildExited(t)
            <4>1. proc[runs[t]] = "reaped" /\ proc' = [proc EXCEPT ![runs[t]] = "reported"]
                BY <3>2 DEF ChildExited, Dispatches, TakeStatus
            <4> QED BY <4>1 DEF TypeInv, WatchTypeOK
        <3>3. CASE UNCHANGED proc
            BY <1>0, <3>3
        <3> QED BY <2>2, <3>1, <3>2, <3>3 DEF Watches, WatchStep, SpawnFails, SetPid, WatchChild,
                RunLoop, LeaveLoop, UnrefLoop, ClosePid, UseAfterDelete, UseFreedLoop
    <2> QED BY <1>3, <2>1, <2>2 DEF SessionThreadStep
<1>4. CASE SessionMainStep
    BY <1>0, <1>4 DEF SessionMainStep, ConnectTries, AttemptWithoutName, AttemptConnected,
        AttemptSucceeds, AttemptFails, Attempt, ConnectReached, ConnectReturns,
        CallStopClient, StopClient, CreateTrustStoreFile, CreateTrustStoreFails,
        NameTrustStoreFile, SendNext, ConnectEnds, Deleted, DeleteController, Delete
<1>5. ASSUME NEW d \in Threads, ClientBinds(d) \/ ClientExits(d) \/ ClientReaped(d)
      PROVE  proc'[c] = "running"
    BY <1>5 DEF ClientBinds, Bind, ClientExits, Waits, ClientReaped, ReapClient, Reap, TypeInv,
        WatchTypeOK
<1> QED BY <1>1, <1>2, <1>3, <1>4, <1>5 DEF Next

\* connect() comes to its messages only with a client that runs.
LEMMA StatusInvConnects ==
    ASSUME TypeInv, PhaseInv, StatusInv, [Next]_vars, Waits,
           (ctl' = "trying" /\ rc' = 0) \/ mpc' \in {"trust", "name", "sending"}
    PROVE  \E c \in Threads : proc'[c] = "running"
<1> DEFINE On == (ctl = "trying" /\ rc = 0) \/ mpc \in {"trust", "name", "sending"}
<1>1. CASE On
    <2>1. PICK c \in Threads : proc[c] = "running"
        BY <1>1 DEF StatusInv
    <2>2. mpc # "idle"
        BY <1>1 DEF PhaseInv
    <2> QED BY <2>1, <2>2, RunsWhileConnecting
<1>2. CASE ~On
    <2> USE DEF unixVars, watchVars, callVars, clientVars, sessionVars, pageVars
    <2>1. CASE AttemptSucceeds
        BY <2>1 DEF AttemptSucceeds, Attempt, Listening
    <2>2. CASE ConnectTries /\ ~AttemptSucceeds
        BY <1>2, <2>2 DEF ConnectTries, AttemptWithoutName, AttemptConnected, AttemptFails, Attempt,
            PhaseInv
    <2>3. CASE ConnectReached
        BY <1>2, <2>3 DEF ConnectReached, ConnectReturns, PhaseInv
    <2>4. CASE CreateTrustStoreFile \/ CreateTrustStoreFails \/ NameTrustStoreFile \/ SendNext
               \/ ConnectEnds
        BY <1>2, <2>4 DEF CreateTrustStoreFile, CreateTrustStoreFails, NameTrustStoreFile, SendNext,
            ConnectEnds
    <2>5. CASE Deleted \/ Destroy
        BY <1>2, <2>5 DEF Deleted, DeleteController, Destroy, CloseController
    <2>6. ASSUME NEW t \in Threads, ConnectBegins(t) PROVE FALSE
        BY <1>2, <2>6 DEF ConnectBegins, Connect
    <2>7. CASE UNCHANGED <<mpc, ctl, rc>>
        BY <1>2, <2>7
    <2>8. ASSUME NEW t \in Threads, SessionThreadStep(t) PROVE UNCHANGED <<mpc, ctl, rc>>
        BY <2>8 DEF SessionThreadStep, SetsUpPipe, SetName, Watches, WatchStep, OnSpiceClientExit,
            SetExitStatus, CallOnDisconnected, DisconnectCloses, ExitCloses, DisconnectUnlinks,
            ExitUnlinks, RemoveTrustStoreFile, ClearTrustStoreName, HandlerReturns, ExitReturns
    <2>9. CASE UNCHANGED vars \/ ConnectBadPorts \/ Show \/ Disconnect \/ SessionGone
        BY <1>2, <2>9 DEF vars, ConnectBadPorts, Show, WriteCall, Disconnect, StopCall, SessionGone
    <2>10. ASSUME NEW c \in Threads, ClientBinds(c) \/ ClientExits(c) \/ ClientReaped(c)
           PROVE  UNCHANGED <<mpc, ctl, rc>>
        BY <2>10 DEF ClientBinds, Bind, ClientExits, Exit, ClientReaped, ReapClient
    <2> HIDE DEF On
    <2> QED BY <2>1, <2>2, <2>3, <2>4, <2>5, <2>6, <2>7, <2>8, <2>9, <2>10
            DEF Next, SessionMainStep
<1> QED BY <1>1, <1>2

\* A status that says "connected" is either new or waits to be set.
LEMMA StatusInvStatus ==
    ASSUME TypeOK, TypeInv, ReportInv, TellInv, CountInv, CalmInv, StatusInv,
           [Next]_vars, [WatchNext]_watchVars, Waits,
           fault' = "none", m_connected_status' = -1
    PROVE  Leaked' \/ \E c \in Threads : pc'[c] \in Waiting /\ step'[c] = "status"
<1>1. CASE Leaked
    BY <1>1, LeakedStays
<1>2. CASE Calm /\ ~Leaked
    <2>1. ASSUME NEW c \in Threads, pc[c] \in Waiting, step[c] = "status"
          PROVE  pc'[c] \in Waiting /\ step'[c] = "status"
        <3>1. pc'[c] \in Waiting
            BY <1>2, <2>1, CalmStays, WaitingGoesOn
        <3>2. step'[c] = "status"
            <4>1. ASSUME NEW t \in Threads, OnSpiceClientExit(t) PROVE step'[c] = "status"
                <5>1. ~SetExitStatus(t)
                    BY DEF SetExitStatus, StoreStatus, ExitStatuses
                <5> QED BY <2>1, <4>1, <5>1 DEF OnSpiceClientExit, CallOnDisconnected,
                        DisconnectCloses, DisconnectUnlinks, RemoveTrustStoreFile,
                        ClearTrustStoreName, HandlerReturns, Handles, TypeOK
            <4>2. ASSUME NEW t \in Threads, Watches(t) PROVE step' = step
                BY <4>2 DEF Watches, sessionVars
            <4> QED BY <2>1, <4>1, <4>2, SessionSteps DEF Elsewhere
        <3> QED BY <3>1, <3>2
    <2>2. CASE m_connected_status = -1
        <3>1. fault = "none"
            BY DEF WatchNext, watchVars, endVars
        <3>2. PICK c \in Threads : pc[c] \in Waiting /\ step[c] = "status"
            BY <1>2, <2>2, <3>1 DEF StatusInv
        <3> QED BY <2>1, <3>2
    <2>3. CASE m_connected_status # -1
        <3>1. ConnectEnds
            <4>1. ASSUME NEW t \in Threads, OnSpiceClientExit(t) PROVE FALSE
                BY <2>3, <4>1 DEF OnSpiceClientExit, SetExitStatus, StoreStatus, ExitStatuses,
                    CallOnDisconnected, DisconnectCloses, DisconnectUnlinks,
                    RemoveTrustStoreFile, ClearTrustStoreName, HandlerReturns
            <4>2. ASSUME NEW t \in Threads, Watches(t) \/ ConnectBegins(t) PROVE FALSE
                BY <2>3, <4>2 DEF Watches, ConnectBegins, sessionVars
            <4>3. ~ConnectBadPorts
                BY DEF ConnectBadPorts
            <4> QED BY <2>3, <4>1, <4>2, <4>3, SessionSteps
        <3>2. mpc = "sending"
            BY <3>1 DEF ConnectEnds
        <3>3. PICK c \in Threads : proc[c] = "running"
            BY <3>2 DEF StatusInv
        <3>4. pc[c] \in Waiting /\ step[c] = "status"
            BY <1>2, <3>3, CalmAwaited
        <3> QED BY <2>1, <3>4
    <2> QED BY <2>2, <2>3
<1>3. fault = "none"
    BY DEF WatchNext, watchVars, endVars
<1> QED BY <1>1, <1>2, <1>3 DEF CalmInv

\* StatusInv is an invariant of the session.
LEMMA StatusInvariant == Spec => []StatusInv
<1>1. Init => StatusInv
    BY DEF Init, UnixInit, WatchInit, StatusInv
<1>2. [Next]_vars /\ TypeOK /\ PhaseInv => [WatchNext]_watchVars
    BY SessionNextUnix, UnixNextWatch
<1>3. /\ TypeOK /\ TypeInv /\ ReportInv /\ TellInv /\ PhaseInv /\ CountInv /\ CalmInv
      /\ StatusInv /\ [Next]_vars
      => StatusInv'
    <2> SUFFICES ASSUME TypeOK, TypeInv, ReportInv, TellInv, PhaseInv, CountInv, CalmInv,
                        StatusInv, [Next]_vars
                 PROVE  StatusInv'
        OBVIOUS
    <2>1. Waits' = Waits
        BY DEF Waits
    <2> QED BY <1>2, <2>1, StatusInvConnects, StatusInvStatus DEF StatusInv
<1> QED BY <1>1, <1>3, SessionInvariants, TellInvariant, OverlapInvariant,
        SessionImplementsUnix, UnixImplementsWatch, PTL DEF Spec

\* Whatever sessions overlap, and whatever else goes wrong, connectedStatus does not
\* say "connected" when nothing is (PluginSession.StatusTruth).
THEOREM StatusAlwaysTrue == Spec => []StatusTruth
<1>1. TypeInv /\ CountInv /\ CalmInv /\ FaultInv /\ StatusInv => StatusTruth
    <2> SUFFICES ASSUME TypeInv, CountInv, CalmInv, FaultInv, StatusInv, Waits, Quiet,
                        m_connected_status = -1
                 PROVE  FALSE
        BY DEF StatusTruth
    <2>1. Live = {}
        BY DEF Quiet
    <2>2. ~Leaked /\ fault = "none"
        BY <2>1, EndedCalm DEF FaultInv
    <2>3. PICK c \in Threads : pc[c] \in Waiting
        BY <2>2 DEF StatusInv
    <2> QED BY <2>1, <2>3 DEF Live, Waiting
<1> QED BY <1>1, StatusInvariant, SessionInvariants, OverlapInvariant,
        SessionImplementsUnix, UnixImplementsWatch, PTL

-----------------------------------------------------------------------------
(* What a client that is told to connect has read, one session at a time,   *)
(* whenever it exits and whatever fails.                                    *)

\* The messages that every client reads before CONNECT.
Needed == {"INIT", "CA_FILE"} \cup Given

\* The script has all that is needed before CONNECT.
LEMMA NeededComesBefore ==
    \A i \in 1 .. 20 :
        Script[i] = "CONNECT" => Needed \subseteq {Script[j] : j \in 1 .. i - 1}
<1>1. Needed \subseteq Range(Script) \ (AlwaysSent \ {"INIT"})
    BY SessionAssumption DEF Needed, Script, Range, AlwaysSent
<1>2. Range(Script) \ (AlwaysSent \ {"INIT"}) \subseteq {Script[j] : j \in 1 .. 18}
    BY DEF Script, Range, AlwaysSent
<1>3. \A i \in 1 .. 20 : Script[i] = "CONNECT" => i = 19
    BY DEF Script
<1> QED BY <1>1, <1>2, <1>3

\* Client c has read everything needed of the first n messages.
HasRead(c, n) == \A j \in 1 .. n : Script[j] \in Needed => Contains(recv[c], Script[j])

\* The socket that connect() uses is that of its own client, which misses a
\* message only when it has exited; and it has the name of the file until then.
SendInv ==
    Patient =>
        /\ \A c \in Threads : proc[c] = "none" => recv[c] = <<>>
        /\ m_client_socket = "connected" => proc[peer] # "none"
        /\ (ctl = "trying" /\ rc = 0) \/ mpc \in {"trust", "name", "sending"} =>
            (m_client_socket = "connected" => peer = cur)
        /\ mpc = "sending" => m_trust_store_file # NoThread \/ proc[cur] = "reported"
        /\ mpc = "sending" /\ m_client_socket = "connected" /\ proc[cur] = "running"
           /\ Len(recv[cur]) < MaxRead => HasRead(cur, sent)
        /\ CompleteBeforeConnect

\* A step that sends nothing to anybody.
LEMMA CompleteStays ==
    ASSUME CompleteBeforeConnect, recv' = recv PROVE CompleteBeforeConnect'
BY DEF CompleteBeforeConnect, Patient

\* What is added to what a client has read.
LEMMA AppendKeeps ==
    ASSUME NEW s \in Seq(Messages), NEW m \in Messages
    PROVE  /\ Len(Append(s, m)) = Len(s) + 1
           /\ \A x : Contains(Append(s, m), x) <=> Contains(s, x) \/ x = m
           /\ \A i \in 1 .. Len(s) : Append(s, m)[i] = s[i]
           /\ Append(s, m)[Len(s) + 1] = m
BY DEF Contains

\* A client that is told something else than to connect, or that has all it
\* needs, is told in the right order.
LEMMA CompleteWrite ==
    ASSUME Patient, UnixTypeOK, CompleteBeforeConnect, NEW msg \in Messages, Write(msg),
           msg = "CONNECT" /\ m_client_socket = "connected" /\ proc[peer] = "running"
             /\ Len(recv[peer]) < MaxRead
           => \A x \in Needed : Contains(recv[peer], x)
    PROVE  CompleteBeforeConnect'
<1> SUFFICES ASSUME NEW c \in Threads, NEW i \in DOMAIN recv'[c], recv'[c][i] = "CONNECT"
             PROVE  Needed \subseteq {recv'[c][j] : j \in 1 .. (i - 1)}
    BY DEF CompleteBeforeConnect, Patient, Needed
<1>1. recv[c] \in Seq(Messages)
    BY DEF UnixTypeOK
<1>2. \A k \in DOMAIN recv[c] : recv[c][k] = "CONNECT" =>
            Needed \subseteq {recv[c][j] : j \in 1 .. (k - 1)}
    BY DEF CompleteBeforeConnect, Needed
<1>3. CASE recv'[c] = recv[c]
    BY <1>2, <1>3
<1>4. CASE /\ m_client_socket = "connected" /\ peer = c /\ proc[c] = "running"
           /\ Len(recv[c]) < MaxRead
           /\ recv'[c] = Append(recv[c], msg)
    <2>1. /\ Len(recv'[c]) = Len(recv[c]) + 1 /\ recv'[c][Len(recv[c]) + 1] = msg
          /\ \A j \in 1 .. Len(recv[c]) : recv'[c][j] = recv[c][j]
        BY <1>1, <1>4, AppendKeeps
    <2>2. i \in 1 .. Len(recv[c]) + 1 /\ Len(recv[c]) \in Nat
        <3>1. recv'[c] \in Seq(Messages)
            BY <1>1, <1>4
        <3> QED BY <1>1, <2>1, <3>1
    <2>3. CASE i \in 1 .. Len(recv[c])
        <3>1. Needed \subseteq {recv[c][j] : j \in 1 .. (i - 1)}
            BY <1>1, <1>2, <2>1, <2>3
        <3>2. \A j \in 1 .. (i - 1) : recv'[c][j] = recv[c][j]
            BY <2>1, <2>2, <2>3
        <3> QED BY <3>1, <3>2
    <2>4. CASE i = Len(recv[c]) + 1
        <3>1. \A x \in Needed : Contains(recv[c], x)
            BY <1>4, <2>1, <2>4
        <3>2. \A x \in Needed : \E j \in 1 .. Len(recv[c]) : recv[c][j] = x
            BY <1>1, <3>1 DEF Contains
        <3>3. i - 1 = Len(recv[c])
            BY <2>2, <2>4
        <3> QED BY <2>1, <3>2, <3>3
    <2> QED BY <2>2, <2>3, <2>4
<1> QED BY <1>3, <1>4, WriteAppends

\* A step that sends nothing, connects to nobody and leaves connect() where it is.
LEMMA SendInvFrame ==
    ASSUME SendInv, PhaseInv, UnixTypeOK,
           UNCHANGED <<recv, ctl, rc, mpc, sent, cur, m_trust_store_file>>,
           UNCHANGED <<m_client_socket, peer>> \/ m_client_socket' # "connected",
           \A c \in Threads :
                /\ proc'[c] = "none" => proc[c] = "none"
                /\ proc'[c] = "running" => proc[c] = "running"
                /\ proc[c] = "reported" => proc'[c] = "reported"
    PROVE  SendInv'
<1> SUFFICES ASSUME Patient PROVE SendInv'
    BY DEF SendInv, Patient
<1>1. mpc = "sending" => cur \in Threads
    BY DEF PhaseInv
<1>2. CompleteBeforeConnect'
    BY DEF SendInv, CompleteBeforeConnect
<1>3. HasRead(cur, sent) => HasRead(cur, sent)'
    BY DEF HasRead
<1>4. m_client_socket = "connected" => peer \in Threads
    BY DEF UnixTypeOK
<1> QED BY <1>1, <1>2, <1>3, <1>4 DEF SendInv

\* The next message of the script keeps SendInv.
LEMMA SendInvSends ==
    ASSUME TypeOK, PhaseInv, UnixTypeOK, SendInv, Patient, SendNext PROVE SendInv'
<1>1. /\ mpc = "sending" /\ sent \in Nat /\ sent < 20 /\ sent' = sent + 1
      /\ UNCHANGED <<proc, m_client_socket, peer, ctl, rc, mpc, cur, m_trust_store_file>>
      /\ cur \in Threads /\ ctl = "out"
    <2>1. Len(Script) = 20
        BY ScriptIsSeq
    <2>2. sent \in Nat /\ sent < 20 /\ sent' = sent + 1
        BY <2>1 DEF SendNext, TypeOK
    <2>3. UNCHANGED <<proc, m_client_socket, peer, ctl, rc, mpc, cur, m_trust_store_file>>
        BY DEF SendNext, watchVars, clientVars, callVars, trustVars
    <2> QED BY <2>2, <2>3 DEF SendNext, PhaseInv
<1> DEFINE msg == Script[sent + 1]
<1>2. msg \in Messages
    <2>1. sent + 1 \in 1 .. 20
        BY <1>1
    <2> QED BY <2>1, ScriptIsSeq
<1>3. \A c \in Threads : recv[c] \in Seq(Messages)
    BY DEF UnixTypeOK
<1>4. Write(msg) \/ recv' = recv
    BY DEF SendNext
<1>5. m_client_socket = "connected" => peer = cur
    BY <1>1 DEF SendInv
<1>6. ASSUME m_client_socket = "connected", proc[cur] = "running", msg \in Needed
      PROVE  Write(msg)
    <2>1. m_trust_store_file # NoThread
        BY <1>1, <1>6 DEF SendInv
    <2>2. Filled(msg)
        BY <1>6, <2>1 DEF Filled, Needed, AlwaysSent
    <2> QED BY <2>2 DEF SendNext
<1>7. \A c \in Threads : proc'[c] = "none" => recv'[c] = <<>>
    BY <1>1, <1>2, <1>4, WriteAppends DEF SendInv
<1>8. ASSUME m_client_socket = "connected", proc[cur] = "running", Len(recv'[cur]) < MaxRead
      PROVE  HasRead(cur, sent)'
    <2>1. \/ recv'[cur] = recv[cur]
          \/ recv'[cur] = Append(recv[cur], msg)
        BY <1>1, <1>2, <1>4, WriteAppends
    <2>2. Len(recv[cur]) < MaxRead
        <3>1. Len(recv[cur]) \in Nat /\ MaxRead \in Nat
            BY <1>1, <1>3, UnixAssumption
        <3> QED BY <1>1, <1>2, <1>3, <1>8, <2>1, <3>1, AppendKeeps
    <2>3. HasRead(cur, sent)
        BY <1>1, <1>8, <2>2 DEF SendInv
    <2>4. \A x : Contains(recv[cur], x) => Contains(recv'[cur], x)
        <3>1. recv[cur] \in Seq(Messages)
            BY <1>1, <1>3
        <3>2. \A x : Contains(Append(recv[cur], msg), x) <=> Contains(recv[cur], x) \/ x = msg
            BY <1>2, <3>1, AppendKeeps
        <3> QED BY <2>1, <3>2, Zenon
    <2>5. msg \in Needed => Contains(recv'[cur], msg)
        <3> SUFFICES ASSUME msg \in Needed PROVE Contains(recv'[cur], msg)
            OBVIOUS
        <3>1. recv'[cur] = Append(recv[cur], msg)
            BY <1>1, <1>5, <1>6, <1>8, <2>2 DEF Write, UnixTypeOK
        <3> QED BY <1>1, <1>2, <1>3, <3>1, AppendKeeps
    <2>6. ASSUME NEW j \in 1 .. sent + 1, Script[j] \in Needed
          PROVE  Contains(recv'[cur], Script[j])
        <3>1. j \in 1 .. sent \/ j = sent + 1
            BY <1>1
        <3> QED BY <2>3, <2>4, <2>5, <2>6, <3>1 DEF HasRead
    <2>7. sent' = sent + 1 /\ cur' = cur
        BY <1>1
    <2>8. \A j \in 1 .. sent' : Script[j] \in Needed => Contains(recv'[cur'], Script[j])
        BY <2>6, <2>7
    <2> QED BY <2>8 DEF HasRead
<1>9. CompleteBeforeConnect'
    <2>1. CASE recv' = recv
        BY <2>1 DEF SendInv, CompleteBeforeConnect
    <2>2. CASE Write(msg)
        <3>1. ASSUME msg = "CONNECT", m_client_socket = "connected",
                     proc[peer] = "running", Len(recv[peer]) < MaxRead, NEW x \in Needed
              PROVE  Contains(recv[peer], x)
            <4>1. HasRead(cur, sent) /\ peer = cur
                BY <1>1, <1>5, <3>1 DEF SendInv
            <4>2. Needed \subseteq {Script[j] : j \in 1 .. sent}
                <5>1. sent + 1 \in 1 .. 20 /\ (sent + 1) - 1 = sent
                    BY <1>1
                <5> QED BY <3>1, <5>1, NeededComesBefore
            <4> QED BY <3>1, <4>1, <4>2 DEF HasRead
        <3>2. CompleteBeforeConnect
            BY DEF SendInv
        <3> QED BY <1>2, <2>2, <3>1, <3>2, CompleteWrite
    <2> QED BY <1>4, <2>1, <2>2
<1> QED BY <1>1, <1>7, <1>8, <1>9 DEF SendInv, Patient

\* Every step keeps SendInv.
LEMMA SendInvNext ==
    /\ TypeOK /\ TypeInv /\ SoloInv /\ UnixTypeOK /\ CurInv /\ PhaseInv /\ SendInv
    /\ [Next]_vars
    => SendInv'
<1> SUFFICES ASSUME TypeOK, TypeInv, SoloInv, UnixTypeOK, CurInv, PhaseInv, SendInv,
                    [Next]_vars, Patient
             PROVE  SendInv'
    BY DEF SendInv, Patient
<1> USE DEF unixVars, watchVars, clientVars, socketVars, callVars, sessionVars, pageVars,
        trustVars
<1>1. CASE UNCHANGED vars \/ SessionGone \/ ConnectBadPorts
    BY <1>1, SendInvFrame DEF vars, SessionGone, ConnectBadPorts
<1>2. ASSUME NEW t \in Threads, ConnectBegins(t) PROVE SendInv'
    <2>1. /\ rc' = -1 /\ mpc' = "connecting"
          /\ UNCHANGED <<recv, proc, m_client_socket, peer>>
        BY <1>2 DEF ConnectBegins, Connect, StartClient
    <2> QED BY <2>1 DEF SendInv, CompleteBeforeConnect
<1>3. ASSUME NEW t \in Threads, SetsUpPipe(t) PROVE SendInv'
    BY <1>3, SendInvFrame DEF SetsUpPipe, SetName, SetupControllerPipe
<1>4. ASSUME NEW t \in Threads, Watches(t) PROVE SendInv'
    <2>0. UNCHANGED <<m_client_socket, peer, recv, ctl, rc, mpc, sent, cur, m_trust_store_file>>
        BY <1>4 DEF Watches, WatchStep
    <2>1. CASE Spawn(t)
        <3>1. proc[t] = "none"
            BY <2>1 DEF Spawn, Goes, TypeInv
        <3>2. \A c \in Threads : proc'[c] = IF c = t THEN "running" ELSE proc[c]
            BY <2>1 DEF Spawn, TypeInv, WatchTypeOK
        <3>3. CompleteBeforeConnect'
            BY <2>0, CompleteStays DEF SendInv
        <3>4. HasRead(cur, sent) => HasRead(cur, sent)'
            BY <2>0 DEF HasRead
        <3>5. m_client_socket = "connected" => peer \in Threads /\ peer # t
            BY <3>1 DEF SendInv, UnixTypeOK
        <3>6. mpc = "sending" => cur \in Threads
            BY DEF PhaseInv
        <3> QED BY <2>0, <3>1, <3>2, <3>3, <3>4, <3>5, <3>6 DEF SendInv
    <2>2. CASE ChildExited(t)
        <3>1. \A c \in Threads : \/ proc'[c] = proc[c]
                                 \/ proc[c] = "reaped" /\ proc'[c] = "reported"
            BY <2>2 DEF ChildExited, Dispatches, TakeStatus, TypeInv, WatchTypeOK
        <3> QED BY <2>0, <3>1, SendInvFrame
    <2>3. CASE UNCHANGED proc
        BY <2>0, <2>3, SendInvFrame
    <2> QED BY <1>4, <2>1, <2>2, <2>3 DEF Watches, WatchStep, SpawnFails, SetPid,
            WatchChild, RunLoop, LeaveLoop, UnrefLoop, ClosePid, UseAfterDelete,
            UseFreedLoop
<1>5. ASSUME NEW t \in Threads, OnSpiceClientExit(t) PROVE SendInv'
    <2>1. CASE ClearTrustStoreName(t)
        <3>1. pc[t] = "exit" /\ UNCHANGED <<proc, m_client_socket, peer, recv, ctl, rc,
                                            mpc, sent, cur>>
            BY <2>1 DEF ClearTrustStoreName, Handles
        <3>2. t = cur /\ proc[t] = "reported"
            BY <3>1 DEF CurInv, Live, SoloInv, SoloExit
        <3>3. CompleteBeforeConnect'
            BY <3>1, CompleteStays DEF SendInv
        <3> QED BY <3>1, <3>2, <3>3 DEF SendInv
    <2>2. CASE DisconnectCloses(t)
        BY <2>2, SendInvFrame DEF DisconnectCloses, ExitCloses, CloseSocket
    <2>3. CASE DisconnectUnlinks(t) \/ HandlerReturns(t)
        BY <2>3, SendInvFrame DEF DisconnectUnlinks, ExitUnlinks, HandlerReturns,
            ExitReturns, ExitHandled
    <2>4. CASE SetExitStatus(t) \/ CallOnDisconnected(t) \/ RemoveTrustStoreFile(t)
        BY <2>4, SendInvFrame DEF SetExitStatus, CallOnDisconnected, RemoveTrustStoreFile
    <2> QED BY <1>5, <2>1, <2>2, <2>3, <2>4 DEF OnSpiceClientExit
<1>6. CASE ConnectTries
    <2>1. /\ mpc = "connecting" /\ UNCHANGED <<mpc, cur, proc, recv>>
        BY <1>6 DEF ConnectTries, AttemptWithoutName, AttemptConnected, AttemptSucceeds,
            AttemptFails, Attempt, PhaseInv
    <2>2. CASE AttemptSucceeds
        <3>1. bound \in Threads /\ proc[bound] = "running" /\ peer' = bound
            BY <2>2 DEF AttemptSucceeds, Listening
        <3>2. bound = cur
            BY <3>1, RunningHasThread DEF CurInv, Live
        <3>3. CompleteBeforeConnect'
            BY <2>1, CompleteStays DEF SendInv
        <3>4. proc'[peer'] # "none" /\ peer' = cur'
            BY <2>1, <3>1, <3>2
        <3> QED BY <2>1, <3>3, <3>4 DEF SendInv
    <2>3. CASE AttemptWithoutName \/ AttemptConnected \/ AttemptFails
        <3>1. CompleteBeforeConnect'
            BY <2>1, CompleteStays DEF SendInv
        <3>2. /\ rc' # 0
              /\ m_client_socket' = "connected" => m_client_socket = "connected" /\ peer' = peer
            BY <2>3 DEF AttemptWithoutName, AttemptConnected, AttemptFails
        <3> QED BY <2>1, <3>1, <3>2 DEF SendInv
    <2> QED BY <1>6, <2>2, <2>3 DEF ConnectTries
<1>7. CASE ConnectReached
    <2>1. /\ ctl = "trying" /\ ctl' = "out" /\ mpc' = IF rc = 0 THEN "trust" ELSE "idle"
          /\ UNCHANGED <<cur, proc, recv, m_client_socket, peer, m_trust_store_file>>
        BY <1>7 DEF ConnectReached, ConnectReturns, CallStopClient, StopClient
    <2>2. CompleteBeforeConnect'
        BY <2>1, CompleteStays DEF SendInv
    <2>3. rc' = rc
        BY <1>7 DEF ConnectReached, ConnectReturns
    <2> QED BY <2>1, <2>2, <2>3 DEF SendInv
<1>8. CASE CreateTrustStoreFile \/ CreateTrustStoreFails
    <2>1. /\ mpc = "trust" /\ mpc' \in {"idle", "name"} /\ ctl = "out"
          /\ UNCHANGED <<ctl, rc, cur, proc, recv, m_client_socket, peer>>
        BY <1>8 DEF CreateTrustStoreFile, CreateTrustStoreFails, PhaseInv
    <2>2. CompleteBeforeConnect'
        BY <2>1, CompleteStays DEF SendInv
    <2> QED BY <2>1, <2>2 DEF SendInv
<1>9. CASE NameTrustStoreFile
    <2>1. /\ mpc = "name" /\ mpc' = "sending" /\ m_trust_store_file' = cur /\ sent' = 0
          /\ UNCHANGED <<ctl, rc, cur, proc, recv, m_client_socket, peer>>
        BY <1>9 DEF NameTrustStoreFile, StoreName
    <2>2. cur \in Threads
        BY <2>1 DEF PhaseInv
    <2>3. HasRead(cur, sent)'
        <3>1. 1 .. sent' = {}
            BY <2>1
        <3> QED BY <3>1 DEF HasRead
    <2>4. CompleteBeforeConnect'
        BY <2>1, CompleteStays DEF SendInv
    <2>5. cur # NoThread
        BY <2>2, ConstAssumption
    <2> QED BY <2>1, <2>3, <2>4, <2>5 DEF SendInv
<1>10. CASE SendNext
    BY <1>10, SendInvSends
<1>11. CASE ConnectEnds
    <2>1. /\ mpc' = "idle" /\ ctl = "out"
          /\ UNCHANGED <<ctl, rc, cur, proc, recv, m_client_socket, peer>>
        BY <1>11 DEF ConnectEnds, PhaseInv
    <2> QED BY <2>1 DEF SendInv, CompleteBeforeConnect
<1>12. CASE Show
    <2>1. /\ mpc = "idle" /\ ctl = "out" /\ Write("SHOW")
          /\ UNCHANGED <<mpc, ctl, rc, cur, proc, m_client_socket, peer, m_trust_store_file>>
        BY <1>12 DEF Show, WriteCall
    <2>2. "SHOW" \in Messages
        BY SessionAssumption DEF Script, Range
    <2>3. CompleteBeforeConnect'
        BY <2>1, <2>2, CompleteWrite DEF SendInv
    <2>4. \A c \in Threads : proc'[c] = "none" => recv'[c] = <<>>
        BY <2>1, <2>2, WriteAppends DEF SendInv
    <2> QED BY <2>1, <2>3, <2>4 DEF SendInv
<1>13. CASE Disconnect
    BY <1>13, SendInvFrame DEF Disconnect, StopCall, CallStopClient, StopClient
<1>14. CASE Destroy \/ Deleted
    <2>1. /\ mpc = "idle" /\ ctl' = "dtor"
          /\ UNCHANGED <<mpc, cur, proc, recv>>
          /\ m_client_socket' # "connected" \/ UNCHANGED <<m_client_socket, peer>>
        BY <1>14 DEF Destroy, CloseController, CloseSocket, Deleted, DeleteController,
            Delete, PhaseInv
    <2> QED BY <2>1 DEF SendInv, CompleteBeforeConnect
<1>15. ASSUME NEW c \in Threads, ClientBinds(c) \/ ClientExits(c) \/ ClientReaped(c)
       PROVE SendInv'
    <2>1. \A t \in Threads :
            \/ proc'[t] = proc[t]
            \/ proc[t] \in {"running", "exited"} /\ proc'[t] \in {"exited", "reaped"}
        BY <1>15 DEF ClientBinds, Bind, ClientExits, Exit, ClientExit, ClientReaped,
            ReapClient, Reap, TypeInv, WatchTypeOK
    <2>2. UNCHANGED <<m_client_socket, peer, recv, ctl, rc, mpc, sent, cur,
                      m_trust_store_file>>
        BY <1>15 DEF ClientBinds, Bind, ClientExits, Exit, ClientReaped, ReapClient
    <2> QED BY <2>1, <2>2, SendInvFrame
<1> QED BY <1>1, <1>2, <1>3, <1>4, <1>5, <1>6, <1>7, <1>8, <1>9, <1>10, <1>11, <1>12,
        <1>13, <1>14, <1>15 DEF Next, SessionThreadStep, SessionMainStep

\* A client that is told to connect has read every setting of the page and the
\* name of its CA file before, whatever clients exit and whatever fails
\* (PluginSession.CompleteBeforeConnect).
THEOREM AlwaysCompleteBeforeConnect == Spec => []CompleteBeforeConnect
<1>1. Init => SendInv
    BY DEF Init, UnixInit, WatchInit, SendInv, CompleteBeforeConnect
<1>2. SendInv => CompleteBeforeConnect
    BY DEF SendInv, CompleteBeforeConnect
<1> QED BY <1>1, <1>2, SendInvNext, SessionInvariants, CurInvariant, PTL DEF Spec
=============================================================================

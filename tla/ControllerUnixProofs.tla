------------------------- MODULE ControllerUnixProofs -------------------------
(***************************************************************************)
(* ControllerUnix implements ClientWatch, for any number of threads,       *)
(* attempts and messages; and, with one session at a time, its socket and  *)
(* its files do not outlive the session.                                   *)
(***************************************************************************)
EXTENDS ControllerUnix, ClientWatchProofs

-----------------------------------------------------------------------------
\* The controller begins as its threads do.
LEMMA UnixInitWatch == UnixInit => WatchInit
BY DEF UnixInit

\* Every step of the controller is a step of its threads, or a stutter.
LEMMA UnixNextWatch == [UnixNext]_unixVars => [WatchNext]_watchVars
<1> SUFFICES ASSUME UnixNext PROVE [WatchNext]_watchVars
    BY DEF unixVars
<1>1. fault = "none"
    BY DEF UnixNext
<1>2. ASSUME NEW t \in Threads, Connect(t) PROVE WatchNext
    BY <1>1, <1>2 DEF Connect, WatchNext
<1>3. ASSUME NEW t \in Threads, UnixThreadStep(t) PROVE [WatchNext]_watchVars
    <2>1. CASE ExitCloses(t) \/ ExitUnlinks(t)
        BY <2>1 DEF ExitCloses, ExitUnlinks
    <2>2. CASE SetName(t) \/ WatchStep(t) \/ ExitReturns(t)
        <3>1. ThreadStep(t)
            BY <2>2 DEF SetName, WatchStep, ExitReturns, ThreadStep
        <3> QED BY <1>1, <3>1 DEF WatchNext
    <2> QED BY <1>3, <2>1, <2>2 DEF UnixThreadStep
<1>4. CASE MainStep
    <2>1. CASE ConnectReturns
        BY <1>1, <2>1 DEF ConnectReturns, CallStopClient, WatchNext
    <2>2. CASE DeleteController
        BY <1>1, <2>2 DEF DeleteController, WatchNext
    <2> QED BY <1>4, <2>1, <2>2 DEF MainStep, AttemptWithoutName,
            AttemptConnected, AttemptSucceeds, AttemptFails, Attempt
<1>5. CASE StopCall
    BY <1>1, <1>5 DEF StopCall, CallStopClient, WatchNext
<1>6. CASE CloseController
    BY <1>6 DEF CloseController
<1>7. ASSUME NEW msg \in Messages, WriteCall(msg) PROVE UNCHANGED watchVars
    BY <1>7 DEF WriteCall
<1>8. ASSUME NEW c \in Threads, Bind(c) \/ Exit(c) \/ ReapClient(c)
      PROVE [WatchNext]_watchVars
    BY <1>1, <1>8 DEF Bind, Exit, ReapClient, WatchNext
<1>9. CASE UnixGone
    BY <1>9 DEF UnixGone, Gone
<1> QED BY <1>2, <1>3, <1>4, <1>5, <1>6, <1>7, <1>8, <1>9 DEF UnixNext

\* Every behaviour of the Unix controller is one of the client watch: what is
\* proved of the threads holds whatever the socket, the page and the client do.
THEOREM UnixImplementsWatch == UnixSpec => WatchSpec
BY UnixInitWatch, UnixNextWatch, PTL DEF UnixSpec, WatchSpec

-----------------------------------------------------------------------------
\* The types hold at first.
LEMMA UnixTypeInit == UnixInit => UnixTypeOK
<1> SUFFICES ASSUME UnixInit PROVE UnixTypeOK
    OBVIOUS
<1>1. recv \in [Threads -> Seq(Messages)]
    BY DEF UnixInit
<1>2. dis \in [Threads -> {"no", "closed", "yes"}]
    BY DEF UnixInit
<1>3. tries \in 0..Retries /\ rc \in {-1, 0, 1}
    BY UnixAssumption DEF UnixInit
<1>4. m_name \in BOOLEAN /\ tmpDir \in BOOLEAN
    BY DEF UnixInit
<1>5. peer # NoThread <=> m_client_socket = "connected"
    BY DEF UnixInit
<1> QED BY <1>1, <1>2, <1>3, <1>4, <1>5 DEF UnixInit, UnixTypeOK

\* Every step keeps the types.
LEMMA UnixTypeNext == UnixTypeOK /\ [UnixNext]_unixVars => UnixTypeOK'
<1> SUFFICES ASSUME UnixTypeOK, [UnixNext]_unixVars PROVE UnixTypeOK'
    OBVIOUS
<1> USE ConstAssumption, UnixAssumption DEF UnixTypeOK, socketVars, callVars
<1>1. CASE UNCHANGED unixVars
    BY <1>1 DEF unixVars
<1>2. ASSUME NEW t \in Threads, Connect(t) PROVE UnixTypeOK'
    BY <1>2 DEF Connect
<1>3. ASSUME NEW t \in Threads, UnixThreadStep(t) PROVE UnixTypeOK'
    <2>1. CASE SetName(t)
        BY <2>1 DEF SetName
    <2>2. CASE WatchStep(t)
        BY <2>2 DEF WatchStep
    <2>3. CASE ExitCloses(t)
        BY <2>3 DEF ExitCloses, CloseSocket
    <2>4. CASE ExitUnlinks(t)
        BY <2>4 DEF ExitUnlinks, UnlinkName
    <2>5. CASE ExitReturns(t)
        BY <2>5 DEF ExitReturns
    <2> QED BY <1>3, <2>1, <2>2, <2>3, <2>4, <2>5 DEF UnixThreadStep
<1>4. CASE MainStep
    <2>1. CASE AttemptWithoutName
        BY <2>1 DEF AttemptWithoutName, Attempt, CountAttempt
    <2>2. CASE AttemptConnected
        BY <2>2 DEF AttemptConnected, Attempt, CountAttempt
    <2>3. CASE AttemptSucceeds
        BY <2>3 DEF AttemptSucceeds, Attempt, CountAttempt, Listening
    <2>4. CASE AttemptFails
        BY <2>4 DEF AttemptFails, Attempt, CountAttempt
    <2>5. CASE ConnectReturns
        BY <2>5 DEF ConnectReturns
    <2>6. CASE DeleteController
        BY <2>6 DEF DeleteController
    <2> QED BY <1>4, <2>1, <2>2, <2>3, <2>4, <2>5, <2>6 DEF MainStep
<1>5. CASE StopCall
    BY <1>5 DEF StopCall
<1>6. CASE CloseController
    BY <1>6 DEF CloseController, CloseSocket, UnlinkName
<1>7. ASSUME NEW msg \in Messages, WriteCall(msg) PROVE UnixTypeOK'
    BY <1>7 DEF WriteCall, Write
<1>8. ASSUME NEW c \in Threads, Bind(c) PROVE UnixTypeOK'
    BY <1>8 DEF Bind
<1>9. ASSUME NEW c \in Threads, Exit(c) \/ ReapClient(c) PROVE UnixTypeOK'
    BY <1>9 DEF Exit, ReapClient
<1> QED BY <1>1, <1>2, <1>3, <1>4, <1>5, <1>6, <1>7, <1>8, <1>9
        DEF UnixNext, UnixGone

\* The variables of the controller always have their types, and the socket has
\* a peer exactly when it is connected (ControllerUnix.UnixTypeOK).
THEOREM UnixTypeCorrect == UnixSpec => []UnixTypeOK
BY UnixTypeInit, UnixTypeNext, PTL DEF UnixSpec

-----------------------------------------------------------------------------
(* One session at a time: the socket.                                      *)

\* A thread calls Disconnect() for a client that is reported, and the socket is
\* connected to a client that nobody has called it for.
SocketInv ==
    Patient /\ "debug" \notin Allowed =>
        /\ \A t \in Threads : dis[t] # "no" => proc[t] = "reported"
        /\ \A t \in Threads :
            m_client_socket = "connected" /\ peer = t =>
                /\ pc[t] \in {"set_pid", "watch", "run", "watching", "exit"}
                /\ proc[t] = "reported" => pc[t] = "exit"
                /\ dis[t] = "no"
        /\ ctl = "trying" /\ rc = -1 => m_client_socket # "connected"
        /\ rc # 1

\* What a step needs of the threads: a client that runs has its thread, which
\* has not come to its exit, and a thread runs its own loop.
LEMMA RunningHasThread ==
    ASSUME TypeInv, SoloInv, Patient, NEW c \in Threads, proc[c] = "running"
    PROVE  pc[c] \in {"set_pid", "watch", "run", "watching"}
BY DEF TypeInv, WatchTypeOK, SoloInv, NotAbandoned, SoloExit

\* Every step keeps SocketInv.
LEMMA SocketInvNext ==
    UnixTypeOK /\ TypeInv /\ SoloInv /\ SocketInv /\ [UnixNext]_unixVars => SocketInv'
<1> SUFFICES ASSUME UnixTypeOK, TypeInv, SoloInv, SocketInv, [UnixNext]_unixVars,
                    Patient, "debug" \notin Allowed
             PROVE SocketInv'
    BY DEF SocketInv, Patient
<1> USE ConstAssumption DEF SocketInv, socketVars, callVars, clientVars,
        fieldVars, loopVars, endVars
<1>t. TypeInv /\ UnixTypeOK
    OBVIOUS
<1>1. CASE UNCHANGED unixVars
    BY <1>1 DEF unixVars, watchVars
<1>2. ASSUME NEW t \in Threads, Connect(t) PROVE SocketInv'
    <2>1. Live = {}
        BY <1>2 DEF Connect, StartClient, Patient
    <2>2. m_client_socket # "connected"
        BY <2>1, <1>t DEF Live, UnixTypeOK
    <2> QED BY <1>2, <2>2, <1>t DEF Connect, StartClient, TypeInv, WatchTypeOK
<1>3. ASSUME NEW t \in Threads, SetName(t) PROVE SocketInv'
    BY <1>3, <1>t DEF SetName, SetupControllerPipe, Goes, TypeInv, WatchTypeOK
<1>4. ASSUME NEW t \in Threads, WatchStep(t) PROVE SocketInv'
    <2>1. CASE Spawn(t)
        BY <1>4, <2>1, <1>t DEF WatchStep, Spawn, Goes, TypeInv, WatchTypeOK
    <2>2. CASE SpawnFails(t) \/ SetPid(t) \/ WatchChild(t) \/ RunLoop(t)
               \/ UnrefLoop(t) \/ ClosePid(t)
        BY <1>4, <2>2, <1>t DEF WatchStep, SpawnFails, SetPid, WatchChild, RunLoop,
            UnrefLoop, ClosePid, Goes, TypeInv, WatchTypeOK
    <2>3. CASE ChildExited(t)
        <3>1. runs[t] = t
            BY <2>3 DEF SoloInv, SoloLoop, ChildExited, Dispatches
        <3> QED BY <1>4, <2>3, <3>1, <1>t DEF WatchStep, ChildExited, Goes,
                TakeStatus, TypeInv, WatchTypeOK
    <2>4. CASE LeaveLoop(t)
        <3>1. runs[t] = t /\ t \notin running
            BY <2>4 DEF SoloInv, SoloLoop, LeaveLoop, LoopHasQuit, Goes
        <3>2. proc[t] = "reported"
            BY <2>4, <3>1 DEF SoloInv, SoloExit, LeaveLoop, Goes
        <3> QED BY <1>4, <2>4, <3>2, <1>t DEF WatchStep, LeaveLoop, Goes, TypeInv,
                WatchTypeOK
    <2>5. CASE UseAfterDelete(t) \/ UseFreedLoop(t)
        BY <1>4, <2>5 DEF WatchStep, UseAfterDelete, UseFreedLoop
    <2> QED BY <1>4, <2>1, <2>2, <2>3, <2>4, <2>5 DEF WatchStep
<1>5. ASSUME NEW t \in Threads, ExitCloses(t) \/ ExitUnlinks(t) PROVE SocketInv'
    <2>1. proc[t] = "reported"
        BY <1>5 DEF SoloInv, SoloExit, ExitCloses, ExitUnlinks
    <2>2. CASE ExitCloses(t)
        BY <2>1, <2>2, <1>t DEF ExitCloses, CloseSocket, watchVars, UnixTypeOK
    <2>3. CASE ExitUnlinks(t)
        BY <2>1, <2>3, <1>t DEF ExitUnlinks, watchVars, UnixTypeOK
    <2> QED BY <1>5, <2>2, <2>3
<1>6. ASSUME NEW t \in Threads, ExitReturns(t) PROVE SocketInv'
    BY <1>6, <1>t DEF ExitReturns, ExitHandled, Goes, TypeInv, WatchTypeOK
<1>7. CASE AttemptSucceeds
    <2>1. bound \in Threads /\ proc[bound] = "running"
        BY <1>7 DEF AttemptSucceeds, Listening
    <2>2. pc[bound] \in {"set_pid", "watch", "run", "watching"}
        BY <2>1, RunningHasThread
    <2> QED BY <1>7, <2>1, <2>2 DEF AttemptSucceeds, Attempt, watchVars
<1>8. CASE AttemptWithoutName \/ AttemptConnected \/ AttemptFails
    BY <1>8 DEF AttemptWithoutName, AttemptConnected, AttemptFails, Attempt, watchVars
<1>9. CASE ConnectReturns \/ StopCall
    BY <1>9 DEF ConnectReturns, StopCall, CallStopClient, StopClient, watchVars
<1>10. CASE CloseController
    BY <1>10 DEF CloseController, CloseSocket, watchVars
<1>11. CASE DeleteController
    BY <1>11 DEF DeleteController, Delete
<1>12. ASSUME NEW msg \in Messages, WriteCall(msg) PROVE SocketInv'
    BY <1>12 DEF WriteCall, watchVars
<1>13. ASSUME NEW c \in Threads, Bind(c) PROVE SocketInv'
    BY <1>13 DEF Bind, watchVars
<1>14. ASSUME NEW c \in Threads, Exit(c) \/ ReapClient(c) PROVE SocketInv'
    BY <1>14, <1>t DEF Exit, ClientExit, ReapClient, Reap, TypeInv, WatchTypeOK
<1> QED BY <1>1, <1>2, <1>3, <1>4, <1>5, <1>6, <1>7, <1>8, <1>9, <1>10, <1>11,
        <1>12, <1>13, <1>14 DEF UnixNext, UnixThreadStep, MainStep, UnixGone

\* What is proved of the threads holds of the controller.
LEMMA WatchInvariants == UnixSpec => [](UnixTypeOK /\ TypeInv /\ SoloInv)
<1>1. WatchSpec => []TypeInv
    BY TypeInvInit, TypeInvNext, PTL DEF WatchSpec
<1> QED BY <1>1, SoloInvariant, UnixImplementsWatch, UnixTypeCorrect, PTL

\* SocketInv is an invariant of the controller.
LEMMA SocketInvariant == UnixSpec => []SocketInv
<1>1. UnixInit => SocketInv
    BY ConstAssumption DEF UnixInit, SocketInv
<1> QED BY <1>1, SocketInvNext, WatchInvariants, PTL DEF UnixSpec

\* With one session at a time a connected socket belongs to a client whose exit
\* has not been handled (ControllerUnix.SocketOfLiveClient).
THEOREM SocketDiesWithSession == UnixSpec => []SocketOfLiveClient
<1>1. SocketInv => SocketOfLiveClient
    BY DEF SocketInv, SocketOfLiveClient
<1> QED BY <1>1, SocketInvariant, PTL

\* With one session at a time connect() never meets a socket that is connected
\* already (ControllerUnix.NeverIsConnected).
THEOREM NoConnectOnConnected == UnixSpec => []NeverIsConnected
<1>1. SocketInv => NeverIsConnected
    BY DEF SocketInv, NeverIsConnected
<1> QED BY <1>1, SocketInvariant, PTL

-----------------------------------------------------------------------------
(* One session at a time: the files.                                       *)

\* The path of a client's socket is known for as long as the client may bind it.
TmpInv ==
    Patient /\ Stays =>
        /\ bound # NoThread => m_name
        /\ \A t \in Threads : pc[t] = "spawn" \/ proc[t] = "running" => m_name
        /\ ctl = "dtor" => bound = NoThread /\ Live = {}
        /\ deleted => ~tmpDir

\* Every step keeps TmpInv.
LEMMA TmpInvNext ==
    UnixTypeOK /\ TypeInv /\ SoloInv /\ TmpInv /\ [UnixNext]_unixVars => TmpInv'
<1> SUFFICES ASSUME UnixTypeOK, TypeInv, SoloInv, TmpInv, [UnixNext]_unixVars,
                    Patient, Stays
             PROVE TmpInv'
    BY DEF TmpInv, Patient, Stays
<1> USE ConstAssumption DEF TmpInv, socketVars, callVars, clientVars, fieldVars,
        loopVars, endVars
<1>t. TypeInv /\ UnixTypeOK
    OBVIOUS
<1>1. CASE UNCHANGED unixVars
    BY <1>1 DEF unixVars, watchVars, Live
<1>2. ASSUME NEW t \in Threads, Connect(t) PROVE TmpInv'
    BY <1>2, <1>t DEF Connect, StartClient, TypeInv, WatchTypeOK
<1>3. ASSUME NEW t \in Threads, SetName(t) PROVE TmpInv'
    <2>1. t \in Live
        BY <1>3 DEF SetName, SetupControllerPipe, Goes, Live
    <2> QED BY <1>3, <2>1 DEF SetName, SetupControllerPipe
<1>4. ASSUME NEW t \in Threads, WatchStep(t) \/ ExitReturns(t) PROVE TmpInv'
    <2>1. CASE UseAfterDelete(t) \/ UseFreedLoop(t)
        BY <1>4, <2>1 DEF WatchStep, ExitReturns, UseAfterDelete, UseFreedLoop, Live
    <2>2. CASE ~(UseAfterDelete(t) \/ UseFreedLoop(t))
        <3>1. t \in Live
            BY <1>4, <2>2 DEF WatchStep, ExitReturns, ExitHandled, Spawn, SpawnFails,
                SetPid, WatchChild, RunLoop, ChildExited, LeaveLoop, UnrefLoop,
                ClosePid, Goes, Live
        <3>2. ctl # "dtor"
            BY <3>1
        <3>3. ctl' = ctl /\ UNCHANGED <<bound, m_name, tmpDir, deleted>>
            BY <1>4, <2>2 DEF WatchStep, ExitReturns, ExitHandled, Spawn, SpawnFails,
                SetPid, WatchChild, RunLoop, ChildExited, LeaveLoop, UnrefLoop,
                ClosePid
        <3>4. \A s \in Threads : pc'[s] = "spawn" => pc[s] = "spawn"
            BY <1>4, <2>2, <1>t DEF WatchStep, ExitReturns, ExitHandled, Spawn,
                SpawnFails, SetPid, WatchChild, RunLoop, ChildExited, LeaveLoop,
                UnrefLoop, ClosePid, Goes, TypeInv, WatchTypeOK
        <3>5. \A s \in Threads :
                proc'[s] = "running" => proc[s] = "running" \/ pc[s] = "spawn"
            BY <1>4, <2>2, <1>t DEF WatchStep, ExitReturns, ExitHandled, Spawn,
                SpawnFails, SetPid, WatchChild, RunLoop, ChildExited, LeaveLoop,
                UnrefLoop, ClosePid, Goes, TakeStatus, TypeInv, WatchTypeOK
        <3> QED BY <3>2, <3>3, <3>4, <3>5
    <2> QED BY <2>1, <2>2
<1>5. ASSUME NEW t \in Threads, ExitCloses(t) PROVE TmpInv'
    BY <1>5 DEF ExitCloses, watchVars, Live
<1>6. ASSUME NEW t \in Threads, ExitUnlinks(t) PROVE TmpInv'
    <2>1. proc[t] = "reported" /\ t \in Live
        BY <1>6 DEF SoloInv, SoloExit, ExitUnlinks, Live
    <2>2. \A s \in Threads : proc[s] = "running" => s \in Live
        BY RunningHasThread DEF Live
    <2>3. \A s \in Threads : s # t => s \notin Live
        BY <2>1 DEF SoloInv, SoloThread, Live
    <2>4. \A s \in Threads : pc[s] # "spawn" /\ proc[s] # "running"
        BY <2>1, <2>2, <2>3, <1>6 DEF Live, ExitUnlinks
    <2>5. bound' = NoThread
        BY <1>6, <1>t DEF ExitUnlinks, UnlinkName, UnixTypeOK
    <2> QED BY <1>6, <2>4, <2>5 DEF ExitUnlinks, UnlinkName, watchVars, Live
<1>7. CASE AttemptSucceeds \/ AttemptWithoutName \/ AttemptConnected \/ AttemptFails
    BY <1>7 DEF AttemptSucceeds, AttemptWithoutName, AttemptConnected, AttemptFails,
        Attempt, watchVars, Live
<1>8. CASE ConnectReturns \/ StopCall
    BY <1>8 DEF ConnectReturns, StopCall, CallStopClient, StopClient, watchVars, Live
<1>9. CASE CloseController
    <2>1. Live = {}
        BY <1>9 DEF CloseController, Stays
    <2>2. \A s \in Threads : pc[s] # "spawn" /\ proc[s] # "running"
        BY <2>1, RunningHasThread DEF Live
    <2>3. bound' = NoThread
        BY <1>9, <1>t DEF CloseController, UnlinkName, UnixTypeOK
    <2> QED BY <1>9, <2>1, <2>2, <2>3 DEF CloseController, UnlinkName, watchVars, Live
<1>10. CASE DeleteController
    BY <1>10, <1>t DEF DeleteController, Delete, Live
<1>11. ASSUME NEW msg \in Messages, WriteCall(msg) PROVE TmpInv'
    BY <1>11 DEF WriteCall, watchVars, Live
<1>12. ASSUME NEW c \in Threads, Bind(c) PROVE TmpInv'
    <2>1. c \in Live
        BY <1>12, RunningHasThread DEF Bind, Live
    <2> QED BY <1>12, <2>1 DEF Bind, watchVars, Live
<1>13. ASSUME NEW c \in Threads, Exit(c) \/ ReapClient(c) PROVE TmpInv'
    BY <1>13, <1>t DEF Exit, ClientExit, ReapClient, Reap, Live, TypeInv, WatchTypeOK
<1> QED BY <1>1, <1>2, <1>3, <1>4, <1>5, <1>6, <1>7, <1>8, <1>9, <1>10, <1>11,
        <1>12, <1>13 DEF UnixNext, UnixThreadStep, MainStep, UnixGone

\* With one session at a time, deleting the controller removes the temporary
\* directory with all it held (ControllerUnix.TmpDirRemoved).
THEOREM TmpDirAlwaysRemoved == UnixSpec => []TmpDirRemoved
<1>1. UnixInit => TmpInv
    BY ConstAssumption DEF UnixInit, WatchInit, TmpInv
<1>2. TmpInv => TmpDirRemoved
    BY DEF TmpInv, TmpDirRemoved
<1> QED BY <1>1, <1>2, TmpInvNext, WatchInvariants, PTL DEF UnixSpec
=============================================================================

----------------------------- MODULE PluginSession -----------------------------
(***************************************************************************)
(* The session as the web page sees it: connect(), show(), disconnect()    *)
(* and connectedStatus of nsPluginInstance (plugin.cpp), run by the        *)
(* browser's main thread, against OnSpiceClientExit, run by the client     *)
(* thread.  The two share m_connected_status, m_trust_store_file and the   *)
(* controller, with no lock.                                               *)
(*                                                                         *)
(* It adds to the actions of ControllerUnix the plugin's side of them.     *)
(***************************************************************************)
EXTENDS ControllerUnix, SequencesExt

CONSTANT Given  \* the optional settings that the page has filled in when it connects

\* A mutant: INIT comes after the first settings.
ScriptLateInit ==
    <<"HOST", "PORT", "SPORT", "FULL_SCREEN", "ENABLE_SMARTCARD", "INIT",
      "PASSWORD", "TLS_CIPHERS", "SET_TITLE", "SEND_CAD",
      "ENABLE_USB_AUTOSHARE", "USB_FILTER", "SECURE_CHANNELS", "CA_FILE",
      "HOST_SUBJECT", "HOTKEYS", "COLOR_DEPTH", "DISABLE_EFFECTS",
      "CONNECT", "SHOW">>

\* A mutant: the client is told to connect before it is told the CA file.
ScriptEarlyConnect ==
    <<"INIT", "HOST", "PORT", "SPORT", "FULL_SCREEN", "ENABLE_SMARTCARD",
      "PASSWORD", "TLS_CIPHERS", "SET_TITLE", "SEND_CAD",
      "ENABLE_USB_AUTOSHARE", "USB_FILTER", "SECURE_CHANNELS", "CONNECT",
      "CA_FILE", "HOST_SUBJECT", "HOTKEYS", "COLOR_DEPTH", "DISABLE_EFFECTS",
      "SHOW">>

\* The messages of connect() in the order of the code (plugin.cpp:707-730).
Script == <<"INIT", "HOST", "PORT", "SPORT", "FULL_SCREEN", "ENABLE_SMARTCARD",
            "PASSWORD", "TLS_CIPHERS", "SET_TITLE", "SEND_CAD",
            "ENABLE_USB_AUTOSHARE", "USB_FILTER", "SECURE_CHANNELS", "CA_FILE",
            "HOST_SUBJECT", "HOTKEYS", "COLOR_DEPTH", "DISABLE_EFFECTS",
            "CONNECT", "SHOW">>

\* SendInit, SendBool and SendMsg always send; SendValue and SendStr send
\* neither 0 nor the empty string.
AlwaysSent == {"INIT", "ENABLE_SMARTCARD", "SEND_CAD", "ENABLE_USB_AUTOSHARE",
               "CONNECT", "SHOW"}

ASSUME SessionAssumption ==
    /\ Given \subseteq Range(Script) \ (AlwaysSent \cup {"CA_FILE"})
    /\ Range(Script) \subseteq Messages
    /\ Given \cap {"PORT", "SPORT"} # {}    \* or else ConnectBadPorts is all there is

\* connectedStatus: -2 never connected, -1 connected, 0 the client ended well,
\* 1 the ports are wrong, and RDP_ERROR_CODE_INTERNAL_ERROR, which TranslateRC
\* makes of every other wait status (none of them is one of its negative codes).
ExitStatuses == {0, 1032}
Statuses == {-2, -1, 1} \cup ExitStatuses

VARIABLES
    mpc,                \* the main thread: "idle", or where it is in Connect()
    cur,                \* the client thread that the last connect() started
    sent,               \* messages of the script that Connect() is done with
    m_connected_status,
    m_trust_store_file, \* the session whose trust store file it names
    files,              \* the sessions whose trust store file exists
    step,               \* per thread: where it is in OnSpiceClientExit
    told                \* per client: the calls of OnDisconnected for its exit

pageVars == <<mpc, cur, sent>>
trustVars == <<m_trust_store_file, files>>
sessionVars == <<pageVars, trustVars, m_connected_status, step, told>>
vars == <<unixVars, sessionVars>>

Init ==
    /\ UnixInit
    /\ mpc = "idle"
    /\ cur = NoThread
    /\ sent = 0
    /\ m_connected_status = -2
    /\ m_trust_store_file = NoThread
    /\ files = {}
    /\ step = [t \in Threads |-> "status"]
    /\ told = [t \in Threads |-> 0]

-----------------------------------------------------------------------------
(* connect(), in the main thread.                                          *)

\* Neither port is usable: the page is told at once, from connect() itself.
\* Nothing else changes, whatever session is going on.
ConnectBadPorts ==
    /\ mpc = "idle"
    /\ ctl = "out"
    /\ ~deleted
    /\ "overlap" \in Allowed \/ Live = {}
    /\ m_connected_status' = 1
    /\ UNCHANGED <<unixVars, pageVars, trustVars, step, told>>

ConnectBegins(t) ==
    /\ mpc = "idle"
    /\ Connect(t)
    /\ mpc' = "connecting"
    /\ cur' = t
    /\ UNCHANGED <<sent, trustVars, m_connected_status, step, told>>

ConnectTries ==
    /\ \/ AttemptWithoutName
       \/ AttemptConnected
       \/ AttemptSucceeds
       \/ AttemptFails
    /\ UNCHANGED sessionVars

\* A mutant: Connect ends without the call of StopClient.
ConnectReachedUnstopped ==
    /\ ctl = "trying"
    /\ rc # -1 \/ tries = Retries
    /\ ctl' = "out"
    /\ mpc' = IF rc = 0 THEN "trust" ELSE "idle"
    /\ UNCHANGED <<watchVars, socketVars, tries, rc, dis, cur, sent, trustVars,
                   m_connected_status, step, told>>

ConnectReached ==
    /\ ConnectReturns
    /\ mpc' = IF rc = 0 THEN "trust" ELSE "idle"
    /\ UNCHANGED <<cur, sent, trustVars, m_connected_status, step, told>>

\* g_file_new_tmp, and the write.
CreateTrustStoreFile ==
    /\ mpc = "trust"
    /\ files' = files \cup {cur}
    /\ mpc' = "name"
    /\ UNCHANGED <<unixVars, cur, sent, m_trust_store_file, m_connected_status,
                   step, told>>

\* No file, or a file that could not be written, whose name is then forgotten.
\* The socket stays connected, and the client never hears of the failure.
CreateTrustStoreFails ==
    /\ mpc = "trust"
    /\ "tmp_fails" \in Allowed
    /\ files' \in {files, files \cup {cur}}
    /\ mpc' = "idle"
    /\ UNCHANGED <<unixVars, cur, sent, m_trust_store_file, m_connected_status,
                   step, told>>

\* g_file_get_path into the member: the name of an older file is forgotten.
\* The mutant does not keep the name.
StoreNoName == UNCHANGED m_trust_store_file
StoreName == m_trust_store_file' = cur

NameTrustStoreFile ==
    /\ mpc = "name"
    /\ StoreName
    /\ mpc' = "sending"
    /\ sent' = 0
    /\ UNCHANGED <<unixVars, cur, files, m_connected_status, step, told>>

\* What the members hold when Connect() comes to the message.
Filled(msg) ==
    \/ msg \in AlwaysSent \cup Given
    \/ msg = "CA_FILE" /\ m_trust_store_file # NoThread

SendNext ==
    /\ mpc = "sending"
    /\ sent < Len(Script)
    /\ IF Filled(Script[sent + 1]) THEN Write(Script[sent + 1]) ELSE UNCHANGED recv
    /\ sent' = sent + 1
    /\ UNCHANGED <<watchVars, m_client_socket, peer, m_name, bound, listens,
                   tmpDir, callVars, dis, mpc, cur, trustVars,
                   m_connected_status, step, told>>

\* A mutant: connect() removes the file as soon as it has told its name.
ConnectEndsRemoving ==
    /\ mpc = "sending"
    /\ sent = Len(Script)
    /\ m_connected_status' = -1
    /\ mpc' = "idle"
    /\ files' = files \ {cur}
    /\ UNCHANGED <<unixVars, cur, sent, m_trust_store_file, step, told>>

ConnectEnds ==
    /\ mpc = "sending"
    /\ sent = Len(Script)
    /\ m_connected_status' = -1
    /\ mpc' = "idle"
    /\ UNCHANGED <<unixVars, cur, sent, trustVars, step, told>>

-----------------------------------------------------------------------------
(* The other calls of the page, and the end of the instance.               *)

Show ==
    /\ mpc = "idle"
    /\ WriteCall("SHOW")
    /\ UNCHANGED sessionVars

Disconnect ==
    /\ mpc = "idle"
    /\ StopCall
    /\ UNCHANGED sessionVars

\* The plugin's destructor removes no trust store file.
Destroy ==
    /\ mpc = "idle"
    /\ CloseController
    /\ UNCHANGED sessionVars

Deleted ==
    /\ DeleteController
    /\ UNCHANGED sessionVars

-----------------------------------------------------------------------------
(* OnSpiceClientExit, in the client thread.                                *)

\* Thread t, in the callback of its loop, moves from one label to the next.
Handles(t, from, to) ==
    /\ pc[t] = "exit"
    /\ ~deleted
    /\ step[t] = from
    /\ step' = [step EXCEPT ![t] = to]

\* TranslateRC of the wait status.  One mutant stores the wait status itself,
\* the other nothing.
StoreStatusRaw == m_connected_status' \in {0, 256}
StoreStatusNever == UNCHANGED m_connected_status
StoreStatus == m_connected_status' \in ExitStatuses

SetExitStatus(t) ==
    /\ Handles(t, "status", IF "debug" \in Allowed THEN "remove" ELSE "tell")
    /\ StoreStatus
    /\ UNCHANGED <<unixVars, pageVars, trustVars, told>>

\* OnDisconnected of the page, for the client whose exit t reports.  The
\* mutant calls nothing.
TellNever(t) == UNCHANGED told
Tell(t) == told' = [told EXCEPT ![handles[t]] = @ + 1]

\* A mutant: the page is called before the status is set.
CallOnDisconnectedFirst(t) ==
    /\ Handles(t, "status", "close")
    /\ Tell(t)
    /\ UNCHANGED <<unixVars, pageVars, trustVars, m_connected_status>>

\* The page may do anything while it is told, but from the main thread.
CallOnDisconnected(t) ==
    /\ Handles(t, "tell", "close")
    /\ Tell(t)
    /\ UNCHANGED <<unixVars, pageVars, trustVars, m_connected_status>>

DisconnectCloses(t) ==
    /\ Handles(t, "close", "unlink")
    /\ ExitCloses(t)
    /\ UNCHANGED <<pageVars, trustVars, m_connected_status, told>>

DisconnectUnlinks(t) ==
    /\ Handles(t, "unlink", "remove")
    /\ ExitUnlinks(t)
    /\ UNCHANGED <<pageVars, trustVars, m_connected_status, told>>

\* g_unlink of the name: false, and the member is left alone, when it fails.
RemoveTrustStoreFile(t) ==
    /\ Handles(t, "remove", IF m_trust_store_file \in files THEN "clear" ELSE "return")
    /\ files' = files \ {m_trust_store_file}
    /\ UNCHANGED <<unixVars, pageVars, m_trust_store_file, m_connected_status,
                   told>>

ClearTrustStoreName(t) ==
    /\ Handles(t, "clear", "return")
    /\ m_trust_store_file' = NoThread
    /\ UNCHANGED <<unixVars, pageVars, files, m_connected_status, told>>

\* A mutant: the page is called again once everything is cleaned up.
HandlerReturnsTelling(t) ==
    /\ Handles(t, "return", "done")
    /\ ExitReturns(t)
    /\ Tell(t)
    /\ UNCHANGED <<pageVars, trustVars, m_connected_status>>

HandlerReturns(t) ==
    /\ Handles(t, "return", "done")
    /\ ExitReturns(t)
    /\ UNCHANGED <<pageVars, trustVars, m_connected_status, told>>

OnSpiceClientExit(t) ==
    \/ SetExitStatus(t)
    \/ CallOnDisconnected(t)
    \/ DisconnectCloses(t)
    \/ DisconnectUnlinks(t)
    \/ RemoveTrustStoreFile(t)
    \/ ClearTrustStoreName(t)
    \/ HandlerReturns(t)

SetsUpPipe(t) == SetName(t) /\ UNCHANGED sessionVars
Watches(t) == WatchStep(t) /\ UNCHANGED sessionVars

-----------------------------------------------------------------------------
(* The client process, with no state of the plugin.                        *)

ClientBinds(c) == Bind(c) /\ UNCHANGED sessionVars
ClientReaped(c) == ReapClient(c) /\ UNCHANGED sessionVars

ClientExits(c) ==
    /\ mpc = "idle" \/ "early_exit" \in Allowed
    /\ Exit(c)
    /\ UNCHANGED sessionVars

-----------------------------------------------------------------------------
SessionThreadStep(t) == SetsUpPipe(t) \/ Watches(t) \/ OnSpiceClientExit(t)

SessionMainStep ==
    \/ ConnectTries
    \/ ConnectReached
    \/ CreateTrustStoreFile
    \/ CreateTrustStoreFails
    \/ NameTrustStoreFile
    \/ SendNext
    \/ ConnectEnds
    \/ Deleted

SessionGone == Gone /\ UNCHANGED vars

Next ==
    /\ fault = "none"
    /\ \/ ConnectBadPorts
       \/ \E t \in Threads : ConnectBegins(t) \/ SessionThreadStep(t)
       \/ SessionMainStep
       \/ Show
       \/ Disconnect
       \/ Destroy
       \/ \E c \in Threads : ClientBinds(c) \/ ClientExits(c) \/ ClientReaped(c)
       \/ SessionGone

Spec == Init /\ [][Next]_vars

Fairness ==
    /\ WF_vars(fault = "none" /\ SessionMainStep)
    /\ \A t \in Threads :
        /\ WF_vars(fault = "none" /\ SessionThreadStep(t))
        /\ WF_vars(fault = "none" /\ ClientReaped(t))
        /\ WF_vars(fault = "none" /\ t \in term /\ ClientExits(t))

FairSpec == Spec /\ Fairness

-----------------------------------------------------------------------------
\* The type of the variables this module adds.
TypeOK ==
    /\ mpc \in {"idle", "connecting", "trust", "name", "sending"}
    /\ cur \in Threads \cup {NoThread}
    /\ sent \in 0..Len(Script)
    /\ m_connected_status \in Statuses
    /\ m_trust_store_file \in Threads \cup {NoThread}
    /\ files \subseteq Threads
    /\ step \in [Threads -> {"status", "tell", "close", "unlink", "remove",
                             "clear", "return", "done"}]
    /\ told \in [Threads -> Nat]

Waits == "early_exit" \notin Allowed
HasTmp == "tmp_fails" \notin Allowed

\* Nothing is going on: no call of the page and no client thread.
Quiet == mpc = "idle" /\ Live = {}

\* connectedStatus does not go on saying "connected" once every client thread
\* has ended (plugin.cpp:733 in the main thread against 818 in the client's).
StatusTruth == Waits => (Quiet => m_connected_status # -1)

\* The page that reads connectedStatus in its OnDisconnected handler reads how
\* the client exited, neither "connected" nor what was there before it: the
\* status is set before the call (plugin.cpp:818-821), and no connect() of the
\* page comes between.
ToldAfterStatus ==
    [][Patient /\ Waits /\ told' # told => m_connected_status \in ExitStatuses]_vars

\* OnDisconnected is called once for each exit, and before the thread ends
\* (not at all under SPICE_XPI_DEBUG); never twice, even when threads overlap.
ToldOnce ==
    \A t \in Threads :
        /\ told[t] <= 1
        /\ Patient /\ pc[t] = "done" /\ proc[t] = "reported"
            => told[t] = IF "debug" \in Allowed THEN 0 ELSE 1

\* The first message a client reads is INIT, as the protocol asks, though
\* show() writes to whatever socket there is, sessions overlap and client
\* threads close the socket under the main thread; unless connect() gave up
\* for want of a trust store file, and left the socket connected.
InitFirst ==
    HasTmp => \A c \in Threads : recv[c] # <<>> => Head(recv[c]) = "INIT"

\* A client told to CONNECT has been given everything it needs for it before:
\* each setting of the page, and the CA file that it must verify the host with.
CompleteBeforeConnect ==
    Patient =>
        \A c \in Threads : \A i \in DOMAIN recv[c] :
            recv[c][i] = "CONNECT" =>
                {"INIT", "CA_FILE"} \cup Given \subseteq {recv[c][j] : j \in 1..(i - 1)}

\* The CA file named to a client exists for as long as the client runs.
CaFileStays ==
    Patient =>
        \A c \in Threads :
            proc[c] = "running" /\ Contains(recv[c], "CA_FILE") => c \in files

\* The page's view of a session: it has begun when its thread has, and has ended
\* when the status of its exit is set.
Begun == {t \in Threads : pc[t] # "idle"}
Ended == {c \in Threads : \E t \in Threads : handles[t] = c /\ step[t] # "status"}

Promise == INSTANCE SessionPromise
    WITH Sessions <- Threads, status <- m_connected_status,
         begun <- Begun, ended <- Ended

\* Whatever sessions overlap and whatever loops their threads share, what a page
\* sees is SessionPromise: each end sets the status once and is told at most once,
\* in this order.
PromiseKept == Promise!Spec

\* An end is not only told at most once: it is told.
EndIsTold ==
    Patient /\ Stays /\ "debug" \notin Allowed => Promise!EveryEndIsTold

\* No trust store file outlives its session.
TrustFilesRemoved == Patient /\ Waits /\ HasTmp => (Quiet => files = {})

\* connect() gives the browser's main thread back, whatever the client does.
ConnectGivesBack == mpc # "idle" ~> mpc = "idle" \/ fault # "none"

\* After a disconnect() that reached the client, the page is told and the
\* temporary files of the session are removed.
StoppedSessionEnds ==
    Patient /\ Stays /\ Waits /\ "debug" \notin Allowed =>
        \A t \in Threads :
            t \in term ~> pc[t] = "done" /\ told[t] = 1 /\ t \notin files
=============================================================================

---------------------------- MODULE ControllerUnix ----------------------------
(***************************************************************************)
(* SpiceControllerUnix (controller-unix.cpp) with the retry loop it        *)
(* inherits (SpiceController::Connect, controller.cpp): the path and the   *)
(* socket by which the plugin talks to the client, the temporary directory *)
(* that holds the socket's file, and the end of a session, which the       *)
(* client's thread carries out while the main thread may be in connect().  *)
(*                                                                         *)
(* It adds to the actions of ClientWatch what they do to the socket; each  *)
(* step is a step of ClientWatch or leaves its variables alone.            *)
(***************************************************************************)
EXTENDS ClientWatch, Integers, Sequences

CONSTANTS
    Retries,    \* attempts that one call of connect makes (the plugin asks for 10)
    Messages,   \* what the plugin may write to the client
    MaxRead     \* bound: how many of them the record of one client keeps

ASSUME UnixAssumption ==
    /\ Retries \in Nat \ {0}
    /\ MaxRead \in Nat

VARIABLES
    m_name,             \* TRUE when m_name holds the path of the socket's file
    m_client_socket,    \* "none" (-1), "open" or "connected"
    peer,               \* the client at the other end of a connected socket
    bound,              \* the client whose socket has the path; it may be dead
    listens,            \* the clients that have bound their socket
    tmpDir,             \* the directory made by mkdtemp exists
    recv,               \* per client: the messages delivered to it
    ctl,                \* the main thread: "out" of Connect, "trying", or in the "dtor"
    tries,              \* attempts made by the loop of Connect
    rc,                 \* the result of the last attempt: 0, 1 (EISCONN) or -1
    dis                 \* per thread: how far it is in Disconnect()

socketVars == <<m_client_socket, peer, m_name, bound, listens, tmpDir, recv>>
callVars == <<ctl, tries, rc>>
unixVars == <<watchVars, socketVars, callVars, dis>>

UnixInit ==
    /\ WatchInit
    /\ m_name = FALSE
    /\ m_client_socket = "none"
    /\ peer = NoThread
    /\ bound = NoThread
    /\ listens = {}
    /\ tmpDir = TRUE
    /\ recv = [c \in Threads |-> <<>>]
    /\ ctl = "out"
    /\ tries = 0
    /\ rc = -1
    /\ dis = [t \in Threads |-> "no"]

-----------------------------------------------------------------------------
(* The main thread.                                                        *)

\* StartClient(), then Connect(Retries), as every connect() of the plugin does.
Connect(t) ==
    /\ ctl = "out"
    /\ StartClient(t)
    /\ ctl' = "trying"
    /\ tries' = 0
    /\ rc' = -1
    /\ UNCHANGED <<socketVars, dis>>

\* ++i; the mutant does not count.
CountNoAttempt == UNCHANGED tries
CountAttempt == tries' = tries + 1

\* The loop goes on while the last attempt failed and some are left.
Attempt ==
    /\ ctl = "trying"
    /\ rc = -1
    /\ tries < Retries
    /\ CountAttempt
    /\ UNCHANGED <<watchVars, m_name, bound, listens, tmpDir, recv, ctl, dis>>

Listening(c) == c \in Threads /\ proc[c] = "running"

\* The client thread has not set the path yet, or a Disconnect() cleared it.
AttemptWithoutName ==
    /\ Attempt
    /\ ~m_name
    /\ rc' = -1
    /\ UNCHANGED <<m_client_socket, peer>>

\* connect() on a socket that is connected already: EISCONN.
AttemptConnected ==
    /\ Attempt
    /\ m_name
    /\ m_client_socket = "connected"
    /\ rc' = 1
    /\ UNCHANGED <<m_client_socket, peer>>

AttemptSucceeds ==
    /\ Attempt
    /\ m_name
    /\ m_client_socket # "connected"
    /\ Listening(bound)
    /\ rc' = 0
    /\ m_client_socket' = "connected"
    /\ peer' = bound

\* No file at the path, or one that a dead client left.
AttemptFails ==
    /\ Attempt
    /\ m_name
    /\ m_client_socket # "connected"
    /\ ~Listening(bound)
    /\ rc' = -1
    /\ m_client_socket' = "open"
    /\ UNCHANGED peer

\* StopClient as it is called: it tests m_pid_controller itself.
CallStopClient ==
    \/ StopClient
    \/ m_pid_controller = NoThread /\ UNCHANGED watchVars

\* m_pipe is never assigned on Unix, so the test that ends Connect holds
\* whatever the result is, and StopClient is always called.
ConnectReturns ==
    /\ ctl = "trying"
    /\ rc # -1 \/ tries = Retries
    /\ CallStopClient
    /\ ctl' = "out"
    /\ UNCHANGED <<socketVars, tries, rc, dis>>

\* Disconnect() of the page is StopClient(): the socket stays as it is.
StopCall ==
    /\ ctl = "out"
    /\ ~deleted
    /\ CallStopClient
    /\ UNCHANGED <<socketVars, callVars, dis>>

\* send(): what cannot be delivered is lost with a warning.
Write(msg) ==
    LET delivered == /\ m_client_socket = "connected"
                     /\ proc[peer] = "running"
                     /\ Len(recv[peer]) < MaxRead
    IN  recv' = IF delivered THEN [recv EXCEPT ![peer] = Append(@, msg)] ELSE recv

WriteCall(msg) ==
    /\ ctl = "out"
    /\ ~deleted
    /\ Write(msg)
    /\ UNCHANGED <<watchVars, m_client_socket, peer, m_name, bound, listens,
                   tmpDir, callVars, dis>>

\* The first lines of Disconnect(): close, and forget the descriptor.  One
\* mutant does not reset it to -1, the other leaves the socket open.
CloseSocketKept == peer' = NoThread /\ UNCHANGED m_client_socket
CloseSocketNever == UNCHANGED <<m_client_socket, peer>>
CloseSocket ==
    /\ m_client_socket' = "none"
    /\ peer' = NoThread

\* The others: unlink what m_name holds, and clear it, in this order.
UnlinkNameCleared == m_name' = FALSE /\ UNCHANGED bound
UnlinkName ==
    /\ bound' = IF m_name THEN NoThread ELSE bound
    /\ m_name' = FALSE

\* The destructor calls Disconnect(), then removes the directory; rmdir fails
\* when a client has bound its socket there since.
CloseController ==
    /\ ctl = "out"
    /\ ~deleted
    /\ "leave" \in Allowed \/ Live = {}
    /\ ctl' = "dtor"
    /\ CloseSocket
    /\ UnlinkName
    /\ UNCHANGED <<watchVars, listens, tmpDir, recv, tries, rc, dis>>

DeleteController ==
    /\ ctl = "dtor"
    /\ Delete
    /\ tmpDir' = (tmpDir /\ bound # NoThread)
    /\ UNCHANGED <<m_client_socket, peer, m_name, bound, listens, recv, callVars,
                   dis>>

-----------------------------------------------------------------------------
(* The client thread.                                                      *)

SetName(t) ==
    /\ SetupControllerPipe(t)
    /\ m_name' = TRUE
    /\ UNCHANGED <<m_client_socket, peer, bound, listens, tmpDir, recv, callVars,
                   dis>>

\* Disconnect() as OnSpiceClientExit calls it, in the client's thread; not at
\* all under SPICE_XPI_DEBUG.
ExitCloses(t) ==
    /\ pc[t] = "exit"
    /\ ~deleted
    /\ "debug" \notin Allowed
    /\ dis[t] = "no"
    /\ dis' = [dis EXCEPT ![t] = "closed"]
    /\ CloseSocket
    /\ UNCHANGED <<watchVars, m_name, bound, listens, tmpDir, recv, callVars>>

ExitUnlinks(t) ==
    /\ pc[t] = "exit"
    /\ ~deleted
    /\ dis[t] = "closed"
    /\ dis' = [dis EXCEPT ![t] = "yes"]
    /\ UnlinkName
    /\ UNCHANGED <<watchVars, m_client_socket, peer, listens, tmpDir, recv,
                   callVars>>

\* A mutant: the callback leaves the loop by itself.
ExitReturnsOutside(t) ==
    /\ ~deleted
    /\ dis[t] = "yes"
    /\ Goes(t, "exit", "unref")
    /\ UNCHANGED <<clientVars, fieldVars, loopVars, handles, endVars, socketVars,
                   callVars, dis>>

ExitReturns(t) ==
    /\ dis[t] = IF "debug" \in Allowed THEN "no" ELSE "yes"
    /\ ExitHandled(t)
    /\ UNCHANGED <<socketVars, callVars, dis>>

\* The statements that touch neither the path nor the socket.
WatchStep(t) ==
    /\ \/ Spawn(t)
       \/ SpawnFails(t)
       \/ SetPid(t)
       \/ WatchChild(t)
       \/ RunLoop(t)
       \/ ChildExited(t)
       \/ LeaveLoop(t)
       \/ UnrefLoop(t)
       \/ ClosePid(t)
       \/ UseAfterDelete(t)
       \/ UseFreedLoop(t)
    /\ UNCHANGED <<socketVars, callVars, dis>>

-----------------------------------------------------------------------------
(* The client process.                                                     *)

\* A client replaces the file it finds at the path with its own socket.
Bind(c) ==
    /\ proc[c] = "running"
    /\ c \notin listens
    /\ tmpDir
    /\ bound' = c
    /\ listens' = listens \cup {c}
    /\ UNCHANGED <<watchVars, m_client_socket, peer, m_name, tmpDir, recv,
                   callVars, dis>>

\* The file of its socket outlives the client.
Exit(c) ==
    /\ ctl # "trying" \/ "early_exit" \in Allowed
    /\ ClientExit(c)
    /\ UNCHANGED <<socketVars, callVars, dis>>

ReapClient(c) ==
    /\ Reap(c)
    /\ UNCHANGED <<socketVars, callVars, dis>>

-----------------------------------------------------------------------------
UnixThreadStep(t) ==
    \/ SetName(t)
    \/ WatchStep(t)
    \/ ExitCloses(t)
    \/ ExitUnlinks(t)
    \/ ExitReturns(t)

\* What the main thread does by itself once connect() or delete has begun.
MainStep ==
    \/ AttemptWithoutName
    \/ AttemptConnected
    \/ AttemptSucceeds
    \/ AttemptFails
    \/ ConnectReturns
    \/ DeleteController

UnixGone == Gone /\ UNCHANGED unixVars

UnixNext ==
    /\ fault = "none"
    /\ \/ \E t \in Threads : Connect(t) \/ UnixThreadStep(t)
       \/ MainStep
       \/ StopCall
       \/ CloseController
       \/ \E msg \in Messages : WriteCall(msg)
       \/ \E c \in Threads : Bind(c) \/ Exit(c) \/ ReapClient(c)
       \/ UnixGone

UnixSpec == UnixInit /\ [][UnixNext]_unixVars

\* The scheduler runs every thread, SIGCHLD is handled, and a client that was
\* sent SIGTERM dies of it; nothing makes a client exit by itself.
UnixFairness ==
    /\ WF_unixVars(fault = "none" /\ MainStep)
    /\ \A t \in Threads :
        /\ WF_unixVars(fault = "none" /\ UnixThreadStep(t))
        /\ WF_unixVars(fault = "none" /\ ReapClient(t))
        /\ WF_unixVars(fault = "none" /\ t \in term /\ Exit(t))

UnixFairSpec == UnixSpec /\ UnixFairness

-----------------------------------------------------------------------------
\* The type of the variables this module adds; a socket has a peer exactly
\* when it is connected.
UnixTypeOK ==
    /\ m_name \in BOOLEAN
    /\ m_client_socket \in {"none", "open", "connected"}
    /\ peer \in Threads \cup {NoThread}
    /\ peer # NoThread <=> m_client_socket = "connected"
    /\ bound \in Threads \cup {NoThread}
    /\ listens \subseteq Threads
    /\ tmpDir \in BOOLEAN
    /\ recv \in [Threads -> Seq(Messages)]
    /\ ctl \in {"out", "trying", "dtor"}
    /\ tries \in 0..Retries
    /\ rc \in {-1, 0, 1}
    /\ dis \in [Threads -> {"no", "closed", "yes"}]

\* Deleting the controller leaves nothing in /tmp: the path was still known, or
\* had been unlinked, when the destructor ran (controller-unix.cpp:73-80, 165-174).
TmpDirRemoved == Patient /\ Stays => (deleted => ~tmpDir)

\* The socket does not outlive the session: a connected socket belongs to a
\* client whose exit has not been handled yet.
SocketOfLiveClient ==
    Patient /\ "debug" \notin Allowed =>
        \A t \in Threads :
            m_client_socket = "connected" /\ peer = t =>
                /\ pc[t] \in {"set_pid", "watch", "run", "watching", "exit"}
                /\ proc[t] = "reported" => pc[t] = "exit"

\* A connect() that the page makes in its turn never finds the socket of an
\* earlier session still connected (controller.cpp:97, EISCONN).
NeverIsConnected == Patient /\ "debug" \notin Allowed => rc # 1

\* The message beside the call says "failed to create pipe" (controller.cpp:110):
\* Connect stops the client only when it could not connect to it.
StopsOnlyOnFailure == [][ctl = "trying" /\ term' # term => rc # 0]_unixVars
=============================================================================

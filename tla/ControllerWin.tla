---------------------------- MODULE ControllerWin ----------------------------
(***************************************************************************)
(* The controller on Windows (controller-win.cpp) under the retry loop it  *)
(* inherits (SpiceController::Connect, controller.cpp): a named pipe with  *)
(* a new random name for each client, handed over in the environment that  *)
(* the client's thread prepares, while the main thread tries to connect.   *)
(*                                                                         *)
(* Nothing ends a session on this side: the pid is only kept on Unix, so   *)
(* that StopClient() does nothing, and Disconnect() is the empty one of    *)
(* the base class.  m_pipe keeps the stream of the last client for ever,   *)
(* and the page may call connect() again while earlier clients, or their   *)
(* threads, are still there: all of them share m_name and m_proxy.         *)
(***************************************************************************)
EXTENDS Environ

CONSTANTS
    Sessions,   \* the sessions in order, 1 .. n; a pipe's name is its session
    Retries,    \* attempts that one call of Connect makes (the plugin asks for 10)
    Proxies,    \* the proxies a page may set
    Inherited,  \* the environment of the browser
    Variables   \* the names of its variables

ASSUME WinAssumption ==
    /\ IsFiniteSet(Sessions) /\ Sessions = 1 .. Cardinality(Sessions)
    /\ Retries \in Nat \ {0}
    /\ NotSet \notin Proxies
    /\ Inherited \in Seq({Inherited[i] : i \in DOMAIN Inherited})
    /\ \A v \in Variables :
        v \in Seq({v[i] : i \in DOMAIN v}) /\ \A i \in DOMAIN v : v[i] # "="

\* The variables that are set for the client.
NamedPipe == <<"SPICE", "XPI", "NAMEDPIPE">>
ProxyVariable == <<"SPICE", "PROXY">>

VARIABLES
    session,    \* the last session begun, 0 before the first
    m_name,     \* the session whose pipe m_name names, 0 when it is empty
    m_proxy,    \* what the page set, NotSet when it is empty
    m_pipe,     \* the session whose pipe the stream m_pipe writes to, 0 for NULL
    call,       \* the main thread: "out" of Connect, "trying", "tried", "checked" or "aborted"
    tries,      \* attempts made by the loop
    rc,         \* the result of the last attempt, of Connect once it is "out": 0 or -1
    thread,     \* per session: "none", "named" its pipe, "ready" to spawn, "watching" or "ended"
    env,        \* per session: the environment of its client
    client,     \* per session: "none", "running", "listening", "taken" or "exited"
    owner,      \* per session: the user that owns the client's pipe
    settled,    \* history: whether AllSettled when the last connect() was called
    offered,    \* history, per session: the values of m_proxy from its connect()
                \* until its thread read one
    written     \* history: the sessions whose pipes the plugin has written to

threadVars == <<thread, env, client, owner>>
callVars == <<call, tries, rc>>
vars == <<session, m_name, m_proxy, m_pipe, callVars, threadVars, settled, offered, written>>

Init ==
    /\ session = 0 /\ m_name = 0 /\ m_proxy = NotSet /\ m_pipe = 0
    /\ call = "out" /\ tries = 0 /\ rc = -1
    /\ thread = [s \in Sessions |-> "none"] /\ env = [s \in Sessions |-> <<>>]
    /\ client = [s \in Sessions |-> "none"] /\ owner = [s \in Sessions |-> "user"]
    /\ settled = TRUE /\ offered = [s \in Sessions |-> {}] /\ written = {}

-----------------------------------------------------------------------------
(* The main thread *)

SetProxy(proxy) ==
    /\ call = "out"
    /\ m_proxy' = proxy
    /\ offered' = [s \in Sessions |->
            IF thread[s] \in {"started", "named"} THEN offered[s] \cup {proxy} ELSE offered[s]]
    /\ UNCHANGED <<session, m_name, m_pipe, callVars, threadVars, settled, written>>

\* Nobody will open the pipe of s any more: its client was connected to or is
\* gone, or there will be none.
IsSettled(s) == thread[s] = "ended" \/ client[s] \in {"taken", "exited"}
AllSettled == \A s \in 1 .. session : IsSettled(s)

\* StartClient() and Connect(Retries), whatever became of the earlier clients.
Connect ==
    /\ call = "out" /\ session + 1 \in Sessions
    /\ session' = session + 1
    /\ thread' = [thread EXCEPT ![session + 1] = "started"]
    /\ call' = "trying" /\ tries' = 0 /\ rc' = -1
    /\ settled' = AllSettled
    /\ offered' = [offered EXCEPT ![session + 1] = {m_proxy}]
    /\ UNCHANGED <<m_name, m_proxy, m_pipe, env, client, owner, written>>

\* CreateFile() takes the only instance of a pipe that a client serves.
CanOpen == m_name \in Sessions /\ client[m_name] = "listening"

\* The stream that a connection leaves in m_pipe (first a mutant that keeps the
\* one that is there).
NewStreamOnce == IF m_pipe = 0 THEN m_name ELSE m_pipe
NewStream == m_name

\* Whether the loop goes on (first a mutant that is off by one).
MoreTriesOne == rc # 0 /\ tries <= Retries
MoreTries == rc # 0 /\ tries < Retries

\* One call of SpiceControllerWin::Connect().
Attempt ==
    /\ call = "trying" /\ MoreTries
    /\ tries' = tries + 1
    /\ IF CanOpen
       THEN rc' = 0 /\ m_pipe' = NewStream /\ client' = [client EXCEPT ![m_name] = "taken"]
       ELSE rc' = -1 /\ UNCHANGED <<m_pipe, client>>
    /\ UNCHANGED <<session, m_name, m_proxy, call, thread, env, owner, settled, offered, written>>

\* The end of the loop; g_assert() ends the browser when the connection failed
\* and there is an old stream.
EndTries ==
    /\ call = "trying" /\ ~MoreTries
    /\ call' = IF rc # 0 /\ m_pipe # 0 THEN "aborted" ELSE "tried"
    /\ UNCHANGED <<session, m_name, m_proxy, m_pipe, tries, rc, threadVars, settled, offered, written>>

\* is_same_user(); its failures and those of get_sid() answer no (first a
\* mutant that does not look).
IsSameUserAlways(s) == s \in Sessions
IsSameUser(s) == owner[s] = "user"

\* CheckPipe() and the rest of Connect: without a stream it answers an error.
CheckPipe ==
    /\ call = "tried"
    /\ m_pipe' = IF m_pipe # 0 /\ ~IsSameUser(m_pipe) THEN 0 ELSE m_pipe
    /\ rc' = IF m_pipe' = 0 THEN -1 ELSE rc
    /\ call' = IF rc' = 0 THEN "checked" ELSE "out"
    /\ UNCHANGED <<session, m_name, m_proxy, tries, threadVars, settled, offered, written>>

\* Write(), which does nothing without a stream.
Written == IF m_pipe = 0 THEN written ELSE written \cup {m_pipe}

\* The plugin sends its messages; connect() returns.
SendMessages ==
    /\ call = "checked"
    /\ written' = Written /\ call' = "out"
    /\ UNCHANGED <<session, m_name, m_proxy, m_pipe, tries, rc, threadVars, settled, offered>>

Show ==
    /\ call = "out"
    /\ written' = Written
    /\ UNCHANGED <<session, m_name, m_proxy, m_pipe, callVars, threadVars, settled, offered>>

-----------------------------------------------------------------------------
(* The thread of a client *)

InThread(s) == UNCHANGED <<session, m_proxy, m_pipe, callVars, settled, offered, written>>

\* g_get_environ() and SetupControllerPipe().
SetupControllerPipe(s) ==
    /\ thread[s] = "started"
    /\ thread' = [thread EXCEPT ![s] = "named"]
    /\ m_name' = s
    /\ env' = [env EXCEPT ![s] = g_environ_setenv(Inherited, NamedPipe, s)]
    /\ UNCHANGED <<client, owner>> /\ InThread(s)

\* The thread reads the proxy of the plugin (first a mutant that does not).
SetupProxyNever(s) ==
    /\ thread[s] = "named"
    /\ thread' = [thread EXCEPT ![s] = "ready"]
    /\ UNCHANGED <<m_name, env, client, owner>> /\ InThread(s)
SetupProxy(s) ==
    /\ thread[s] = "named"
    /\ thread' = [thread EXCEPT ![s] = "ready"]
    /\ env' = IF m_proxy = NotSet THEN env
              ELSE [env EXCEPT ![s] = g_environ_setenv(env[s], ProxyVariable, m_proxy)]
    /\ UNCHANGED <<m_name, client, owner>> /\ InThread(s)

\* The preferred client or the fallback runs, by itself or as another user.
Spawn(s, user) ==
    /\ thread[s] = "ready"
    /\ thread' = [thread EXCEPT ![s] = "watching"]
    /\ client' = [client EXCEPT ![s] = "running"]
    /\ owner' = [owner EXCEPT ![s] = user]
    /\ UNCHANGED <<m_name, env>> /\ InThread(s)

\* No registry key, or no client where it leads, and none beside the plugin.
SpawnFails(s) ==
    /\ thread[s] = "ready"
    /\ thread' = [thread EXCEPT ![s] = "ended"]
    /\ UNCHANGED <<m_name, env, client, owner>> /\ InThread(s)

\* ChildExited(): the page is told, the stream stays.
ChildExited(s) ==
    /\ thread[s] = "watching" /\ client[s] = "exited"
    /\ thread' = [thread EXCEPT ![s] = "ended"]
    /\ UNCHANGED <<m_name, env, client, owner>> /\ InThread(s)

\* The client: it creates its pipe, and exits when it likes.
ClientListens(s) ==
    /\ client[s] = "running" /\ client' = [client EXCEPT ![s] = "listening"]
    /\ UNCHANGED <<m_name, thread, env, owner>> /\ InThread(s)

ClientExits(s) ==
    /\ client[s] \in {"running", "listening", "taken"}
    /\ client' = [client EXCEPT ![s] = "exited"]
    /\ UNCHANGED <<m_name, thread, env, owner>> /\ InThread(s)

-----------------------------------------------------------------------------
Main ==
    \/ \E proxy \in Proxies \cup {NotSet} : SetProxy(proxy)
    \/ Connect \/ Attempt \/ EndTries \/ CheckPipe \/ SendMessages \/ Show

Thread(s) ==
    \/ SetupControllerPipe(s) \/ SetupProxy(s)
    \/ \E user \in {"user", "other"} : Spawn(s, user)
    \/ SpawnFails(s) \/ ChildExited(s) \/ ClientListens(s) \/ ClientExits(s)

Aborted == call = "aborted" /\ UNCHANGED vars

Next == (call # "aborted" /\ (Main \/ \E s \in Sessions : Thread(s))) \/ Aborted

Spec == Init /\ [][Next]_vars

-----------------------------------------------------------------------------
(* Properties *)

\* Every variable keeps its type.
WinTypeOK ==
    /\ session \in {0} \cup Sessions /\ m_name \in {0} \cup Sessions
    /\ m_pipe \in {0} \cup Sessions
    /\ m_proxy \in Proxies \cup {NotSet}
    /\ call \in {"out", "trying", "tried", "checked", "aborted"}
    /\ tries \in 0 .. Retries /\ rc \in {0, -1}
    /\ thread \in [Sessions -> {"none", "started", "named", "ready", "watching", "ended"}]
    /\ client \in [Sessions -> {"none", "running", "listening", "taken", "exited"}]
    /\ owner \in [Sessions -> {"user", "other"}]
    /\ settled \in BOOLEAN
    /\ offered \in [Sessions -> SUBSET (Proxies \cup {NotSet})]
    /\ written \subseteq Sessions

\* What a client reads as its proxy when its thread found this one.
ProxySeen(proxy) ==
    IF proxy = NotSet THEN g_environ_getenv(Inherited, ProxyVariable) ELSE proxy

\* When Connect succeeds the stream is that of this session's client, not of an
\* earlier one whose stream was never closed, provided that every earlier client
\* had been connected to or was gone when the page called connect(); otherwise
\* m_name may still name the pipe of one that a timed-out connect() left, since
\* StopClient() does nothing.  In both cases a stream of this session is to a
\* client that has the proxy of this connect(), although its thread read it
\* later and without a lock (controller.cpp:97, 109-115, 167-169, controller-win.cpp:72, 80).
PipeIsOfSession ==
    call = "checked" =>
        /\ settled => m_pipe = session
        /\ m_pipe = session =>
            g_environ_getenv(env[session], ProxyVariable) = ProxySeen(m_proxy)

\* Nothing is ever written to a pipe of another user: not by the connect() that
\* found it, nor by a show() at any time after it (controller-win.cpp:115-134).
OnlyOwnPipes == \A s \in written : owner[s] = "user"

\* A client is given its own pipe, the proxy that the page had when it called
\* connect() or one it set before the client's thread came to read it, the
\* browser's own where the page had none, and every other variable of the
\* browser as it was, whatever threads of other clients run at the same time and
\* whatever the browser was started with (controller.cpp:166-169,
\* glib-compat.c:29-148).
EnvAsSet ==
    \A s \in Sessions : client[s] # "none" =>
        /\ g_environ_getenv(env[s], NamedPipe) = s
        /\ \E proxy \in offered[s] :
            g_environ_getenv(env[s], ProxyVariable) = ProxySeen(proxy)
        /\ \A v \in Variables \ {NamedPipe, ProxyVariable} :
            g_environ_getenv(env[s], v) = g_environ_getenv(Inherited, v)

\* "g_assert(m_pipe == NULL)" (controller.cpp:103): there is no stream after a
\* loop that did not connect.  The code does not have this property.
NoPipeAfterFailure == call # "aborted"
=============================================================================

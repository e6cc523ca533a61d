# spice-xpi: a TLA+ verification project

spice-xpi is an NPAPI browser plugin. A web page sets the properties of a remote
desktop session on a scriptable object and calls `connect()`; the plugin starts
an external SPICE client (`remote-viewer`), connects to it by a Unix socket (a
named pipe on Windows), writes the settings to it, and tells the page with
`OnDisconnected` when the client has exited. The repository also holds a small
generator that makes a test page from the plugin's interface description.

What makes the plugin hard to get right is that one object is worked on by two
kinds of threads with no lock at all: the browser's main thread, in which every
call of the page runs, and one thread per `connect()`, which starts the client,
waits for it in a `GMainLoop` and handles its exit. The two meet in the fields of
the controller and of the plugin, on the socket, and in the file system. The rest
is sequential, and hard for other reasons: it runs in the order that a browser, a
page and other users of the machine choose, and it is joined by hand.

Paths below are relative to `src/SpiceXPI/src/plugin/` unless they say otherwise.

## Inventory

| Part | State | Operations | Hard behaviour | What makes it correct |
|---|---|---|---|---|
| Client threads (`controller.cpp`, `StopClient` of `controller-unix.cpp`) | `m_pid_controller`, `m_child_watch_mainloop`, per thread a loop and a child watch | `StartClient`, `ClientThread`, `WaitForPid`, `ChildExited`, `StopClient`, destructor | threads that overlap share both fields; the destructor joins nothing; a pid stays in the field after it was reaped | no freed loop is used, `disconnect()` has the right pid, each exit is reported, once, and its thread ends |
| Unix controller (`controller-unix.cpp`, `SpiceController::Connect`) | `m_client_socket`, `m_name`, `m_tmp_dir`, the files under it | `Connect` with retries, `Write`, `Disconnect`, `SetupControllerPipe`, constructor, destructor | the client thread sets the path and closes the socket while the main thread is connecting or writing; EISCONN; the file of a dead client's socket | a socket does not outlive its session; nothing stays in `/tmp`; `connect()` returns |
| Windows controller (`controller-win.cpp`), client environment (`glib-compat.c`) | `m_pipe`, `m_name`, `m_proxy`, the environment list | `Connect`, `CheckPipe`, `Write`, `SetupControllerPipe`, `SetProxy`, `g_environ_setenv` | no `Disconnect` of its own, so the stream is never given up; the pipe may be another user's; the client's thread reads the proxy late | the stream is this session's and this user's; each client gets the environment meant for it |
| Plugin session (`plugin.cpp`) | `m_connected_status`, `m_trust_store_file` | `Connect`, `Show`, `Disconnect`, `ConnectedStatus`, `OnSpiceClientExit`, `CallOnDisconnected` | the exit handler runs against `Connect()`; its steps can be interleaved with a later session | the client gets INIT first and everything before CONNECT; the status is true; the page is told once; CA files live as long as their client and no longer |
| Settings (`plugin.cpp` setters, `nsScriptablePeer.cpp` `SetProperty`, `portToInt`, `SetSSLChannels`) | 22 members behind 23 properties, `m_usb_filter` | setters, getters, conversion from `NPVariant`, the messages | truncation of ports, names of channels, three chains of 23 names | what is read back, and what the client is told, is what was set |
| Instance and peer (`npp_gate.cpp`, `nsScriptablePeer*.cpp`, `plugin.cpp`) | `pdata`, `m_initialized`, reference count and `m_plugin` of the peer | `NPP_New`, `NPP_SetWindow`, `NPP_Destroy`, `GetScriptablePeer`, `Invoke`, `SetProperty` | the peer outlives the plugin; windows come and go | the references balance; no call goes to a deleted plugin |
| Entry points (`np_entry.cpp`, `npn_gate.cpp`) | the copy of the browser's function table | `NP_Initialize`, `NP_Shutdown`, the `NPN_` wrappers | tables of older browsers are shorter; the library stays loaded between two of them | no function is called that the browser did not give |
| Generator (`src/generator/`) | scanner state, pushed back tokens, lists of methods and attributes, the redirected streams | `getNextToken`, `parse`, `generate`, `redirect`, `restore`, `main` | comments, characters and tokens put back, many ways out of `main` | what is recorded is what the file says, the page serves it, the streams are given back |
| NPAPI headers, error codes, logging, build glue | none | - | - | the versions of the browser's functions are in NpEntry |

How they interact: the browser calls the entry points, these call the plugin
instance; the page's calls come through the scriptable peer to the plugin in the
main thread; the plugin calls the controller (`StartClient`, `Connect`, `Write`,
`StopClient`); the controller's thread calls back `OnSpiceClientExit` of the
plugin, which calls the page and then `Disconnect` of the controller. Client and
plugin share the socket, the environment and the files in the temporary directory.

## Modules

| Module | EXTENDS | Models | Run by | Proofs |
|---|---|---|---|---|
| `ClientWatch` | | threads, loops, pids | through PluginSession | `ClientWatchProofs` |
| `ControllerUnix` | `ClientWatch` | socket, path, directory | `MCControllerUnix`, and through PluginSession | `ControllerUnixProofs` |
| `PluginSession` | `ControllerUnix` | `connect()`, `show()`, the exit handler | `MCPluginSession` | `PluginSessionProofs` |
| `SessionPromise` | | what a page sees: the abstract specification | as a property of PluginSession | `PluginSessionProofs` |
| `Environ` | | the environment lists | through ControllerWin | `ControllerWinProofs` |
| `ControllerWin` | `Environ` | the pipe, its owner, the client's environment | `MCControllerWin` | `ControllerWinProofs` |
| `ScriptValues` | | a script's values and what becomes of them | through the next two | `ScriptValuesProofs` |
| `PluginInstance` | `ScriptValues` | instance, window, peer, references | `MCPluginInstance` | `PluginInstanceProofs` |
| `NpEntry` | | the browser's table and the wrappers | through PluginSettings | `PluginSettingsProofs` |
| `PluginSettings` | `NpEntry`, `ScriptValues` | all properties, from the table to the message | `MCPluginSettings` | `PluginSettingsProofs` |
| `IdlScanner`, `IdlParser`, `IdlMain` | each the one before | the generator | `MCIdl` | `IdlMainProofs` |

`ClientWatch` <- `ControllerUnix` <- `PluginSession`: each one EXTENDS the one
before and adds its variables to the same actions, so that the composition is the
program's call structure. Each is also shown to implement the one before, by TLC
on small instances (the specification of the one is a PROPERTY of a run of the
other) and by TLAPS for all of them: what is proved of the threads is then true
of the session.

**ClientWatch** has one member `t` of `Threads` for a call of `StartClient`: it
names the thread, its client (the pid) and its `GMainLoop`. `pc[t]` is the next
statement of `ClientThread`/`WaitForPid` that touches shared state:

| `pc` | code | |
|---|---|---|
| `setup` | controller.cpp:166 | `SetupControllerPipe` |
| `spawn` | 191-222 | `g_spawn_async` of the client, then of the fallback |
| `set_pid` | 224-226 | `m_pid_controller = pid` |
| `watch` | 142-145 | `g_main_loop_new` into the field, child watch attached |
| `run` | 147 | the field is read for `g_main_loop_run` |
| `watching` | 147 | in the loop |
| `exit` | 124-133 | in `ChildExited`, after `g_main_loop_quit` of the field's loop |
| `unref` | 149 | the field is read for `g_main_loop_unref` |
| `close` | 152-154 | the pid is cleared, if it is still this thread's |

`proc[c]` is the life of the client and of its exit status: `none`, `running`,
`exited`, `reaped` (GLib's worker has called `waitpid`: the pid is free from here
on) and `reported` (the child watch was dispatched). `refs` and `running` are the
loops' reference counts and `is_running` flags, as GLib uses them. `fault` records
the first use of freed memory, a loop's or the controller's; the behaviour ends
there, because what the code does next is undefined.

**ControllerUnix** adds the socket, the path in `m_name`, the file behind the path
(`bound`: whose socket it is, even when that client is dead), the temporary
directory, and `Connect`'s loop: one action per outcome of an attempt. The steps
of `Disconnect()`, in the client thread, are two: close, then unlink and clear.
`Write` delivers to `peer` or loses the message, as `send()` does. `recv[c]` is the
record of what a client read.

**PluginSession** adds `Connect()` of the plugin, one step per message, in the
order of lines 707-730 (`Script`), the trust store file in three steps (created, its
name stored, and later removed), and `OnSpiceClientExit` in seven, with the point
where the page is told. Settings are abstracted to `Given`, the set of those that
are not empty: `SendValue` and `SendStr` send nothing for the others. Their values are
in PluginSettings.

**SessionPromise** is the abstract specification: a status, the sessions begun and
ended, and how often the page was told of each end. No thread, process or socket
appears in it. `PluginSession!Promise` is its instance under the mapping: a session
has begun when its thread has left `idle`, and has ended when a thread that reports its
client has set the status. `PromiseKept` says that PluginSession implements it,
whatever overlaps.

**ControllerWin** is the other controller. A pipe is named by its session, because the
code draws a new random name each time. The client's thread runs in three steps (the
name, the proxy, the spawn) against the main thread's loop, `CheckPipe` and `Write`; the child
watch is one step, as it is the code of ClientWatch. A page here may call `connect()` whenever
the last one has returned, whatever clients and threads are left of the sessions before.
`written`, `settled` and `offered` are history variables. `settled` says that when the last
`connect()` was called every earlier client had been connected to, or was gone, or would never be:
nobody would open an earlier pipe. Where somebody may, the code can take it for the new one: a
`connect()` that ran out of attempts leaves its client alone (`StopClient` does nothing here), and
`m_name` keeps that client's pipe until the new thread draws a name (controller-win.cpp:72).
`PipeIsOfSession` says so, and what holds all the same. `offered` has the values of `m_proxy` that
a session's thread may come to read: it reads late, when the page may have set another. **Environ** has
the list functions of `glib-compat.c`; a text is a sequence of symbols, so that
`SPICE_PROXY` is a beginning of `SPICE_PROXY_USER` as it is in C.

**ScriptValues** has what a property keeps of a script's value: a text, a boolean, an
`INT32`, or a `DOUBLE`, which is written in halves. A number goes through an `unsigned
short` (nsScriptablePeer.cpp:264-275) before it becomes a text. A `DOUBLE` that does not fit
is undefined behaviour: `InVal` allows what builds do with it.

**PluginInstance** is the instance from `NPP_New` to `NPP_Destroy`, the peer, and the
script variables (`Holders`) that hold references on it. `asked` and `sent` are history
variables: the last value the page gave, and what `connect()` handed on since then. `init()`
never runs (`m_initialized` is true from the constructor on), so the settings survive
every change of the window; `SentAsAsked` depends on it.

**NpEntry** is the table exchange. A function of the copy holds the number of the
`NP_Initialize` that gave it, or 0 for NULL, so that a pointer of an earlier table can be
told from one of this browser. **PluginSettings** composes it with the page: 23 properties and
`SetUsbFilter`, the member behind each, the getters, and every message with what it
carries. It ends at `Messages(m)`; PluginSession has the order in which they are
sent and what becomes of them.

**IdlScanner** reads one character per step, and the file is made up as it is read, so
that every file of the bounded length is covered; a word is one character. `TypeWords`
has one word of each kind that the parser and the generator tell apart: `float` stands for `double` and
`string` for `wstring`, `char`, `wchar` and `void`, which go the same ways in `parseType` and in
`generateConnectVarsParse`. `Alphabet` is the characters of each part of the file. **IdlParser** is
the recursive descent as a set of moves per function; **IdlMain** has the options, the streams
and the page: what the script assigns, the elements with their ids and kinds, and the buttons. The
generator joins its ids of names with nothing between them (generator.cpp:177-205), so an id is a
sequence of parts and `Spelling` says of which parts a name is: two elements may have the same id,
and the script finds the first. `TrustStores` are the names that the generator gives a text area
(generator.cpp:252), whatever their type. What the file says (`RecordedAsWritten`) is read from its text by definitions
that know neither tokens nor look-ahead.

### What the page and the system may do: `Allowed`

`Allowed` is a constant of the Unix modules: which of `Liberties` this instance's
environment takes. Properties that need the environment not to take one say so in their
antecedent.

* `overlap`: the page connects while an earlier client thread lives. Nothing in the
  code prevents it, and a page cannot avoid it with certainty: the last thing it
  sees of a session is `OnDisconnected`, which is called in `OnSpiceClientExit`
  *before* the socket is closed, the CA file removed, the loop left and the pid
  cleared (plugin.cpp:821-825, controller.cpp:149-154). `Patient` is the absence of
  it: what a page that waits long enough can rely on.
* `leave`: the browser destroys the instance while a client thread lives (`Stays` is
  its absence). The destructor joins nothing.
* `leader`: the client leads a process group, so that `kill(-pid)` reaches it.
* `spawn_fails`, `early_exit` (a client exits while the main thread is in
  `connect()`), `tmp_fails` (the trust store file cannot be made), `debug`
  (`SPICE_XPI_DEBUG` is set).

These antecedents are needed. Under `overlap`, TLC finds counterexamples to
`NoFreedLoop`, `DisconnectReaches`, `CompleteBeforeConnect`, `CaFileStays`,
`TrustFilesRemoved` and the second half of `ToldOnce`; `StatusTruth` fails under
`early_exit`; `InitFirst` fails only under `tmp_fails`; `TrustFilesRemoved` also fails
under `early_exit` and under `tmp_fails`. They are what the code exposes its users to,
and are listed under "hazards" in PROJECT.json.

## Runs

| Run | Instance | What it shows |
|---|---|---|
| `session_patient` | 2 threads one after the other, 2 attempts, `spawn_fails`, `leader`; deadlock checked | types; no freed loop; `disconnect()` has somebody to signal; no client is forgotten; no trust store file stays; the status is that of the exit when the page is told; liveness: every exit is reported and told, and a stopped session is cleaned up; refinement of `ControllerUnix` and `ClientWatch` |
| `session_early` | 2 threads, 1 attempt, `early_exit`, `tmp_fails`; deadlock checked | a client told to connect has its settings and its CA file; the socket and the directory do not outlive the session; `connect()` always returns (liveness) |
| `session_overlap` | 2 threads, 1 attempt, `overlap`, `leave`, symmetric | the status, INIT first, at most one call of the page per exit, a watcher for each pid, no client forgotten once all threads have ended, whatever overlaps; refinement of `SessionPromise` |
| `unix_stop` (violation) | 1 thread, `leader` | `StopsOnlyOnFailure`: finding 1 |
| `instance_life` | 2 script variables, 4 numbers; deadlock checked | the peer lives as long as it can be used; `connect()` works with the ports and the flag that were asked for |
| `instance_port` (violation) | 1 script variable | `PortsAreValidated`: finding 2 |
| `instance_deleted` (violation) | 1 script variable | `PeerForgetsPlugin`: finding 3 |
| `settings` | 2 loads, 3 versions of browsers, 2 writes; deadlock checked | the function table is the last browser's; no NULL is called; each property reads back and each message carries its own property |
| `win` | 2 sessions that may overlap, 2 attempts, 2 proxies, an environment with a proxy's user, a pipe and a proxy; deadlock checked | the stream is never another user's, and that of the session's client if the earlier ones were settled; each client has its pipe, a proxy that it was offered, and the other variables |
| `win_assert` (violation) | the same with 1 proxy | `NoPipeAfterFailure`: finding 4 |
| `idl` | files with up to 8 words and signs between braces, a trust store and a name that collides with its checkbox | what is recorded is what is declared, the page serves it, the streams are given back on each way out of `main` |
| `idl_buttons` (violation) | up to 5 words and signs | `ButtonsCall`: finding 5 |

Bounds.

* *Sessions.* Two threads are a session and the next one, or two that overlap. Attempts
  differ only in their number (one is enough to fail and to succeed, two to fail and
  then succeed). `MaxRead` cuts the record of one client, not what is sent: 8 or 9 keep
  every message up to CONNECT and a SHOW of the page when one setting is given, and `Given`
  has one setting because every setting is handled alike.
* *Numbers.* A port, the number 2^16 above it, zero and -1: one for each answer of
  `portToInt`. The settings run has the first two.
* *Settings.* `Minors` 7, 11 and 14 lie on each side of what the versions bring and of
  what the plugin uses; two loads are an older browser after a newer one and the
  other way; two writes are two properties, or one twice.
* *Windows.* Two sessions are a stream and the stream that replaces it, or a client left behind and
  the one whose `connect()` opens its pipe. The five variables are the two that are set, one that is the
  beginning of both, one that begins like one of them, and another.
* *Generator.* `MaxText` 8 is two attributes, an attribute of a type of three words, two
  names of one type, or a method with a parameter that has a direction. Only characters
  outside of comments and inside braces count, so includes, comments, blanks and
  the parameters of an interface need no bound: the states they lead to are finitely many.
  `MCAlphabet` leaves out, in each part, words
  and signs that the parser refuses there like those it has, and in comments characters that the
  scanner passes over; the theorems have any alphabet. Two names are enough for ids that
  collide: a checkbox and the control beside it. The command line is one with both files, either of which may not open, and every one that
  parses nothing; the theorem on the streams is for all of them.

All of these are constants; the proofs have none of them.

`CHECK_DEADLOCK FALSE` is in `session_overlap`, where the system really stops, when a
client thread is left in a loop that nobody will quit, or at a fault, and in the two
`idl` runs, whose program ends. In the others the only terminal states are explicit
(`Gone`, `Stopped`, `Aborted`).

Fairness is stated for PluginSession and ControllerUnix. Weak fairness of each client thread
and of the main thread once it is in `connect()` or a destructor (an operating system runs
its threads), of GLib's worker (SIGCHLD is handled), and of the exit of a client that
SIGTERM was delivered to. None of a client's exit by itself, of a client's bind, or of any call
of the page: these may never come. The other modules state safety only: they are driven by the
page and by the browser.

## Findings

1. `SpiceController::Connect` decides whether it failed by `m_pipe == NULL`
   (controller.cpp:109), prints "failed to create pipe" and stops the client. On Unix
   `m_pipe` is never assigned: the branch is always taken. `unix_stop` shows a connect()
   that succeeded and then sent SIGTERM to the client it had just reached. It is harmless
   exactly when the client does not lead a process group, which is also when
   `disconnect()` does nothing.
2. `SetProperty` puts a number into an `unsigned short` before `portToInt`, whose comment
   promises validation, sees it: 71436 is used as port 5900 (`instance_port`).
3. The comment in the plugin's destructor (plugin.cpp:252-255) says that the peer's
   `m_plugin` should be zeroed. It is not, so that the tests of `m_plugin` in the peer
   can never fail (`instance_deleted`).
4. On Windows nothing gives up `m_pipe` when a session ends. A second `connect()` whose
   client does not serve its pipe in time meets `g_assert(m_pipe == NULL)`
   (controller.cpp:103), which ends the browser (`win_assert`).
5. The test page's button for `SetLanguageStrings` calls a function of that name; the script
   defines `setLanguageStrings` (src/generator/generator.cpp:115, 216-220; `idl_buttons`).

## Proofs

All theorems are for any set of threads or sessions, any number of attempts, any messages,
settings, numbers, versions, holders, proxies and inherited environment, and any `Allowed`. The
assumptions are the named ones of the modules (`ConstAssumption`, `UnixAssumption`,
`SessionAssumption`, `NumbersAssumption`, `InstanceAssumption`, `EntryAssumption`,
`SettingsAssumption`, `WinAssumption`, `ScannerAssumption`, `AlphabetAssumption`, `NamesAssumption`,
`InvocationsAssumption`, `SpellingAssumption`), which TLC
evaluates. `NamesAssumption` says that a name of an interface is no keyword, which would be read as
such, and no sign; `SpellingAssumption`, that two names are not spelled alike. Each argument is an invariant that is inductive, one lemma for the initial states
and one for a step, with a case per action.

* **ClientWatch.** `TypeInv` adds to the types what relates `pc` to `proc` and to the
  field; `ReportInv` says that a handled client has had its status taken, and that
  two threads that run one loop do not both handle it. `PidHasWatcher` is inductive by itself:
  a pid is stored by the thread that will clear it, and only that thread's test matches.
  `SoloInv` is for patient pages: at most one thread is live, it finds its own loop in the
  field with the references it counts on, and past its loop its client is reported. From it:
  `NoFreedLoop`, `DisconnectReaches`, `NotAbandoned`.
  `NobodyForgotten` needs no patience. `CountInv` counts the references to all loops: as many
  as there are threads that have taken one and not yet given one back, whichever loop they give it
  back to. A thread which leaves its loop by another's, before its own client was reported, has
  lost its loop for ever: nobody will drop its reference (`Leaked`), so that there are never
  enough of them for all the others to end without a fault. `CalmInv`: short of a
  fault, nothing is lost or something is lost for ever; `FaultInv`: a fault leaves a thread where it
  happened. Hence, when no thread is left, each client was reported by its own thread.
* **ControllerUnix** implements ClientWatch step by step (`UnixNextWatch`), so the
  invariants above carry over. `SocketInv`: Disconnect() is called only for a reported
  client, the peer of a connected socket is one that nobody called it for, and an
  attempt that failed leaves the socket unconnected; hence `SocketOfLiveClient` and
  `NeverIsConnected`. `TmpInv`: the path is known while anybody may bind it; hence
  `TmpDirRemoved`.
* **PluginSession.** `PhaseInv` ties the plugin's place to the controller's, which is what
  makes each send a legal `WriteCall`; with it the session implements ControllerUnix.
  - `InitInv` says where the main thread must be while a connected, running client has read
    nothing: between the attempt that reached it and the first send, so that `show()` cannot
    come before INIT, however sessions overlap (`InitFirst`).
  - `CurInv` and `FileInv`: one session at a time leaves only the last thread alive, the
    handler which removes a file runs when no client does, and only a client with its
    file is written to (`CaFileStays`).
  - `HandlerInv`, `ToldInv`: a thread past the start of its handler has an exit to
    report, and the calls of the page for a client are those of the one thread that
    handles it (`ToldOnce`, for any overlap).
  - With `BegunInv` (the main thread is in `connect()` only for a session that has begun)
    these also give the step simulation of `SessionPromise` (`PromiseKept`, for any overlap).
  - `EndInv`: while a file exists, the last client's thread is before the step that removes it
    (`TrustFilesRemoved`), one session at a time, with clients that wait for `connect()`. `TellingInv`:
    a thread that is about to tell the page has set the status, and the main thread, which sets it
    when no thread is left or while the client runs, does not come between (`ToldAfterStatus`).
  - `StatusInv`: where the main thread is about to say "connected", some client runs; and while
    `connectedStatus` says it, some thread has still to set it, unless a loop is lost, when
    (`CalmInv`) not all threads end. Hence `StatusTruth`, for any overlap of sessions, with clients
    that wait for `connect()`.
  - `SendInv`: the socket that `connect()` writes to is that of its own client, which has read
    everything needed of the part of the script that is done, or has exited
    (`CompleteBeforeConnect`, one session at a time, whenever clients exit and whatever fails).
* **ControllerWin.** `ClientInv` and `OrderInv` relate a session's thread, client and place
  in the order of sessions to the main thread, and keep settled what was; `StreamInv`: once an attempt
  has succeeded there is a stream, of the current session if the earlier ones were settled; `OwnerInv`:
  what was written to passed the check. `EnvInv` gives each client's environment outright, up to which of the
  proxies it was offered its thread read (one only, while `connect()` runs), by
  lemmas on `g_environ_setenv` over lists of any length: the variable set is found, every
  `Independent` one keeps its value. Hence `PipeIsOfSession`, `OnlyOwnPipes`, `EnvAsSet`.
* **ScriptValues, PluginInstance, PluginSettings.** Lemmas say what a conversion
  gives and what is read back from it. `RefInv`: the count is the number of holders plus one
  for the plugin (`PeerLife`). `AskedInv`, `HandedInv`: a setting is what the conversion of
  the last value may give, and `sent` is made of the settings (`SentAsAsked`). `EntryInv`:
  the copy has exactly this browser's functions (`TableIsCurrent`); `LivesInv`: a peer exists
  only where scripts do (`NoBadCall`); `KeptInv`: every member holds what its own property was given
  (`ReadBack`, `EndToEnd`).
* **IdlMain.** `ReadInv` puts the scanner and the parser together, over the sequence `w` of the
  tokens that the parser has taken for good between braces. `Holds(w)`: the text of the file is
  `w` and what the scanner has read ahead, at most a token (or the word that will be one, or
  one pushed back) and a character put back. `ScanInv`: the scanner is in a comment
  exactly when the file is, and counts its braces. `ParserInv(w)`: where the parser is agrees
  with how the last item of `w` goes, and the lists it has made, with the method it is in,
  describe the names of `w` in their order. None is inductive alone, and a file with a lexical
  error is an exception (`Doomed`): it is refused one token later. One token more is one lemma per
  kind of token (`SignTaken`, `TakeAttributeName`, `TakeMethodName`, `TakeParameterName`,
  `TakeNothing` for what is pushed back). When the file is accepted `w` is its text, and the
  definitions that read it choose what `ParserInv` names (`RecordedAsWritten`). `PageInv`: there is a
  page only of what an accepted file has recorded, and only for success. What the script finds of an
  attribute is then its own row, where no other attribute takes its ids (`HasOwnIds`): the id of a checkbox
  tells whose row it is (`ToggledTells`), and the rows of attributes come before those of parameters
  (`PageServesFile`).
  `HelperInv`: for each stream, the buffer in use or the one remembered is its
  own (`StreamsRestored`). All three are for any text, names and options.

Only model-checked: liveness (`StoppedSessionEnds`, `ExitIsReported`, `EndIsTold`,
`ConnectGivesBack`), which is out of the prover's reach, and the five runs that refute
what a text says. Every safety property of a passing run is a theorem.

## Not modelled, and why

* Torn reads of `std::string` members shared by two threads: undefined at a level below
  the model. The socket descriptor being reused by another open file after a close.
* The exit status is a value of its own for the page and for `connectedStatus`: `OnDisconnected`
  gets the raw wait status (plugin.cpp:821), `connectedStatus` what `TranslateRC` makes of it.
* Which program is executed and with which arguments; the wording of messages and logs.
* `OnSpiceClientExit`'s calls into the page (`window`, `eval`) are one step; the references
  that `CallOnDisconnected` leaves behind (plugin.cpp:779) are the browser's.
* `EINTR`, or a `send()` that writes less than asked: `Write` logs and goes on.
* A `NPN_MemAlloc` that fails in a getter (nsScriptablePeer.cpp:194).
* `SetLanguageStrings`: nothing reads its table. The stream, print and event entry points,
  which change nothing; `NP_GetValue` and the MIME description, which are constants; the entry points for
  the Macintosh, which the build never takes; `g_get_environ`.
* Of the generator: the layout and the defaults of the page, line numbers of errors, two
  sequences of characters no text of the repository explains (`/*/`, and a `/` that begins no
  comment), the same file as input and output, and write errors of the output (main.cpp:43).
* The NPAPI headers are third-party declarations; of them NpEntry has the functions and
  the versions that brought them.

## How to run

`tlc -config MCPluginSession_patient.cfg MCPluginSession` checks a run, `tlapm
PluginSessionProofs.tla` a module of proofs; PROJECT.json names the module, the configuration and the
properties of every run, the lines of the source behind every definition, and for every
property a change of the code that breaks it. Such mutants are the operators beside the definition they
would replace.

## What could come next

`debug` and `overlap` together with `spawn_fails` in runs
with three threads.

----------------------------- MODULE ClientWatch -----------------------------
(***************************************************************************)
(* The threads of SpiceController that launch the external SPICE client    *)
(* and wait for it to exit (controller.cpp), and StopClient, by which the  *)
(* browser's main thread signals the client (controller-unix.cpp).         *)
(*                                                                         *)
(* One call of StartClient creates one thread, which spawns one client and *)
(* creates one GMainLoop: a member t of Threads stands for the thread, for *)
(* its client (the pid) and for its loop.  The fields m_pid_controller and *)
(* m_child_watch_mainloop belong to the controller, and are shared by      *)
(* every thread started on it and by the main thread, with no lock.        *)
(***************************************************************************)
EXTENDS Naturals

CONSTANTS
    Threads,    \* the client threads that may ever be started on this controller
    NoThread,   \* the value of a field that names none of them
    Allowed     \* what the page and the system may do, out of Liberties

Liberties == {
    "overlap",      \* the page connects while an earlier client thread lives
    "leave",        \* the browser destroys the instance while one lives
    "leader",       \* the client leads a process group of its own
    "spawn_fails",  \* neither the client nor the fallback can be executed
    "early_exit",   \* a client exits while the main thread is in connect()
    "tmp_fails",    \* no temporary file can be made for the trust store
    "debug"}        \* SPICE_XPI_DEBUG is set in the environment

ASSUME ConstAssumption ==
    /\ NoThread \notin Threads
    /\ Allowed \subseteq Liberties

VARIABLES
    pc,         \* per thread: the next statement of ClientThread or WaitForPid
    proc,       \* per client: the life of the process and of its exit status
    term,       \* the clients SIGTERM was delivered to
    m_pid_controller,
    m_child_watch_mainloop,
    runs,       \* per thread: the loop that g_main_loop_run was called on
    refs,       \* per loop: its reference count
    running,    \* the loops whose is_running flag is set
    handles,    \* per thread: the client whose exit it has reported
    deleted,    \* the controller has been deleted
    fault       \* the first use of freed memory: the end of the behaviour

clientVars == <<proc, term>>
fieldVars == <<m_pid_controller, m_child_watch_mainloop>>
loopVars == <<runs, refs, running>>
endVars == <<deleted, fault>>
watchVars == <<pc, clientVars, fieldVars, loopVars, handles, endVars>>

Live == {t \in Threads : pc[t] \notin {"idle", "done"}}

\* Where the next statement of the thread reads or writes the controller.
InController ==
    {"setup", "spawn", "set_pid", "watch", "run", "exit", "unref", "close"}

WatchInit ==
    /\ pc = [t \in Threads |-> "idle"]
    /\ proc = [t \in Threads |-> "none"]
    /\ term = {}
    /\ m_pid_controller = NoThread
    /\ m_child_watch_mainloop = NoThread
    /\ runs = [t \in Threads |-> NoThread]
    /\ refs = [t \in Threads |-> 0]
    /\ running = {}
    /\ handles = [t \in Threads |-> NoThread]
    /\ deleted = FALSE
    /\ fault = "none"

-----------------------------------------------------------------------------
(* The main thread.                                                        *)

\* Nothing in the code waits for an earlier thread: it is up to the page.
StartClient(t) ==
    /\ ~deleted
    /\ "overlap" \in Allowed \/ Live = {}
    /\ pc[t] = "idle"
    /\ pc' = [pc EXCEPT ![t] = "setup"]
    /\ UNCHANGED <<clientVars, fieldVars, loopVars, handles, endVars>>

\* m_pid_controller > 0; a mutant leaves the test out, and kill(-0) goes to
\* the browser's own process group.
HasPidUntested == TRUE
HasPid == m_pid_controller # NoThread

\* kill(-m_pid_controller, SIGTERM): a process group, not a process.
StopClient ==
    /\ ~deleted
    /\ HasPid
    /\ term' = IF "leader" \in Allowed THEN term \cup {m_pid_controller} ELSE term
    /\ UNCHANGED <<pc, proc, fieldVars, loopVars, handles, endVars>>

\* The destructor neither stops the client nor joins the thread.
Delete ==
    /\ ~deleted
    /\ "leave" \in Allowed \/ Live = {}
    /\ deleted' = TRUE
    /\ UNCHANGED <<pc, clientVars, fieldVars, loopVars, handles, fault>>

-----------------------------------------------------------------------------
(* The client thread.                                                      *)

\* Thread t executes the statement at label `from` and moves to label `to`.
Goes(t, from, to) ==
    /\ pc[t] = from
    /\ pc' = [pc EXCEPT ![t] = to]

SetupControllerPipe(t) ==
    /\ ~deleted
    /\ Goes(t, "setup", "spawn")
    /\ UNCHANGED <<clientVars, fieldVars, loopVars, handles, endVars>>

\* Either of the two clients: which one makes no difference to what follows.
Spawn(t) ==
    /\ ~deleted
    /\ Goes(t, "spawn", "set_pid")
    /\ proc' = [proc EXCEPT ![t] = "running"]
    /\ UNCHANGED <<term, fieldVars, loopVars, handles, endVars>>

SpawnFails(t) ==
    /\ ~deleted
    /\ "spawn_fails" \in Allowed
    /\ Goes(t, "spawn", "done")
    /\ UNCHANGED <<clientVars, fieldVars, loopVars, handles, endVars>>

\* The mutant is a build without XP_UNIX, which does not store the pid.
StorePidNever(t) == UNCHANGED m_pid_controller
StorePid(t) == m_pid_controller' = t

SetPid(t) ==
    /\ ~deleted
    /\ Goes(t, "set_pid", "watch")
    /\ StorePid(t)
    /\ UNCHANGED <<clientVars, m_child_watch_mainloop, loopVars, handles, endVars>>

\* The mutant uses again a loop that the field holds already.
StoreLoopOnce(t) ==
    m_child_watch_mainloop' =
        IF m_child_watch_mainloop = NoThread THEN t ELSE m_child_watch_mainloop
StoreLoop(t) == m_child_watch_mainloop' = t

\* g_main_loop_new into the field, g_child_watch_source_new, g_source_attach.
WatchChild(t) ==
    /\ ~deleted
    /\ Goes(t, "watch", "run")
    /\ StoreLoop(t)
    /\ refs' = [refs EXCEPT ![t] = 1]
    /\ UNCHANGED <<clientVars, m_pid_controller, runs, running, handles, endVars>>

\* A mutant: nothing waits for the client.
RunLoopNever(t) ==
    /\ ~deleted
    /\ Goes(t, "run", "unref")
    /\ UNCHANGED <<clientVars, fieldVars, loopVars, handles, endVars>>

\* g_main_loop_run reads the field again, and holds a reference as it runs.
RunLoop(t) ==
    LET loop == m_child_watch_mainloop IN
    /\ ~deleted
    /\ Goes(t, "run", "watching")
    /\ refs[loop] > 0
    /\ runs' = [runs EXCEPT ![t] = loop]
    /\ refs' = [refs EXCEPT ![loop] = @ + 1]
    /\ running' = running \cup {loop}
    /\ UNCHANGED <<clientVars, fieldVars, handles, endVars>>

\* The loop that t runs has an exit status to dispatch to ChildExited.
Dispatches(t) ==
    /\ pc[t] = "watching"
    /\ runs[t] \in running
    /\ proc[runs[t]] = "reaped"

\* Whatever loop the field holds is quit; the mutant quits none.
QuitNoLoop == running' = running
QuitLoop == running' = running \ {m_child_watch_mainloop}

\* A child watch is dispatched once.
TakeStatus(t) == proc' = [proc EXCEPT ![runs[t]] = "reported"]

\* ChildExited, up to the call of OnSpiceClientExit in this thread.
ChildExited(t) ==
    /\ ~deleted
    /\ Dispatches(t)
    /\ refs[m_child_watch_mainloop] > 0
    /\ Goes(t, "watching", "exit")
    /\ QuitLoop
    /\ TakeStatus(t)
    /\ handles' = [handles EXCEPT ![t] = runs[t]]
    /\ UNCHANGED <<term, fieldVars, runs, refs, endVars>>

\* The callback returns to the loop.
ExitHandled(t) ==
    /\ ~deleted
    /\ Goes(t, "exit", "watching")
    /\ UNCHANGED <<clientVars, fieldVars, loopVars, handles, endVars>>

\* The loop runs while is_running is set.
LoopHasQuit(t) == runs[t] \notin running

\* g_main_loop_run returns, and drops its reference.
LeaveLoop(t) ==
    /\ Goes(t, "watching", "unref")
    /\ LoopHasQuit(t)
    /\ refs[runs[t]] > 0
    /\ refs' = [refs EXCEPT ![runs[t]] = @ - 1]
    /\ UNCHANGED <<clientVars, fieldVars, runs, running, handles, endVars>>

\* A mutant: the loop is never given back.
UnrefLoopNever(t) ==
    /\ ~deleted
    /\ Goes(t, "unref", "close")
    /\ refs[m_child_watch_mainloop] > 0
    /\ UNCHANGED <<clientVars, fieldVars, loopVars, handles, endVars>>

\* g_main_loop_unref reads the field once more.
UnrefLoop(t) ==
    /\ ~deleted
    /\ Goes(t, "unref", "close")
    /\ refs[m_child_watch_mainloop] > 0
    /\ refs' = [refs EXCEPT ![m_child_watch_mainloop] = @ - 1]
    /\ UNCHANGED <<clientVars, fieldVars, runs, running, handles, endVars>>

\* The mutant leaves the pid in the field.
ClearPidNever(t) == UNCHANGED m_pid_controller
ClearPid(t) ==
    m_pid_controller' = IF m_pid_controller = t THEN NoThread ELSE m_pid_controller

ClosePid(t) ==
    /\ ~deleted
    /\ Goes(t, "close", "done")
    /\ ClearPid(t)
    /\ UNCHANGED <<clientVars, m_child_watch_mainloop, loopVars, handles, endVars>>

\* Any statement of the thread that touches the controller once it is deleted.
UseAfterDelete(t) ==
    /\ deleted
    /\ pc[t] \in InController \/ Dispatches(t)
    /\ fault' = "freed_object"
    /\ UNCHANGED <<pc, clientVars, fieldVars, loopVars, handles, deleted>>

\* g_main_loop_run, g_main_loop_quit or g_main_loop_unref of a loop whose last
\* reference is gone.
UseFreedLoop(t) ==
    /\ \/ /\ ~deleted
          /\ pc[t] \in {"run", "unref"} \/ Dispatches(t)
          /\ refs[m_child_watch_mainloop] = 0
       \/ /\ pc[t] = "watching"
          /\ refs[runs[t]] = 0
    /\ fault' = "freed_loop"
    /\ UNCHANGED <<pc, clientVars, fieldVars, loopVars, handles, deleted>>

-----------------------------------------------------------------------------
(* The client process, and the GLib worker that reaps it.                  *)

ClientExit(c) ==
    /\ proc[c] = "running"
    /\ proc' = [proc EXCEPT ![c] = "exited"]
    /\ UNCHANGED <<pc, term, fieldVars, loopVars, handles, endVars>>

\* The child-watch source lives until its context is freed: by the unref of the
\* thread that made it, or with the loop, whichever comes last.
Watched(c) ==
    \/ pc[c] \in {"run", "watching", "exit", "unref"}
    \/ pc[c] \in {"close", "done"} /\ refs[c] > 0

\* GLib's worker calls waitpid for every watched pid as soon as SIGCHLD comes:
\* from here on the pid is free for another process.
Reap(c) ==
    /\ proc[c] = "exited"
    /\ Watched(c)
    /\ proc' = [proc EXCEPT ![c] = "reaped"]
    /\ UNCHANGED <<pc, term, fieldVars, loopVars, handles, endVars>>

-----------------------------------------------------------------------------
ThreadStep(t) ==
    \/ SetupControllerPipe(t)
    \/ Spawn(t)
    \/ SpawnFails(t)
    \/ SetPid(t)
    \/ WatchChild(t)
    \/ RunLoop(t)
    \/ ChildExited(t)
    \/ ExitHandled(t)
    \/ LeaveLoop(t)
    \/ UnrefLoop(t)
    \/ ClosePid(t)
    \/ UseAfterDelete(t)
    \/ UseFreedLoop(t)

\* The instance is gone and so is every thread: nothing is left to happen.
Gone == deleted /\ Live = {} /\ UNCHANGED watchVars

WatchNext ==
    /\ fault = "none"
    /\ \/ \E t \in Threads : StartClient(t) \/ ThreadStep(t)
       \/ StopClient
       \/ Delete
       \/ \E c \in Threads : ClientExit(c) \/ Reap(c)
       \/ Gone

WatchSpec == WatchInit /\ [][WatchNext]_watchVars

-----------------------------------------------------------------------------
(* What the page and the browser must respect for the promises below: see  *)
(* the README for why the page cannot tell when it does.                   *)
Patient == "overlap" \notin Allowed
Stays == "leave" \notin Allowed

\* The type of every variable.  It includes that SIGTERM only ever goes to a
\* client: kill(-0) would be delivered to the browser's own process group.
WatchTypeOK ==
    /\ pc \in [Threads -> {"idle", "setup", "spawn", "set_pid", "watch", "run",
                           "watching", "exit", "unref", "close", "done"}]
    /\ proc \in [Threads -> {"none", "running", "exited", "reaped", "reported"}]
    /\ term \subseteq Threads
    /\ m_pid_controller \in Threads \cup {NoThread}
    /\ m_child_watch_mainloop \in Threads \cup {NoThread}
    /\ runs \in [Threads -> Threads \cup {NoThread}]
    /\ refs \in [Threads -> Nat]
    /\ running \subseteq Threads
    /\ handles \in [Threads -> Threads \cup {NoThread}]
    /\ deleted \in BOOLEAN
    /\ fault \in {"none", "freed_object", "freed_loop"}

\* A pid in m_pid_controller is that of a client whose own thread has still to
\* execute line 153 of controller.cpp, whatever threads overlap: disconnect()
\* never signals a pid that nobody is left to clear.
PidHasWatcher ==
    \A t \in Threads :
        m_pid_controller = t =>
            pc[t] \in {"watch", "run", "watching", "exit", "unref", "close"}

\* Whatever sessions overlap and whatever loops their threads share (the second
\* read of the field in WaitForPid), when every client thread has come to its
\* end each client that ran has had its exit reported, by its own thread.  A
\* thread that ran the loop of another never gets there: it stays in
\* g_main_loop_run, or a loop is used after its last unref.
NobodyForgotten ==
    Live = {} =>
        \A t \in Threads :
            proc[t] = "none" \/ (proc[t] = "reported" /\ handles[t] = t)

\* As long as the page does not overlap connections, g_main_loop_quit, run and
\* unref (controller.cpp:130, 147, 149) find in the field a loop that is alive.
NoFreedLoop == Patient => fault # "freed_loop"

\* Between line 226 and the exit of the client, m_pid_controller holds its pid:
\* disconnect() has somebody to signal.
DisconnectReaches ==
    Patient =>
        \A t \in Threads :
            proc[t] = "running" /\ pc[t] # "set_pid" => m_pid_controller = t

\* A thread does not end before the exit of its client has been reported.
NotAbandoned ==
    Patient =>
        \A t \in Threads : pc[t] = "done" => proc[t] \in {"none", "reported"}

\* A client that exits has its exit reported, and its thread ends.
ExitIsReported ==
    Patient /\ Stays =>
        \A t \in Threads :
            proc[t] = "exited" ~> pc[t] = "done" /\ handles[t] = t
=============================================================================

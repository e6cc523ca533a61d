-------------------------- MODULE ClientWatchProofs --------------------------
(***************************************************************************)
(* What ClientWatch guarantees for any set of client threads.  TypeInv and *)
(* ReportInv hold whatever threads overlap; SoloInv is what makes a single *)
(* session at a time safe, and says where its loop and its pid are.        *)
(* CalmInv is about overlap: a thread that loses its own loop leaves a     *)
(* reference behind that nobody drops, and then some thread never ends.    *)
(***************************************************************************)
EXTENDS ClientWatch, FiniteSetTheorems, TLAPS

\* Where the thread has stored its loop in the field, and where it has run it.
Stored == {"run", "watching", "exit", "unref", "close", "done"}
Ran == {"watching", "exit", "unref"}

TypeInv ==
    /\ WatchTypeOK
    /\ \A t \in Threads :
        /\ pc[t] \in Stored /\ proc[t] # "none" => m_child_watch_mainloop \in Threads
        /\ pc[t] \in Ran => runs[t] \in Threads
        /\ pc[t] \in {"idle", "setup", "spawn"} => proc[t] = "none"
        /\ pc[t] \in {"set_pid", "watch", "run", "watching", "exit", "unref",
                      "close"} => proc[t] # "none"

\* No client's exit is handled by two threads, even where two run one loop, and
\* a client whose exit somebody handles has had its status taken.
ReportInv ==
    /\ \A s, t \in Threads :
        s # t /\ handles[s] = handles[t] => handles[s] = NoThread
    /\ \A t \in Threads : handles[t] # NoThread => proc[handles[t]] = "reported"

SoloThread == \A s, t \in Threads : s \in Live /\ t \in Live => s = t

SoloLoop ==
    \A t \in Threads :
        /\ pc[t] \in {"run", "watching", "exit", "unref"} => m_child_watch_mainloop = t
        /\ pc[t] \in {"watching", "exit"} => runs[t] = t /\ refs[t] = 2
        /\ pc[t] \in {"run", "unref"} => refs[t] = 1

SoloExit ==
    \A t \in Threads :
        /\ pc[t] = "watching" /\ t \notin running => proc[t] = "reported"
        /\ pc[t] \in {"exit", "unref", "close"} => proc[t] = "reported"

SoloInv ==
    /\ NoFreedLoop
    /\ DisconnectReaches
    /\ NotAbandoned
    /\ Patient => SoloThread /\ SoloLoop /\ SoloExit

-----------------------------------------------------------------------------
\* Every variable keeps its type, and SIGTERM only goes to a client.
LEMMA TypeInvInit == WatchInit => TypeInv
<1> SUFFICES ASSUME WatchInit PROVE TypeInv
    OBVIOUS
<1>1. WatchTypeOK
    BY DEF WatchInit, WatchTypeOK
<1>2. \A t \in Threads : pc[t] = "idle" /\ proc[t] = "none"
    BY DEF WatchInit
<1> QED BY <1>1, <1>2 DEF TypeInv, Stored, Ran

\* Every step keeps the types and what they relate.
LEMMA TypeInvNext == TypeInv /\ [WatchNext]_watchVars => TypeInv'
<1> SUFFICES ASSUME TypeInv, [WatchNext]_watchVars PROVE TypeInv'
    OBVIOUS
<1> USE ConstAssumption DEF TypeInv, WatchTypeOK, Stored, Ran
<1>1. CASE UNCHANGED watchVars
    BY <1>1 DEF watchVars, clientVars, fieldVars, loopVars, endVars
<1>2. ASSUME NEW t \in Threads, StartClient(t) PROVE TypeInv'
    BY <1>2 DEF StartClient, clientVars, fieldVars, loopVars, endVars
<1>3. ASSUME NEW t \in Threads, ThreadStep(t) PROVE TypeInv'
    <2>1. CASE SetupControllerPipe(t)
        BY <2>1 DEF SetupControllerPipe, Goes, clientVars, fieldVars, loopVars, endVars
    <2>2. CASE Spawn(t)
        BY <2>2 DEF Spawn, Goes, fieldVars, loopVars, endVars
    <2>3. CASE SpawnFails(t)
        BY <2>3 DEF SpawnFails, Goes, clientVars, fieldVars, loopVars, endVars
    <2>4. CASE SetPid(t)
        BY <2>4 DEF SetPid, StorePid, Goes, clientVars, loopVars, endVars
    <2>5. CASE WatchChild(t)
        BY <2>5 DEF WatchChild, StoreLoop, Goes, clientVars, endVars
    <2>6. CASE RunLoop(t)
        BY <2>6 DEF RunLoop, Goes, clientVars, fieldVars, endVars
    <2>7. CASE ChildExited(t)
        BY <2>7 DEF ChildExited, Dispatches, QuitLoop, TakeStatus, Goes, fieldVars, endVars
    <2>8. CASE ExitHandled(t)
        BY <2>8 DEF ExitHandled, Goes, clientVars, fieldVars, loopVars, endVars
    <2>9. CASE LeaveLoop(t)
        BY <2>9 DEF LeaveLoop, Goes, clientVars, fieldVars, endVars
    <2>10. CASE UnrefLoop(t)
        BY <2>10 DEF UnrefLoop, Goes, clientVars, fieldVars, endVars
    <2>11. CASE ClosePid(t)
        BY <2>11 DEF ClosePid, ClearPid, Goes, clientVars, loopVars, endVars
    <2>12. CASE UseAfterDelete(t)
        BY <2>12 DEF UseAfterDelete, clientVars, fieldVars, loopVars
    <2>13. CASE UseFreedLoop(t)
        BY <2>13 DEF UseFreedLoop, clientVars, fieldVars, loopVars
    <2> QED BY <1>3, <2>1, <2>2, <2>3, <2>4, <2>5, <2>6, <2>7, <2>8, <2>9,
               <2>10, <2>11, <2>12, <2>13 DEF ThreadStep
<1>4. CASE StopClient
    BY <1>4 DEF StopClient, HasPid, fieldVars, loopVars, endVars
<1>5. CASE Delete
    BY <1>5 DEF Delete, clientVars, fieldVars, loopVars
<1>6. ASSUME NEW c \in Threads, ClientExit(c) PROVE TypeInv'
    BY <1>6 DEF ClientExit, fieldVars, loopVars, endVars
<1>7. ASSUME NEW c \in Threads, Reap(c) PROVE TypeInv'
    BY <1>7 DEF Reap, fieldVars, loopVars, endVars
<1> QED BY <1>1, <1>2, <1>3, <1>4, <1>5, <1>6, <1>7 DEF WatchNext, Gone

\* The variables of the watch always have their types (ClientWatch.WatchTypeOK).
THEOREM WatchTypeCorrect == WatchSpec => []WatchTypeOK
<1>1. TypeInv => WatchTypeOK
    BY DEF TypeInv
<1> QED BY <1>1, TypeInvInit, TypeInvNext, PTL DEF WatchSpec

-----------------------------------------------------------------------------
\* Nothing is handled at first.
LEMMA ReportInvInit == WatchInit => ReportInv
BY DEF WatchInit, ReportInv

\* Every step keeps ReportInv: only the dispatch of an exit sets handles.
LEMMA ReportInvNext ==
    TypeInv /\ ReportInv /\ [WatchNext]_watchVars => ReportInv'
<1> SUFFICES ASSUME TypeInv, ReportInv, [WatchNext]_watchVars PROVE ReportInv'
    OBVIOUS
<1> USE ConstAssumption DEF TypeInv, WatchTypeOK, ReportInv
<1>1. CASE UNCHANGED <<proc, handles>>
    BY <1>1
<1>2. ASSUME NEW t \in Threads, Spawn(t) PROVE ReportInv'
    BY <1>2 DEF Spawn, Goes
<1>3. ASSUME NEW t \in Threads, ChildExited(t) PROVE ReportInv'
    <2>1. /\ runs[t] \in Threads
          /\ proc[runs[t]] = "reaped"
          /\ proc' = [proc EXCEPT ![runs[t]] = "reported"]
          /\ handles' = [handles EXCEPT ![t] = runs[t]]
        BY <1>3 DEF ChildExited, Dispatches, TakeStatus, Ran
    <2>2. \A s \in Threads : handles[s] # runs[t]
        BY <2>1
    <2> QED BY <2>1, <2>2
<1>4. ASSUME NEW c \in Threads, ClientExit(c) PROVE ReportInv'
    BY <1>4 DEF ClientExit
<1>5. ASSUME NEW c \in Threads, Reap(c) PROVE ReportInv'
    BY <1>5 DEF Reap
<1>6. ASSUME NEW t \in Threads, ThreadStep(t), ~Spawn(t), ~ChildExited(t)
      PROVE UNCHANGED <<proc, handles>>
    BY <1>6 DEF ThreadStep, SetupControllerPipe, SpawnFails, SetPid, WatchChild,
        RunLoop, ExitHandled, LeaveLoop, UnrefLoop, ClosePid, UseAfterDelete,
        UseFreedLoop, clientVars
<1>7. WatchNext => \/ UNCHANGED <<proc, handles>>
                  \/ \E t \in Threads :
                        Spawn(t) \/ ChildExited(t) \/ ClientExit(t) \/ Reap(t)
    BY <1>6 DEF WatchNext, StartClient, StopClient, Delete, Gone, watchVars,
        clientVars
<1> QED BY <1>1, <1>2, <1>3, <1>4, <1>5, <1>7 DEF watchVars, clientVars

-----------------------------------------------------------------------------
\* Every step keeps PidHasWatcher: who stores a pid clears it.
LEMMA PidHasWatcherNext ==
    TypeInv /\ PidHasWatcher /\ [WatchNext]_watchVars => PidHasWatcher'
<1> SUFFICES ASSUME TypeInv, PidHasWatcher, [WatchNext]_watchVars
             PROVE PidHasWatcher'
    OBVIOUS
<1> USE ConstAssumption DEF TypeInv, WatchTypeOK, PidHasWatcher
<1>1. CASE UNCHANGED <<pc, m_pid_controller>>
    BY <1>1
<1>2. ASSUME NEW t \in Threads, StartClient(t) PROVE PidHasWatcher'
    BY <1>2 DEF StartClient, fieldVars
<1>3. ASSUME NEW t \in Threads, SetPid(t) PROVE PidHasWatcher'
    BY <1>3 DEF SetPid, StorePid, Goes
<1>4. ASSUME NEW t \in Threads, ClosePid(t) PROVE PidHasWatcher'
    BY <1>4 DEF ClosePid, ClearPid, Goes
<1>5. ASSUME NEW t \in Threads, ThreadStep(t), ~SetPid(t), ~ClosePid(t)
      PROVE PidHasWatcher'
    BY <1>5 DEF ThreadStep, SetupControllerPipe, Spawn, SpawnFails, WatchChild,
        RunLoop, ChildExited, ExitHandled, LeaveLoop, UnrefLoop, UseAfterDelete,
        UseFreedLoop, Goes, fieldVars
<1>6. WatchNext => \/ UNCHANGED <<pc, m_pid_controller>>
                  \/ \E t \in Threads : StartClient(t) \/ ThreadStep(t)
    BY DEF WatchNext, StopClient, Delete, ClientExit, Reap, Gone, watchVars,
        fieldVars
<1> QED BY <1>1, <1>2, <1>3, <1>4, <1>5, <1>6 DEF watchVars, fieldVars

\* The pid that disconnect() signals has a thread left to clear it, however many
\* threads overlap (ClientWatch.PidHasWatcher).
THEOREM PidAlwaysHasWatcher == WatchSpec => []PidHasWatcher
<1>1. WatchInit => PidHasWatcher
    BY ConstAssumption DEF WatchInit, PidHasWatcher
<1> QED BY <1>1, TypeInvInit, TypeInvNext, PidHasWatcherNext, PTL DEF WatchSpec

-----------------------------------------------------------------------------
\* At first no thread is live.
LEMMA SoloInvInit == WatchInit => SoloInv
BY DEF WatchInit, SoloInv, SoloThread, SoloLoop, SoloExit, Live, NoFreedLoop,
       DisconnectReaches, NotAbandoned

\* In the steps below t is the only thread alive, before and after.
LEMMA SoloInvThread ==
    ASSUME TypeInv, SoloInv, Patient, NEW t \in Threads, ThreadStep(t)
    PROVE  SoloInv'
<1> USE DEF TypeInv, WatchTypeOK, Ran, Stored, SoloInv, SoloThread, SoloLoop,
        SoloExit, NoFreedLoop, DisconnectReaches, NotAbandoned, Live, Goes,
        clientVars, fieldVars, loopVars, endVars
<1>1. CASE SetupControllerPipe(t)
    BY <1>1 DEF SetupControllerPipe
<1>2. CASE Spawn(t)
    BY <1>2 DEF Spawn
<1>3. CASE SpawnFails(t)
    BY <1>3 DEF SpawnFails
<1>4. CASE SetPid(t)
    BY <1>4 DEF SetPid, StorePid
<1>5. CASE WatchChild(t)
    BY <1>5 DEF WatchChild, StoreLoop
<1>6. CASE RunLoop(t)
    BY <1>6 DEF RunLoop
<1>7. CASE ChildExited(t)
    BY <1>7 DEF ChildExited, Dispatches, QuitLoop, TakeStatus
<1>8. CASE ExitHandled(t)
    BY <1>8 DEF ExitHandled
<1>9. CASE LeaveLoop(t)
    BY <1>9 DEF LeaveLoop, LoopHasQuit
<1>10. CASE UnrefLoop(t)
    BY <1>10 DEF UnrefLoop
<1>11. CASE ClosePid(t)
    BY <1>11 DEF ClosePid, ClearPid
<1>12. CASE UseAfterDelete(t)
    BY <1>12 DEF UseAfterDelete
<1>13. CASE UseFreedLoop(t)
    BY <1>13 DEF UseFreedLoop, Dispatches
<1> QED BY <1>1, <1>2, <1>3, <1>4, <1>5, <1>6, <1>7, <1>8, <1>9, <1>10, <1>11,
           <1>12, <1>13 DEF ThreadStep

\* Every step keeps SoloInv: a patient page begins no thread while one lives.
LEMMA SoloInvNext == TypeInv /\ SoloInv /\ [WatchNext]_watchVars => SoloInv'
<1> SUFFICES ASSUME TypeInv, SoloInv, [WatchNext]_watchVars, Patient
             PROVE  SoloInv'
    BY DEF SoloInv, NoFreedLoop, DisconnectReaches, NotAbandoned, Patient
<1> USE DEF TypeInv, WatchTypeOK, Ran, Stored, SoloInv, SoloThread, SoloLoop,
        SoloExit, NoFreedLoop, DisconnectReaches, NotAbandoned, Live,
        clientVars, fieldVars, loopVars, endVars
<1>1. CASE UNCHANGED watchVars
    BY <1>1 DEF watchVars
<1>2. ASSUME NEW t \in Threads, StartClient(t) PROVE SoloInv'
    BY <1>2 DEF StartClient, Patient
<1>3. ASSUME NEW t \in Threads, ThreadStep(t) PROVE SoloInv'
    BY <1>3, SoloInvThread
<1>4. CASE StopClient
    BY <1>4 DEF StopClient
<1>5. CASE Delete
    BY <1>5 DEF Delete
<1>6. ASSUME NEW c \in Threads, ClientExit(c) PROVE SoloInv'
    BY <1>6 DEF ClientExit
<1>7. ASSUME NEW c \in Threads, Reap(c) PROVE SoloInv'
    BY <1>7 DEF Reap, Watched
<1> QED BY <1>1, <1>2, <1>3, <1>4, <1>5, <1>6, <1>7 DEF WatchNext, Gone

\* SoloInv is an invariant of the threads.
LEMMA SoloInvariant == WatchSpec => []SoloInv
BY TypeInvInit, TypeInvNext, SoloInvInit, SoloInvNext, PTL DEF WatchSpec

\* With one session at a time no freed loop is used (ClientWatch.NoFreedLoop).
THEOREM LoopsAreAlive == WatchSpec => []NoFreedLoop
<1>1. SoloInv => NoFreedLoop
    BY DEF SoloInv
<1> QED BY <1>1, SoloInvariant, PTL

\* With one session at a time disconnect() has a pid to signal while the client
\* runs (ClientWatch.DisconnectReaches).
THEOREM DisconnectAlwaysReaches == WatchSpec => []DisconnectReaches
<1>1. SoloInv => DisconnectReaches
    BY DEF SoloInv
<1> QED BY <1>1, SoloInvariant, PTL

\* With one session at a time no thread ends before it has reported its client
\* (ClientWatch.NotAbandoned).
THEOREM NoClientAbandoned == WatchSpec => []NotAbandoned
<1>1. SoloInv => NotAbandoned
    BY DEF SoloInv
<1> QED BY <1>1, SoloInvariant, PTL

-----------------------------------------------------------------------------
(* Sessions that overlap: what the references of the loops tell.           *)

\* The threads with a call of g_main_loop_unref to come, and those of them that
\* g_main_loop_run holds a reference for.
Holders == {t \in Threads : pc[t] \in {"run", "watching", "exit", "unref"}}
Runners == {t \in Threads : pc[t] \in {"watching", "exit"}}
RunnersOf(loop) == {t \in Runners : runs[t] = loop}

\* The references that f counts, each with its number.
Counted(f) == {r \in Threads \X Nat : 1 <= r[2] /\ r[2] <= f[r[1]]}

\* As many references as calls that are still to drop one, whichever they drop.
CountInv ==
    /\ IsFiniteSet(Holders)
    /\ IsFiniteSet(Runners)
    /\ IsFiniteSet(Counted(refs))
    /\ Cardinality(Counted(refs)) = Cardinality(Holders) + Cardinality(Runners)
    /\ \A t \in Threads :
        pc[t] \in {"idle", "setup", "spawn", "set_pid", "watch"} => refs[t] = 0

\* A loop that the field has lost, with a reference that nobody is to drop.
Leaked ==
    \E l \in Threads :
        l # m_child_watch_mainloop /\ refs[l] > Cardinality(RunnersOf(l))

\* So far the threads have had their loops in the field one after the other.
Calm ==
    /\ \A s, t \in Holders : s = t
    /\ \A t \in Threads :
        /\ t \notin Holders => refs[t] = 0
        /\ t \in Holders =>
            m_child_watch_mainloop = t /\ refs[t] = IF t \in Runners THEN 2 ELSE 1
        /\ t \in Runners => runs[t] = t
        /\ pc[t] = "watching" /\ t \notin running => proc[t] = "reported"
        /\ pc[t] \in {"exit", "unref", "close"} => proc[t] = "reported"
        /\ pc[t] = "done" => proc[t] \in {"none", "reported"}
        /\ proc[t] = "reported" => handles[t] = t

CalmInv == fault = "none" => Calm \/ Leaked

\* A use of freed memory happens in a thread, which then is never past it.
FaultInv == fault # "none" => Live # {}

\* A reference more to one loop is one more in all.
LEMMA OneMoreCounted ==
    ASSUME NEW f \in [Threads -> Nat], NEW l \in Threads, IsFiniteSet(Counted(f)),
           NEW g, g = [f EXCEPT ![l] = @ + 1]
    PROVE  /\ IsFiniteSet(Counted(g))
           /\ Cardinality(Counted(g)) = Cardinality(Counted(f)) + 1
<1>1. Counted(g) = Counted(f) \cup {<<l, f[l] + 1>>}
    BY DEF Counted
<1>2. <<l, f[l] + 1>> \notin Counted(f)
    BY DEF Counted
<1> DEFINE S == Counted(f)
<1>3. IsFiniteSet(S) /\ <<l, f[l] + 1>> \notin S
    BY <1>2
<1> HIDE DEF S
<1>4. /\ IsFiniteSet(S \cup {<<l, f[l] + 1>>})
      /\ Cardinality(S \cup {<<l, f[l] + 1>>}) = Cardinality(S) + 1
    BY <1>3, FS_AddElement
<1> QED BY <1>1, <1>4 DEF S

\* A reference less to one loop is one less in all.
LEMMA OneLessCounted ==
    ASSUME NEW f \in [Threads -> Nat], NEW l \in Threads, IsFiniteSet(Counted(f)),
           f[l] > 0, NEW g, g = [f EXCEPT ![l] = @ - 1]
    PROVE  /\ IsFiniteSet(Counted(g))
           /\ Cardinality(Counted(g)) = Cardinality(Counted(f)) - 1
<1>1. Counted(g) = Counted(f) \ {<<l, f[l]>>}
    BY DEF Counted
<1>2. <<l, f[l]>> \in Counted(f)
    BY DEF Counted
<1> DEFINE S == Counted(f)
<1>3. IsFiniteSet(S) /\ <<l, f[l]>> \in S
    BY <1>2
<1> HIDE DEF S
<1>4. /\ IsFiniteSet(S \ {<<l, f[l]>>})
      /\ Cardinality(S \ {<<l, f[l]>>}) = Cardinality(S) - 1
    BY <1>3, FS_RemoveElement
<1> QED BY <1>1, <1>4 DEF S

\* No loop has a reference at first.
LEMMA CountInvInit == WatchInit => CountInv /\ CalmInv /\ FaultInv
<1> SUFFICES ASSUME WatchInit PROVE CountInv /\ CalmInv /\ FaultInv
    OBVIOUS
<1>1. Holders = {} /\ Runners = {}
    BY DEF WatchInit, Holders, Runners
<1>2. Counted(refs) = {}
    BY DEF WatchInit, Counted
<1>3. CountInv
    BY <1>1, <1>2, FS_EmptySet DEF CountInv, WatchInit
<1>4. Calm
    BY <1>1, ConstAssumption DEF Calm, WatchInit
<1> QED BY <1>3, <1>4 DEF CalmInv, FaultInv, WatchInit

\* The steps that take and drop no reference.
LEMMA CountInvFrame ==
    ASSUME TypeInv, CountInv, UNCHANGED refs,
           \A t \in Threads :
            \/ pc'[t] = pc[t]
            \/ /\ pc[t] \in {"idle", "setup", "spawn", "set_pid"}
               /\ pc'[t] \in {"setup", "spawn", "set_pid", "watch", "done"}
            \/ {pc[t], pc'[t]} = {"watching", "exit"}
            \/ pc[t] = "close" /\ pc'[t] = "done"
    PROVE  CountInv'
<1>1. Holders' = Holders /\ Runners' = Runners
    BY DEF Holders, Runners
<1> QED BY <1>1 DEF CountInv, Counted

\* Every step keeps CountInv.
LEMMA CountInvNext == TypeInv /\ CountInv /\ [WatchNext]_watchVars => CountInv'
<1> SUFFICES ASSUME TypeInv, CountInv, [WatchNext]_watchVars PROVE CountInv'
    OBVIOUS
<1> USE DEF TypeInv, WatchTypeOK, Stored, Ran, Goes
<1>1. ASSUME NEW t \in Threads, WatchChild(t) PROVE CountInv'
    <2>1. /\ pc[t] = "watch" /\ pc' = [pc EXCEPT ![t] = "run"] /\ refs[t] = 0
          /\ refs' = [refs EXCEPT ![t] = @ + 1]
        <3>1. pc[t] = "watch" /\ pc' = [pc EXCEPT ![t] = "run"]
              /\ refs' = [refs EXCEPT ![t] = 1]
            BY <1>1 DEF WatchChild
        <3>2. refs[t] = 0
            BY <3>1 DEF CountInv
        <3>3. refs' = [refs EXCEPT ![t] = @ + 1]
            BY <3>1, <3>2
        <3> QED BY <3>1, <3>2, <3>3
    <2>2. Holders' = Holders \cup {t} /\ t \notin Holders /\ Runners' = Runners
        BY <2>1 DEF Holders, Runners
    <2>3. /\ IsFiniteSet(Counted(refs'))
          /\ Cardinality(Counted(refs')) = Cardinality(Counted(refs)) + 1
        BY <2>1, OneMoreCounted DEF CountInv
    <2>4. IsFiniteSet(Holders') /\ Cardinality(Holders') = Cardinality(Holders) + 1
        BY <2>2, FS_AddElement DEF CountInv
    <2> QED BY <2>1, <2>2, <2>3, <2>4, FS_CardinalityType DEF CountInv, Counted
<1>2. ASSUME NEW t \in Threads, RunLoop(t) PROVE CountInv'
    <2>1. /\ pc[t] = "run" /\ pc' = [pc EXCEPT ![t] = "watching"]
          /\ m_child_watch_mainloop \in Threads
          /\ refs[m_child_watch_mainloop] > 0
          /\ refs' = [refs EXCEPT ![m_child_watch_mainloop] = @ + 1]
        BY <1>2 DEF RunLoop
    <2>2. Holders' = Holders /\ Runners' = Runners \cup {t} /\ t \notin Runners
        BY <2>1 DEF Holders, Runners
    <2>3. /\ IsFiniteSet(Counted(refs'))
          /\ Cardinality(Counted(refs')) = Cardinality(Counted(refs)) + 1
        BY <2>1, OneMoreCounted DEF CountInv
    <2>4. IsFiniteSet(Runners') /\ Cardinality(Runners') = Cardinality(Runners) + 1
        BY <2>2, FS_AddElement DEF CountInv
    <2>5. \A s \in Threads : refs[s] = 0 => refs'[s] = 0
        BY <2>1
    <2> QED BY <2>1, <2>2, <2>3, <2>4, <2>5, FS_CardinalityType DEF CountInv, Counted
<1>3. ASSUME NEW t \in Threads, LeaveLoop(t) PROVE CountInv'
    <2>1. /\ pc[t] = "watching" /\ pc' = [pc EXCEPT ![t] = "unref"]
          /\ runs[t] \in Threads /\ refs[runs[t]] > 0
          /\ refs' = [refs EXCEPT ![runs[t]] = @ - 1]
        BY <1>3 DEF LeaveLoop
    <2>2. Holders' = Holders /\ Runners' = Runners \ {t} /\ t \in Runners
        BY <2>1 DEF Holders, Runners
    <2>3. /\ IsFiniteSet(Counted(refs'))
          /\ Cardinality(Counted(refs')) = Cardinality(Counted(refs)) - 1
        BY <2>1, OneLessCounted DEF CountInv
    <2>4. IsFiniteSet(Runners') /\ Cardinality(Runners') = Cardinality(Runners) - 1
        BY <2>2, FS_RemoveElement DEF CountInv
    <2>5. \A s \in Threads : refs[s] = 0 => refs'[s] = 0
        BY <2>1
    <2> QED BY <2>1, <2>2, <2>3, <2>4, <2>5, FS_CardinalityType DEF CountInv, Counted
<1>4. ASSUME NEW t \in Threads, UnrefLoop(t) PROVE CountInv'
    <2>1. /\ pc[t] = "unref" /\ pc' = [pc EXCEPT ![t] = "close"]
          /\ m_child_watch_mainloop \in Threads
          /\ refs[m_child_watch_mainloop] > 0
          /\ refs' = [refs EXCEPT ![m_child_watch_mainloop] = @ - 1]
        BY <1>4 DEF UnrefLoop
    <2>2. Holders' = Holders \ {t} /\ t \in Holders /\ Runners' = Runners
        BY <2>1 DEF Holders, Runners
    <2>3. /\ IsFiniteSet(Counted(refs'))
          /\ Cardinality(Counted(refs')) = Cardinality(Counted(refs)) - 1
        BY <2>1, OneLessCounted DEF CountInv
    <2>4. IsFiniteSet(Holders') /\ Cardinality(Holders') = Cardinality(Holders) - 1
        BY <2>2, FS_RemoveElement DEF CountInv
    <2>5. \A s \in Threads : refs[s] = 0 => refs'[s] = 0
        BY <2>1
    <2> QED BY <2>1, <2>2, <2>3, <2>4, <2>5, FS_CardinalityType DEF CountInv, Counted
<1>5. ASSUME NEW t \in Threads, ThreadStep(t), ~WatchChild(t), ~RunLoop(t),
             ~LeaveLoop(t), ~UnrefLoop(t)
      PROVE  CountInv'
    BY <1>5, CountInvFrame DEF ThreadStep, SetupControllerPipe, Spawn, SpawnFails,
        SetPid, ChildExited, ExitHandled, ClosePid, UseAfterDelete, UseFreedLoop,
        loopVars
<1>6. ASSUME NEW t \in Threads, StartClient(t) PROVE CountInv'
    BY <1>6, CountInvFrame DEF StartClient, loopVars
<1>7. CASE UNCHANGED <<pc, refs>>
    BY <1>7, CountInvFrame
<1>8. WatchNext => \/ UNCHANGED <<pc, refs>>
                  \/ \E t \in Threads : StartClient(t) \/ ThreadStep(t)
    BY DEF WatchNext, StopClient, Delete, ClientExit, Reap, Gone, watchVars, loopVars
<1> QED BY <1>1, <1>2, <1>3, <1>4, <1>5, <1>6, <1>7, <1>8 DEF watchVars, loopVars

\* As long as no use of freed memory ends the behaviour, a leak stays: the field
\* does not come back to a loop, and g_main_loop_unref only drops the field's.
LEMMA LeakedStays ==
    ASSUME TypeInv, CountInv, Leaked, [WatchNext]_watchVars PROVE Leaked'
<1>1. PICK l \in Threads :
        l # m_child_watch_mainloop /\ refs[l] > Cardinality(RunnersOf(l))
    BY DEF Leaked
<1> DEFINE n == Cardinality(RunnersOf(l))
<1>2. IsFiniteSet(RunnersOf(l)) /\ n \in Nat
    BY FS_Subset, FS_CardinalityType DEF CountInv, RunnersOf
<1> SUFFICES l # m_child_watch_mainloop' /\ refs'[l] > Cardinality(RunnersOf(l)')
    BY DEF Leaked
<1> USE DEF TypeInv, WatchTypeOK, Stored, Ran, Goes
<1>3. ASSUME RunnersOf(l)' = RunnersOf(l), l # m_child_watch_mainloop', refs'[l] >= refs[l]
      PROVE  l # m_child_watch_mainloop' /\ refs'[l] > Cardinality(RunnersOf(l)')
    <2>1. refs[l] \in Nat /\ refs'[l] \in Nat /\ refs[l] > n
        BY <1>1, TypeInvNext
    <2> HIDE DEF n
    <2>2. refs'[l] > n
        BY <1>2, <1>3, <2>1
    <2> QED BY <1>3, <2>2 DEF n
<1>4. ASSUME NEW t \in Threads, WatchChild(t)
      PROVE  RunnersOf(l)' = RunnersOf(l) /\ l # m_child_watch_mainloop' /\ refs'[l] >= refs[l]
    <2>1. t # l
        BY <1>1, <1>2, <1>4 DEF WatchChild, CountInv
    <2> QED BY <1>4, <2>1 DEF WatchChild, StoreLoop, RunnersOf, Runners
<1>5. ASSUME NEW t \in Threads, RunLoop(t)
      PROVE  RunnersOf(l)' = RunnersOf(l) /\ l # m_child_watch_mainloop' /\ refs'[l] >= refs[l]
    BY <1>1, <1>5 DEF RunLoop, fieldVars, RunnersOf, Runners
<1>6. ASSUME NEW t \in Threads, LeaveLoop(t)
      PROVE  l # m_child_watch_mainloop' /\ refs'[l] > Cardinality(RunnersOf(l)')
    <2>1. /\ pc[t] = "watching" /\ pc' = [pc EXCEPT ![t] = "unref"]
          /\ runs[t] \in Threads /\ runs' = runs
          /\ refs' = [refs EXCEPT ![runs[t]] = @ - 1]
          /\ m_child_watch_mainloop' = m_child_watch_mainloop
        BY <1>6 DEF LeaveLoop, fieldVars
    <2>2. CASE runs[t] = l
        <3>1. RunnersOf(l)' = RunnersOf(l) \ {t} /\ t \in RunnersOf(l)
            BY <2>1, <2>2 DEF RunnersOf, Runners
        <3>2. Cardinality(RunnersOf(l)') = n - 1
            BY <1>2, <3>1, FS_RemoveElement
        <3>3. refs'[l] = refs[l] - 1
            BY <2>1, <2>2
        <3>4. refs[l] \in Nat /\ refs[l] > n
            BY <1>1
        <3> HIDE DEF n
        <3> QED BY <1>1, <1>2, <2>1, <3>2, <3>3, <3>4
    <2>3. CASE runs[t] # l
        BY <1>3, <1>1, <2>1, <2>3 DEF RunnersOf, Runners
    <2> QED BY <2>2, <2>3
<1>7. ASSUME NEW t \in Threads, UnrefLoop(t)
      PROVE  RunnersOf(l)' = RunnersOf(l) /\ l # m_child_watch_mainloop' /\ refs'[l] >= refs[l]
    BY <1>1, <1>7 DEF UnrefLoop, fieldVars, RunnersOf, Runners
<1>8. ASSUME NEW t \in Threads, StartClient(t) \/ ThreadStep(t), ~WatchChild(t),
             ~RunLoop(t), ~LeaveLoop(t), ~UnrefLoop(t)
      PROVE  RunnersOf(l)' = RunnersOf(l) /\ l # m_child_watch_mainloop' /\ refs'[l] >= refs[l]
    BY <1>1, <1>8 DEF StartClient, ThreadStep, SetupControllerPipe, Spawn, SpawnFails,
        SetPid, ChildExited, ExitHandled, ClosePid, UseAfterDelete, UseFreedLoop,
        loopVars, fieldVars, RunnersOf, Runners
<1>9. WatchNext => \/ UNCHANGED <<pc, runs, refs, m_child_watch_mainloop>>
                  \/ \E t \in Threads : StartClient(t) \/ ThreadStep(t)
    BY DEF WatchNext, StopClient, Delete, ClientExit, Reap, Gone, watchVars, loopVars, fieldVars
<1>10. CASE UNCHANGED <<pc, runs, refs, m_child_watch_mainloop>>
    BY <1>1, <1>3, <1>10 DEF RunnersOf, Runners
<1> QED BY <1>3, <1>4, <1>5, <1>6, <1>7, <1>8, <1>9, <1>10 DEF watchVars, loopVars, fieldVars

\* A thread that stores its loop over one that is still held leaks that one.
LEMMA StoredOver ==
    ASSUME TypeInv, Calm, NEW t \in Threads, WatchChild(t), Holders # {}
    PROVE  Leaked'
<1>1. PICK h \in Holders : TRUE
    OBVIOUS
<1>2. h \in Threads /\ h # t /\ Holders = {h}
    BY <1>1 DEF Holders, Calm, WatchChild, Goes
<1>3. m_child_watch_mainloop' = t /\ refs'[h] = refs[h] /\ UNCHANGED runs
    BY <1>2 DEF WatchChild, StoreLoop, TypeInv, WatchTypeOK
<1>4. Runners' = Runners /\ Runners \subseteq Holders
    BY DEF WatchChild, Goes, Runners, Holders, TypeInv, WatchTypeOK
<1>5. refs[h] = IF h \in Runners THEN 2 ELSE 1
    BY <1>1, <1>2 DEF Calm
<1>6. CASE h \in Runners
    <2>1. RunnersOf(h)' = {h}
        BY <1>2, <1>3, <1>4, <1>6 DEF RunnersOf, Calm
    <2>2. Cardinality({h}) = 1
        BY FS_Singleton
    <2>3. refs'[h] > Cardinality(RunnersOf(h)')
        BY <1>3, <1>5, <1>6, <2>1, <2>2
    <2> QED BY <1>2, <1>3, <2>3 DEF Leaked
<1>7. CASE h \notin Runners
    <2>1. RunnersOf(h)' = {}
        BY <1>2, <1>4, <1>7 DEF RunnersOf
    <2>2. refs'[h] > Cardinality(RunnersOf(h)')
        BY <1>3, <1>5, <1>7, <2>1, FS_EmptySet
    <2> QED BY <1>2, <1>3, <2>2 DEF Leaked
<1> QED BY <1>6, <1>7

\* What a thread does where no loop was lost.
LEMMA CalmThread ==
    ASSUME TypeInv, CountInv, Calm, NEW t \in Threads, StartClient(t) \/ ThreadStep(t)
    PROVE  Calm' \/ Leaked'
<1> USE DEF TypeInv, WatchTypeOK, Stored, Ran, Goes, Calm, Holders, Runners,
        clientVars, fieldVars, loopVars
<1>1. CASE StartClient(t) \/ SetupControllerPipe(t)
    BY <1>1 DEF StartClient, SetupControllerPipe
<1>2. CASE Spawn(t)
    BY <1>2 DEF Spawn
<1>3. CASE SpawnFails(t)
    BY <1>3 DEF SpawnFails
<1>4. CASE SetPid(t)
    BY <1>4 DEF SetPid
<1>5. CASE WatchChild(t)
    <2>1. CASE Holders # {}
        BY <1>5, <2>1, StoredOver
    <2>2. CASE Holders = {}
        BY <1>5, <2>2 DEF WatchChild, StoreLoop
    <2> QED BY <2>1, <2>2
<1>6. CASE RunLoop(t)
    BY <1>6 DEF RunLoop
<1>7. CASE ChildExited(t)
    BY <1>7 DEF ChildExited, Dispatches, QuitLoop, TakeStatus
<1>8. CASE ExitHandled(t)
    BY <1>8 DEF ExitHandled
<1>9. CASE LeaveLoop(t)
    BY <1>9 DEF LeaveLoop, LoopHasQuit
<1>10. CASE UnrefLoop(t)
    BY <1>10 DEF UnrefLoop
<1>11. CASE ClosePid(t)
    BY <1>11 DEF ClosePid
<1>12. CASE UseAfterDelete(t) \/ UseFreedLoop(t)
    BY <1>12 DEF UseAfterDelete, UseFreedLoop
<1> QED BY <1>1, <1>2, <1>3, <1>4, <1>5, <1>6, <1>7, <1>8, <1>9, <1>10, <1>11,
           <1>12 DEF ThreadStep

\* Every step keeps CalmInv and FaultInv.
LEMMA CalmInvNext ==
    /\ TypeInv /\ CountInv /\ CalmInv /\ FaultInv /\ [WatchNext]_watchVars
    => CalmInv' /\ FaultInv'
<1> SUFFICES ASSUME TypeInv, CountInv, CalmInv, FaultInv, [WatchNext]_watchVars
             PROVE  CalmInv' /\ FaultInv'
    OBVIOUS
<1>1. CASE UNCHANGED watchVars
    <2>1. Calm => Calm'
        BY <1>1 DEF watchVars, clientVars, fieldVars, loopVars, endVars, Calm, Holders, Runners
    <2>2. fault' = fault /\ Live' = Live
        BY <1>1 DEF watchVars, endVars, Live
    <2> QED BY <2>1, <2>2, LeakedStays DEF CalmInv, FaultInv
<1>2. CASE WatchNext
    <2>1. fault = "none"
        BY <1>2 DEF WatchNext
    <2>2. Calm' \/ Leaked'
        <3>1. CASE Leaked
            BY <3>1, LeakedStays
        <3>2. CASE Calm
            <4>1. ASSUME NEW t \in Threads, StartClient(t) \/ ThreadStep(t)
                  PROVE  Calm' \/ Leaked'
                BY <3>2, <4>1, CalmThread
            <4>2. CASE StopClient \/ Delete \/ Gone
                BY <3>2, <4>2 DEF StopClient, Delete, Gone, watchVars, clientVars, fieldVars,
                    loopVars, Calm, Holders, Runners
            <4>3. ASSUME NEW c \in Threads, ClientExit(c) \/ Reap(c) PROVE Calm'
                BY <3>2, <4>3 DEF ClientExit, Reap, Watched, fieldVars, loopVars, Calm, Holders,
                    Runners, TypeInv, WatchTypeOK
            <4> QED BY <1>2, <4>1, <4>2, <4>3 DEF WatchNext
        <3> QED BY <2>1, <3>1, <3>2 DEF CalmInv
    <2>3. fault' # "none" => \E t \in Threads : UseAfterDelete(t) \/ UseFreedLoop(t)
        BY <1>2, <2>1 DEF WatchNext, StartClient, StopClient, Delete, ThreadStep,
            SetupControllerPipe, Spawn, SpawnFails, SetPid, WatchChild, RunLoop, ChildExited,
            ExitHandled, LeaveLoop, UnrefLoop, ClosePid, ClientExit, Reap, Gone, endVars,
            watchVars
    <2>4. FaultInv'
        BY <2>3 DEF FaultInv, UseAfterDelete, UseFreedLoop, InController, Dispatches, Live
    <2> QED BY <2>2, <2>4 DEF CalmInv
<1> QED BY <1>1, <1>2

\* What is known of the threads however many of them overlap.
LEMMA OverlapInvariant == WatchSpec => [](CountInv /\ CalmInv /\ FaultInv)
BY TypeInvInit, TypeInvNext, CountInvInit, CountInvNext, CalmInvNext, PTL DEF WatchSpec

\* When no thread is left no loop was leaked: what it leaves has no thread to
\* drop it, and so some thread is missing the reference it was to drop.
LEMMA EndedCalm ==
    ASSUME TypeInv, CountInv, CalmInv, FaultInv, Live = {} PROVE Calm /\ ~Leaked
<1>1. Holders = {} /\ Runners = {}
    BY DEF Live, Holders, Runners
<1>2. Counted(refs) = {}
    BY <1>1, FS_EmptySet DEF CountInv
<1>3. \A l \in Threads : refs[l] = 0
    <2> SUFFICES ASSUME NEW l \in Threads, refs[l] # 0 PROVE FALSE
        OBVIOUS
    <2>1. <<l, 1>> \in Counted(refs)
        BY DEF Counted, TypeInv, WatchTypeOK
    <2> QED BY <1>2, <2>1
<1>4. \A l \in Threads : Cardinality(RunnersOf(l)) = 0
    BY <1>1, FS_EmptySet DEF RunnersOf
<1>5. ~Leaked
    BY <1>3, <1>4 DEF Leaked
<1> QED BY <1>5 DEF CalmInv, FaultInv

\* Whatever sessions overlap, when every client thread has ended no client is
\* forgotten (ClientWatch.NobodyForgotten).
THEOREM NoClientForgotten == WatchSpec => []NobodyForgotten
<1>1. TypeInv /\ CountInv /\ CalmInv /\ FaultInv => NobodyForgotten
    BY EndedCalm DEF NobodyForgotten, Calm, Live, TypeInv, WatchTypeOK
<1> QED BY <1>1, TypeInvInit, TypeInvNext, OverlapInvariant, PTL DEF WatchSpec
=============================================================================

------------------------ MODULE ControllerWinProofs ------------------------
(***************************************************************************)
(* The named pipes of Windows, for any number of sessions and of attempts  *)
(* and any environment of the browser, and however the threads of several  *)
(* clients interleave: every client was given its own pipe and the page's  *)
(* proxy, the stream that connect() leaves is that of its own client when  *)
(* the earlier ones were settled, and nothing is written to the pipe of    *)
(* another user.                                                           *)
(***************************************************************************)
EXTENDS ControllerWin, SequenceTheorems, FiniteSetTheorems, WellFoundedInduction, TLAPS

\* Where a thread is says what its client may be: none before the spawn, and
\* gone when the thread has ended.
ClientInv ==
    \A s \in Sessions :
        /\ thread[s] \in {"none", "started", "named", "ready"} => client[s] = "none"
        /\ thread[s] = "ended" => client[s] \in {"none", "exited"}

\* The sessions after the last have not begun, the last and the one of m_name
\* have, and those before it stay settled if they were when it began.
OrderInv ==
    /\ settled => \A s \in Sessions : s < session => IsSettled(s)
    /\ \A s \in Sessions : s > session => thread[s] = "none"
    /\ m_name # 0 => thread[m_name] # "none"
    /\ session # 0 => thread[session] # "none"
    /\ session = 0 => call = "out"

\* The streams that are kept and used are of clients that have run; between the
\* loop and CheckPipe() alone may the stream be of another user.
OwnerInv ==
    /\ m_pipe # 0 => client[m_pipe] # "none"
    /\ m_pipe # 0 /\ call \in {"out", "checked"} => owner[m_pipe] = "user"
    /\ \A s \in written : client[s] # "none" /\ owner[s] = "user"

\* An attempt that succeeded left the stream of this session, when the earlier
\* ones are settled.
StreamInv ==
    /\ call = "trying" /\ tries > 0 /\ rc = 0 => m_pipe # 0 /\ (settled => m_pipe = session)
    /\ call = "trying" /\ tries = 0 => rc = -1
    /\ call = "tried" => (rc = 0 => m_pipe # 0 /\ (settled => m_pipe = session))
    /\ call = "checked" => rc = 0 /\ m_pipe # 0 /\ (settled => m_pipe = session)

WinInv == WinTypeOK /\ ClientInv /\ OrderInv /\ OwnerInv /\ StreamInv

\* The sessions are numbered from 1.
LEMMA SessionsAreNumbers == Sessions \subseteq Nat \ {0} /\ 0 \notin Sessions
BY WinAssumption, FS_CardinalityType

\* The invariant holds at first.
LEMMA WinInitInv == Init => WinInv
BY WinAssumption, SessionsAreNumbers
   DEF Init, WinInv, WinTypeOK, ClientInv, OrderInv, IsSettled, OwnerInv, StreamInv

-----------------------------------------------------------------------------
(* Steps of the main thread *)

\* Setting the proxy touches no session.
LEMMA WinSetProxy ==
    ASSUME WinInv, NEW proxy \in Proxies \cup {NotSet}, SetProxy(proxy)
    PROVE WinInv'
BY DEF WinInv, WinTypeOK, ClientInv, OrderInv, IsSettled, OwnerInv, StreamInv, SetProxy, callVars, threadVars

\* A new session comes after the ones that have ended.
LEMMA WinConnect == WinInv /\ Connect => WinInv'
<1> SUFFICES ASSUME WinInv, Connect PROVE WinInv'
    OBVIOUS
<1> USE SessionsAreNumbers DEF WinInv, Connect
<1>1. WinTypeOK'
    BY WinAssumption DEF WinTypeOK, AllSettled, IsSettled
<1>2. thread[session + 1] = "none"
    BY DEF OrderInv, IsSettled, WinTypeOK
<1>3. ClientInv'
    BY <1>2 DEF ClientInv, WinTypeOK
<1>4. OrderInv'
  <2>1. \A s \in Sessions : s < session' => s \in 1 .. session
      BY DEF WinTypeOK
  <2> QED BY <1>2, <2>1 DEF OrderInv, IsSettled, AllSettled, WinTypeOK
<1>5. OwnerInv'
    BY DEF OwnerInv, WinTypeOK
<1>6. StreamInv'
    BY DEF StreamInv
<1> QED BY <1>1, <1>3, <1>4, <1>5, <1>6

\* Only the last session's client can be listening, if the others are settled.
LEMMA WinAttempt == WinInv /\ Attempt => WinInv'
<1> SUFFICES ASSUME WinInv, Attempt PROVE WinInv'
    OBVIOUS
<1> USE SessionsAreNumbers DEF WinInv, Attempt, threadVars
<1>1. WinTypeOK'
    BY WinAssumption DEF WinTypeOK, MoreTries, CanOpen, NewStream
<1>2. CASE CanOpen
  <2>1. m_name \in Sessions /\ thread[m_name] \notin {"none", "ended"}
      BY <1>2 DEF CanOpen, ClientInv, OrderInv, IsSettled
  <2>2. settled => m_name = session
      BY <1>2, <2>1 DEF OrderInv, IsSettled, CanOpen, WinTypeOK
  <2>3. ClientInv'
      BY <1>2, <2>1 DEF ClientInv, WinTypeOK, CanOpen
  <2>4. \A s \in Sessions : IsSettled(s) => IsSettled(s)'
      BY <1>2 DEF IsSettled, WinTypeOK
  <2>6. OrderInv'
      BY <1>2, <2>4 DEF OrderInv
  <2>7. StreamInv'
      BY <1>2, <2>1, <2>2 DEF StreamInv, NewStream, WinTypeOK
  <2>5. OwnerInv'
      BY <1>2, <2>1 DEF OwnerInv, WinTypeOK, NewStream
  <2> QED BY <1>1, <2>3, <2>5, <2>6, <2>7
<1>3. CASE ~CanOpen
    BY <1>1, <1>3 DEF ClientInv, OrderInv, IsSettled, OwnerInv, StreamInv
<1> QED BY <1>2, <1>3

\* The end of the loop keeps the result of the last attempt.
LEMMA WinEndTries == WinInv /\ EndTries => WinInv'
<1> SUFFICES ASSUME WinInv, EndTries PROVE WinInv'
    OBVIOUS
<1> USE DEF WinInv, EndTries, callVars, threadVars
<1>1. WinTypeOK' /\ ClientInv' /\ OrderInv' /\ OwnerInv'
    BY DEF WinTypeOK, ClientInv, OrderInv, IsSettled, OwnerInv
<1>2. rc = 0 => m_pipe # 0 /\ (settled => m_pipe = session)
    BY WinAssumption DEF StreamInv, WinTypeOK, MoreTries
<1>3. StreamInv'
    BY <1>2 DEF StreamInv
<1> QED BY <1>1, <1>3

\* A stream to the pipe of another user is not kept.
LEMMA WinCheckPipe == WinInv /\ CheckPipe => WinInv'
<1> SUFFICES ASSUME WinInv, CheckPipe PROVE WinInv'
    OBVIOUS
<1> USE SessionsAreNumbers DEF WinInv, CheckPipe, threadVars
<1>1. WinTypeOK' /\ ClientInv' /\ OrderInv'
    BY DEF WinTypeOK, ClientInv, OrderInv, IsSettled
<1>2. OwnerInv'
    BY DEF OwnerInv, WinTypeOK, IsSameUser
<1>3. StreamInv'
    BY DEF StreamInv, WinTypeOK, OrderInv, IsSettled
<1> QED BY <1>1, <1>2, <1>3

\* connect() writes only to a stream that passed the check.
LEMMA WinSendMessages == WinInv /\ SendMessages => WinInv'
BY DEF WinInv, WinTypeOK, ClientInv, OrderInv, IsSettled, OwnerInv, StreamInv, SendMessages, Written, threadVars

\* show() writes only to a stream that passed the check.
LEMMA WinShow == WinInv /\ Show => WinInv'
BY DEF WinInv, WinTypeOK, ClientInv, OrderInv, IsSettled, OwnerInv, StreamInv, Show, Written, threadVars, callVars

-----------------------------------------------------------------------------
(* Steps of a client and of its thread *)

\* A client that is spawned is in no stream and has read nothing yet, so that
\* its user may be any.
LEMMA WinSpawn ==
    ASSUME WinInv, NEW s \in Sessions, NEW user \in {"user", "other"}, Spawn(s, user)
    PROVE WinInv'
<1> USE SessionsAreNumbers DEF WinInv, Spawn, InThread, callVars
<1>1. WinTypeOK' /\ ClientInv' /\ OrderInv'
    BY DEF WinTypeOK, ClientInv, OrderInv, IsSettled
<1>2. client[s] = "none"
    BY DEF ClientInv
<1>3. OwnerInv'
    BY <1>2 DEF OwnerInv, WinTypeOK
<1>4. StreamInv'
    BY DEF StreamInv
<1> QED BY <1>1, <1>3, <1>4

\* Every step of a client's thread, and of the client, keeps the invariant.
LEMMA WinThread == ASSUME WinInv, NEW s \in Sessions, Thread(s) PROVE WinInv'
<1> USE SessionsAreNumbers
        DEF WinInv, InThread, callVars, WinTypeOK, ClientInv, OrderInv, IsSettled, OwnerInv, StreamInv
<1>1. CASE SetupControllerPipe(s)
    BY <1>1 DEF SetupControllerPipe
<1>2. CASE SetupProxy(s)
    BY <1>2 DEF SetupProxy
<1>3. CASE SpawnFails(s)
    BY <1>3 DEF SpawnFails
<1>4. CASE ChildExited(s)
    BY <1>4 DEF ChildExited
<1>5. CASE ClientListens(s)
    BY <1>5 DEF ClientListens
<1>6. CASE ClientExits(s)
    BY <1>6 DEF ClientExits
<1> QED BY <1>1, <1>2, <1>3, <1>4, <1>5, <1>6, WinSpawn DEF Thread

-----------------------------------------------------------------------------
\* Every step keeps the invariant.
LEMMA WinStepInv == WinInv /\ [Next]_vars => WinInv'
<1> SUFFICES ASSUME WinInv, [Next]_vars PROVE WinInv'
    OBVIOUS
<1>1. CASE UNCHANGED vars
    BY <1>1 DEF WinInv, WinTypeOK, ClientInv, OrderInv, IsSettled, OwnerInv, StreamInv, vars, callVars, threadVars
<1>2. CASE Main
    BY <1>2, WinSetProxy, WinConnect, WinAttempt, WinEndTries, WinCheckPipe, WinSendMessages,
       WinShow DEF Main
<1>3. CASE \E s \in Sessions : Thread(s)
    BY <1>3, WinThread
<1> QED BY <1>1, <1>2, <1>3 DEF Next, Aborted

\* WinInv is an invariant.
LEMMA WinInvariant == Spec => []WinInv
<1> QED BY WinInitInv, WinStepInv, PTL DEF Spec

\* Types, for any number of sessions, attempts and proxies (controller-win.cpp).
THEOREM WinTypeCorrect == Spec => []WinTypeOK
<1>1. WinInv => WinTypeOK
    BY DEF WinInv
<1> QED BY <1>1, WinInvariant, PTL

\* Nothing is ever written to a pipe of another user, by any connect() or
\* show(), however the sessions' clients change users (controller-win.cpp:115-134).
THEOREM OtherUsersReadNothing == Spec => []OnlyOwnPipes
<1>1. WinInv => OnlyOwnPipes
    BY DEF WinInv, OwnerInv, OnlyOwnPipes
<1> QED BY <1>1, WinInvariant, PTL

-----------------------------------------------------------------------------
(* The lists of glib-compat.c: a variable that is set reads as it was set, *)
(* and every other one as it did before.                                   *)

\* i is the place of variable in the list: the first of its entries, or 0.
IsPlace(envp, variable, i) ==
    \/ i = 0 /\ \A j \in 1 .. Len(envp) : ~Matches(envp[j], variable)
    \/ /\ i \in 1 .. Len(envp) /\ Matches(envp[i], variable)
       /\ \A j \in 1 .. i - 1 : ~Matches(envp[j], variable)

\* A set of natural numbers has a least one.
LEMMA LeastExists ==
    ASSUME NEW T, T \subseteq Nat, T # {}
    PROVE \E x \in T : \A y \in T : x <= y
<1>1. PICK x \in T : \A y \in T : <<y, x>> \notin OpToRel(<, Nat)
    BY WFMin, NatLessThanWellFounded, Zenon
<1>2. \A y \in T : <<y, x>> \in Nat \X Nat
    OBVIOUS
<1>3. \A y \in T : ~(y < x)
    BY <1>1, <1>2, Zenon DEF OpToRel
<1> QED BY <1>3

\* The search finds the place.
LEMMA FindFinds ==
    ASSUME NEW S, NEW envp \in Seq(S), NEW variable
    PROVE IsPlace(envp, variable, g_environ_find(envp, variable))
<1> DEFINE at == {i \in DOMAIN envp : Matches(envp[i], variable)}
<1>1. DOMAIN envp = 1 .. Len(envp) /\ Len(envp) \in Nat
    OBVIOUS
<1>2. CASE at = {}
    BY <1>1, <1>2 DEF IsPlace, g_environ_find
<1>3. CASE at # {}
  <2>0. /\ at \subseteq 1 .. Len(envp)
        /\ \A i \in 1 .. Len(envp) : i \in at <=> Matches(envp[i], variable)
      BY <1>1
  <2>1. \E x \in at : \A y \in at : x <= y
    <3>1. at \subseteq Nat
        BY <1>1
    <3> HIDE DEF at
    <3> QED BY <1>3, <3>1, LeastExists
  <2>2. Min(at) \in at /\ \A y \in at : Min(at) <= y
      BY <2>1 DEF Min
  <2>3. g_environ_find(envp, variable) = Min(at)
      BY <1>3 DEF g_environ_find
  <2> DEFINE m == Min(at)
  <2>4. m \in 1 .. Len(envp) /\ Matches(envp[m], variable)
      BY <2>0, <2>2
  <2>5. \A j \in 1 .. m - 1 : ~Matches(envp[j], variable)
    <3> HIDE DEF at
    <3>1. m \in at /\ \A y \in at : m <= y
        BY <2>2
    <3> HIDE DEF m
    <3>2. \A j \in 1 .. m - 1 : j \in 1 .. Len(envp) /\ ~(m <= j)
        BY <1>1, <2>4
    <3> QED BY <2>0, <3>1, <3>2
  <2> HIDE DEF at, m
  <2>6. IsPlace(envp, variable, m)
      BY <2>4, <2>5 DEF IsPlace
  <2> QED BY <2>3, <2>6 DEF m
<1> QED BY <1>2, <1>3

\* There is one place.
LEMMA OnePlace ==
    ASSUME NEW S, NEW envp \in Seq(S), NEW variable, NEW i, IsPlace(envp, variable, i)
    PROVE g_environ_find(envp, variable) = i
BY FindFinds DEF IsPlace

\* The entry that a variable is given is one of its entries, and holds the value.
LEMMA EntryOfVariable ==
    ASSUME NEW S, NEW variable \in Seq(S), NEW value
    PROVE /\ Matches(Entry(variable, value), variable)
          /\ Entry(variable, value)[Len(variable) + 2] = value
<1> DEFINE T == S \cup {"=", value}
           e == Entry(variable, value)
           a == Append(variable, "=")
<1>1. variable \in Seq(T) /\ <<"=", value>> \in Seq(T)
    BY SeqMonotonic
<1>2. /\ e \in Seq(T) /\ Len(e) = Len(variable) + 2
      /\ \A i \in 1 .. Len(variable) : e[i] = variable[i]
      /\ e[Len(variable) + 1] = "=" /\ e[Len(variable) + 2] = value
    BY <1>1 DEF Entry
<1>3. /\ a \in Seq(T) /\ Len(a) = Len(variable) + 1 /\ Len(variable) \in Nat
      /\ \A i \in 1 .. Len(variable) : a[i] = variable[i]
      /\ a[Len(variable) + 1] = "="
    BY <1>1
<1> HIDE DEF e, a
<1>4. /\ SubSeq(e, 1, Len(a)) \in Seq(T) /\ Len(SubSeq(e, 1, Len(a))) = Len(a)
      /\ \A i \in 1 .. Len(a) : SubSeq(e, 1, Len(a))[i] = e[i]
    BY <1>2, <1>3
<1>5. SubSeq(e, 1, Len(a)) = a
    BY <1>2, <1>3, <1>4, SeqEqual
<1> QED BY <1>2, <1>3, <1>5 DEF Matches, StartsWith, e, a

\* No entry is of both variables.
Independent(v, w) == \A entry : Matches(entry, v) => ~Matches(entry, w)

\* Such are two names that differ, in a symbol or in their ends.
LEMMA DifferentNames ==
    ASSUME NEW S, NEW v \in Seq(S), NEW w \in Seq(S),
           NEW k \in Nat \ {0}, k <= Len(v) + 1, k <= Len(w) + 1,
           Append(v, "=")[k] # Append(w, "=")[k]
    PROVE Independent(v, w)
<1>1. ASSUME NEW entry, NEW u \in Seq(S), k <= Len(u) + 1, Matches(entry, u)
      PROVE entry[k] = Append(u, "=")[k]
  <2> DEFINE a == Append(u, "=")
  <2>1. Len(a) = Len(u) + 1 /\ Len(u) \in Nat
      BY SeqMonotonic, AppendProperties
  <2>2. SubSeq(entry, 1, Len(a)) = a
      BY <1>1 DEF Matches, StartsWith
  <2>3. SubSeq(entry, 1, Len(a))[k] = entry[k]
      BY <1>1, <2>1
  <2> QED BY <2>2, <2>3
<1> QED BY <1>1 DEF Independent

\* A list in which a variable is set is a list, and gives back the value.
LEMMA GetWhatWasSet ==
    ASSUME NEW S, NEW envp \in Seq(S), NEW V, NEW variable \in Seq(V), NEW value
    PROVE /\ g_environ_setenv(envp, variable, value) \in Seq(S \cup {Entry(variable, value)})
          /\ g_environ_getenv(g_environ_setenv(envp, variable, value), variable) = value
<1> DEFINE new == g_environ_setenv(envp, variable, value)
           place == g_environ_find(envp, variable)
           e == Entry(variable, value)
           T == S \cup {e}
<1>1. envp \in Seq(T) /\ e \in T /\ Len(envp) \in Nat /\ DOMAIN envp = 1 .. Len(envp)
    BY SeqMonotonic
<1>2. IsPlace(envp, variable, place)
    BY FindFinds
<1>3. Matches(e, variable) /\ e[Len(variable) + 2] = value
    BY EntryOfVariable
<1>4. new = IF place = 0 THEN Append(envp, e) ELSE [envp EXCEPT ![place] = e]
    BY DEF g_environ_setenv
<1> HIDE DEF new, place, e, T
<1>5. CASE place = 0
  <2>1. /\ new \in Seq(T) /\ Len(new) = Len(envp) + 1
        /\ \A i \in 1 .. Len(envp) : new[i] = envp[i]
        /\ new[Len(envp) + 1] = e
      BY <1>1, <1>4, <1>5, AppendProperties
  <2>2. IsPlace(new, variable, Len(envp) + 1)
      BY <1>1, <1>2, <1>3, <1>5, <2>1 DEF IsPlace
  <2>3. g_environ_find(new, variable) = Len(envp) + 1
      BY <2>1, <2>2, OnePlace
  <2> QED BY <1>1, <1>3, <2>1, <2>3 DEF g_environ_getenv, new, e, T
<1>6. CASE place # 0
  <2>1. place \in 1 .. Len(envp)
      BY <1>2, <1>6 DEF IsPlace
  <2>2. /\ new \in Seq(T) /\ Len(new) = Len(envp)
        /\ \A i \in 1 .. Len(envp) : new[i] = IF i = place THEN e ELSE envp[i]
      BY <1>1, <1>4, <1>6, <2>1, ExceptSeq
  <2>3. IsPlace(new, variable, place)
      BY <1>1, <1>2, <1>3, <2>1, <2>2 DEF IsPlace
  <2>4. g_environ_find(new, variable) = place
      BY <2>2, <2>3, OnePlace
  <2> QED BY <1>3, <1>6, <2>1, <2>2, <2>4 DEF g_environ_getenv, new, e, T
<1> QED BY <1>5, <1>6

\* Setting a variable leaves another one as it was.
LEMMA GetOther ==
    ASSUME NEW S, NEW envp \in Seq(S), NEW V, NEW variable \in Seq(V), NEW value, NEW other,
           Independent(variable, other)
    PROVE g_environ_getenv(g_environ_setenv(envp, variable, value), other)
            = g_environ_getenv(envp, other)
<1> DEFINE new == g_environ_setenv(envp, variable, value)
           place == g_environ_find(envp, variable)
           found == g_environ_find(envp, other)
           e == Entry(variable, value)
           T == S \cup {e}
<1>1. envp \in Seq(T) /\ e \in T /\ Len(envp) \in Nat /\ DOMAIN envp = 1 .. Len(envp)
    BY SeqMonotonic
<1>2. IsPlace(envp, variable, place) /\ IsPlace(envp, other, found)
    BY FindFinds
<1>3. ~Matches(e, other)
    BY EntryOfVariable DEF Independent
<1>4. new = IF place = 0 THEN Append(envp, e) ELSE [envp EXCEPT ![place] = e]
    BY DEF g_environ_setenv
<1> HIDE DEF new, place, found, e, T
<1>5. /\ new \in Seq(T) /\ Len(new) \in {Len(envp), Len(envp) + 1}
      /\ \A i \in 1 .. Len(envp) : new[i] = envp[i] \/ (i = place /\ new[i] = e)
      /\ Len(new) > Len(envp) => new[Len(new)] = e
  <2>1. CASE place = 0
      BY <1>1, <1>4, <2>1, AppendProperties
  <2>2. CASE place # 0
    <3>1. place \in 1 .. Len(envp)
        BY <1>2, <2>2 DEF IsPlace
    <3>2. new = [envp EXCEPT ![place] = e]
        BY <1>4, <2>2
    <3>3. /\ new \in Seq(T) /\ Len(new) = Len(envp)
          /\ \A i \in 1 .. Len(envp) : new[i] = IF i = place THEN e ELSE envp[i]
        BY <1>1, <3>1, <3>2, ExceptSeq
    <3> QED BY <1>1, <3>3
  <2> QED BY <2>1, <2>2
<1>6. place # 0 => ~Matches(envp[place], other)
    BY <1>2 DEF IsPlace, Independent
<1>7. IsPlace(new, other, found)
    BY <1>1, <1>2, <1>3, <1>5, <1>6 DEF IsPlace
<1>8. g_environ_find(new, other) = found
    BY <1>5, <1>7, OnePlace
<1>9. found # 0 => new[found] = envp[found]
    BY <1>1, <1>2, <1>3, <1>5, <1>6 DEF IsPlace
<1> QED BY <1>8, <1>9 DEF g_environ_getenv, new, found

-----------------------------------------------------------------------------
(* The environment of a client *)

\* The names of the variables, in the symbols of Words.
Words == {"SPICE", "XPI", "NAMEDPIPE", "PROXY"}

\* Two names that differ, neither with the sign in it, are of no common entry.
LEMMA NamesIndependent ==
    ASSUME NEW S, NEW v \in Seq(S), NEW w \in Seq(S), v # w,
           \A i \in DOMAIN v : v[i] # "=", \A i \in DOMAIN w : w[i] # "="
    PROVE Independent(v, w)
<1>1. /\ DOMAIN v = 1 .. Len(v) /\ Len(v) \in Nat
      /\ DOMAIN w = 1 .. Len(w) /\ Len(w) \in Nat
    OBVIOUS
<1>2. /\ \A i \in 1 .. Len(v) : Append(v, "=")[i] = v[i]
      /\ Append(v, "=")[Len(v) + 1] = "="
      /\ \A i \in 1 .. Len(w) : Append(w, "=")[i] = w[i]
      /\ Append(w, "=")[Len(w) + 1] = "="
    OBVIOUS
<1>3. \E k \in Nat \ {0} : /\ k <= Len(v) + 1 /\ k <= Len(w) + 1
                           /\ Append(v, "=")[k] # Append(w, "=")[k]
  <2>1. CASE Len(v) < Len(w)
    <3>1. Len(v) + 1 \in 1 .. Len(w)
        BY <1>1, <2>1
    <3>2. Append(v, "=")[Len(v) + 1] # Append(w, "=")[Len(v) + 1]
        BY <1>1, <1>2, <3>1
    <3> QED BY <1>1, <2>1, <3>1, <3>2
  <2>2. CASE Len(w) < Len(v)
    <3>1. Len(w) + 1 \in 1 .. Len(v)
        BY <1>1, <2>2
    <3>2. Append(v, "=")[Len(w) + 1] # Append(w, "=")[Len(w) + 1]
        BY <1>1, <1>2, <3>1
    <3> QED BY <1>1, <2>2, <3>1, <3>2
  <2>3. CASE Len(v) = Len(w)
    <3>1. PICK k \in 1 .. Len(v) : v[k] # w[k]
        BY <1>1, <2>3, SeqEqual
    <3>2. Append(v, "=")[k] # Append(w, "=")[k]
        BY <1>2, <2>3, <3>1
    <3> QED BY <1>1, <2>3, <3>1, <3>2
  <2>4. \A m, n \in Nat : m < n \/ n < m \/ m = n
      OBVIOUS
  <2> QED BY <1>1, <2>1, <2>2, <2>3, <2>4, Zenon
<1> QED BY <1>3, DifferentNames

\* The variables that are set for the client are two, and none of the others.
LEMMA NamesDiffer ==
    /\ NamedPipe \in Seq(Words) /\ ProxyVariable \in Seq(Words)
    /\ Independent(NamedPipe, ProxyVariable) /\ Independent(ProxyVariable, NamedPipe)
    /\ \A v \in Variables \ {NamedPipe, ProxyVariable} :
        Independent(NamedPipe, v) /\ Independent(ProxyVariable, v)
<1>1. /\ NamedPipe \in Seq(Words) /\ Len(NamedPipe) = 3
      /\ \A i \in DOMAIN NamedPipe : NamedPipe[i] # "="
    BY DEF NamedPipe, Words
<1>2. /\ ProxyVariable \in Seq(Words) /\ Len(ProxyVariable) = 2
      /\ \A i \in DOMAIN ProxyVariable : ProxyVariable[i] # "="
    BY DEF ProxyVariable, Words
<1>3. NamedPipe # ProxyVariable
    BY DEF NamedPipe, ProxyVariable
<1>4. Independent(NamedPipe, ProxyVariable) /\ Independent(ProxyVariable, NamedPipe)
    BY <1>1, <1>2, <1>3, NamesIndependent
<1>5. ASSUME NEW v \in Variables \ {NamedPipe, ProxyVariable}
      PROVE Independent(NamedPipe, v) /\ Independent(ProxyVariable, v)
  <2> DEFINE S == {v[i] : i \in DOMAIN v}
             T == S \cup Words
  <2>1. v \in Seq(S) /\ \A i \in DOMAIN v : v[i] # "="
      BY WinAssumption
  <2> HIDE DEF S
  <2>2. v \in Seq(T) /\ NamedPipe \in Seq(T) /\ ProxyVariable \in Seq(T)
      BY <1>1, <1>2, <2>1, SeqMonotonic
  <2>3. v # NamedPipe /\ v # ProxyVariable
      OBVIOUS
  <2> HIDE DEF T
  <2>4. Independent(NamedPipe, v)
      BY <1>1, <2>1, <2>2, <2>3, NamesIndependent
  <2>5. Independent(ProxyVariable, v)
      BY <1>2, <2>1, <2>2, <2>3, NamesIndependent
  <2> QED BY <2>4, <2>5
<1> QED BY <1>1, <1>2, <1>4, <1>5

\* What the thread makes of the browser's environment.
EnvOf(s, proxy) ==
    LET piped == g_environ_setenv(Inherited, NamedPipe, s)
    IN IF proxy = NotSet THEN piped ELSE g_environ_setenv(piped, ProxyVariable, proxy)

\* What a client reads in it.
LEMMA EnvOfReads ==
    ASSUME NEW s, NEW proxy
    PROVE /\ g_environ_getenv(EnvOf(s, proxy), NamedPipe) = s
          /\ g_environ_getenv(EnvOf(s, proxy), ProxyVariable) = ProxySeen(proxy)
          /\ \A v \in Variables \ {NamedPipe, ProxyVariable} :
                g_environ_getenv(EnvOf(s, proxy), v) = g_environ_getenv(Inherited, v)
<1> DEFINE S == {Inherited[i] : i \in DOMAIN Inherited}
           T == S \cup {Entry(NamedPipe, s)}
           Others == Variables \ {NamedPipe, ProxyVariable}
           piped == g_environ_setenv(Inherited, NamedPipe, s)
           whole == g_environ_setenv(piped, ProxyVariable, proxy)
<1>1. Inherited \in Seq(S)
    BY WinAssumption
<1>2. NamedPipe \in Seq(Words) /\ ProxyVariable \in Seq(Words)
    BY NamesDiffer
<1> HIDE DEF S
<1>3. piped \in Seq(T) /\ g_environ_getenv(piped, NamedPipe) = s
    BY <1>1, <1>2, GetWhatWasSet
<1>4. g_environ_getenv(piped, ProxyVariable) = g_environ_getenv(Inherited, ProxyVariable)
    BY <1>1, <1>2, NamesDiffer, GetOther
<1>5. ASSUME NEW v \in Others
      PROVE g_environ_getenv(piped, v) = g_environ_getenv(Inherited, v)
    BY <1>1, <1>2, NamesDiffer, GetOther
<1>6. piped \in Seq(T)
    BY <1>3
<1> HIDE DEF T, piped
<1>7. /\ whole \in Seq(T \cup {Entry(ProxyVariable, proxy)})
      /\ g_environ_getenv(whole, ProxyVariable) = proxy
    BY <1>2, <1>6, GetWhatWasSet
<1>8. g_environ_getenv(whole, NamedPipe) = g_environ_getenv(piped, NamedPipe)
    BY <1>2, <1>6, NamesDiffer, GetOther
<1>9. ASSUME NEW v \in Others
      PROVE g_environ_getenv(whole, v) = g_environ_getenv(piped, v)
    BY <1>2, <1>6, NamesDiffer, GetOther
<1>10. EnvOf(s, proxy) = IF proxy = NotSet THEN piped ELSE whole
    BY DEF EnvOf, piped
<1> HIDE DEF whole
<1>11. CASE proxy = NotSet
    BY <1>3, <1>4, <1>5, <1>10, <1>11, Zenon DEF ProxySeen
<1>12. CASE proxy # NotSet
    BY <1>3, <1>5, <1>7, <1>8, <1>9, <1>10, <1>12, Zenon DEF ProxySeen
<1> QED BY <1>11, <1>12

\* A client's environment is that of a proxy its thread could read; while
\* connect() runs the page cannot change the proxy, so that for this session
\* there is one.
EnvInv ==
    /\ DOMAIN env = Sessions
    /\ \A s \in Sessions : thread[s] = "named" => env[s] = EnvOf(s, NotSet)
    /\ \A s \in Sessions : thread[s] \in {"started", "named"} => m_proxy \in offered[s]
    /\ \A s \in Sessions :
        thread[s] = "ready" \/ client[s] # "none" =>
            \E proxy \in offered[s] : env[s] = EnvOf(s, proxy)
    /\ call # "out" => offered[session] = {m_proxy}

\* No client has an environment at first.
LEMMA EnvInitInv == Init => EnvInv
BY DEF Init, EnvInv

\* A thread or client that goes on with the environment it has.
LEMMA EnvKept ==
    ASSUME WinInv, EnvInv, env' = env, UNCHANGED <<session, m_proxy, call, offered>>,
           \A s \in Sessions :
                /\ thread'[s] = "named" => thread[s] = "named"
                /\ thread'[s] = "started" => thread[s] = "started"
                /\ thread'[s] = "ready" \/ client'[s] # "none" =>
                    thread[s] = "ready" \/ client[s] # "none"
    PROVE EnvInv'
<1>1. call # "out" => session \in Sessions
    BY DEF WinInv, WinTypeOK, OrderInv
<1> QED BY <1>1 DEF EnvInv

\* The page adds to what the threads that have not read a proxy yet may find.
LEMMA EnvSetProxy ==
    ASSUME WinInv, EnvInv, NEW proxy \in Proxies \cup {NotSet}, SetProxy(proxy)
    PROVE EnvInv'
<1> USE DEF SetProxy, threadVars, callVars
<1>1. /\ \A s \in Sessions : offered[s] \subseteq offered'[s]
      /\ \A s \in Sessions : thread[s] \in {"started", "named"} => m_proxy' \in offered'[s]
    OBVIOUS
<1>2. UNCHANGED <<env, thread, client>> /\ call' = "out"
    OBVIOUS
<1> QED BY <1>1, <1>2 DEF EnvInv

\* The main thread changes no environment, and no proxy inside connect().
LEMMA EnvMain == WinInv /\ EnvInv /\ Main => EnvInv'
<1> SUFFICES ASSUME WinInv, EnvInv, Main PROVE EnvInv'
    OBVIOUS
<1> USE SessionsAreNumbers DEF EnvInv, callVars, threadVars
<1>1. CASE \E proxy \in Proxies \cup {NotSet} : SetProxy(proxy)
    BY <1>1, EnvSetProxy
<1>2. CASE Connect
  <2>1. /\ session + 1 \in Sessions /\ session' = session + 1
        /\ thread[session + 1] = "none" /\ client[session + 1] = "none"
        /\ DOMAIN thread = Sessions /\ DOMAIN offered = Sessions
      BY <1>2 DEF Connect, WinInv, WinTypeOK, ClientInv, OrderInv
  <2> QED BY <1>2, <2>1 DEF Connect
<1>3. CASE Attempt
  <2>1. \A s \in Sessions : client'[s] # "none" => client[s] # "none"
      BY <1>3 DEF Attempt, CanOpen, WinInv, WinTypeOK
  <2> QED BY <1>3, <2>1, EnvKept DEF Attempt
<1>4. CASE EndTries \/ CheckPipe \/ SendMessages \/ Show
    BY <1>4 DEF EndTries, CheckPipe, SendMessages, Show
<1> QED BY <1>1, <1>2, <1>3, <1>4 DEF Main

\* A client's thread sets the pipe and the proxy of its own session.
LEMMA EnvThread == ASSUME WinInv, EnvInv, NEW s \in Sessions, Thread(s) PROVE EnvInv'
<1> USE DEF InThread, callVars
<1>1. /\ DOMAIN env = Sessions /\ DOMAIN thread = Sessions /\ DOMAIN client = Sessions
      /\ thread[s] \in {"none", "started", "named", "ready"} => client[s] = "none"
      /\ call # "out" => session \in Sessions
    BY DEF WinInv, WinTypeOK, ClientInv, OrderInv, EnvInv
<1>2. CASE SetupControllerPipe(s)
  <2>1. env' = [env EXCEPT ![s] = EnvOf(s, NotSet)]
      BY <1>2 DEF SetupControllerPipe, EnvOf
  <2> QED BY <1>1, <1>2, <2>1 DEF SetupControllerPipe, EnvInv
<1>3. CASE SetupProxy(s)
  <2>1. env[s] = EnvOf(s, NotSet) /\ m_proxy \in offered[s]
      BY <1>3 DEF SetupProxy, EnvInv
  <2>2. /\ \A x \in Sessions \ {s} : env'[x] = env[x] /\ thread'[x] = thread[x]
        /\ env'[s] = EnvOf(s, m_proxy) /\ thread'[s] = "ready"
        /\ DOMAIN env' = Sessions
        /\ UNCHANGED <<client, session, m_proxy, call, offered>>
    <3>1. CASE m_proxy = NotSet
        BY <1>1, <1>3, <2>1, <3>1 DEF SetupProxy
    <3>2. CASE m_proxy # NotSet
        BY <1>1, <1>3, <2>1, <3>2 DEF SetupProxy, EnvOf
    <3> QED BY <3>1, <3>2
  <2>3. \A x \in Sessions : thread'[x] = "named" => env'[x] = EnvOf(x, NotSet)
      BY <2>2 DEF EnvInv
  <2>4. \A x \in Sessions : thread'[x] = "ready" \/ client'[x] # "none" =>
            \E proxy \in offered'[x] : env'[x] = EnvOf(x, proxy)
      BY <1>1, <2>1, <2>2 DEF EnvInv
  <2>5. \A x \in Sessions : thread'[x] \in {"started", "named"} => m_proxy' \in offered'[x]
      BY <2>2 DEF EnvInv
  <2>6. call' # "out" => offered'[session'] = {m_proxy'}
      BY <2>2 DEF EnvInv
  <2> QED BY <2>2, <2>3, <2>4, <2>5, <2>6 DEF EnvInv
<1>4. CASE \E user \in {"user", "other"} : Spawn(s, user)
    BY <1>1, <1>4, EnvKept DEF Spawn
<1>5. CASE SpawnFails(s)
    BY <1>1, <1>5, EnvKept DEF SpawnFails
<1>6. CASE ChildExited(s)
    BY <1>1, <1>6, EnvKept DEF ChildExited
<1>7. CASE ClientListens(s)
    BY <1>1, <1>7, EnvKept DEF ClientListens
<1>8. CASE ClientExits(s)
    BY <1>1, <1>8, EnvKept DEF ClientExits
<1> QED BY <1>2, <1>3, <1>4, <1>5, <1>6, <1>7, <1>8 DEF Thread

\* EnvInv is an invariant.
LEMMA EnvInvariant == Spec => []EnvInv
<1>1. WinInv /\ EnvInv /\ [Next]_vars => EnvInv'
  <2> SUFFICES ASSUME WinInv, EnvInv, [Next]_vars PROVE EnvInv'
      OBVIOUS
  <2>1. CASE UNCHANGED vars
      BY <2>1 DEF EnvInv, vars, callVars, threadVars
  <2> QED BY <2>1, EnvMain, EnvThread DEF Next, Aborted
<1> QED BY <1>1, EnvInitInv, WinInvariant, PTL DEF Spec

\* Every client, in any environment of the browser and beside any number of
\* other clients and their threads, reads its own pipe, a proxy that the page
\* had between its connect() and its thread's reading (the browser's, where the
\* page had none), and the browser's other variables unchanged
\* (controller.cpp:166-169, glib-compat.c:29-148).
THEOREM EnvironmentAsSet == Spec => []EnvAsSet
<1>1. EnvInv => EnvAsSet
    BY EnvOfReads DEF EnvInv, EnvAsSet
<1> QED BY <1>1, EnvInvariant, PTL

\* A connect() that succeeds has the stream of its own client, provided that
\* every earlier client was settled when it was called, and the client of its
\* own has its proxy, for any number of earlier streams that were never closed
\* and of attempts (controller.cpp:77-113, controller-win.cpp:35-97).
THEOREM PipeAlwaysOfSession == Spec => []PipeIsOfSession
<1>1. WinInv /\ EnvInv => PipeIsOfSession
  <2> SUFFICES ASSUME WinInv, EnvInv, call = "checked"
               PROVE /\ settled => m_pipe = session
                     /\ m_pipe = session =>
                        g_environ_getenv(env[session], ProxyVariable) = ProxySeen(m_proxy)
      BY DEF PipeIsOfSession
  <2>1. settled => m_pipe = session
      BY DEF WinInv, StreamInv
  <2>2. ASSUME m_pipe = session
        PROVE g_environ_getenv(env[session], ProxyVariable) = ProxySeen(m_proxy)
    <3>1. session \in Sessions /\ client[session] # "none"
        BY <2>2 DEF WinInv, WinTypeOK, OrderInv, OwnerInv
    <3>2. env[session] = EnvOf(session, m_proxy)
        BY <3>1 DEF EnvInv
    <3> QED BY <3>2, EnvOfReads
  <2> QED BY <2>1, <2>2
<1> QED BY <1>1, WinInvariant, EnvInvariant, PTL

=============================================================================

---------------------------- MODULE SessionPromise ----------------------------
(***************************************************************************)
(* What the plugin promises a page, in the page's own terms: the two       *)
(* things it can observe of its sessions are the number connectedStatus    *)
(* and the calls of its OnDisconnected.  No thread, process or socket      *)
(* appears here.                                                           *)
(*                                                                         *)
(* Each session that ends sets the status once, and only after that is the *)
(* page told of it, once.  The status says "connected" by an action of its *)
(* own, and never before a session was begun.                              *)
(***************************************************************************)
EXTENDS Naturals

CONSTANTS
    Sessions,
    ExitStatuses    \* what connectedStatus may say of a session that ended

Never == 0 - 2
Connected == 0 - 1
BadPorts == 1

VARIABLES
    status,     \* connectedStatus
    begun,      \* the sessions the page has asked for
    ended,      \* those whose end the status has told
    told        \* per session: the calls of OnDisconnected for its end

promise == <<status, begun, ended, told>>

Init ==
    /\ status = Never
    /\ begun = {}
    /\ ended = {}
    /\ told = [s \in Sessions |-> 0]

Refused == status' = BadPorts /\ UNCHANGED <<begun, ended, told>>

Begins(s) ==
    /\ s \notin begun
    /\ begun' = begun \cup {s}
    /\ UNCHANGED <<status, ended, told>>

Connects ==
    /\ begun # {}
    /\ status' = Connected
    /\ UNCHANGED <<begun, ended, told>>

Ends(s) ==
    /\ s \in begun \ ended
    /\ status' \in ExitStatuses
    /\ ended' = ended \cup {s}
    /\ UNCHANGED <<begun, told>>

Tells(s) ==
    /\ s \in ended
    /\ told[s] = 0
    /\ told' = [told EXCEPT ![s] = 1]
    /\ UNCHANGED <<status, begun, ended>>

Next ==
    \/ Refused
    \/ Connects
    \/ \E s \in Sessions : Begins(s) \/ Ends(s) \/ Tells(s)

Spec == Init /\ [][Next]_promise

\* Every end is told.
EveryEndIsTold == \A s \in Sessions : s \in ended ~> told[s] = 1
=============================================================================

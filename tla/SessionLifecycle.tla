-------------------------- MODULE SessionLifecycle --------------------------
(***************************************************************************)
(* What the session handling of pcapsession.c promises each slot of       *)
(* session_list, whatever the role of its session: a free slot is taken by *)
(* one session, which waits for its start, runs, is stopped, and is then   *)
(* either restarted or given back. A session runs only after it was        *)
(* started; a slot in use is never taken again; a stopped session comes   *)
(* back only through a restart.                                            *)
(***************************************************************************)
CONSTANTS Slots

VARIABLE phase    \* [Slots -> Phases]

Phases == {"free", "waiting", "running", "stopping"}

Init == phase = [s \in Slots |-> "free"]

Move(s, from, to) ==
    /\ phase[s] \in from
    /\ phase' = [phase EXCEPT ![s] = to]

Open(s) == Move(s, {"free"}, "waiting")
Run(s) == Move(s, {"waiting"}, "running")
Stop(s) == Move(s, {"waiting", "running"}, "stopping")
Restart(s) == Move(s, {"stopping"}, "waiting")
Release(s) == Move(s, {"stopping"}, "free")

Next == \E s \in Slots :
    Open(s) \/ Run(s) \/ Stop(s) \/ Restart(s) \/ Release(s)

Spec == Init /\ [][Next]_phase

====

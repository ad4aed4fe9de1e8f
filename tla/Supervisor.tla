----------------------------- MODULE Supervisor -----------------------------
(***************************************************************************)
(* What launchd promises of the jobs it supervises, without the event      *)
(* loop, the queue, the timers and the state machines that implement it.   *)
(* A label has at most one live process; only a job that is to be kept may *)
(* get one; a job leaves the table only after its process is gone; and     *)
(* once the shutdown has begun nothing new is loaded and every job is told *)
(* to stop.                                                                *)
(*                                                                         *)
(* One callback of launchd may move several labels at once, because a      *)
(* request names several jobs and a shutdown all of them, so a step lets   *)
(* every label make a move of its own.                                     *)
(***************************************************************************)
CONSTANT Labels

VARIABLES
    phase,   \* "starting", "running", "stopping", "over", or "crashed"
    mode,    \* of a label: "absent", "kept", "asked" or "stopping"
    live     \* the labels that have a live process

vars == <<phase, mode, live>>

Init == /\ phase = "starting"
        /\ mode = [l \in Labels |-> "absent"]
        /\ live = {}

-----------------------------------------------------------------------------
(* The moves of one label *)

Keeps(l) == mode'[l] = mode[l]
LivesOn(l) == l \in live' <=> l \in live

\* A new job, whose process may have been started with it.
Load(l) == /\ phase \in {"starting", "running"}
           /\ mode[l] = "absent" /\ mode'[l] = "kept"

\* A job that was asked to unload while it was disabled is not stopped: it
\* may be started again, but it is never told to stop either.
Start(l) == mode[l] \in {"kept", "asked"} /\ Keeps(l) /\ l \notin live /\ l \in live'

Exit(l) == mode[l] # "absent" /\ Keeps(l) /\ l \in live /\ l \notin live'

Unload(l) == mode[l] = "kept" /\ mode'[l] \in {"asked", "stopping"} /\ LivesOn(l)

Remove(l) == /\ mode[l] \in {"asked", "stopping"} /\ mode'[l] = "absent"
             /\ l \notin live /\ l \notin live'

Stutter(l) == Keeps(l) /\ LivesOn(l)

Move(l) == Load(l) \/ Start(l) \/ Exit(l) \/ Unload(l) \/ Remove(l) \/ Stutter(l)

Typed == mode' \in [Labels -> {"absent", "kept", "asked", "stopping"}] /\ live' \subseteq Labels

-----------------------------------------------------------------------------
StartUp == /\ phase = "starting" /\ phase' = "running" /\ Typed
           /\ \A l \in Labels : Load(l) \/ Stutter(l)

Supervise == /\ phase \in {"running", "stopping"} /\ phase' = phase /\ Typed
             /\ \A l \in Labels : Move(l)

ShutDown == /\ phase = "running" /\ phase' = "stopping" /\ Typed
            /\ \A l \in Labels : /\ LivesOn(l)
                                 /\ mode'[l] = IF mode[l] = "kept" THEN "stopping" ELSE mode[l]

\* Nothing is left, or a second signal has killed and reaped what was.
Finish == /\ phase = "stopping" /\ phase' = "over"
          /\ mode' = [l \in Labels |-> "absent"]
          /\ live' = {}

\* launchd ends by an exception in the middle of a callback.
Crash == /\ phase \notin {"over", "crashed"} /\ phase' = "crashed" /\ Typed
         /\ \A l \in Labels : Move(l)

Next == StartUp \/ Supervise \/ ShutDown \/ Finish \/ Crash

Spec == Init /\ [][Next]_vars
=============================================================================

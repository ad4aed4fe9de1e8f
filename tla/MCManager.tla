----------------------------- MODULE MCManager -----------------------------
(***************************************************************************)
(* Small instances of Manager for TLC: the manifests a run may load, and   *)
(* the symmetry of the labels.                                             *)
(***************************************************************************)
EXTENDS Manager, TLC

OnDemand  == [run_at_load |-> FALSE, keep_alive |-> FALSE, start_interval |-> NoInterval,
              throttle_interval |-> 0, disabled |-> FALSE, abandon_process_group |-> FALSE]
OneShot   == [OnDemand EXCEPT !.run_at_load = TRUE]
KeepAlive == [OnDemand EXCEPT !.keep_alive = TRUE, !.throttle_interval = 2]
Eager     == [OnDemand EXCEPT !.keep_alive = TRUE]
Periodic  == [OnDemand EXCEPT !.start_interval = 1000]
Restless  == [Periodic EXCEPT !.run_at_load = TRUE]
Abandons  == [OneShot EXCEPT !.abandon_process_group = TRUE]
Disabled  == [OneShot EXCEPT !.disabled = TRUE]

AllKinds    == {OnDemand, OneShot, KeepAlive, Eager, Periodic,
                [Periodic EXCEPT !.start_interval = 0],
                Restless,
                [KeepAlive EXCEPT !.start_interval = 1000, !.throttle_interval = 1],
                Abandons, Disabled}
Mixed       == {Periodic, Restless, [KeepAlive EXCEPT !.throttle_interval = 1]}
OneKeepAlive == {[KeepAlive EXCEPT !.throttle_interval = 1]}
OneOneShot   == {OneShot}

\* For the manifests of Mixed, none of them disabled, "enabled" and "none" are
\* the same override, and no request of the run changes one.
NoneIsEnabled == \A l \in Labels : overrides[l] # "enabled"

LabelSymmetry == Permutations(Labels)
=============================================================================

---------------------------- MODULE RunLifecycle ----------------------------
(***************************************************************************)
(* What one DockerTest run promises about the resources it owns on the     *)
(* docker daemon, with the scheduling, readiness, inspection and log       *)
(* details left out.                                                       *)
(*                                                                         *)
(* A run sets up (creating its network and containers), may reach the test *)
(* phase, and may tear down; it can return from any phase.  Resources are  *)
(* only created while setting up and only released while tearing down,   *)
(* and what teardown may release is fixed by the prune table of spec       *)
(* section 4.4 for the run's strategy and outcome.  Nothing here obliges  *)
(* a run to release anything: leaks are stated and checked elsewhere.      *)
(***************************************************************************)
EXTENDS FiniteSets

CONSTANTS
  Ctr,           \* the run's compositions
  VolumeUsers    \* the compositions mounting the run's named volume

Strategies == {"RunningRegardless", "RunningOnFailure",
               "StopOnFailure", "RemoveRegardless"}

VARIABLES
  phase,      \* "setup", "test", "teardown" or "done"
  strategy,   \* the prune strategy in force
  failed,     \* the run counts as failed
  owned,      \* the run's containers that exist on the daemon
  net,        \* the run's network exists
  vol         \* the run's named volume exists

avars == <<phase, strategy, failed, owned, net, vol>>

\* The prune table: what teardown does for a strategy and an outcome.
Mode(s, f) ==
  CASE s = "RunningRegardless" \/ (s = "RunningOnFailure" /\ f) -> "leave"
    [] s = "StopOnFailure" /\ f                                 -> "stop"
    [] OTHER                                                    -> "remove"

Init ==
  /\ phase = "setup"
  /\ strategy \in Strategies
  /\ failed = FALSE
  /\ owned = {}
  /\ net = FALSE
  /\ vol = FALSE

CreateNetwork ==
  /\ phase = "setup" /\ ~net
  /\ net' = TRUE
  /\ UNCHANGED <<phase, strategy, failed, owned, vol>>

\* Docker creates the named volume with the first container mounting it.
CreateContainer(c) ==
  /\ phase = "setup" /\ c \notin owned
  /\ owned' = owned \cup {c}
  /\ vol' = (vol \/ c \in VolumeUsers)
  /\ UNCHANGED <<phase, strategy, failed, net>>

BeginTest ==
  /\ phase = "setup"
  /\ phase' = "test"
  /\ UNCHANGED <<strategy, failed, owned, net, vol>>

TestOutcome ==
  /\ phase = "test"
  /\ failed' \in BOOLEAN
  /\ UNCHANGED <<phase, strategy, owned, net, vol>>

\* A failure during setup always counts as a failed run.
BeginTeardown ==
  /\ phase \in {"setup", "test"}
  /\ phase' = "teardown"
  /\ failed' \in {failed, TRUE}
  /\ phase = "setup" => failed'
  /\ UNCHANGED <<strategy, owned, net, vol>>

RemoveContainer(c) ==
  /\ phase = "teardown" /\ Mode(strategy, failed) = "remove"
  /\ c \in owned
  /\ owned' = owned \ {c}
  /\ UNCHANGED <<phase, strategy, failed, net, vol>>

\* Releasing the network or the volume may be the run's last step.
RemoveNetwork ==
  /\ phase = "teardown" /\ Mode(strategy, failed) \in {"stop", "remove"}
  /\ net
  /\ net' = FALSE
  /\ phase' \in {"teardown", "done"}
  /\ UNCHANGED <<strategy, failed, owned, vol>>

\* The volume goes only once no container mounting it exists.
RemoveVolume ==
  /\ phase = "teardown" /\ Mode(strategy, failed) = "remove"
  /\ vol /\ owned \cap VolumeUsers = {}
  /\ vol' = FALSE
  /\ phase' \in {"teardown", "done"}
  /\ UNCHANGED <<strategy, failed, owned, net>>

Return ==
  /\ phase # "done"
  /\ phase' = "done"
  /\ UNCHANGED <<strategy, failed, owned, net, vol>>

Next ==
  \/ CreateNetwork \/ \E c \in Ctr : CreateContainer(c)
  \/ BeginTest \/ TestOutcome \/ BeginTeardown
  \/ \E c \in Ctr : RemoveContainer(c)
  \/ RemoveNetwork \/ RemoveVolume \/ Return

Spec == Init /\ [][Next]_avars
=============================================================================

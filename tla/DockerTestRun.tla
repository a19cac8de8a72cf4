---------------------------- MODULE DockerTestRun ----------------------------
(***************************************************************************)
(* One DockerTest run, Runner::run_impl of src/src/runner.rs, against a    *)
(* docker daemon whose every call may fail.                                *)
(*                                                                         *)
(* Actors: the orchestrating task (pc), which resolves, creates, starts    *)
(* the Strict containers one by one, joins, inspects, runs the test body,  *)
(* handles logs and tears down; and one tokio task per Relaxed container   *)
(* (task[c]), spawned by start_relaxed_containers, which keeps running     *)
(* after its JoinHandle is dropped and stops only when the runtime ends    *)
(* with the run (pc = "done").                                             *)
(*                                                                         *)
(* Containers are the compositions 1..N in declaration order; a container  *)
(* is identified by its composition index (its docker id and name are      *)
(* distinct per composition).  Static containers are not part of this      *)
(* module.                                                                 *)
(***************************************************************************)
EXTENDS Keeper, FiniteSets

CONSTANTS
  N,               \* number of compositions added to the DockerTest
  HandleOf,        \* HandleOf[c]: image repository of composition c, its handle
  InjectChoices,   \* possible inject_container_name configurations
  VolumeUsers,     \* compositions that mount the one named volume
  PruneChoices,    \* values DOCKERTEST_PRUNE may resolve to
  ExternalChoices, \* whether DockerTest::with_external_network is set
  InsideChoices,   \* whether DOCKERTEST_CONTAINER_ID_INJECT_TO_NETWORK is set
  LogChoices,      \* the containers' log policy, "None" if no log options
  StaticExternal   \* compositions naming an External static container

Ctr == 1..N
PruneStrategy == {"RunningRegardless", "RunningOnFailure",
                  "StopOnFailure", "RemoveRegardless"}

ASSUME N \in Nat \ {0}
ASSUME DOMAIN HandleOf = Ctr
ASSUME VolumeUsers \subseteq Ctr
ASSUME PruneChoices \subseteq PruneStrategy
ASSUME LogChoices \subseteq {"None", "Always", "OnError"}
ASSUME StaticExternal \subseteq Ctr

VARIABLES
  conf,        \* the run's configuration, fixed in Init
  pc,          \* where the orchestrating task is in run_impl
  keeper,      \* the current Keeper (its kept entries are container indices)
  pending,     \* create_containers' `pending` vector
  snapshot,    \* start_containers' original_ordered_ids
  running,     \* start_containers' running_containers vector
  task,        \* per container: progress of PendingContainer::start
  strictErr,   \* the Strict container whose start failed, 0 if none
  detached,    \* the relaxed JoinHandles were dropped
  cleanup,     \* the cleanup containers handed to teardown
  inspected,   \* number of running containers inspected so far
  failed,      \* test_failed as passed to handle_logs / teardown
  err,         \* the error run_impl returns, or NoError
  inflight,    \* containers whose stop/remove call of join_all is pending
  engine,      \* per container: its state on the docker daemon
  network,     \* the run's network exists on the daemon
  selfOnNet,   \* the dockertest container is connected to that network
  volume,      \* the named volume exists on the daemon
  hist         \* history: what the run created and what teardown issued

vars == <<conf, pc, keeper, pending, snapshot, running, task, strictErr,
          detached, cleanup, inspected, failed, err, inflight, engine,
          network, selfOnNet, volume, hist>>

NoError == [stage |-> "none", ctr |-> 0]
Error(stage, c) == [stage |-> stage, ctr |-> c]

(***************************************************************************)
(* Composition::create returns None for an External static container: it  *)
(* already runs outside the run, is never created, started or removed by   *)
(* it, and STATIC_CONTAINERS.external_containers() hands it back after the *)
(* start phase.  The other compositions are the run's own.                 *)
(***************************************************************************)
Managed == Ctr \ StaticExternal

Strict  == {c \in Managed : conf.policy[c] = "Strict"}
Relaxed == Managed \ Strict

\* The teardown branch the prune strategy and the outcome select.
LeaveRunningOnSuccess == \/ conf.prune = "RunningRegardless"
                         \/ conf.prune = "RunningOnFailure" /\ ~failed

LeaveRunning == \/ conf.prune = "RunningRegardless"
                \/ conf.prune = "RunningOnFailure" /\ failed
StopOnly     == conf.prune = "StopOnFailure" /\ failed

\* The network has an active endpoint: the dockertest container is
\* connected (self) or a container of the run is running on it.
ActiveEndpoint(self) == self \/ \E c \in Managed : engine[c] = "running"

-----------------------------------------------------------------------------
(***************************************************************************)
(* Configuration and initial state: nothing exists on the daemon yet.      *)
(***************************************************************************)
Init ==
  /\ conf \in [policy : [Ctr -> {"Strict", "Relaxed"}],
               inject : InjectChoices,
               prune : PruneChoices,
               external : ExternalChoices,
               inside : InsideChoices,
               logs : LogChoices]
  /\ pc = "resolve"
  /\ keeper = Rekeep([lookup_collisions |-> {}, lookup_handlers |-> <<>>], <<>>)
  /\ pending = <<>>
  /\ snapshot = <<>>
  /\ running = <<>>
  /\ task = [c \in Ctr |-> "none"]
  /\ strictErr = 0
  /\ detached = FALSE
  /\ cleanup = {}
  /\ inspected = 0
  /\ failed = FALSE
  /\ err = NoError
  /\ inflight = {}
  /\ engine = [c \in Ctr |-> "none"]
  /\ network = FALSE
  /\ selfOnNet = FALSE
  /\ volume = FALSE
  /\ hist = [created |-> {}, netCreated |-> FALSE, tornDown |-> FALSE,
             stopIssued |-> {}, stopOk |-> {}, removeIssued |-> {},
             netRemoveTried |-> FALSE, volRemoveTried |-> FALSE]

TypeOK ==
  /\ pc \in {"resolve", "network", "add_self", "create", "strict", "inspect",
             "body", "logs", "teardown", "stopping", "removing",
             "net_teardown", "volumes", "done"}
  /\ task \in [Ctr -> {"none", "spawned", "waiting", "ready", "failed"}]
  /\ engine \in [Ctr -> {"none", "created", "running", "stopped"}]
  /\ strictErr \in 0..N /\ inspected \in 0..N
  /\ cleanup \subseteq Ctr /\ inflight \subseteq cleanup
  /\ pending \in Seq(Ctr) /\ running \in Seq(Ctr) /\ snapshot \in Seq(Ctr)
  /\ {failed, detached, network, selfOnNet, volume} \subseteq BOOLEAN

-----------------------------------------------------------------------------
(***************************************************************************)
(* Resolution: check_if_inside_container, resolve_named_volumes,           *)
(* validate_composition_handlers, resolve_final_container_name,            *)
(* resolve_inject_container_name_env, then pull_images (whose errors are   *)
(* dropped; a failed pull surfaces as a create failure).  Nothing exists   *)
(* on the daemon yet, so the injection error returns without teardown.     *)
(***************************************************************************)
Compositions(inject) ==
  [c \in Ctr |-> [repository |-> HandleOf[c], user_name |-> <<>>,
                  name |-> <<>>, env |-> <<>>, inject |-> inject[c]]]

\* The handles of this instance are repositories without a '/'.
NoSlash == [n \in Range(HandleOf) |-> n]

\* Keeper<Composition> and the injection result of each configuration.  The
\* compositions carry no user name, so Handle of composition c is HandleOf[c].
Validated(inject) == ValidateCompositionHandlers(HandleOf, Compositions(inject))
Resolution == [inject \in InjectChoices |->
                ResolveInjectContainerNameEnv(
                  ResolveFinalContainerName(Validated(inject), NoSlash))]

Resolve ==
  LET r == Resolution[conf.inject]
  IN  /\ pc = "resolve"
      /\ IF r.ok
         THEN /\ keeper' = Rekeep(Validated(conf.inject), [c \in Ctr |-> c])
              /\ pc' = IF conf.external THEN "create" ELSE "network"
              /\ UNCHANGED err
         ELSE /\ err' = Error("resolve", r.error[1])
              /\ pc' = "done"
              /\ UNCHANGED keeper
      /\ UNCHANGED <<conf, pending, snapshot, running, task, strictErr,
                     detached, cleanup, inspected, failed, inflight, engine,
                     network, selfOnNet, volume, hist>>

(***************************************************************************)
(* Runner::create_network: create the network; when running inside a       *)
(* container, add_self_to_network follows whatever the create returned.    *)
(***************************************************************************)
CreateNetwork ==
  /\ pc = "network"
  /\ \E ok \in BOOLEAN :
       /\ network' = ok
       /\ hist' = [hist EXCEPT !.netCreated = ok]
       /\ err' = IF ok THEN err ELSE Error("network", 0)
       /\ pc' = IF conf.inside THEN "add_self"
                ELSE IF ok THEN "create" ELSE "done"
  /\ UNCHANGED <<conf, keeper, pending, snapshot, running, task, strictErr,
                 detached, cleanup, inspected, failed, inflight, engine,
                 selfOnNet, volume>>

\* Runner::add_self_to_network; its error returns at once (the `?`).
AddSelfToNetwork ==
  /\ pc = "add_self"
  /\ \E ok \in BOOLEAN :
       /\ ok => network
       /\ selfOnNet' = ok
       /\ err' = IF ok THEN err ELSE Error("add_self", 0)
       /\ pc' = IF ok /\ err = NoError THEN "create" ELSE "done"
  /\ UNCHANGED <<conf, keeper, pending, snapshot, running, task, strictErr,
                 detached, cleanup, inspected, failed, inflight, engine,
                 network, volume, hist>>

(***************************************************************************)
(* run_impl on an error of create_containers or start_containers: the      *)
(* containers handed back become the cleanup set, teardown runs as for a   *)
(* failed test, and the error is returned.                                 *)
(***************************************************************************)
HandToTeardown(cset, e) ==
  /\ cleanup' = cset
  /\ failed' = TRUE
  /\ err' = e
  /\ pc' = "teardown"

(***************************************************************************)
(* Composition::create: a leftover container of the same name is looked up *)
(* and force-removed (none exists, as every name carries a fresh suffix,   *)
(* and a failed lookup is Recoverable and ignored); a composition whose    *)
(* image id is empty, because pull_images dropped the pull's error, is     *)
(* refused; then create_container is issued.  Either of the last two may   *)
(* fail, and the failure is returned.                                      *)
(***************************************************************************)
CreateOutcomes == BOOLEAN

(***************************************************************************)
(* Runner::create_containers, one iteration per composition, in order.  A *)
(* failure hands the containers created so far to teardown.  Docker        *)
(* creates the named volume with the first container mounting it.          *)
(***************************************************************************)
\* The next composition of the loop that yields a container: the first
\* one not yet created, External ones skipped.
NextToCreatePastEnd == {Len(pending) + 1}

NextToCreate ==
  {c \in Managed \ ToSet(pending) :
     \A d \in Managed : d < c => d \in ToSet(pending)}

CreateContainer ==
  \E c \in NextToCreate, created \in CreateOutcomes :
      /\ pc = "create"
      /\ IF created
         THEN /\ engine' = [engine EXCEPT ![c] = "created"]
              /\ volume' = (volume \/ c \in VolumeUsers)
              /\ pending' = Append(pending, c)
              /\ hist' = [hist EXCEPT !.created = @ \cup {c}]
              /\ UNCHANGED <<pc, cleanup, failed, err>>
         ELSE /\ HandToTeardown(ToSet(pending), Error("create", c))
              /\ UNCHANGED <<engine, volume, pending, hist>>
      /\ UNCHANGED <<conf, keeper, snapshot, running, task, strictErr,
                     detached, inspected, inflight, network, selfOnNet>>

(***************************************************************************)
(* The end of create_containers (Keeper<PendingContainer> over the same    *)
(* tables) and the first half of Runner::start_containers: snapshot the    *)
(* ids, partition by StartPolicy, copy every pending container into the    *)
(* cleanup vector, and spawn one task per Relaxed container.               *)
(***************************************************************************)
StartContainersStrictCleanup ==
  /\ pc = "create"
  /\ NextToCreate = {}
  /\ keeper' = Rekeep(keeper, pending)
  /\ snapshot' = pending
  /\ cleanup' = ToSet(pending) \cap Strict
  /\ task' = [c \in Ctr |-> IF c \in Relaxed THEN "spawned" ELSE "none"]
  /\ pc' = "strict"
  /\ UNCHANGED <<conf, pending, running, strictErr, detached, inspected,
                 failed, err, inflight, engine, network, selfOnNet, volume,
                 hist>>

StartContainers ==
  /\ pc = "create"
  /\ NextToCreate = {}
  /\ keeper' = Rekeep(keeper, pending)
  /\ snapshot' = pending
  /\ cleanup' = ToSet(pending)
  /\ task' = [c \in Ctr |-> IF c \in Relaxed THEN "spawned" ELSE "none"]
  /\ pc' = "strict"
  /\ UNCHANGED <<conf, pending, running, strictErr, detached, inspected,
                 failed, err, inflight, engine, network, selfOnNet, volume,
                 hist>>

(***************************************************************************)
(* The daemon's start_container: a created or stopped container starts,    *)
(* unless the call fails; starting a removed container always fails.      *)
(***************************************************************************)
StartOutcomes(c) ==
  IF engine[c] \in {"created", "stopped"} THEN BOOLEAN ELSE {FALSE}

(***************************************************************************)
(* start_strict_containers: the next Strict container in declaration      *)
(* order is started and awaited (start_internal: start_container, then     *)
(* wait_for_ready) before the one after it; the first failure breaks the   *)
(* loop.  Each of the two awaits is one step.                              *)
(***************************************************************************)
NextStrict ==
  {c \in Strict : task[c] = "none" /\ \A d \in Strict : d < c => task[d] = "ready"}

StrictStart(c) ==
  /\ pc = "strict"
  /\ c \in NextStrict
  /\ \E ok \in StartOutcomes(c) :
       /\ engine' = IF ok THEN [engine EXCEPT ![c] = "running"] ELSE engine
       /\ task' = [task EXCEPT ![c] = IF ok THEN "waiting" ELSE "failed"]
       /\ strictErr' = IF ok THEN 0 ELSE c
  /\ UNCHANGED <<conf, pc, keeper, pending, snapshot, running, detached,
                 cleanup, inspected, failed, err, inflight, network,
                 selfOnNet, volume, hist>>

StrictReady(c) ==
  /\ pc = "strict"
  /\ c \in Strict
  /\ task[c] = "waiting"
  /\ \/ /\ task' = [task EXCEPT ![c] = "ready"]
        /\ running' = Append(running, c)
        /\ UNCHANGED strictErr
     \/ /\ task' = [task EXCEPT ![c] = "failed"]
        /\ strictErr' = c
        /\ UNCHANGED running
  /\ UNCHANGED <<conf, pc, keeper, pending, snapshot, detached, cleanup,
                 inspected, failed, err, inflight, engine, network,
                 selfOnNet, volume, hist>>

(***************************************************************************)
(* A spawned Relaxed task running PendingContainer::start: start_container *)
(* then wait_for_ready.  Tasks run concurrently with each other and with   *)
(* the orchestrator, also after their handles were dropped, until the run  *)
(* returns.                                                                *)
(***************************************************************************)
RelaxedStart(c) ==
  /\ pc # "done"
  /\ task[c] = "spawned"
  /\ \E ok \in StartOutcomes(c) :
       /\ engine' = IF ok THEN [engine EXCEPT ![c] = "running"] ELSE engine
       /\ task' = [task EXCEPT ![c] = IF ok THEN "waiting" ELSE "failed"]
  /\ UNCHANGED <<conf, pc, keeper, pending, snapshot, running, strictErr,
                 detached, cleanup, inspected, failed, err, inflight,
                 network, selfOnNet, volume, hist>>

RelaxedReady(c) ==
  /\ pc # "done"
  /\ c \in Relaxed
  /\ task[c] = "waiting"
  /\ \E ok \in BOOLEAN : task' = [task EXCEPT ![c] = IF ok THEN "ready" ELSE "failed"]
  /\ UNCHANGED <<conf, pc, keeper, pending, snapshot, running, strictErr,
                 detached, cleanup, inspected, failed, err, inflight, engine,
                 network, selfOnNet, volume, hist>>

(***************************************************************************)
(* The second half of start_containers: wait_for_relaxed_containers and    *)
(* the choice of the error.  After a Strict failure the relaxed handles    *)
(* are dropped unjoined (the tasks keep running) and the Strict error is   *)
(* returned.  Otherwise join_all awaits every relaxed task and yields the  *)
(* results in spawn order, i.e. relaxed declaration order; the first error *)
(* in that order is kept.  On success the running vector (Strict ones in   *)
(* the order they became ready, then the relaxed ones) is sorted back into *)
(* the snapshot order and Keeper<RunningContainer> is built over it; its   *)
(* containers are the cleanup set of the rest of the run.                  *)
(***************************************************************************)
StrictPhaseOver == strictErr # 0 \/ \A c \in Strict : task[c] = "ready"
RelaxedInOrder  == SelectSeq(snapshot, LAMBDA c : c \in Relaxed)
LastRelaxedError ==
  SelectLastInSeq(RelaxedInOrder, LAMBDA c : task[c] = "failed")

FirstRelaxedError ==
  SelectInSeq(RelaxedInOrder, LAMBDA c : task[c] = "failed")

\* The collected running vector, Strict ones then relaxed ones in join
\* order, sorted back into the snapshot order.
RunningAsJoined == running \o RelaxedInOrder

\* STATIC_CONTAINERS.external_containers(), appended after the sort.
ExternalContainers == SelectSeq([c \in Ctr |-> c], LAMBDA c : c \in StaticExternal)

RunningInOrder ==
  SortRunningContainersIntoInsertionOrder(running \o RelaxedInOrder, snapshot)

WaitForRelaxed ==
  /\ pc = "strict"
  /\ StrictPhaseOver
  /\ IF strictErr # 0
     THEN /\ detached' = TRUE
          /\ HandToTeardown(cleanup, Error("start", strictErr))
          /\ UNCHANGED <<keeper, running>>
     ELSE /\ \A c \in Relaxed : task[c] \in {"ready", "failed"}
          /\ IF FirstRelaxedError # 0
             THEN /\ HandToTeardown(cleanup,
                                    Error("start", RelaxedInOrder[FirstRelaxedError]))
                  /\ UNCHANGED <<keeper, running>>
             ELSE /\ running' = RunningInOrder \o ExternalContainers
                  /\ keeper' = Rekeep(keeper, running')
                  /\ cleanup' = ToSet(RunningInOrder)
                  /\ pc' = "inspect"
                  /\ UNCHANGED <<err, failed>>
          /\ UNCHANGED detached
  /\ UNCHANGED <<conf, pending, snapshot, task, strictErr, inspected,
                 inflight, engine, network, selfOnNet, volume, hist>>

(***************************************************************************)
(* The inspection loop of run_impl: inspect_container for each running     *)
(* container in order, then the host port conversion.  Either failing     *)
(* tears down the cleanup containers as failed and returns the error.      *)
(***************************************************************************)
InspectContainer ==
  /\ pc = "inspect"
  /\ inspected < Len(keeper.kept)
  /\ \/ /\ inspected' = inspected + 1
        /\ pc' = IF inspected + 1 = Len(keeper.kept) THEN "body" ELSE "inspect"
        /\ UNCHANGED <<failed, err>>
     \/ /\ failed' = TRUE
        /\ err' = Error("inspect", keeper.kept[inspected + 1])
        /\ pc' = "teardown"
        /\ UNCHANGED inspected
  /\ UNCHANGED <<conf, keeper, pending, snapshot, running, task, strictErr,
                 detached, cleanup, inflight, engine, network, selfOnNet,
                 volume, hist>>

(***************************************************************************)
(* The test body, spawned on its own task over DockerOperations; a panic,  *)
(* including one from DockerOperations::handle or failure, is caught by    *)
(* the join and makes the run failed.                                      *)
(***************************************************************************)
RunTestBody ==
  /\ pc = "body"
  /\ \E h \in Range(HandleOf), fails \in BOOLEAN :
       LET panicked == fails \/ HandlePanics(keeper, h)
       IN  /\ failed' = panicked
           /\ err' = IF panicked THEN Error("body", 0) ELSE err
  /\ pc' = "logs"
  /\ UNCHANGED <<conf, keeper, pending, snapshot, running, task, strictErr,
                 detached, cleanup, inspected, inflight, engine, network,
                 selfOnNet, volume, hist>>

(***************************************************************************)
(* Runner::handle_logs over the cleanup containers: with policy Always, or *)
(* OnError after a failed test, the logs are read and written; a failure   *)
(* is returned with `?` by run_impl, before teardown is called.            *)
(***************************************************************************)
LogsApply == conf.logs = "Always" \/ (conf.logs = "OnError" /\ failed)

(***************************************************************************)
(* CleanupContainer::handle_log: creating the log file (ForwardToFile),    *)
(* reading the daemon's log stream and writing each line can each fail     *)
(* with LogWriteError, which ends the loop.                                *)
(***************************************************************************)
HandleLogOutcomes == BOOLEAN

HandleLogs ==
  /\ pc = "logs"
  /\ \E ok \in HandleLogOutcomes :
       IF LogsApply /\ ~ok
       THEN /\ err' = Error("logs", 0)
            /\ pc' = "done"
       ELSE /\ pc' = "teardown"
            /\ UNCHANGED err
  /\ UNCHANGED <<conf, keeper, pending, snapshot, running, task, strictErr,
                 detached, cleanup, inspected, failed, inflight, engine,
                 network, selfOnNet, volume, hist>>

(***************************************************************************)
(* Runner::teardown.  (The static containers of the cleanup set go to      *)
(* STATIC_CONTAINERS.cleanup, modelled in StaticPool, and are filtered     *)
(* out, so cleanup holds only the run's own containers.)  The prune        *)
(* strategy read from DOCKERTEST_PRUNE selects: leave everything; stop     *)
(* every container with one join_all and remove the network; or           *)
(* force-remove every container with one join_all, then the network, then *)
(* the volumes.                                                            *)
(***************************************************************************)
Teardown ==
  /\ pc = "teardown"
  /\ CASE LeaveRunning -> /\ pc' = "done"
                          /\ UNCHANGED inflight
                          /\ hist' = [hist EXCEPT !.tornDown = TRUE]
       [] StopOnly     -> /\ pc' = "stopping"
                          /\ inflight' = cleanup
                          /\ hist' = [hist EXCEPT !.tornDown = TRUE,
                                                  !.stopIssued = cleanup]
       [] OTHER        -> /\ pc' = "removing"
                          /\ inflight' = cleanup
                          /\ hist' = [hist EXCEPT !.tornDown = TRUE,
                                                  !.removeIssued = cleanup]
  /\ UNCHANGED <<conf, keeper, pending, snapshot, running, task, strictErr,
                 detached, cleanup, inspected, failed, err, engine, network,
                 selfOnNet, volume>>

\* One stop_container call of the join_all completes; its error is ignored.
StopContainer(c) ==
  /\ pc = "stopping"
  /\ c \in inflight
  /\ \E ok \in BOOLEAN :
       /\ engine' = [engine EXCEPT ![c] =
                       IF ok /\ @ = "running" THEN "stopped" ELSE @]
       /\ hist' = [hist EXCEPT !.stopOk = IF ok THEN @ \cup {c} ELSE @]
  /\ inflight' = inflight \ {c}
  /\ UNCHANGED <<conf, pc, keeper, pending, snapshot, running, task,
                 strictErr, detached, cleanup, inspected, failed, err,
                 network, selfOnNet, volume>>

\* One forced remove_container call of the join_all completes; its error is ignored.
RemoveContainer(c) ==
  /\ pc = "removing"
  /\ c \in inflight
  /\ \E ok \in BOOLEAN :
       engine' = [engine EXCEPT ![c] = IF ok THEN "none" ELSE @]
  /\ inflight' = inflight \ {c}
  /\ UNCHANGED <<conf, pc, keeper, pending, snapshot, running, task,
                 strictErr, detached, cleanup, inspected, failed, err,
                 network, selfOnNet, volume, hist>>

\* join_all returned: the network is next, unless it is external.
JoinAllDone ==
  /\ pc \in {"stopping", "removing"}
  /\ inflight = {}
  /\ pc' = CASE ~conf.external -> "net_teardown"
             [] pc = "removing" -> "volumes"
             [] OTHER           -> "done"
  /\ UNCHANGED <<conf, keeper, pending, snapshot, running, task, strictErr,
                 detached, cleanup, inspected, failed, err, inflight, engine,
                 network, selfOnNet, volume, hist>>

(***************************************************************************)
(* Runner::teardown_network: disconnect the dockertest container (forced)  *)
(* when inside one, then remove_network, which the daemon refuses while    *)
(* the network has an active endpoint.  Both errors are only logged.       *)
(***************************************************************************)
TeardownNetwork ==
  /\ pc = "net_teardown"
  /\ \E disconnected \in IF conf.inside /\ selfOnNet THEN BOOLEAN ELSE {TRUE} :
     \E removed \in BOOLEAN :
       /\ selfOnNet' = (selfOnNet /\ ~disconnected)
       /\ removed => ~ActiveEndpoint(selfOnNet')
       /\ network' = (network /\ ~removed)
  /\ hist' = [hist EXCEPT !.netRemoveTried = TRUE]
  /\ pc' = IF StopOnly THEN "done" ELSE "volumes"
  /\ UNCHANGED <<conf, keeper, pending, snapshot, running, task, strictErr,
                 detached, cleanup, inspected, failed, err, inflight, engine,
                 volume>>

(***************************************************************************)
(* The forced remove_volume of every named volume, after the containers:   *)
(* the daemon refuses it while a container using the volume exists.        *)
(***************************************************************************)
RemoveVolumes ==
  /\ pc = "volumes"
  /\ \E removed \in BOOLEAN :
       /\ removed => \A c \in VolumeUsers : engine[c] = "none"
       /\ volume' = (volume /\ ~removed)
  /\ hist' = [hist EXCEPT !.volRemoveTried = TRUE]
  /\ pc' = "done"
  /\ UNCHANGED <<conf, keeper, pending, snapshot, running, task, strictErr,
                 detached, cleanup, inspected, failed, err, inflight, engine,
                 network, selfOnNet>>

\* run_impl has returned (or resumed the test's panic); the runtime is gone.
Finished ==
  /\ pc = "done"
  /\ UNCHANGED vars

-----------------------------------------------------------------------------
Next ==
  \/ Resolve \/ CreateNetwork \/ AddSelfToNetwork
  \/ CreateContainer \/ StartContainers
  \/ \E c \in Ctr : StrictStart(c) \/ StrictReady(c)
  \/ \E c \in Ctr : RelaxedStart(c) \/ RelaxedReady(c)
  \/ WaitForRelaxed \/ InspectContainer \/ RunTestBody \/ HandleLogs
  \/ Teardown \/ JoinAllDone \/ TeardownNetwork \/ RemoveVolumes
  \/ \E c \in Ctr : StopContainer(c) \/ RemoveContainer(c)
  \/ Finished

(***************************************************************************)
(* No fairness is assumed: every property of this module is a safety      *)
(* property or the refinement of RunLifecycle, whose specification has no *)
(* fairness either.                                                        *)
(***************************************************************************)
Spec == Init /\ [][Next]_vars

-----------------------------------------------------------------------------
(***************************************************************************)
(* Properties.                                                             *)
(***************************************************************************)

(***************************************************************************)
(* Teardown follows the prune table for everything the run created, on    *)
(* every path that reaches it (create failure, Strict or Relaxed start     *)
(* failure, inspect failure, passed or failed test): when the strategy     *)
(* removes, a remove was issued for every container the run created on     *)
(* the daemon, and removal of the network it created and of the volume     *)
(* was attempted; when it stops, a stop was issued for every created       *)
(* container, the network removal was attempted and nothing was removed;   *)
(* when it leaves things running, no call was issued at all.  This is what *)
(* start_containers' and create_containers' cleanup vectors are for.       *)
(***************************************************************************)
TeardownFollowsPruneTable ==
  pc = "done" /\ hist.tornDown =>
    CASE LeaveRunning ->
           /\ hist.stopIssued = {} /\ hist.removeIssued = {}
           /\ ~hist.netRemoveTried /\ ~hist.volRemoveTried
      [] StopOnly ->
           /\ hist.created \subseteq hist.stopIssued
           /\ hist.removeIssued = {} /\ ~hist.volRemoveTried
           /\ hist.netCreated => hist.netRemoveTried
      [] OTHER ->
           /\ hist.created \subseteq hist.removeIssued
           /\ hist.stopIssued = {} /\ hist.volRemoveTried
           /\ hist.netCreated => hist.netRemoveTried

(***************************************************************************)
(* Error priority (start_containers): the start error reported is the     *)
(* failed Strict container's if one failed, otherwise the first failed     *)
(* Relaxed container in declaration order, whatever order the tasks        *)
(* finished in.                                                            *)
(***************************************************************************)
StartErrorPriority ==
  err.stage = "start" =>
    IF \E c \in Strict : task[c] = "failed"
    THEN err.ctr \in Strict /\ task[err.ctr] = "failed"
    ELSE err.ctr = Min({c \in Relaxed : task[c] = "failed"})

(***************************************************************************)
(* Order and handles (start_containers, DockerOperations::try_handle):     *)
(* once the containers run, Keeper<RunningContainer> keeps them in         *)
(* declaration order however the Strict and Relaxed starts interleaved,   *)
(* and External static containers are added to it, so every handle that   *)
(* resolves yields the container that carries it.                          *)
(***************************************************************************)
HandlesResolveToTheirContainer ==
  pc \in {"inspect", "body", "logs"} =>
    \A h \in Range(HandleOf) :
         LET r == TryHandle(keeper, h)
         IN  r.status = "ok" => HandleOf[r.value] = h

(***************************************************************************)
(* Teardown is never skipped (spec section 7: every error degrades to a   *)
(* full teardown of what was created): a run that created a container or  *)
(* its network ends having run teardown.                                   *)
(***************************************************************************)
TeardownAlwaysRuns ==
  pc = "done" /\ (hist.created # {} \/ hist.netCreated) => hist.tornDown

(***************************************************************************)
(* StopOnFailure on a failed test stops the containers (spec 4.4): when    *)
(* the run ends, no container that teardown stopped is running again.      *)
(***************************************************************************)
StoppedContainersStayStopped ==
  pc = "done" /\ StopOnly /\ hist.tornDown =>
    \A c \in hist.stopOk : engine[c] # "running"
(***************************************************************************)
(* First error reported (spec section 7: the orchestrator reports the     *)
(* first error): once run_impl has an error to return, no later step       *)
(* replaces it with another.                                               *)
(***************************************************************************)
FirstErrorIsReported ==
  [][err # NoError => err' = err]_vars

(***************************************************************************)
(* Network after containers (spec section 8): when teardown removes the    *)
(* containers, the remove_network call of teardown_network is never made   *)
(* while a container of the run still exists on the daemon.                *)
(***************************************************************************)
NetworkRemovalAfterContainersGone ==
  pc = "net_teardown" /\ ~StopOnly => \A c \in Ctr : engine[c] = "none"
-----------------------------------------------------------------------------
(***************************************************************************)
(* Refinement: the run implements RunLifecycle.  The phase is read off     *)
(* run_impl's position, the owned containers are those the daemon holds.   *)
(***************************************************************************)
Phase ==
  CASE pc \in {"resolve", "network", "add_self", "create", "strict"} -> "setup"
    [] pc \in {"inspect", "body", "logs"}                          -> "test"
    [] pc = "done"                                                 -> "done"
    [] OTHER                                                       -> "teardown"

Lifecycle == INSTANCE RunLifecycle
               WITH phase <- Phase, strategy <- conf.prune, failed <- failed,
                    owned <- {c \in Managed : engine[c] # "none"},
                    net <- network, vol <- volume

(***************************************************************************)
(* Resource lifecycle (run_impl with create_containers and teardown): the *)
(* run only creates while setting up, only releases while tearing down,    *)
(* and releases only what the prune table allows for its strategy and      *)
(* outcome; the volume only after its containers.                          *)
(***************************************************************************)
LifecycleSpec == Lifecycle!Spec
=============================================================================

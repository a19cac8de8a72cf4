----------------------------- MODULE StaticPool -----------------------------
(***************************************************************************)
(* One Dynamic static container shared by the concurrently running tests   *)
(* of a test binary (STATIC_CONTAINERS), and what each run does with it.   *)
(*                                                                         *)
(* The pool itself lives in static_container.rs, which is not part of the  *)
(* sources modelled here; it is modelled from the design of spec sections *)
(* 4.4, 5 and 9: a map from the container's identity to a reference count *)
(* and its state on the daemon, behind a lock that serializes the start   *)
(* and cleanup decisions of that identity.  The run's side is taken from   *)
(* runner.rs and container.rs: PendingContainer::start delegates a static *)
(* container to the pool (container.rs 375-376); run_impl returns a log   *)
(* error before teardown (runner.rs 342-343); teardown passes every static *)
(* container of its cleanup vector to STATIC_CONTAINERS.cleanup, whatever *)
(* the prune strategy (runner.rs 676-698).                                 *)
(*                                                                         *)
(* A run counts as a holder from the moment the pool hands it the         *)
(* container until its teardown releases it.  The holders are the          *)
(* reference count.  The last release removes the container, and the lock *)
(* is held across the daemon call.  The run's own containers and network  *)
(* are left out: DockerTestRun models them.                                *)
(***************************************************************************)
EXTENDS Naturals, FiniteSets

CONSTANTS
  Runs,       \* the concurrently running tests that declare the container
  NoRun,      \* the lock is free
  LogErrors   \* a run may log its containers, and the log write may fail

ASSUME NoRun \notin Runs
ASSUME LogErrors \in BOOLEAN

VARIABLES
  rpc,       \* rpc[r]: where run r is
  held,      \* the runs holding a reference: the reference count
  status,    \* the container on the daemon: "none", "created", "running"
  lock       \* the run holding the identity's lock across a daemon call

vars == <<rpc, held, status, lock>>

Phases == {"create", "start", "test", "teardown", "done"}

Init ==
  /\ rpc = [r \in Runs |-> "create"]
  /\ held = {}
  /\ status = "none"
  /\ lock = NoRun

TypeOK ==
  /\ rpc \in [Runs -> Phases]
  /\ held \subseteq {r \in Runs : rpc[r] \in {"start", "test", "teardown"}}
  /\ status \in {"none", "created", "running"}
  /\ lock \in Runs \cup {NoRun}

(***************************************************************************)
(* Composition::create of a static composition: the first run creates the *)
(* container, later ones reuse it; either way the run is counted.  A      *)
(* failed create leaves nothing for this run's cleanup vector, and         *)
(* create_containers hands the run to teardown.                            *)
(***************************************************************************)
CreateStatic(r) ==
  /\ rpc[r] = "create" /\ lock = NoRun
  /\ \E ok \in BOOLEAN :
       /\ ok \/ status = "none"
       /\ status' = IF ok /\ status = "none" THEN "created" ELSE status
       /\ held' = IF ok THEN held \cup {r} ELSE held
       /\ rpc' = [rpc EXCEPT ![r] = IF ok THEN "start" ELSE "teardown"]
  /\ UNCHANGED lock

(***************************************************************************)
(* PendingContainer::start of a static container goes to the pool: a      *)
(* container another run already started is handed back as it is, and a  *)
(* created one is started by this run under the lock.                      *)
(***************************************************************************)
StartStatic(r) ==
  /\ rpc[r] = "start" /\ lock = NoRun
  /\ \/ /\ status = "running"
        /\ rpc' = [rpc EXCEPT ![r] = "test"]
        /\ UNCHANGED lock
     \/ /\ status = "created"
        /\ lock' = r
        /\ UNCHANGED rpc
  /\ UNCHANGED <<held, status>>

\* The awaited start_internal returns; the lock is dropped with the guard.
StartDone(r) ==
  /\ rpc[r] = "start" /\ lock = r
  /\ \E ok \in BOOLEAN :
       /\ status' = IF ok THEN "running" ELSE status
       /\ rpc' = [rpc EXCEPT ![r] = IF ok THEN "test" ELSE "teardown"]
  /\ lock' = NoRun
  /\ UNCHANGED held

(***************************************************************************)
(* Inspection, the test body and handle_logs; the container is only read. *)
(* A log error is returned with `?` before teardown is called (runner.rs   *)
(* 342-343), so that run never reaches STATIC_CONTAINERS.cleanup.          *)
(***************************************************************************)
RunTest(r) ==
  /\ rpc[r] = "test"
  /\ \E logFails \in IF LogErrors THEN BOOLEAN ELSE {FALSE} :
       rpc' = [rpc EXCEPT ![r] = IF logFails THEN "done" ELSE "teardown"]
  /\ UNCHANGED <<held, status, lock>>

ReleaseOffByOne(r) ==
  /\ rpc[r] = "teardown" /\ lock = NoRun
  /\ held' = held \ {r}
  /\ IF r \in held /\ Cardinality(held') <= 1 /\ status # "none"
       THEN lock' = r /\ UNCHANGED rpc
       ELSE rpc' = [rpc EXCEPT ![r] = "done"] /\ UNCHANGED lock
  /\ UNCHANGED status

Release(r) ==
  /\ rpc[r] = "teardown" /\ lock = NoRun
  /\ held' = held \ {r}
  /\ IF r \in held /\ held' = {} /\ status # "none"
       THEN lock' = r /\ UNCHANGED rpc
       ELSE rpc' = [rpc EXCEPT ![r] = "done"] /\ UNCHANGED lock
  /\ UNCHANGED status

\* The forced removal returns; its error is discarded, as in teardown.
RemoveDone(r) ==
  /\ rpc[r] = "teardown" /\ lock = r
  /\ \E ok \in BOOLEAN : status' = IF ok THEN "none" ELSE status
  /\ rpc' = [rpc EXCEPT ![r] = "done"]
  /\ lock' = NoRun
  /\ UNCHANGED held

Step(r) ==
  \/ CreateStatic(r) \/ StartStatic(r) \/ StartDone(r)
  \/ RunTest(r) \/ Release(r) \/ RemoveDone(r)

\* The test binary exits once every test has returned.
Finished ==
  /\ \A r \in Runs : rpc[r] = "done"
  /\ UNCHANGED vars

Next == (\E r \in Runs : Step(r)) \/ Finished

(***************************************************************************)
(* Every test runs on its own thread and runtime, and the pool's lock      *)
(* queues its waiters, so a run that can go on eventually does.  Each run  *)
(* has finitely many steps, so weak fairness suffices even for the steps   *)
(* that wait for the lock.                                                 *)
(***************************************************************************)
Spec == Init /\ [][Next]_vars /\ \A r \in Runs : WF_vars(Step(r))

(***************************************************************************)
(* One run's teardown never removes the container while another run still *)
(* depends on it: every run holding a reference finds the container on the *)
(* daemon, and every run in its test phase finds it running.               *)
(***************************************************************************)
NoRemovalWhileInUse ==
  /\ held # {} => status # "none"
  /\ \A r \in Runs : rpc[r] = "test" => status = "running"

(***************************************************************************)
(* Reference counting balances: once every run has finished, no reference *)
(* is left and the lock is free, so the container's last release happened *)
(* and issued the removal.  A run that returns before teardown             *)
(* (runner.rs 343) breaks it.                                              *)
(***************************************************************************)
ReferencesDrain ==
  <>[](/\ \A r \in Runs : rpc[r] = "done"
       /\ held = {}
       /\ lock = NoRun)
=============================================================================

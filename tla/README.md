# TLA+ models of dockertest-rs

These modules model the orchestration engine of dockertest-rs (`src/src/runner.rs`, with `src/src/container.rs` and `src/src/composition.rs`). TLC checks them.

## The system

One `DockerTest` run (`Runner::run_impl`) goes through these stages:

1. **Resolution.** `check_if_inside_container` runs first. Then `resolve_named_volumes` gives every bare volume name the suffix `-ID`. `validate_composition_handlers` builds the `Keeper` handle table, `resolve_final_container_name` gives each composition a unique name, and `resolve_inject_container_name_env` writes the finalized names of other compositions into env vars. `pull_images` drops every error.
2. **Network.** `create_network`, then `add_self_to_network` when running inside a container. This is skipped for an external network.
3. **Creation.** `create_containers` calls `Composition::create` for each composition in order. The first failure hands the containers created so far to teardown.
4. **Start.** `start_containers` partitions the containers by `StartPolicy`. It spawns one tokio task per Relaxed container and runs the Strict ones one by one, stopping at the first failure. Then `wait_for_relaxed_containers` either joins the tasks or, after a Strict failure, drops their handles. Either way the tasks keep running. The first error is chosen (Strict before Relaxed, then declaration order). On success the containers are sorted back into declaration order, and `Keeper<RunningContainer>` reuses the handle tables.
5. **Inspection.** Each running container is inspected and its ports converted. A failure tears down.
6. **Test body.** The test body runs on its own task. A panic, including a failed `DockerOperations::handle`, marks the run failed.
7. **Logs.** `handle_logs` walks the cleanup containers in order. For each one whose log policy applies (Always, or OnError after a failed test), `handle_log` creates the log file if the action forwards to a file, then reads the daemon's log stream and writes each line to stdout, stderr or the file (`handle_log_line`). The first error is returned with `?`.
8. **Teardown.** The prune strategy read from `DOCKERTEST_PRUNE` decides: leave everything running; stop every container and remove the network; or force-remove every container, then the network, then the named volumes. Every daemon error is ignored.

The actors are the orchestrating task and one task per Relaxed container. They interact through the docker daemon, where a container is none, created, running or stopped.

## Modules

| Module | Models | State and actions |
|---|---|---|
| `Keeper.tla` | The `Keeper<T>` table and the pure resolution steps | Operators, with no state. `Handle` and `ConfigureContainerName` (composition.rs 269-284, 370-378), `ValidateCompositionHandlers` (runner.rs 825-856), `ResolveFinalContainerName`, `TryHandle`, `SortRunningContainersIntoInsertionOrder`, `ResolveNamedVolumes`, `InjectError` and `ResolveInjectContainerNameEnv`. `Loop` is the Rust `for` loop that threads an accumulator. |
| `MCKeeper.tla` | Checks the Keeper operators | The state is one input: compositions, each an image repository with an optional user-provided name, inject lists, a user-preset env and a completion order. It is compared with reference definitions written directly from the declaration list. |
| `MCNamedVolumes.tla` | Checks `resolve_named_volumes` | The state is one input: named volume lists per composition. |
| `DockerTestRun.tla` | `run_impl` end to end | One action per await point. `conf` is the run's configuration, chosen in `Init`. `pc` is where `run_impl` is. `task[c]` is the progress of `PendingContainer::start` for container `c`. `engine[c]`, `network`, `selfOnNet` and `volume` are the daemon's state. `cleanup` is the cleanup vector handed to teardown, `err` the error returned, and `hist` the record of what was created and what teardown issued. |
| `RunLifecycle.tla` | What one run promises about the resources it owns | An abstract specification with no scheduling, readiness, inspection or logs. `phase` is setup, test, teardown or done; `owned`, `net` and `vol` are the run's containers, network and named volume. Resources are created only during setup and released only during teardown, as the prune table (`Mode`) allows. A setup failure counts as a failed run. |
| `StaticPool.tla` | One Dynamic static container shared by concurrent tests | `rpc[r]` is where run `r` is, `held` the runs holding a reference (the reference count), `status` the container on the daemon, and `lock` the run holding the identity's lock across a daemon call. The actions are `CreateStatic`, `StartStatic`, `StartDone`, `RunTest`, `Release` and `RemoveDone`. The run's own network and containers are left to `DockerTestRun`. |
| `LogForwarding.tla` | `handle_logs` with `handle_log` and `handle_log_line` | `opts[c]` is the log options of container `c` and `failed` the test outcome, both chosen in `Init`. `i` and `pc` are where the loop is, `file` whether the log file is open, and `pos` the lines read from the current stream. `read`, `ended` and `out` record the lines delivered, the streams read to their end and the lines written with their sink. The actions are `NextContainer` (runner.rs 364-394), `OpenFile` (container.rs 185-202), `ReadLine` (204-213, with `Sink`, the match of `handle_log_line`, 100-166) and `StreamEnd` (214-217). |
| `MCLogForwarding.tla` | Instance for TLC | Two containers and every `LogOptions` value. |
| `MCStaticPool.tla` | Instance for TLC | Three runs, and two for the leak run. |
| `MCDockerTestRun.tla` | Instance for TLC | Three compositions `db`, `cache` and `app`, the end-to-end example of spec section 8. `app` either injects `db`'s name as `DB_HOST` or injects an undeclared handle. |

Correspondence of the `DockerTestRun` actions to the code:

- **Resolve.** Covers runner.rs 183-205.
- **CreateNetwork and AddSelfToNetwork.** Cover 477-527.
- **CreateContainer.** One iteration of 541-566. `NextToCreate` is the next composition that yields a container; External static compositions (`StaticExternal`) yield `None` and are skipped. `CreateOutcomes` stands for `Composition::create` (composition.rs 287-363): a refused composition whose pull failed, or a failed `create_container`.
- **HandToTeardown.** The two `match` arms of `run_impl` (210-227) that hand the containers of a creation or start error to teardown.
- **StartContainers.** Covers 568-619: snapshot, partition, cleanup vector and spawn.
- **StrictStart and StrictReady.** The two awaits of `start_internal` in the Strict loop: `StrictStart` is the `start_container` call (container.rs 383-403, called from runner.rs 966) and `StrictReady` is `wait_for_ready` (container.rs 404-409). `NextStrict` is the loop order with its `break` (runner.rs 965-974).
- **RelaxedStart and RelaxedReady.** The same two awaits inside a spawned task. They are enabled until `run_impl` returns and the runtime drops the task.
- **WaitForRelaxed.** Covers 620-651 and `wait_for_relaxed_containers`: the dropped handles, `join_all` in spawn order, the first error and the sort. On success `run_impl` then appends the External static containers to `kept` (229-234, `ExternalContainers`).
- **InspectContainer, RunTestBody and HandleLogs.** The rest of `run_impl`. The test body resolves a handle through `DockerOperations::handle`, which panics on any `try_handle` failure (`HandlePanics`). `HandleLogOutcomes` stands for `CleanupContainer::handle_log` (container.rs 168-218).
- **Teardown, StopContainer, RemoveContainer and JoinAllDone.** The prune table and the `join_all` of stop or remove calls.
- **TeardownNetwork.** `teardown_network`. The daemon refuses the removal while a container runs on the network or the dockertest container is still connected.
- **RemoveVolumes.** Refused by the daemon while a container that mounts the volume exists.

Every daemon call has a success and a failure outcome, chosen with `\E ok \in BOOLEAN`.

**Refinement.** `DockerTestRun` refines `RunLifecycle`. The mapping `Phase` sends `pc` to the four phases. `owned` is the set of the run's own containers that exist on the daemon. `net` and `vol` are `network` and `volume`, and `strategy` is `conf.prune`. One detailed step can be two abstract ones: the last network or volume release is also the return. The abstract `RemoveNetwork` and `RemoveVolume` allow that.

**Static pool.** `StaticPool` takes the run-side calls from the code:

- `CreateStatic` is the creation in `create_containers` (runner.rs 541-553).
- `StartStatic` is the dispatch of `PendingContainer::start` (container.rs 375-376).
- `Release` is `STATIC_CONTAINERS.cleanup`, which `Runner::teardown` calls for every static container of the cleanup vector, whatever the prune strategy. Its reference counting is in the pool and is modelled from the spec.
- `RunTest` is inspection, the test body and `handle_logs` (runner.rs 318-343). With `LogErrors`, a log write may fail, and `?` returns before teardown.

The pool itself is in `static_container.rs`, which is not under `src/`. It is modelled from spec sections 4.4, 5 and 9: a reference count per identity, behind a lock that serializes the start and cleanup decisions. The lock is held across the daemon call, and the last release removes the container. These definitions are marked `spec_modelled` in PROJECT.json.

## Runs

| Run | Expect | What it shows |
|---|---|---|
| `keeper_resolution` (MCKeeper.cfg) | pass | See below. |
| `named_volumes` (MCNamedVolumes.cfg) | pass | Every reference to a bare volume name yields the same `NAME-ID`, and teardown receives each name once (spec §8). |
| `run_safety` (MCDockerTestRun.cfg) | pass | See below. |
| `add_self_error_skips_teardown` | violation | `add_self_to_network` fails after the network was created; `?` returns without teardown (runner.rs 500, 208). |
| `add_self_error_masks_network_error` | violation | The add_self error replaces an earlier create_network error, although spec §7 says the first error is reported. |
| `detached_relaxed_restart` | violation | After a Strict failure, a detached Relaxed task starts its container after StopOnFailure teardown stopped it, so the run ends with it running. |
| `external_shifts_handles` (MCExternalShiftsHandles.cfg) | violation | An External static composition declared first is skipped by creation and appended after the sort. `kept` is shifted, and handle `db` resolves to the `cache` container (runner.rs 234, 552). |
| `static_pool` (MCStaticPool.cfg) | pass | Three tests share a static container. No teardown removes it while another test holds a reference or is testing (`NoRemovalWhileInUse`). Symmetry over the three runs is used, since the run checks only invariants. |
| `static_reference_leak` (MCStaticReferenceLeak.cfg) | violation | Two tests declare the static container. In the trace the first test's create fails and the second test creates, starts and tests it; its log write fails, and `?` at runner.rs 343 returns before teardown. Its reference is never released, so the container is never removed (`ReferencesDrain`). |
| `log_forwarding` (MCLogForwarding.cfg) | pass | `handle_logs` reads only the containers whose options apply, in cleanup order, and writes every stdout and stderr line, in order, to the sink its action names. Ok means every applicable stream was read to its end; an error of one container leaves every later container's logs unread (`LogsForwardedAsConfigured`). |
| `network_removed_while_containers_exist` | violation | `remove_network` is called after a forced container removal failed, although spec §8 says it never is while a container exists. |

`keeper_resolution` checks four things:

- A unique handle resolves to its declaration index.
- A duplicate handle always fails with a collision.
- An unknown handle is not found.
- Injection succeeds exactly when every injected handle is unique; each key then holds the finalized name named by its last pair, and otherwise the first bad composition is reported.

It also checks that the sort restores declaration order for every completion order.

`run_safety` checks the following over every Strict/Relaxed assignment, prune strategy, external or own network, inside or outside a container, log policy and daemon failure:

- Teardown follows the prune table for everything created (`TeardownFollowsPruneTable`).
- The reported start error is the Strict one, otherwise the first failed Relaxed one in declaration order (`StartErrorPriority`).
- Handles resolve to their own container whatever the start interleaving (`HandlesResolveToTheirContainer`).
- Every behaviour of `run_impl`, under every configuration and daemon failure, is a behaviour of `RunLifecycle` (`LifecycleSpec`, the refinement).

Every property of a passing run has a mutant in PROJECT.json. A mutant is a plausible bug in the mapped code that TLC finds violating the property. Examples:

- a 0-based index;
- the last duplicate handle winning;
- collisions ignored by the injection check;
- a missing sort;
- the last relaxed error kept instead of the first;
- Relaxed containers left out of the cleanup vector;
- creation indexed by count, past the last composition;
- Running containers left running after a passing run (which breaks the refinement);
- a pool release that removes the container with one holder left (an off-by-one);
- a release that skips runs whose static start failed;
- a log loop that returns at a skipped container instead of continuing.

## Bounds

**Keeper checks.** One repository `pg/db` and the user names `pg_db` and `pg/db`, so a handle can come from a repository or from a user name, and two handles can differ only by the `/` that the container name replaces. Together with one unknown handle, there are up to three compositions, one env key and up to two inject pairs in all. This covers:

- no duplicate and a duplicate;
- a handle declared three times;
- an undeclared handle;
- two pairs on the same key, and a pair on a user-set key;
- all 3! completion orders.

**Named volumes.** Two names and up to three references over up to three compositions. This includes reuse within one composition and across compositions.

**Runs.** Three containers give every Strict/Relaxed mix, including a Strict container after a Relaxed one, two Relaxed failures (for error priority) and a failure in the middle of the Strict loop. One volume, mounted by the first container, makes volume removal depend on container removal. `run_safety` has 441,120 distinct states and runs in about 10 s. `run_safety` also checks the refinement on that instance.

**External statics.** `MCExternalShiftsHandles.cfg` declares the first of the three compositions External. That is the smallest case where the appended container lands at a different index than it was declared at.

**Logs.** Two containers, each with no options or any of the 24 `LogOptions` values, both test outcomes, and streams of up to two lines. This covers a skipped container before an applicable one, a failure in the first container with a second that applies, and a file action after a stdout one. 265,460 distinct states, in a few seconds.

**Static pool.** Three runs. This is enough for a run to reuse the container while a second starts it, and for a third to release while two others still hold it. It also covers a failed start, a failed create and a failed removal. The leak run needs only two runs: one that leaks and one that would have been the last holder. `static_pool` checks invariants only, so the symmetry over the runs is sound; the leak run checks a liveness property and uses none.

## Fairness

`StaticPool` assumes weak fairness of each run. Every test runs on its own thread and runtime, and the pool's lock queues its waiters.

`DockerTestRun` assumes no fairness: its runs check invariants and the refinement only. Whether a run returns depends on `wait_for_ready` ending, which lies in the WaitFor strategies outside the modelled sources; the hazard list records this.

## Not modelled

- **Internal static containers, several static identities and the static container's network attachment.** `StaticPool` has one Dynamic identity, and does not model the connection of the static container to each run's network. Its code is not under `src/`, and `src/src/composition.rs` is an older version than the one `runner.rs` calls: its `create` takes two arguments and returns no `Option`.
- **StaticPool and DockerTestRun are separate modules.** `StaticPool` repeats the run-side steps that matter to the pool: create, start, test with its log error and release. The `static_reference_leak` run shows the leak caused by the early return at runner.rs 343. Composing the two modules in full would multiply `run_safety`'s state space by the pool's state space.
- **JoinError of a panicking Relaxed task.** `wait_for_relaxed_containers` turns it into an error for that container (runner.rs 1009-1045). This has the same effect as the failure outcome of `RelaxedReady`, which is modelled.
- **Image pulling, the builder API, the `From` conversions and `build.rs`.** These are I/O or value construction. `build.rs` is a loop of `docker build` commands.
- **The bytes of a log line.** `LogForwarding` keeps a line's kind only. `write` may write part of a large message and its count is discarded; this is not modelled. `DockerTestRun` keeps only the success or failure of `handle_logs` (`HandleLogOutcomes`), and `LogForwarding` is checked separately.
- **Random name suffixes.** They are taken to be distinct.

## Plan for further work

- A duplicate handle in the end-to-end instance, so that `DockerOperations::handle` panics in the test body.
- Several static identities and Internal static containers.

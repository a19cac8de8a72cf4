------------------------------- MODULE Keeper -------------------------------
(***************************************************************************)
(* The handle bookkeeping of src/src/runner.rs: the Keeper<T> table that    *)
(* DockerTest carries from Composition through PendingContainer to          *)
(* RunningContainer, and the pure resolution steps of run_impl that work    *)
(* on it.  Every operator here is a function of its arguments; the state    *)
(* machines that use them are DockerTestRun and MCKeeper.                   *)
(*                                                                         *)
(* A Keeper is a record                                                    *)
(*   [lookup_collisions : SUBSET Handle,                                    *)
(*    lookup_handlers   : a function from handle to index into kept,        *)
(*    kept              : a sequence of entities]                           *)
(* Indices are 1-based here where the Rust code is 0-based.                *)
(***************************************************************************)
EXTENDS Integers, Sequences, SequencesExt, TLC

(***************************************************************************)
(* A `for i in 0..n` loop of the Rust code threading an accumulator:      *)
(* Loop(Body, acc, 1, n) applies Body(acc, i) for i = 1, ..., n in order.  *)
(***************************************************************************)
RECURSIVE Loop(_, _, _, _)
Loop(Body(_, _), acc, i, n) ==
  IF i > n THEN acc ELSE Loop(Body, Body(acc, i), i + 1, n)

(***************************************************************************)
(* The same tables over a new kept vector: create_containers and            *)
(* start_containers build Keeper<PendingContainer> and                      *)
(* Keeper<RunningContainer> by moving lookup_collisions and                 *)
(* lookup_handlers over unchanged.                                          *)
(***************************************************************************)
Rekeep(keeper, kept) ==
  [lookup_collisions |-> keeper.lookup_collisions,
   lookup_handlers   |-> keeper.lookup_handlers,
   kept              |-> kept]

(***************************************************************************)
(* Runner::validate_composition_handlers: one pass over the declared        *)
(* handles; the first occurrence of a handle claims its index, every later  *)
(* occurrence puts the handle into lookup_collisions (it keeps its map      *)
(* entry, and both entities stay in kept).                                  *)
(***************************************************************************)
ValidateCompositionHandlersZeroBased(handles, kept) ==
  LET Step(acc, i) ==
        IF handles[i] \in DOMAIN acc.lookup_handlers
        THEN [acc EXCEPT !.lookup_collisions = @ \cup {handles[i]}]
        ELSE [acc EXCEPT !.lookup_handlers = @ @@ (handles[i] :> i - 1)]
      Empty == [lookup_collisions |-> {}, lookup_handlers |-> <<>>]
  IN  Rekeep(Loop(Step, Empty, 1, Len(handles)), kept)

ValidateCompositionHandlersLastWins(handles, kept) ==
  LET Step(acc, i) ==
        [acc EXCEPT !.lookup_handlers = (handles[i] :> i) @@ @]
      Empty == [lookup_collisions |-> {}, lookup_handlers |-> <<>>]
  IN  Rekeep(Loop(Step, Empty, 1, Len(handles)), kept)

ValidateCompositionHandlers(handles, kept) ==
  LET Step(acc, i) ==
        IF handles[i] \in DOMAIN acc.lookup_handlers
        THEN [acc EXCEPT !.lookup_collisions = @ \cup {handles[i]}]
        ELSE [acc EXCEPT !.lookup_handlers = @ @@ (handles[i] :> i)]
      Empty == [lookup_collisions |-> {}, lookup_handlers |-> <<>>]
  IN  Rekeep(Loop(Step, Empty, 1, Len(handles)), kept)

(***************************************************************************)
(* Composition::handle: the user-provided container name if there is one,  *)
(* else the repository of the image.  A composition is a record with the   *)
(* fields repository and user_name, an Option as a sequence of length at  *)
(* most one.                                                               *)
(***************************************************************************)
Handle(comp) ==
  IF comp.user_name = <<>> THEN comp.repository ELSE Head(comp.user_name)

(***************************************************************************)
(* Composition::configure_container_name: the same choice of user name or *)
(* repository, with every '/' replaced by '_' (the function replaceSlash, *)
(* given for the names of an instance), between the run's namespace and   *)
(* the suffix.  The namespace is one value for the whole run and is left  *)
(* out.                                                                    *)
(***************************************************************************)
ConfigureContainerName(comp, replaceSlash, suffix) ==
  [comp EXCEPT !.name = <<replaceSlash[Handle(comp)], suffix>>]

(***************************************************************************)
(* Runner::resolve_final_container_name: every composition is configured  *)
(* with a fresh random suffix of 20 characters.  The suffix is abstracted  *)
(* to the composition's index, i.e. suffixes are taken to be distinct.     *)
(***************************************************************************)
ResolveFinalContainerName(keeper, replaceSlash) ==
  Rekeep(keeper, [c \in 1..Len(keeper.kept) |->
                    ConfigureContainerName(keeper.kept[c], replaceSlash, c)])

(***************************************************************************)
(* DockerOperations::try_handle.  A collided handle fails first, then an    *)
(* unknown one; otherwise kept[index] is returned.  Indexing a Vec out of   *)
(* its bounds panics in Rust: that outcome is "panic".                      *)
(***************************************************************************)
TryHandle(keeper, h) ==
  IF h \in keeper.lookup_collisions
  THEN [status |-> "collision", value |-> 0]
  ELSE IF h \notin DOMAIN keeper.lookup_handlers
  THEN [status |-> "not_found", value |-> 0]
  ELSE IF keeper.lookup_handlers[h] > Len(keeper.kept)
  THEN [status |-> "panic", value |-> 0]
  ELSE [status |-> "ok", value |-> keeper.kept[keeper.lookup_handlers[h]]]

\* DockerOperations::handle: any failure of try_handle panics the test body.
HandlePanics(keeper, h) == TryHandle(keeper, h).status # "ok"

(***************************************************************************)
(* sort_running_containers_into_insertion_order: an (unstable) sort of      *)
(* running by the position of each id in insertion_order_ids.  Ids are      *)
(* unique, so the rank of an element is the number of elements with a       *)
(* smaller position; position() returning None is the unwrap panic, which  *)
(* never arises since every running id was taken from that vector.          *)
(***************************************************************************)
Position(ids, x) == SelectInSeq(ids, LAMBDA y : y = x)

SortRunningContainersUnsorted(running, insertion_order_ids) == running

SortRunningContainersIntoInsertionOrder(running, insertion_order_ids) ==
  LET Rank(x) == Cardinality({y \in ToSet(running) :
                   Position(insertion_order_ids, y)
                     < Position(insertion_order_ids, x)}) + 1
  IN  [i \in 1..Len(running) |->
         CHOOSE x \in ToSet(running) : Rank(x) = i]

(***************************************************************************)
(* Runner::resolve_named_volumes.  vols[c] is the sequence of bare volume   *)
(* names Composition c declares; the suffixed name                          *)
(* "NAME-DOCKERTEST_ID" is the pair <<NAME, id>>.  The first reference to a *)
(* name creates its suffixed name and memoises it; later references reuse   *)
(* the memo.  named_volumes is the set of memoised suffixed names.          *)
(***************************************************************************)
ResolveNamedVolumesBareReuse(vols, id) ==
  LET StepVol(acc, v) ==
        IF v \in DOMAIN acc.memo
        THEN [acc EXCEPT !.out = Append(@, v)]
        ELSE [memo |-> acc.memo @@ (v :> <<v, id>>),
              out  |-> Append(acc.out, <<v, id>>)]
      StepComp(acc, c) ==
        LET r == Loop(LAMBDA a, j : StepVol(a, vols[c][j]),
                      [memo |-> acc.memo, out |-> <<>>], 1, Len(vols[c]))
        IN  [memo |-> r.memo, final |-> Append(acc.final, r.out)]
      res == Loop(StepComp, [memo |-> <<>>, final |-> <<>>], 1, Len(vols))
  IN  [final_named_volume_names |-> res.final,
       named_volumes            |-> Range(res.memo)]

ResolveNamedVolumes(vols, id) ==
  LET StepVol(acc, v) ==
        IF v \in DOMAIN acc.memo
        THEN [acc EXCEPT !.out = Append(@, acc.memo[v])]
        ELSE [memo |-> acc.memo @@ (v :> <<v, id>>),
              out  |-> Append(acc.out, <<v, id>>)]
      StepComp(acc, c) ==
        LET r == Loop(LAMBDA a, j : StepVol(a, vols[c][j]),
                      [memo |-> acc.memo, out |-> <<>>], 1, Len(vols[c]))
        IN  [memo |-> r.memo, final |-> Append(acc.final, r.out)]
      res == Loop(StepComp, [memo |-> <<>>, final |-> <<>>], 1, Len(vols))
  IN  [final_named_volume_names |-> res.final,
       named_volumes            |-> Range(res.memo)]

(***************************************************************************)
(* Runner::resolve_inject_container_name_env over a Keeper<Composition>     *)
(* whose kept entries are records [name, env, inject]: inject is the        *)
(* sequence of <<handle, env key>> pairs and env a function from env key.   *)
(* First pass: every pair of every composition, in order, must name a       *)
(* handle that is neither collided nor unknown, else the whole resolution   *)
(* fails naming that composition and handle.  Second pass: each pair        *)
(* inserts the target's finalized container name at its key (a later pair  *)
(* overwrites an earlier one, and a pre-existing value is overwritten).     *)
(***************************************************************************)
InjectErrorUnknownOnly(keeper) ==
  LET Bad(p) == p[1] \notin DOMAIN keeper.lookup_handlers
      BadIn(c) == SelectInSeq(keeper.kept[c].inject, Bad)
      culprit  == SelectInSeq([c \in 1..Len(keeper.kept) |-> c],
                              LAMBDA c : BadIn(c) # 0)
  IN  IF culprit = 0 THEN <<>>
      ELSE <<culprit, keeper.kept[culprit].inject[BadIn(culprit)][1]>>

InjectError(keeper) ==
  LET Bad(p) == \/ p[1] \in keeper.lookup_collisions
                \/ p[1] \notin DOMAIN keeper.lookup_handlers
      BadIn(c) == SelectInSeq(keeper.kept[c].inject, Bad)
      culprit  == SelectInSeq([c \in 1..Len(keeper.kept) |-> c],
                              LAMBDA c : BadIn(c) # 0)
  IN  IF culprit = 0 THEN <<>>
      ELSE <<culprit, keeper.kept[culprit].inject[BadIn(culprit)][1]>>

ResolveInjectContainerNameEnv(keeper) ==
  LET Target(h) == keeper.kept[keeper.lookup_handlers[h]].name
      Inject(env, p) == [k \in DOMAIN env \cup {p[2]} |->
                           IF k = p[2] THEN Target(p[1]) ELSE env[k]]
      Apply(c) == LET inj == keeper.kept[c].inject
                  IN  [keeper.kept[c] EXCEPT !.env =
                         Loop(LAMBDA e, j : Inject(e, inj[j]), @, 1, Len(inj))]
  IN  IF InjectError(keeper) # <<>>
      THEN [ok |-> FALSE, error |-> InjectError(keeper), keeper |-> keeper]
      ELSE [ok |-> TRUE, error |-> <<>>,
            keeper |-> Rekeep(keeper, [c \in 1..Len(keeper.kept) |-> Apply(c)])]
=============================================================================
